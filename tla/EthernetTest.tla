---------------------------- MODULE EthernetTest ----------------------------
(***************************************************************************)
(* The program software/ethernet_test: main.c resets the PHY with the      *)
(* timer of sysctl.v (libnet/mdio.c), waits for the link, and asks for an  *)
(* IP address with dhcp.c, which runs inside the callback of microudp.c.   *)
(* Here a frame arrives whole and send_packet is one step: MicroUdp is     *)
(* about how the MAC does that.  The PHY, the DHCP servers and the other   *)
(* boards are external.                                                    *)
(***************************************************************************)
EXTENDS Integers, Sequences, FiniteSets, SequencesExt

CONSTANTS
    Servers,                \* each has one address to lease to each board
    Delay,                  \* CSR_FREQUENCY >> 2
    MaxTries, MaxTimeout,   \* 5 and 2000000 in microudp.c
    MaxForeign,             \* bound: replies to other boards or to an earlier start
    MaxDrops                \* bound: times that the link goes down

ASSUME TestAssumption == /\ Delay \in Nat \ {0} /\ MaxTries \in Nat \ {0}
                         /\ MaxTimeout \in Nat /\ MaxForeign \in Nat /\ MaxDrops \in Nat

VARIABLES
    stack,                              \* the calls under way, main first
    setup, en0, counter0, compare0,     \* CSR_MINIMAC_SETUP; timer 0
    phy,                                \* the PHY
    slots,                              \* the receive slots
    cached_ip, cached_mac, my_ip, dhcp_state, offered_ip,
    net                                 \* servers, frames under way, and history

vars == <<stack, setup, en0, counter0, compare0, phy, slots, cached_ip, cached_mac, my_ip,
          dhcp_state, offered_ip, net>>
timerVars == <<en0, counter0, compare0>>
ethVars == <<setup, timerVars, phy>>
ipVars == <<cached_ip, cached_mac, my_ip, dhcp_state, offered_ip>>

(* Boards: this one; a peer that runs this program too, whose dhcp_xid is  *)
(* the same, the first value of rand with its seed 0; another.             *)
Boards == {"me", "peer", "other"}
Lease == [server : Servers, board : Boards]
NoIp == [server |-> "0.0.0.0", board |-> "me"]
Frame == [type : {"offer", "ack", "nak"}, ip : Lease] \cup {[type |-> "arp_reply"]}
Slot == [state : {"EMPTY", "LOADED"}] \cup [state : {"PENDING"}, frame : Frame, seen : BOOLEAN]
Loaded == [state |-> "LOADED"]

MainPcs == {"reset", "unreset", "disable_1000", "soft_reset", "soft_wait", "link", "start",
            "dhcp_boot", "discover_send", "boot_loop", "loop"}
Pcs == MainPcs \cup {"delay", "compare", "control", "wait", "resolve", "try", "poll", "check",
                     "service", "slot0", "free0", "slot1", "free1", "request_send"}
Call == [at : Pcs, tries : 0..MaxTries, timeout : 0..MaxTimeout]

TestTypeOK ==
    /\ stack \in Seq(Call) /\ Len(stack) \in 1..6 /\ stack[1].at \in MainPcs
    /\ setup \in BOOLEAN /\ en0 \in BOOLEAN /\ counter0 \in 0..Delay /\ compare0 \in {-1, Delay}
    /\ phy \in [held : 0..Delay, rested : 0..Delay, resetting : BOOLEAN, gigabit : BOOLEAN,
                link : {"down", "100", "1000"}, drops : 0..MaxDrops]
    /\ slots \in [0..1 -> Slot]
    /\ cached_ip \in {"none", "broadcast"} /\ cached_mac \in BOOLEAN
    /\ my_ip \in Lease \cup {NoIp} /\ dhcp_state \in {"OFF", "SELECTING", "REQUESTING", "BOUND"}
    /\ offered_ip \in Lease \cup {NoIp}
    /\ net \in [answers : BOOLEAN, zero : SUBSET Servers, air : SUBSET Frame,
                heard : SUBSET [type : {"discover", "request"}, ip : Lease],
                leased : SUBSET Lease, foreign : SUBSET Lease, count : 0..MaxForeign,
                trouble : {"none", "lost", "overwritten", "nak", "unsent"}]

(* Some host answers an ARP request for 255.255.255.255 or none does; some *)
(* servers address their replies to 0.0.0.0, others to 255.255.255.255 as  *)
(* the flag of the message asks or to the address they lease; and an       *)
(* earlier start of the board may have left a reply under way.             *)
Init ==
    /\ stack = <<[at |-> "reset", tries |-> 0, timeout |-> 0]>>
    /\ setup = FALSE /\ en0 = FALSE /\ counter0 = 0 /\ compare0 = -1
    /\ phy = [held |-> 0, rested |-> 0, resetting |-> FALSE, gigabit |-> TRUE, link |-> "down",
              drops |-> 0]
    /\ slots = [s \in 0..1 |-> [state |-> "EMPTY"]]
    /\ cached_ip = "none" /\ cached_mac = FALSE /\ my_ip = NoIp
    /\ dhcp_state = "OFF" /\ offered_ip = NoIp
    /\ \E answers \in BOOLEAN, zero \in SUBSET Servers,
          stale \in {{}} \cup {{f} : f \in [type : {"offer", "ack"}, ip : [server : Servers, board : {"me"}]]} :
           /\ Cardinality(stale) <= MaxForeign
           /\ net = [answers |-> answers, zero |-> zero, air |-> stale, heard |-> {},
                     leased |-> {}, foreign |-> {f.ip : f \in stale}, count |-> Cardinality(stale), trouble |-> "none"]

(* Steps of the innermost call.                                            *)
Top == stack[Len(stack)]
At(pc) == Top.at = pc
New(pc) == [at |-> pc, tries |-> 0, timeout |-> 0]
Goto(pc) == stack' = [stack EXCEPT ![Len(stack)].at = pc]
CallTo(pcs, next) == stack' = [stack EXCEPT ![Len(stack)].at = next] \o [i \in DOMAIN pcs |-> New(pcs[i])]
Return == stack' = Front(stack)
-----------------------------------------------------------------------------
(* eth_reset: the PHY is held in reset and left alone by eth_reset_delay,  *)
(* then told not to negotiate 1000 Mbps and restarted.                     *)
PhyReset == /\ \/ At("reset") /\ setup' = TRUE /\ CallTo(<<"delay">>, "unreset")
               \/ At("unreset") /\ setup' = FALSE /\ CallTo(<<"delay">>, "disable_1000")
            /\ phy' = IF setup' THEN [phy EXCEPT !.gigabit = TRUE, !.link = "down"] ELSE phy
            /\ UNCHANGED <<timerVars, slots, ipVars, net>>

(* Mutant: the counter is not cleared. *)
DelayCounter_Kept == /\ At("delay") /\ Goto("compare")
                     /\ UNCHANGED <<setup, timerVars, phy, slots, ipVars, net>>

DelayCounter == /\ At("delay") /\ Goto("compare")
                /\ counter0' = 0
                /\ UNCHANGED <<setup, en0, compare0, phy, slots, ipVars, net>>
DelayCompare == /\ At("compare") /\ Goto("control")
                /\ compare0' = Delay
                /\ UNCHANGED <<setup, en0, counter0, phy, slots, ipVars, net>>
DelayControl == /\ At("control") /\ Goto("wait")
                /\ en0' = TRUE
                /\ UNCHANGED <<setup, counter0, compare0, phy, slots, ipVars, net>>
DelayWait == /\ At("wait") /\ ~en0 /\ Return
             /\ UNCHANGED <<ethVars, slots, ipVars, net>>

(* The clock: timer 0 without automatic restart, and the time that the PHY *)
(* has been in reset and out of it, up to Delay.                           *)
Longer(n) == IF n < Delay THEN n + 1 ELSE n
Tick == /\ counter0' = IF en0 /\ counter0 # compare0 THEN counter0 + 1 ELSE counter0
        /\ en0' = (en0 /\ counter0 # compare0)
        /\ phy' = IF setup THEN [phy EXCEPT !.held = Longer(@)]
                  ELSE IF phy.held > 0 THEN [phy EXCEPT !.rested = Longer(@)] ELSE phy
        /\ UNCHANGED <<stack, setup, compare0, slots, ipVars, net>>

eth_disable_1000 == /\ At("disable_1000") /\ Goto("soft_reset")
                    /\ phy' = [phy EXCEPT !.gigabit = FALSE]
                    /\ UNCHANGED <<setup, timerVars, slots, ipVars, net>>
eth_soft_reset == \/ /\ At("soft_reset") /\ Goto("soft_wait")
                     /\ phy' = [phy EXCEPT !.resetting = TRUE, !.link = "down"]
                     /\ UNCHANGED <<setup, timerVars, slots, ipVars, net>>
                  \/ /\ At("soft_wait") /\ ~phy.resetting /\ Goto("link")
                     /\ UNCHANGED <<ethVars, slots, ipVars, net>>

(* The PHY ends its reset, and negotiates the best speed it may.           *)
PhyRestarts == /\ phy.resetting /\ ~setup
               /\ phy' = [phy EXCEPT !.resetting = FALSE]
               /\ UNCHANGED <<stack, setup, timerVars, slots, ipVars, net>>
PhyNegotiates == /\ phy.link = "down" /\ ~phy.resetting /\ ~setup
                 /\ phy' = [phy EXCEPT !.link = IF phy.gigabit THEN "1000" ELSE "100"]
                 /\ UNCHANGED <<stack, setup, timerVars, slots, ipVars, net>>
LinkDrops == /\ phy.link # "down" /\ phy.drops < MaxDrops
             /\ phy' = [phy EXCEPT !.link = "down", !.drops = @ + 1]
             /\ UNCHANGED <<stack, setup, timerVars, slots, ipVars, net>>

(* main: wait for the link, microudp_start, resolve the broadcast address, *)
(* dhcp_boot, and serve.                                                   *)
WaitLink == /\ At("link") /\ phy.link # "down" /\ Goto("start")
            /\ UNCHANGED <<ethVars, slots, ipVars, net>>
microudp_start == /\ At("start") /\ CallTo(<<"resolve">>, "dhcp_boot")
                  /\ slots' = [s \in 0..1 |-> Loaded]
                  /\ cached_ip' = "none" /\ cached_mac' = FALSE /\ my_ip' = NoIp
                  /\ UNCHANGED <<ethVars, dhcp_state, offered_ip, net>>
dhcp_discover == /\ At("dhcp_boot") /\ CallTo(<<"resolve">>, "discover_send")
                 /\ dhcp_state' = "SELECTING"
                 /\ UNCHANGED <<ethVars, slots, cached_ip, cached_mac, my_ip, offered_ip, net>>
ServeLoop == /\ \/ At("boot_loop") /\ IF dhcp_state = "BOUND" THEN Goto("loop")
                                      ELSE CallTo(<<"service">>, "boot_loop")
                \/ At("loop") /\ CallTo(<<"service">>, "loop")
             /\ UNCHANGED <<ethVars, slots, ipVars, net>>

First(trouble) == IF net.trouble = "none" THEN trouble ELSE net.trouble

(* microudp_send refuses when nobody has answered; what it sends may get   *)
(* lost.                                                                   *)
microudp_send(messages) ==
    IF ~cached_mac THEN net' = [net EXCEPT !.trouble = First("unsent")]
    ELSE \/ net' = [net EXCEPT !.heard = @ \cup messages]
         \/ net' = [net EXCEPT !.trouble = First("lost")]
DiscoverSend == /\ At("discover_send") /\ Goto("boot_loop")
                /\ microudp_send({[type |-> "discover", ip |-> [server |-> s, board |-> "me"]] : s \in Servers})
                /\ UNCHANGED <<ethVars, slots, ipVars>>
RequestSend == /\ At("request_send") /\ Return
               /\ microudp_send({[type |-> "request", ip |-> offered_ip]})
               /\ UNCHANGED <<ethVars, slots, ipVars>>
-----------------------------------------------------------------------------
(* microudp_arp_resolve of 255.255.255.255.                                *)
Resolve == /\ At("resolve")
           /\ IF cached_ip = "broadcast" /\ cached_mac
              THEN Return /\ UNCHANGED <<cached_ip, cached_mac>>
              ELSE Goto("try") /\ cached_ip' = "broadcast" /\ cached_mac' = FALSE
           /\ UNCHANGED <<ethVars, slots, my_ip, dhcp_state, offered_ip, net>>
Try == /\ At("try")
       /\ IF Top.tries = MaxTries THEN Return /\ UNCHANGED net
          ELSE /\ Goto("poll")
               /\ net' = IF net.answers THEN [net EXCEPT !.air = @ \cup {[type |-> "arp_reply"]}] ELSE net
       /\ UNCHANGED <<ethVars, slots, ipVars>>
(* Mutant: one poll too many. *)
Poll_OneMore ==
    /\ At("poll")
    /\ IF Top.timeout <= MaxTimeout THEN CallTo(<<"service">>, "check")
       ELSE stack' = [stack EXCEPT ![Len(stack)] = [at |-> "try", tries |-> Top.tries + 1, timeout |-> 0]]
    /\ UNCHANGED <<ethVars, slots, ipVars, net>>
Poll == /\ At("poll")
        /\ IF Top.timeout < MaxTimeout THEN CallTo(<<"service">>, "check")
           ELSE stack' = [stack EXCEPT ![Len(stack)] = [at |-> "try", tries |-> Top.tries + 1, timeout |-> 0]]
        /\ UNCHANGED <<ethVars, slots, ipVars, net>>
Check == /\ At("check")
         /\ IF cached_mac THEN Return
            ELSE stack' = [stack EXCEPT ![Len(stack)] = [at |-> "poll", tries |-> Top.tries, timeout |-> Top.timeout + 1]]
         /\ UNCHANGED <<ethVars, slots, ipVars, net>>

(* microudp_service, slot 0 and then slot 1.                               *)
Pending(s) == slots[s].state = "PENDING"
ServiceBegins == /\ At("service")
                 /\ IF Pending(0) \/ Pending(1) THEN Goto("slot0") ELSE Return
                 /\ UNCHANGED <<ethVars, slots, ipVars, net>>
PcOf(name, s) == CASE name = "slot" -> IF s = 0 THEN "slot0" ELSE "slot1"
                   [] name = "free" -> IF s = 0 THEN "free0" ELSE "free1"
SkipSlot(s) == /\ At(PcOf("slot", s)) /\ ~Pending(s)
               /\ IF s = 0 THEN Goto("slot1") ELSE Return
               /\ UNCHANGED <<ethVars, slots, ipVars, net>>

(* process_ip lets through what is for my_ip, which is 0.0.0.0 until the   *)
(* end, and dhcp_callback what has the xid of this program.                *)
ForCallback_AnyXid(f) == /\ f.type # "arp_reply" /\ f.ip.server \in net.zero
                         /\ my_ip = NoIp /\ dhcp_state # "OFF"
ForCallback(f) == /\ f.type # "arp_reply" /\ f.ip.server \in net.zero
                  /\ my_ip = NoIp /\ dhcp_state # "OFF"
                  /\ f.ip.board \in {"me", "peer"}

(* Mutant: the state stays. *)
dhcp_handle_offer_Stays(f, s) ==
    /\ offered_ip' = f.ip
    /\ CallTo(<<"request_send", "resolve">>, PcOf("free", s))
    /\ UNCHANGED <<cached_ip, cached_mac, my_ip, dhcp_state>>

dhcp_handle_offer(f, s) ==
    /\ offered_ip' = f.ip /\ dhcp_state' = "REQUESTING"
    /\ CallTo(<<"request_send", "resolve">>, PcOf("free", s))
    /\ UNCHANGED <<cached_ip, cached_mac, my_ip>>
dhcp_handle_ack(f, s) ==
    /\ my_ip' = f.ip /\ dhcp_state' = "BOUND"
    /\ Goto(PcOf("free", s))
    /\ UNCHANGED <<cached_ip, cached_mac, offered_ip>>
Ignore(f, s) ==
    /\ cached_mac' = (cached_mac \/ (f.type = "arp_reply" /\ cached_ip = "broadcast"))
    /\ Goto(PcOf("free", s))
    /\ UNCHANGED <<cached_ip, my_ip, dhcp_state, offered_ip>>

Process(s) ==
    /\ At(PcOf("slot", s)) /\ Pending(s)
    /\ slots' = [slots EXCEPT ![s].seen = TRUE]
    /\ LET f == slots[s].frame
           offer == ForCallback(f) /\ f.type = "offer" /\ dhcp_state = "SELECTING"
           ack == ForCallback(f) /\ f.type = "ack" /\ dhcp_state = "REQUESTING"
       IN \/ offer /\ dhcp_handle_offer(f, s)
          \/ ack /\ dhcp_handle_ack(f, s)
          \/ ~offer /\ ~ack /\ Ignore(f, s)
    /\ UNCHANGED <<ethVars, net>>

(* The slot is free, whatever has arrived in it since it was processed.    *)
FreeSlot(s) ==
    /\ At(PcOf("free", s))
    /\ IF s = 0 THEN Goto("slot1") ELSE Return
    /\ slots' = [slots EXCEPT ![s] = Loaded]
    /\ net' = IF Pending(s) /\ ~slots[s].seen THEN [net EXCEPT !.trouble = First("overwritten")]
              ELSE net
    /\ UNCHANGED <<ethVars, ipVars>>
-----------------------------------------------------------------------------
(* The network: a frame goes to the first free slot, or is lost; a server  *)
(* answers, and may refuse; others talk.                                   *)
Deliver(f) == /\ slots[1].state # "EMPTY"
              /\ LET free == {s \in 0..1 : slots[s].state = "LOADED"}
                     s == IF 0 \in free THEN 0 ELSE 1
                 IN IF free = {}
                    THEN /\ net' = [net EXCEPT !.air = @ \ {f}, !.trouble = First("lost")]
                         /\ UNCHANGED slots
                    ELSE /\ net' = [net EXCEPT !.air = @ \ {f}]
                         /\ slots' = [slots EXCEPT ![s] = [state |-> "PENDING", frame |-> f, seen |-> FALSE]]
              /\ UNCHANGED <<stack, ethVars, ipVars>>
LoseFrame(f) == /\ net' = [net EXCEPT !.air = @ \ {f}, !.trouble = First("lost")]
                /\ UNCHANGED <<stack, ethVars, slots, ipVars>>
ServerReplies(m) ==
    /\ \/ /\ m.type = "discover"
          /\ net' = [net EXCEPT !.heard = @ \ {m}, !.air = @ \cup {[type |-> "offer", ip |-> m.ip]}]
       \/ /\ m.type = "request" /\ m.ip.board = "me"
          /\ net' = [net EXCEPT !.heard = @ \ {m}, !.air = @ \cup {[type |-> "ack", ip |-> m.ip]},
                                !.leased = @ \cup {m.ip}]
       \/ /\ m.type = "request"
          /\ net' = [net EXCEPT !.heard = @ \ {m}, !.air = @ \cup {[type |-> "nak", ip |-> m.ip]},
                                !.trouble = First("nak")]
    /\ UNCHANGED <<stack, ethVars, slots, ipVars>>
OtherBoards ==
    /\ net.count < MaxForeign /\ slots[1].state # "EMPTY"
    /\ \E type \in {"offer", "ack"}, s \in Servers, b \in {"peer", "other"} :
           LET ip == [server |-> s, board |-> b]
           IN net' = [net EXCEPT !.count = @ + 1, !.air = @ \cup {[type |-> type, ip |-> ip]},
                                 !.foreign = @ \cup {ip}]
    /\ UNCHANGED <<stack, ethVars, slots, ipVars>>

PhyUp == PhyRestarts \/ PhyNegotiates
Delays == DelayCounter \/ DelayCompare \/ DelayControl \/ DelayWait
Service == ServiceBegins \/ \E s \in 0..1 : SkipSlot(s) \/ Process(s) \/ FreeSlot(s)
Main == PhyReset \/ Delays \/ eth_disable_1000 \/ eth_soft_reset \/ WaitLink \/ microudp_start
        \/ dhcp_discover \/ DiscoverSend \/ ServeLoop \/ RequestSend
Program == Main \/ Resolve \/ Try \/ Poll \/ Check \/ Service
Delivery == \E f \in net.air : Deliver(f)
Replies == \E m \in net.heard : ServerReplies(m)
Loss == \E f \in net.air : LoseFrame(f)
Environment == Tick \/ PhyUp \/ LinkDrops \/ Delivery \/ Replies \/ Loss \/ OtherBoards
Next == Program \/ Environment

(* The CPU and the clock run; the PHY comes up; the network delivers and   *)
(* the servers answer, or trouble says that they did not.                  *)
Fairness == WF_vars(Program) /\ WF_vars(Tick) /\ WF_vars(PhyUp) /\ WF_vars(Delivery) /\ WF_vars(Replies)
Spec == Init /\ [][Next]_vars /\ Fairness
-----------------------------------------------------------------------------
(* The PHY is only talked to after it was held in reset, and left alone,   *)
(* for a quarter of a second each, whatever the first delay left in the    *)
(* timer; and no frame goes over a link of 1000 Mbps, which the MAC cannot *)
(* follow, although the PHY negotiates by itself, also while main tells it *)
(* not to, and again whenever the link goes down.                          *)
PhyReady ==
    /\ stack[1].at \notin {"reset", "unreset"} /\ Len(stack) = 1 => phy.held = Delay /\ phy.rested = Delay
    /\ stack[1].at \in {"dhcp_boot", "discover_send", "boot_loop", "loop"} => phy.link # "1000"

(* An address is only adopted when a server has leased it to a board that  *)
(* runs this program, and with the help of a network that does more than   *)
(* it has to: the server replies to 0.0.0.0 although it was asked to       *)
(* broadcast, and somebody answers the ARP request for 255.255.255.255,    *)
(* unless the address was leased to an earlier start of the board or to a  *)
(* peer, from which nothing in dhcp_callback tells it apart.               *)
BoundSound ==
    dhcp_state = "BOUND" =>
        /\ my_ip.server \in net.zero /\ my_ip.board \in {"me", "peer"}
        /\ my_ip \in net.foreign \/ (my_ip \in net.leased /\ net.answers)

(* In such a network the program gets its address, although it asks once   *)
(* and is served from inside the service it is served by, unless a message *)
(* was lost, refused, never sent because the ARP reply came too late, or   *)
(* discarded with the slot of the offer, which is freed twice.             *)
Binds ==
    (stack[1].at = "dhcp_boot" /\ net.answers /\ net.zero # {})
        ~> (dhcp_state = "BOUND" \/ net.trouble # "none")
=============================================================================
