------------------------------ MODULE MicroUdp ------------------------------
(***************************************************************************)
(* The network stack software/libnet/microudp.c on the CPU, polling the    *)
(* pending register of Lm32Interrupt, over the Ethernet MAC Minimac, called *)
(* as by bios/main.c and ethernet_test/main.c: start, resolve addresses,   *)
(* then for ever send or not and service.  Every step of the program is an *)
(* edge of sys_clk; SysIdle is an edge between two steps.                  *)
(***************************************************************************)
EXTENDS Minimac, Lm32Interrupt

CONSTANTS
    Targets,                \* the addresses passed to microudp_arp_resolve, in order
    MaxTries, MaxTimeout,   \* 5 and 2000000 in microudp.c
    ArpBytes, UdpBytes,     \* lengths of the frames sent
    MaxSend                 \* bound: no UDP packet once so many frames were sent

(* Frames for another protocol or another address are "other".            *)
Types == {"arp_request", "arp_reply", "udp", "other"}

ASSUME UdpAssumption == /\ {"ETHRX", "ETHTX"} \subseteq Irqs
                        /\ Kinds \subseteq [type : Types, ip : STRING]
                        /\ Targets \in Seq(STRING)
                        /\ MaxTries \in Nat \ {0} /\ MaxTimeout \in Nat
                        /\ ArpBytes \in Counts \ {0} /\ UdpBytes \in Counts \ {0}
                        /\ FrameNibbles \cap {0, 1} = {}

VARIABLES
    pc, slot, rxlen,        \* where the program is; the slot it looks at; its length
    caller, after,          \* where microudp_service and send_packet return to
    resolved, tries, timeout,
    cached_ip, cached_mac,  \* the ARP cache; cached_mac is the reply it came from
    handed,                 \* history: the frames given to send_packet
    processed               \* history: the received frames that passed the CRC check

progVars == <<slot, rxlen, caller, after, resolved, tries, timeout, cached_ip, cached_mac,
              handed, processed>>
vars == <<macVars, irqVars, pc, progVars>>

Pcs == {"start_ack", "start_load", "resolve", "request", "try", "check", "main", "poll",
        "state", "count", "process", "free", "rx_ack", "txcount", "txwait", "txack"}

NoIp == "0.0.0.0"
SendRecord == [bytes : Counts, to : Frames \cup {0}]

UdpTypeOK ==
    /\ MacTypeOK /\ IrqTypeOK
    /\ pc \in Pcs /\ slot \in Slots /\ rxlen \in Counts
    /\ caller \in {"main", "check"} /\ after \in {"free", "try", "poll"}
    /\ resolved \in 0..Len(Targets) /\ tries \in 0..MaxTries-1 /\ timeout \in 0..MaxTimeout
    /\ cached_mac \in Frames \cup {0}
    /\ handed \in Seq(SendRecord) /\ processed \in Seq(Frames)

Init ==
    /\ MacInit /\ IrqInit
    /\ pc = "start_ack" /\ slot = 0 /\ rxlen = 0 /\ caller = "main" /\ after = "poll"
    /\ resolved = 0 /\ tries = 0 /\ timeout = 0
    /\ cached_ip = NoIp /\ cached_mac = 0
    /\ handed = <<>> /\ processed = <<>>

Lines == (IF irq_rx THEN {"ETHRX"} ELSE {}) \cup (IF irq_tx THEN {"ETHTX"} ELSE {})

(* A step of the program from one place to another: what it writes to the  *)
(* MAC, or the lines it acknowledges, and an edge.                         *)
Step(from, to) == pc = from /\ pc' = to
Bus(w) == SysClock(w) /\ IrqIdle(Lines) /\ UNCHANGED txb
Cpu == Bus(NoWrite)
irq_ack(mask) == SysClock(NoWrite) /\ WcsrIP(Lines, mask) /\ UNCHANGED txb
-----------------------------------------------------------------------------
(* microudp_start *)
StartAck == /\ Step("start_ack", "start_load")
            /\ irq_ack({"ETHRX", "ETHTX"})
            /\ UNCHANGED progVars

(* Mutant: only the first slot is loaded. *)
StartLoad_First == /\ Step("start_load", "resolve")
                   /\ Bus(WriteState(slot, "LOADED"))
                   /\ UNCHANGED progVars

StartLoad == /\ Step("start_load", IF slot = 0 THEN "start_load" ELSE "resolve")
             /\ Bus(WriteState(slot, "LOADED"))
             /\ slot' = 1 - slot
             /\ UNCHANGED <<rxlen, caller, after, resolved, tries, timeout, cached_ip,
                            cached_mac, handed, processed>>

(* send_packet: the frame is in the transmit buffer, its length in the     *)
(* register; then the program waits for the interrupt.                     *)
Fill(bytes, to, next) ==
    /\ handed' = Append(handed, [bytes |-> bytes, to |-> to])
    /\ txb' = Len(handed) + 1
    /\ after' = next
    /\ SysClock(NoWrite) /\ IrqIdle(Lines)

SendCount == /\ Step("txcount", "txwait")
             /\ Bus(WriteTxCount(handed[Len(handed)].bytes))
             /\ UNCHANGED progVars

SendWait == /\ Step("txwait", "txack") /\ "ETHTX" \in ip
            /\ Cpu
            /\ UNCHANGED progVars

(* Mutant: the interrupt stays pending. *)
SendAck_Forgotten == Step("txack", after) /\ Cpu /\ UNCHANGED progVars

SendAck == /\ Step("txack", after)
           /\ irq_ack({"ETHTX"})
           /\ UNCHANGED progVars
-----------------------------------------------------------------------------
(* microudp_arp_resolve *)
target == Targets[resolved + 1]

Resolved == /\ pc = "resolve"
            /\ IF resolved = Len(Targets) THEN pc' = "main" /\ resolved' = resolved
               ELSE /\ cached_ip = target /\ cached_mac # 0
                    /\ pc' = "resolve" /\ resolved' = resolved + 1
            /\ Cpu
            /\ UNCHANGED <<slot, rxlen, caller, after, tries, timeout, cached_ip, cached_mac,
                           handed, processed>>

Resolve == /\ Step("resolve", "request")
           /\ resolved < Len(Targets) /\ ~(cached_ip = target /\ cached_mac # 0)
           /\ cached_ip' = target /\ cached_mac' = 0 /\ tries' = 0
           /\ Cpu
           /\ UNCHANGED <<slot, rxlen, caller, after, resolved, timeout, handed, processed>>

Request == /\ Step("request", "txcount")
           /\ Fill(ArpBytes, 0, "try")
           /\ timeout' = 0
           /\ UNCHANGED <<slot, rxlen, caller, resolved, tries, cached_ip, cached_mac, processed>>

Try == /\ Step("try", "poll") /\ timeout < MaxTimeout
       /\ caller' = "check"
       /\ Cpu
       /\ UNCHANGED <<slot, rxlen, after, resolved, tries, timeout, cached_ip, cached_mac,
                      handed, processed>>

TryAgain == /\ pc = "try" /\ timeout = MaxTimeout
            /\ IF tries < MaxTries - 1
               THEN pc' = "request" /\ tries' = tries + 1 /\ resolved' = resolved
               ELSE pc' = "resolve" /\ tries' = tries /\ resolved' = resolved + 1
            /\ Cpu
            /\ UNCHANGED <<slot, rxlen, caller, after, timeout, cached_ip, cached_mac, handed,
                           processed>>

(* Mutant: the services are not counted. *)
Check_Uncounted ==
    /\ pc = "check"
    /\ IF cached_mac # 0
       THEN pc' = "resolve" /\ resolved' = resolved + 1
       ELSE pc' = "try" /\ resolved' = resolved
    /\ Cpu
    /\ UNCHANGED <<slot, rxlen, caller, after, tries, timeout, cached_ip, cached_mac, handed, processed>>

Check == /\ pc = "check"
         /\ IF cached_mac # 0
            THEN pc' = "resolve" /\ resolved' = resolved + 1 /\ timeout' = timeout
            ELSE pc' = "try" /\ timeout' = timeout + 1 /\ resolved' = resolved
         /\ Cpu
         /\ UNCHANGED <<slot, rxlen, caller, after, tries, cached_ip, cached_mac, handed,
                        processed>>
-----------------------------------------------------------------------------
(* The test loop: microudp_send, which refuses when no address is cached,  *)
(* or nothing; then microudp_service.                                      *)
MainSend == /\ Step("main", "txcount") /\ Len(handed) < MaxSend
            /\ cached_mac # 0
            /\ Fill(UdpBytes, cached_mac, "poll")
            /\ caller' = "main"
            /\ UNCHANGED <<slot, rxlen, resolved, tries, timeout, cached_ip, cached_mac, processed>>

MainService == /\ Step("main", "poll")
               /\ caller' = "main"
               /\ Cpu
               /\ UNCHANGED <<slot, rxlen, after, resolved, tries, timeout, cached_ip,
                              cached_mac, handed, processed>>
-----------------------------------------------------------------------------
(* microudp_service: slot 0, then slot 1, then the acknowledgement.        *)
NextSlot == IF slot = 0 THEN pc' = "state" /\ slot' = 1 ELSE pc' = "rx_ack" /\ slot' = 1

Poll == /\ pc = "poll"
        /\ IF "ETHRX" \in ip THEN pc' = "state" /\ slot' = 0 ELSE pc' = caller /\ slot' = slot
        /\ Cpu
        /\ UNCHANGED <<rxlen, caller, after, resolved, tries, timeout, cached_ip, cached_mac,
                       handed, processed>>

ReadState == /\ pc = "state"
             /\ IF slot_state[slot] = "PENDING" THEN pc' = "count" /\ slot' = slot ELSE NextSlot
             /\ Cpu
             /\ UNCHANGED <<rxlen, caller, after, resolved, tries, timeout, cached_ip,
                            cached_mac, handed, processed>>

ReadCount == /\ Step("count", "process")
             /\ rxlen' = sys_rx_count[slot]
             /\ Cpu
             /\ UNCHANGED <<slot, caller, after, resolved, tries, timeout, cached_ip, cached_mac,
                            handed, processed>>

(* The frame in the slot, and whether its CRC is right: the bytes up to    *)
(* rxlen are those of one frame, all of them.                              *)
Received == rxb[slot][0].lo.frame
CrcOk == /\ Received # 0 /\ rxlen > 0
         /\ rxlen = air[Received].nibbles \div 2
         /\ \A k \in 0..rxlen-1 : rxb[slot][k] = ByteOf(Received, k)
FrameKind == air[Received].kind

(* Mutant: any reply fills the cache. *)
Process_AnyReply ==
    /\ Step("process", "free")
    /\ ~(CrcOk /\ FrameKind.type = "arp_request")
    /\ cached_mac' = IF CrcOk /\ FrameKind.type = "arp_reply" THEN Received ELSE cached_mac
    /\ processed' = IF CrcOk THEN Append(processed, Received) ELSE processed
    /\ Cpu
    /\ UNCHANGED <<slot, rxlen, caller, after, resolved, tries, timeout, cached_ip, handed>>

(* process_frame of anything that is not answered: an ARP reply fills the  *)
(* cache when it comes from the address being resolved.                    *)
Process == /\ Step("process", "free")
           /\ ~(CrcOk /\ FrameKind.type = "arp_request")
           /\ cached_mac' = IF CrcOk /\ FrameKind.type = "arp_reply" /\ FrameKind.ip = cached_ip
                            THEN Received ELSE cached_mac
           /\ processed' = IF CrcOk THEN Append(processed, Received) ELSE processed
           /\ Cpu
           /\ UNCHANGED <<slot, rxlen, caller, after, resolved, tries, timeout, cached_ip, handed>>

(* An ARP request for this address is answered before the slot is freed.   *)
ProcessRequest == /\ Step("process", "txcount")
                  /\ CrcOk /\ FrameKind.type = "arp_request"
                  /\ Fill(ArpBytes, Received, "free")
                  /\ processed' = Append(processed, Received)
                  /\ UNCHANGED <<slot, rxlen, caller, resolved, tries, timeout, cached_ip,
                                 cached_mac>>

Free == /\ pc = "free" /\ NextSlot
        /\ Bus(WriteState(slot, "LOADED"))
        /\ UNCHANGED <<rxlen, caller, after, resolved, tries, timeout, cached_ip, cached_mac,
                       handed, processed>>

RxAck == /\ Step("rx_ack", caller)
         /\ irq_ack({"ETHRX"})
         /\ UNCHANGED progVars

SysIdle == Cpu /\ UNCHANGED <<pc, progVars>>
ProgUnchanged == UNCHANGED <<irqVars, pc, progVars>>

Start == StartAck \/ StartLoad
Send == SendCount \/ SendWait \/ SendAck
Arp == Resolved \/ Resolve \/ Request \/ Try \/ TryAgain \/ Check
Service == Poll \/ ReadState \/ ReadCount \/ Process \/ ProcessRequest \/ Free \/ RxAck
Program == Start \/ Send \/ Arp \/ MainSend \/ MainService \/ Service

PhyRx == RxStep /\ ProgUnchanged
PhyTx == TxClock /\ ProgUnchanged
Next == Program \/ SysIdle \/ PhyRx \/ PhyTx
Spec == Init /\ [][Next]_vars

(* The program runs and the three clocks do: main waits for the link, so   *)
(* the PHY provides its clocks.                                            *)
FairSpec == Spec /\ WF_vars(Program) /\ WF_vars(SysIdle) /\ WF_vars(PhyRx) /\ WF_vars(PhyTx)
-----------------------------------------------------------------------------
(* A slot belongs to the receiver or to the software, never to both,       *)
(* across the two clock domains and while the hand-over is under way: what *)
(* the receiver may write into is "LOADED" to the software, and the slot   *)
(* that microudp_service works on, the answer to an ARP request included,  *)
(* stays "PENDING".                                                        *)
Receiving(s) == \/ s \in available_slots
                \/ s \in used_slot /\ rx_state \in {"LOAD_LO", "LOAD_HI"}
Serving(s) == /\ slot = s
              /\ \/ pc \in {"count", "process", "free"}
                 \/ pc \in {"txcount", "txwait", "txack"} /\ after = "free"
SlotExclusive == \A s \in Slots : /\ Receiving(s) => slot_state[s] = "LOADED"
                                  /\ Serving(s) => slot_state[s] = "PENDING"

(* A frame that fits in a slot is processed whole: the count read without  *)
(* a synchroniser is the right one, and neither the end of an earlier      *)
(* frame nor the beginning of a later one is mixed in.                     *)
FramesWhole ==
    pc = "process" =>
        /\ Received # 0
        /\ air[Received].nibbles \div 2 < CountMod => CrcOk

(* No frame is processed twice, and of the frames processed before another *)
(* at most one arrived after it: slot 0 is looked at first, but the frame  *)
(* in slot 1 is next.                                                      *)
OvertakenByOne ==
    \A j \in DOMAIN processed :
        /\ \A i \in 1..j-1 : processed[i] # processed[j]
        /\ Cardinality({i \in 1..j-1 : processed[i] > processed[j]}) <= 1

(* send_packet is synchronous: every frame given to it is sent once, whole *)
(* and in order, and it only returns when its frame has left.              *)
LineOf(i) == [j \in 1..2 * handed[i].bytes |->
                 <<<<i, (j - 1) \div 2>>, IF j % 2 = 1 THEN "lo" ELSE "hi">>]
SendSynchronous ==
    /\ Len(aired) <= Len(handed)
    /\ \A i \in DOMAIN aired : aired[i] = LineOf(i)
    /\ pc \notin {"txcount", "txwait"} => Len(aired) = Len(handed)

(* What is cached is what the owner of cached_ip answered, whatever late   *)
(* or unasked replies arrive during a later resolution.                    *)
CacheSound ==
    cached_mac # 0 => air[cached_mac].kind = [type |-> "arp_reply", ip |-> cached_ip]

(* No slot is ever lost: each is given back to the receiver again and      *)
(* again, although frames may arrive at any point of microudp_service,     *)
(* also between its look at a slot and its acknowledgement.                *)
SlotsReturn == \A s \in Slots : []<>(s \in available_slots)

(* send_packet's wait for the interrupt ends: none is lost or taken by an  *)
(* earlier wait.                                                           *)
SendReturns == pc = "txwait" ~> pc = "txack"

(* microudp_arp_resolve returns, whether or not anybody answers.           *)
ResolveReturns == pc = "resolve" ~> pc = "main"
=============================================================================
