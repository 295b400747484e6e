------------------------------- MODULE GdbLink -------------------------------
(***************************************************************************)
(* The packets between gdb and the debug stub: gdb over a socket to        *)
(* tools/atlantic_gdbserver.c, which relays to the JTAG UART, at whose     *)
(* other end are get_packet, put_packet and the command loop of            *)
(* gdbstub.c, or, while the program runs, putsnonl of console.c, which     *)
(* prints through gdb.  gdb is external: putpkt and getpkt as it documents *)
(* them.  Characters towards the stub may be lost (uart.v refetches before *)
(* the character is read).                                                 *)
(*                                                                         *)
(* What a packet says is abstracted to its kind and the number of the call *)
(* it belongs to; the number is history and no step depends on it.  A      *)
(* character is <<what, kind, number>>; an acknowledgement carries, as     *)
(* history, what it acknowledges.                                          *)
(***************************************************************************)
EXTENDS Naturals, Sequences, FiniteSets

CONSTANTS
    Commands,               \* kinds of command gdb sends, of CommandKinds
    Chunk,                  \* characters the relay moves at once, 63
    BUFMAX,                 \* 800 in gdbstub.c
    MaxEvents, MaxDetach    \* bounds: losses, partial sends and packets of output; detaching

CommandKinds == {"query", "resume", "detach", "kill"}
Numbers == 0..2             \* calls are numbered modulo 3

ASSUME LinkAssumption ==
    /\ Commands \subseteq CommandKinds
    /\ {Chunk, BUFMAX, MaxEvents, MaxDetach} \subseteq Nat
    /\ Chunk > 0 /\ BUFMAX > 0

VARIABLES
    host, cmd, frame,       \* gdb: where it is, its command, the packet it is reading
    conn, sock_up, sock_down, \* the TCP connection and what is on its way
    temp, left,             \* the relay's buffer and how much of it is to be sent
    jtag_up, jtag_down,     \* the JTAG link with the UART's FIFOs
    spc, buffer, digit,     \* the stub: where it is, remcom_in_buffer, the first digit
    reply, gdb_connected,   \* remcom_out_buffer
    out,                    \* how much of an output packet the program has printed
    events, detached,       \* counters for the bounds
    n, executions, result,  \* history: the call, how often it was executed, what was accepted
    faults                  \* history: what has gone wrong

hostVars == <<host, cmd, frame, n, result>>
relayVars == <<temp, left>>
stubVars == <<spc, buffer, digit, reply, gdb_connected, executions>>
vars == <<hostVars, conn, sock_up, sock_down, relayVars, jtag_up, jtag_down, stubVars, out,
          events, detached, faults>>

(* Characters and packets; the two digits of a checksum are right exactly  *)
(* for the data they were computed from.                                   *)
Char(what) == <<what, "", 0>>
Ack(p) == <<"+", p[1], p[2]>>
Packet(p) == <<Char("$"), <<"data", p[1], p[2]>>, Char("#"), <<"hi", p[1], p[2]>>,
               <<"lo", p[1], p[2]>>>>
What(c) == c[1]
Payload(c) == <<c[2], c[3]>>
OutputPacket == Packet(<<"output", 0>>)

Kinds == CommandKinds \cup {"reply", "stop", "output"}
Payloads == Kinds \X Numbers
Chars == {Char(w) : w \in {"$", "#", "+", "-"}} \cup
         {<<w, p[1], p[2]>> : w \in {"data", "hi", "lo", "+"}, p \in Payloads}
NoPayload == <<"", 0>>

(* Every variable has its type; the relay's and the stub's buffers hold   *)
(* what they are given.                                                    *)
LinkTypeOK ==
    /\ host \in {"connecting", "idle", "sent", "await", "running", "off"}
    /\ cmd \in Payloads \cup {NoPayload} /\ frame \in Seq(Chars)
    /\ conn \in {"open", "closed", "reset", "accept"}
    /\ \A q \in {sock_up, sock_down, temp, jtag_up, jtag_down, buffer} : q \in Seq(Chars)
    /\ left \in 0..Len(temp) /\ Len(temp) <= Chunk
    /\ spc \in {"run", "start", "data", "digit1", "digit2", "ack", "ack_run"}
    /\ Len(buffer) <= BUFMAX /\ digit \in Chars /\ reply \in Payloads \cup {NoPayload}
    /\ gdb_connected \in BOOLEAN /\ out \in 0..4
    /\ n \in Numbers /\ executions \in 0..2 /\ result \in Payloads \cup {NoPayload}
    /\ faults \subseteq {"lost", "partial", "torn", "early"}

Init ==
    /\ host = "connecting" /\ cmd = NoPayload /\ frame = <<>> /\ conn = "open"
    /\ sock_up = <<>> /\ sock_down = <<>> /\ temp = <<>> /\ left = 0
    /\ jtag_up = <<>> /\ jtag_down = <<>>
    /\ spc = "run" /\ buffer = <<>> /\ digit = Char("#") /\ reply = NoPayload
    /\ gdb_connected = FALSE
    /\ out = 0 /\ events = 0 /\ detached = 0
    /\ n = 0 /\ executions = 0 /\ result = NoPayload /\ faults = {}
-----------------------------------------------------------------------------
(* gdb.  A new connection begins with an acknowledgement of whatever the   *)
(* stub may be waiting for.                                                *)
Call(kind) ==
    /\ host \in {"connecting", "idle"} /\ conn = "open"
    /\ kind \in {"detach", "kill"} => detached < MaxDetach
    /\ host' = "sent" /\ frame' = <<>>
    /\ n' = (n + 1) % 3 /\ cmd' = <<kind, n'>>
    /\ executions' = 0 /\ result' = NoPayload
    /\ sock_down' = sock_down \o (IF host = "connecting" THEN <<Char("+")>> ELSE <<>>)
                              \o Packet(cmd')
    /\ UNCHANGED <<conn, sock_up, relayVars, jtag_up, jtag_down, spc, buffer, digit, reply,
                   gdb_connected, out, events, detached, faults>>

HostSend(s) == sock_down' = sock_down \o s
HostUnchanged == UNCHANGED <<cmd, conn, relayVars, jtag_up, jtag_down, stubVars, out, events,
                             detached, faults, n>>
HostGets(c) == sock_up # <<>> /\ c = Head(sock_up) /\ sock_up' = Tail(sock_up)

(* putpkt: wait for the acknowledgement; a packet in its place is skipped  *)
(* up to its checksum and acknowledged.                                    *)
HostAwaitsAck ==
    \E c \in Chars :
        /\ host = "sent" /\ HostGets(c)
        /\ \/ /\ frame = <<>> /\ What(c) = "+"
              /\ host' = CASE cmd[1] = "kill" -> "off" [] cmd[1] = "resume" -> "running"
                           [] OTHER -> "await"
              /\ result' = IF cmd[1] = "kill" THEN cmd ELSE result
              /\ HostSend(<<>>) /\ UNCHANGED frame
           \/ /\ frame = <<>> /\ What(c) = "-"
              /\ HostSend(Packet(cmd)) /\ UNCHANGED <<host, frame, result>>
           \/ /\ frame = <<>> /\ What(c) \notin {"+", "-"}
              /\ frame' = IF What(c) = "$" THEN <<c>> ELSE <<>>
              /\ HostSend(<<>>) /\ UNCHANGED <<host, result>>
           \/ /\ frame # <<>>
              /\ IF Len(frame) = 3
                 THEN frame' = <<>> /\ HostSend(<<Ack(Payload(c))>>)
                 ELSE /\ frame' = IF Len(frame) > 1 \/ What(c) = "#" THEN Append(frame, c) ELSE frame
                      /\ HostSend(<<>>)
              /\ UNCHANGED <<host, result>>
        /\ HostUnchanged

(* getpkt: a packet with the right checksum is acknowledged and taken; a   *)
(* wrong checksum or a packet that begins inside another is refused.       *)
Read(f) == Len(f) >= 4 /\ What(f[Len(f) - 2]) = "#"
Good(f) == Len(f) = 5 /\ f = Packet(Payload(f[2]))

HostAwaitsPacket ==
    \E c \in Chars :
        /\ host \in {"await", "running"} /\ HostGets(c)
        /\ LET f == Append(frame, c) IN
           \/ /\ frame = <<>>
              /\ frame' = IF What(c) = "$" THEN f ELSE <<>>
              /\ HostSend(<<>>) /\ UNCHANGED <<host, result>>
           \/ /\ frame # <<>> /\ ~Read(f)
              /\ IF What(c) = "$" /\ What(frame[Len(frame)]) # "#"
                 THEN frame' = <<>> /\ HostSend(<<Char("-")>>)
                 ELSE frame' = f /\ HostSend(<<>>)
              /\ UNCHANGED <<host, result>>
           \/ /\ frame # <<>> /\ Read(f)
              /\ frame' = <<>>
              /\ HostSend(IF Good(f) THEN <<Ack(Payload(f[2]))>> ELSE <<Char("-")>>)
              /\ IF Good(f) /\ ~(host = "running" /\ f[2][2] = "output")
                 THEN /\ host' = IF cmd[1] = "detach" THEN "off" ELSE "idle"
                      /\ result' = Payload(f[2])
                 ELSE UNCHANGED <<host, result>>
        /\ HostUnchanged

(* A timeout, long enough that nothing is on its way and the stub waits.   *)
(* Waiting for the program to stop has none, once a packet has begun       *)
(* reading it has.                                                         *)
HostTimeout ==
    /\ host \in {"sent", "await"} \/ (host = "running" /\ frame # <<>>)
    /\ sock_up = <<>> /\ sock_down = <<>> /\ left = 0 /\ jtag_up = <<>> /\ jtag_down = <<>>
    /\ HostSend(IF host = "sent" THEN Packet(cmd) ELSE <<Char("-")>>)
    /\ frame' = <<>>
    /\ UNCHANGED <<host, result, sock_up>> /\ HostUnchanged

(* After detaching gdb closes the connection, gracefully or not.           *)
HostCloses ==
    /\ host = "off" /\ conn = "open"
    /\ conn' \in {"closed", "reset"}
    /\ detached' = detached + 1
    /\ UNCHANGED <<hostVars, sock_up, sock_down, relayVars, jtag_up, jtag_down, stubVars, out,
                   events, faults>>
-----------------------------------------------------------------------------
(* handle_client, one iteration: what gdb has sent goes to the link, and   *)
(* some of what the link holds into temp.                                  *)
Least(a, b) == IF a < b THEN a ELSE b
Drop(s, k) == SubSeq(s, k + 1, Len(s))

RelayMoves ==
    /\ conn = "open" /\ left = 0
    /\ sock_down # <<>> \/ jtag_up # <<>>
    /\ LET k == Least(Chunk, Len(sock_down)) IN
       /\ jtag_down' = jtag_down \o SubSeq(sock_down, 1, k)
       /\ sock_down' = Drop(sock_down, k)
    /\ LET k == Least(Chunk, Len(jtag_up)) IN
       /\ temp' = SubSeq(jtag_up, 1, k) /\ left' = k
       /\ jtag_up' = Drop(jtag_up, k)
    /\ UNCHANGED <<hostVars, conn, sock_up, stubVars, out, events, detached, faults>>

(* Mutant: the rest is thrown away. *)
RelaySends_Once ==
    /\ conn = "open" /\ left > 0
    /\ \E sent \in 1..left :
          /\ sent < left => events < MaxEvents
          /\ events' = events + (IF sent < left THEN 1 ELSE 0)
          /\ sock_up' = sock_up \o SubSeq(temp, 1, sent)
          /\ left' = 0 /\ temp' = <<>> /\ faults' = faults
    /\ UNCHANGED <<hostVars, conn, sock_down, jtag_up, jtag_down, stubVars, out, detached>>

(* The send loop: what is left after a partial send is taken from the      *)
(* beginning of temp again.                                                *)
RelaySends ==
    /\ conn = "open" /\ left > 0
    /\ \E sent \in 1..left :
          /\ sent < left => events < MaxEvents
          /\ events' = events + (IF sent < left THEN 1 ELSE 0)
          /\ faults' = faults \cup (IF sent < left THEN {"partial"} ELSE {})
          /\ sock_up' = sock_up \o SubSeq(temp, 1, sent)
          /\ left' = left - sent
          /\ temp' = IF sent = left THEN <<>> ELSE temp
    /\ UNCHANGED <<hostVars, conn, sock_down, jtag_up, jtag_down, stubVars, out, detached>>

(* A graceful close is not noticed, nor is any error inside the send loop: *)
(* the relay goes round for ever.                                          *)
RelaySpins ==
    /\ conn = "closed" \/ (conn = "reset" /\ left > 0)
    /\ UNCHANGED vars

(* A reset ends handle_client, and main accepts the next connection.       *)
RelayBreaks ==
    /\ conn = "reset" /\ left = 0
    /\ conn' = "accept"
    /\ sock_up' = <<>> /\ sock_down' = <<>>
    /\ UNCHANGED <<hostVars, relayVars, jtag_up, jtag_down, stubVars, out, events, detached,
                   faults>>

Connect ==
    /\ conn = "accept"
    /\ conn' = "open" /\ host' = "connecting" /\ cmd' = NoPayload
    /\ UNCHANGED <<frame, n, result, sock_up, sock_down, relayVars, jtag_up, jtag_down, stubVars,
                   out, events, detached, faults>>
-----------------------------------------------------------------------------
(* The stub. *)
Put(s) == jtag_up' = jtag_up \o s
StubUnchanged == UNCHANGED <<hostVars, conn, sock_up, sock_down, relayVars, out, events, detached>>
Get(c) == jtag_down # <<>> /\ c = Head(jtag_down) /\ jtag_down' = Tail(jtag_down)

(* get_packet up to the checksum. *)
GetStart ==
    \E c \in Chars :
        /\ spc = "start" /\ Get(c)
        /\ spc' = IF What(c) = "$" THEN "data" ELSE "start"
        /\ buffer' = <<>>
        /\ Put(<<>>) /\ StubUnchanged
        /\ UNCHANGED <<digit, reply, gdb_connected, executions, faults>>

(* Mutant: one character more than the buffer holds. *)
GetData_OffByOne ==
    \E c \in Chars :
        /\ spc = "data" /\ Get(c)
        /\ CASE What(c) = "$" -> spc' = "data" /\ buffer' = <<>>
             [] What(c) = "#" -> spc' = "digit1" /\ buffer' = buffer
             [] OTHER -> /\ buffer' = Append(buffer, c)
                         /\ spc' = IF Len(buffer') <= BUFMAX THEN "data" ELSE "start"
        /\ Put(<<>>) /\ StubUnchanged
        /\ UNCHANGED <<digit, reply, gdb_connected, executions, faults>>

(* Characters up to '#'; a '$' begins again, BUFMAX of them give up.       *)
GetData ==
    \E c \in Chars :
        /\ spc = "data" /\ Get(c)
        /\ CASE What(c) = "$" -> spc' = "data" /\ buffer' = <<>>
             [] What(c) = "#" -> spc' = "digit1" /\ buffer' = buffer
             [] OTHER -> /\ buffer' = Append(buffer, c)
                         /\ spc' = IF Len(buffer') < BUFMAX THEN "data" ELSE "start"
        /\ Put(<<>>) /\ StubUnchanged
        /\ UNCHANGED <<digit, reply, gdb_connected, executions, faults>>

GetDigit ==
    \E c \in Chars :
        /\ spc = "digit1" /\ Get(c)
        /\ spc' = "digit2" /\ digit' = c
        /\ Put(<<>>) /\ StubUnchanged
        /\ UNCHANGED <<buffer, reply, gdb_connected, executions, faults>>

(* The sequence number of buffer[2] == ':' is left out: gdb sends none.    *)
(* The checksum is wrong: '-'.  It is right: '+', and handle_exception     *)
(* executes the command, replies to it or leaves.                          *)
Forget == buffer' = <<>> /\ digit' = Char("#")    \* not read again
GoodChecksum(c) == <<Char("$")>> \o buffer \o <<Char("#"), digit, c>> = Packet(Payload(c))

GetBad ==
    \E c \in Chars :
        /\ spc = "digit2" /\ Get(c) /\ ~GoodChecksum(c)
        /\ spc' = "start" /\ Forget
        /\ Put(<<Char("-")>>) /\ StubUnchanged
        /\ UNCHANGED <<reply, gdb_connected, executions, faults>>

(* Mutant: the command is not acknowledged. *)
GetGood_NoAck ==
    \E c \in Chars :
        /\ spc = "digit2" /\ Get(c) /\ GoodChecksum(c)
        /\ LET p == Payload(c)
               leaves == p[1] \in {"resume", "kill"}
           IN /\ reply' = <<"reply", p[2]>>
              /\ gdb_connected' = (p[1] \notin {"detach", "kill"})
              /\ spc' = CASE leaves -> "run" [] p[1] = "detach" -> "ack_run" [] OTHER -> "ack"
              /\ Put(IF leaves THEN <<>> ELSE Packet(reply'))
              /\ executions' = IF p = cmd THEN Least(executions + 1, 2) ELSE executions
        /\ Forget /\ StubUnchanged /\ UNCHANGED faults

GetGood ==
    \E c \in Chars :
        /\ spc = "digit2" /\ Get(c) /\ GoodChecksum(c)
        /\ LET p == Payload(c)
               leaves == p[1] \in {"resume", "kill"}
           IN /\ reply' = <<"reply", p[2]>>
              /\ gdb_connected' = (p[1] \notin {"detach", "kill"})
              /\ spc' = CASE leaves -> "run" [] p[1] = "detach" -> "ack_run" [] OTHER -> "ack"
              /\ Put(<<Ack(p)>> \o IF leaves THEN <<>> ELSE Packet(reply'))
              /\ executions' = IF p = cmd THEN Least(executions + 1, 2) ELSE executions
        /\ Forget /\ StubUnchanged /\ UNCHANGED faults

(* The end of put_packet: anything but '+' sends the packet again.         *)
GetAck ==
    \E c \in Chars :
        /\ spc \in {"ack", "ack_run"} /\ Get(c)
        /\ IF What(c) = "+"
           THEN /\ spc' = IF spc = "ack" THEN "start" ELSE "run"
                /\ reply' = NoPayload
                /\ faults' = faults \cup (IF Payload(c) = reply THEN {} ELSE {"early"})
                /\ Put(<<>>)
           ELSE UNCHANGED <<spc, reply, faults>> /\ Put(Packet(reply))
        /\ StubUnchanged /\ UNCHANGED <<buffer, digit, gdb_connected, executions>>

(* A debug exception stops the program, also in the middle of its output.  *)
Exception ==
    /\ spc = "run"
    /\ IF gdb_connected
       THEN spc' = "ack" /\ reply' = <<"stop", reply[2]>> /\ Put(Packet(reply'))
       ELSE spc' = "start" /\ reply' = reply /\ Put(<<>>)
    /\ faults' = faults \cup (IF out = 0 THEN {} ELSE {"torn"})
    /\ StubUnchanged /\ UNCHANGED <<jtag_down, buffer, digit, gdb_connected, executions>>
-----------------------------------------------------------------------------
(* The program: putsnonl, and whatever reads the UART.                     *)
ProgramPrints ==
    /\ spc = "run" /\ (out = 0 => events < MaxEvents)
    /\ Put(<<OutputPacket[out + 1]>>)
    /\ out' = (out + 1) % 5
    /\ events' = events + (IF out = 0 THEN 1 ELSE 0)
    /\ UNCHANGED <<hostVars, conn, sock_up, sock_down, relayVars, jtag_down, stubVars, detached,
                   faults>>

ProgramReads ==
    /\ spc = "run" /\ jtag_down # <<>> /\ jtag_down' = Tail(jtag_down)
    /\ UNCHANGED <<hostVars, conn, sock_up, sock_down, relayVars, jtag_up, stubVars, out,
                   events, detached, faults>>

(* The UART fetches the next character before this one was read.           *)
Lose ==
    /\ events < MaxEvents /\ Len(jtag_down) > 1
    /\ jtag_down' = Tail(jtag_down) /\ events' = events + 1
    /\ faults' = faults \cup {"lost"}
    /\ UNCHANGED <<hostVars, conn, sock_up, sock_down, relayVars, jtag_up, stubVars, out,
                   detached>>

Host == HostAwaitsAck \/ HostAwaitsPacket \/ HostTimeout
Relay == RelayMoves \/ RelaySends \/ RelayBreaks
Stub == GetStart \/ GetData \/ GetDigit \/ GetBad \/ GetGood \/ GetAck
Next == \/ \E kind \in Commands : Call(kind)
        \/ Host \/ HostCloses \/ Connect \/ Relay \/ RelaySpins \/ Stub
        \/ Exception \/ ProgramPrints \/ ProgramReads \/ Lose

Spec == Init /\ [][Next]_vars

(* gdb, the relay and the stub go on; a program that is printing goes on;  *)
(* nothing is assumed of calls or of when the program stops.               *)
FairSpec == Spec /\ WF_vars(Host) /\ WF_vars(Relay) /\ WF_vars(Stub)
-----------------------------------------------------------------------------
(* gdb's commands are remote procedure calls: one that has returned was    *)
(* executed, once, and its result is its own, although the '+' the stub    *)
(* waits for carries no number (put_packet) and gdb and the stub both send *)
(* again.  Not so after a partial send of the relay or a stop in the       *)
(* middle of a packet of output, which leave half a packet in front.       *)
ExactlyOnce ==
    LET returned == host = "idle" \/ (host = "off" /\ conn = "open") IN
    faults \cap {"partial", "torn"} = {} =>
        /\ executions <= 1
        /\ (returned /\ cmd # NoPayload) => executions = 1 /\ result[2] = n

(* While the stub has the processor and gdb waits for it, the call         *)
(* returns or the program goes on, whatever characters towards the stub    *)
(* are lost: get_packet and put_packet retry and gdb's timeouts do the     *)
(* rest.  Two things are excepted, since they do lose a reply for ever: a  *)
(* partial send of the relay, and a stop in the middle of a packet of      *)
(* output while the acknowledgement of an earlier one is on its way, which *)
(* put_packet takes for its own.                                           *)
Waiting == host \in {"sent", "await", "running"} /\ spc # "run"
Progress == Waiting ~> (~Waiting \/ "partial" \in faults \/ {"torn", "early"} \subseteq faults)
=============================================================================
