---------------------------- MODULE GdbLinkProofs ----------------------------
(***************************************************************************)
(* Types of GdbLink, and that a command of gdb's that has returned was     *)
(* executed once and has its own result, for any commands, sizes of the    *)
(* buffers and faults.                                                     *)
(***************************************************************************)
EXTENDS GdbLink, SequenceTheorems, TLAPS

(* What the characters and packets are made of.                            *)
LEMMA Characters ==
    /\ \A w \in {"$", "#", "+", "-"} : Char(w) \in Chars
    /\ \A p \in Payloads \cup {NoPayload} : Ack(p) \in Chars
    /\ \A w \in {"data", "hi", "lo", "+"}, p \in Payloads : <<w, p[1], p[2]>> \in Chars
    /\ \A c \in Chars : Payload(c) \in Payloads \cup {NoPayload} /\ Payload(c)[2] \in Numbers
<1>1. \A w \in {"$", "#", "+", "-"} : Char(w) \in Chars
  BY DEF Chars
<1>2. \A w \in {"data", "hi", "lo", "+"}, p \in Payloads : <<w, p[1], p[2]>> \in Chars
  BY DEF Chars
<1>3. ASSUME NEW p \in Payloads \cup {NoPayload} PROVE Ack(p) \in Chars
  <2>1. CASE p \in Payloads
    BY <1>2, <2>1 DEF Ack
  <2>2. CASE p = NoPayload
    <3>1. Ack(p) = Char("+")
      BY <2>2 DEF Ack, Char, NoPayload
    <3> QED BY <1>1, <3>1
  <2> QED BY <2>1, <2>2
<1>4. ASSUME NEW c \in Chars PROVE Payload(c) \in Payloads \cup {NoPayload} /\ Payload(c)[2] \in Numbers
  <2>1. CASE \E w \in {"$", "#", "+", "-"} : c = Char(w)
    <3>1. \A x, y, z : <<x, y, z>>[2] = y /\ <<x, y, z>>[3] = z /\ <<y, z>>[2] = z
      OBVIOUS
    <3>2. PICK w : c = <<w, "", 0>>
      BY <2>1, Zenon DEF Char
    <3>3. c[2] = "" /\ c[3] = 0
      <4>1. <<w, "", 0>>[2] = "" /\ <<w, "", 0>>[3] = 0
        BY <3>1, Zenon
      <4> QED BY <3>2, <4>1, Zenon
    <3>4. Payload(c) = NoPayload
      BY <3>3, Zenon DEF Payload, NoPayload
    <3>5. NoPayload[2] = 0
      BY <3>1, Zenon DEF NoPayload
    <3> QED BY <3>4, <3>5 DEF Numbers
  <2>2. CASE \E w \in {"data", "hi", "lo", "+"}, p \in Payloads : c = <<w, p[1], p[2]>>
    <3>1. PICK w \in {"data", "hi", "lo", "+"}, p \in Payloads : c = <<w, p[1], p[2]>>
      BY <2>2
    <3>2. Payload(c) = <<p[1], p[2]>> /\ p = <<p[1], p[2]>> /\ p[2] \in Numbers
      BY <3>1 DEF Payload, Payloads
    <3>3. Payload(c) = p
      BY <3>2
    <3> QED BY <3>1, <3>2, <3>3
  <2> QED BY <2>1, <2>2 DEF Chars
<1> QED BY <1>1, <1>2, <1>3, <1>4

(* A packet is a sequence of five characters.                              *)
LEMMA Packets ==
    ASSUME NEW p \in Payloads
    PROVE  /\ Packet(p) \in Seq(Chars) /\ Len(Packet(p)) = 5
           /\ \A i \in 1..5 : Packet(p)[i] \in Chars
<1> DEFINE C == Chars
           a == Char("$")
           b == <<"data", p[1], p[2]>>
           c == Char("#")
           d == <<"hi", p[1], p[2]>>
           e == <<"lo", p[1], p[2]>>
<1>1. a \in C /\ b \in C /\ c \in C /\ d \in C /\ e \in C
  BY Characters
<1>2. Packet(p) = <<a, b, c, d, e>>
  BY DEF Packet
<1> HIDE DEF a, b, c, d, e, C
<1>3. <<a, b, c, d, e>> \in Seq(C) /\ Len(<<a, b, c, d, e>>) = 5
      /\ \A i \in 1..5 : <<a, b, c, d, e>>[i] \in C
  BY <1>1
<1> QED BY <1>2, <1>3 DEF C

(* Queues of characters, and what is done to them.                         *)
LEMMA Queues ==
    ASSUME NEW q \in Seq(Chars)
    PROVE  /\ \A s \in Seq(Chars) : q \o s \in Seq(Chars)
           /\ q # <<>> => Head(q) \in Chars /\ Tail(q) \in Seq(Chars)
           /\ \A c \in Chars : Append(q, c) \in Seq(Chars) /\ Len(Append(q, c)) = Len(q) + 1
           /\ Len(q) \in Nat
<1> DEFINE C == Chars
<1>1. q \in Seq(C)
  OBVIOUS
<1> HIDE DEF C
<1>2. /\ \A s \in Seq(C) : q \o s \in Seq(C)
      /\ q # <<>> => Head(q) \in C /\ Tail(q) \in Seq(C)
      /\ \A c \in C : Append(q, c) \in Seq(C) /\ Len(Append(q, c)) = Len(q) + 1
      /\ Len(q) \in Nat
  BY <1>1
<1> QED BY <1>2 DEF C

(* The beginning of a queue and the rest.                                  *)
LEMMA Cut ==
    ASSUME NEW q \in Seq(Chars), NEW k \in 0..Len(q)
    PROVE  /\ SubSeq(q, 1, k) \in Seq(Chars) /\ Len(SubSeq(q, 1, k)) = k
           /\ Drop(q, k) \in Seq(Chars)
<1> DEFINE C == Chars
<1>1. q \in Seq(C)
  OBVIOUS
<1> HIDE DEF C
<1>2. Len(q) \in Nat
  BY <1>1
<1>3. SubSeq(q, 1, k) \in Seq(C) /\ Len(SubSeq(q, 1, k)) = k
  BY <1>1, <1>2, SubSeqProperties
<1>4. SubSeq(q, k + 1, Len(q)) \in Seq(C)
  BY <1>1, <1>2, SubSeqProperties
<1> QED BY <1>3, <1>4 DEF Drop, C
-----------------------------------------------------------------------------
(* What is on the links and in the buffers.                                *)
QueuesOK == /\ sock_up \in Seq(Chars) /\ sock_down \in Seq(Chars) /\ temp \in Seq(Chars)
            /\ jtag_up \in Seq(Chars) /\ jtag_down \in Seq(Chars)
            /\ left \in 0..Len(temp) /\ Len(temp) <= Chunk

(* gdb has a command while it waits for one, and so it can send it again.  *)
HostOK == /\ host \in {"connecting", "idle", "sent", "await", "running", "off"}
          /\ cmd \in Payloads \cup {NoPayload} /\ frame \in Seq(Chars)
          /\ host \in {"sent", "await", "running"} => cmd \in Payloads
          /\ conn \in {"open", "closed", "reset", "accept"}
          /\ n \in Numbers /\ result \in Payloads \cup {NoPayload}

(* The stub has room for the character it reads, and a packet to send      *)
(* again while it waits for its acknowledgement.                           *)
StubOK == /\ spc \in {"run", "start", "data", "digit1", "digit2", "ack", "ack_run"}
          /\ buffer \in Seq(Chars) /\ Len(buffer) <= BUFMAX
          /\ spc = "data" => Len(buffer) < BUFMAX
          /\ digit \in Chars /\ reply \in Payloads \cup {NoPayload}
          /\ spc \in {"ack", "ack_run"} => reply \in Payloads
          /\ gdb_connected \in BOOLEAN /\ out \in 0..4 /\ executions \in 0..2
          /\ faults \subseteq {"lost", "partial", "torn", "early"}

LinkInv == QueuesOK /\ HostOK /\ StubOK

queueVars == <<sock_up, sock_down, relayVars, jtag_up, jtag_down>>
hostSide == <<hostVars, conn>>
stubSide == <<stubVars, out, faults>>

(* Steps that leave a side alone.                                          *)
LEMMA Sides ==
    ASSUME LinkInv
    PROVE  /\ UNCHANGED queueVars => QueuesOK'
           /\ UNCHANGED hostSide => HostOK'
           /\ UNCHANGED stubSide => StubOK'
<1>1. ASSUME UNCHANGED queueVars PROVE QueuesOK'
  BY <1>1 DEF LinkInv, QueuesOK, queueVars, relayVars
<1>2. ASSUME UNCHANGED hostSide PROVE HostOK'
  BY <1>2 DEF LinkInv, HostOK, hostSide, hostVars
<1>3. ASSUME UNCHANGED stubSide PROVE StubOK'
  BY <1>3 DEF LinkInv, StubOK, stubSide, stubVars
<1> QED BY <1>1, <1>2, <1>3

(* They hold initially.                                                    *)
LEMMA LinkInit == Init => LinkInv
<1> SUFFICES ASSUME Init PROVE LinkInv
  OBVIOUS
<1>1. BUFMAX \in Nat /\ BUFMAX > 0 /\ Chunk \in Nat
  BY LinkAssumption
<1>2. <<>> \in Seq(Chars) /\ Len(<<>>) = 0 /\ Char("#") \in Chars
  BY Characters
<1>3. QueuesOK
  BY <1>1, <1>2 DEF Init, QueuesOK
<1>4. HostOK
  BY <1>2 DEF Init, HostOK, Numbers
<1>5. StubOK
  <2>1. /\ spc = "run" /\ buffer = <<>> /\ digit = Char("#") /\ reply = NoPayload
        /\ gdb_connected = FALSE /\ out = 0 /\ executions = 0 /\ faults = {}
    BY DEF Init
  <2>2. Len(buffer) = 0 /\ 0 \in 0..4 /\ 0 \in 0..2
    BY <2>1
  <2>3. Len(buffer) <= BUFMAX
    BY <1>1, <2>2
  <2> QED BY <1>2, <2>1, <2>2, <2>3 DEF StubOK
<1> QED BY <1>3, <1>4, <1>5 DEF LinkInv
-----------------------------------------------------------------------------
(* gdb sends packets it has and acknowledgements of what it read.          *)
LEMMA HostStep ==
    ASSUME LinkInv, Host \/ HostCloses \/ Connect \/ \E kind \in Commands : Call(kind)
    PROVE  LinkInv'
<1>1. QueuesOK /\ HostOK /\ StubOK
  BY DEF LinkInv
<1>2. \A s \in Seq(Chars) : sock_down \o s \in Seq(Chars)
  BY <1>1, Queues DEF QueuesOK
<1>3. /\ sock_up # <<>> => Head(sock_up) \in Chars /\ Tail(sock_up) \in Seq(Chars)
      /\ \A c \in Chars : Append(frame, c) \in Seq(Chars) /\ Len(Append(frame, c)) = Len(frame) + 1
      /\ Len(frame) \in Nat
  BY <1>1, Queues DEF QueuesOK, HostOK
<1>4. <<>> \in Seq(Chars) /\ (\A c \in Chars : <<c>> \in Seq(Chars))
  OBVIOUS
<1>5. \A p \in Payloads : Packet(p) \in Seq(Chars)
  BY Packets
<1>6. Char("-") \in Chars /\ Char("+") \in Chars /\ \A c \in Chars : Ack(Payload(c)) \in Chars
  BY Characters
<1>7. ASSUME sock_down' \in Seq(Chars), sock_up' \in Seq(Chars), UNCHANGED <<relayVars, jtag_up, jtag_down>>
      PROVE  QueuesOK'
  BY <1>1, <1>7 DEF QueuesOK, relayVars
<1>8. ASSUME NEW kind \in Commands, Call(kind) PROVE LinkInv'
  <2> DEFINE start == IF host = "connecting" THEN <<Char("+")>> ELSE <<>>
  <2>1. n' \in Numbers
    BY <1>1, <1>8 DEF Call, HostOK, Numbers
  <2>2. cmd' \in Payloads
    BY <1>8, <2>1, LinkAssumption DEF Call, Payloads, Kinds
  <2>3. start \in Seq(Chars)
    BY <1>4, <1>6
  <2>4. sock_down' = (sock_down \o start) \o Packet(cmd')
    BY <1>8 DEF Call
  <2> HIDE DEF start
  <2>5. sock_down \o start \in Seq(Chars)
    BY <1>2, <2>3
  <2>6. (sock_down \o start) \o Packet(cmd') \in Seq(Chars)
    BY <1>5, <2>2, <2>5, Queues
  <2>7. QueuesOK'
    BY <1>1, <1>7, <1>8, <2>4, <2>6 DEF Call, QueuesOK
  <2>8. HostOK'
    <3>1. host' = "sent" /\ frame' = <<>> /\ result' = NoPayload /\ conn' = conn
      BY <1>8 DEF Call
    <3> QED BY <1>1, <1>4, <2>1, <2>2, <3>1 DEF HostOK
  <2>9. StubOK'
    <3>1. /\ UNCHANGED <<spc, buffer, digit, reply, gdb_connected, out, faults>> /\ executions' = 0
      BY <1>8 DEF Call
    <3> QED BY <1>1, <3>1 DEF StubOK
  <2> QED BY <2>7, <2>8, <2>9 DEF LinkInv
<1>9. ASSUME HostUnchanged, NEW s \in Seq(Chars), HostSend(s), sock_up' \in Seq(Chars), frame' \in Seq(Chars),
             host' \in {"idle", "sent", "await", "running", "off"}, result' \in Payloads \cup {NoPayload},
             cmd \in Payloads
      PROVE  LinkInv'
  <2>1. QueuesOK'
    BY <1>2, <1>7, <1>9 DEF HostSend, HostUnchanged
  <2>2. HostOK'
    BY <1>1, <1>9 DEF HostOK, HostUnchanged
  <2>3. StubOK'
    BY <1>9, Sides DEF HostUnchanged, stubSide
  <2> QED BY <2>1, <2>2, <2>3 DEF LinkInv
<1>10. CASE HostAwaitsAck
  <2>1. PICK c \in Chars :
          /\ host = "sent" /\ HostGets(c) /\ HostUnchanged
          /\ \/ /\ host' \in {"off", "running", "await"} /\ result' \in {cmd, result}
                /\ HostSend(<<>>) /\ UNCHANGED frame
             \/ HostSend(Packet(cmd)) /\ UNCHANGED <<host, frame, result>>
             \/ frame' \in {<<c>>, <<>>} /\ HostSend(<<>>) /\ UNCHANGED <<host, result>>
             \/ frame' = <<>> /\ HostSend(<<Ack(Payload(c))>>) /\ UNCHANGED <<host, result>>
             \/ frame' \in {Append(frame, c), frame} /\ HostSend(<<>>) /\ UNCHANGED <<host, result>>
    BY <1>10 DEF HostAwaitsAck
  <2>2. cmd \in Payloads /\ frame \in Seq(Chars) /\ result \in Payloads \cup {NoPayload}
    BY <1>1, <2>1 DEF HostOK
  <2>3. sock_up' \in Seq(Chars)
    BY <1>3, <2>1 DEF HostGets
  <2>4. <<c>> \in Seq(Chars) /\ <<Ack(Payload(c))>> \in Seq(Chars) /\ Append(frame, c) \in Seq(Chars)
        /\ Packet(cmd) \in Seq(Chars)
    BY <1>3, <1>4, <1>5, <1>6, <2>2
  <2>5. PICK s \in Seq(Chars) : HostSend(s)
    BY <1>4, <2>1, <2>4
  <2>6. frame' \in Seq(Chars) /\ host' \in {"idle", "sent", "await", "running", "off"}
        /\ result' \in Payloads \cup {NoPayload}
    BY <1>4, <2>1, <2>2, <2>4
  <2> QED BY <1>9, <2>1, <2>2, <2>3, <2>5, <2>6
<1>11. CASE HostAwaitsPacket
  <2>1. PICK c \in Chars :
          /\ host \in {"await", "running"} /\ HostGets(c) /\ HostUnchanged
          /\ LET f == Append(frame, c) IN
             \/ frame' \in {<<>>, f} /\ (HostSend(<<>>) \/ HostSend(<<Char("-")>>)) /\ UNCHANGED <<host, result>>
             \/ /\ frame # <<>> /\ Read(f) /\ frame' = <<>>
                /\ HostSend(<<Ack(Payload(f[2]))>>) \/ HostSend(<<Char("-")>>)
                /\ \/ host' \in {"off", "idle"} /\ result' = Payload(f[2])
                   \/ UNCHANGED <<host, result>>
    BY <1>11 DEF HostAwaitsPacket
  <2> DEFINE f == Append(frame, c)
  <2>2. cmd \in Payloads /\ result \in Payloads \cup {NoPayload} /\ sock_up' \in Seq(Chars)
    BY <1>1, <1>3, <2>1 DEF HostOK, HostGets
  <2>3. f \in Seq(Chars) /\ Len(f) \in Nat
    BY <1>3
  <2> HIDE DEF f
  <2>4. Read(f) => f[2] \in Chars
    <3> SUFFICES ASSUME Read(f) PROVE f[2] \in Chars
      OBVIOUS
    <3>1. 2 \in 1..Len(f)
      BY <2>3 DEF Read
    <3> QED BY <2>3, <3>1, ElementOfSeq
  <2>5. Read(f) => <<Ack(Payload(f[2]))>> \in Seq(Chars) /\ Payload(f[2]) \in Payloads \cup {NoPayload}
    BY <1>4, <1>6, <2>4, Characters
  <2>6. \/ frame' \in {<<>>, f} /\ (HostSend(<<>>) \/ HostSend(<<Char("-")>>)) /\ UNCHANGED <<host, result>>
        \/ /\ Read(f) /\ frame' = <<>>
           /\ HostSend(<<Ack(Payload(f[2]))>>) \/ HostSend(<<Char("-")>>)
           /\ \/ host' \in {"off", "idle"} /\ result' = Payload(f[2])
              \/ UNCHANGED <<host, result>>
    BY <2>1 DEF f
  <2>7. PICK s \in Seq(Chars) : HostSend(s)
    BY <1>4, <1>6, <2>5, <2>6
  <2>8. frame' \in Seq(Chars) /\ host' \in {"idle", "sent", "await", "running", "off"}
        /\ result' \in Payloads \cup {NoPayload}
    BY <1>4, <2>1, <2>2, <2>3, <2>5, <2>6
  <2> QED BY <1>9, <2>1, <2>2, <2>7, <2>8
<1>12. CASE HostTimeout
  <2>1. /\ host \in {"sent", "await", "running"} /\ HostUnchanged /\ frame' = <<>>
        /\ HostSend(Packet(cmd)) \/ HostSend(<<Char("-")>>)
        /\ UNCHANGED <<host, result, sock_up>>
    BY <1>12 DEF HostTimeout
  <2>2. cmd \in Payloads /\ result \in Payloads \cup {NoPayload} /\ sock_up' \in Seq(Chars)
    BY <1>1, <2>1 DEF HostOK, QueuesOK
  <2>3. PICK s \in Seq(Chars) : HostSend(s)
    BY <1>4, <1>5, <1>6, <2>1, <2>2
  <2> QED BY <1>4, <1>9, <2>1, <2>2, <2>3
<1>13. CASE HostCloses
  <2>1. conn' \in {"closed", "reset"} /\ UNCHANGED <<host, cmd, frame, n, result>> /\ UNCHANGED queueVars /\ UNCHANGED stubSide
    BY <1>13 DEF HostCloses, hostVars, queueVars, stubSide
  <2>2. HostOK'
    BY <1>1, <2>1 DEF HostOK
  <2> QED BY <2>1, <2>2, Sides DEF LinkInv
<1>14. CASE Connect
  <2>1. /\ conn' = "open" /\ host' = "connecting" /\ cmd' = NoPayload /\ UNCHANGED <<frame, n, result>>
        /\ UNCHANGED queueVars /\ UNCHANGED stubSide
    BY <1>14 DEF Connect, queueVars, stubSide
  <2>2. HostOK'
    BY <1>1, <2>1 DEF HostOK
  <2> QED BY <2>1, <2>2, Sides DEF LinkInv
<1> QED
  BY <1>8, <1>10, <1>11, <1>12, <1>13, <1>14 DEF Host

(* The relay never moves more than it has read, nor more than its buffer   *)
(* holds.                                                                  *)
LEMMA RelayStep ==
    ASSUME LinkInv, Relay \/ RelaySpins
    PROVE  LinkInv'
<1>1. QueuesOK /\ HostOK /\ StubOK /\ Chunk \in Nat
  BY LinkAssumption DEF LinkInv
<1>2. Len(sock_down) \in Nat /\ Len(jtag_up) \in Nat /\ Len(temp) \in Nat
  BY <1>1, Queues DEF QueuesOK
<1>3. CASE RelayMoves
  <2> DEFINE down == Least(Chunk, Len(sock_down))
             up == Least(Chunk, Len(jtag_up))
  <2>1. down \in 0..Len(sock_down) /\ up \in 0..Len(jtag_up) /\ up <= Chunk
    BY <1>1, <1>2 DEF Least
  <2>2. /\ jtag_down' = jtag_down \o SubSeq(sock_down, 1, down) /\ sock_down' = Drop(sock_down, down)
        /\ temp' = SubSeq(jtag_up, 1, up) /\ left' = up /\ jtag_up' = Drop(jtag_up, up)
        /\ sock_up' = sock_up /\ UNCHANGED hostSide /\ UNCHANGED stubSide
    BY <1>3 DEF RelayMoves, hostSide, stubSide
  <2> HIDE DEF down, up
  <2>3. SubSeq(sock_down, 1, down) \in Seq(Chars) /\ Drop(sock_down, down) \in Seq(Chars)
        /\ SubSeq(jtag_up, 1, up) \in Seq(Chars) /\ Drop(jtag_up, up) \in Seq(Chars)
        /\ Len(SubSeq(jtag_up, 1, up)) = up
    BY <1>1, <2>1, Cut DEF QueuesOK
  <2>4. jtag_down' \in Seq(Chars)
    BY <1>1, <2>2, <2>3, Queues DEF QueuesOK
  <2>5. left' \in 0..Len(temp')
    BY <1>2, <2>1, <2>2, <2>3
  <2>6. QueuesOK'
    BY <1>1, <2>1, <2>2, <2>3, <2>4, <2>5 DEF QueuesOK
  <2> QED BY <2>2, <2>6, Sides DEF LinkInv
<1>4. CASE RelaySends
  <2>1. PICK sent \in 1..left :
          /\ sock_up' = sock_up \o SubSeq(temp, 1, sent) /\ left' = left - sent
          /\ temp' = IF sent = left THEN <<>> ELSE temp
          /\ faults' = faults \cup (IF sent < left THEN {"partial"} ELSE {})
    BY <1>4 DEF RelaySends
  <2>2. left \in 0..Len(temp) /\ sent \in 0..Len(temp) /\ left - sent \in Nat
    BY <1>1, <1>2, <2>1 DEF QueuesOK
  <2>3. SubSeq(temp, 1, sent) \in Seq(Chars)
    BY <1>1, <2>2, Cut DEF QueuesOK
  <2>4. sock_up' \in Seq(Chars)
    BY <1>1, <2>1, <2>3, Queues DEF QueuesOK
  <2>5. temp' \in Seq(Chars) /\ left' \in 0..Len(temp') /\ Len(temp') <= Chunk
    <3>1. CASE sent = left
      <4>1. temp' = <<>> /\ Len(temp') = 0 /\ left' = 0
        BY <2>1, <2>2, <3>1
      <4> QED BY <1>1, <4>1
    <3>2. CASE sent # left
      <4>1. temp' = temp /\ left' \in 0..Len(temp)
        BY <1>2, <2>1, <2>2, <3>2
      <4> QED BY <1>1, <4>1 DEF QueuesOK
    <3> QED BY <3>1, <3>2
  <2>6. UNCHANGED <<sock_down, jtag_up, jtag_down>> /\ UNCHANGED hostSide /\ UNCHANGED <<stubVars, out>>
    BY <1>4 DEF RelaySends, hostSide
  <2>7. QueuesOK'
    BY <1>1, <2>4, <2>5, <2>6 DEF QueuesOK
  <2>8. StubOK'
    BY <1>1, <2>1, <2>6 DEF StubOK, stubVars
  <2> QED BY <2>6, <2>7, <2>8, Sides DEF LinkInv
<1>5. CASE RelayBreaks
  <2>1. /\ conn' = "accept" /\ sock_up' = <<>> /\ sock_down' = <<>>
        /\ UNCHANGED <<hostVars, relayVars, jtag_up, jtag_down>> /\ UNCHANGED stubSide
    BY <1>5 DEF RelayBreaks, stubSide
  <2>2. QueuesOK'
    BY <1>1, <2>1 DEF QueuesOK, relayVars
  <2>3. HostOK'
    BY <1>1, <2>1 DEF HostOK, hostVars
  <2> QED BY <2>1, <2>2, <2>3, Sides DEF LinkInv
<1>6. CASE RelaySpins
  <2>1. UNCHANGED queueVars /\ UNCHANGED hostSide /\ UNCHANGED stubSide
    BY <1>6 DEF RelaySpins, vars, queueVars, hostSide, stubSide
  <2> QED BY <2>1, Sides DEF LinkInv
<1> QED
  BY <1>3, <1>4, <1>5, <1>6 DEF Relay

(* The stub stores a character only where there is room for it: get_packet *)
(* gives up as soon as the buffer is full.                                 *)
LEMMA StubStep ==
    ASSUME LinkInv, Stub
    PROVE  LinkInv'
<1>1. QueuesOK /\ HostOK /\ StubOK /\ BUFMAX \in Nat /\ BUFMAX > 0
  BY LinkAssumption DEF LinkInv
<1>2. /\ \A s \in Seq(Chars) : jtag_up \o s \in Seq(Chars)
      /\ jtag_down # <<>> => Tail(jtag_down) \in Seq(Chars)
      /\ \A c \in Chars : Append(buffer, c) \in Seq(Chars) /\ Len(Append(buffer, c)) = Len(buffer) + 1
      /\ Len(buffer) \in Nat
  BY <1>1, Queues DEF QueuesOK, StubOK
<1>3. <<>> \in Seq(Chars) /\ Len(<<>>) = 0 /\ \A c \in Chars : <<c>> \in Seq(Chars)
  OBVIOUS
<1>4. /\ Char("-") \in Chars /\ Char("#") \in Chars /\ \A c \in Chars : Ack(Payload(c)) \in Chars
      /\ \A p \in Payloads : Packet(p) \in Seq(Chars)
  BY Characters, Packets
<1>5. ASSUME NEW c \in Chars, Get(c), NEW s \in Seq(Chars), Put(s), StubUnchanged, StubOK' PROVE LinkInv'
  <2>1. QueuesOK'
    BY <1>1, <1>2, <1>5 DEF Get, Put, StubUnchanged, QueuesOK, relayVars
  <2>2. HostOK'
    BY <1>5, Sides DEF StubUnchanged, hostSide
  <2> QED BY <1>5, <2>1, <2>2 DEF LinkInv
<1>6. CASE GetStart
  <2>1. PICK c \in Chars : /\ Get(c) /\ Put(<<>>) /\ StubUnchanged /\ spc' \in {"data", "start"} /\ buffer' = <<>>
                           /\ UNCHANGED <<digit, reply, gdb_connected, executions, faults>>
    BY <1>6 DEF GetStart
  <2>2. StubOK'
    BY <1>1, <1>3, <2>1 DEF StubOK, StubUnchanged
  <2> QED BY <1>3, <1>5, <2>1, <2>2
<1>7. CASE GetData
  <2>1. PICK c \in Chars : /\ Get(c) /\ Put(<<>>) /\ StubUnchanged /\ spc = "data"
                           /\ UNCHANGED <<digit, reply, gdb_connected, executions, faults>>
                           /\ \/ spc' = "data" /\ buffer' = <<>>
                              \/ spc' = "digit1" /\ buffer' = buffer
                              \/ /\ buffer' = Append(buffer, c)
                                 /\ spc' = IF Len(buffer') < BUFMAX THEN "data" ELSE "start"
    BY <1>7 DEF GetData
  <2>2. Len(buffer) < BUFMAX
    BY <1>1, <2>1 DEF StubOK
  <2>3. spc' \in {"data", "digit1", "start"} /\ buffer' \in Seq(Chars) /\ Len(buffer') <= BUFMAX
        /\ (spc' = "data" => Len(buffer') < BUFMAX)
    <3>1. CASE spc' = "data" /\ buffer' = <<>>
      BY <1>1, <1>3, <3>1
    <3>2. CASE spc' = "digit1" /\ buffer' = buffer
      BY <1>1, <3>2 DEF StubOK
    <3>3. CASE buffer' = Append(buffer, c) /\ spc' = IF Len(buffer') < BUFMAX THEN "data" ELSE "start"
      <4>1. buffer' \in Seq(Chars) /\ Len(buffer') = Len(buffer) + 1
        BY <1>2, <3>3
      <4>2. Len(buffer') <= BUFMAX
        BY <1>1, <1>2, <2>2, <4>1
      <4> QED BY <3>3, <4>1, <4>2
    <3> QED BY <2>1, <3>1, <3>2, <3>3
  <2>4. StubOK'
    BY <1>1, <2>1, <2>3 DEF StubOK, StubUnchanged
  <2> QED BY <1>3, <1>5, <2>1, <2>4
<1>8. CASE GetDigit
  <2>1. PICK c \in Chars : /\ Get(c) /\ Put(<<>>) /\ StubUnchanged /\ spc' = "digit2" /\ digit' = c
                           /\ UNCHANGED <<buffer, reply, gdb_connected, executions, faults>>
    BY <1>8 DEF GetDigit
  <2>2. StubOK'
    BY <1>1, <2>1 DEF StubOK, StubUnchanged
  <2> QED BY <1>3, <1>5, <2>1, <2>2
<1>9. CASE GetBad
  <2>1. PICK c \in Chars : /\ Get(c) /\ Put(<<Char("-")>>) /\ StubUnchanged /\ spc' = "start"
                           /\ buffer' = <<>> /\ digit' = Char("#")
                           /\ UNCHANGED <<reply, gdb_connected, executions, faults>>
    BY <1>9 DEF GetBad, Forget
  <2>2. StubOK'
    BY <1>1, <1>3, <1>4, <2>1 DEF StubOK, StubUnchanged
  <2> QED BY <1>3, <1>4, <1>5, <2>1, <2>2
<1>10. CASE GetGood
  <2>1. PICK c \in Chars :
          /\ Get(c) /\ StubUnchanged /\ buffer' = <<>> /\ digit' = Char("#") /\ UNCHANGED faults
          /\ reply' = <<"reply", Payload(c)[2]>> /\ gdb_connected' \in BOOLEAN
          /\ spc' \in {"run", "ack", "ack_run"}
          /\ Put(<<Ack(Payload(c))>> \o <<>>) \/ Put(<<Ack(Payload(c))>> \o Packet(reply'))
          /\ executions' = Least(executions + 1, 2) \/ executions' = executions
    BY <1>10 DEF GetGood, Forget
  <2>2. reply' \in Payloads
    BY <2>1, Characters DEF Payloads, Kinds
  <2>3. PICK s \in Seq(Chars) : Put(s)
    <3>1. <<Ack(Payload(c))>> \in Seq(Chars) /\ Packet(reply') \in Seq(Chars)
      BY <1>3, <1>4, <2>2
    <3>2. <<Ack(Payload(c))>> \o <<>> \in Seq(Chars) /\ <<Ack(Payload(c))>> \o Packet(reply') \in Seq(Chars)
      BY <1>3, <3>1, Queues
    <3> QED BY <2>1, <3>2
  <2>4. executions' \in 0..2
    BY <1>1, <2>1 DEF StubOK, Least
  <2>5. StubOK'
    BY <1>1, <1>3, <1>4, <2>1, <2>2, <2>4 DEF StubOK, StubUnchanged
  <2> QED BY <1>5, <2>1, <2>3, <2>5
<1>11. CASE GetAck
  <2>1. PICK c \in Chars :
          /\ Get(c) /\ StubUnchanged /\ UNCHANGED <<buffer, digit, gdb_connected, executions>>
          /\ spc \in {"ack", "ack_run"}
          /\ \/ /\ spc' \in {"start", "run"} /\ reply' = NoPayload /\ Put(<<>>)
                /\ faults' \subseteq faults \cup {"early"}
             \/ UNCHANGED <<spc, reply, faults>> /\ Put(Packet(reply))
    BY <1>11 DEF GetAck
  <2>2. reply \in Payloads
    BY <1>1, <2>1 DEF StubOK
  <2>3. PICK s \in Seq(Chars) : Put(s)
    BY <1>3, <1>4, <2>1, <2>2
  <2>4. StubOK'
    BY <1>1, <2>1 DEF StubOK, StubUnchanged
  <2> QED BY <1>5, <2>1, <2>3, <2>4
<1> QED
  BY <1>6, <1>7, <1>8, <1>9, <1>10, <1>11 DEF Stub

(* The program prints its packet character by character, until a stop.     *)
LEMMA ProgramStep ==
    ASSUME LinkInv, Exception \/ ProgramPrints \/ ProgramReads \/ Lose
    PROVE  LinkInv'
<1>1. QueuesOK /\ HostOK /\ StubOK
  BY DEF LinkInv
<1>2. /\ \A s \in Seq(Chars) : jtag_up \o s \in Seq(Chars)
      /\ jtag_down # <<>> => Tail(jtag_down) \in Seq(Chars)
      /\ Len(jtag_down) > 1 => jtag_down # <<>>
  BY <1>1, Queues DEF QueuesOK
<1>3. CASE Exception
  <2>1. /\ \/ spc' = "ack" /\ reply' = <<"stop", reply[2]>> /\ Put(Packet(reply'))
           \/ spc' = "start" /\ reply' = reply /\ Put(<<>>)
        /\ faults' \subseteq faults \cup {"torn"}
        /\ StubUnchanged /\ UNCHANGED <<jtag_down, buffer, digit, gdb_connected, executions>>
    BY <1>3 DEF Exception
  <2>2. reply[2] \in Numbers
    <3>1. CASE reply \in Payloads
      BY <3>1 DEF Payloads
    <3>2. CASE reply = NoPayload
      <4>1. \A x, y : <<x, y>>[2] = y
        OBVIOUS
      <4>2. reply[2] = 0
        BY <3>2, <4>1, Zenon DEF NoPayload
      <4> QED BY <4>2 DEF Numbers
    <3> QED BY <1>1, <3>1, <3>2 DEF StubOK
  <2>3. <<"stop", reply[2]>> \in Payloads
    BY <2>2 DEF Payloads, Kinds
  <2>4. jtag_up' \in Seq(Chars)
    <3>1. <<>> \in Seq(Chars) /\ Packet(<<"stop", reply[2]>>) \in Seq(Chars)
      BY <2>3, Packets
    <3> QED BY <1>2, <2>1, <3>1 DEF Put
  <2>5. StubOK'
    BY <1>1, <2>1, <2>3 DEF StubOK, StubUnchanged
  <2>6. QueuesOK' /\ HostOK'
    BY <1>1, <2>1, <2>4, Sides DEF QueuesOK, StubUnchanged, relayVars, hostSide
  <2> QED BY <2>5, <2>6 DEF LinkInv
<1>4. CASE ProgramPrints
  <2>1. /\ Put(<<OutputPacket[out + 1]>>) /\ out' = (out + 1) % 5
        /\ UNCHANGED <<sock_up, sock_down, relayVars, jtag_down>> /\ UNCHANGED hostSide
        /\ UNCHANGED <<stubVars, faults>>
    BY <1>4 DEF ProgramPrints, hostSide
  <2>2. out + 1 \in 1..5 /\ out' \in 0..4
    BY <1>1, <2>1 DEF StubOK
  <2>3. <<"output", 0>> \in Payloads
    BY DEF Payloads, Kinds, Numbers
  <2>4. <<OutputPacket[out + 1]>> \in Seq(Chars)
    <3>1. OutputPacket[out + 1] \in Chars
      BY <2>2, <2>3, Packets DEF OutputPacket
    <3> QED BY <3>1
  <2>5. QueuesOK'
    BY <1>1, <1>2, <2>1, <2>4 DEF QueuesOK, Put, relayVars
  <2>6. StubOK'
    BY <1>1, <2>1, <2>2 DEF StubOK, stubVars
  <2> QED BY <2>1, <2>5, <2>6, Sides DEF LinkInv
<1>5. CASE ProgramReads \/ Lose
  <2>1. /\ jtag_down # <<>> /\ jtag_down' = Tail(jtag_down)
        /\ UNCHANGED <<sock_up, sock_down, relayVars, jtag_up>> /\ UNCHANGED hostSide
        /\ UNCHANGED <<stubVars, out>> /\ faults' \subseteq faults \cup {"lost"}
    BY <1>2, <1>5 DEF ProgramReads, Lose, hostSide
  <2>2. QueuesOK'
    BY <1>1, <1>2, <2>1 DEF QueuesOK, relayVars
  <2>3. StubOK'
    BY <1>1, <2>1 DEF StubOK, stubVars
  <2> QED BY <2>1, <2>2, <2>3, Sides DEF LinkInv
<1> QED
  BY <1>3, <1>4, <1>5

(* Every step preserves them.                                              *)
LEMMA LinkStep == LinkInv /\ [Next]_vars => LinkInv'
<1> SUFFICES ASSUME LinkInv, [Next]_vars PROVE LinkInv'
  OBVIOUS
<1>1. CASE UNCHANGED vars
  <2>1. UNCHANGED queueVars /\ UNCHANGED hostSide /\ UNCHANGED stubSide
    BY <1>1 DEF vars, queueVars, hostSide, stubSide
  <2> QED BY <2>1, Sides DEF LinkInv
<1> QED
  BY <1>1, HostStep, RelayStep, StubStep, ProgramStep DEF Next

(* The relay and the stub keep their buffers within bounds, whatever gdb   *)
(* and the program send and the link loses, and what gdb and the stub send *)
(* again is a packet: for any commands, sizes of the buffers and faults.   *)
THEOREM LinkTypeCorrect == Spec => []LinkTypeOK
<1>1. LinkInv => LinkTypeOK
  <2> SUFFICES ASSUME LinkInv PROVE LinkTypeOK
    OBVIOUS
  <2>1. \A q \in {sock_up, sock_down, temp, jtag_up, jtag_down, buffer} : q \in Seq(Chars)
    BY DEF LinkInv, QueuesOK, StubOK
  <2> QED BY <2>1 DEF LinkInv, QueuesOK, HostOK, StubOK, LinkTypeOK
<1> QED
  BY <1>1, LinkInit, LinkStep, PTL DEF Spec
-----------------------------------------------------------------------------
(* The calls.  What is on its way to gdb and to the stub, wherever the     *)
(* relay has it.                                                           *)
Up == sock_up \o (temp \o jtag_up)
Down == jtag_down \o sock_down

(* Nothing has left half a packet in front of a reply.                     *)
Healthy == faults \cap {"partial", "torn"} = {}

Signs == {"+", "-"}
Parts == <<"$", "data", "#", "hi", "lo">>
Follow(w) == CASE w = "$" -> {"data"} [] w = "data" -> {"#"} [] w = "#" -> {"hi"}
               [] w = "hi" -> {"lo"} [] OTHER -> {"$", "+", "-"}
Middle == spc \in {"data", "digit1", "digit2"}

(* What may be on its way to the stub: one packet with a beginning, behind *)
(* what the stub will skip, and after the end of it acknowledgements only. *)
NoStart(q) == \A i \in 1..Len(q) : What(q[i]) # "$"
OnlySigns(q) == \A i \in 1..Len(q) : What(q[i]) \in Signs
NoSigns(q) == \A i \in 1..Len(q) : What(q[i]) \notin Signs
EndsOf(q, p) == \A i \in 1..Len(q) : What(q[i]) = "lo" => Payload(q[i]) = p
OneStart(q) == \A i, j \in 1..Len(q) : What(q[i]) = "$" /\ What(q[j]) = "$" => i = j
EndIsLast(q) ==
    \A i, j \in 1..Len(q) : i < j /\ What(q[i]) = "lo" /\ What(q[j]) \notin Signs =>
        \E k \in 1..Len(q) : i < k /\ What(q[k]) = "$"
StartFirst(q) == \A i \in 1..Len(q) : What(q[i]) = "$" => i = 1
DownShape(q, p) == EndsOf(q, p) /\ OneStart(q) /\ EndIsLast(q)
DownInv ==
    /\ DownShape(Down, cmd)
    /\ (host = "sent" /\ executions = 0) \/ OnlySigns(Down)
    /\ Middle => StartFirst(Down)

(* What is on its way to gdb are whole packets and signs, but for the      *)
(* packet that the program is printing and the rest of one of which gdb    *)
(* has seen the beginning, or which it no longer expects.                  *)
Paired(q) == \A i \in 1..Len(q)-1 : What(q[i + 1]) \in Follow(What(q[i]))
OneSign(q) == \A i, j \in 1..Len(q) : What(q[i]) \in Signs /\ What(q[j]) \in Signs => i = j
EndsIn(q, S) == Len(q) > 0 => What(q[Len(q)]) \in S
Ends == IF out = 0 THEN {"lo", "+", "-"} ELSE {Parts[out]}
Expected == IF host = "sent"
            THEN CASE Len(frame) = 1 -> {"data", "#"} [] Len(frame) = 2 -> {"hi"} [] OTHER -> {"lo"}
            ELSE {Parts[Len(frame) + 1]}
FrameShape ==
    /\ host \in {"connecting", "idle", "off"} => frame = <<>>
    /\ host = "sent" => Len(frame) <= 3
    /\ host \in {"await", "running"} =>
          Len(frame) <= 4 /\ \A i \in 1..Len(frame) : What(frame[i]) = Parts[i]
Sync == frame # <<>> => IF Len(Up) > 0 THEN What(Up[1]) \in Expected
                        ELSE out # 0 /\ Parts[out + 1] \in Expected
WholeInv == Paired(Up) /\ EndsIn(Up, Ends) /\ FrameShape /\ Sync

(* The answer to a command: a sign, only once the packet has reached the   *)
(* stub's end, and after '+' the reply, or the program's packets and stops.*)
Mine(c, m) == What(c) = "data" => c[2] = "output" \/ c[3] = m
MyReply == Packet(<<"reply", n>>)
Answered(k) ==
    /\ What(Up[k]) = "+"
    /\ cmd[1] = "resume" => \A i \in k+1..Len(Up) : Mine(Up[i], n)
    /\ cmd[1] \notin {"resume", "kill"} =>
          k + 5 <= Len(Up) /\ \A i \in 1..5 : Up[k + i] = MyReply[i]
SignInv ==
    /\ OneSign(Up)
    /\ \A i \in 1..Len(Up) : What(Up[i]) \in Signs =>
          /\ host = "sent" /\ ~Middle /\ NoStart(Down)
          /\ executions = IF What(Up[i]) = "+" THEN 1 ELSE 0
AnswerInv ==
    /\ host = "sent" /\ executions = 1 => \E k \in 1..Len(Up) : Answered(k)
    /\ host = "await" => /\ Len(frame) + Len(Up) >= 5
                         /\ \A i \in 1..Len(frame) : frame[i] = MyReply[i]
                         /\ \A i \in Len(frame)+1..5 : Up[i - Len(frame)] = MyReply[i]
    /\ host = "running" => /\ \A i \in 1..Len(frame) : Mine(frame[i], n)
                           /\ \A i \in 1..Len(Up) : Mine(Up[i], n)

(* The two ends of the call.                                               *)
HostInv ==
    /\ host \in {"idle", "off", "await", "running"} => executions = 1
    /\ host \in {"idle", "off"} => result[2] = n
    /\ host \in {"sent", "await", "running"} => cmd[2] = n
    /\ host = "await" => cmd[1] \notin {"kill", "resume"}
    /\ host = "running" => cmd[1] = "resume"
    /\ conn # "open" => host = "off"
StubInv ==
    /\ executions \in {0, 1}
    /\ Middle => host = "sent" /\ executions = 0
    /\ spc # "run" => out = 0
    /\ left = Len(temp)
    /\ executions = 1 /\ (spc \in {"ack", "ack_run"} \/ (spc = "run" /\ gdb_connected)) =>
          reply[2] = n
    /\ spc = "ack_run" => ~gdb_connected

OnceInv == DownInv /\ WholeInv /\ SignInv /\ AnswerInv /\ HostInv /\ StubInv
-----------------------------------------------------------------------------
(* Queues by their elements: t is q without its first, or with s behind.   *)
Rest(q, t) == /\ Len(q) \in Nat /\ Len(q) > 0 /\ Len(t) = Len(q) - 1
              /\ \A i \in 1..Len(t) : t[i] = q[i + 1]
Join(q, s, t) == /\ Len(q) \in Nat /\ Len(s) \in Nat /\ Len(t) = Len(q) + Len(s)
                 /\ \A i \in 1..Len(q) : t[i] = q[i]
                 /\ \A i \in 1..Len(s) : t[Len(q) + i] = s[i]

(* Every queue is one of these. *)
LEMMA RestJoin ==
    /\ \A q \in Seq(Chars) : q # <<>> => /\ Rest(q, Tail(q)) /\ Head(q) = q[1]
                                         /\ Tail(q) \in Seq(Chars)
    /\ \A q, s \in Seq(Chars) : Join(q, s, q \o s) /\ q \o s \in Seq(Chars)
    /\ \A q \in Seq(Chars) : Len(q) \in Nat /\ (q = <<>> <=> Len(q) = 0)
<1> DEFINE C == Chars
<1> HIDE DEF C
<1>1. ASSUME NEW q \in Seq(C), q # <<>>
      PROVE  Rest(q, Tail(q)) /\ Head(q) = q[1] /\ Tail(q) \in Seq(C)
  <2>1. /\ Tail(q) \in Seq(C) /\ Len(Tail(q)) = Len(q) - 1
        /\ \A i \in 1..Len(Tail(q)) : Tail(q)[i] = q[i + 1]
    BY <1>1, HeadTailProperties
  <2>2. Len(q) \in Nat \ {0}
    BY <1>1, EmptySeq
  <2>3. Head(q) = q[1]
    BY <1>1
  <2> QED BY <2>1, <2>2, <2>3 DEF Rest
<1>2. ASSUME NEW q \in Seq(C), NEW s \in Seq(C) PROVE Join(q, s, q \o s) /\ q \o s \in Seq(C)
  <2>1. Len(q) \in Nat /\ Len(s) \in Nat
    OBVIOUS
  <2>2. /\ q \o s \in Seq(C) /\ Len(q \o s) = Len(q) + Len(s)
        /\ \A i \in 1..Len(q) + Len(s) : (q \o s)[i] = IF i <= Len(q) THEN q[i] ELSE s[i - Len(q)]
    BY ConcatProperties
  <2>3. \A i \in 1..Len(q) : (q \o s)[i] = q[i]
    BY <2>1, <2>2
  <2>4. \A i \in 1..Len(s) : (q \o s)[Len(q) + i] = s[i]
    <3> TAKE i \in 1..Len(s)
    <3>1. Len(q) + i \in 1..Len(q) + Len(s) /\ ~(Len(q) + i <= Len(q)) /\ (Len(q) + i) - Len(q) = i
      BY <2>1
    <3> QED BY <2>2, <3>1
  <2> QED BY <2>1, <2>2, <2>3, <2>4 DEF Join
<1>3. ASSUME NEW q \in Seq(C) PROVE Len(q) \in Nat /\ (q = <<>> <=> Len(q) = 0)
  BY EmptySeq
<1> QED
  BY <1>1, <1>2, <1>3 DEF C

(* What the characters are called. *)
LEMMA Whats ==
    /\ \A w : What(Char(w)) = w
    /\ \A p : What(Ack(p)) = "+"
    /\ \A p : /\ Len(Packet(p)) = 5
              /\ \A i \in 1..5 : What(Packet(p)[i]) = Parts[i]
    /\ \A p \in Payloads : /\ Payload(Packet(p)[5]) = p
                           /\ Packet(p)[2] = <<"data", p[1], p[2]>> /\ Payload(Packet(p)[2]) = p
    /\ Parts[1] = "$" /\ Parts[2] = "data" /\ Parts[3] = "#" /\ Parts[4] = "hi" /\ Parts[5] = "lo"
    /\ \A m \in 1..4 : Follow(Parts[m]) = {Parts[m + 1]}
    /\ \A w \in {"lo", "+", "-"} : Follow(w) = {"$", "+", "-"}
<1>1. \A w : What(Char(w)) = w
  BY DEF What, Char
<1>2. \A p : What(Ack(p)) = "+"
  BY DEF What, Ack
<1>3. /\ Parts[1] = "$" /\ Parts[2] = "data" /\ Parts[3] = "#" /\ Parts[4] = "hi" /\ Parts[5] = "lo"
  BY DEF Parts
<1>4. ASSUME NEW p
      PROVE  Len(Packet(p)) = 5 /\ \A i \in 1..5 : What(Packet(p)[i]) = Parts[i]
  <2> DEFINE a == <<"$", "", 0>>
             b == <<"data", p[1], p[2]>>
             c == <<"#", "", 0>>
             d == <<"hi", p[1], p[2]>>
             e == <<"lo", p[1], p[2]>>
  <2>1. What(a) = "$" /\ What(b) = "data" /\ What(c) = "#" /\ What(d) = "hi" /\ What(e) = "lo"
    <3>1. \A x, y, z : What(<<x, y, z>>) = x
      BY DEF What
    <3> QED BY <3>1, Zenon
  <2>2. Packet(p) = <<a, b, c, d, e>>
    BY DEF Packet, Char
  <2> HIDE DEF a, b, c, d, e
  <2>3. /\ Len(Packet(p)) = 5
        /\ Packet(p)[1] = a /\ Packet(p)[2] = b /\ Packet(p)[3] = c /\ Packet(p)[4] = d /\ Packet(p)[5] = e
    BY <2>2
  <2>4. /\ What(Packet(p)[1]) = "$" /\ What(Packet(p)[2]) = "data" /\ What(Packet(p)[3]) = "#"
        /\ What(Packet(p)[4]) = "hi" /\ What(Packet(p)[5]) = "lo"
    BY <2>1, <2>3
  <2>5. \A i \in 1..5 : i = 1 \/ i = 2 \/ i = 3 \/ i = 4 \/ i = 5
    OBVIOUS
  <2> QED BY <1>3, <2>3, <2>4, <2>5, Zenon
<1>5. ASSUME NEW p \in Payloads
      PROVE  /\ Payload(Packet(p)[5]) = p
             /\ Packet(p)[2] = <<"data", p[1], p[2]>> /\ Payload(Packet(p)[2]) = p
  <2>1. p = <<p[1], p[2]>>
    BY DEF Payloads
  <2>2. Packet(p)[5] = <<"lo", p[1], p[2]>> /\ Packet(p)[2] = <<"data", p[1], p[2]>>
    BY DEF Packet
  <2>3. \A x, y, z : Payload(<<x, y, z>>) = <<y, z>>
    BY DEF Payload
  <2>4. Payload(<<"lo", p[1], p[2]>>) = <<p[1], p[2]>> /\ Payload(<<"data", p[1], p[2]>>) = <<p[1], p[2]>>
    BY <2>3, Zenon
  <2>5. Payload(<<"lo", p[1], p[2]>>) = p /\ Payload(<<"data", p[1], p[2]>>) = p
    BY <2>1, <2>4, Zenon
  <2> QED BY <2>2, <2>5, Zenon
<1>6. \A m \in 1..4 : Follow(Parts[m]) = {Parts[m + 1]}
  <2>1. \A m \in 1..4 : m = 1 \/ m = 2 \/ m = 3 \/ m = 4
    OBVIOUS
  <2>2. Follow("$") = {"data"} /\ Follow("data") = {"#"} /\ Follow("#") = {"hi"} /\ Follow("hi") = {"lo"}
    BY DEF Follow
  <2>3. 1 + 1 = 2 /\ 2 + 1 = 3 /\ 3 + 1 = 4 /\ 4 + 1 = 5
    OBVIOUS
  <2> QED BY <1>3, <2>1, <2>2, <2>3
<1>7. \A w \in {"lo", "+", "-"} : Follow(w) = {"$", "+", "-"}
  BY DEF Follow
<1> QED
  BY <1>1, <1>2, <1>3, <1>4, <1>5, <1>6, <1>7
-----------------------------------------------------------------------------
(* Towards the stub: a character less.                                     *)
LEMMA DownRest ==
    ASSUME NEW q, NEW t, NEW p, Rest(q, t)
    PROVE  /\ DownShape(q, p) => DownShape(t, p)
           /\ OnlySigns(q) => OnlySigns(t)
           /\ NoStart(q) => NoStart(t)
           /\ StartFirst(q) => NoStart(t)
           /\ DownShape(q, p) /\ What(q[1]) = "$" => NoStart(t)
           /\ DownShape(q, p) /\ What(q[1]) = "lo" /\ NoStart(t) => OnlySigns(t)
<1>1. /\ Len(q) \in Nat /\ Len(q) > 0 /\ Len(t) = Len(q) - 1
      /\ \A i \in 1..Len(t) : i + 1 \in 2..Len(q) /\ t[i] = q[i + 1]
  BY DEF Rest
<1>2. ASSUME DownShape(q, p) PROVE DownShape(t, p)
  <2>1. EndsOf(t, p)
    BY <1>1, <1>2 DEF DownShape, EndsOf
  <2>2. OneStart(t)
    <3> SUFFICES ASSUME NEW i \in 1..Len(t), NEW j \in 1..Len(t), What(t[i]) = "$", What(t[j]) = "$"
                 PROVE  i = j
      BY DEF OneStart
    <3>1. i + 1 = j + 1
      BY <1>1, <1>2 DEF DownShape, OneStart
    <3> QED BY <1>1, <3>1
  <2>3. EndIsLast(t)
    <3> SUFFICES ASSUME NEW i \in 1..Len(t), NEW j \in 1..Len(t), i < j, What(t[i]) = "lo", What(t[j]) \notin Signs
                 PROVE  \E k \in 1..Len(t) : i < k /\ What(t[k]) = "$"
      BY DEF EndIsLast
    <3>1. i + 1 \in 1..Len(q) /\ j + 1 \in 1..Len(q) /\ i + 1 < j + 1 /\ t[i] = q[i + 1] /\ t[j] = q[j + 1]
      BY <1>1
    <3>2. PICK k \in 1..Len(q) : i + 1 < k /\ What(q[k]) = "$"
      BY <1>2, <3>1 DEF DownShape, EndIsLast
    <3>3. k - 1 \in 1..Len(t) /\ i < k - 1 /\ (k - 1) + 1 = k
      BY <1>1, <3>2
    <3> QED BY <1>1, <3>2, <3>3
  <2> QED BY <2>1, <2>2, <2>3 DEF DownShape
<1>3. OnlySigns(q) => OnlySigns(t)
  BY <1>1 DEF OnlySigns
<1>4. NoStart(q) => NoStart(t)
  BY <1>1 DEF NoStart
<1>5. StartFirst(q) => NoStart(t)
  BY <1>1 DEF StartFirst, NoStart
<1>6. ASSUME DownShape(q, p), What(q[1]) = "$" PROVE NoStart(t)
  <2> SUFFICES ASSUME NEW i \in 1..Len(t), What(t[i]) = "$" PROVE FALSE
    BY DEF NoStart
  <2>1. i + 1 \in 1..Len(q) /\ 1 \in 1..Len(q) /\ i + 1 # 1 /\ What(q[i + 1]) = "$"
    BY <1>1
  <2> QED BY <1>6, <2>1 DEF DownShape, OneStart
<1>7. ASSUME DownShape(q, p), What(q[1]) = "lo", NoStart(t) PROVE OnlySigns(t)
  <2> SUFFICES ASSUME NEW i \in 1..Len(t), What(t[i]) \notin Signs PROVE FALSE
    BY DEF OnlySigns
  <2>1. i + 1 \in 1..Len(q) /\ 1 \in 1..Len(q) /\ 1 < i + 1 /\ What(q[i + 1]) \notin Signs
    BY <1>1
  <2>2. PICK k \in 1..Len(q) : 1 < k /\ What(q[k]) = "$"
    BY <1>7, <2>1 DEF DownShape, EndIsLast
  <2>3. k - 1 \in 1..Len(t) /\ (k - 1) + 1 = k
    BY <1>1, <2>2
  <2> QED BY <1>1, <1>7, <2>2, <2>3 DEF NoStart
<1> QED
  BY <1>2, <1>3, <1>4, <1>5, <1>6, <1>7

(* Towards the stub: signs more.                                           *)
LEMMA DownSigns ==
    ASSUME NEW q, NEW s, NEW t, NEW p, Join(q, s, t), OnlySigns(s)
    PROVE  /\ DownShape(q, p) => DownShape(t, p)
           /\ OnlySigns(q) => OnlySigns(t)
           /\ NoStart(q) => NoStart(t)
           /\ StartFirst(q) => StartFirst(t)
<1>1. /\ Len(q) \in Nat /\ Len(s) \in Nat /\ Len(t) = Len(q) + Len(s)
      /\ \A i \in 1..Len(q) : i \in 1..Len(t) /\ t[i] = q[i]
  BY DEF Join
<1>2. \A i \in 1..Len(t) : i \in 1..Len(q) \/ What(t[i]) \in Signs
  <2> TAKE i \in 1..Len(t)
  <2> SUFFICES ASSUME i \notin 1..Len(q) PROVE What(t[i]) \in Signs
    OBVIOUS
  <2>1. i - Len(q) \in 1..Len(s) /\ Len(q) + (i - Len(q)) = i
    BY <1>1
  <2> QED BY <2>1 DEF Join, OnlySigns
<1>3. \A i \in 1..Len(t) : What(t[i]) \notin Signs => i \in 1..Len(q) /\ t[i] = q[i]
  BY <1>1, <1>2
<1>4. "$" \notin Signs /\ "lo" \notin Signs
  BY DEF Signs
<1>5. ASSUME DownShape(q, p) PROVE DownShape(t, p)
  <2>1. EndsOf(t, p)
    BY <1>3, <1>4, <1>5 DEF DownShape, EndsOf
  <2>2. OneStart(t)
    BY <1>3, <1>4, <1>5 DEF DownShape, OneStart
  <2>3. EndIsLast(t)
    BY <1>1, <1>3, <1>4, <1>5 DEF DownShape, EndIsLast
  <2> QED BY <2>1, <2>2, <2>3 DEF DownShape
<1>6. OnlySigns(q) => OnlySigns(t)
  BY <1>1, <1>2 DEF OnlySigns
<1>7. NoStart(q) => NoStart(t)
  BY <1>3, <1>4 DEF NoStart
<1>8. StartFirst(q) => StartFirst(t)
  BY <1>3, <1>4 DEF StartFirst
<1> QED
  BY <1>5, <1>6, <1>7, <1>8

(* Towards the stub: a packet more, the only one with a beginning.         *)
LEMMA DownPacket ==
    ASSUME NEW q, NEW t, NEW p \in Payloads, Join(q, Packet(p), t), NoStart(q), EndsOf(q, p)
    PROVE  /\ DownShape(t, p)
           /\ Len(q) = 0 => StartFirst(t)
<1>1. /\ Len(q) \in Nat /\ Len(Packet(p)) = 5 /\ Len(t) = Len(q) + 5
      /\ \A i \in 1..Len(q) : t[i] = q[i]
      /\ \A i \in 1..5 : t[Len(q) + i] = Packet(p)[i]
  BY Whats DEF Join
<1>2. \A i \in 1..Len(t) : i \in 1..Len(q) \/ \E k \in 1..5 : i = Len(q) + k
  <2> TAKE i \in 1..Len(t)
  <2>1. i \in 1..Len(q) \/ (i - Len(q) \in 1..5 /\ i = Len(q) + (i - Len(q)))
    BY <1>1
  <2> QED BY <2>1
<1>3. \A k \in 1..5 : /\ What(Packet(p)[k]) = "$" <=> k = 1
                      /\ What(Packet(p)[k]) = "lo" <=> k = 5
  <2>1. \A k \in 1..5 : k = 1 \/ k = 2 \/ k = 3 \/ k = 4 \/ k = 5
    OBVIOUS
  <2> QED BY <2>1, Whats
<1>4. \A i \in 1..Len(t) : What(t[i]) = "$" <=> i = Len(q) + 1
  <2> TAKE i \in 1..Len(t)
  <2>1. CASE i \in 1..Len(q)
    <3>1. What(t[i]) # "$" /\ i # Len(q) + 1
      BY <1>1, <2>1 DEF NoStart
    <3> QED BY <3>1
  <2>2. CASE \E k \in 1..5 : i = Len(q) + k
    <3>1. PICK k \in 1..5 : i = Len(q) + k
      BY <2>2
    <3>2. t[i] = Packet(p)[k] /\ (i = Len(q) + 1 <=> k = 1)
      BY <1>1, <3>1
    <3> QED BY <1>3, <3>2
  <2> QED BY <1>2, <2>1, <2>2
<1>5. \A i \in 1..Len(t) : What(t[i]) = "lo" => i \in 1..Len(q) \/ i = Len(t)
  <2> SUFFICES ASSUME NEW i \in 1..Len(t), What(t[i]) = "lo", i \notin 1..Len(q) PROVE i = Len(t)
    OBVIOUS
  <2>1. PICK k \in 1..5 : i = Len(q) + k
    BY <1>2
  <2>2. k = 5
    BY <1>1, <1>3, <2>1
  <2> QED BY <1>1, <2>1, <2>2
<1>6. Len(q) + 1 \in 1..Len(t) /\ Len(t) = Len(q) + 5
  BY <1>1
<1>7. EndsOf(t, p)
  <2>1. t[Len(t)] = Packet(p)[5] /\ Payload(Packet(p)[5]) = p
    BY <1>1, Whats
  <2> QED BY <1>1, <1>5, <2>1 DEF EndsOf
<1>8. OneStart(t)
  BY <1>4 DEF OneStart
<1>9. EndIsLast(t)
  <2> SUFFICES ASSUME NEW i \in 1..Len(t), NEW j \in 1..Len(t), i < j, What(t[i]) = "lo"
               PROVE  \E k \in 1..Len(t) : i < k /\ What(t[k]) = "$"
    BY DEF EndIsLast
  <2>1. i \in 1..Len(q)
    BY <1>1, <1>5
  <2>2. i < Len(q) + 1
    BY <1>1, <2>1
  <2> QED BY <1>4, <1>6, <2>2
<1>10. Len(q) = 0 => StartFirst(t)
  BY <1>4 DEF StartFirst
<1> QED
  BY <1>7, <1>8, <1>9, <1>10 DEF DownShape
-----------------------------------------------------------------------------
(* Towards gdb: a character less.                                          *)
LEMMA UpRest ==
    ASSUME NEW q, NEW t, Rest(q, t)
    PROVE  /\ Paired(q) => Paired(t)
           /\ OneSign(q) => OneSign(t)
           /\ NoSigns(q) => NoSigns(t)
           /\ OneSign(q) /\ What(q[1]) \in Signs => NoSigns(t)
           /\ \A S : EndsIn(q, S) => EndsIn(t, S) /\ (Len(t) = 0 => What(q[1]) \in S)
           /\ Paired(q) /\ Len(t) > 0 => What(t[1]) \in Follow(What(q[1]))
<1>1. /\ Len(q) \in Nat /\ Len(q) > 0 /\ Len(t) = Len(q) - 1 /\ Len(t) \in Nat /\ 1 \in 1..Len(q)
      /\ \A i \in 1..Len(t) : i + 1 \in 2..Len(q) /\ t[i] = q[i + 1]
  BY DEF Rest
<1>2. ASSUME Paired(q) PROVE Paired(t)
  <2> SUFFICES ASSUME NEW i \in 1..Len(t)-1 PROVE What(t[i + 1]) \in Follow(What(t[i]))
    BY DEF Paired
  <2>1. i \in 1..Len(t) /\ i + 1 \in 1..Len(t) /\ i + 1 \in 1..Len(q)-1
    BY <1>1
  <2>2. What(q[(i + 1) + 1]) \in Follow(What(q[i + 1]))
    BY <1>2, <2>1 DEF Paired
  <2> QED BY <1>1, <2>1, <2>2
<1>3. ASSUME OneSign(q) PROVE OneSign(t)
  <2> SUFFICES ASSUME NEW i \in 1..Len(t), NEW j \in 1..Len(t), What(t[i]) \in Signs, What(t[j]) \in Signs
               PROVE  i = j
    BY DEF OneSign
  <2>1. i + 1 = j + 1
    BY <1>1, <1>3 DEF OneSign
  <2> QED BY <1>1, <2>1
<1>4. NoSigns(q) => NoSigns(t)
  BY <1>1 DEF NoSigns
<1>5. ASSUME OneSign(q), What(q[1]) \in Signs PROVE NoSigns(t)
  <2> SUFFICES ASSUME NEW i \in 1..Len(t), What(t[i]) \in Signs PROVE FALSE
    BY DEF NoSigns
  <2>1. i + 1 \in 1..Len(q) /\ i + 1 # 1 /\ What(q[i + 1]) \in Signs
    BY <1>1
  <2> QED BY <1>1, <1>5, <2>1 DEF OneSign
<1>6. ASSUME NEW S, EndsIn(q, S) PROVE EndsIn(t, S) /\ (Len(t) = 0 => What(q[1]) \in S)
  <2>1. What(q[Len(q)]) \in S
    BY <1>1, <1>6 DEF EndsIn
  <2>2. Len(t) = 0 => Len(q) = 1
    BY <1>1
  <2>3. Len(t) > 0 => t[Len(t)] = q[Len(q)]
    <3> SUFFICES ASSUME Len(t) > 0 PROVE t[Len(t)] = q[Len(q)]
      OBVIOUS
    <3>1. Len(t) \in 1..Len(t) /\ Len(t) + 1 = Len(q)
      BY <1>1
    <3>2. t[Len(t)] = q[Len(t) + 1]
      BY <1>1, <3>1
    <3> QED BY <3>1, <3>2
  <2> QED BY <2>1, <2>2, <2>3 DEF EndsIn
<1>7. ASSUME Paired(q), Len(t) > 0 PROVE What(t[1]) \in Follow(What(q[1]))
  <2>1. 1 \in 1..Len(t) /\ 1 \in 1..Len(q)-1
    BY <1>1, <1>7
  <2>2. t[1] = q[1 + 1]
    BY <1>1, <2>1
  <2> QED BY <1>7, <2>1, <2>2 DEF Paired
<1> QED
  BY <1>2, <1>3, <1>4, <1>5, <1>6, <1>7

(* Towards gdb: a character more.                                          *)
LEMMA UpChar ==
    ASSUME NEW q, NEW c, NEW t, Join(q, <<c>>, t)
    PROVE  /\ Paired(q) /\ (Len(q) > 0 => What(c) \in Follow(What(q[Len(q)]))) => Paired(t)
           /\ \A S : What(c) \in S => EndsIn(t, S)
           /\ OneSign(q) /\ (NoSigns(q) \/ What(c) \notin Signs) => OneSign(t)
           /\ \A i \in 1..Len(t) : t[i] = c \/ (i \in 1..Len(q) /\ t[i] = q[i])
           /\ Len(t) = Len(q) + 1 /\ t[Len(t)] = c
<1>1. /\ Len(q) \in Nat /\ Len(t) = Len(q) + 1 /\ t[Len(t)] = c /\ Len(t) \in 1..Len(t)
      /\ \A i \in 1..Len(q) : i \in 1..Len(t) /\ t[i] = q[i]
  <2>1. Len(<<c>>) = 1 /\ <<c>>[1] = c /\ 1 \in 1..1
    OBVIOUS
  <2> QED BY <2>1 DEF Join
<1>2. \A i \in 1..Len(t) : i \in 1..Len(q) \/ i = Len(q) + 1
  BY <1>1
<1>3. \A i \in 1..Len(t) : t[i] = c \/ (i \in 1..Len(q) /\ t[i] = q[i])
  BY <1>1, <1>2
<1>4. ASSUME Paired(q), Len(q) > 0 => What(c) \in Follow(What(q[Len(q)])) PROVE Paired(t)
  <2> SUFFICES ASSUME NEW i \in 1..Len(t)-1 PROVE What(t[i + 1]) \in Follow(What(t[i]))
    BY DEF Paired
  <2>1. i \in 1..Len(q)
    BY <1>1
  <2>2. CASE i = Len(q)
    <3>1. Len(q) > 0 /\ i + 1 = Len(t)
      BY <1>1, <2>1, <2>2
    <3> QED BY <1>1, <1>4, <2>1, <2>2, <3>1
  <2>3. CASE i # Len(q)
    <3>1. i \in 1..Len(q)-1 /\ i + 1 \in 1..Len(q)
      BY <1>1, <2>1, <2>3
    <3> QED BY <1>1, <1>4, <2>1, <3>1 DEF Paired
  <2> QED BY <2>2, <2>3
<1>5. \A S : What(c) \in S => EndsIn(t, S)
  BY <1>1 DEF EndsIn
<1>6. ASSUME OneSign(q), NoSigns(q) \/ What(c) \notin Signs PROVE OneSign(t)
  <2> SUFFICES ASSUME NEW i \in 1..Len(t), NEW j \in 1..Len(t), What(t[i]) \in Signs, What(t[j]) \in Signs
               PROVE  i = j
    BY DEF OneSign
  <2>1. CASE NoSigns(q)
    <3>1. i \notin 1..Len(q) /\ j \notin 1..Len(q)
      BY <1>1, <2>1 DEF NoSigns
    <3> QED BY <1>1, <1>2, <3>1
  <2>2. CASE What(c) \notin Signs
    <3>1. i \in 1..Len(q) /\ t[i] = q[i] /\ j \in 1..Len(q) /\ t[j] = q[j]
      BY <1>3, <2>2
    <3> QED BY <1>6, <3>1 DEF OneSign
  <2> QED BY <1>6, <2>1, <2>2
<1> QED
  BY <1>1, <1>3, <1>4, <1>5, <1>6

(* Towards gdb: a packet more.                                             *)
LEMMA UpPacket ==
    ASSUME NEW q, NEW p, NEW t, Join(q, Packet(p), t)
    PROVE  /\ Paired(q) /\ EndsIn(q, {"lo", "+", "-"}) => Paired(t)
           /\ \A S : "lo" \in S => EndsIn(t, S)
           /\ OneSign(q) => OneSign(t)
           /\ \A i \in 1..Len(t) : \/ i \in 1..Len(q) /\ t[i] = q[i]
                                   \/ What(t[i]) \notin Signs /\ \E k \in 1..5 : t[i] = Packet(p)[k]
           /\ Len(t) = Len(q) + 5 /\ \A k \in 1..5 : t[Len(q) + k] = Packet(p)[k]
<1>1. /\ Len(q) \in Nat /\ Len(t) = Len(q) + 5
      /\ \A i \in 1..Len(q) : i \in 1..Len(t) /\ t[i] = q[i]
      /\ \A k \in 1..5 : t[Len(q) + k] = Packet(p)[k] /\ What(t[Len(q) + k]) = Parts[k]
  BY Whats DEF Join
<1>2. ASSUME NEW i \in 1..Len(t)
      PROVE  \/ i \in 1..Len(q)
             \/ i - Len(q) \in 1..5 /\ Len(q) + (i - Len(q)) = i
  BY <1>1
<1>3. \A k \in 1..5 : Parts[k] \notin Signs
  <2>1. \A k \in 1..5 : k = 1 \/ k = 2 \/ k = 3 \/ k = 4 \/ k = 5
    OBVIOUS
  <2> QED BY <2>1, Whats DEF Signs
<1>4. \A i \in 1..Len(t) : \/ i \in 1..Len(q) /\ t[i] = q[i]
                           \/ What(t[i]) \notin Signs /\ \E k \in 1..5 : t[i] = Packet(p)[k]
  BY <1>1, <1>2, <1>3
<1>5. ASSUME Paired(q), EndsIn(q, {"lo", "+", "-"}) PROVE Paired(t)
  <2> SUFFICES ASSUME NEW i \in 1..Len(t)-1 PROVE What(t[i + 1]) \in Follow(What(t[i]))
    BY DEF Paired
  <2>1. CASE i \in 1..Len(q) /\ i # Len(q)
    <3>1. i \in 1..Len(q)-1 /\ i + 1 \in 1..Len(q)
      BY <1>1, <2>1
    <3> QED BY <1>1, <1>5, <2>1, <3>1 DEF Paired
  <2>2. CASE i \in 1..Len(q) /\ i = Len(q)
    <3>1. What(t[i]) \in {"lo", "+", "-"}
      BY <1>1, <1>5, <2>2 DEF EndsIn
    <3>2. What(t[i + 1]) = "$"
      BY <1>1, <2>2, Whats
    <3> QED BY <3>1, <3>2, Whats
  <2>3. CASE i \notin 1..Len(q)
    <3> DEFINE k == i - Len(q)
    <3>1. k \in 1..4 /\ Len(q) + k = i /\ Len(q) + (k + 1) = i + 1 /\ k \in 1..5 /\ k + 1 \in 1..5
      BY <1>1, <2>3
    <3> HIDE DEF k
    <3>2. What(t[i]) = Parts[k] /\ What(t[i + 1]) = Parts[k + 1]
      BY <1>1, <3>1
    <3> QED BY <3>1, <3>2, Whats
  <2> QED BY <2>1, <2>2, <2>3
<1>6. \A S : "lo" \in S => EndsIn(t, S)
  BY <1>1, Whats DEF EndsIn
<1>7. ASSUME OneSign(q) PROVE OneSign(t)
  BY <1>4, <1>7 DEF OneSign
<1> QED
  BY <1>1, <1>4, <1>5, <1>6, <1>7
-----------------------------------------------------------------------------
(* What a queue of two parts becomes when its head is taken, something is  *)
(* put behind it, or a part is moved.                                      *)
LEMMA Parted ==
    /\ \A a, b \in Seq(Chars) : a # <<>> => /\ Rest(a \o b, Tail(a) \o b)
                                            /\ (a \o b)[1] = Head(a) /\ Len(a \o b) > 0
    /\ \A a, b, c \in Seq(Chars) : (a \o b) \o c = a \o (b \o c)
    /\ \A a \in Seq(Chars) : a \o <<>> = a /\ <<>> \o a = a
    /\ \A a \in Seq(Chars) : \A k \in 0..Len(a) : SubSeq(a, 1, k) \o Drop(a, k) = a
<1> DEFINE C == Chars
<1> HIDE DEF C
<1>1. ASSUME NEW a \in Seq(C), NEW b \in Seq(C), a # <<>>
      PROVE  Rest(a \o b, Tail(a) \o b) /\ (a \o b)[1] = Head(a) /\ Len(a \o b) > 0
  <2>1. /\ Tail(a) \in Seq(C) /\ Len(Tail(a)) = Len(a) - 1 /\ Head(a) = a[1]
        /\ \A i \in 1..Len(Tail(a)) : Tail(a)[i] = a[i + 1]
    BY <1>1, HeadTailProperties
  <2>2. Len(a) \in Nat \ {0} /\ Len(b) \in Nat
    BY <1>1, EmptySeq
  <2>3. /\ Len(a \o b) = Len(a) + Len(b)
        /\ \A i \in 1..Len(a) + Len(b) : (a \o b)[i] = IF i <= Len(a) THEN a[i] ELSE b[i - Len(a)]
    BY ConcatProperties
  <2>4. /\ Len(Tail(a) \o b) = (Len(a) - 1) + Len(b)
        /\ \A i \in 1..(Len(a) - 1) + Len(b) :
              (Tail(a) \o b)[i] = IF i <= Len(a) - 1 THEN Tail(a)[i] ELSE b[i - (Len(a) - 1)]
    BY <2>1, ConcatProperties
  <2>5. ASSUME NEW i \in 1..Len(Tail(a) \o b) PROVE (Tail(a) \o b)[i] = (a \o b)[i + 1]
    <3>1. i \in 1..(Len(a) - 1) + Len(b) /\ i + 1 \in 1..Len(a) + Len(b)
      BY <2>2, <2>4
    <3>2. CASE i <= Len(a) - 1
      <4>1. i \in 1..Len(Tail(a)) /\ i + 1 <= Len(a)
        BY <2>1, <2>2, <3>1, <3>2
      <4> QED BY <2>1, <2>3, <2>4, <3>1, <3>2, <4>1
    <3>3. CASE ~(i <= Len(a) - 1)
      <4>1. ~(i + 1 <= Len(a)) /\ (i + 1) - Len(a) = i - (Len(a) - 1)
        BY <2>2, <3>1, <3>3
      <4> QED BY <2>3, <2>4, <3>1, <3>3, <4>1
    <3> QED BY <3>2, <3>3
  <2>6. (a \o b)[1] = a[1]
    <3>1. 1 \in 1..Len(a) + Len(b) /\ 1 <= Len(a)
      BY <2>2
    <3> QED BY <2>3, <3>1
  <2>7. Len(a \o b) \in Nat /\ Len(a \o b) > 0 /\ Len(Tail(a) \o b) = Len(a \o b) - 1
    BY <2>2, <2>3, <2>4
  <2> QED BY <2>1, <2>5, <2>6, <2>7 DEF Rest
<1>2. \A a, b, c \in Seq(C) : (a \o b) \o c = a \o (b \o c)
  BY ConcatAssociative
<1>3. \A a \in Seq(C) : a \o <<>> = a /\ <<>> \o a = a
  BY ConcatEmptySeq
<1>4. ASSUME NEW a \in Seq(C), NEW k \in 0..Len(a) PROVE SubSeq(a, 1, k) \o Drop(a, k) = a
  <2> DEFINE x == SubSeq(a, 1, k)
             y == SubSeq(a, k + 1, Len(a))
  <2>1. Len(a) \in Nat /\ k \in Nat /\ k <= Len(a)
    OBVIOUS
  <2>2. x \in Seq(C) /\ Len(x) = k /\ \A i \in 1..k : x[i] = a[i]
    BY <2>1, SubSeqProperties
  <2>3. y \in Seq(C) /\ Len(y) = Len(a) - k /\ \A i \in 1..Len(a) - k : y[i] = a[k + i]
    BY <2>1, SubSeqProperties
  <2> HIDE DEF x, y
  <2>4. /\ x \o y \in Seq(C) /\ Len(x \o y) = Len(x) + Len(y)
        /\ \A i \in 1..Len(x) + Len(y) : (x \o y)[i] = IF i <= Len(x) THEN x[i] ELSE y[i - Len(x)]
    BY <2>2, <2>3, ConcatProperties
  <2>5. Len(x \o y) = Len(a)
    BY <2>1, <2>2, <2>3, <2>4
  <2>6. ASSUME NEW i \in 1..Len(a) PROVE (x \o y)[i] = a[i]
    <3>1. (x \o y)[i] = IF i <= k THEN x[i] ELSE y[i - k]
      BY <2>1, <2>2, <2>3, <2>4
    <3>2. CASE i <= k
      BY <2>1, <2>2, <3>1, <3>2
    <3>3. CASE ~(i <= k)
      <4>1. i - k \in 1..Len(a) - k /\ k + (i - k) = i
        BY <2>1, <3>3
      <4> QED BY <2>3, <3>1, <3>3, <4>1
    <3> QED BY <3>2, <3>3
  <2>7. x \o y = a
    BY <2>4, <2>5, <2>6, SeqEqual
  <2> QED BY <2>7 DEF Drop, x, y
<1> QED
  BY <1>1, <1>2, <1>3, <1>4 DEF C
(* What the steps of gdb, the stub and the program do to what is on its    *)
(* way.                                                                    *)
LEMMA Streams ==
    ASSUME LinkInv
    PROVE  /\ Up \in Seq(Chars) /\ Len(Up) \in Nat /\ Down \in Seq(Chars) /\ Len(Down) \in Nat
           /\ UNCHANGED <<sock_up, temp, jtag_up>> => Up' = Up
           /\ UNCHANGED <<sock_down, jtag_down>> => Down' = Down
           /\ \A c : HostGets(c) /\ UNCHANGED <<temp, jtag_up>> => Rest(Up, Up') /\ c = Up[1]
           /\ \A s \in Seq(Chars) : HostSend(s) /\ UNCHANGED jtag_down => Join(Down, s, Down')
           /\ HostSend(<<>>) /\ UNCHANGED jtag_down => Down' = Down
           /\ jtag_down # <<>> /\ jtag_down' = Tail(jtag_down) /\ UNCHANGED sock_down =>
                 Rest(Down, Down') /\ Head(jtag_down) = Down[1]
           /\ \A s \in Seq(Chars) : Put(s) /\ UNCHANGED <<sock_up, temp>> => Join(Up, s, Up')
           /\ Put(<<>>) /\ UNCHANGED <<sock_up, temp>> => Up' = Up
<1>1. /\ sock_up \in Seq(Chars) /\ sock_down \in Seq(Chars) /\ temp \in Seq(Chars)
      /\ jtag_up \in Seq(Chars) /\ jtag_down \in Seq(Chars)
  BY DEF LinkInv, QueuesOK
<1>2. temp \o jtag_up \in Seq(Chars) /\ Up \in Seq(Chars) /\ Down \in Seq(Chars)
  BY <1>1, RestJoin DEF Up, Down
<1>3. Len(Up) \in Nat /\ Len(Down) \in Nat
  BY <1>2, RestJoin
<1>4. UNCHANGED <<sock_up, temp, jtag_up>> => Up' = Up
  BY DEF Up
<1>5. UNCHANGED <<sock_down, jtag_down>> => Down' = Down
  BY DEF Down
<1>6. ASSUME NEW c, HostGets(c), UNCHANGED <<temp, jtag_up>> PROVE Rest(Up, Up') /\ c = Up[1]
  <2>1. sock_up # <<>> /\ c = Head(sock_up) /\ Up' = Tail(sock_up) \o (temp \o jtag_up)
    BY <1>6 DEF HostGets, Up
  <2> QED BY <1>1, <1>2, <2>1, Parted DEF Up
<1>7. ASSUME NEW s \in Seq(Chars), HostSend(s), UNCHANGED jtag_down
      PROVE  Join(Down, s, Down')
  <2>1. Down' = jtag_down \o (sock_down \o s)
    BY <1>7 DEF HostSend, Down
  <2>2. Down' = Down \o s
    BY <1>1, <2>1, Parted DEF Down
  <2> QED BY <1>2, <2>2, RestJoin
<1>8. ASSUME HostSend(<<>>), UNCHANGED jtag_down PROVE Down' = Down
  <2>1. sock_down' = sock_down
    BY <1>1, <1>8, Parted DEF HostSend
  <2> QED BY <1>5, <1>8, <2>1
<1>9. ASSUME jtag_down # <<>>, jtag_down' = Tail(jtag_down), UNCHANGED sock_down
      PROVE  Rest(Down, Down') /\ Head(jtag_down) = Down[1]
  <2>1. Down' = Tail(jtag_down) \o sock_down
    BY <1>9 DEF Down
  <2> QED BY <1>1, <1>9, <2>1, Parted DEF Down
<1>10. ASSUME NEW s \in Seq(Chars), Put(s), UNCHANGED <<sock_up, temp>>
       PROVE  Join(Up, s, Up')
  <2>1. Up' = sock_up \o (temp \o (jtag_up \o s))
    BY <1>10 DEF Put, Up
  <2>2. temp \o (jtag_up \o s) = (temp \o jtag_up) \o s
    BY <1>1, Parted, ZenonT(60)
  <2>3. (sock_up \o (temp \o jtag_up)) \o s = sock_up \o ((temp \o jtag_up) \o s)
    BY <1>1, <1>2, Parted, ZenonT(60)
  <2>4. Up' = Up \o s
    BY <2>1, <2>2, <2>3, Zenon DEF Up
  <2> QED BY <1>2, <2>4, RestJoin
<1>11. ASSUME Put(<<>>), UNCHANGED <<sock_up, temp>> PROVE Up' = Up
  <2>1. jtag_up' = jtag_up
    BY <1>1, <1>11, Parted DEF Put
  <2> QED BY <1>4, <1>11, <2>1
<1> QED
  BY <1>2, <1>3, <1>4, <1>5, <1>6, <1>7, <1>8, <1>9, <1>10, <1>11

(* The relay moves them, as long as it sends what it has at once, and      *)
(* loses only what nobody reads any more.                                  *)
LEMMA Relayed ==
    ASSUME LinkInv, left = Len(temp)
    PROVE  /\ RelayMoves => Up' = Up /\ Down' = Down /\ left' = Len(temp')
           /\ RelaySends /\ Healthy' => Up' = Up /\ Down' = Down /\ left' = Len(temp')
           /\ RelayBreaks => /\ \E a \in Seq(Chars) : Join(a, Up', Up)
                             /\ \E b \in Seq(Chars) : Join(Down', b, Down)
<1>1. /\ sock_up \in Seq(Chars) /\ sock_down \in Seq(Chars) /\ temp \in Seq(Chars)
      /\ jtag_up \in Seq(Chars) /\ jtag_down \in Seq(Chars)
  BY DEF LinkInv, QueuesOK
<1>2. left = 0 => temp = <<>>
  BY <1>1, RestJoin
<1>3. Len(sock_down) \in Nat /\ Len(jtag_up) \in Nat /\ Len(temp) \in Nat /\ Chunk \in Nat
  BY <1>1, RestJoin, LinkAssumption
<1>4. ASSUME RelayMoves PROVE Up' = Up /\ Down' = Down /\ left' = Len(temp')
  <2> DEFINE down == Least(Chunk, Len(sock_down))
             up == Least(Chunk, Len(jtag_up))
  <2>1. down \in 0..Len(sock_down) /\ up \in 0..Len(jtag_up)
    BY <1>3 DEF Least
  <2>2. /\ jtag_down' = jtag_down \o SubSeq(sock_down, 1, down) /\ sock_down' = Drop(sock_down, down)
        /\ temp' = SubSeq(jtag_up, 1, up) /\ left' = up /\ jtag_up' = Drop(jtag_up, up)
        /\ sock_up' = sock_up /\ left = 0
    BY <1>4 DEF RelayMoves
  <2> HIDE DEF down, up
  <2>3. /\ SubSeq(sock_down, 1, down) \in Seq(Chars) /\ Drop(sock_down, down) \in Seq(Chars)
        /\ Len(SubSeq(jtag_up, 1, up)) = up
    BY <1>1, <2>1, Cut
  <2>4. Down' = jtag_down \o (SubSeq(sock_down, 1, down) \o Drop(sock_down, down))
    <3>1. Down' = (jtag_down \o SubSeq(sock_down, 1, down)) \o Drop(sock_down, down)
      BY <2>2, Zenon DEF Down
    <3>2. \A a, b, c \in Seq(Chars) : (a \o b) \o c = a \o (b \o c)
      BY Parted, Zenon
    <3> QED BY <1>1, <2>3, <3>1, <3>2, ZenonT(60)
  <2>5. Down' = Down
    <3>1. SubSeq(sock_down, 1, down) \o Drop(sock_down, down) = sock_down
      BY <1>1, <2>1, Parted, ZenonT(60)
    <3> QED BY <2>4, <3>1, Zenon DEF Down
  <2>6. Up' = sock_up \o jtag_up
    BY <1>1, <2>1, <2>2, Parted DEF Up
  <2>7. Up = sock_up \o jtag_up
    BY <1>1, <1>2, <2>2, Parted DEF Up
  <2> QED BY <2>2, <2>3, <2>5, <2>6, <2>7
<1>5. ASSUME RelaySends, Healthy' PROVE Up' = Up /\ Down' = Down /\ left' = Len(temp')
  <2>1. PICK sent \in 1..left :
          /\ sock_up' = sock_up \o SubSeq(temp, 1, sent) /\ left' = left - sent
          /\ temp' = IF sent = left THEN <<>> ELSE temp
          /\ faults' = faults \cup (IF sent < left THEN {"partial"} ELSE {})
    BY <1>5 DEF RelaySends
  <2>2. sent = left
    <3> SUFFICES ASSUME sent # left PROVE FALSE
      OBVIOUS
    <3>1. "partial" \in faults'
      BY <1>3, <2>1
    <3> QED BY <1>5, <3>1 DEF Healthy
  <2>3. UNCHANGED <<sock_down, jtag_up, jtag_down>>
    BY <1>5 DEF RelaySends
  <2>4. left' = 0 /\ temp' = <<>> /\ Len(temp') = 0
    BY <1>3, <2>1, <2>2
  <2>5. SubSeq(temp, 1, sent) = temp
    <3>1. SubSeq(temp, 1, Len(temp)) \o Drop(temp, Len(temp)) = temp
      <4>1. Len(temp) \in 0..Len(temp)
        BY <1>3
      <4> QED BY <1>1, <4>1, Parted, Zenon
    <3>2. Drop(temp, Len(temp)) = <<>>
      <4>1. Len(temp) + 1 \in Int /\ Len(temp) \in Int /\ Len(temp) < Len(temp) + 1
        BY <1>3
      <4>2. SubSeq(temp, Len(temp) + 1, Len(temp)) = <<>>
        BY <4>1, SubSeqEmpty, Zenon
      <4> QED BY <4>2, Zenon DEF Drop
    <3>3. SubSeq(temp, 1, Len(temp)) \in Seq(Chars)
      BY <1>1, <1>3, Cut
    <3> QED BY <2>2, <3>1, <3>2, <3>3, Parted
  <2>6. Up' = (sock_up \o temp) \o jtag_up
    BY <1>1, <2>1, <2>3, <2>4, <2>5, Parted DEF Up
  <2>7. Up' = Up
    BY <1>1, <2>6, Parted DEF Up
  <2> QED BY <2>3, <2>4, <2>7 DEF Down
<1>6. ASSUME RelayBreaks
      PROVE  /\ \E a \in Seq(Chars) : Join(a, Up', Up)
             /\ \E b \in Seq(Chars) : Join(Down', b, Down)
  <2>1. left = 0 /\ sock_up' = <<>> /\ sock_down' = <<>> /\ UNCHANGED <<temp, jtag_up, jtag_down>>
    BY <1>6 DEF RelayBreaks, relayVars
  <2>2. Up = sock_up \o jtag_up /\ Up' = jtag_up /\ Down' = jtag_down
    BY <1>1, <1>2, <2>1, Parted DEF Up, Down
  <2> QED BY <1>1, <2>2, RestJoin DEF Down
<1> QED
  BY <1>4, <1>5, <1>6
-----------------------------------------------------------------------------
(* What is left alone.                                                     *)
LEMMA Kept ==
    /\ DownInv /\ Down' = Down /\ UNCHANGED <<cmd, host, executions, spc>> => DownInv'
    /\ WholeInv /\ Up' = Up /\ UNCHANGED <<out, host, frame>> => WholeInv'
    /\ SignInv /\ Up' = Up /\ Down' = Down /\ UNCHANGED <<host, spc, executions>> => SignInv'
    /\ AnswerInv /\ Up' = Up /\ UNCHANGED <<host, executions, cmd, n, frame>> => AnswerInv'
    /\ HostInv /\ UNCHANGED <<host, executions, result, n, cmd, conn>> => HostInv'
    /\ StubInv /\ UNCHANGED <<executions, spc, host, out, gdb_connected, reply, n>>
               /\ left' = Len(temp') => StubInv'
<1>1. DownInv /\ Down' = Down /\ UNCHANGED <<cmd, host, executions, spc>> => DownInv'
  BY DEF DownInv, Middle
<1>2. WholeInv /\ Up' = Up /\ UNCHANGED <<out, host, frame>> => WholeInv'
  BY DEF WholeInv, Ends, FrameShape, Sync, Expected
<1>3. SignInv /\ Up' = Up /\ Down' = Down /\ UNCHANGED <<host, spc, executions>> => SignInv'
  BY DEF SignInv, Middle
<1>4. ASSUME AnswerInv, Up' = Up, UNCHANGED <<host, executions, cmd, n, frame>> PROVE AnswerInv'
  <2>1. MyReply' = MyReply
    BY <1>4 DEF MyReply
  <2>2. \A k : Answered(k)' <=> Answered(k)
    BY <1>4, <2>1 DEF Answered
  <2> QED BY <1>4, <2>1, <2>2 DEF AnswerInv
<1>5. HostInv /\ UNCHANGED <<host, executions, result, n, cmd, conn>> => HostInv'
  BY DEF HostInv
<1>6. StubInv /\ UNCHANGED <<executions, spc, host, out, gdb_connected, reply, n>>
              /\ left' = Len(temp') => StubInv'
  BY DEF StubInv, Middle
<1> QED
  BY <1>1, <1>2, <1>3, <1>4, <1>5, <1>6
(* A character less on its way to the stub, which begins to read a packet  *)
(* only with its beginning.                                                *)
LEMMA DownTaken ==
    ASSUME DownInv, Rest(Down, Down'), UNCHANGED <<cmd, host, executions>>,
           Middle' => Middle \/ What(Down[1]) = "$"
    PROVE  DownInv' /\ (NoStart(Down) => NoStart(Down') /\ What(Down[1]) # "$")
<1>1. DownShape(Down, cmd) /\ DownShape(Down', cmd')
  BY DownRest DEF DownInv
<1>2. (host' = "sent" /\ executions' = 0) \/ OnlySigns(Down')
  BY DownRest DEF DownInv
<1>3. ASSUME Middle' PROVE StartFirst(Down')
  <2>1. NoStart(Down')
    BY <1>1, <1>3, DownRest DEF DownInv
  <2> QED BY <2>1 DEF NoStart, StartFirst
<1>4. NoStart(Down) => NoStart(Down') /\ What(Down[1]) # "$"
  <2>1. 1 \in 1..Len(Down)
    BY DEF Rest
  <2> QED BY <2>1, DownRest DEF NoStart
<1> QED
  BY <1>1, <1>2, <1>3, <1>4 DEF DownInv

(* Signs more.                                                             *)
LEMMA DownMore ==
    ASSUME DownInv, NEW s, OnlySigns(s), Join(Down, s, Down'),
           UNCHANGED <<cmd, spc, executions>>, host = "sent" => host' = "sent"
    PROVE  DownInv' /\ (NoStart(Down) => NoStart(Down'))
<1>1. DownShape(Down', cmd')
  BY DownSigns DEF DownInv
<1>2. (host' = "sent" /\ executions' = 0) \/ OnlySigns(Down')
  BY DownSigns DEF DownInv
<1>3. Middle' => StartFirst(Down')
  BY DownSigns DEF DownInv, Middle
<1> QED
  BY <1>1, <1>2, <1>3, DownSigns DEF DownInv

(* A character less on its way to gdb: the next part of a packet follows,  *)
(* or the program is to print it.                                          *)
LEMMA UpTaken ==
    ASSUME WholeInv, Rest(Up, Up'), out' = out, out \in 0..4
    PROVE  /\ Paired(Up') /\ EndsIn(Up', Ends')
           /\ \A m \in 1..4 : What(Up[1]) = Parts[m] =>
                 IF Len(Up') > 0 THEN What(Up'[1]) = Parts[m + 1]
                                 ELSE out # 0 /\ Parts[out + 1] = Parts[m + 1]
<1>1. Paired(Up') /\ EndsIn(Up', Ends) /\ (Len(Up') = 0 => What(Up[1]) \in Ends)
  BY UpRest DEF WholeInv
<1>2. Ends' = Ends
  BY DEF Ends
<1>3. Len(Up') \in Nat
  BY DEF Rest
<1>4. ASSUME NEW m \in 1..4, What(Up[1]) = Parts[m]
      PROVE  IF Len(Up') > 0 THEN What(Up'[1]) = Parts[m + 1]
                             ELSE out # 0 /\ Parts[out + 1] = Parts[m + 1]
  <2>1. CASE Len(Up') > 0
    <3>1. What(Up'[1]) \in Follow(Parts[m])
      BY <1>4, <2>1, UpRest DEF WholeInv
    <3> QED BY <2>1, <3>1, Whats
  <2>2. CASE ~(Len(Up') > 0)
    <3>1. Parts[m] \in Ends
      BY <1>1, <1>3, <1>4, <2>2
    <3>2. m = 1 \/ m = 2 \/ m = 3 \/ m = 4
      OBVIOUS
    <3>3. Parts[m] \notin {"lo", "+", "-"}
      BY <3>2, Whats
    <3>4. out # 0 /\ Parts[m] = Parts[out]
      BY <3>1, <3>3 DEF Ends
    <3>5. out \in 1..4 /\ (out = 1 \/ out = 2 \/ out = 3 \/ out = 4)
      BY <3>4
    <3>6. out = m
      BY <3>2, <3>4, <3>5, Whats
    <3> QED BY <2>2, <3>4, <3>6
  <2> QED BY <2>1, <2>2
<1> QED
  BY <1>1, <1>2, <1>4

(* No new sign on its way to gdb.                                          *)
LEMMA SignsTaken ==
    ASSUME SignInv, Rest(Up, Up'), UNCHANGED <<spc, executions>>, host = "sent" => host' = "sent",
           NoStart(Down) => NoStart(Down')
    PROVE  SignInv'
<1>1. OneSign(Up')
  BY UpRest DEF SignInv
<1>2. \A i \in 1..Len(Up') : i + 1 \in 1..Len(Up) /\ Up'[i] = Up[i + 1]
  BY DEF Rest
<1>3. Middle' = Middle
  BY DEF Middle
<1> QED
  BY <1>1, <1>2, <1>3 DEF SignInv

(* Nor from the stub or the program, which is reading nothing new.         *)
LEMMA SignsKept ==
    ASSUME SignInv, OneSign(Up'), UNCHANGED <<host, executions>>,
           NoStart(Down) => NoStart(Down') /\ (Middle' => Middle),
           \A i \in 1..Len(Up') : (i \in 1..Len(Up) /\ Up'[i] = Up[i]) \/ What(Up'[i]) \notin Signs
    PROVE  SignInv'
  BY DEF SignInv

(* Characters more on their way to gdb, none of them from another call.    *)
LEMMA AnswerMore ==
    ASSUME AnswerInv, UNCHANGED <<host, executions, cmd, n, frame>>,
           Len(Up) \in Nat, Len(Up') \in Nat, Len(Up') >= Len(Up), frame \in Seq(Chars),
           \A i \in 1..Len(Up) : Up'[i] = Up[i],
           \A i \in 1..Len(Up') : i \in 1..Len(Up) \/ (executions = 1 => Mine(Up'[i], n)),
           host = "running" => executions = 1
    PROVE  AnswerInv'
<1>1. MyReply' = MyReply
  BY DEF MyReply
<1>2. n' = n /\ cmd' = cmd
  OBVIOUS
<1>3. ASSUME NEW k \in 1..Len(Up), Answered(k), executions = 1 PROVE Answered(k)'
  <2>1. What(Up'[k]) = "+"
    BY <1>3 DEF Answered
  <2>2. ASSUME cmd'[1] = "resume", NEW i \in k+1..Len(Up') PROVE Mine(Up'[i], n')
    <3>1. i \in 1..Len(Up')
      OBVIOUS
    <3>2. CASE i \in 1..Len(Up)
      BY <1>2, <1>3, <2>2, <3>2 DEF Answered
    <3>3. CASE i \notin 1..Len(Up)
      BY <1>2, <1>3, <3>1, <3>3
    <3> QED BY <3>2, <3>3
  <2>3. ASSUME cmd'[1] \notin {"resume", "kill"}
        PROVE  k + 5 <= Len(Up') /\ \A i \in 1..5 : Up'[k + i] = MyReply'[i]
    <3>1. k + 5 <= Len(Up) /\ \A i \in 1..5 : Up[k + i] = MyReply[i]
      BY <1>3, <2>3 DEF Answered
    <3>2. k + 5 <= Len(Up') /\ \A i \in 1..5 : k + i \in 1..Len(Up)
      BY <3>1, SMTT(30)
    <3>3. \A i \in 1..5 : Up'[k + i] = Up[k + i]
      BY <3>2
    <3> QED BY <1>1, <3>1, <3>2, <3>3
  <2> QED BY <2>1, <2>2, <2>3 DEF Answered
<1>4. ASSUME host' = "sent", executions' = 1 PROVE \E k \in 1..Len(Up') : Answered(k)'
  <2>1. PICK k \in 1..Len(Up) : Answered(k)
    BY <1>4 DEF AnswerInv
  <2>2. k \in 1..Len(Up')
    OBVIOUS
  <2> QED BY <1>3, <1>4, <2>1, <2>2
<1>5. ASSUME host' = "await"
      PROVE  /\ Len(frame') + Len(Up') >= 5
             /\ \A i \in 1..Len(frame') : frame'[i] = MyReply'[i]
             /\ \A i \in Len(frame')+1..5 : Up'[i - Len(frame')] = MyReply'[i]
  <2>1. /\ Len(frame) + Len(Up) >= 5 /\ \A i \in 1..Len(frame) : frame[i] = MyReply[i]
        /\ \A i \in Len(frame)+1..5 : Up[i - Len(frame)] = MyReply[i]
    BY <1>5 DEF AnswerInv
  <2>2. Len(frame) \in Nat
    BY RestJoin
  <2>3. \A i \in Len(frame)+1..5 : i - Len(frame) \in 1..Len(Up)
    BY <2>1, <2>2
  <2> QED BY <1>1, <2>1, <2>2, <2>3
<1>6. ASSUME host' = "running"
      PROVE  /\ \A i \in 1..Len(frame') : Mine(frame'[i], n')
             /\ \A i \in 1..Len(Up') : Mine(Up'[i], n')
  BY <1>2, <1>6 DEF AnswerInv
<1> QED
  BY <1>4, <1>5, <1>6 DEF AnswerInv
(* gdb, waiting for the sign, takes a character that is not the sign.      *)
LEMMA AnswerTaken ==
    ASSUME AnswerInv, host = "sent", UNCHANGED <<host, executions, cmd, n>>, Rest(Up, Up'), What(Up[1]) # "+"
    PROVE  AnswerInv'
<1>1. /\ Len(Up) \in Nat /\ Len(Up') = Len(Up) - 1
      /\ \A i \in 1..Len(Up') : Up'[i] = Up[i + 1]
  BY DEF Rest
<1>2. MyReply' = MyReply /\ n' = n /\ cmd' = cmd
  BY DEF MyReply
<1>3. ASSUME executions = 1 PROVE \E k \in 1..Len(Up') : Answered(k)'
  <2>1. PICK k \in 1..Len(Up) : Answered(k)
    BY <1>3 DEF AnswerInv
  <2>2. k # 1
    BY <2>1 DEF Answered
  <2>3. k - 1 \in 1..Len(Up') /\ (k - 1) + 1 = k
    BY <1>1, <2>2
  <2>4. What(Up'[k - 1]) = "+"
    BY <1>1, <2>1, <2>3 DEF Answered
  <2>5. ASSUME cmd'[1] = "resume", NEW i \in (k - 1)+1..Len(Up') PROVE Mine(Up'[i], n')
    <3>1. i \in 1..Len(Up') /\ i + 1 \in k+1..Len(Up)
      BY <1>1, <2>3
    <3> QED BY <1>1, <1>2, <2>1, <2>5, <3>1 DEF Answered
  <2>6. ASSUME cmd'[1] \notin {"resume", "kill"}
        PROVE  (k - 1) + 5 <= Len(Up') /\ \A i \in 1..5 : Up'[(k - 1) + i] = MyReply'[i]
    <3>1. k + 5 <= Len(Up) /\ \A i \in 1..5 : Up[k + i] = MyReply[i]
      BY <1>2, <2>1, <2>6 DEF Answered
    <3>2. \A i \in 1..5 : (k - 1) + i \in 1..Len(Up') /\ ((k - 1) + i) + 1 = k + i
      BY <1>1, <2>3, <3>1
    <3>3. (k - 1) + 5 <= Len(Up')
      BY <1>1, <3>1
    <3>4. \A i \in 1..5 : Up'[(k - 1) + i] = Up[k + i]
      BY <1>1, <3>2
    <3> QED BY <1>2, <3>1, <3>3, <3>4
  <2>7. Answered(k - 1)'
    BY <2>4, <2>5, <2>6 DEF Answered
  <2> QED BY <2>3, <2>7
<1> QED
  BY <1>3 DEF AnswerInv

(* Characters more on their way to gdb, while the program prints nothing.  *)
LEMMA WholeMore ==
    ASSUME WholeInv, out = 0, UNCHANGED <<out, host, frame>>, Len(Up) \in Nat,
           Len(Up') \in Nat, Len(Up') >= Len(Up), \A i \in 1..Len(Up) : Up'[i] = Up[i],
           Paired(Up'), EndsIn(Up', {"lo", "+", "-"})
    PROVE  WholeInv'
<1>1. EndsIn(Up', Ends')
  BY DEF Ends
<1>2. FrameShape' /\ Expected' = Expected
  BY DEF WholeInv, FrameShape, Expected
<1>3. ASSUME frame' # <<>> PROVE Len(Up') > 0 /\ What(Up'[1]) \in Expected'
  <2>1. Len(Up) > 0 /\ What(Up[1]) \in Expected
    BY <1>3 DEF WholeInv, Sync
  <2> QED BY <1>2, <2>1
<1>4. Sync'
  BY <1>3 DEF Sync
<1> QED
  BY <1>1, <1>2, <1>4 DEF WholeInv
-----------------------------------------------------------------------------
(* A character is taken on the stub's side and nothing is sent.            *)
LEMMA TakenOnce ==
    ASSUME LinkInv, OnceInv, jtag_down # <<>>, jtag_down' = Tail(jtag_down), Put(<<>>),
           UNCHANGED <<hostVars, conn, sock_up, sock_down, relayVars, out, executions>>,
           Middle' => Middle \/ What(Head(jtag_down)) = "$"
    PROVE  /\ DownInv' /\ WholeInv' /\ SignInv' /\ AnswerInv' /\ HostInv'
           /\ Middle' => host = "sent" /\ executions = 0
<1>1. Rest(Down, Down') /\ Head(jtag_down) = Down[1]
  BY Streams
<1>2. Up' = Up
  BY Streams DEF relayVars
<1>3. UNCHANGED <<host, cmd, frame, n, result, conn, temp, left, out, executions>>
  BY DEF hostVars, relayVars
<1>4. DownInv /\ WholeInv /\ SignInv /\ AnswerInv /\ HostInv /\ StubInv
  BY DEF OnceInv
<1>5. DownInv' /\ (NoStart(Down) => NoStart(Down') /\ What(Down[1]) # "$")
  BY <1>1, <1>3, <1>4, DownTaken
<1>6. WholeInv' /\ AnswerInv' /\ HostInv'
  BY <1>2, <1>3, <1>4, Kept
<1>7. SignInv'
  <2>1. OneSign(Up')
    BY <1>2, <1>4 DEF SignInv
  <2>2. NoStart(Down) => NoStart(Down') /\ (Middle' => Middle)
    BY <1>1, <1>5
  <2> QED BY <1>2, <1>3, <1>4, <2>1, <2>2, SignsKept
<1>8. Middle' => host = "sent" /\ executions = 0
  <2>1. What(Down[1]) = "$" => ~OnlySigns(Down)
    <3>1. 1 \in 1..Len(Down)
      BY <1>1 DEF Rest
    <3> QED BY <3>1 DEF OnlySigns, Signs
  <2> QED BY <1>1, <1>4, <2>1 DEF DownInv, StubInv
<1> QED
  BY <1>5, <1>6, <1>7, <1>8

(* The stub reads a packet that it was sent, or skips what is not one; the *)
(* program reads what is left, the UART loses a character.                 *)
LEMMA ReadOnce ==
    ASSUME LinkInv, OnceInv, GetStart \/ GetData \/ GetDigit \/ ProgramReads \/ Lose
    PROVE  OnceInv'
<1>1. Put(<<>>) <=> jtag_up' = jtag_up
  <2>1. jtag_up \o <<>> = jtag_up
    BY Parted DEF LinkInv, QueuesOK
  <2> QED BY <2>1 DEF Put
<1>2. /\ jtag_down # <<>> /\ jtag_down' = Tail(jtag_down)
      /\ Put(<<>>) /\ UNCHANGED <<hostVars, conn, sock_up, sock_down, relayVars, out, executions>>
      /\ UNCHANGED <<reply, gdb_connected>>
      /\ \/ /\ spc = "start"
            /\ spc' \in {"start", "data"} /\ (spc' = "data" => What(Head(jtag_down)) = "$")
         \/ spc \in {"data", "digit1"} /\ spc' \in {"start", "data", "digit1", "digit2"}
         \/ spc' = spc
  <2>1. CASE GetStart
    BY <2>1 DEF GetStart, Get, StubUnchanged
  <2>2. CASE GetData
    BY <2>2 DEF GetData, Get, StubUnchanged
  <2>3. CASE GetDigit
    BY <2>3 DEF GetDigit, Get, StubUnchanged
  <2>4. CASE ProgramReads
    BY <1>1, <2>4 DEF ProgramReads, stubVars
  <2>5. CASE Lose
    <3>1. jtag_down # <<>>
      BY <2>5, RestJoin DEF Lose, LinkInv, QueuesOK
    <3> QED BY <1>1, <2>5, <3>1 DEF Lose, stubVars
  <2> QED BY <2>1, <2>2, <2>3, <2>4, <2>5
<1>3. Middle' => Middle \/ What(Head(jtag_down)) = "$"
  BY <1>2 DEF Middle
<1>4. /\ DownInv' /\ WholeInv' /\ SignInv' /\ AnswerInv' /\ HostInv'
      /\ Middle' => host = "sent" /\ executions = 0
  BY <1>2, <1>3, TakenOnce
<1>5. StubInv'
  <2>1. StubInv /\ UNCHANGED <<host, temp, left, out, executions, n, reply, gdb_connected>>
    BY <1>2 DEF OnceInv, hostVars, relayVars
  <2>2. spc' = spc \/ (spc # "run" /\ spc' \in {"start", "data", "digit1", "digit2"})
    BY <1>2
  <2> QED BY <1>4, <2>1, <2>2 DEF StubInv
<1> QED
  BY <1>4, <1>5 DEF OnceInv
(* Between two packets of its own the stub may send a packet, or a sign.   *)
LEMMA Between ==
    ASSUME LinkInv, OnceInv, spc # "run"
    PROVE  out = 0 /\ Paired(Up) /\ EndsIn(Up, {"lo", "+", "-"})
  BY DEF OnceInv, StubInv, WholeInv, Ends

(* A wrong checksum: the command was not executed, and gdb sends it again  *)
(* when the sign arrives; nothing else is on its way that begins.          *)
LEMMA RefuseOnce ==
    ASSUME LinkInv, OnceInv, GetBad
    PROVE  OnceInv'
<1> DEFINE c == Char("-")
<1>1. /\ spc = "digit2" /\ spc' = "start" /\ Put(<<c>>)
      /\ jtag_down # <<>> /\ jtag_down' = Tail(jtag_down)
      /\ UNCHANGED <<host, cmd, frame, n, result, conn, sock_up, sock_down, temp, left, out,
                     reply, gdb_connected, executions>>
  BY DEF GetBad, Get, StubUnchanged, hostVars, relayVars
<1>2. DownInv /\ WholeInv /\ SignInv /\ AnswerInv /\ HostInv /\ StubInv
  BY DEF OnceInv
<1>3. Middle /\ ~Middle' /\ host = "sent" /\ executions = 0 /\ out = 0
  BY <1>1, <1>2 DEF Middle, StubInv
<1>4. Rest(Down, Down')
  BY <1>1, Streams
<1>5. What(c) = "-" /\ <<c>> \in Seq(Chars)
  BY Whats, Characters
<1> HIDE DEF c
<1>6. Join(Up, <<c>>, Up') /\ Len(Up) \in Nat /\ frame \in Seq(Chars)
  BY <1>1, <1>5, Streams DEF LinkInv, HostOK
<1>7. NoSigns(Up)
  BY <1>2, <1>3 DEF SignInv, NoSigns
<1>8. /\ Len(Up') = Len(Up) + 1 /\ \A i \in 1..Len(Up) : Up'[i] = Up[i]
      /\ \A i \in 1..Len(Up') : Up'[i] = c \/ (i \in 1..Len(Up) /\ Up'[i] = Up[i])
  BY <1>6, UpChar DEF Join
<1>9. DownInv'
  BY <1>1, <1>2, <1>3, <1>4, DownTaken
<1>10. NoStart(Down')
  BY <1>2, <1>3, <1>4, DownRest DEF DownInv
<1>11. WholeInv'
  <2>1. Paired(Up) /\ EndsIn(Up, {"lo", "+", "-"})
    BY <1>1, Between
  <2>2. Len(Up) > 0 => What(c) \in Follow(What(Up[Len(Up)]))
    BY <1>5, <2>1, Whats DEF EndsIn
  <2>3. Paired(Up') /\ EndsIn(Up', {"lo", "+", "-"})
    BY <1>5, <1>6, <2>1, <2>2, UpChar
  <2> QED BY <1>1, <1>2, <1>3, <1>6, <1>8, <2>3, WholeMore
<1>12. SignInv'
  <2>1. OneSign(Up')
    BY <1>2, <1>6, <1>7, UpChar DEF SignInv
  <2>2. \A i \in 1..Len(Up') : What(Up'[i]) \in Signs => What(Up'[i]) = "-"
    BY <1>5, <1>7, <1>8 DEF NoSigns
  <2> QED BY <1>1, <1>3, <1>10, <2>1, <2>2 DEF SignInv
<1>13. AnswerInv'
  BY <1>1, <1>3 DEF AnswerInv
<1>14. HostInv'
  BY <1>1, <1>2, Kept
<1>15. StubInv'
  BY <1>1, <1>2, <1>3 DEF StubInv
<1> QED
  BY <1>9, <1>11, <1>12, <1>13, <1>14, <1>15 DEF OnceInv

(* The right checksum: it is the command, and it was not executed before;  *)
(* nothing is left on its way that could be taken for it again.            *)
LEMMA ExecuteOnce ==
    ASSUME LinkInv, OnceInv, GetGood
    PROVE  OnceInv'
<1>1. PICK c \in Chars :
        /\ spc = "digit2" /\ Get(c) /\ GoodChecksum(c)
        /\ reply' = <<"reply", Payload(c)[2]>>
        /\ gdb_connected' = (Payload(c)[1] \notin {"detach", "kill"})
        /\ spc' = CASE Payload(c)[1] \in {"resume", "kill"} -> "run"
                    [] Payload(c)[1] = "detach" -> "ack_run" [] OTHER -> "ack"
        /\ Put(<<Ack(Payload(c))>> \o IF Payload(c)[1] \in {"resume", "kill"} THEN <<>> ELSE Packet(reply'))
        /\ executions' = IF Payload(c) = cmd THEN Least(executions + 1, 2) ELSE executions
        /\ StubUnchanged
  BY DEF GetGood
<1>2. UNCHANGED <<host, cmd, frame, n, result, conn, sock_up, sock_down, temp, left, out>>
  BY <1>1 DEF StubUnchanged, hostVars, relayVars
<1>3. DownInv /\ WholeInv /\ SignInv /\ AnswerInv /\ HostInv /\ StubInv
  BY DEF OnceInv
<1>4. spc' \in {"run", "ack", "ack_run"}
  BY <1>1
<1>5. Middle /\ ~Middle' /\ host = "sent" /\ executions = 0 /\ out = 0
  BY <1>1, <1>3, <1>4 DEF Middle, StubInv
<1>6. Rest(Down, Down') /\ c = Down[1]
  BY <1>1, <1>2, Streams DEF Get
<1>7. What(c) = "lo"
  <2> DEFINE s == <<Char("$")>> \o buffer \o <<Char("#"), digit, c>>
  <2>1. s = Packet(Payload(c))
    BY <1>1 DEF GoodChecksum
  <2>2. buffer \in Seq(Chars) /\ digit \in Chars /\ Char("$") \in Chars /\ Char("#") \in Chars
    BY Characters DEF LinkInv, StubOK
  <2>3. s[Len(s)] = c
    <3> DEFINE C == Chars
               a == Char("$")
               b == Char("#")
               x == <<a>> \o buffer
               y == <<b, digit, c>>
    <3>1. a \in C /\ b \in C /\ digit \in C /\ c \in C /\ buffer \in Seq(C)
      BY <2>2
    <3> HIDE DEF C, a, b
    <3>2. x \in Seq(C) /\ y \in Seq(C) /\ Len(y) = 3 /\ y[3] = c
      BY <3>1
    <3> HIDE DEF x, y
    <3>3. Join(x, y, x \o y)
      BY <3>2, RestJoin, Zenon DEF C
    <3>4. (x \o y)[Len(x) + 3] = y[3] /\ Len(x \o y) = Len(x) + 3
      BY <3>2, <3>3 DEF Join
    <3>5. s = x \o y
      BY Zenon DEF s, x, y, a, b
    <3> QED BY <3>2, <3>4, <3>5
  <2> HIDE DEF s
  <2>4. Len(s) = 5 /\ What(s[5]) = Parts[5]
    BY <2>1, Whats
  <2> QED BY <2>3, <2>4, Whats
<1>8. Payload(c) = cmd
  <2>1. 1 \in 1..Len(Down)
    BY <1>6 DEF Rest
  <2> QED BY <1>3, <1>6, <1>7, <2>1 DEF DownInv, DownShape, EndsOf
<1>9. executions' = 1
  BY <1>1, <1>5, <1>8 DEF Least
<1>10. cmd \in Payloads /\ cmd[2] = n /\ reply' = <<"reply", n>> /\ n \in Numbers
  BY <1>1, <1>3, <1>5, <1>8 DEF HostInv, LinkInv, HostOK
<1>11. MyReply' = Packet(reply')
  BY <1>2, <1>10 DEF MyReply
<1> DEFINE a == Ack(cmd)
           leaves == cmd[1] \in {"resume", "kill"}
           M == Up \o <<a>>
<1>12. What(a) = "+" /\ <<a>> \in Seq(Chars) /\ a \in Chars
  BY <1>10, Whats, Characters
<1>13. Packet(reply') \in Seq(Chars)
  <2>1. reply' \in Payloads
    BY <1>10 DEF Payloads, Kinds
  <2> QED BY <2>1, Packets
<1>14. Put(<<a>> \o IF leaves THEN <<>> ELSE Packet(reply'))
  BY <1>1, <1>8
<1> HIDE DEF a, leaves
<1>15. Up \in Seq(Chars) /\ M \in Seq(Chars) /\ Join(Up, <<a>>, M) /\ Len(Up) \in Nat
  BY <1>12, Streams, RestJoin
<1>16. IF leaves THEN Up' = M ELSE Join(M, Packet(reply'), Up')
  <2>1. Up' = sock_up \o (temp \o (jtag_up \o (<<a>> \o IF leaves THEN <<>> ELSE Packet(reply'))))
    BY <1>2, <1>14 DEF Up, Put
  <2>2. /\ sock_up \in Seq(Chars) /\ temp \in Seq(Chars) /\ jtag_up \in Seq(Chars)
        /\ temp \o jtag_up \in Seq(Chars)
    BY RestJoin DEF LinkInv, QueuesOK
  <2>3. ASSUME NEW s \in Seq(Chars) PROVE sock_up \o (temp \o (jtag_up \o s)) = Up \o s
    <3>1. temp \o (jtag_up \o s) = (temp \o jtag_up) \o s
      BY <2>2, Parted
    <3>2. (sock_up \o (temp \o jtag_up)) \o s = sock_up \o ((temp \o jtag_up) \o s)
      BY <2>2, Parted, Zenon
    <3> QED BY <3>1, <3>2, Zenon DEF Up
  <2>4. CASE leaves
    <3>1. <<a>> \o <<>> = <<a>>
      BY <1>12, Parted
    <3> QED BY <1>12, <2>1, <2>3, <2>4, <3>1
  <2>5. CASE ~leaves
    <3>1. <<a>> \o Packet(reply') \in Seq(Chars)
      BY <1>12, <1>13, RestJoin
    <3>2. Up' = Up \o (<<a>> \o Packet(reply'))
      BY <2>1, <2>3, <2>5, <3>1
    <3>3. Up' = M \o Packet(reply')
      BY <1>12, <1>13, <1>15, <3>2, Parted
    <3> QED BY <1>13, <1>15, <2>5, <3>3, RestJoin
  <2> QED BY <2>4, <2>5
<1> HIDE DEF M
<1>17. NoSigns(Up)
  BY <1>3, <1>5 DEF SignInv, NoSigns
<1>18. /\ Len(M) = Len(Up) + 1 /\ M[Len(M)] = a /\ \A i \in 1..Len(Up) : M[i] = Up[i]
       /\ \A i \in 1..Len(M) : M[i] = a \/ (i \in 1..Len(Up) /\ M[i] = Up[i])
       /\ OneSign(M) /\ EndsIn(M, {"lo", "+", "-"})
  BY <1>3, <1>12, <1>15, <1>17, UpChar DEF Join, SignInv
<1>19. Paired(M)
  <2>1. Paired(Up) /\ EndsIn(Up, {"lo", "+", "-"})
    BY <1>1, Between
  <2>2. Len(Up) > 0 => What(a) \in Follow(What(Up[Len(Up)]))
    BY <1>12, <2>1, Whats DEF EndsIn
  <2> QED BY <1>15, <2>1, <2>2, UpChar
<1>20. /\ Len(Up') \in Nat /\ Len(Up') >= Len(M) /\ \A i \in 1..Len(M) : Up'[i] = M[i]
       /\ \A i \in 1..Len(Up') : What(Up'[i]) \in Signs => i \in 1..Len(M) /\ Up'[i] = M[i]
       /\ Paired(Up') /\ EndsIn(Up', {"lo", "+", "-"}) /\ OneSign(Up')
       /\ leaves => Len(Up') = Len(M)
       /\ ~leaves => Len(Up') = Len(M) + 5 /\ \A k \in 1..5 : Up'[Len(M) + k] = Packet(reply')[k]
  <2>1. CASE leaves
    BY <1>15, <1>16, <1>18, <1>19, <2>1
  <2>2. CASE ~leaves
    <3>1. Join(M, Packet(reply'), Up')
      BY <1>16, <2>2
    <3>2. /\ Paired(Up') /\ EndsIn(Up', {"lo", "+", "-"}) /\ OneSign(Up')
          /\ \A i \in 1..Len(Up') : What(Up'[i]) \in Signs => i \in 1..Len(M) /\ Up'[i] = M[i]
          /\ Len(Up') = Len(M) + 5 /\ \A k \in 1..5 : Up'[Len(M) + k] = Packet(reply')[k]
      BY <1>18, <1>19, <3>1, UpPacket
    <3>3. Len(M) \in Nat /\ \A i \in 1..Len(M) : Up'[i] = M[i]
      BY <3>1 DEF Join
    <3> QED BY <2>2, <3>2, <3>3
  <2> QED BY <2>1, <2>2
<1>21. NoStart(Down') /\ OnlySigns(Down')
  <2>1. NoStart(Down')
    BY <1>3, <1>5, <1>6, DownRest DEF DownInv
  <2> QED BY <1>3, <1>6, <1>7, <2>1, DownRest DEF DownInv
<1>22. DownInv'
  <2>1. DownShape(Down', cmd')
    BY <1>2, <1>3, <1>6, DownRest DEF DownInv
  <2> QED BY <1>5, <1>21, <2>1 DEF DownInv
<1>23. WholeInv'
  <2>1. Len(Up') >= Len(Up) /\ \A i \in 1..Len(Up) : Up'[i] = Up[i]
    BY <1>15, <1>18, <1>20
  <2>2. Paired(Up') /\ EndsIn(Up', {"lo", "+", "-"}) /\ Len(Up') \in Nat
    BY <1>20
  <2> QED BY <1>2, <1>3, <1>5, <1>15, <2>1, <2>2, WholeMore
<1>24. SignInv'
  <2>1. \A i \in 1..Len(Up') : What(Up'[i]) \in Signs => What(Up'[i]) = "+"
    BY <1>12, <1>17, <1>18, <1>20 DEF NoSigns
  <2> QED BY <1>2, <1>5, <1>9, <1>20, <1>21, <2>1 DEF SignInv
<1>25. AnswerInv'
  <2>1. PICK k \in 1..Len(Up') : k = Len(M) /\ Up'[k] = a
    BY <1>15, <1>18, <1>20
  <2>2. ASSUME cmd'[1] = "resume" PROVE \A i \in k+1..Len(Up') : Mine(Up'[i], n')
    <3>1. Len(Up') = Len(M)
      BY <1>2, <1>20, <2>2 DEF leaves
    <3> QED BY <1>15, <1>18, <2>1, <3>1
  <2>3. ASSUME cmd'[1] \notin {"resume", "kill"}
        PROVE  k + 5 <= Len(Up') /\ \A i \in 1..5 : Up'[k + i] = MyReply'[i]
    <3>1. ~leaves
      BY <1>2, <2>3 DEF leaves
    <3> QED BY <1>11, <1>15, <1>18, <1>20, <2>1, <3>1
  <2>4. Answered(k)'
    BY <1>12, <2>1, <2>2, <2>3 DEF Answered
  <2> QED BY <1>2, <1>5, <2>1, <2>4 DEF AnswerInv
<1>26. HostInv'
  BY <1>2, <1>3, <1>5 DEF HostInv
<1>27. StubInv'
  <2>1. reply'[2] = n'
    BY <1>2, <1>10
  <2>2. spc' = "ack_run" => ~gdb_connected'
    BY <1>1
  <2> QED BY <1>2, <1>3, <1>5, <1>9, <2>1, <2>2 DEF StubInv
<1> QED
  BY <1>22, <1>23, <1>24, <1>25, <1>26, <1>27 DEF OnceInv
(* Between two of its own, the stub sends a packet that belongs to the     *)
(* call, if the call was executed.                                         *)
LEMMA PacketOnce ==
    ASSUME LinkInv, OnceInv, NEW p \in Payloads, Put(Packet(p)), executions = 1 => p[2] = n, out = 0,
           UNCHANGED <<hostVars, sock_up, temp, out, executions>>,
           ~Middle', NoStart(Down) => NoStart(Down')
    PROVE  WholeInv' /\ SignInv' /\ AnswerInv'
<1>1. WholeInv /\ SignInv /\ AnswerInv /\ HostInv
  BY DEF OnceInv
<1>2. UNCHANGED <<host, cmd, frame, n>>
  BY DEF hostVars
<1>3. Join(Up, Packet(p), Up') /\ Len(Up) \in Nat /\ frame \in Seq(Chars)
  BY Packets, Streams DEF LinkInv, HostOK
<1>4. Len(Up') = Len(Up) + 5 /\ Len(Up') \in Nat /\ \A i \in 1..Len(Up) : Up'[i] = Up[i]
  <2>1. Len(Up') = Len(Up) + 5
    BY <1>3, UpPacket
  <2>2. Len(Up') \in Nat /\ Len(Up') >= Len(Up)
    BY <1>3, <2>1
  <2> QED BY <1>3, <2>1, <2>2 DEF Join
<1>5. WholeInv'
  <2>1. Paired(Up) /\ EndsIn(Up, {"lo", "+", "-"})
    BY <1>1 DEF WholeInv, Ends
  <2>2. Paired(Up') /\ EndsIn(Up', {"lo", "+", "-"})
    BY <1>3, <2>1, UpPacket
  <2> QED BY <1>1, <1>2, <1>3, <1>4, <2>2, WholeMore
<1>6. SignInv'
  <2>1. OneSign(Up')
    BY <1>1, <1>3, UpPacket DEF SignInv
  <2>2. \A i \in 1..Len(Up') : (i \in 1..Len(Up) /\ Up'[i] = Up[i]) \/ What(Up'[i]) \notin Signs
    BY <1>3, UpPacket
  <2> QED BY <1>1, <1>2, <2>1, <2>2, SignsKept
<1>7. AnswerInv'
  <2>1. ASSUME executions = 1, NEW k \in 1..5 PROVE Mine(Packet(p)[k], n)
    <3>1. What(Packet(p)[k]) = Parts[k] /\ Packet(p)[2] = <<"data", p[1], p[2]>>
      BY Whats
    <3>2. k = 2 \/ Parts[k] # "data"
      <4>1. k = 1 \/ k = 2 \/ k = 3 \/ k = 4 \/ k = 5
        OBVIOUS
      <4> QED BY <4>1, Whats
    <3>3. Packet(p)[2][3] = n
      BY <2>1, <3>1
    <3> QED BY <3>1, <3>2, <3>3 DEF Mine
  <2>2. \A i \in 1..Len(Up') : i \in 1..Len(Up) \/ (executions = 1 => Mine(Up'[i], n))
    <3>1. \A i \in 1..Len(Up') : i \in 1..Len(Up) \/ \E k \in 1..5 : Up'[i] = Packet(p)[k]
      BY <1>3, UpPacket
    <3> QED BY <2>1, <3>1
  <2>3. host = "running" => executions = 1
    BY <1>1 DEF HostInv
  <2>4. Len(Up') >= Len(Up)
    BY <1>3, <1>4
  <2> QED BY <1>1, <1>2, <1>3, <1>4, <2>2, <2>3, <2>4, AnswerMore
<1> QED
  BY <1>5, <1>6, <1>7

(* The stub is acknowledged or sends again what it sent for this call.     *)
LEMMA AckOnce ==
    ASSUME LinkInv, OnceInv, GetAck
    PROVE  OnceInv'
<1>1. /\ jtag_down # <<>> /\ jtag_down' = Tail(jtag_down)
      /\ UNCHANGED <<hostVars, conn, sock_up, sock_down, relayVars, out, executions, gdb_connected>>
      /\ UNCHANGED <<host, n, temp, left>>
      /\ spc \in {"ack", "ack_run"}
      /\ \/ spc' = (IF spc = "ack" THEN "start" ELSE "run") /\ Put(<<>>)
         \/ UNCHANGED <<spc, reply>> /\ Put(Packet(reply))
  BY DEF GetAck, Get, StubUnchanged, hostVars, relayVars
<1>2. DownInv /\ WholeInv /\ SignInv /\ AnswerInv /\ HostInv /\ StubInv
  BY DEF OnceInv
<1>3. ~Middle' /\ spc # "run" /\ out = 0
  BY <1>1, <1>2 DEF Middle, StubInv
<1>4. CASE spc' = (IF spc = "ack" THEN "start" ELSE "run") /\ Put(<<>>)
  <2>1. DownInv' /\ WholeInv' /\ SignInv' /\ AnswerInv' /\ HostInv'
    BY <1>1, <1>3, <1>4, TakenOnce
  <2>2. StubInv'
    BY <1>1, <1>2, <1>3, <1>4 DEF StubInv
  <2> QED BY <2>1, <2>2 DEF OnceInv
<1>5. CASE UNCHANGED <<spc, reply>> /\ Put(Packet(reply))
  <2>1. Rest(Down, Down')
    BY <1>1, Streams
  <2>2. DownInv' /\ (NoStart(Down) => NoStart(Down'))
    BY <1>1, <1>2, <1>3, <2>1, DownTaken DEF hostVars
  <2>3. reply \in Payloads
    BY <1>1 DEF LinkInv, StubOK
  <2>4. executions = 1 => reply[2] = n
    BY <1>1, <1>2 DEF StubInv
  <2>5. WholeInv' /\ SignInv' /\ AnswerInv'
    BY <1>1, <1>3, <1>5, <2>2, <2>3, <2>4, PacketOnce
  <2>6. HostInv' /\ StubInv'
    <3>1. UNCHANGED <<host, executions, result, n, cmd, conn>>
      BY <1>1 DEF hostVars
    <3>2. left' = Len(temp')
      BY <1>1, <1>2 DEF StubInv
    <3> QED BY <1>1, <1>2, <1>5, <3>1, <3>2, Kept
  <2> QED BY <2>2, <2>5, <2>6 DEF OnceInv
<1> QED
  BY <1>1, <1>4, <1>5

(* A stop that is not in the middle of a packet of output is reported in a *)
(* packet of the call that let the program run.                            *)
LEMMA StopOnce ==
    ASSUME LinkInv, OnceInv, Exception, Healthy'
    PROVE  OnceInv'
<1>1. /\ spc = "run" /\ UNCHANGED <<hostVars, conn, sock_up, sock_down, relayVars, out, executions, gdb_connected, jtag_down>>
      /\ UNCHANGED <<host, cmd, frame, n, result, temp, left>>
      /\ \/ gdb_connected /\ spc' = "ack" /\ reply' = <<"stop", reply[2]>> /\ Put(Packet(reply'))
         \/ ~gdb_connected /\ spc' = "start" /\ reply' = reply /\ Put(<<>>)
      /\ faults' = faults \cup (IF out = 0 THEN {} ELSE {"torn"})
  BY DEF Exception, StubUnchanged, hostVars, relayVars
<1>2. DownInv /\ WholeInv /\ SignInv /\ AnswerInv /\ HostInv /\ StubInv
  BY DEF OnceInv
<1>3. out = 0
  BY <1>1 DEF Healthy
<1>4. ~Middle /\ ~Middle'
  BY <1>1 DEF Middle
<1>5. Down' = Down
  BY <1>1, Streams
<1>6. DownInv' /\ HostInv'
  BY <1>1, <1>2, <1>4, <1>5 DEF DownInv, HostInv
<1>7. CASE gdb_connected
  <2>1. reply' \in Payloads /\ reply'[2] = reply[2]
    <3>1. reply[2] \in Numbers
      <4>1. CASE reply \in Payloads
        BY <4>1 DEF Payloads
      <4>2. CASE reply = NoPayload
        <5>1. \A x, y : <<x, y>>[2] = y
          OBVIOUS
        <5>2. reply[2] = 0
          BY <4>2, <5>1, Zenon DEF NoPayload
        <5> QED BY <5>2 DEF Numbers
      <4> QED BY <4>1, <4>2 DEF LinkInv, StubOK
    <3>2. reply' = <<"stop", reply[2]>>
      BY <1>1, <1>7
    <3> QED BY <3>1, <3>2 DEF Payloads, Kinds
  <2>2. executions = 1 => reply'[2] = n
    BY <1>1, <1>2, <1>7, <2>1 DEF StubInv
  <2>3. Put(Packet(reply'))
    BY <1>1, <1>7
  <2>4. WholeInv' /\ SignInv' /\ AnswerInv'
    <3>1. PICK p \in Payloads : p = reply'
      BY <2>1
    <3> QED BY <1>1, <1>3, <1>4, <1>5, <2>2, <2>3, <3>1, PacketOnce
  <2>5. StubInv'
    BY <1>1, <1>2, <1>3, <1>4, <1>7, <2>2 DEF StubInv
  <2> QED BY <1>6, <2>4, <2>5 DEF OnceInv
<1>8. CASE ~gdb_connected
  <2>1. Up' = Up
    BY <1>1, <1>8, Streams
  <2>2. WholeInv' /\ AnswerInv'
    BY <1>1, <1>2, <2>1, Kept
  <2>3. SignInv'
    BY <1>1, <1>2, <1>4, <1>5, <2>1 DEF SignInv
  <2>4. StubInv'
    BY <1>1, <1>2, <1>3, <1>4, <1>8 DEF StubInv
  <2> QED BY <1>6, <2>2, <2>3, <2>4 DEF OnceInv
<1> QED
  BY <1>7, <1>8
(* The program prints the next character of its packet.                    *)
LEMMA PrintOnce ==
    ASSUME LinkInv, OnceInv, ProgramPrints
    PROVE  OnceInv'
<1>1. /\ spc = "run" /\ Put(<<OutputPacket[out + 1]>>) /\ out' = (out + 1) % 5
      /\ UNCHANGED <<hostVars, conn, sock_up, sock_down, relayVars, jtag_down, stubVars>>
      /\ UNCHANGED <<host, cmd, frame, n, result, temp, left, spc, executions, gdb_connected, reply>>
  BY DEF ProgramPrints, hostVars, relayVars, stubVars
<1>2. DownInv /\ WholeInv /\ SignInv /\ AnswerInv /\ HostInv /\ StubInv
  BY DEF OnceInv
<1>3. PICK m \in 1..5 : m = out + 1 /\ out \in 0..4
  BY DEF LinkInv, StubOK
<1>4. m = 1 \/ m = 2 \/ m = 3 \/ m = 4 \/ m = 5
  OBVIOUS
<1>5. PICK c \in Chars : c = OutputPacket[m]
  <2>1. <<"output", 0>> \in Payloads
    BY DEF Payloads, Kinds, Numbers
  <2> QED BY <2>1, Packets DEF OutputPacket
<1>6. What(c) = Parts[m] /\ What(c) \notin Signs
  <2>1. What(c) = Parts[m]
    BY <1>5, Whats DEF OutputPacket
  <2> QED BY <1>4, <2>1, Whats DEF Signs
<1>7. Mine(c, n)
  <2>1. m = 2 => c[2] = "output"
    <3>1. <<"output", 0>> \in Payloads /\ <<"output", 0>>[1] = "output"
      BY DEF Payloads, Kinds, Numbers
    <3>2. Packet(<<"output", 0>>)[2] = <<"data", "output", 0>>
      BY <3>1, Whats
    <3> QED BY <1>5, <3>2 DEF OutputPacket
  <2> QED BY <1>4, <1>6, <2>1, Whats DEF Mine
<1>8. Join(Up, <<c>>, Up') /\ Len(Up) \in Nat /\ frame \in Seq(Chars)
  <2>1. <<c>> \in Seq(Chars) /\ Put(<<c>>)
    BY <1>1, <1>3, <1>5
  <2> QED BY <1>1, <2>1, Streams DEF LinkInv, HostOK
<1>9. /\ Len(Up') = Len(Up) + 1 /\ Up'[Len(Up')] = c /\ \A i \in 1..Len(Up) : Up'[i] = Up[i]
      /\ \A i \in 1..Len(Up') : Up'[i] = c \/ (i \in 1..Len(Up) /\ Up'[i] = Up[i])
  BY <1>8, UpChar DEF Join
<1>10. Down' = Down
  BY <1>1, Streams
<1>11. DownInv' /\ HostInv'
  BY <1>1, <1>2, <1>10, Kept
<1>12. WholeInv'
  <2>1. Len(Up) > 0 => What(c) \in Follow(What(Up[Len(Up)]))
    <3> SUFFICES ASSUME Len(Up) > 0 PROVE What(c) \in Follow(What(Up[Len(Up)]))
      OBVIOUS
    <3>1. CASE out = 0
      <4>1. What(Up[Len(Up)]) \in {"lo", "+", "-"} /\ What(c) = "$"
        BY <1>2, <1>3, <1>6, <3>1, Whats DEF WholeInv, EndsIn, Ends
      <4> QED BY <4>1, Whats
    <3>2. CASE out # 0
      <4>1. out \in 1..4 /\ m = out + 1
        BY <1>3, <3>2
      <4>2. What(Up[Len(Up)]) = Parts[out] /\ What(c) = Parts[out + 1]
        BY <1>2, <1>3, <1>6, <3>2 DEF WholeInv, EndsIn, Ends
      <4> QED BY <4>1, <4>2, Whats
    <3> QED BY <3>1, <3>2
  <2>2. Paired(Up')
    BY <1>2, <1>8, <2>1, UpChar DEF WholeInv
  <2>3. What(c) \in Ends'
    <3>1. CASE m = 5
      <4>1. out' = 0 /\ What(c) = "lo"
        BY <1>1, <1>3, <1>6, <3>1, Whats
      <4> QED BY <4>1 DEF Ends
    <3>2. CASE m # 5
      <4>1. out' = m /\ out' # 0
        BY <1>1, <1>3, <1>4, <3>2
      <4> QED BY <1>6, <4>1 DEF Ends
    <3> QED BY <3>1, <3>2
  <2>4. EndsIn(Up', Ends')
    BY <1>8, <2>3, UpChar
  <2>5. FrameShape' /\ Expected' = Expected
    BY <1>1, <1>2 DEF WholeInv, FrameShape, Expected
  <2>6. ASSUME frame' # <<>> PROVE Len(Up') > 0 /\ What(Up'[1]) \in Expected'
    <3>1. CASE Len(Up) > 0
      <4>1. What(Up[1]) \in Expected /\ 1 \in 1..Len(Up)
        BY <1>1, <1>2, <1>8, <2>6, <3>1 DEF WholeInv, Sync
      <4> QED BY <1>8, <1>9, <2>5, <4>1
    <3>2. CASE ~(Len(Up) > 0)
      <4>1. Parts[out + 1] \in Expected
        BY <1>1, <1>2, <2>6, <3>2 DEF WholeInv, Sync
      <4>2. Len(Up') = 1 /\ Up'[1] = c
        BY <1>8, <1>9, <3>2
      <4> QED BY <1>3, <1>6, <2>5, <4>1, <4>2
    <3> QED BY <3>1, <3>2
  <2>7. Sync'
    BY <2>6 DEF Sync
  <2> QED BY <2>2, <2>4, <2>5, <2>7 DEF WholeInv
<1>13. SignInv'
  <2>1. OneSign(Up')
    BY <1>2, <1>6, <1>8, UpChar DEF SignInv
  <2>2. \A i \in 1..Len(Up') : (i \in 1..Len(Up) /\ Up'[i] = Up[i]) \/ What(Up'[i]) \notin Signs
    BY <1>6, <1>9
  <2>3. Middle' = Middle
    BY <1>1 DEF Middle
  <2> QED BY <1>1, <1>2, <1>10, <2>1, <2>2, <2>3, SignsKept
<1>14. AnswerInv'
  <2>1. \A i \in 1..Len(Up') : i \in 1..Len(Up) \/ (executions = 1 => Mine(Up'[i], n))
    BY <1>7, <1>9
  <2>2. host = "running" => executions = 1
    BY <1>2 DEF HostInv
  <2>3. Len(Up') >= Len(Up) /\ Len(Up') \in Nat
    BY <1>8, <1>9
  <2> QED BY <1>1, <1>2, <1>8, <1>9, <2>1, <2>2, <2>3, AnswerMore
<1>15. StubInv'
  <2>1. ~Middle' /\ spc' = "run"
    BY <1>1 DEF Middle
  <2>2. left' = Len(temp')
    BY <1>1, <1>2 DEF StubInv
  <2> QED BY <1>1, <1>2, <2>1, <2>2 DEF StubInv
<1> QED
  BY <1>11, <1>12, <1>13, <1>14, <1>15 DEF OnceInv
-----------------------------------------------------------------------------
(* Where only signs are on their way to the stub, nothing begins or ends.  *)
LEMMA SignsOnly ==
    ASSUME NEW q, OnlySigns(q)
    PROVE  NoStart(q) /\ StartFirst(q) /\ (\A p : DownShape(q, p)) /\ (\A p : EndsOf(q, p))
<1>1. "$" \notin Signs /\ "lo" \notin Signs
  BY DEF Signs
<1>2. NoStart(q) /\ StartFirst(q)
  BY <1>1 DEF OnlySigns, NoStart, StartFirst
<1>3. ASSUME NEW p PROVE DownShape(q, p) /\ EndsOf(q, p)
  BY <1>1 DEF OnlySigns, DownShape, EndsOf, OneStart, EndIsLast
<1> QED
  BY <1>2, <1>3

(* The end of what is on its way to gdb.                                   *)
LEMMA UpSuffix ==
    ASSUME NEW a, NEW t, NEW q, Join(a, t, q), NoSigns(q), Paired(q)
    PROVE  NoSigns(t) /\ OneSign(t) /\ Paired(t) /\ \A S : EndsIn(q, S) => EndsIn(t, S)
<1>1. /\ Len(a) \in Nat /\ Len(t) \in Nat /\ Len(q) = Len(a) + Len(t)
      /\ \A i \in 1..Len(t) : Len(a) + i \in 1..Len(q) /\ q[Len(a) + i] = t[i]
  BY DEF Join
<1>2. NoSigns(t)
  BY <1>1 DEF NoSigns
<1>3. OneSign(t)
  BY <1>2 DEF NoSigns, OneSign
<1>4. Paired(t)
  <2> SUFFICES ASSUME NEW i \in 1..Len(t)-1 PROVE What(t[i + 1]) \in Follow(What(t[i]))
    BY DEF Paired
  <2>1. /\ i \in 1..Len(t) /\ i + 1 \in 1..Len(t)
        /\ Len(a) + i \in 1..Len(q)-1 /\ (Len(a) + i) + 1 = Len(a) + (i + 1)
    BY <1>1
  <2>2. What(q[(Len(a) + i) + 1]) \in Follow(What(q[Len(a) + i]))
    BY <2>1 DEF Paired
  <2> QED BY <1>1, <2>1, <2>2
<1>5. ASSUME NEW S, EndsIn(q, S), Len(t) > 0 PROVE What(t[Len(t)]) \in S
  <2>1. Len(q) > 0 /\ Len(t) \in 1..Len(t)
    BY <1>1, <1>5
  <2>2. q[Len(q)] = t[Len(t)]
    BY <1>1, <2>1
  <2> QED BY <1>5, <2>1, <2>2 DEF EndsIn
<1> QED
  BY <1>2, <1>3, <1>4, <1>5 DEF EndsIn

(* The relay changes nothing of this while it sends what it has at once;   *)
(* it forgets only when gdb is no longer there.                            *)
LEMMA RelayOnce ==
    ASSUME LinkInv, OnceInv, Relay, Healthy'
    PROVE  OnceInv'
<1>1. DownInv /\ WholeInv /\ SignInv /\ AnswerInv /\ HostInv /\ StubInv
  BY DEF OnceInv
<1>2. left = Len(temp)
  BY <1>1 DEF StubInv
<1>3. UNCHANGED <<hostVars, stubVars, out>>
  BY DEF Relay, RelayMoves, RelaySends, RelayBreaks
<1>4. UNCHANGED <<host, cmd, frame, n, result, spc, reply, gdb_connected, executions, out>>
  BY <1>3 DEF hostVars, stubVars
<1>5. CASE RelayMoves \/ RelaySends
  <2>1. Up' = Up /\ Down' = Down /\ left' = Len(temp') /\ conn' = conn
    BY <1>2, <1>5, Relayed DEF RelayMoves, RelaySends
  <2> QED BY <1>1, <1>4, <2>1, Kept DEF OnceInv
<1>6. CASE RelayBreaks
  <2>1. conn # "open" /\ conn' = "accept" /\ UNCHANGED <<temp, left>>
    BY <1>6 DEF RelayBreaks, relayVars
  <2>2. host = "off" /\ frame = <<>> /\ Len(frame) = 0
    BY <1>1, <2>1 DEF HostInv, WholeInv, FrameShape
  <2>3. OnlySigns(Down')
    <3>1. PICK b \in Seq(Chars) : Join(Down', b, Down)
      BY <1>2, <1>6, Relayed
    <3>2. Len(Down') \in Nat /\ \A i \in 1..Len(Down') : i \in 1..Len(Down) /\ Down[i] = Down'[i]
      BY <3>1 DEF Join
    <3> QED BY <1>1, <2>2, <3>2 DEF DownInv, OnlySigns
  <2>4. DownInv'
    BY <2>3, SignsOnly DEF DownInv
  <2>5. NoSigns(Up)
    BY <1>1, <2>2 DEF SignInv, NoSigns
  <2>6. NoSigns(Up') /\ OneSign(Up') /\ Paired(Up') /\ EndsIn(Up', Ends)
    <3>1. PICK a \in Seq(Chars) : Join(a, Up', Up)
      BY <1>2, <1>6, Relayed
    <3> QED BY <1>1, <2>5, <3>1, UpSuffix DEF WholeInv
  <2>7. WholeInv'
    BY <1>4, <2>2, <2>6 DEF WholeInv, Ends, FrameShape, Sync
  <2>8. SignInv'
    BY <2>6 DEF SignInv, NoSigns
  <2>9. AnswerInv'
    BY <1>4, <2>2 DEF AnswerInv
  <2>10. HostInv'
    BY <1>1, <1>4, <2>2 DEF HostInv
  <2>11. StubInv'
    BY <1>1, <1>2, <1>4, <2>1, Kept
  <2> QED BY <2>4, <2>7, <2>8, <2>9, <2>10, <2>11 DEF OnceInv
<1> QED
  BY <1>5, <1>6 DEF Relay

(* A connection is closed or opened only between calls.                    *)
LEMMA ConnectOnce ==
    ASSUME LinkInv, OnceInv, HostCloses \/ Connect
    PROVE  OnceInv'
<1>1. DownInv /\ WholeInv /\ SignInv /\ AnswerInv /\ HostInv /\ StubInv
  BY DEF OnceInv
<1>2. /\ UNCHANGED <<sock_up, sock_down, relayVars, jtag_up, jtag_down, stubVars, out>>
      /\ UNCHANGED <<frame, n, result, temp, left, spc, reply, gdb_connected, executions>>
  BY DEF HostCloses, Connect, hostVars, relayVars, stubVars
<1>3. Up' = Up /\ Down' = Down
  BY <1>2, Streams
<1>4. host = "off" /\ frame = <<>> /\ Len(frame) = 0
  <2>1. host = "off"
    BY <1>1 DEF HostCloses, Connect, HostInv
  <2> QED BY <1>1, <2>1 DEF WholeInv, FrameShape
<1>5. CASE HostCloses
  <2>1. UNCHANGED <<host, cmd>>
    BY <1>5 DEF HostCloses, hostVars
  <2>2. HostInv'
    BY <1>1, <1>2, <1>4, <2>1 DEF HostInv
  <2>3. left' = Len(temp')
    BY <1>1, <1>2 DEF StubInv
  <2> QED BY <1>1, <1>2, <1>3, <2>1, <2>2, <2>3, Kept DEF OnceInv
<1>6. CASE Connect
  <2>1. host' = "connecting" /\ conn' = "open"
    BY <1>6 DEF Connect
  <2>2. OnlySigns(Down') /\ ~Middle /\ ~Middle'
    BY <1>1, <1>2, <1>3, <1>4 DEF DownInv, StubInv, Middle
  <2>3. DownInv'
    BY <2>2, SignsOnly DEF DownInv
  <2>4. WholeInv'
    BY <1>1, <1>2, <1>3, <1>4, <2>1 DEF WholeInv, Ends, FrameShape, Sync
  <2>5. NoSigns(Up)
    BY <1>1, <1>4 DEF SignInv, NoSigns
  <2>6. SignInv'
    BY <1>1, <1>3, <2>5 DEF SignInv, NoSigns
  <2>7. AnswerInv' /\ HostInv'
    BY <2>1 DEF AnswerInv, HostInv
  <2>8. StubInv'
    BY <1>1, <1>2, <2>2 DEF StubInv
  <2> QED BY <2>3, <2>4, <2>6, <2>7, <2>8 DEF OnceInv
<1> QED
  BY <1>5, <1>6
-----------------------------------------------------------------------------
(* gdb calls only when nothing of an earlier call can begin any more.      *)
LEMMA CallOnce ==
    ASSUME LinkInv, OnceInv, NEW kind \in Commands, Call(kind)
    PROVE  OnceInv'
<1> DEFINE start == IF host = "connecting" THEN <<Char("+")>> ELSE <<>>
           M == Down \o start
<1>1. /\ host \in {"connecting", "idle"} /\ conn = "open" /\ conn' = "open"
      /\ host' = "sent" /\ frame' = <<>> /\ n' = (n + 1) % 3 /\ cmd' = <<kind, n'>>
      /\ executions' = 0 /\ result' = NoPayload
      /\ sock_down' = (sock_down \o start) \o Packet(cmd')
      /\ UNCHANGED <<sock_up, temp, left, jtag_up, jtag_down, spc, reply, gdb_connected, out>>
  BY DEF Call, relayVars
<1>2. DownInv /\ WholeInv /\ SignInv /\ AnswerInv /\ HostInv /\ StubInv
  BY DEF OnceInv
<1>3. n' \in Numbers /\ cmd' \in Payloads /\ cmd'[2] = n'
  <2>1. n' \in Numbers
    BY <1>1 DEF LinkInv, HostOK, Numbers
  <2> QED BY <1>1, <2>1, LinkAssumption DEF Payloads, Kinds
<1>4. start \in Seq(Chars) /\ OnlySigns(start)
  <2>1. CASE host = "connecting"
    <3>1. start = <<Char("+")>> /\ Char("+") \in Chars /\ What(Char("+")) = "+"
      BY <2>1, Characters, Whats
    <3> HIDE DEF start
    <3>2. \A c : c \in Chars /\ What(c) = "+" => <<c>> \in Seq(Chars) /\ OnlySigns(<<c>>)
      BY DEF OnlySigns, Signs
    <3> QED BY <3>1, <3>2
  <2>2. CASE host # "connecting"
    <3>1. start = <<>>
      BY <2>2
    <3> HIDE DEF start
    <3> QED BY <3>1 DEF OnlySigns
  <2> QED BY <2>1, <2>2
<1> HIDE DEF start
<1>5. Down \in Seq(Chars) /\ M \in Seq(Chars) /\ Join(Down, start, M) /\ Packet(cmd') \in Seq(Chars)
  BY <1>3, <1>4, Streams, RestJoin, Packets
<1>6. Join(M, Packet(cmd'), Down')
  <2>1. jtag_down \in Seq(Chars) /\ sock_down \in Seq(Chars) /\ sock_down \o start \in Seq(Chars)
    BY <1>4, RestJoin DEF LinkInv, QueuesOK
  <2>2. Down' = jtag_down \o ((sock_down \o start) \o Packet(cmd'))
    BY <1>1 DEF Down
  <2>3. Down' = (jtag_down \o (sock_down \o start)) \o Packet(cmd')
    BY <1>5, <2>1, <2>2, Parted, Zenon
  <2>4. jtag_down \o (sock_down \o start) = M
    BY <1>4, <2>1, Parted, Zenon DEF Down
  <2> QED BY <1>5, <2>3, <2>4, RestJoin
<1> HIDE DEF M
<1>7. NoStart(M) /\ EndsOf(M, cmd')
  <2>1. OnlySigns(Down)
    BY <1>1, <1>2 DEF DownInv
  <2>2. OnlySigns(M)
    BY <1>4, <1>5, <2>1, DownSigns
  <2> QED BY <2>2, SignsOnly
<1>8. ~Middle /\ ~Middle'
  BY <1>1, <1>2 DEF StubInv, Middle
<1>9. DownInv'
  <2>1. DownShape(Down', cmd')
    <3>1. PICK p \in Payloads : p = cmd'
      BY <1>3
    <3> QED BY <1>6, <1>7, <3>1, DownPacket
  <2> QED BY <1>1, <1>8, <2>1 DEF DownInv
<1>10. Up' = Up
  BY <1>1, Streams
<1>11. WholeInv'
  <2>1. Len(frame') = 0
    BY <1>1
  <2> QED BY <1>1, <1>2, <1>10, <2>1 DEF WholeInv, Ends, FrameShape, Sync
<1>12. SignInv'
  <2>1. NoSigns(Up)
    BY <1>1, <1>2 DEF SignInv, NoSigns
  <2> QED BY <1>2, <1>10, <2>1 DEF SignInv, NoSigns
<1>13. AnswerInv'
  BY <1>1 DEF AnswerInv
<1>14. HostInv'
  BY <1>1, <1>3 DEF HostInv
<1>15. StubInv'
  BY <1>1, <1>2, <1>8 DEF StubInv
<1> QED
  BY <1>9, <1>11, <1>12, <1>13, <1>14, <1>15 DEF OnceInv

(* gdb sends again after a timeout only what was not executed: a reply     *)
(* that it waits for is on its way.                                        *)
LEMMA TimeoutOnce ==
    ASSUME LinkInv, OnceInv, HostTimeout
    PROVE  OnceInv'
<1>1. /\ host \in {"sent", "await"} \/ (host = "running" /\ frame # <<>>)
      /\ sock_up = <<>> /\ sock_down = <<>> /\ left = 0 /\ jtag_up = <<>> /\ jtag_down = <<>>
      /\ HostSend(IF host = "sent" THEN Packet(cmd) ELSE <<Char("-")>>)
      /\ frame' = <<>>
      /\ UNCHANGED <<host, cmd, n, result, conn, sock_up, temp, left, jtag_up, jtag_down, stubVars, out>>
      /\ UNCHANGED <<spc, reply, gdb_connected, executions>>
  BY DEF HostTimeout, HostUnchanged, relayVars, stubVars
<1>2. DownInv /\ WholeInv /\ SignInv /\ AnswerInv /\ HostInv /\ StubInv
  BY DEF OnceInv
<1>3. Len(Up) = 0 /\ Len(Down) = 0 /\ Up' = Up
  <2>1. temp = <<>>
    BY <1>1, <1>2, RestJoin DEF StubInv, LinkInv, QueuesOK
  <2>2. <<>> \in Seq(Chars) /\ Len(<<>>) = 0
    OBVIOUS
  <2>3. Up = <<>> /\ Down = <<>>
    BY <1>1, <2>1, <2>2, Parted DEF Up, Down
  <2> QED BY <1>1, <2>2, <2>3, Streams
<1>4. Len(frame') = 0 /\ Len(frame) \in Nat
  BY <1>1 DEF LinkInv, HostOK
<1>5. WholeInv'
  BY <1>1, <1>2, <1>3, <1>4 DEF WholeInv, Ends, FrameShape, Sync
<1>6. SignInv'
  BY <1>2, <1>3 DEF SignInv
<1>7. HostInv' /\ StubInv'
  <2>1. left' = Len(temp')
    BY <1>1, <1>2 DEF StubInv
  <2> QED BY <1>1, <1>2, <2>1, Kept
<1>8. CASE host = "sent"
  <2>1. executions = 0
    BY <1>2, <1>3, <1>8 DEF AnswerInv, StubInv
  <2>2. cmd \in Payloads /\ Join(Down, Packet(cmd), Down')
    <3>1. cmd \in Payloads
      BY <1>8 DEF LinkInv, HostOK
    <3> QED BY <1>1, <1>8, <3>1, Packets, Streams
  <2>3. NoStart(Down) /\ EndsOf(Down, cmd)
    BY <1>3 DEF NoStart, EndsOf
  <2>4. DownShape(Down', cmd) /\ StartFirst(Down')
    BY <1>3, <2>2, <2>3, DownPacket
  <2>5. DownInv'
    BY <1>1, <1>8, <2>1, <2>4 DEF DownInv
  <2>6. AnswerInv'
    BY <1>1, <1>8, <2>1 DEF AnswerInv
  <2> QED BY <1>5, <1>6, <1>7, <2>5, <2>6 DEF OnceInv
<1>9. CASE host = "await"
  BY <1>2, <1>3, <1>4, <1>9 DEF AnswerInv, WholeInv, FrameShape
<1>10. CASE host = "running"
  <2>1. <<Char("-")>> \in Seq(Chars) /\ OnlySigns(<<Char("-")>>)
    <3>1. Char("-") \in Chars /\ What(Char("-")) = "-"
      BY Characters, Whats
    <3>2. \A c : c \in Chars /\ What(c) = "-" => <<c>> \in Seq(Chars) /\ OnlySigns(<<c>>)
      BY DEF OnlySigns, Signs
    <3> QED BY <3>1, <3>2
  <2>2. Join(Down, <<Char("-")>>, Down')
    BY <1>1, <1>10, <2>1, Streams
  <2>3. DownInv'
    BY <1>1, <1>2, <1>10, <2>1, <2>2, DownMore
  <2>4. AnswerInv'
    BY <1>1, <1>3, <1>4, <1>10 DEF AnswerInv
  <2> QED BY <1>5, <1>6, <1>7, <2>3, <2>4 DEF OnceInv
<1> QED
  BY <1>1, <1>8, <1>9, <1>10
(* What gdb sends back while it reads: nothing or a sign.                  *)
LEMMA Answers ==
    /\ <<>> \in Seq(Chars) /\ OnlySigns(<<>>)
    /\ \A c \in Chars : What(c) \in Signs => <<c>> \in Seq(Chars) /\ OnlySigns(<<c>>)
  BY DEF OnlySigns

(* gdb waits for the sign: '+' only when the command was executed, '-'     *)
(* only when it was not; a packet in its place is skipped.                 *)
LEMMA AwaitAckOnce ==
    ASSUME LinkInv, OnceInv, HostAwaitsAck
    PROVE  OnceInv'
<1>1. PICK c \in Chars :
        /\ host = "sent" /\ HostGets(c) /\ HostUnchanged
        /\ \/ /\ frame = <<>> /\ What(c) = "+"
              /\ host' = CASE cmd[1] = "kill" -> "off" [] cmd[1] = "resume" -> "running"
                           [] OTHER -> "await"
              /\ result' = IF cmd[1] = "kill" THEN cmd ELSE result
              /\ HostSend(<<>>) /\ UNCHANGED frame
           \/ /\ frame = <<>> /\ What(c) = "-"
              /\ HostSend(Packet(cmd)) /\ UNCHANGED <<host, frame, result>>
           \/ /\ frame = <<>> /\ What(c) \notin {"+", "-"}
              /\ frame' = IF What(c) = "$" THEN <<c>> ELSE <<>>
              /\ HostSend(<<>>) /\ UNCHANGED <<host, result>>
           \/ /\ frame # <<>>
              /\ IF Len(frame) = 3
                 THEN frame' = <<>> /\ HostSend(<<Ack(Payload(c))>>)
                 ELSE /\ frame' = IF Len(frame) > 1 \/ What(c) = "#" THEN Append(frame, c) ELSE frame
                      /\ HostSend(<<>>)
              /\ UNCHANGED <<host, result>>
  BY DEF HostAwaitsAck
<1>2. UNCHANGED <<cmd, conn, temp, left, jtag_up, jtag_down, spc, reply, gdb_connected, executions, out, n>>
  BY <1>1 DEF HostUnchanged, relayVars, stubVars
<1>3. DownInv /\ WholeInv /\ SignInv /\ AnswerInv /\ HostInv /\ StubInv
  BY DEF OnceInv
<1>4. Rest(Up, Up') /\ c = Up[1] /\ 1 \in 1..Len(Up) /\ Len(Up') \in Nat
  <2>1. Rest(Up, Up') /\ c = Up[1]
    BY <1>1, <1>2, Streams
  <2> QED BY <2>1 DEF Rest
<1>5. /\ Paired(Up') /\ EndsIn(Up', Ends')
      /\ \A m \in 1..4 : What(c) = Parts[m] =>
            IF Len(Up') > 0 THEN What(Up'[1]) = Parts[m + 1]
                            ELSE out # 0 /\ Parts[out + 1] = Parts[m + 1]
  <2>1. out \in 0..4
    BY DEF LinkInv, StubOK
  <2> QED BY <1>2, <1>3, <1>4, <2>1, UpTaken
<1>6. cmd \in Payloads /\ cmd[2] = n /\ frame \in Seq(Chars) /\ Len(frame) \in 0..3 /\ Len(<<>>) = 0
      /\ (frame = <<>> <=> Len(frame) = 0)
  <2>1. cmd \in Payloads /\ frame \in Seq(Chars)
    BY <1>1 DEF LinkInv, HostOK
  <2>2. Len(frame) \in Nat /\ (frame = <<>> <=> Len(frame) = 0) /\ Len(<<>>) = 0
    BY <2>1, RestJoin
  <2>3. cmd[2] = n /\ Len(frame) <= 3
    BY <1>1, <1>3 DEF HostInv, WholeInv, FrameShape
  <2>4. Len(frame) \in 0..3
    <3>1. \A x \in Nat : x <= 3 => x \in 0..3
      OBVIOUS
    <3> QED BY <2>2, <2>3, <3>1, Zenon
  <2> QED BY <2>1, <2>2, <2>3, <2>4, Zenon
<1>7. StubInv' \/ host' # host
  <2>1. left' = Len(temp')
    BY <1>2, <1>3 DEF StubInv
  <2> QED BY <1>2, <1>3, <2>1, Kept
<1>8. ASSUME What(c) \in Signs, frame = <<>>
      PROVE  /\ ~Middle /\ NoStart(Down) /\ executions = IF What(c) = "+" THEN 1 ELSE 0
             /\ NoSigns(Up')
  BY <1>3, <1>4, <1>8, UpRest DEF SignInv
<1>9. CASE frame = <<>> /\ What(c) = "+"
  <2>1. /\ host' = CASE cmd[1] = "kill" -> "off" [] cmd[1] = "resume" -> "running" [] OTHER -> "await"
        /\ result' = IF cmd[1] = "kill" THEN cmd ELSE result
        /\ HostSend(<<>>) /\ frame' = <<>>
    BY <1>1, <1>9
  <2>2. ~Middle /\ ~Middle' /\ executions = 1 /\ NoSigns(Up')
    BY <1>2, <1>8, <1>9 DEF Signs, Middle
  <2>3. Down' = Down
    BY <1>2, <2>1, Streams
  <2>4. DownInv'
    BY <1>2, <1>3, <2>2, <2>3 DEF DownInv
  <2>5. WholeInv'
    BY <1>5, <1>6, <2>1 DEF WholeInv, FrameShape, Sync
  <2>6. SignInv'
    BY <2>2 DEF SignInv, NoSigns, OneSign
  <2>7. Answered(1)
    <3>1. PICK k \in 1..Len(Up) : Answered(k)
      BY <1>1, <1>3, <2>2 DEF AnswerInv
    <3>2. k = 1
      BY <1>3, <1>4, <1>9, <3>1 DEF Answered, SignInv, OneSign, Signs
    <3> QED BY <3>1, <3>2
  <2>8. AnswerInv'
    <3>1. /\ Len(Up) \in Nat /\ Len(Up') = Len(Up) - 1
          /\ \A i \in 1..Len(Up') : i + 1 \in 1+1..Len(Up) /\ Up'[i] = Up[1 + i] /\ Up'[i] = Up[i + 1]
      BY <1>4 DEF Rest
    <3>2. Len(frame') = 0 /\ MyReply' = MyReply /\ n' = n
      BY <1>2, <1>6, <2>1 DEF MyReply
    <3>3. ASSUME host' = "await"
          PROVE  /\ Len(frame') + Len(Up') >= 5
                 /\ \A i \in 1..Len(frame') : frame'[i] = MyReply'[i]
                 /\ \A i \in Len(frame')+1..5 : Up'[i - Len(frame')] = MyReply'[i]
      <4>1. cmd[1] \notin {"resume", "kill"}
        BY <2>1, <3>3
      <4>2. 1 + 5 <= Len(Up) /\ \A i \in 1..5 : Up[1 + i] = MyReply[i]
        BY <2>7, <4>1 DEF Answered
      <4>3. Len(Up') >= 5 /\ \A i \in 1..5 : Up'[i] = MyReply[i]
        BY <3>1, <4>2
      <4> QED BY <3>2, <4>3
    <3>4. ASSUME host' = "running"
          PROVE  /\ \A i \in 1..Len(frame') : Mine(frame'[i], n')
                 /\ \A i \in 1..Len(Up') : Mine(Up'[i], n')
      <4>1. cmd[1] = "resume"
        BY <2>1, <3>4
      <4> QED BY <2>7, <3>1, <3>2, <4>1 DEF Answered
    <3>5. host' # "sent"
      BY <2>1
    <3> QED BY <3>3, <3>4, <3>5 DEF AnswerInv
  <2>9. HostInv'
    <3>1. host' \in {"off", "running", "await"} /\ (host' = "off" <=> cmd[1] = "kill")
          /\ (host' = "running" <=> cmd[1] = "resume") /\ (host' = "off" => result' = cmd)
      BY <2>1
    <3> QED BY <1>1, <1>2, <1>3, <1>6, <2>2, <3>1 DEF HostInv
  <2>10. StubInv'
    BY <1>2, <1>3, <2>2 DEF StubInv
  <2> QED BY <2>4, <2>5, <2>6, <2>8, <2>9, <2>10 DEF OnceInv
<1>10. CASE frame = <<>> /\ What(c) = "-"
  <2>1. HostSend(Packet(cmd)) /\ UNCHANGED <<host, frame, result>>
    BY <1>1, <1>10
  <2>2. ~Middle /\ ~Middle' /\ NoStart(Down) /\ executions = 0 /\ NoSigns(Up')
    BY <1>2, <1>8, <1>10 DEF Signs, Middle
  <2>3. DownShape(Down', cmd)
    <3>1. Join(Down, Packet(cmd), Down')
      BY <1>2, <1>6, <2>1, Packets, Streams
    <3> QED BY <1>3, <1>6, <2>2, <3>1, DownPacket DEF DownInv, DownShape
  <2>4. DownInv'
    BY <1>1, <1>2, <2>1, <2>2, <2>3 DEF DownInv
  <2>5. WholeInv'
    BY <1>1, <1>5, <1>6, <1>10, <2>1 DEF WholeInv, FrameShape, Sync
  <2>6. SignInv'
    BY <2>2 DEF SignInv, NoSigns, OneSign
  <2>7. AnswerInv'
    BY <1>1, <1>2, <2>1, <2>2 DEF AnswerInv
  <2>8. HostInv' /\ StubInv'
    BY <1>2, <1>3, <1>7, <2>1, Kept
  <2> QED BY <2>4, <2>5, <2>6, <2>7, <2>8 DEF OnceInv
<1>11. CASE frame # <<>> \/ What(c) \notin Signs
  <2>1. What(c) \notin Signs /\ (frame # <<>> => What(c) \in Expected)
    <3>1. frame # <<>> => What(c) \in Expected
      BY <1>3, <1>4 DEF WholeInv, Sync
    <3>2. Expected \subseteq {"data", "#", "hi", "lo"}
      BY <1>1 DEF Expected
    <3> QED BY <1>11, <3>1, <3>2 DEF Signs
  <2>2. UNCHANGED <<host, result>>
    BY <1>1, <2>1 DEF Signs
  <2>3. DownInv' /\ (NoStart(Down) => NoStart(Down'))
    <3>1. PICK s \in Seq(Chars) : HostSend(s) /\ OnlySigns(s)
      <4>1. HostSend(<<>>) \/ HostSend(<<Ack(Payload(c))>>)
        BY <1>1, <2>1 DEF Signs
      <4>2. Ack(Payload(c)) \in Chars /\ What(Ack(Payload(c))) \in Signs
        BY Characters, Whats DEF Signs
      <4>3. <<Ack(Payload(c))>> \in Seq(Chars) /\ OnlySigns(<<Ack(Payload(c))>>)
        BY <4>2, Answers
      <4> QED BY <4>1, <4>3, Answers
    <3>2. Join(Down, s, Down')
      BY <1>2, <3>1, Streams
    <3> QED BY <1>2, <1>3, <2>2, <3>1, <3>2, DownMore
  <2>4. SignInv'
    BY <1>2, <1>3, <1>4, <2>2, <2>3, SignsTaken
  <2>5. AnswerInv'
    BY <1>1, <1>2, <1>3, <1>4, <2>1, <2>2, AnswerTaken DEF Signs
  <2>6. HostInv' /\ StubInv'
    BY <1>2, <1>3, <1>7, <2>2, Kept
  <2>7. ASSUME NEW m \in 1..4, What(c) = Parts[m], Parts[m + 1] \in Expected' PROVE Sync'
    BY <1>2, <1>5, <2>7 DEF Sync
  <2>8. Len(frame') \in 0..3 /\ Sync'
    <3>1. CASE frame = <<>>
      <4>1. frame' = IF What(c) = "$" THEN <<c>> ELSE <<>>
        BY <1>1, <2>1, <3>1 DEF Signs
      <4>2. CASE What(c) = "$"
        <5>1. Len(frame') = 1
          BY <4>1, <4>2
        <5>2. Parts[1 + 1] \in Expected'
          BY <1>1, <2>2, <5>1, Whats DEF Expected
        <5> QED BY <2>7, <4>2, <5>1, <5>2, Whats
      <4>3. CASE What(c) # "$"
        BY <1>6, <4>1, <4>3 DEF Sync
      <4> QED BY <4>2, <4>3
    <3>2. CASE frame # <<>>
      <4>1. What(c) \in Expected /\ Len(frame) \in {1, 2, 3}
        BY <1>6, <2>1, <3>2
      <4>2. frame' = IF Len(frame) = 3 THEN <<>>
                     ELSE IF Len(frame) > 1 \/ What(c) = "#" THEN Append(frame, c) ELSE frame
        BY <1>1, <3>2
      <4>3. Len(Append(frame, c)) = Len(frame) + 1
        BY <1>6, Queues
      <4>4. CASE Len(frame) = 1 /\ What(c) # "#"
        <5>1. What(c) = "data" /\ frame' = frame /\ Len(frame') = 1
          BY <1>1, <4>1, <4>2, <4>4 DEF Expected
        <5>2. Parts[2 + 1] \in Expected'
          BY <1>1, <2>2, <5>1, Whats DEF Expected
        <5> QED BY <2>7, <5>1, <5>2, Whats
      <4>5. CASE Len(frame) = 1 /\ What(c) = "#"
        <5>1. Len(frame') = 2
          BY <4>2, <4>3, <4>5
        <5>2. Parts[3 + 1] \in Expected'
          BY <1>1, <2>2, <5>1, Whats DEF Expected
        <5> QED BY <2>7, <4>5, <5>1, <5>2, Whats
      <4>6. CASE Len(frame) = 2
        <5>1. Len(frame') = 3 /\ What(c) = "hi"
          BY <1>1, <4>1, <4>2, <4>3, <4>6 DEF Expected
        <5>2. Parts[4 + 1] \in Expected'
          BY <1>1, <2>2, <5>1, Whats DEF Expected
        <5> QED BY <2>7, <5>1, <5>2, Whats
      <4>7. CASE Len(frame) = 3
        BY <1>6, <4>2, <4>7 DEF Sync
      <4> QED BY <4>1, <4>4, <4>5, <4>6, <4>7
    <3> QED BY <3>1, <3>2
  <2>9. WholeInv'
    <3>1. FrameShape'
      <4>1. host' = "sent"
        BY <1>1, <2>2
      <4>2. host' \notin {"connecting", "idle", "off", "await", "running"}
        BY <4>1
      <4>3. \A x \in 0..3 : x <= 3
        OBVIOUS
      <4> QED BY <2>8, <4>2, <4>3, Zenon DEF FrameShape
    <3> QED BY <1>5, <2>8, <3>1 DEF WholeInv
  <2> QED BY <2>3, <2>4, <2>5, <2>6, <2>9 DEF OnceInv
<1> QED
  BY <1>9, <1>10, <1>11 DEF Signs
(* A character behind what gdb has read of a packet.                       *)
LEMMA Reads ==
    ASSUME NEW q \in Seq(Chars), NEW c \in Chars
    PROVE  /\ Append(q, c) \in Seq(Chars) /\ Len(Append(q, c)) = Len(q) + 1 /\ Len(q) \in Nat
           /\ Append(q, c)[Len(q) + 1] = c /\ \A i \in 1..Len(q) : Append(q, c)[i] = q[i]
<1> DEFINE C == Chars
<1>1. q \in Seq(C) /\ c \in C
  OBVIOUS
<1> HIDE DEF C
<1>2. /\ Append(q, c) \in Seq(C) /\ Len(Append(q, c)) = Len(q) + 1 /\ Len(q) \in Nat
      /\ Append(q, c)[Len(q) + 1] = c /\ \A i \in 1..Len(q) : Append(q, c)[i] = q[i]
  BY <1>1, AppendProperties
<1> QED
  BY <1>2 DEF C

(* gdb reads a packet: the reply to its command, while it waits for one;   *)
(* otherwise what the program prints, or where it stopped.                 *)
LEMMA AwaitPacketOnce ==
    ASSUME LinkInv, OnceInv, HostAwaitsPacket
    PROVE  OnceInv'
<1>1. PICK c \in Chars :
        /\ host \in {"await", "running"} /\ HostGets(c) /\ HostUnchanged
        /\ LET f == Append(frame, c) IN
           \/ /\ frame = <<>>
              /\ frame' = IF What(c) = "$" THEN f ELSE <<>>
              /\ HostSend(<<>>) /\ UNCHANGED <<host, result>>
           \/ /\ frame # <<>> /\ ~Read(f)
              /\ IF What(c) = "$" /\ What(frame[Len(frame)]) # "#"
                 THEN frame' = <<>> /\ HostSend(<<Char("-")>>)
                 ELSE frame' = f /\ HostSend(<<>>)
              /\ UNCHANGED <<host, result>>
           \/ /\ frame # <<>> /\ Read(f)
              /\ frame' = <<>>
              /\ HostSend(IF Good(f) THEN <<Ack(Payload(f[2]))>> ELSE <<Char("-")>>)
              /\ IF Good(f) /\ ~(host = "running" /\ f[2][2] = "output")
                 THEN /\ host' = IF cmd[1] = "detach" THEN "off" ELSE "idle"
                      /\ result' = Payload(f[2])
                 ELSE UNCHANGED <<host, result>>
  BY DEF HostAwaitsPacket
<1>2. UNCHANGED <<cmd, conn, temp, left, jtag_up, jtag_down, spc, reply, gdb_connected, executions, out, n>>
  BY <1>1 DEF HostUnchanged, relayVars, stubVars
<1>3. DownInv /\ WholeInv /\ SignInv /\ AnswerInv /\ HostInv /\ StubInv
  BY DEF OnceInv
<1>4. Rest(Up, Up') /\ c = Up[1] /\ 1 \in 1..Len(Up) /\ Len(Up) \in Nat /\ Len(Up') = Len(Up) - 1
      /\ \A i \in 1..Len(Up') : i + 1 \in 1..Len(Up) /\ Up'[i] = Up[i + 1]
  <2>1. Rest(Up, Up') /\ c = Up[1]
    BY <1>1, <1>2, Streams
  <2> QED BY <2>1 DEF Rest
<1>5. /\ Paired(Up') /\ EndsIn(Up', Ends')
      /\ \A m \in 1..4 : What(c) = Parts[m] =>
            IF Len(Up') > 0 THEN What(Up'[1]) = Parts[m + 1]
                            ELSE out # 0 /\ Parts[out + 1] = Parts[m + 1]
  <2>1. out \in 0..4
    BY DEF LinkInv, StubOK
  <2> QED BY <1>2, <1>3, <1>4, <2>1, UpTaken
<1> DEFINE f == Append(frame, c)
<1>6. PICK L \in 0..4 : L = Len(frame) /\ (frame = <<>> <=> L = 0)
  <2>1. frame \in Seq(Chars)
    BY DEF LinkInv, HostOK
  <2>2. Len(frame) \in Nat /\ (frame = <<>> <=> Len(frame) = 0)
    BY <2>1, RestJoin
  <2>3. Len(frame) <= 4
    BY <1>1, <1>3 DEF WholeInv, FrameShape
  <2>4. \A x \in Nat : x <= 4 => x \in 0..4
    OBVIOUS
  <2> QED BY <2>2, <2>3, <2>4, Zenon
<1>7. f \in Seq(Chars) /\ Len(f) = L + 1 /\ f[L + 1] = c /\ \A i \in 1..L : f[i] = frame[i]
  <2>1. frame \in Seq(Chars)
    BY DEF LinkInv, HostOK
  <2> QED BY <1>6, <2>1, Reads, Zenon
<1>8. \/ /\ host' = host /\ result' = result /\ HostSend(<<>>)
         /\ frame' = f \/ (frame' = <<>> /\ L = 0 /\ What(c) # "$")
         /\ L = 0 /\ frame' = f => What(c) = "$"
         /\ L # 0 => ~Read(f)
      \/ L # 0 /\ ~Read(f) /\ What(c) = "$"
      \/ /\ L # 0 /\ Read(f) /\ frame' = <<>>
         /\ HostSend(<<Ack(Payload(f[2]))>>) \/ HostSend(<<Char("-")>>)
         /\ IF Good(f) /\ ~(host = "running" /\ f[2][2] = "output")
            THEN host' \in {"off", "idle"} /\ result' = Payload(f[2])
            ELSE UNCHANGED <<host, result>>
  <2>1. CASE frame = <<>>
    <3>1. L = 0 /\ frame' = (IF What(c) = "$" THEN f ELSE <<>>) /\ HostSend(<<>>) /\ UNCHANGED <<host, result>>
      BY <1>1, <1>6, <2>1
    <3>2. f # <<>>
      BY <1>7, <3>1
    <3> HIDE DEF f
    <3> QED BY <3>1, <3>2
  <2>2. CASE frame # <<>> /\ ~Read(f)
    <3>1. /\ L # 0 /\ ~Read(f) /\ UNCHANGED <<host, result>>
          /\ What(c) = "$" \/ (frame' = f /\ HostSend(<<>>))
      BY <1>1, <1>6, <2>2
    <3> HIDE DEF f
    <3> QED BY <3>1
  <2>3. CASE frame # <<>> /\ Read(f)
    <3>1. /\ L # 0 /\ frame' = <<>>
          /\ HostSend(IF Good(f) THEN <<Ack(Payload(f[2]))>> ELSE <<Char("-")>>)
          /\ IF Good(f) /\ ~(host = "running" /\ f[2][2] = "output")
             THEN /\ host' = IF cmd[1] = "detach" THEN "off" ELSE "idle"
                  /\ result' = Payload(f[2])
             ELSE UNCHANGED <<host, result>>
      BY <1>1, <1>6, <2>3
    <3> HIDE DEF f
    <3> QED BY <2>3, <3>1
  <2> QED BY <2>1, <2>2, <2>3
<1> HIDE DEF f
<1>9. ASSUME L # 0 PROVE \A i \in 1..L+1 : What(f[i]) = Parts[i]
  <2>1. What(c) = Parts[L + 1]
    <3>1. frame # <<>> /\ Len(Up) > 0 /\ host # "sent"
      BY <1>1, <1>4, <1>6, <1>9
    <3> QED BY <1>3, <1>4, <1>6, <3>1 DEF WholeInv, Sync, Expected
  <2>2. \A i \in 1..L : What(frame[i]) = Parts[i]
    BY <1>1, <1>3, <1>6 DEF WholeInv, FrameShape
  <2>3. \A i \in 1..L+1 : i \in 1..L \/ i = L + 1
    OBVIOUS
  <2> QED BY <1>7, <2>1, <2>2, <2>3
<1>10. Read(f) <=> L = 4
  <2>1. CASE L = 4
    <3>1. Len(f) = 5 /\ What(f[3]) = "#"
      BY <1>7, <1>9, <2>1, Whats
    <3>2. Len(f) >= 4 /\ Len(f) - 2 = 3
      BY <3>1
    <3> QED BY <2>1, <3>1, <3>2 DEF Read
  <2>2. CASE L = 3
    <3>1. Len(f) = 4 /\ What(f[2]) = "data"
      BY <1>7, <1>9, <2>2, Whats
    <3>2. Len(f) - 2 = 2
      BY <3>1
    <3> QED BY <2>2, <3>1, <3>2 DEF Read
  <2>3. CASE L \in 0..2
    <3>1. ~(Len(f) >= 4)
      BY <1>7, <2>3
    <3> QED BY <2>3, <3>1 DEF Read
  <2> QED BY <2>1, <2>2, <2>3
<1>11. ~(L # 0 /\ ~Read(f) /\ What(c) = "$")
  <2> SUFFICES ASSUME L # 0, What(c) = "$" PROVE FALSE
    OBVIOUS
  <2>1. What(c) = Parts[L + 1]
    BY <1>7, <1>9
  <2>2. L = 1 \/ L = 2 \/ L = 3 \/ L = 4
    OBVIOUS
  <2> QED BY <2>1, <2>2, Whats
<1>12. ~Middle /\ ~Middle' /\ executions = 1
  BY <1>1, <1>2, <1>3 DEF StubInv, Middle, HostInv
<1>13. DownInv'
  <2>1. PICK s \in Seq(Chars) : HostSend(s) /\ OnlySigns(s)
    <3>1. HostSend(<<>>) \/ HostSend(<<Ack(Payload(f[2]))>>) \/ HostSend(<<Char("-")>>)
      BY <1>8, <1>11
    <3>2. Char("-") \in Chars /\ What(Char("-")) \in Signs
      BY Characters, Whats DEF Signs
    <3>3. HostSend(<<Ack(Payload(f[2]))>>) => Ack(Payload(f[2])) \in Chars \/ HostSend(<<>>) \/ HostSend(<<Char("-")>>)
      <4>1. L # 0 => f[2] \in Chars
        <5> SUFFICES ASSUME L # 0 PROVE f[2] \in Chars
          OBVIOUS
        <5>1. 2 \in 1..Len(f)
          BY <1>7
        <5> QED BY <1>7, <5>1, ElementOfSeq
      <4> QED BY <1>8, <1>11, <4>1, Characters
    <3>4. What(Ack(Payload(f[2]))) \in Signs
      BY Whats DEF Signs
    <3> QED BY <3>1, <3>2, <3>3, <3>4, Answers
  <2>2. Join(Down, s, Down')
    BY <1>2, <2>1, Streams
  <2>3. host # "sent"
    BY <1>1
  <2> QED BY <1>2, <1>3, <2>1, <2>2, <2>3, DownMore
<1>14. SignInv'
  <2>1. NoSigns(Up)
    BY <1>1, <1>3 DEF SignInv, NoSigns
  <2>2. NoSigns(Up')
    BY <1>4, <2>1, UpRest
  <2> QED BY <2>2 DEF SignInv, NoSigns, OneSign
<1>15. StubInv'
  BY <1>2, <1>3, <1>12 DEF StubInv
<1>16. MyReply' = MyReply /\ n' = n /\ n \in Numbers
  BY <1>2 DEF MyReply, LinkInv, HostOK
<1>17. ASSUME host = "await"
       PROVE  /\ L + Len(Up) >= 5 /\ \A i \in 1..L+1 : f[i] = MyReply[i]
              /\ \A i \in L+2..5 : Up'[i - (L + 1)] = MyReply[i]
  <2>1. /\ L + Len(Up) >= 5 /\ \A i \in 1..L : frame[i] = MyReply[i]
        /\ \A i \in L+1..5 : Up[i - L] = MyReply[i]
    BY <1>3, <1>6, <1>17 DEF AnswerInv
  <2>2. c = MyReply[L + 1]
    <3>1. L + 1 \in L+1..5 /\ (L + 1) - L = 1
      OBVIOUS
    <3> QED BY <1>4, <2>1, <3>1
  <2>3. \A i \in 1..L+1 : i \in 1..L \/ i = L + 1
    OBVIOUS
  <2>4. \A i \in L+2..5 : /\ i \in L+1..5 /\ i - (L + 1) \in 1..Len(Up') /\ (i - (L + 1)) + 1 = i - L
    BY <1>4, <2>1
  <2>5. \A i \in L+2..5 : Up'[i - (L + 1)] = MyReply[i]
    BY <1>4, <2>1, <2>4
  <2> QED BY <1>7, <2>1, <2>2, <2>3, <2>5
<1>18. ASSUME host = "running"
       PROVE  /\ \A i \in 1..L+1 : Mine(f[i], n)
              /\ \A i \in 1..Len(Up') : Mine(Up'[i], n)
  <2>1. (\A i \in 1..L : Mine(frame[i], n)) /\ \A i \in 1..Len(Up) : Mine(Up[i], n)
    BY <1>3, <1>6, <1>18 DEF AnswerInv
  <2>2. \A i \in 1..L+1 : i \in 1..L \/ i = L + 1
    OBVIOUS
  <2> QED BY <1>4, <1>7, <2>1, <2>2
<1>19. CASE host' = host /\ result' = result /\ L \in 0..3 /\ frame' = f /\ What(c) = Parts[L + 1]
  <2>1. \A i \in 1..L+1 : What(f[i]) = Parts[i]
    <3>1. L = 0 => \A i \in 1..L+1 : i = 1 /\ f[i] = c
      BY <1>7
    <3> QED BY <1>9, <1>19, <3>1
  <2>2. Len(frame') = L + 1 /\ L + 1 <= 4 /\ (\A i \in 1..L+1 : frame'[i] = f[i]) /\ host' \in {"await", "running"}
    BY <1>1, <1>7, <1>19
  <2>3. FrameShape'
    BY <2>1, <2>2, Zenon DEF FrameShape
  <2>4. Sync'
    <3>1. IF Len(Up') > 0 THEN What(Up'[1]) = Parts[(L + 1) + 1]
                          ELSE out # 0 /\ Parts[out + 1] = Parts[(L + 1) + 1]
      <4>1. L + 1 \in 1..4
        BY <1>19
      <4> QED BY <1>5, <1>19, <4>1
    <3>2. Expected' = {Parts[(L + 1) + 1]}
      BY <2>2 DEF Expected
    <3> QED BY <1>2, <3>1, <3>2 DEF Sync
  <2>5. WholeInv'
    BY <1>5, <2>3, <2>4 DEF WholeInv
  <2>6. AnswerInv'
    <3>1. host' = "await" => /\ Len(frame') + Len(Up') >= 5
                             /\ \A i \in 1..Len(frame') : frame'[i] = MyReply'[i]
                             /\ \A i \in Len(frame')+1..5 : Up'[i - Len(frame')] = MyReply'[i]
      BY <1>4, <1>16, <1>17, <1>19, <2>2
    <3>2. host' = "running" => /\ \A i \in 1..Len(frame') : Mine(frame'[i], n')
                               /\ \A i \in 1..Len(Up') : Mine(Up'[i], n')
      BY <1>16, <1>18, <1>19, <2>2
    <3>3. host' # "sent"
      BY <2>2
    <3> QED BY <3>1, <3>2, <3>3 DEF AnswerInv
  <2>7. HostInv'
    BY <1>2, <1>3, <1>19, Kept
  <2> QED BY <1>13, <1>14, <1>15, <2>5, <2>6, <2>7 DEF OnceInv
<1>20. ASSUME frame' = <<>> PROVE WholeInv' /\ Len(frame') = 0
  <2>1. Len(frame') = 0 /\ FrameShape'
    BY <1>8, <1>11, <1>20, <1>1 DEF FrameShape
  <2>2. Sync'
    BY <1>20 DEF Sync
  <2> QED BY <1>5, <2>1, <2>2 DEF WholeInv
<1>21. CASE host = "running" /\ host' = host /\ result' = result /\ frame' = <<>>
  <2>1. AnswerInv'
    BY <1>16, <1>18, <1>20, <1>21 DEF AnswerInv
  <2>2. HostInv'
    BY <1>2, <1>3, <1>21, Kept
  <2> QED BY <1>13, <1>14, <1>15, <1>20, <1>21, <2>1, <2>2 DEF OnceInv
<1>22. ASSUME L = 4, host = "await" PROVE Good(f) /\ Payload(f[2])[2] = n
  <2>1. <<"reply", n>> \in Payloads
    BY <1>16 DEF Payloads, Kinds
  <2>2. f = MyReply
    <3>1. MyReply \in Seq(Chars) /\ Len(MyReply) = 5
      BY <2>1, Packets DEF MyReply
    <3>2. Len(f) = 5 /\ \A i \in 1..5 : f[i] = MyReply[i]
      BY <1>7, <1>17, <1>22
    <3> QED BY <1>7, <3>1, <3>2, SeqEqual
  <2>3. Payload(f[2]) = <<"reply", n>>
    BY <2>1, <2>2, Whats DEF MyReply
  <2>4. Len(f) = 5
    BY <1>7, <1>22
  <2> QED BY <2>2, <2>3, <2>4 DEF Good, MyReply
<1>23. ASSUME L = 4, host = "running", ~(f[2][2] = "output") PROVE Payload(f[2])[2] = n
  <2>1. What(f[2]) = "data" /\ Mine(f[2], n)
    BY <1>9, <1>18, <1>23, Whats
  <2>2. f[2][3] = n
    BY <1>23, <2>1 DEF Mine
  <2> QED BY <2>2 DEF Payload
<1>24. CASE L = 4 /\ host' \in {"off", "idle"} /\ result'[2] = n /\ frame' = <<>>
  <2>1. AnswerInv'
    BY <1>24 DEF AnswerInv
  <2>2. HostInv'
    BY <1>1, <1>2, <1>3, <1>12, <1>24 DEF HostInv
  <2> QED BY <1>13, <1>14, <1>15, <1>20, <1>24, <2>1, <2>2 DEF OnceInv
<1>25. CASE Read(f)
  <2>1. /\ L = 4 /\ frame' = <<>>
        /\ IF Good(f) /\ ~(host = "running" /\ f[2][2] = "output")
           THEN host' \in {"off", "idle"} /\ result' = Payload(f[2])
           ELSE UNCHANGED <<host, result>>
    BY <1>7, <1>8, <1>10, <1>25
  <2>2. CASE Good(f) /\ ~(host = "running" /\ f[2][2] = "output")
    BY <1>1, <1>22, <1>23, <1>24, <2>1, <2>2
  <2>3. CASE ~(Good(f) /\ ~(host = "running" /\ f[2][2] = "output"))
    BY <1>1, <1>21, <1>22, <2>1, <2>3
  <2> QED BY <2>2, <2>3
<1>26. CASE ~Read(f)
  <2>1. /\ L \in 0..3 /\ host' = host /\ result' = result
        /\ frame' = f \/ (frame' = <<>> /\ L = 0 /\ What(c) # "$")
        /\ L = 0 /\ frame' = f => What(c) = "$"
    BY <1>8, <1>10, <1>11, <1>26
  <2>2. CASE frame' = f
    <3>1. What(c) = Parts[L + 1]
      BY <1>7, <1>9, <2>1, <2>2, Whats
    <3> QED BY <1>19, <2>1, <2>2, <3>1
  <2>3. CASE frame' = <<>> /\ L = 0 /\ What(c) # "$"
    <3>1. host # "await"
      <4>1. host = "await" => c = MyReply[1]
        BY <1>7, <1>17, <2>3
      <4> QED BY <2>3, <4>1, Whats DEF MyReply
    <3> QED BY <1>1, <1>21, <2>1, <2>3, <3>1
  <2> QED BY <2>1, <2>2, <2>3
<1> QED
  BY <1>25, <1>26
-----------------------------------------------------------------------------
(* The invariant, as long as nothing has left half a packet in front.      *)
CallInv == LinkInv /\ (Healthy => OnceInv)

(* No command and nothing on its way: it holds initially.                  *)
LEMMA CallInit == Init => CallInv
<1> SUFFICES ASSUME Init PROVE OnceInv
  BY LinkInit DEF CallInv
<1>1. /\ host = "connecting" /\ conn = "open" /\ frame = <<>> /\ spc = "run" /\ out = 0 /\ gdb_connected = FALSE
      /\ executions = 0 /\ left = 0 /\ temp = <<>> /\ sock_up = <<>> /\ jtag_up = <<>>
      /\ sock_down = <<>> /\ jtag_down = <<>>
  BY DEF Init
<1>2. Up = <<>> /\ Down = <<>>
  <2>1. <<>> \in Seq(Chars)
    OBVIOUS
  <2> QED BY <1>1, <2>1, Parted DEF Up, Down
<1>3. Len(Up) = 0 /\ Len(Down) = 0 /\ Len(frame) = 0 /\ Len(temp) = 0
  BY <1>1, <1>2
<1>4. ~Middle
  BY <1>1 DEF Middle
<1>5. DownInv
  <2>1. OnlySigns(Down)
    BY <1>3 DEF OnlySigns
  <2> QED BY <1>4, <2>1, SignsOnly DEF DownInv
<1>6. WholeInv
  BY <1>1, <1>3 DEF WholeInv, Paired, EndsIn, FrameShape, Sync
<1>7. SignInv
  BY <1>3 DEF SignInv, OneSign
<1>8. AnswerInv /\ HostInv
  BY <1>1 DEF AnswerInv, HostInv
<1>9. StubInv
  BY <1>1, <1>3, <1>4 DEF StubInv
<1> QED
  BY <1>5, <1>6, <1>7, <1>8, <1>9 DEF OnceInv

(* What has gone wrong stays so.                                           *)
LEMMA FaultsStay == [Next]_vars /\ Healthy' => Healthy
<1> SUFFICES ASSUME [Next]_vars, Healthy' PROVE Healthy
  OBVIOUS
<1>1. faults \subseteq faults'
  <2>1. CASE UNCHANGED vars
    BY <2>1 DEF vars
  <2>2. CASE \E kind \in Commands : Call(kind)
    BY <2>2 DEF Call
  <2>3. CASE Host
    BY <2>3 DEF Host, HostAwaitsAck, HostAwaitsPacket, HostTimeout, HostUnchanged
  <2>4. CASE HostCloses \/ Connect
    BY <2>4 DEF HostCloses, Connect
  <2>5. CASE Relay
    BY <2>5 DEF Relay, RelayMoves, RelaySends, RelayBreaks
  <2>6. CASE RelaySpins
    BY <2>6 DEF RelaySpins, vars
  <2>7. CASE Stub
    <3>1. CASE GetStart \/ GetData \/ GetDigit \/ GetBad \/ GetGood
      BY <3>1 DEF GetStart, GetData, GetDigit, GetBad, GetGood
    <3>2. CASE GetAck
      BY <3>2 DEF GetAck
    <3> QED BY <2>7, <3>1, <3>2 DEF Stub
  <2>8. CASE Exception \/ ProgramPrints \/ ProgramReads \/ Lose
    BY <2>8 DEF Exception, ProgramPrints, ProgramReads, Lose
  <2> QED BY <2>1, <2>2, <2>3, <2>4, <2>5, <2>6, <2>7, <2>8 DEF Next
<1> QED
  BY <1>1 DEF Healthy

(* Every step preserves it.                                                *)
LEMMA CallStep == CallInv /\ [Next]_vars => CallInv'
<1> SUFFICES ASSUME CallInv, [Next]_vars, Healthy' PROVE OnceInv'
  BY LinkStep DEF CallInv
<1>1. LinkInv /\ OnceInv
  BY FaultsStay DEF CallInv
<1>2. CASE UNCHANGED vars \/ RelaySpins
  <2>1. /\ UNCHANGED <<host, cmd, frame, conn, sock_up, sock_down, temp, left, jtag_up, jtag_down>>
        /\ UNCHANGED <<spc, reply, gdb_connected, out, n, executions, result>>
    BY <1>2 DEF RelaySpins, vars, hostVars, relayVars, stubVars
  <2>2. Up' = Up /\ Down' = Down
    BY <1>1, <2>1, Streams
  <2>3. left' = Len(temp')
    BY <1>1, <2>1 DEF OnceInv, StubInv
  <2> QED BY <1>1, <2>1, <2>2, <2>3, Kept DEF OnceInv
<1>3. CASE \E kind \in Commands : Call(kind)
  BY <1>1, <1>3, CallOnce
<1>4. CASE Host
  BY <1>1, <1>4, AwaitAckOnce, AwaitPacketOnce, TimeoutOnce DEF Host
<1>5. CASE HostCloses \/ Connect
  BY <1>1, <1>5, ConnectOnce
<1>6. CASE Relay
  BY <1>1, <1>6, RelayOnce
<1>7. CASE Stub
  BY <1>1, <1>7, ReadOnce, RefuseOnce, ExecuteOnce, AckOnce DEF Stub
<1>8. CASE Exception \/ ProgramPrints \/ ProgramReads \/ Lose
  BY <1>1, <1>8, StopOnce, PrintOnce, ReadOnce
<1> QED
  BY <1>2, <1>3, <1>4, <1>5, <1>6, <1>7, <1>8 DEF Next

(* A command that has returned was executed, once, and what gdb takes for  *)
(* its result is the reply to it: for any commands, sizes of the buffers,  *)
(* losses towards the stub and however often gdb and the stub send again,  *)
(* as long as neither the relay nor a stop in the middle of the program's  *)
(* output leaves half a packet in front.                                   *)
THEOREM OnceCorrect == Spec => []ExactlyOnce
<1>1. CallInv => ExactlyOnce
  <2> SUFFICES ASSUME CallInv, faults \cap {"partial", "torn"} = {} PROVE
          /\ executions <= 1
          /\ (host = "idle" \/ (host = "off" /\ conn = "open")) /\ cmd # NoPayload =>
                executions = 1 /\ result[2] = n
    BY DEF ExactlyOnce
  <2>1. HostInv /\ StubInv
    BY DEF CallInv, Healthy, OnceInv
  <2>2. executions <= 1
    BY <2>1 DEF StubInv
  <2>3. host \in {"idle", "off"} => executions = 1 /\ result[2] = n
    BY <2>1 DEF HostInv
  <2> QED BY <2>2, <2>3
<1> QED
  BY <1>1, CallInit, CallStep, PTL DEF Spec
=============================================================================
