-------------------------------- MODULE Wire --------------------------------
(***************************************************************************)
(* What the software puts on wires bit by bit and byte by byte: the        *)
(* management frames of libnet/mdio.c, the UDP checksum of microudp.c, the *)
(* hexadecimal of gdbstub.c and the packets console.c prints through gdb,  *)
(* and the options of the messages of ethernet_test/dhcp.c.                *)
(***************************************************************************)
EXTENDS Printf

(* Writes to CSR_MINIMAC_MDIO, and between them the reads of its DI bit.   *)
Mdio(clk, oe, do) == <<clk, oe, do>>
ReadDI == <<>>
Bits(word, bitcount) == [i \in 1..bitcount |-> (word \div 2^(bitcount - i)) % 2]
FromBits(bits) == FoldLeft(LAMBDA word, b : 2 * word + b, 0, bits)

raw_write(bits) ==
    FlattenSeq([i \in DOMAIN bits |-> <<Mdio(0, 1, bits[i]), Mdio(1, 1, bits[i]), Mdio(0, 1, bits[i])>>])
raw_turnaround == <<Mdio(1, 0, 0), Mdio(0, 0, 0)>>
raw_read == FlattenSeq([i \in 1..16 |-> <<Mdio(1, 0, 0), Mdio(0, 0, 0), ReadDI>>])

Preamble == <<Mdio(0, 1, 0)>> \o raw_write([i \in 1..32 |-> 1])

(* Mutant: a read of the bit before its clock. *)
mdio_read_Early(phyadr, reg) ==
    Preamble \o raw_write(Bits(6, 4)) \o raw_write(Bits(phyadr, 5)) \o raw_write(Bits(reg, 5))
    \o <<Mdio(0, 0, 0)>> \o raw_read \o raw_turnaround

mdio_read(phyadr, reg) ==
    Preamble \o raw_write(Bits(6, 4)) \o raw_write(Bits(phyadr, 5)) \o raw_write(Bits(reg, 5))
    \o <<Mdio(0, 0, 0)>> \o raw_turnaround \o raw_read \o raw_turnaround
mdio_write(phyadr, reg, val) ==
    Preamble \o raw_write(Bits(5, 4)) \o raw_write(Bits(phyadr, 5)) \o raw_write(Bits(reg, 5))
    \o raw_write(Bits(2, 2)) \o raw_write(Bits(val, 16)) \o <<Mdio(0, 0, 0)>> \o raw_turnaround

(* The PHY: it samples the line at the rising edges of the clock and       *)
(* drives it after them; at least 32 ones come before a frame.             *)
Phy(adr, regs) == [adr |-> adr, regs |-> regs, clk |-> 0, out |-> 1, ones |-> 0,
                   frame |-> <<>>, read |-> <<>>]
Drive(phy, frame) ==
    LET n == Len(frame) IN
    IF n >= 15 /\ n <= 31 /\ SubSeq(frame, 1, 4) = Bits(6, 4)
       /\ FromBits(SubSeq(frame, 5, 9)) = phy.adr
    THEN IF n = 15 THEN 0 ELSE Bits(phy.regs[FromBits(SubSeq(frame, 10, 14))], 16)[n - 15]
    ELSE 1
Edge(phy, b) ==
    LET frame == IF phy.frame # <<>> \/ (b = 0 /\ phy.ones >= 32) THEN Append(phy.frame, b) ELSE <<>>
        written == /\ Len(frame) = 32 /\ SubSeq(frame, 1, 4) = Bits(5, 4)
                   /\ FromBits(SubSeq(frame, 5, 9)) = phy.adr
    IN [phy EXCEPT !.frame = IF Len(frame) = 32 THEN <<>> ELSE frame,
                   !.ones = IF frame = <<>> /\ b = 1 THEN @ + 1 ELSE 0,
                   !.out = Drive(phy, frame),
                   !.regs = IF written THEN [@ EXCEPT ![FromBits(SubSeq(frame, 10, 14))] =
                                                          FromBits(SubSeq(frame, 17, 32))]
                            ELSE @]
Access(phy, a) ==
    IF a = ReadDI THEN [phy EXCEPT !.read = Append(@, phy.out)]
    ELSE LET line == IF a[2] = 1 THEN a[3] ELSE phy.out
         IN [(IF phy.clk = 0 /\ a[1] = 1 THEN Edge(phy, line) ELSE phy) EXCEPT !.clk = a[1]]
RECURSIVE RunFrom(_, _, _)
RunFrom(phy, accesses, i) ==
    IF i > Len(accesses) THEN phy
    ELSE LET next == Access(phy, accesses[i])
         IN IF next.clk \in 0..1 THEN RunFrom(next, accesses, i + 1) ELSE phy
Run(phy, accesses) == RunFrom([phy EXCEPT !.read = <<>>], accesses, 1)
ReadResult(phy) == FromBits(phy.read)
-----------------------------------------------------------------------------
(* ip_checksum over bytes, continued from r; an odd last byte is left out. *)
RECURSIVE Fold16(_)
Fold16(r) == IF r < 65536 THEN r ELSE Fold16((r % 65536) + (r \div 65536))
ip_checksum(r, bytes, complete) ==
    LET sum == Fold16(FoldLeft(LAMBDA acc, i : acc + 256 * bytes[2 * i - 1] + bytes[2 * i], r,
                               [i \in 1..Len(bytes) \div 2 |-> i]))
    IN IF ~complete THEN sum ELSE IF sum = 65535 THEN 65535 ELSE 65535 - sum

(* microudp_send: the checksum of a packet. *)
UdpChecksum(pseudo, header, payload) ==
    ip_checksum(ip_checksum(0, pseudo, FALSE),
                header \o payload \o (IF Len(payload) % 2 = 1 THEN <<0>> ELSE <<>>), TRUE)
-----------------------------------------------------------------------------
(* mem2hex, hex2mem, hex2int and bin2mem of gdbstub.c; the console packet. *)
HexOf(b, digits) == <<digits[(b \div 16) + 1], digits[(b % 16) + 1]>>
mem2hex(bytes) == FlattenSeq([i \in DOMAIN bytes |-> HexOf(bytes[i], Digits)])
hex2mem(s) == [i \in 1..Len(s) \div 2 |-> 16 * Value(s[2 * i - 1]) + Value(s[2 * i])]
hex2int(s) == [chars |-> Prefix(s, 16), value |-> Number(s, 16)]
Flip32(b) == IF (b \div 32) % 2 = 1 THEN b - 32 ELSE b + 32
bin2mem(bytes) ==
    FoldLeft(LAMBDA st, b : CASE st.escaped -> [out |-> Append(st.out, Flip32(b)), escaped |-> FALSE]
                              [] ~st.escaped /\ b = 125 -> [st EXCEPT !.escaped = TRUE]
                              [] OTHER -> [st EXCEPT !.out = Append(@, b)],
             [out |-> <<>>, escaped |-> FALSE], bytes).out

Code(c) == CASE c = "O" -> 79 [] Value(c) < 10 -> 48 + Value(c) [] OTHER -> 55 + Value(c)
Sum(s) == FoldLeft(LAMBDA acc, c : (acc + Code(c)) % 256, 0, s)

putsnonl(bytes) ==
    LET body == <<"O">> \o FlattenSeq([i \in DOMAIN bytes |-> HexOf(bytes[i], LargeDigits)])
    IN <<"$">> \o body \o <<"#">> \o HexOf(Sum(body), LargeDigits)
-----------------------------------------------------------------------------
(* dhcp_parse_options: the options from byte 0 on, with what follows them  *)
(* in the buffer; the number it counts leaves the two bytes of a head out. *)
dhcp_parse_options(bytes) ==
    FoldLeft(LAMBDA st, i :
                 LET code == bytes[st.at]
                     len == bytes[st.at + 1]
                 IN IF st.done \/ st.parsed >= 68 \/ code = 255 THEN [st EXCEPT !.done = TRUE]
                    ELSE [found |-> IF code \in DOMAIN st.found
                                    THEN [st.found EXCEPT ![code] = SubSeq(bytes, st.at + 2, st.at + 5)]
                                    ELSE st.found,
                          parsed |-> st.parsed + len, at |-> st.at + len + 2,
                          done |-> len = 0 \/ len > 68],
             [found |-> [c \in {54, 1, 3, 6} |-> <<>>], parsed |-> 0, at |-> 1, done |-> FALSE],
             [i \in 1..68 |-> i]).found
=============================================================================
