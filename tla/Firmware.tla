------------------------------ MODULE Firmware ------------------------------
(***************************************************************************)
(* What the programs are linked with: the library of Libc and Printf, and  *)
(* the conversions of Wire.  The program is EthernetTest, or one that      *)
(* calls one library function after another; the functions keep no state,  *)
(* so a call is its arguments and its result is the operator's.            *)
(***************************************************************************)
EXTENDS Wire, EthernetTest

CONSTANT Calls              \* records: f, and arguments

VARIABLE call

FirmwareInit == Init /\ call = [f |-> "none"]

(* A library program runs instead of ethernet_test, over a quiet network.  *)
LibraryCall == /\ call.f = "none" /\ stack[1].at = "reset"
               /\ phy.link = "down" /\ phy.drops = 0
               /\ net.air = {} /\ net.zero = {} /\ ~net.answers
               /\ call' \in Calls
               /\ UNCHANGED vars
LibraryReturns == /\ call.f # "none"
                  /\ call' = [f |-> "none"]
                  /\ UNCHANGED vars
TestProgram == call.f = "none" /\ Next /\ UNCHANGED call

FirmwareNext == LibraryCall \/ LibraryReturns \/ TestProgram
FirmwareSpec == FirmwareInit /\ [][FirmwareNext]_<<vars, call>> /\ Fairness
-----------------------------------------------------------------------------
(* Memory m, addresses a and b, a count n. *)
StringAt(m, s) == [i \in 1..strlen(m, s) |-> m[s + i - 1]]
Copied(m, a, b, n) == [i \in DOMAIN m |-> IF i \in a..a+n-1 THEN m[b + i - a] ELSE m[i]]
Disjoint(a, b, n) == a + n <= b \/ b + n <= a

CopiesOk(m, a, b, n) ==
    /\ memmove(m, a, b, n) = Copied(m, a, b, n)
    /\ Disjoint(a, b, n) /\ a % 4 = b % 4 => memcpy(m, a, b, n) = Copied(m, a, b, n)

Occurs(s, t, i) == SubSeq(s, i, i + Len(t) - 1) = t
SearchOk(m, a, b) ==
    LET s == StringAt(m, a)
        t == StringAt(m, b)
        places == {i \in 1..Len(s)-Len(t)+1 : Occurs(s, t, i)}
    IN /\ strstr(m, a, b) = IF places = {} THEN NULL ELSE a + Min(places) - 1
       /\ \A c \in 1..2 :
              LET found == {i \in DOMAIN s : s[i] = c}
              IN IF found = {} THEN strchr(m, a, c) = NULL /\ strrchr(m, a, c) = NULL
                 ELSE /\ strchr(m, a, c) = a + Min(found) - 1
                      /\ strrchr(m, a, c) = a + Max(found) - 1

CompareOk(m, a, b, n) ==
    LET s == StringAt(m, a)
        t == StringAt(m, b)
    IN /\ (strcmp(m, a, b) = 0) = (s = t)
       /\ (strcmp(m, a, b) < 0) = (strcmp(m, b, a) > 0)
       /\ (strncmp(m, a, b, n) = 0) = (SubSeq(s, 1, Min({n, Len(s)})) = SubSeq(t, 1, Min({n, Len(t)})))
       /\ Disjoint(a, b, Max({Len(s), Len(t)}) + 1) =>
              /\ strcmp(strcpy(m, a, b), a, b) = 0
              /\ n > Len(t) => strcmp(strncpy(m, a, b, Len(t) + 1), a, b) = 0

(* A number printed and read again. *)
PrintedOk(num, base, size, precision, type) ==
    LET s == number(num, base, size, precision, type)
        text == SelectSeq(s, LAMBDA c : c \notin {" ", "+"})
        exact == SelectSeq(number(num, base, -1, precision, type), LAMBDA c : TRUE)
    IN /\ Len(s) = Max({size, Len(exact)})
       /\ (IF "SPECIAL" \in type /\ base # 10 THEN strtoul(text, 0) ELSE strtol(text, base)) = num

DivisionOk(a, b) ==
    LET q == divsi3(a, b)
        r == modsi3(a, b)
    IN b # 0 => /\ Unsigned(Signed(q) * Signed(b) + Signed(r)) = a
                /\ Magnitude(r) < Magnitude(b)
                /\ r # 0 => Negative(r) = Negative(a)

(* Copies of overlapping areas are as if by way of a third, and memcpy is  *)
(* exact between areas that are equally aligned (the CPU drops the low     *)
(* bits of an address); searches find the first or the last place;         *)
(* comparisons are those of the strings; a number that number() prints,    *)
(* with any flags, in any width and precision, reads back through strtol   *)
(* or strtoul as itself, the most negative one too; a quotient is rounded  *)
(* to zero and its remainder has the sign of the numerator.                *)
LibraryCorrect ==
    CASE call.f = "memory" -> LET m == call.m IN
             /\ call.a + call.n - 1 \in DOMAIN m /\ call.b + call.n - 1 \in DOMAIN m
                    => CopiesOk(m, call.a, call.b, call.n)
             /\ call.strings => SearchOk(m, call.a, call.b) /\ CompareOk(m, call.a, call.b, call.n)
      [] call.f = "number" -> PrintedOk(call.num, call.base, call.size, call.precision, call.type)
      [] call.f = "divide" -> DivisionOk(call.a, call.b)
      [] OTHER -> TRUE

(* printf and its like never write behind the buffer they are given, end   *)
(* what they write with a NUL inside it, cut the output off but do not     *)
(* change it, and return the length of all of it, or, vscnprintf, of what  *)
(* was written.                                                            *)
PrintfBounded ==
    call.f = "vsnprintf" =>
        LET size == call.size
            empty == [i \in 0..call.room |-> "?"]
            r == vsnprintf(empty, size, call.fmt)
            all == vsnprintf(empty, call.room + 1, call.fmt)
            last == Min({r.result, size - 1})
        IN /\ r.result = all.result
           /\ \A i \in DOMAIN empty : i >= size => r.buf[i] = "?"
           /\ size > 0 => /\ r.buf[last] = "NUL"
                          /\ \A i \in 0..last-1 : r.buf[i] = all.buf[i]
                          /\ vscnprintf(empty, size, call.fmt).result = last

Escape(bytes) ==
    FlattenSeq([i \in DOMAIN bytes |-> IF bytes[i] \in {35, 36, 125}
                                       THEN <<125, CASE bytes[i] = 35 -> 3 [] bytes[i] = 36 -> 4
                                                     [] bytes[i] = 125 -> 93>>
                                       ELSE <<bytes[i]>>])

(* What the other end of the wire understands is what was meant.  A        *)
(* register of the PHY reads as it was written, the one of another PHY is  *)
(* neither written nor read; the receiver's sum over a UDP packet of even  *)
(* or odd length is right; gdb accepts a console packet and its text, and  *)
(* memory goes through hexadecimal and through escapes unchanged; the      *)
(* options of a DHCP message that has no padding are found, the last of    *)
(* each kind, whatever the buffer holds after the message.                 *)
WireCorrect ==
    CASE call.f = "mdio" ->
             LET phy0 == Phy(call.phyadr, [r \in 0..31 |-> r])
                 phy1 == Run(phy0, mdio_write(call.phyadr, call.reg, call.val))
                 phy2 == Run(phy1, mdio_read(call.phyadr, call.reg))
                 phy3 == Run(phy2, mdio_write(call.other, call.reg, call.reg))
             IN /\ phy3.regs = [phy0.regs EXCEPT ![call.reg] = call.val]
                /\ ReadResult(phy2) = call.val
                /\ ReadResult(Run(phy3, mdio_read(call.other, call.reg))) = 65535
      [] call.f = "udp" ->
             LET sum == UdpChecksum(call.pseudo, call.header \o <<0, 0>>, call.payload)
                 seen == call.pseudo \o call.header \o <<sum \div 256, sum % 256>> \o call.payload \o <<0>>
             IN sum # 0 /\ ip_checksum(0, seen, FALSE) = 65535
      [] call.f = "packet" ->
             LET p == putsnonl(call.bytes)
                 n == Len(call.bytes)
                 sum == hex2int(SubSeq(p, 2 * n + 4, 2 * n + 5))
             IN /\ hex2mem(SubSeq(p, 3, 2 * n + 2)) = call.bytes
                /\ sum = [chars |-> 2, value |-> Sum(SubSeq(p, 2, 2 * n + 2)) % Word]
                /\ hex2mem(mem2hex(call.bytes)) = call.bytes
                /\ bin2mem(Escape(call.bytes)) = call.bytes
      [] call.f = "options" ->
             LET head == <<53, 1, 2>>
                 bytes == head \o FlattenSeq([i \in DOMAIN call.options |->
                              LET o == call.options[i]
                              IN <<o.code, Len(o.value)>> \o o.value]) \o <<255>> \o call.behind
                 last(c) == {i \in DOMAIN call.options : call.options[i].code = c}
             IN \A c \in {54, 1, 3, 6} :
                    dhcp_parse_options(bytes)[c] =
                        IF last(c) = {} THEN <<>> ELSE call.options[Max(last(c))].value
      [] OTHER -> TRUE
=============================================================================
