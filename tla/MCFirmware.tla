----------------------------- MODULE MCFirmware -----------------------------
(* Arguments for the functions of Firmware.                                *)
EXTENDS Firmware

MCWord == 256

(* Small memories for strings, with NULs at the end, and a large one whose   *)
(* bytes differ for copies.                                                *)
MemoryCalls ==
    [f : {"memory"}, strings : {TRUE}, m : {[i \in 0..11 |-> IF i < 5 THEN s[i] ELSE 0] : s \in [0..4 -> 0..2]},
     a : 0..5, b : 0..5, n : {2}]
    \cup [f : {"memory"}, strings : {FALSE}, m : {[i \in 0..19 |-> i]},
          a : 0..7, b : {0, 3, 6, 9, 10, 11}, n : 0..9]

NumberCalls ==
    [f : {"number"}, num : {0, 1, 7, 8, 99, 100, 127, 128, 255}, base : {8, 10, 16}, size : {-1, 0, 3, 7},
     precision : {-1, 0, 4}, type : {t \cup {"SIGN"} : t \in SUBSET {"PLUS", "SPACE", "LEFT", "ZEROPAD"}}]
    \cup [f : {"number"}, num : {0, 1, 8, 100, 255}, base : {8, 16}, size : {-1, 6}, precision : {-1, 4},
          type : {t \cup {"SPECIAL"} : t \in SUBSET {"LARGE", "LEFT", "ZEROPAD"}}]
DivideCalls == [f : {"divide"}, a : {0, 1, 6, 7, 127, 128, 129, 250, 255}, b : {0, 1, 2, 7, 127, 128, 250, 255}]

Directive(conversion, arg, width, precision, flags) ==
    [conversion |-> conversion, arg |-> arg, width |-> width, star |-> 253, precision |-> precision,
     qualifier |-> "h", flags |-> flags]
Formats ==
    {<<Directive("literal", "a", -1, -1, {}), Directive(c, 200, w, p, fl), Directive("literal", "b", -1, -1, {})>> :
         c \in {"o", "x", "X", "d", "u", "p", "%", "end", "?"}, w \in {-1, 5, Star}, p \in {-1, 3},
         fl \in {{}, {"LEFT"}, {"ZEROPAD"}, {"SPECIAL", "PLUS"}}}
    \cup {<<Directive("s", <<"x", "y", "z">>, w, p, fl), Directive("c", "c", w, p, fl)>> :
              w \in {-1, 5, Star}, p \in {-1, 0, 2}, fl \in {{}, {"LEFT"}}}
PrintfCalls == [f : {"vsnprintf"}, room : {15}, size : {0, 1, 3, 6, 9, 14}, fmt : Formats]

MdioCalls == [f : {"mdio"}, phyadr : {18}, other : {5, 19}, reg : {0, 9, 17, 31}, val : {0, 1, 32768, 43690, 65535}]
UdpCalls == [f : {"udp"}, pseudo : {<<0, 0, 255, 255, 0, 17>>}, header : {<<30, 218, 0, 69>>, <<255, 255, 225, 18>>},
             payload : UNION {[1..n -> {0, 1, 255}] : n \in 0..4}]
PacketCalls == [f : {"packet"}, bytes : UNION {[1..n -> {0, 10, 35, 36, 79, 125}] : n \in 1..3}]
Option(c, v) == [code |-> c, value |-> v]
Options == {Option(54, <<10, 0, 0, 1>>), Option(54, <<10, 0, 0, 2>>), Option(1, <<255, 255, 0, 0>>),
            Option(3, <<1, 3, 54, 6>>), Option(12, [i \in 1..9 |-> 54])}
OptionsCalls == [f : {"options"}, options : UNION {[1..n -> Options] : n \in 0..3},
                 behind : {[i \in 1..140 |-> 54]}]

MCCalls == MemoryCalls \cup NumberCalls \cup DivideCalls \cup PrintfCalls \cup MdioCalls \cup UdpCalls
           \cup PacketCalls \cup OptionsCalls
=============================================================================
