-------------------------------- MODULE Libc --------------------------------
(***************************************************************************)
(* The functions of software/libbase/libc.c on strings and memory, and the *)
(* signed division of divsi3.c, as operators.  Memory is a function        *)
(* from addresses 0..k to bytes; a pointer is an address, NULL is -1.      *)
(***************************************************************************)
EXTENDS Integers, Sequences, SequencesExt, FiniteSetsExt

CONSTANT Word               \* 2^32 in the code: long is modulo Word

ASSUME WordAssumption == Word \in Nat /\ Word > 0 /\ Word % 2 = 0

NULL == -1
SmallestOr(S, default) == IF S = {} THEN default ELSE Min(S)

(* Memory from an address on, up to the first NUL. *)
strlen(m, s) == Min({i \in DOMAIN m : i >= s /\ m[i] = 0}) - s
strnlen(m, s, count) == Min({strlen(m, s), count})

strchr(m, s, c) == LET i == Min({j \in s..s+strlen(m, s) : m[j] \in {c, 0}})
                   IN IF m[i] = c THEN i ELSE NULL
strrchr(m, s, c) == LET found == {j \in s..s+strlen(m, s) : m[j] = c}
                    IN IF found = {} THEN NULL ELSE Max(found)
strnchr(m, s, count, c) == SmallestOr({j \in s..s+strnlen(m, s, count)-1 : m[j] = c}, NULL)

Overwrite(m, d, n, Byte(_)) == [i \in DOMAIN m |-> IF i \in d..d+n-1 THEN Byte(i - d) ELSE m[i]]

strcpy(m, d, s) == Overwrite(m, d, strlen(m, s) + 1, LAMBDA i : m[s + i])
strncpy(m, d, s, count) ==
    Overwrite(m, d, count, LAMBDA i : IF i < strlen(m, s) THEN m[s + i] ELSE 0)
memset(m, s, c, count) == Overwrite(m, s, count, LAMBDA i : c % 256)

(* The difference at the first place where the strings differ or end, in   *)
(* the type of __res.                                                      *)
SignedChar(x) == ((x + 128) % 256) - 128
Shorter(m, a, b) == Min({strlen(m, a), strlen(m, b)})
Differ(m, a, b, upto) == {j \in 0..upto : m[a + j] # m[b + j]}
strcmp(m, a, b) == LET i == SmallestOr(Differ(m, a, b, Shorter(m, a, b)), Shorter(m, a, b))
                   IN SignedChar(m[a + i] - m[b + i])
strncmp(m, a, b, count) ==
    LET i == SmallestOr(Differ(m, a, b, Min({Shorter(m, a, b), count - 1})), NULL)
    IN IF i = NULL THEN 0 ELSE SignedChar(m[a + i] - m[b + i])
memcmp(m, a, b, count) == LET i == SmallestOr(Differ(m, a, b, count - 1), NULL)
                          IN IF i = NULL THEN 0 ELSE m[a + i] - m[b + i]
strstr(m, a, b) ==
    SmallestOr({i \in a..a+strlen(m, a)-strlen(m, b) : memcmp(m, i, b, strlen(m, b)) = 0}, NULL)

(* memcpy: a byte and a halfword until the destination is aligned, words,  *)
(* a halfword, a byte.  Unit(to, n, i) is the first byte and the size of   *)
(* the access that copies byte i; the CPU drops the low bits of an address. *)
Unit(to, n, i) ==
    LET byte == to % 2
        half == IF n - byte > 2 /\ (to + byte) % 4 >= 2 THEN byte + 2 ELSE byte
        words == half + 4 * ((n - half) \div 4)
    IN CASE i < byte -> <<0, 1>>
         [] i \in byte..half-1 -> <<byte, 2>>
         [] i \in half..words-1 -> <<i - ((i - half) % 4), 4>>
         [] i >= words /\ i < words + 2 /\ (n - half) % 4 >= 2 -> <<words, 2>>
         [] OTHER -> <<i, 1>>
memcpy(m, to, from, n) ==
    Overwrite(m, to, n, LAMBDA i : LET u == Unit(to, n, i)
                                       at == from + u[1]
                                   IN m[at - (at % u[2]) + i - u[1]])

(* Mutant: always upwards. *)
memmove_Up(m, dest, src, count) ==
    FoldLeft(LAMBDA mm, i : [mm EXCEPT ![dest + i] = mm[src + i]], m, [k \in 1..count |-> k - 1])

(* memmove: byte after byte, upwards or downwards. *)
memmove(m, dest, src, count) ==
    FoldLeft(LAMBDA mm, i : [mm EXCEPT ![dest + i] = mm[src + i]], m,
             [k \in 1..count |-> IF dest <= src THEN k - 1 ELSE count - k])

-----------------------------------------------------------------------------
(* long is a number below Word; Signed is its value as a signed one.       *)
Signed(x) == IF x >= Word \div 2 THEN x - Word ELSE x
Unsigned(x) == x % Word
Negative(x) == Signed(x) < 0
Magnitude(x) == IF Negative(x) THEN Unsigned(-x) ELSE x

divsi3(a, b) == LET d == Magnitude(a) \div Magnitude(b)
                IN IF Negative(a) # Negative(b) THEN Unsigned(-d) ELSE d
modsi3(a, b) == LET r == Magnitude(a) % Magnitude(b)
                IN IF Negative(a) THEN Unsigned(-r) ELSE r
=============================================================================
