------------------------------- MODULE Printf -------------------------------
(***************************************************************************)
(* Numbers and formats: strtoul, strtol, number and the printf family of   *)
(* libc.c and vsnprintf-nofloat.c.  A text is a sequence of characters; a  *)
(* format is a sequence of characters and of directives, as the first half *)
(* of the loop of vsnprintf parses them.                                   *)
(***************************************************************************)
EXTENDS Libc

Digits == <<"0", "1", "2", "3", "4", "5", "6", "7", "8", "9", "a", "b", "c", "d", "e", "f">>
LargeDigits == <<"0", "1", "2", "3", "4", "5", "6", "7", "8", "9", "A", "B", "C", "D", "E", "F">>
Value(c) == SmallestOr({i \in 0..15 : c \in {Digits[i + 1], LargeDigits[i + 1]}}, -1)
Repeat(c, k) == [i \in 1..IF k > 0 THEN k ELSE 0 |-> c]
From(s, i) == SubSeq(s, i, Len(s))
CharAt(s, i) == IF i \in DOMAIN s THEN s[i] ELSE "NUL"

(* The longest prefix that is a number in the base, and its value.         *)
Prefix(s, base) == SmallestOr({i \in DOMAIN s : Value(s[i]) \notin 0..base-1}, Len(s) + 1) - 1
Number(s, base) == FoldLeft(LAMBDA acc, c : (acc * base + Value(c)) % Word, 0,
                            SubSeq(s, 1, Prefix(s, base)))
skip_atoi(s) == Number(s, 10)

(* strtoul: the base of "0", "0x" and other numbers is found out.          *)
strtoul(s, base) ==
    LET x == CharAt(s, 1) = "0" /\ CharAt(s, 2) \in {"x", "X"} IN
    CASE base = 0 /\ x /\ Value(CharAt(s, 3)) >= 0 -> Number(From(s, 3), 16)
      [] base = 0 /\ CharAt(s, 1) = "0" /\ ~(x /\ Value(CharAt(s, 3)) >= 0) -> Number(From(s, 2), 8)
      [] base = 0 /\ CharAt(s, 1) # "0" -> Number(s, 10)
      [] base = 16 /\ x -> Number(From(s, 3), 16)
      [] OTHER -> Number(s, base)
strtol(s, base) == IF CharAt(s, 1) = "-" THEN Unsigned(-strtoul(Tail(s), base)) ELSE strtoul(s, base)

RECURSIVE DigitsOf(_, _, _)
DigitsOf(num, base, digits) ==
    IF num < base THEN <<digits[num + 1]>>
    ELSE Append(DigitsOf(num \div base, base, digits), digits[(num % base) + 1])

(* number: padding, sign, prefix, zeros and digits. *)
number(num, base, size, precision, type) ==
    LET negative == "SIGN" \in type /\ Negative(num)
        sign == CASE negative -> <<"-">>
                  [] "SIGN" \in type /\ ~negative /\ "PLUS" \in type -> <<"+">>
                  [] "SIGN" \in type /\ ~negative /\ "PLUS" \notin type /\ "SPACE" \in type -> <<" ">>
                  [] OTHER -> <<>>
        prefix == CASE "SPECIAL" \in type /\ base = 8 -> <<"0">>
                    [] "SPECIAL" \in type /\ base = 16 ->
                           <<"0", IF "LARGE" \in type THEN "X" ELSE "x">>
                    [] OTHER -> <<>>
        digits == DigitsOf(IF negative THEN Magnitude(num) ELSE num, base,
                           IF "LARGE" \in type THEN LargeDigits ELSE Digits)
        zeros == Repeat("0", precision - Len(digits))
        rest == size - Len(sign) - Len(prefix) - Len(zeros) - Len(digits)
        left == "LEFT" \in type
        zeropad == "ZEROPAD" \in type /\ ~left
    IN Repeat(" ", IF left \/ zeropad THEN 0 ELSE rest) \o sign \o prefix
       \o Repeat("0", IF zeropad THEN rest ELSE 0) \o zeros \o digits
       \o Repeat(" ", IF left THEN rest ELSE 0)

(* A directive: flags, width, precision, qualifier, conversion; arg is its *)
(* argument, star the one for a width of '*'; -1 is none.                  *)
Star == -2
Field(d) == IF d.width = Star THEN Magnitude(d.star) ELSE d.width
Flags(d) == IF d.width = Star /\ Negative(d.star) THEN d.flags \cup {"LEFT"} ELSE d.flags
Pad(d, s) == LET pad == Repeat(" ", Field(d) - Len(s))
             IN IF "LEFT" \in Flags(d) THEN s \o pad ELSE pad \o s

(* Integer arguments by qualifier: 'h' is 16 bits wide, here half of Word's. *)
Half == CHOOSE h \in 1..Word : h * h <= Word /\ (h + 1) * (h + 1) > Word
Argument(d) == IF d.qualifier # "h" THEN d.arg
               ELSE IF d.conversion \in {"d", "i"} /\ d.arg % Half >= Half \div 2
                    THEN Unsigned((d.arg % Half) - Half) ELSE d.arg % Half

Output(d) ==
    CASE d.conversion = "c" -> Pad(d, <<d.arg>>)
      [] d.conversion = "s" ->
             Pad(d, IF d.precision = -1 THEN d.arg
                    ELSE SubSeq(d.arg, 1, Min({Len(d.arg), d.precision})))
      [] d.conversion = "p" /\ Field(d) = -1 ->
             number(d.arg, 16, 8, d.precision, Flags(d) \cup {"ZEROPAD"})
      [] d.conversion = "p" /\ Field(d) # -1 ->
             number(d.arg, 16, Field(d), d.precision, Flags(d))
      [] d.conversion = "%" -> <<"%">>
      [] d.conversion = "o" -> number(Argument(d), 8, Field(d), d.precision, Flags(d))
      [] d.conversion = "x" -> number(Argument(d), 16, Field(d), d.precision, Flags(d))
      [] d.conversion = "X" ->
             number(Argument(d), 16, Field(d), d.precision, Flags(d) \cup {"LARGE"})
      [] d.conversion \in {"d", "i"} ->
             number(Argument(d), 10, Field(d), d.precision, Flags(d) \cup {"SIGN"})
      [] d.conversion = "u" -> number(Argument(d), 10, Field(d), d.precision, Flags(d))
      [] d.conversion = "end" -> <<"%">>
      [] OTHER -> <<"%", d.conversion>>

(* The output goes to buf from str on, as far as it is before end.         *)
Emit(st, s) ==
    [st EXCEPT !.str = @ + Len(s),
               !.buf = [i \in DOMAIN st.buf |->
                            IF i >= st.str /\ i < st.str + Len(s) /\ i < st.end
                            THEN s[i - st.str + 1] ELSE st.buf[i]]]

(* Mutant: the terminator goes behind what was written. *)
Terminate_Behind(st, size) ==
    IF size = 0 THEN st.buf ELSE [st.buf EXCEPT ![Min({st.str, st.end})] = "NUL"]

Terminate(st, size) ==
    IF size = 0 THEN st.buf ELSE [st.buf EXCEPT ![Min({st.str, st.end - 1})] = "NUL"]

(* vsnprintf: the buffer afterwards and the result.  scnprintf and         *)
(* vscnprintf return what was written; printf puts a NUL there.            *)
vsnprintf(buf, size, fmt) ==
    LET st == FoldLeft(LAMBDA acc, x : Emit(acc, IF x.conversion = "literal" THEN <<x.arg>> ELSE Output(x)),
                       [buf |-> buf, str |-> 0, end |-> size], fmt)
    IN [buf |-> Terminate(st, size), result |-> st.str]
vscnprintf(buf, size, fmt) ==
    LET r == vsnprintf(buf, size, fmt)
    IN IF r.result >= size THEN [r EXCEPT !.result = size - 1] ELSE r
=============================================================================
