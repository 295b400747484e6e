-------------------------- MODULE UartStreamProofs --------------------------
(***************************************************************************)
(* The two streams of UartDriver proved for every ring size, FIFO depth    *)
(* and number of characters: the transmit path is a ByteStream step by     *)
(* step and delivers what uart_write accepted; the receive path never      *)
(* reorders, and loses nothing unless one of its two faults happens.       *)
(* Both paths are concatenations of stretches (ring, registers, FIFOs),    *)
(* and the argument is which stretch each step takes a character from and  *)
(* puts it into.                                                           *)
(***************************************************************************)
EXTENDS UartDriverProofs, SequenceTheorems

(* Arithmetic modulo the size of a ring. *)
LEMMA RingLength ==
    ASSUME NEW N \in Nat \ {0}, NEW p \in 0..N-1, NEW c \in 0..N-1
    PROVE  (p + N - c) % N = IF c <= p THEN p - c ELSE p + N - c
  OBVIOUS

(* The place after c. *)
LEMMA RingNext ==
    ASSUME NEW N \in Nat \ {0}, NEW c \in 0..N-1
    PROVE  (c + 1) % N = IF c = N - 1 THEN 0 ELSE c + 1
  OBVIOUS

(* What the ring holds, without the modulus. *)
LEMMA RingType ==
    ASSUME NEW N \in Nat \ {0}, NEW buf \in [0..N-1 -> Char],
           NEW p \in 0..N-1, NEW c \in 0..N-1
    PROVE  LET r == RingContents(buf, N, p, c) IN
           /\ r \in Seq(Char)
           /\ Len(r) = IF c <= p THEN p - c ELSE p + N - c
           /\ \A i \in 1..Len(r) : r[i] = IF c + i - 1 < N THEN buf[c + i - 1] ELSE buf[c + i - 1 - N]
<1> DEFINE n == IF c <= p THEN p - c ELSE p + N - c
           r == RingContents(buf, N, p, c)
<1>1. n \in 0..N-1 /\ (p + N - c) % N = n
  BY RingLength
<1>2. \A i \in 1..n :
         /\ (c + i - 1) % N = IF c + i - 1 < N THEN c + i - 1 ELSE c + i - 1 - N
         /\ (c + i - 1) % N \in 0..N-1
  BY <1>1
<1>3. r = [i \in 1..n |-> buf[(c + i - 1) % N]]
  BY <1>1 DEF RingContents
<1>4. \A i \in 1..n : buf[(c + i - 1) % N] \in Char
  BY <1>2
<1> HIDE DEF n, r
<1>5. r \in Seq(Char) /\ Len(r) = n
  BY <1>1, <1>3, <1>4
<1>6. \A i \in 1..Len(r) : r[i] = IF c + i - 1 < N THEN buf[c + i - 1] ELSE buf[c + i - 1 - N]
  BY <1>2, <1>3, <1>5
<1> QED
  BY <1>5, <1>6 DEF n, r

(* A ring that is not full takes one more. *)
LEMMA RingPush ==
    ASSUME NEW N \in Nat \ {0}, NEW buf \in [0..N-1 -> Char], NEW p \in 0..N-1, NEW c \in 0..N-1,
           NEW x \in Char, (p + 1) % N # c
    PROVE  RingContents([buf EXCEPT ![p] = x], N, (p + 1) % N, c)
              = Append(RingContents(buf, N, p, c), x)
<1> DEFINE q == (p + 1) % N
           b == [buf EXCEPT ![p] = x]
           r == RingContents(buf, N, p, c)
           s == RingContents(b, N, q, c)
<1>1. q \in 0..N-1 /\ q = IF p = N - 1 THEN 0 ELSE p + 1
  BY RingNext
<1>2. b \in [0..N-1 -> Char]
  OBVIOUS
<1>3. b[p] = x /\ \A k \in 0..N-1 : k # p => b[k] = buf[k]
  OBVIOUS
<1> HIDE DEF q, b
<1>4. /\ r \in Seq(Char) /\ Len(r) = IF c <= p THEN p - c ELSE p + N - c
      /\ \A i \in 1..Len(r) : r[i] = IF c + i - 1 < N THEN buf[c + i - 1] ELSE buf[c + i - 1 - N]
  BY RingType
<1>5. /\ s \in Seq(Char) /\ Len(s) = IF c <= q THEN q - c ELSE q + N - c
      /\ \A i \in 1..Len(s) : s[i] = IF c + i - 1 < N THEN b[c + i - 1] ELSE b[c + i - 1 - N]
  BY <1>1, <1>2, RingType, SMTT(30)
<1> HIDE DEF r, s
<1>6. q # c
  BY DEF q
<1>7. Len(s) = Len(r) + 1 /\ Len(r) \in Nat
  BY <1>1, <1>4, <1>5, <1>6
<1>8. \A i \in 1..Len(s) : s[i] = Append(r, x)[i]
  <2> TAKE i \in 1..Len(s)
  <2>1. CASE i = Len(s)
    <3>1. s[i] = IF c + i - 1 < N THEN b[c + i - 1] ELSE b[c + i - 1 - N]
      BY <1>5
    <3>2. IF c + i - 1 < N THEN c + i - 1 = p ELSE c + i - 1 - N = p
      BY <1>1, <1>4, <1>7, <2>1
    <3>3. s[i] = x
      BY <1>3, <3>1, <3>2
    <3>4. Append(r, x)[Len(r) + 1] = x
      BY <1>4, AppendProperties, ZenonT(40)
    <3> QED
      BY <1>7, <2>1, <3>3, <3>4
  <2>2. CASE i # Len(s)
    <3>1. i \in 1..Len(r)
      BY <1>7, <2>2
    <3>2. /\ s[i] = IF c + i - 1 < N THEN b[c + i - 1] ELSE b[c + i - 1 - N]
          /\ r[i] = IF c + i - 1 < N THEN buf[c + i - 1] ELSE buf[c + i - 1 - N]
      BY <1>4, <1>5, <3>1
    <3>3. IF c + i - 1 < N THEN c + i - 1 \in 0..N-1 \ {p} ELSE c + i - 1 - N \in 0..N-1 \ {p}
      BY <1>4, <3>1
    <3>4. s[i] = r[i]
      BY <1>3, <3>2, <3>3
    <3>5. Append(r, x)[i] = r[i]
      BY <1>4, <3>1, AppendProperties
    <3> QED
      BY <3>4, <3>5
  <2> QED
    BY <2>1, <2>2
<1>9. Append(r, x) \in Seq(Char) /\ Len(Append(r, x)) = Len(r) + 1
  BY <1>4
<1>10. s = Append(r, x)
  BY <1>5, <1>7, <1>8, <1>9, SeqEqual
<1> QED
  BY <1>10 DEF r, s, b, q

(* One that is full is taken for an empty one. *)
LEMMA RingEmpty ==
    ASSUME NEW N \in Nat \ {0}, NEW buf, NEW p \in 0..N-1
    PROVE  RingContents(buf, N, p, p) = <<>>
<1>1. (p + N - p) % N = 0
  OBVIOUS
<1> QED
  BY <1>1 DEF RingContents

(* The oldest one is taken out. *)
LEMMA RingPop ==
    ASSUME NEW N \in Nat \ {0}, NEW buf \in [0..N-1 -> Char], NEW p \in 0..N-1, NEW c \in 0..N-1,
           p # c
    PROVE  RingContents(buf, N, p, c) = <<buf[c]>> \o RingContents(buf, N, p, (c + 1) % N)
<1> DEFINE d == (c + 1) % N
           r == RingContents(buf, N, p, c)
           s == RingContents(buf, N, p, d)
<1>1. d \in 0..N-1 /\ d = IF c = N - 1 THEN 0 ELSE c + 1
  BY RingNext
<1> HIDE DEF d
<1>2. /\ r \in Seq(Char) /\ Len(r) = IF c <= p THEN p - c ELSE p + N - c
      /\ \A i \in 1..Len(r) : r[i] = IF c + i - 1 < N THEN buf[c + i - 1] ELSE buf[c + i - 1 - N]
  BY RingType
<1>3. /\ s \in Seq(Char) /\ Len(s) = IF d <= p THEN p - d ELSE p + N - d
      /\ \A i \in 1..Len(s) : s[i] = IF d + i - 1 < N THEN buf[d + i - 1] ELSE buf[d + i - 1 - N]
  BY <1>1, RingType
<1> HIDE DEF r, s
<1>4. Len(r) = Len(s) + 1 /\ Len(s) \in Nat
  BY <1>1, <1>2, <1>3
<1>5. r[1] = buf[c] /\ buf[c] \in Char
  BY <1>2, <1>4
<1>6. \A i \in 1..Len(s) : s[i] = r[i + 1]
  BY <1>1, <1>2, <1>3, <1>4, SMTT(30)
<1>7. <<buf[c]>> \o s \in Seq(Char) /\ Len(<<buf[c]>> \o s) = Len(s) + 1
  BY <1>3, <1>5
<1>8. \A i \in 1..Len(r) : r[i] = (<<buf[c]>> \o s)[i]
  <2> TAKE i \in 1..Len(r)
  <2>1. (<<buf[c]>> \o s)[i] = IF i = 1 THEN buf[c] ELSE s[i - 1]
    BY <1>3, <1>4, <1>5
  <2>2. i # 1 => i - 1 \in 1..Len(s)
    BY <1>4
  <2>3. i # 1 => s[i - 1] = r[i]
    BY <1>6, <2>2
  <2> QED
    BY <1>5, <2>1, <2>3
<1>9. r = <<buf[c]>> \o s
  BY <1>2, <1>4, <1>7, <1>8, SeqEqual
<1> QED
  BY <1>9 DEF r, s, d
-----------------------------------------------------------------------------
(* Concatenation of sequences of characters. *)
LEMMA CharSeqs ==
    /\ <<>> \in Seq(Nat)
    /\ \A a, b \in Seq(Nat) : a \o b \in Seq(Nat)
    /\ \A a, b, c \in Seq(Nat) : (a \o b) \o c = a \o (b \o c)
    /\ \A a \in Seq(Nat) : a \o <<>> = a /\ <<>> \o a = a
<1>1. \A a, b \in Seq(Nat) : a \o b \in Seq(Nat)
  BY ConcatProperties
<1>2. \A a, b, c \in Seq(Nat) : (a \o b) \o c = a \o (b \o c)
  BY ConcatAssociative
<1>3. \A a \in Seq(Nat) : a \o <<>> = a /\ <<>> \o a = a
  BY ConcatEmptySeq
<1> QED
  BY <1>1, <1>2, <1>3, SMTT(30)

(* Concatenation, under a name that hides it from the provers. *)
Cat(a, b) == a \o b

(* It is associative. *)
LEMMA CatAssociative ==
    /\ \A a, b \in Seq(Nat) : Cat(a, b) \in Seq(Nat)
    /\ \A a, b, c \in Seq(Nat) : Cat(Cat(a, b), c) = Cat(a, Cat(b, c))
  BY CharSeqs DEF Cat

(* What a sequence holds with one more at its end.                         *)
LEMMA RangeAppend ==
    ASSUME NEW s \in Seq(Nat), NEW x \in Nat
    PROVE  Range(Append(s, x)) = Range(s) \cup {x}
<1> DEFINE t == Append(s, x)
           n == Len(s)
<1>1. /\ t \in Seq(Nat) /\ Len(t) = n + 1 /\ n \in Nat
      /\ t[n + 1] = x /\ \A i \in 1..n : t[i] = s[i]
  BY AppendProperties
<1>2. Range(s) = {s[i] : i \in 1..n} /\ Range(t) = {t[i] : i \in 1..Len(t)}
  BY <1>1, RangeEquality
<1> HIDE DEF t, n
<1>3. 1..Len(t) = (1..n) \cup {n + 1}
  BY <1>1
<1>4. {t[i] : i \in 1..n} = {s[i] : i \in 1..n}
  BY <1>1
<1>5. Range(t) = {t[i] : i \in 1..n} \cup {t[n + 1]}
  BY <1>2, <1>3
<1> QED
  BY <1>1, <1>2, <1>4, <1>5 DEF t

(* A stream goes on with the next character. *)
LEMMA DeliversMore ==
    ASSUME NEW s \in Seq(Nat), NEW n \in Nat, NEW lost \in SUBSET (0..n),
           NEW others \in SUBSET {0}, Delivers(s, n, lost, others)
    PROVE  Delivers(Append(s, n + 1), n + 1, lost, others)
<1> DEFINE t == Append(s, n + 1)
<1>1. /\ t \in Seq(Nat) /\ Len(t) = Len(s) + 1 /\ Len(s) \in Nat
      /\ t[Len(s) + 1] = n + 1 /\ \A i \in 1..Len(s) : t[i] = s[i]
  BY AppendProperties
<1>2. Range(s) = {s[i] : i \in 1..Len(s)} /\ Range(t) = {t[i] : i \in 1..Len(t)}
  BY <1>1, RangeEquality
<1> HIDE DEF t
<1>3. \A i \in 1..Len(s) : s[i] \in (1..n) \cup others
  BY <1>2 DEF Delivers
<1>4. ASSUME NEW i \in 1..Len(t), NEW j \in 1..Len(t), i < j, t[i] \notin others, t[j] \notin others
      PROVE  t[i] < t[j]
  <2>1. i \in 1..Len(s) /\ t[i] = s[i]
    BY <1>1, <1>4
  <2>2. CASE j = Len(s) + 1
    BY <1>1, <1>3, <2>1, <2>2
  <2>3. CASE j # Len(s) + 1
    <3>1. j \in 1..Len(s) /\ t[j] = s[j]
      BY <1>1, <2>3
    <3> QED
      BY <1>4, <2>1, <3>1 DEF Delivers
  <2> QED
    BY <2>2, <2>3
<1>5. Range(t) = Range(s) \cup {n + 1}
  BY RangeAppend DEF t
<1>6. Range(t) \ others = (1..n+1) \ lost
  BY <1>5 DEF Delivers
<1> QED
  BY <1>4, <1>6 DEF Delivers, t

(* Somebody else's character makes no difference to a stream.              *)
LEMMA DeliversOther ==
    ASSUME NEW s \in Seq(Nat), NEW n \in Nat, NEW lost, NEW others \in SUBSET {0},
           NEW x \in others, Delivers(s, n, lost, others)
    PROVE  Delivers(Append(s, x), n, lost, others)
<1> DEFINE t == Append(s, x)
<1>1. /\ t \in Seq(Nat) /\ Len(t) = Len(s) + 1 /\ Len(s) \in Nat
      /\ t[Len(s) + 1] = x /\ \A i \in 1..Len(s) : t[i] = s[i]
  BY AppendProperties
<1>2. Range(s) = {s[i] : i \in 1..Len(s)} /\ Range(t) = {t[i] : i \in 1..Len(t)}
  BY <1>1, RangeEquality
<1> HIDE DEF t
<1>3. \A i \in 1..Len(t) : t[i] \notin others => i \in 1..Len(s) /\ t[i] = s[i]
  BY <1>1
<1>4. \A i, j \in 1..Len(t) : i < j /\ t[i] \notin others /\ t[j] \notin others => t[i] < t[j]
  BY <1>3 DEF Delivers
<1>5. Range(t) = Range(s) \cup {x}
  BY RangeAppend DEF t
<1>6. Range(t) \ others = (1..n) \ lost
  BY <1>5 DEF Delivers
<1> QED
  BY <1>4, <1>6 DEF Delivers, t

(* A stretch is cut out of a stream: it is lost, the rest stays. *)
LEMMA DeliversCut ==
    ASSUME NEW a \in Seq(Nat), NEW b \in Seq(Nat), NEW c \in Seq(Nat), NEW n \in Nat, NEW lost,
           NEW others, Delivers((a \o b) \o c, n, lost, others)
    PROVE  Delivers(a \o c, n, lost \cup Range(b), others)
<1> DEFINE s == (a \o b) \o c
           t == a \o c
           la == Len(a)
           lb == Len(b)
           lc == Len(c)
           Old(i) == IF i <= la THEN i ELSE i + lb
<1>1. la \in Nat /\ lb \in Nat /\ lc \in Nat
  OBVIOUS
<1>2. /\ a \o b \in Seq(Nat) /\ Len(a \o b) = la + lb
      /\ \A i \in 1..la+lb : (a \o b)[i] = IF i <= la THEN a[i] ELSE b[i - la]
  BY ConcatProperties
<1>3. /\ s \in Seq(Nat) /\ Len(s) = la + lb + lc
      /\ \A i \in 1..la+lb+lc : s[i] = IF i <= la + lb THEN (a \o b)[i] ELSE c[i - (la + lb)]
  BY <1>2, ConcatProperties
<1>4. /\ t \in Seq(Nat) /\ Len(t) = la + lc
      /\ \A i \in 1..la+lc : t[i] = IF i <= la THEN a[i] ELSE c[i - la]
  BY ConcatProperties
<1>5. /\ Range(s) = {s[i] : i \in 1..Len(s)} /\ Range(t) = {t[i] : i \in 1..Len(t)}
      /\ Range(b) = {b[i] : i \in 1..lb}
  BY <1>3, <1>4, RangeEquality, ZenonT(40)
<1> HIDE DEF s, t, la, lb, lc
<1>6. ASSUME NEW i \in 1..Len(t) PROVE Old(i) \in 1..Len(s) /\ t[i] = s[Old(i)]
  <2>1. Old(i) \in 1..Len(s) /\ i \in 1..la+lc
    BY <1>1, <1>3, <1>4
  <2>2. CASE i <= la
    <3>1. i \in 1..la+lb /\ i \in 1..la+lb+lc /\ i <= la + lb
      BY <1>1, <2>1, <2>2
    <3>2. s[i] = (a \o b)[i] /\ (a \o b)[i] = a[i]
      BY <1>2, <1>3, <2>2, <3>1
    <3>3. t[i] = a[i]
      BY <1>4, <2>1, <2>2
    <3> QED
      BY <2>1, <2>2, <3>2, <3>3
  <2>3. CASE ~(i <= la)
    <3> DEFINE k == i + lb
    <3>1. k \in 1..la+lb+lc /\ ~(k <= la + lb) /\ k - (la + lb) = i - la
      BY <1>1, <2>1, <2>3
    <3> HIDE DEF k
    <3>2. t[i] = c[i - la]
      BY <1>4, <2>1, <2>3
    <3>3. s[k] = c[k - (la + lb)]
      BY <1>3, <3>1
    <3> QED
      BY <2>1, <2>3, <3>1, <3>2, <3>3 DEF k
  <2> QED
    BY <2>2, <2>3
<1>7. ASSUME NEW i \in 1..lb PROVE la + i \in 1..Len(s) /\ b[i] = s[la + i]
  <2> DEFINE k == la + i
  <2>1. k \in 1..la+lb /\ k \in 1..la+lb+lc /\ ~(k <= la) /\ k - la = i /\ k <= la + lb
    BY <1>1
  <2> HIDE DEF k
  <2>2. (a \o b)[k] = b[i]
    BY <1>2, <2>1
  <2>3. s[k] = (a \o b)[k]
    BY <1>1, <1>3, <2>1
  <2> QED
    BY <1>3, <2>1, <2>2, <2>3 DEF k
<1>8. ASSUME NEW k \in 1..Len(s) PROVE (\E i \in 1..Len(t) : k = Old(i)) \/ (\E i \in 1..lb : k = la + i)
  <2>1. CASE k <= la
    BY <1>1, <1>3, <1>4, <2>1
  <2>2. CASE la < k /\ k <= la + lb
    <3>1. k - la \in 1..lb /\ k = la + (k - la)
      BY <1>1, <2>2
    <3> QED
      BY <3>1
  <2>3. CASE la + lb < k
    <3>1. k - lb \in 1..Len(t) /\ k = Old(k - lb)
      BY <1>1, <1>3, <1>4, <2>3
    <3> QED
      BY <3>1
  <2> QED
    BY <1>1, <2>1, <2>2, <2>3
<1>9. \A i, j \in 1..Len(s) : i < j /\ s[i] \notin others /\ s[j] \notin others => s[i] < s[j]
  BY DEF Delivers, s
<1>10. \A i \in 1..Len(s) : s[i] \in Nat
  BY <1>3
<1>11. \A i, j \in 1..Len(t) : i < j /\ t[i] \notin others /\ t[j] \notin others => t[i] < t[j]
  <2> TAKE i, j \in 1..Len(t)
  <2> HAVE i < j /\ t[i] \notin others /\ t[j] \notin others
  <2>1. Old(i) < Old(j)
    BY <1>1
  <2> QED
    BY <1>6, <1>9, <2>1
<1>12. \A i \in 1..Len(t), j \in 1..lb : t[i] \notin others => t[i] # b[j]
  <2> TAKE i \in 1..Len(t), j \in 1..lb
  <2> HAVE t[i] \notin others
  <2> SUFFICES ASSUME b[j] \notin others PROVE t[i] # b[j]
    OBVIOUS
  <2>1. Old(i) < la + j \/ la + j < Old(i)
    BY <1>1
  <2>2. s[Old(i)] # s[la + j]
    BY <1>6, <1>7, <1>9, <1>10, <2>1
  <2> QED
    BY <1>6, <1>7, <2>2
<1> HIDE DEF Old
<1>13. Range(t) \ others = (Range(s) \ others) \ Range(b)
  <2>1. Range(t) \ others \subseteq (Range(s) \ others) \ Range(b)
    BY <1>5, <1>6, <1>12, ZenonT(40)
  <2>2. ASSUME NEW x \in Range(s), x \notin Range(b) PROVE x \in Range(t)
    <3>1. PICK k \in 1..Len(s) : x = s[k]
      BY <1>5, <2>2
    <3>2. ~\E i \in 1..lb : k = la + i
      BY <1>5, <1>7, <2>2, <3>1
    <3>3. PICK i \in 1..Len(t) : k = Old(i)
      BY <1>8, <3>2
    <3> QED
      BY <1>5, <1>6, <3>1, <3>3
  <2> QED
    BY <2>1, <2>2
<1>14. Range(s) \ others = (1..n) \ lost
  BY DEF Delivers, s
<1>15. Range(t) \ others = (1..n) \ (lost \cup Range(b))
  BY <1>13, <1>14
<1> QED
  BY <1>11, <1>15 DEF Delivers, t
-----------------------------------------------------------------------------
(* The transmit path as three stretches: what the core holds, the ring,    *)
(* and the character that uart_write is about to hand to the core.         *)
InCore == wfifo \o Thr
Pending == IF pc \in {"w_rxtx", "w_sync"} THEN <<ch>> ELSE <<>>

(* The character being written is the next one. *)
NextCharInv == pc \in {"w_test", "w_ring"} => ch = sent + 1

(* The stretches are sequences of characters. *)
LEMMA PathType ==
    ASSUME DriverTypeOK
    PROVE  /\ Thr \in Seq(Char) /\ InCore \in Seq(Char) /\ TxRing \in Seq(Char) /\ Pending \in Seq(Char)
           /\ TxPath \in Seq(Char) /\ hostRx \in Seq(Char)
<1>1. wfifo \in Seq(Char) /\ hostRx \in Seq(Char) /\ tx_reg \in Char /\ ch \in Char
  BY DEF DriverTypeOK, DriverVarsOK, UartTypeOK
<1>2. Thr \in Seq(Char) /\ Pending \in Seq(Char)
  BY <1>1 DEF Thr, Pending
<1>3. InCore \in Seq(Char)
  BY <1>1, <1>2 DEF InCore
<1>4. TxRing \in Seq(Char)
  BY RingType, RingAssumption DEF TxRing, DriverTypeOK, DriverVarsOK
<1>5. TxPath = (InCore \o TxRing) \o Pending
  BY DEF TxPath, InCore, Pending
<1> QED
  BY <1>1, <1>2, <1>3, <1>4, <1>5

(* An edge without a write to RXTX hands a character from the holding      *)
(* register to the FIFO or does nothing.                                   *)
LEMMA InCoreKept ==
    ASSUME UartTypeOK, NEW w, Clock(w), w.reg # "RXTX"
    PROVE  InCore' = InCore
<1>1. /\ thre \in BOOLEAN /\ wfifo \in Seq(Char) /\ tx_reg \in Char
      /\ tx_reg' = tx_reg
  BY DEF UartTypeOK, Clock, ClockTx
<1>2. CASE jtag_we
  <2>1. ~thre /\ thre' /\ wfifo' = Append(wfifo, tx_reg)
    BY <1>2 DEF Clock, ClockTx, jtag_we
  <2>2. Append(wfifo, tx_reg) = wfifo \o <<tx_reg>> /\ Append(wfifo, tx_reg) \in Seq(Char)
    BY <1>1, AppendIsConcat
  <2>3. wfifo' \o <<>> = wfifo'
    BY <2>1, <2>2, ConcatEmptySeq
  <2> QED
    BY <2>1, <2>2, <2>3 DEF InCore, Thr
<1>3. CASE ~jtag_we
  <2>1. thre' = thre /\ wfifo' = wfifo
    BY <1>1, <1>3 DEF Clock, ClockTx
  <2> QED
    BY <1>1, <2>1 DEF InCore, Thr
<1> QED
  BY <1>2, <1>3

(* A write to RXTX while the holding register is empty adds a character.   *)
LEMMA InCoreGrows ==
    ASSUME UartTypeOK, NEW c \in Char, Clock(WriteRXTX(c)), thre
    PROVE  InCore' = InCore \o <<c>>
<1>1. /\ wfifo \in Seq(Char) /\ WriteRXTX(c).reg = "RXTX" /\ WriteRXTX(c).char = c /\ ~jtag_we
  BY DEF UartTypeOK, WriteRXTX, jtag_we
<1>2. /\ ~thre' /\ wfifo' = wfifo /\ tx_reg' = c
  BY <1>1 DEF Clock, ClockTx
<1>3. wfifo \o <<>> = wfifo
  BY <1>1, ConcatEmptySeq
<1> QED
  BY <1>2, <1>3 DEF InCore, Thr

(* Nothing the refinement looks at changes in a step that does not write   *)
(* RXTX, and moves no character in or out of the ring.                     *)
Idle == /\ \E w : Clock(w) /\ w.reg # "RXTX"
        /\ TxRing' = TxRing /\ Pending' = Pending
        /\ UNCHANGED <<sent, txDropped>>

(* So it is a stutter of the stream.                                       *)
LEMMA IdleStutters ==
    ASSUME DriverTypeOK, Idle
    PROVE  UNCHANGED <<sent, TxPath, hostRx, txDropped>>
<1>1. InCore' = InCore
  BY InCoreKept DEF Idle, DriverTypeOK
<1>2. hostRx' = hostRx
  BY DEF Idle, Clock
<1>3. TxPath = (InCore \o TxRing) \o Pending /\ TxPath' = (InCore' \o TxRing') \o Pending'
  BY DEF TxPath, InCore, Pending
<1> QED
  BY <1>1, <1>2, <1>3 DEF Idle

(* Most steps are idle in this sense: also uart_init's reset of the ring,  *)
(* which is empty then.                                                    *)
LEMMA IdleSteps ==
    ASSUME DriverTypeOK, TokenInv,
           \/ InitStep \/ WriteTest \/ WritePoll \/ WriteRestore \/ ReadStep \/ SyncStep \/ AppCall
           \/ IsrEnter \/ IsrReadStat \/ IsrClear \/ IsrRx \/ IsrTxIdle \/ IsrAck \/ IsrEret \/ Stall
    PROVE  Idle
<1> USE DEF Idle, App, Goto, Cpu, Bus, ringVars, appVars, isrVars, histVars
<1>0. /\ NoWrite.reg # "RXTX" /\ WriteSTAT(stat).reg # "RXTX"
      /\ \A bits : WriteCTRL(bits).reg # "RXTX"
  BY DEF NoWrite, WriteSTAT, WriteCTRL
<1>1. CASE InitVars
  <2>1. tx_produce = 0 /\ tx_consume = 0
    BY <1>1 DEF InitVars, TokenInv, StartInv, InitPcs
  <2>2. TxRing' = TxRing
    BY <1>1, <2>1 DEF InitVars, TxRing
  <2>3. Pending' = Pending
    BY <1>1 DEF InitVars, Pending
  <2> QED
    BY <1>0, <1>1, <2>2, <2>3 DEF InitVars
<1>2. CASE InitIE \/ InitAck \/ InitStatRead \/ InitStatWrite \/ InitCtrl \/ InitMask
  BY <1>0, <1>2 DEF InitIE, InitAck, InitStatRead, InitStatWrite, InitCtrl, InitMask, TxRing, Pending
<1>3. CASE WriteTest \/ WritePoll \/ WriteRestore
  BY <1>0, <1>3 DEF WriteTest, WritePoll, WriteRestore, TxRing, Pending
<1>4. CASE ReadStep \/ SyncStep
  BY <1>0, <1>4 DEF ReadStep, ReadChar, ReadAdvance, SyncStep, ForceSyncSet, RebootMask,
                    RebootIE, RebootWriteId, TxRing, Pending
<1>5. CASE AppCall
  BY <1>0, <1>5 DEF AppCall, WriteCall, ReadCall, ForceSyncOn, ForceSyncOff, RebootCall, TxRing, Pending
<1>6. CASE IsrEnter \/ IsrReadStat \/ IsrClear \/ IsrAck \/ IsrEret
  BY <1>0, <1>6 DEF IsrEnter, IsrReadStat, IsrClear, IsrAck, IsrEret, IsrAt, TxRing, Pending
<1>7. CASE IsrRx \/ IsrTxIdle
  BY <1>0, <1>7 DEF IsrRx, IsrTxIdle, IsrAt, TxRing, Pending
<1>8. CASE Stall
  BY <1>0, <1>8 DEF Stall, TxRing, Pending
<1> QED
  BY <1>1, <1>2, <1>3, <1>4, <1>5, <1>6, <1>7, <1>8 DEF InitStep

(* The steps in which a character is handed on within the path.            *)
LEMMA RegisterKeepsPath ==
    ASSUME DriverTypeOK, TokenInv, WriteRegister
    PROVE  UNCHANGED <<sent, TxPath, hostRx, txDropped>>
<1>1. thre /\ tx_produce = tx_consume /\ ch \in Char
  BY DEF WriteRegister, App, TokenInv, ClearToSendInv, DriverTypeOK, DriverVarsOK
<1>2. TxRing = <<>> /\ TxRing' = <<>>
  BY <1>1, RingEmpty, RingAssumption
     DEF TxRing, WriteRegister, ringVars, DriverTypeOK, DriverVarsOK
<1>3. Pending = <<ch>> /\ Pending' = <<>>
  BY DEF WriteRegister, App, Goto, Pending
<1>4. InCore' = InCore \o <<ch>>
  BY <1>1, InCoreGrows DEF WriteRegister, Bus, DriverTypeOK
<1>5. TxPath = (InCore \o TxRing) \o Pending /\ TxPath' = (InCore' \o TxRing') \o Pending'
  BY DEF TxPath, InCore, Pending
<1>6. InCore \in Seq(Char) /\ InCore \o <<ch>> \in Seq(Char)
  BY <1>1, PathType
<1>7. TxPath' = TxPath
  BY <1>2, <1>3, <1>4, <1>5, <1>6, ConcatEmptySeq
<1> QED
  BY <1>7 DEF WriteRegister, Bus, Clock, histVars

(* uart_isr moves the oldest character from the ring to the core.          *)
LEMMA NextKeepsPath ==
    ASSUME DriverTypeOK, TokenInv, IsrTxNext
    PROVE  UNCHANGED <<sent, TxPath, hostRx, txDropped>>
<1> DEFINE c == tx_buf[tx_consume]
<1>1. /\ thre /\ tx_produce # tx_consume /\ c \in Char
      /\ tx_buf \in [0..RingSizeTX-1 -> Char]
      /\ tx_produce \in 0..RingSizeTX-1 /\ tx_consume \in 0..RingSizeTX-1
  BY DEF IsrTxNext, IsrAt, TokenInv, EventInv, DriverTypeOK, DriverVarsOK
<1>2. TxRing = <<c>> \o TxRing'
  <2>1. TxRing = <<c>> \o RingContents(tx_buf, RingSizeTX, tx_produce, (tx_consume + 1) % RingSizeTX)
    BY <1>1, RingPop, RingAssumption DEF TxRing
  <2>2. TxRing' = RingContents(tx_buf, RingSizeTX, tx_produce, (tx_consume + 1) % RingSizeTX)
    BY DEF TxRing, IsrTxNext, NextTX
  <2> QED
    BY <2>1, <2>2
<1>3. TxRing' \in Seq(Char)
  <2>1. tx_consume' \in 0..RingSizeTX-1 /\ tx_buf' = tx_buf /\ tx_produce' = tx_produce
    BY <1>1, NextInRing, RingAssumption DEF IsrTxNext, NextTX
  <2> QED
    BY <1>1, <2>1, RingType, RingAssumption DEF TxRing
<1>4. Pending' = Pending
  BY DEF IsrTxNext, IsrAt, appVars, Pending
<1>5. InCore' = InCore \o <<c>>
  BY <1>1, InCoreGrows DEF IsrTxNext, Bus, DriverTypeOK
<1>6. TxPath = (InCore \o TxRing) \o Pending /\ TxPath' = (InCore' \o TxRing') \o Pending'
  BY DEF TxPath, InCore, Pending
<1>7. InCore \in Seq(Char) /\ <<c>> \in Seq(Char)
  BY <1>1, PathType
<1>8. (InCore \o <<c>>) \o TxRing' = InCore \o (<<c>> \o TxRing')
  BY <1>3, <1>7, ConcatAssociative
<1>9. TxPath' = TxPath
  BY <1>2, <1>4, <1>5, <1>6, <1>8
<1> QED
  BY <1>9 DEF IsrTxNext, Bus, Clock, histVars
-----------------------------------------------------------------------------
(* uart_write accepts a character when it decides where it goes.           *)
LEMMA DirectAccepts ==
    ASSUME DriverTypeOK, NextCharInv, WriteSync \/ WriteDirect
    PROVE  Stream!Accept
<1>1. /\ ch = sent + 1 /\ sent' = ch /\ ch \in Char /\ txDropped' = txDropped
      /\ \E w : Clock(w) /\ w.reg # "RXTX"
      /\ Pending = <<>> /\ Pending' = <<ch>> /\ TxRing' = TxRing
  BY DEF WriteSync, WriteDirect, App, Goto, NextCharInv, Cpu, Bus, NoWrite, Pending, TxRing, ringVars,
         DriverTypeOK, DriverVarsOK
<1>2. InCore' = InCore /\ hostRx' = hostRx
  BY <1>1, InCoreKept DEF DriverTypeOK, Clock
<1>3. TxPath = (InCore \o TxRing) \o Pending /\ TxPath' = (InCore' \o TxRing') \o Pending'
  BY DEF TxPath, InCore, Pending
<1>4. InCore \o TxRing \in Seq(Char)
  BY PathType, ConcatProperties
<1>5. TxPath = InCore \o TxRing /\ TxPath' = (InCore \o TxRing) \o <<ch>>
  BY <1>1, <1>2, <1>3, <1>4, ConcatEmptySeq
<1>6. TxPath' = Append(TxPath, sent')
  BY <1>1, <1>4, <1>5, AppendIsConcat
<1> QED
  BY <1>1, <1>2, <1>6 DEF Stream!Accept

(* Into the ring, or, when that was the last place in it, into nothing     *)
(* with all that the ring held.                                            *)
LEMMA RingAccepts ==
    ASSUME DriverTypeOK, NextCharInv, WriteRing
    PROVE  Stream!Accept \/ Stream!Overflow
<1>1. /\ ch = sent + 1 /\ sent' = ch /\ ch \in Char
      /\ \E w : Clock(w) /\ w.reg # "RXTX"
      /\ Pending = <<>> /\ Pending' = <<>>
      /\ tx_buf' = [tx_buf EXCEPT ![tx_produce] = ch] /\ tx_produce' = NextTX(tx_produce)
      /\ tx_consume' = tx_consume
  BY DEF WriteRing, App, Goto, NextCharInv, Cpu, Bus, NoWrite, Pending, DriverTypeOK, DriverVarsOK
<1>2. InCore' = InCore /\ hostRx' = hostRx
  BY <1>1, InCoreKept DEF DriverTypeOK, Clock
<1>3. InCore \in Seq(Char) /\ TxRing \in Seq(Char) /\ InCore \o TxRing \in Seq(Char)
  BY PathType, ConcatProperties
<1>4. TxPath = InCore \o TxRing
  BY <1>1, <1>3, ConcatEmptySeq DEF TxPath, InCore, Pending
<1>5. TxPath' = (InCore \o TxRing') \o <<>>
  BY <1>1, <1>2 DEF TxPath, InCore, Pending
<1>6. /\ tx_buf \in [0..RingSizeTX-1 -> Char]
      /\ tx_produce \in 0..RingSizeTX-1 /\ tx_consume \in 0..RingSizeTX-1
      /\ RingSizeTX \in Nat \ {0}
  BY RingAssumption DEF DriverTypeOK, DriverVarsOK
<1>7. CASE NextTX(tx_produce) # tx_consume
  <2>1. TxRing' = Append(TxRing, ch)
    BY <1>1, <1>6, <1>7, RingPush DEF TxRing, NextTX
  <2>2. TxRing' = TxRing \o <<ch>> /\ TxRing' \in Seq(Char) /\ <<ch>> \in Seq(Char)
    BY <1>1, <1>3, <2>1, AppendIsConcat
  <2>3. TxPath' = (InCore \o TxRing) \o <<ch>>
    BY <1>3, <1>5, <2>2, ConcatAssociative, ConcatEmptySeq, ConcatProperties
  <2>4. TxPath' = Append(TxPath, sent')
    BY <1>1, <1>3, <1>4, <2>3, AppendIsConcat
  <2>5. txDropped' = txDropped
    BY <1>7 DEF WriteRing
  <2> QED
    BY <1>1, <1>2, <2>4, <2>5 DEF Stream!Accept
<1>8. CASE NextTX(tx_produce) = tx_consume
  <2>1. TxRing' = <<>>
    BY <1>1, <1>6, <1>8, RingEmpty DEF TxRing
  <2>2. TxPath' = InCore
    BY <1>3, <1>5, <2>1, ConcatEmptySeq
  <2>3. Len(TxRing) = RingSizeTX - 1
    <3>1. tx_consume = IF tx_produce = RingSizeTX - 1 THEN 0 ELSE tx_produce + 1
      BY <1>6, <1>8, RingNext DEF NextTX
    <3> QED
      BY <1>6, <3>1, RingType DEF TxRing
  <2>4. Len(TxPath) - (RingSizeTX - 1) = Len(InCore) /\ Len(InCore) \in Nat
        /\ Len(TxPath) = Len(InCore) + Len(TxRing)
    BY <1>3, <1>4, <1>6, <2>3, ConcatProperties
  <2>5. InCore = SubSeq(TxPath, 1, Len(InCore))
    BY <1>3, <1>4, SubSeqOfConcat1, SubSeqFull, SubSeqEmpty, <2>4
  <2>6. Range(TxRing) = {TxPath[i] : i \in Len(InCore)+1..Len(TxPath)}
    <3>1. Range(TxRing) = {TxRing[i] : i \in 1..Len(TxRing)}
      BY <1>3, RangeEquality
    <3>2. \A i \in 1..Len(TxRing) : TxRing[i] = TxPath[Len(InCore) + i]
      BY <1>3, <1>4, <2>4
    <3>3. \A i \in Len(InCore)+1..Len(TxPath) : TxPath[i] = TxRing[i - Len(InCore)]
      BY <1>3, <1>4, <2>4
    <3>4. Len(TxRing) \in Nat
      BY <1>3, LenProperties
    <3>5. \A i \in 1..Len(TxRing) : Len(InCore) + i \in Len(InCore)+1..Len(TxPath)
      BY <2>4, <3>4
    <3>6. \A i \in Len(InCore)+1..Len(TxPath) : i - Len(InCore) \in 1..Len(TxRing)
      BY <2>4, <3>4
    <3>7. ASSUME NEW i \in 1..Len(TxRing)
          PROVE  \E k \in Len(InCore)+1..Len(TxPath) : TxRing[i] = TxPath[k]
      BY <3>2, <3>5, Zenon
    <3>8. ASSUME NEW k \in Len(InCore)+1..Len(TxPath)
          PROVE  \E i \in 1..Len(TxRing) : TxPath[k] = TxRing[i]
      BY <3>3, <3>6, Zenon
    <3> DEFINE R == Range(TxRing)
               dom == 1..Len(TxRing)
               cod == Len(InCore)+1..Len(TxPath)
    <3> HIDE DEF R, dom, cod
    <3>9. R = {TxRing[i] : i \in dom}
      BY <3>1 DEF R, dom
    <3>10. /\ \A i \in dom : \E k \in cod : TxRing[i] = TxPath[k]
           /\ \A k \in cod : \E i \in dom : TxPath[k] = TxRing[i]
      BY <3>7, <3>8 DEF dom, cod
    <3>11. R = {TxPath[k] : k \in cod}
      <4>1. \A x : x \in R <=> \E i \in dom : x = TxRing[i]
        BY <3>9
      <4>2. \A x : x \in R <=> \E k \in cod : x = TxPath[k]
        BY <4>1, <3>10
      <4> QED BY <4>2
    <3> QED
      BY <3>11 DEF R, cod
  <2>7. txDropped' = txDropped \cup Range(TxRing) \cup {ch}
    BY <1>8 DEF WriteRing
  <2> QED
    BY <1>1, <1>2, <2>2, <2>4, <2>5, <2>6, <2>7 DEF Stream!Overflow
<1> QED
  BY <1>7, <1>8

(* The host takes the oldest character of the path.                        *)
LEMMA HostDelivers ==
    ASSUME DriverTypeOK, DriverHostReceive
    PROVE  Stream!Deliver
<1> DEFINE rest == TxRing \o Pending
<1>1. /\ wfifo # <<>> /\ wfifo \in Seq(Char) /\ hostRx' = Append(hostRx, Head(wfifo))
      /\ wfifo' = Tail(wfifo) /\ Thr' = Thr /\ TxRing' = TxRing /\ Pending' = Pending
      /\ UNCHANGED <<sent, txDropped>>
  BY DEF DriverHostReceive, HostReceive, DriverUnchanged, uartRegs, ringVars, appVars, histVars,
         Thr, TxRing, Pending, DriverTypeOK, UartTypeOK
<1>2. Thr \in Seq(Char) /\ TxRing \in Seq(Char) /\ Pending \in Seq(Char) /\ rest \in Seq(Char)
  BY PathType, ConcatProperties
<1>3. TxPath = ((wfifo \o Thr) \o TxRing) \o Pending
      /\ TxPath' = ((wfifo' \o Thr') \o TxRing') \o Pending'
  BY DEF TxPath, Pending
<1>4. Tail(wfifo) \in Seq(Char) /\ Head(wfifo) \in Char
  BY <1>1
<1> DEFINE more == Thr \o rest
<1>5. \A s \in Seq(Char) : ((s \o Thr) \o TxRing) \o Pending = s \o more
  <2> TAKE s \in Seq(Char)
  <2>1. (s \o Thr) \in Seq(Char)
    BY <1>2, ConcatProperties
  <2>2. \A u \in Seq(Char) : (u \o TxRing) \o Pending = u \o rest
    BY <1>2, ConcatAssociative
  <2>3. (s \o Thr) \o rest = s \o more
    BY <1>2, ConcatAssociative, SMTT(30)
  <2> QED
    BY <2>2, <2>3
<1>6. more \in Seq(Char)
  BY <1>2, ConcatProperties
<1>7. TxPath = wfifo \o more /\ TxPath' = Tail(wfifo) \o more
  BY <1>1, <1>3, <1>4, <1>5
<1> HIDE DEF more, rest
<1>8. Head(wfifo \o more) = Head(wfifo) /\ Tail(wfifo \o more) = Tail(wfifo) \o more
      /\ wfifo \o more # <<>>
  <2>1. wfifo = <<Head(wfifo)>> \o Tail(wfifo)
    BY <1>1
  <2>2. <<Head(wfifo)>> \in Seq(Char)
    BY <1>4
  <2>3. wfifo \o more = <<Head(wfifo)>> \o (Tail(wfifo) \o more)
    BY <1>4, <1>6, <2>1, <2>2, ConcatAssociative
  <2> QED
    BY <1>4, <1>6, <2>3
<1> QED
  BY <1>1, <1>7, <1>8 DEF Stream!Deliver

(* A step of the system is a step of the stream, or none.                  *)
LEMMA StreamStep ==
    ASSUME DriverTypeOK, TokenInv, NextCharInv, [Next]_vars
    PROVE  [Stream!StreamNext]_(Stream!streamVars)
<1>1. CASE WriteSync \/ WriteDirect \/ WriteRing
  BY <1>1, DirectAccepts, RingAccepts DEF Stream!StreamNext
<1>2. CASE DriverHostReceive
  BY <1>2, HostDelivers DEF Stream!StreamNext
<1>3. CASE WriteRegister \/ IsrTxNext
  BY <1>3, RegisterKeepsPath, NextKeepsPath DEF Stream!streamVars
<1>4. CASE DriverHostSend
  BY <1>4 DEF DriverHostSend, HostSend, DriverUnchanged, uartRegs, ringVars, appVars, histVars,
              Stream!streamVars, TxPath, Thr, TxRing
<1>5. CASE UNCHANGED vars
  BY <1>5 DEF vars, uartVars, uartRegs, ringVars, appVars, histVars,
              Stream!streamVars, TxPath, Thr, TxRing
<1>6. CASE InitStep \/ WriteTest \/ WritePoll \/ WriteRestore \/ ReadStep \/ SyncStep \/ AppCall
  BY <1>6, IdleSteps, IdleStutters DEF Stream!streamVars
<1>7. CASE IsrEnter \/ IsrReadStat \/ IsrClear \/ IsrRx \/ IsrTxIdle \/ IsrAck \/ IsrEret \/ Stall
  BY <1>7, IdleSteps, IdleStutters DEF Stream!streamVars
<1> QED
  BY <1>1, <1>2, <1>3, <1>4, <1>5, <1>6, <1>7 DEF Next, AppStep, WriteStep, Isr

(* uart_write always holds the character after the last one accepted. *)
LEMMA NextCharStep ==
    ASSUME NextCharInv, [Next]_vars
    PROVE  NextCharInv'
<1> USE DEF NextCharInv, App, Goto, appVars, histVars
<1>1. CASE InitStep
  BY <1>1 DEF InitStep, InitIE, InitVars, InitAck, InitStatRead, InitStatWrite, InitCtrl, InitMask
<1>2. CASE WriteStep
  BY <1>2 DEF WriteStep, WriteSync, WriteDirect, WriteTest, WriteRing, WriteRegister, WritePoll,
              WriteRestore
<1>3. CASE ReadStep \/ SyncStep
  BY <1>3 DEF ReadStep, ReadChar, ReadAdvance, SyncStep, ForceSyncSet, RebootMask, RebootIE,
              RebootWriteId
<1>4. CASE AppCall
  BY <1>4 DEF AppCall, WriteCall, ReadCall, ForceSyncOn, ForceSyncOff, RebootCall
<1>5. CASE Isr
  BY <1>5 DEF Isr, IsrEnter, IsrReadStat, IsrClear, IsrRx, IsrTxIdle, IsrTxNext, IsrAck, IsrEret, IsrAt
<1>6. CASE Stall \/ DriverHostReceive \/ DriverHostSend \/ UNCHANGED vars
  BY <1>6 DEF Stall, DriverHostReceive, DriverHostSend, DriverUnchanged, vars
<1> QED
  BY <1>1, <1>2, <1>3, <1>4, <1>5, <1>6 DEF Next, AppStep

(* At the points where uart_write decides it holds the next character. *)
LEMMA NextCharCorrect == Spec => []NextCharInv
<1>1. Init => NextCharInv
  BY DEF Init, NextCharInv
<1>2. NextCharInv /\ [Next]_vars => NextCharInv'
  BY NextCharStep
<1> QED
  BY <1>1, <1>2, PTL DEF Spec

(* Nothing is on its way after reset. *)
LEMMA StreamStart ==
    ASSUME Init
    PROVE  Stream!StreamInit
<1>1. TxRing = <<>>
  <2>1. tx_produce = 0 /\ tx_consume = 0 /\ 0 \in 0..RingSizeTX-1
    BY RingAssumption DEF Init
  <2> QED
    BY <2>1, RingEmpty, RingAssumption DEF TxRing
<1>2. wfifo = <<>> /\ Thr = <<>> /\ hostRx = <<>> /\ sent = 0 /\ txDropped = {} /\ pc = "init_ie"
  BY DEF Init, UartInit, Thr
<1>3. TxPath = ((<<>> \o <<>>) \o <<>>) \o <<>>
  BY <1>1, <1>2 DEF TxPath
<1>4. TxPath = <<>>
  BY <1>3, ConcatEmptySeq
<1> QED
  BY <1>2, <1>4 DEF Stream!StreamInit

(* uart_write, the ring, uart_isr, the core and its FIFO do, step by step, *)
(* what ByteStream allows: the safety half of TxRefinesStream.             *)
THEOREM TxStepsRefineStream ==
    Spec => Stream!StreamInit /\ [][Stream!StreamNext]_(Stream!streamVars)
<1>1. Init => Stream!StreamInit
  BY StreamStart
<1>2. IInv /\ NextCharInv /\ [Next]_vars => [Stream!StreamNext]_(Stream!streamVars)
  BY StreamStep DEF IInv
<1> QED
  BY <1>1, <1>2, TokenCorrect, NextCharCorrect, PTL DEF Spec
-----------------------------------------------------------------------------
(* What a ByteStream delivers, seen from the driver: every step of it      *)
(* keeps the stream whole but for what has been discarded.                 *)
DroppedInv == txDropped \subseteq 0..sent
TxDelivers(others) == Delivers(hostRx \o TxPath, sent, txDropped, others)

(* An accepted character comes last. *)
LEMMA AcceptDelivers ==
    ASSUME DriverTypeOK, NEW others \in SUBSET {0}, TxDelivers(others), DroppedInv, Stream!Accept
    PROVE  TxDelivers(others)' /\ DroppedInv'
<1> DEFINE s == hostRx \o TxPath
<1>1. /\ sent' = sent + 1 /\ TxPath' = Append(TxPath, sent') /\ hostRx' = hostRx
      /\ txDropped' = txDropped /\ sent \in Nat
  BY DEF Stream!Accept, DriverTypeOK, DriverVarsOK
<1>2. hostRx \in Seq(Nat) /\ TxPath \in Seq(Nat) /\ s \in Seq(Nat)
  BY PathType, ConcatProperties DEF Char
<1>3. Delivers(Append(s, sent + 1), sent + 1, txDropped, others)
  <2>1. Delivers(s, sent, txDropped, others) /\ txDropped \in SUBSET (0..sent)
    BY DEF TxDelivers, DroppedInv
  <2> HIDE DEF s
  <2> QED
    BY <1>1, <1>2, <2>1, DeliversMore
<1>4. hostRx \o Append(TxPath, sent + 1) = Append(s, sent + 1)
  BY <1>1, <1>2
<1>5. DroppedInv'
  BY <1>1 DEF DroppedInv
<1>6. hostRx' \o TxPath' = Append(s, sent + 1)
  BY <1>1, <1>4
<1> HIDE DEF s
<1> QED
  BY <1>1, <1>3, <1>5, <1>6 DEF TxDelivers

(* A sequence in two stretches. *)
LEMMA SplitSeq ==
    ASSUME NEW s \in Seq(Nat), NEW k \in 0..Len(s)
    PROVE  LET a == SubSeq(s, 1, k)
               b == SubSeq(s, k + 1, Len(s)) IN
           /\ a \in Seq(Nat) /\ b \in Seq(Nat) /\ a \o b = s
           /\ Len(b) = Len(s) - k /\ \A i \in 1..Len(b) : b[i] = s[k + i]
<1> DEFINE a == SubSeq(s, 1, k)
           b == SubSeq(s, k + 1, Len(s))
<1>1. Len(s) \in Nat /\ \A i \in 1..Len(s) : s[i] \in Nat
  OBVIOUS
<1>2. a \in Seq(Nat)
  BY <1>1, SubSeqProperties
<1>3. /\ b \in Seq(Nat) /\ Len(b) = Len(s) - k
      /\ \A i \in 1..Len(b) : b[i] = s[k + i]
  <2> DEFINE m == k + 1
             n == Len(s)
  <2>1. m \in Int /\ n \in Int /\ \A i \in m..n : s[i] \in Nat
    BY <1>1
  <2>2. (IF m <= n THEN n - m + 1 ELSE 0) = n - k /\ n - m + 1 = n - k
    BY <1>1
  <2>3. \A i \in 1..n-k : m + i - 1 = k + i
    BY <1>1
  <2>4. b = SubSeq(s, m, n)
    OBVIOUS
  <2> HIDE DEF m, b
  <2>5. b \in Seq(Nat) /\ Len(b) = n - k /\ \A i \in 1..n-k : b[i] = s[m + i - 1]
    BY <2>1, <2>2, <2>4, SubSeqProperties, SMTT(30)
  <2> QED
    BY <2>3, <2>5
<1>4. a \o b = SubSeq(s, 1, Len(s))
  <2>1. 1 \in 1..Len(s)+1 /\ k \in 1-1..Len(s) /\ Len(s) \in k..Len(s)
    BY <1>1
  <2> QED
    BY <2>1, ConcatAdjacentSubSeq
<1>5. SubSeq(s, 1, Len(s)) = s
  BY SubSeqFull
<1> QED
  BY <1>2, <1>3, <1>4, <1>5

(* An overflow cuts the end off. *)
LEMMA OverflowDelivers ==
    ASSUME DriverTypeOK, NEW others \in SUBSET {0}, TxDelivers(others), DroppedInv, Stream!Overflow
    PROVE  TxDelivers(others)' /\ DroppedInv'
<1> DEFINE s == hostRx \o TxPath
           kept == Len(TxPath) - (RingSizeTX - 1)
           keep == SubSeq(TxPath, 1, kept)
           cut == SubSeq(TxPath, kept + 1, Len(TxPath))
           gone == Append(cut, sent + 1)
<1>1. /\ kept >= 0 /\ kept <= Len(TxPath) /\ kept \in Nat
      /\ sent' = sent + 1 /\ TxPath' = keep /\ hostRx' = hostRx /\ sent \in Nat
      /\ txDropped' = txDropped \cup {TxPath[i] : i \in kept+1..Len(TxPath)} \cup {sent + 1}
  <2>1. TxPath \in Seq(Char) /\ RingSizeTX \in Nat \ {0}
    BY PathType, RingAssumption
  <2> QED
    BY <2>1 DEF Stream!Overflow, DriverTypeOK, DriverVarsOK
<1>2. hostRx \in Seq(Nat) /\ TxPath \in Seq(Nat) /\ s \in Seq(Nat)
  BY PathType, ConcatProperties DEF Char
<1>3. Delivers(s, sent, txDropped, others) /\ txDropped \in SUBSET (0..sent)
  BY DEF TxDelivers, DroppedInv
<1> HIDE DEF kept
<1>4. /\ keep \in Seq(Nat) /\ cut \in Seq(Nat) /\ keep \o cut = TxPath
      /\ Len(cut) = Len(TxPath) - kept /\ \A i \in 1..Len(cut) : cut[i] = TxPath[kept + i]
  <2>1. kept \in 0..Len(TxPath)
    BY <1>1, <1>2
  <2> QED
    BY <1>2, <2>1, SplitSeq
<1> HIDE DEF keep, cut
<1>5. gone \in Seq(Nat)
  BY <1>1, <1>4
<1>6. Range(gone) = {TxPath[i] : i \in kept+1..Len(TxPath)} \cup {sent + 1}
  <2>1. Range(gone) = Range(cut) \cup {sent + 1}
    BY <1>1, <1>4, RangeAppend
  <2>2. Range(cut) = {cut[i] : i \in 1..Len(cut)}
    BY <1>4, RangeEquality
  <2>3. \A i \in kept+1..Len(TxPath) : i - kept \in 1..Len(cut) /\ kept + (i - kept) = i
    BY <1>1, <1>2, <1>4
  <2>4. \A i \in 1..Len(cut) : kept + i \in kept+1..Len(TxPath) /\ cut[i] = TxPath[kept + i]
    <3>1. Len(TxPath) \in Nat
      BY <1>2
    <3> QED
      BY <1>1, <1>4, <3>1
  <2> QED
    BY <2>1, <2>2, <2>3, <2>4
<1>7. Append(s, sent + 1) = ((hostRx \o keep) \o gone) \o <<>>
  <2>0. sent + 1 \in Nat
    BY <1>1
  <2>1. gone = cut \o <<sent + 1>> /\ <<sent + 1>> \in Seq(Nat)
    BY <1>4, <2>0, AppendIsConcat
  <2>2. Append(s, sent + 1) = s \o <<sent + 1>>
    BY <1>1, <1>2, AppendIsConcat
  <2> DEFINE last == <<sent + 1>>
  <2> HIDE DEF gone, last
  <2>3. s = (hostRx \o keep) \o cut
    <3>1. (hostRx \o keep) \o cut = hostRx \o (keep \o cut)
      <4>1. hostRx \in Seq(Nat) /\ keep \in Seq(Nat) /\ cut \in Seq(Nat)
        BY <1>2, <1>4
      <4> QED
        BY <4>1, ConcatAssociative
    <3> QED
      BY <1>4, <3>1 DEF s
  <2>4. hostRx \o keep \in Seq(Nat)
    BY <1>2, <1>4, ConcatProperties
  <2>5. \A u \in Seq(Nat) : (u \o cut) \o last = u \o (cut \o last)
    <3>1. last \in Seq(Nat)
      BY <2>1 DEF last
    <3>2. \A u \in Seq(Nat) : Cat(Cat(u, cut), last) = Cat(u, Cat(cut, last))
      BY <1>4, <3>1, CatAssociative
    <3> QED
      BY <3>2 DEF Cat
  <2>6. \A u \in Seq(Nat) : u \o gone \in Seq(Nat)
    BY <1>5, ConcatProperties
  <2>7. (hostRx \o keep) \o gone = ((hostRx \o keep) \o gone) \o <<>>
    BY <2>4, <2>6, ConcatEmptySeq
  <2> QED
    BY <2>1, <2>2, <2>3, <2>4, <2>5, <2>7 DEF last
<1> HIDE DEF s, gone
<1>8. Delivers(Append(s, sent + 1), sent + 1, txDropped, others)
  BY <1>1, <1>2, <1>3, DeliversMore
<1>9. hostRx \o keep \in Seq(Nat) /\ <<>> \in Seq(Nat) /\ sent + 1 \in Nat
  BY <1>1, <1>2, <1>4, ConcatProperties
<1>10. Delivers((hostRx \o keep) \o <<>>, sent + 1, txDropped \cup Range(gone), others)
  BY <1>5, <1>7, <1>8, <1>9, DeliversCut
<1>11. (hostRx \o keep) \o <<>> = hostRx \o keep
  BY <1>9, ConcatEmptySeq
<1>12. txDropped' = txDropped \cup Range(gone)
  BY <1>1, <1>6
<1>13. {TxPath[i] : i \in kept+1..Len(TxPath)} \subseteq 0..sent
  <2>1. \A i \in kept+1..Len(TxPath) : TxPath[i] \in Range(s)
    <3> TAKE i \in kept+1..Len(TxPath)
    <3> DEFINE k == Len(hostRx) + i
    <3>1. Len(s) = Len(hostRx) + Len(TxPath) /\ Len(hostRx) \in Nat /\ Len(TxPath) \in Nat
      BY <1>2 DEF s
    <3>2. k \in 1..Len(s) /\ k - Len(hostRx) = i /\ ~(k <= Len(hostRx))
      BY <1>1, <3>1
    <3> HIDE DEF k
    <3>3. s[k] = TxPath[i]
      BY <1>2, <3>1, <3>2, ConcatProperties DEF s
    <3> QED
      BY <1>2, <3>2, <3>3, RangeEquality
  <2>2. Range(s) \subseteq (1..sent) \cup {0}
    BY <1>3 DEF Delivers
  <2> QED
    BY <1>1, <2>1, <2>2
<1>14. txDropped' \subseteq 0..sent'
  <2> DEFINE new == {TxPath[i] : i \in kept+1..Len(TxPath)}
  <2>1. sent \in Nat /\ txDropped \subseteq 0..sent /\ new \subseteq 0..sent /\ sent' = sent + 1
        /\ txDropped' = txDropped \cup new \cup {sent + 1}
    BY <1>1, <1>3, <1>13
  <2> HIDE DEF new
  <2> QED
    BY <2>1
<1>15. hostRx' \o TxPath' = hostRx \o keep
  BY <1>1
<1>16. TxDelivers(others)'
  BY <1>1, <1>10, <1>11, <1>12, <1>15 DEF TxDelivers
<1> QED
  BY <1>14, <1>16 DEF DroppedInv

(* A delivery moves the boundary between delivered and waiting. *)
LEMMA DeliverDelivers ==
    ASSUME DriverTypeOK, NEW others \in SUBSET {0}, TxDelivers(others), DroppedInv, Stream!Deliver
    PROVE  TxDelivers(others)' /\ DroppedInv'
<1>1. /\ TxPath # <<>> /\ hostRx' = Append(hostRx, Head(TxPath)) /\ TxPath' = Tail(TxPath)
      /\ sent' = sent /\ txDropped' = txDropped
  BY DEF Stream!Deliver
<1>2. hostRx \in Seq(Nat) /\ TxPath \in Seq(Nat)
  BY PathType DEF Char
<1> DEFINE h == <<Head(TxPath)>>
           t == Tail(TxPath)
<1>3. h \in Seq(Nat) /\ t \in Seq(Nat) /\ TxPath = h \o t
  BY <1>1, <1>2
<1>4. hostRx' = hostRx \o h
  BY <1>1, <1>2, AppendIsConcat
<1> HIDE DEF h, t
<1>5. (hostRx \o h) \o t = hostRx \o TxPath
  BY <1>2, <1>3, ConcatAssociative, SMTT(30)
<1> QED
  BY <1>1, <1>4, <1>5 DEF t, TxDelivers, DroppedInv

(* Every step of the stream keeps it whole. *)
LEMMA StreamKeeps ==
    ASSUME DriverTypeOK, NEW others \in SUBSET {0}, TxDelivers(others), DroppedInv,
           [Stream!StreamNext]_(Stream!streamVars)
    PROVE  TxDelivers(others)' /\ DroppedInv'
<1>1. CASE Stream!StreamNext
  BY <1>1, AcceptDelivers, OverflowDelivers, DeliverDelivers DEF Stream!StreamNext
<1>2. CASE UNCHANGED Stream!streamVars
  BY <1>2 DEF Stream!streamVars, TxDelivers, DroppedInv
<1> QED
  BY <1>1, <1>2

(* The transmit path neither loses, duplicates nor reorders a character,   *)
(* whatever uart_write, uart_isr and the core do to it between each        *)
(* other's steps, but for those a full ring discards.                      *)
THEOREM TxStreamCorrect == Spec => []TxStream
<1>1. Init => TxDelivers({}) /\ DroppedInv
  <2> SUFFICES ASSUME Init PROVE TxDelivers({}) /\ DroppedInv
    OBVIOUS
  <2>1. hostRx = <<>> /\ TxPath = <<>> /\ sent = 0 /\ txDropped = {}
    BY StreamStart DEF Stream!StreamInit
  <2>2. hostRx \o TxPath = <<>>
    BY <2>1, ConcatEmptySeq
  <2> QED
    BY <2>1, <2>2 DEF TxDelivers, Delivers, DroppedInv, Range
<1>2. IInv /\ NextCharInv /\ TxDelivers({}) /\ DroppedInv /\ [Next]_vars => TxDelivers({})' /\ DroppedInv'
  BY StreamStep, StreamKeeps DEF IInv
<1>3. TxDelivers({}) => TxStream
  BY DEF TxDelivers, TxStream
<1> QED
  BY <1>1, <1>2, <1>3, TokenCorrect, NextCharCorrect, PTL DEF Spec
-----------------------------------------------------------------------------
(* The receive path: along the way from the host to uart_read no character *)
(* is ever behind a later one.  In the ring the slots are in order from    *)
(* rx_produce on, whether they hold characters or left-overs.              *)
FeedInv ==
    /\ rx_reg <= jtag_q /\ jtag_q <= hostTx
    /\ \A i \in 1..Len(rfifo) : jtag_q <= rfifo[i] /\ rfifo[i] <= hostTx
    /\ \A i, j \in 1..Len(rfifo) : i < j => rfifo[i] <= rfifo[j]

SlotsInv ==
    /\ pc \in InitPcs => rx_produce = 0 /\ rx_consume = 0
    /\ \A k \in 0..RingSizeRX-1 :
         /\ rx_buf[k] <= rx_reg
         /\ NextRX(k) # rx_produce => rx_buf[k] <= rx_buf[NextRX(k)]

GotInv ==
    /\ RxOrdered
    /\ pc = "r_adv" => ch <= rx_buf[rx_consume]
    /\ \A i \in 1..Len(got) :
         /\ got[i] <= rx_reg
         /\ pc = "r_adv" => got[i] <= ch
         /\ rx_consume # rx_produce => got[i] <= rx_buf[rx_consume]

OrderInv == FeedInv /\ SlotsInv /\ GotInv

(* An edge moves characters on, never one past another.                    *)
LEMMA FeedClock ==
    ASSUME UartTypeOK, FeedInv, NEW w, Clock(w)
    PROVE  FeedInv' /\ rx_reg <= rx_reg'
<1>1. /\ rx_reg \in Nat /\ jtag_q \in Nat /\ hostTx \in Nat /\ rfifo \in Seq(Nat)
      /\ hostTx' = hostTx /\ Len(rfifo) \in Nat
      /\ \A i \in 1..Len(rfifo) : rfifo[i] \in Nat
  BY DEF UartTypeOK, Char, Clock
<1>2. rx_reg' = (IF jtag_rd THEN jtag_q ELSE rx_reg)
  BY DEF Clock, ClockRx
<1>3. CASE read_jtag
  <2>1. /\ rx_reg' = rx_reg /\ jtag_q' = Head(rfifo) /\ rfifo' = Tail(rfifo) /\ rfifo # <<>>
    BY <1>2, <1>3 DEF Clock, ClockRx, read_jtag
  <2>2. /\ Head(rfifo) = rfifo[1] /\ 1 \in 1..Len(rfifo) /\ Len(rfifo') = Len(rfifo) - 1
        /\ \A i \in 1..Len(rfifo') : rfifo'[i] = rfifo[i + 1] /\ i + 1 \in 1..Len(rfifo)
    BY <1>1, <2>1
  <2>3. \A i \in 1..Len(rfifo') : 1 < i + 1
    BY <1>1, <2>2
  <2>4. \A i \in 1..Len(rfifo') : jtag_q' <= rfifo'[i] /\ rfifo'[i] <= hostTx'
    BY <1>1, <2>1, <2>2, <2>3 DEF FeedInv
  <2>5. \A i, j \in 1..Len(rfifo') : i < j => rfifo'[i] <= rfifo'[j]
    <3> TAKE i, j \in 1..Len(rfifo')
    <3> HAVE i < j
    <3> DEFINE k == i + 1
               l == j + 1
    <3>1. k \in 1..Len(rfifo) /\ l \in 1..Len(rfifo) /\ k < l
      BY <1>1, <2>2
    <3>2. rfifo'[i] = rfifo[k] /\ rfifo'[j] = rfifo[l]
      BY <2>2
    <3> HIDE DEF k, l
    <3> QED
      BY <3>1, <3>2 DEF FeedInv
  <2>6. rx_reg' <= jtag_q' /\ jtag_q' <= hostTx'
    BY <1>1, <2>1, <2>2 DEF FeedInv
  <2> QED
    BY <1>1, <2>1, <2>4, <2>5, <2>6 DEF FeedInv
<1>4. CASE ~read_jtag
  <2>1. jtag_q' = jtag_q /\ rfifo' = rfifo
    BY <1>4 DEF Clock, ClockRx
  <2> QED
    BY <1>1, <1>2, <2>1 DEF FeedInv
<1> QED
  BY <1>3, <1>4

(* Nor does any step of the whole. *)
LEMMA FeedStep ==
    ASSUME DriverTypeOK, FeedInv, [Next]_vars
    PROVE  FeedInv' /\ rx_reg <= rx_reg'
<1>1. UartTypeOK /\ rx_reg \in Nat
  BY DEF DriverTypeOK, UartTypeOK, Char
<1>2. CASE HostReceive \/ UNCHANGED vars
  BY <1>1, <1>2 DEF HostReceive, uartRegs, vars, uartVars, FeedInv
<1>3. CASE HostSend
  <2>1. /\ hostTx \in Nat /\ hostTx' = hostTx + 1 /\ rfifo' = Append(rfifo, hostTx')
        /\ UNCHANGED <<rx_reg, jtag_q>> /\ jtag_q \in Nat /\ rfifo \in Seq(Nat)
    BY <1>3 DEF HostSend, uartRegs, DriverTypeOK, UartTypeOK, Char
  <2>2. /\ Len(rfifo') = Len(rfifo) + 1 /\ Len(rfifo) \in Nat /\ rfifo'[Len(rfifo) + 1] = hostTx + 1
        /\ \A i \in 1..Len(rfifo) : rfifo'[i] = rfifo[i] /\ rfifo[i] \in Nat
    BY <2>1
  <2>3. \A i \in 1..Len(rfifo') : i \in 1..Len(rfifo) \/ i = Len(rfifo) + 1
    BY <2>2
  <2>4. \A i \in 1..Len(rfifo') : jtag_q' <= rfifo'[i] /\ rfifo'[i] <= hostTx'
    BY <2>1, <2>2, <2>3 DEF FeedInv
  <2>5. \A i, j \in 1..Len(rfifo') : i < j => rfifo'[i] <= rfifo'[j]
    <3> TAKE i, j \in 1..Len(rfifo')
    <3> HAVE i < j
    <3>1. i \in 1..Len(rfifo)
      BY <2>2
    <3>2. CASE j \in 1..Len(rfifo)
      BY <2>2, <3>1, <3>2 DEF FeedInv
    <3>3. CASE j = Len(rfifo) + 1
      BY <2>1, <2>2, <3>1, <3>3 DEF FeedInv
    <3> QED
      BY <2>3, <3>2, <3>3
  <2> QED
    BY <1>1, <2>1, <2>4, <2>5 DEF FeedInv
<1>4. CASE Next /\ ~HostReceive /\ ~HostSend
  <2>1. PICK w : Clock(w)
    BY <1>4, StepShape
  <2> QED
    BY <1>1, <2>1, FeedClock
<1> QED
  BY <1>2, <1>3, <1>4

(* The steps that leave the ring and uart_read alone.  uart_init's reset   *)
(* is one: the ring has not been used yet.                                 *)
RxQuiet ==
    /\ UNCHANGED <<rx_buf, rx_produce, rx_consume, got>>
    /\ pc' = "r_adv" => pc = "r_adv" /\ ch' = ch
    /\ pc' \in InitPcs => pc \in InitPcs

(* Which those are. *)
LEMMA RxQuietSteps ==
    ASSUME DriverTypeOK, SlotsInv, [Next]_vars, ~ReadChar, ~ReadAdvance, ~(IsrRx /\ "RX_EVT" \in stat)
    PROVE  RxQuiet
<1> USE DEF RxQuiet, InitPcs, App, Goto, ringVars, appVars, histVars
<1>1. CASE InitStep
  <2>1. CASE InitVars
    BY <2>1 DEF InitVars, SlotsInv
  <2> QED
    BY <1>1, <2>1 DEF InitStep, InitIE, InitAck, InitStatRead, InitStatWrite, InitCtrl, InitMask
<1>2. CASE WriteStep
  BY <1>2 DEF WriteStep, WriteSync, WriteDirect, WriteTest, WriteRing, WriteRegister, WritePoll,
              WriteRestore
<1>3. CASE ReadStep \/ SyncStep
  BY <1>3 DEF ReadStep, SyncStep, ForceSyncSet, RebootMask, RebootIE, RebootWriteId
<1>4. CASE AppCall
  BY <1>4 DEF AppCall, WriteCall, ReadCall, ForceSyncOn, ForceSyncOff, RebootCall
<1>5. CASE Isr
  BY <1>5 DEF Isr, IsrEnter, IsrReadStat, IsrClear, IsrRx, IsrTxIdle, IsrTxNext, IsrAck, IsrEret, IsrAt
<1>6. CASE Stall \/ DriverHostReceive \/ DriverHostSend \/ UNCHANGED vars
  BY <1>6 DEF Stall, DriverHostReceive, DriverHostSend, DriverUnchanged, vars
<1> QED
  BY <1>1, <1>2, <1>3, <1>4, <1>5, <1>6 DEF Next, AppStep

(* The types of the receive path, spelled out. *)
LEMMA RxTypes ==
    ASSUME DriverTypeOK
    PROVE  /\ RingSizeRX \in Nat \ {0} /\ rx_buf \in [0..RingSizeRX-1 -> Nat]
           /\ rx_produce \in 0..RingSizeRX-1 /\ rx_consume \in 0..RingSizeRX-1
           /\ NextRX(rx_produce) \in 0..RingSizeRX-1 /\ NextRX(rx_consume) \in 0..RingSizeRX-1
           /\ got \in Seq(Nat) /\ Len(got) \in Nat /\ DOMAIN got = 1..Len(got)
           /\ \A i \in 1..Len(got) : got[i] \in Nat
           /\ ch \in Nat /\ rx_reg \in Nat /\ jtag_q \in Nat /\ rfifo \in Seq(Nat) /\ hostTx \in Nat
<1>1. /\ RingSizeRX \in Nat \ {0} /\ rx_buf \in [0..RingSizeRX-1 -> Nat]
      /\ rx_produce \in 0..RingSizeRX-1 /\ rx_consume \in 0..RingSizeRX-1 /\ got \in Seq(Nat)
      /\ ch \in Nat /\ rx_reg \in Nat /\ jtag_q \in Nat /\ rfifo \in Seq(Nat) /\ hostTx \in Nat
  BY RingAssumption DEF DriverTypeOK, DriverVarsOK, UartTypeOK, Char
<1>2. NextRX(rx_produce) \in 0..RingSizeRX-1 /\ NextRX(rx_consume) \in 0..RingSizeRX-1
  BY <1>1, NextInRing DEF NextRX
<1>3. ASSUME NEW s \in Seq(Nat)
      PROVE  Len(s) \in Nat /\ DOMAIN s = 1..Len(s) /\ \A i \in 1..Len(s) : s[i] \in Nat
  OBVIOUS
<1>4. Len(got) \in Nat /\ DOMAIN got = 1..Len(got) /\ \A i \in 1..Len(got) : got[i] \in Nat
  BY <1>1, <1>3, Zenon
<1> QED
  BY <1>1, <1>2, <1>4, Zenon

(* uart_isr stores a character that is not before any other in the ring.   *)
LEMMA PushOrder ==
    ASSUME DriverTypeOK, OrderInv, IsrRx, "RX_EVT" \in stat, rx_reg <= rx_reg', rx_reg' \in Nat,
           TokenInv
    PROVE  SlotsInv' /\ GotInv'
<1>1. /\ rx_buf' = [rx_buf EXCEPT ![rx_produce] = rx_reg] /\ rx_produce' = NextRX(rx_produce)
      /\ rx_consume' = rx_consume /\ pc' = pc /\ ch' = ch /\ got' = got /\ pc \notin InitPcs
  BY DEF IsrRx, RXTX, IsrAt, appVars, TokenInv, MaskInv
<1> DEFINE N == RingSizeRX
           b == rx_buf'
<1>2. /\ b \in [0..N-1 -> Nat] /\ b[rx_produce] = rx_reg
      /\ \A k \in 0..N-1 : k # rx_produce => b[k] = rx_buf[k]
  BY <1>1, RxTypes
<1>3. /\ rx_produce \in 0..N-1 /\ rx_consume \in 0..N-1 /\ rx_reg \in Nat
      /\ \A k \in 0..N-1 : rx_buf[k] \in Nat /\ NextRX(k) \in 0..N-1
  BY RxTypes, NextInRing DEF NextRX
<1> HIDE DEF b, N
<1>4. \A k \in 0..N-1 : b[k] <= rx_reg'
  <2> TAKE k \in 0..N-1
  <2>1. rx_buf[k] <= rx_reg /\ rx_buf[k] \in Nat
    BY <1>3 DEF OrderInv, SlotsInv, N
  <2>2. b[k] = rx_buf[k] \/ b[k] = rx_reg
    BY <1>2
  <2> QED
    BY <1>3, <2>1, <2>2
<1>5. ASSUME NEW k \in 0..N-1, NextRX(k) # rx_produce' PROVE b[k] <= b[NextRX(k)]
  <2>1. k # rx_produce /\ b[k] = rx_buf[k] /\ rx_buf[k] <= rx_reg
    BY <1>1, <1>2, <1>5 DEF OrderInv, SlotsInv, N
  <2>2. CASE NextRX(k) = rx_produce
    BY <1>2, <2>1, <2>2
  <2>3. CASE NextRX(k) # rx_produce
    <3>1. b[NextRX(k)] = rx_buf[NextRX(k)]
      BY <1>2, <1>3, <2>3
    <3>2. rx_buf[k] <= rx_buf[NextRX(k)]
      BY <2>3 DEF OrderInv, SlotsInv, N
    <3> QED
      BY <2>1, <3>1, <3>2
  <2> QED
    BY <2>2, <2>3
<1>6. SlotsInv'
  <2>1. \A k \in 0..N-1 : NextRX(k)' = NextRX(k)
    BY DEF NextRX
  <2> QED
    BY <1>1, <1>4, <1>5, <2>1 DEF SlotsInv, b, N
<1>7. rx_buf[rx_consume] <= rx_reg
  BY <1>3 DEF OrderInv, SlotsInv, N
<1>8. pc = "r_adv" => ch <= b[rx_consume]
  <2>1. pc = "r_adv" => ch <= rx_buf[rx_consume]
    BY DEF OrderInv, GotInv
  <2>2. b[rx_consume] = rx_buf[rx_consume] \/ b[rx_consume] = rx_reg
    BY <1>2, <1>3
  <2>3. ch \in Nat /\ rx_reg \in Nat /\ rx_buf[rx_consume] \in Nat
    BY <1>3, RxTypes
  <2> QED
    BY <1>7, <2>1, <2>2, <2>3
<1>9. ASSUME NEW i \in 1..Len(got), rx_consume # rx_produce' PROVE got[i] <= b[rx_consume]
  <2>1. CASE rx_consume = rx_produce
    BY <1>2, <2>1 DEF OrderInv, GotInv
  <2>2. CASE rx_consume # rx_produce
    BY <1>2, <1>3, <2>2 DEF OrderInv, GotInv
  <2> QED
    BY <2>1, <2>2
<1>10. ASSUME NEW i \in 1..Len(got) PROVE got[i] <= rx_reg' /\ (pc = "r_adv" => got[i] <= ch)
  BY RxTypes, SMTT(30) DEF OrderInv, GotInv
<1>11. RxOrdered'
  BY <1>1 DEF OrderInv, GotInv, RxOrdered
<1> QED
  BY <1>1, <1>6, <1>8, <1>9, <1>10, <1>11 DEF GotInv, b

(* uart_read returns what it has taken from the ring, and goes on to the   *)
(* next slot: whatever that holds by then is not an earlier character.     *)
LEMMA AdvanceOrder ==
    ASSUME DriverTypeOK, OrderInv, ReadAdvance, rx_reg <= rx_reg', rx_reg' \in Nat
    PROVE  SlotsInv' /\ GotInv'
<1> DEFINE N == RingSizeRX
           d == NextRX(rx_consume)
           n == Len(got)
<1>1. /\ UNCHANGED <<rx_buf, rx_produce>> /\ rx_consume' = d /\ got' = Append(got, ch)
      /\ pc = "r_adv" /\ pc' = "run"
  BY DEF ReadAdvance, App, Goto
<1>2. /\ d \in 0..N-1 /\ rx_consume \in 0..N-1 /\ \A k \in 0..N-1 : rx_buf[k] \in Nat
      /\ n \in Nat /\ DOMAIN got = 1..n
  BY RxTypes
<1>3. /\ got' \in Seq(Nat) /\ Len(got') = n + 1 /\ got'[n + 1] = ch
      /\ \A i \in 1..n : got'[i] = got[i]
      /\ DOMAIN got' = 1..n+1
  BY <1>1, RxTypes, AppendProperties
<1>4. ch <= rx_buf[rx_consume] /\ rx_buf[rx_consume] <= rx_reg
      /\ (d # rx_produce => rx_buf[rx_consume] <= rx_buf[d])
  BY <1>1, <1>2 DEF OrderInv, SlotsInv, GotInv
<1> HIDE DEF d, n
<1>5. \A i \in 1..n : got[i] <= ch /\ got[i] \in Nat
  BY <1>1, RxTypes DEF OrderInv, GotInv, n
<1>6. \A i \in 1..n+1 : got'[i] <= ch /\ got'[i] \in Nat
  <2> TAKE i \in 1..n+1
  <2>1. ch \in Nat /\ (i \in 1..n \/ i = n + 1)
    BY <1>2, RxTypes
  <2> QED
    BY <1>3, <1>5, <2>1
<1>7. \A i \in 1..n+1 : got'[i] <= rx_reg' /\ (d # rx_produce => got'[i] <= rx_buf[d])
  <2> TAKE i \in 1..n+1
  <2>1. ch \in Nat /\ rx_reg \in Nat
    BY RxTypes
  <2>2. got'[i] <= ch /\ got'[i] \in Nat
    BY <1>6
  <2>3. rx_buf[rx_consume] \in Nat /\ rx_buf[d] \in Nat
    BY <1>2
  <2> QED
    BY <1>4, <2>1, <2>2, <2>3
<1>8. RxOrdered'
  <2>1. ASSUME NEW i \in 1..n+1, NEW j \in 1..n+1, i < j PROVE got'[i] <= got'[j]
    <3>1. i \in 1..n /\ got'[i] = got[i] /\ (j \in 1..n \/ j = n + 1)
      BY <1>2, <1>3, <2>1
    <3>2. CASE j \in 1..n
      BY <1>2, <1>3, <2>1, <3>1, <3>2 DEF OrderInv, GotInv, RxOrdered
    <3>3. CASE j = n + 1
      BY <1>3, <1>6, <3>3
    <3> QED
      BY <3>1, <3>2, <3>3
  <2> QED
    BY <1>3, <2>1 DEF RxOrdered
<1>9. SlotsInv'
  <2>1. \A k \in 0..N-1 : rx_buf[k] <= rx_reg'
    <3>1. \A k \in 0..N-1 : rx_buf[k] <= rx_reg
      BY DEF OrderInv, SlotsInv
    <3>2. rx_reg \in Nat
      BY RxTypes
    <3> QED
      BY <1>2, <3>1, <3>2
  <2>2. \A k \in 0..N-1 : NextRX(k)' = NextRX(k)
    BY DEF NextRX
  <2> QED
    BY <1>1, <2>1, <2>2 DEF OrderInv, SlotsInv, InitPcs
<1> QED
  BY <1>1, <1>3, <1>7, <1>8, <1>9 DEF GotInv

(* Every step keeps the order. *)
LEMMA OrderStep ==
    ASSUME DriverTypeOK, TokenInv, OrderInv, [Next]_vars, DriverTypeOK'
    PROVE  OrderInv'
<1>1. FeedInv' /\ rx_reg <= rx_reg' /\ rx_reg' \in Nat
  BY FeedStep DEF OrderInv, DriverTypeOK, UartTypeOK, Char
<1>2. CASE IsrRx /\ "RX_EVT" \in stat
  BY <1>1, <1>2, PushOrder DEF OrderInv
<1>3. CASE ReadAdvance
  BY <1>1, <1>3, AdvanceOrder DEF OrderInv
<1>4. CASE ReadChar \/ RxQuiet
  <2>1. /\ UNCHANGED <<rx_buf, rx_produce, rx_consume, got>>
        /\ pc' \in InitPcs => pc \in InitPcs
        /\ pc' = "r_adv" => \/ pc = "r_adv" /\ ch' = ch
                            \/ rx_consume # rx_produce /\ ch' = rx_buf[rx_consume]
    BY <1>4 DEF ReadChar, RxQuiet, App, Goto, ringVars, histVars, InitPcs
  <2>2. /\ \A k \in 0..RingSizeRX-1 : rx_buf[k] \in Nat
        /\ \A i \in 1..Len(got) : got[i] \in Nat
        /\ rx_reg \in Nat
    BY RxTypes
  <2>3. \A k \in 0..RingSizeRX-1 : rx_buf[k] <= rx_reg'
    BY <1>1, <2>2 DEF OrderInv, SlotsInv
  <2>4. SlotsInv'
    <3>1. \A k \in 0..RingSizeRX-1 : NextRX(k)' = NextRX(k)
      BY DEF NextRX
    <3> QED
      BY <2>1, <2>3, <3>1 DEF OrderInv, SlotsInv
  <2>5. \A i \in 1..Len(got) : got[i] <= rx_reg'
    BY <1>1, <2>2 DEF OrderInv, GotInv
  <2>6. pc' = "r_adv" => ch' <= rx_buf[rx_consume]
    <3>1. rx_buf[rx_consume] \in Nat
      BY RxTypes
    <3> QED
      BY <2>1, <3>1 DEF OrderInv, GotInv
  <2>7. \A i \in 1..Len(got) : pc' = "r_adv" => got[i] <= ch'
    BY <2>1 DEF OrderInv, GotInv
  <2>8. GotInv'
    BY <2>1, <2>5, <2>6, <2>7 DEF OrderInv, GotInv, RxOrdered
  <2> QED
    BY <1>1, <2>4, <2>8 DEF OrderInv
<1> QED
  BY <1>1, <1>2, <1>3, <1>4, RxQuietSteps DEF OrderInv

(* The order holds always. *)
LEMMA OrderCorrect == Spec => []OrderInv
<1>1. Init => OrderInv
  <2> SUFFICES ASSUME Init PROVE OrderInv
    OBVIOUS
  <2>1. /\ rx_buf = [i \in 0..RingSizeRX-1 |-> 0] /\ rx_reg = 0 /\ jtag_q = 0 /\ hostTx = 0
        /\ rfifo = <<>> /\ got = <<>> /\ pc = "init_ie" /\ rx_produce = 0 /\ rx_consume = 0
    BY DEF Init, UartInit
  <2>2. \A k \in 0..RingSizeRX-1 : rx_buf[k] = 0 /\ NextRX(k) \in 0..RingSizeRX-1
    BY <2>1, NextInRing, RingAssumption DEF NextRX
  <2>3. Len(got) = 0 /\ Len(rfifo) = 0 /\ DOMAIN got = {}
    BY <2>1
  <2> QED
    BY <2>1, <2>2, <2>3 DEF OrderInv, FeedInv, SlotsInv, GotInv, RxOrdered
<1>2. IInv /\ OrderInv /\ [Next]_vars /\ IInv' => OrderInv'
  BY OrderStep DEF IInv
<1> QED
  BY <1>1, <1>2, TokenCorrect, PTL DEF Spec

(* No character is ever returned after a later one: not when the core      *)
(* replaced one before uart_isr had read it, and not when the ring ran     *)
(* over between the two steps of uart_read.                                *)
THEOREM RxOrderCorrect == Spec => []RxOrdered
<1>1. OrderInv => RxOrdered
  BY DEF OrderInv, GotInv
<1> QED
  BY <1>1, OrderCorrect, PTL
-----------------------------------------------------------------------------
(* The core asks its FIFO for no character while an event is pending, and  *)
(* an event that has been read from STAT stays until it is acknowledged.   *)
AckInv ==
    /\ jtag_rd => ~rx_event
    /\ (ipc = "clear" \/ pc = "init_stat2") /\ "RX_EVT" \in stat => rx_event

(* While nothing has gone wrong, the character of an acknowledged event is *)
(* the only one in the core's register, and what uart_read is about to     *)
(* take out of the ring is the oldest in it.                               *)
HeldInv ==
    rxFault = {} =>
      /\ ipc = "rx" /\ "RX_EVT" \in stat => ~rx_event
      /\ pc = "r_adv" => rx_consume # rx_produce /\ ch = rx_buf[rx_consume]

WholeInv ==
    rxFault = {} => RxStreamIntact /\ rxDropped \subseteq 1..hostTx

RxInv == AckInv /\ HeldInv /\ WholeInv

(* Every step keeps to the handshake of the receive event. *)
LEMMA AckStep ==
    ASSUME DriverTypeOK, TokenInv, AckInv, [Next]_vars
    PROVE  AckInv'
<1> USE DEF App, Goto, Cpu, Bus, appVars, isrVars
<1>1. jtag_rd \in BOOLEAN /\ rx_event \in BOOLEAN
  BY DEF DriverTypeOK, UartTypeOK
<1>2. \A w : Clock(w) => (jtag_rd' => ~rx_event')
  BY <1>1 DEF Clock, ClockRx, read_jtag
<1>3. \A w : Clock(w) /\ (w.reg # "STAT" \/ "RX_EVT" \notin w.bits) => (rx_event => rx_event')
  BY <1>1 DEF Clock, ClockRx
<1>4. NoWrite.reg # "STAT" /\ (\A bits : WriteCTRL(bits).reg # "STAT") /\ \A c : WriteRXTX(c).reg # "STAT"
  BY DEF NoWrite, WriteCTRL, WriteRXTX
<1> USE DEF AckInv
<1>5. CASE InitStep
  <2>1. CASE InitStatRead
    <3>1. "RX_EVT" \in stat' => rx_event
      BY <2>1 DEF InitStatRead, STAT
    <3> QED
      BY <1>2, <1>3, <1>4, <2>1, <3>1 DEF InitStatRead
  <2>2. CASE InitStatWrite
    BY <1>2, <2>2 DEF InitStatWrite
  <2> QED
    BY <1>2, <1>3, <1>4, <1>5, <2>1, <2>2 DEF InitStep, InitIE, InitVars, InitAck, InitCtrl, InitMask
<1>6. CASE WriteStep
  BY <1>2, <1>3, <1>4, <1>6 DEF WriteStep, WriteSync, WriteDirect, WriteTest, WriteRing, WriteRegister,
        WritePoll, WriteRestore
<1>7. CASE ReadStep \/ SyncStep
  BY <1>2, <1>3, <1>4, <1>7 DEF ReadStep, ReadChar, ReadAdvance, SyncStep, ForceSyncSet, RebootMask,
        RebootIE, RebootWriteId
<1>8. CASE AppCall
  BY <1>2, <1>3, <1>4, <1>8 DEF AppCall, WriteCall, ReadCall, ForceSyncOn, ForceSyncOff, RebootCall
<1>9. CASE Isr
  <2>1. CASE IsrReadStat
    <3>1. "RX_EVT" \in stat' => rx_event
      BY <2>1 DEF IsrReadStat, STAT
    <3> QED
      BY <1>2, <1>3, <1>4, <2>1, <3>1 DEF IsrReadStat, IsrAt
  <2>2. CASE IsrClear
    <3>1. pc # "init_stat2"
      BY <2>2 DEF IsrClear, IsrAt, TokenInv, MaskInv, InitPcs
    <3> QED
      BY <1>2, <1>3, <2>2, <3>1 DEF IsrClear, IsrAt, WriteSTAT
  <2>3. CASE IsrEnter \/ IsrRx \/ IsrTxIdle \/ IsrTxNext \/ IsrAck \/ IsrEret
    BY <1>2, <1>3, <1>4, <2>3 DEF IsrEnter, IsrRx, IsrTxIdle, IsrTxNext, IsrAck, IsrEret, IsrAt
  <2> QED
    BY <1>9, <2>1, <2>2, <2>3 DEF Isr
<1>10. CASE Stall
  BY <1>2, <1>3, <1>4, <1>10 DEF Stall
<1>11. CASE DriverHostReceive \/ DriverHostSend \/ UNCHANGED vars
  BY <1>11 DEF DriverHostReceive, HostReceive, DriverHostSend, HostSend, uartRegs, DriverUnchanged,
               vars, uartVars
<1> QED
  BY <1>5, <1>6, <1>7, <1>8, <1>9, <1>10, <1>11 DEF Next, AppStep

(* A fault stays. *)
LEMMA FaultStays ==
    ASSUME [Next]_vars, rxFault' = {}
    PROVE  rxFault = {}
<1> USE DEF histVars
<1>1. CASE InitStep
  BY <1>1 DEF InitStep, InitIE, InitVars, InitAck, InitStatRead, InitStatWrite, InitCtrl, InitMask
<1>2. CASE WriteStep
  BY <1>2 DEF WriteStep, WriteSync, WriteDirect, WriteTest, WriteRing, WriteRegister,
              WritePoll, WriteRestore
<1>3. CASE ReadStep \/ SyncStep
  BY <1>3 DEF ReadStep, ReadChar, ReadAdvance, SyncStep, ForceSyncSet, RebootMask,
              RebootIE, RebootWriteId
<1>4. CASE AppCall
  BY <1>4 DEF AppCall, WriteCall, ReadCall, ForceSyncOn, ForceSyncOff, RebootCall
<1>5. CASE Isr
  BY <1>5 DEF Isr, IsrEnter, IsrReadStat, IsrClear, IsrRx, IsrTxIdle, IsrTxNext, IsrAck, IsrEret
<1>6. CASE Stall \/ DriverHostReceive \/ DriverHostSend \/ UNCHANGED vars
  BY <1>6 DEF Stall, DriverHostReceive, DriverHostSend, DriverUnchanged, vars
<1> QED
  BY <1>1, <1>2, <1>3, <1>4, <1>5, <1>6 DEF Next, AppStep

(* As long as no fault is recorded. *)
LEMMA HeldStep ==
    ASSUME DriverTypeOK, TokenInv, SlotsInv, AckInv, HeldInv, [Next]_vars
    PROVE  HeldInv'
<1> SUFFICES ASSUME rxFault' = {}
             PROVE  /\ (ipc = "rx" /\ "RX_EVT" \in stat => ~rx_event)'
                    /\ (pc = "r_adv" => rx_consume # rx_produce /\ ch = rx_buf[rx_consume])'
  BY DEF HeldInv
<1>1. /\ rxFault = {}
      /\ ipc = "rx" /\ "RX_EVT" \in stat => ~rx_event
      /\ pc = "r_adv" => rx_consume # rx_produce /\ ch = rx_buf[rx_consume]
  BY FaultStays DEF HeldInv
<1>2. (ipc = "rx" /\ "RX_EVT" \in stat => ~rx_event)'
  <2> SUFFICES ASSUME ipc' = "rx", "RX_EVT" \in stat' PROVE ~rx_event'
    OBVIOUS
  <2>1. CASE IsrClear
    BY <2>1 DEF IsrClear, Bus, Clock, ClockRx, WriteSTAT
  <2>2. CASE Stall
    <3>1. ipc = "rx" /\ "RX_EVT" \in stat /\ ~jtag_rd
      BY <1>1, <2>2 DEF Stall, isrVars
    <3> QED
      BY <1>1, <2>2, <3>1 DEF Stall, Cpu, Bus, NoWrite, Clock, ClockRx
  <2>3. CASE DriverHostReceive \/ DriverHostSend \/ UNCHANGED vars
    BY <1>1, <2>3 DEF DriverHostReceive, HostReceive, DriverHostSend, HostSend, DriverUnchanged,
                      uartRegs, isrVars, vars, uartVars
  <2>4. CASE Isr /\ ~IsrClear
    BY <2>4 DEF Isr, IsrEnter, IsrReadStat, IsrRx, IsrTxIdle, IsrTxNext, IsrAck, IsrEret, IsrAt
  <2>5. CASE AppStep \/ AppCall
    <3>1. ipc = "none" /\ ipc' = ipc
      BY <2>5 DEF App, isrVars, AppStep, InitStep, InitIE, InitVars, InitAck, InitStatRead, InitStatWrite,
            InitCtrl, InitMask, WriteStep, WriteSync, WriteDirect, WriteTest, WriteRing, WriteRegister,
            WritePoll, WriteRestore, ReadStep, ReadChar, ReadAdvance, SyncStep, ForceSyncSet, RebootMask,
            RebootIE, RebootWriteId, AppCall, WriteCall, ReadCall, ForceSyncOn, ForceSyncOff, RebootCall
    <3> QED
      BY <3>1
  <2> QED
    BY <2>1, <2>2, <2>3, <2>4, <2>5 DEF Next
<1>3. (pc = "r_adv" => rx_consume # rx_produce /\ ch = rx_buf[rx_consume])'
  <2> SUFFICES ASSUME pc' = "r_adv" PROVE rx_consume' # rx_produce' /\ ch' = rx_buf'[rx_consume']
    OBVIOUS
  <2>1. CASE ReadChar
    BY <2>1 DEF ReadChar, App, Goto, ringVars
  <2>2. CASE ReadAdvance
    BY <2>2 DEF ReadAdvance, Goto
  <2>3. CASE IsrRx /\ "RX_EVT" \in stat
    <3>1. /\ rx_buf' = [rx_buf EXCEPT ![rx_produce] = rx_reg] /\ rx_produce' = NextRX(rx_produce)
          /\ rx_consume' = rx_consume /\ pc' = pc /\ ch' = ch
          /\ NextRX(rx_produce) = rx_consume /\ pc = "r_adv" => rxFault' # {}
      BY <2>3 DEF IsrRx, IsrAt, appVars, RXTX
    <3>2. pc = "r_adv" /\ rx_consume # rx_produce /\ ch = rx_buf[rx_consume] /\ rx_produce' # rx_consume
      BY <1>1, <3>1
    <3>3. rx_buf'[rx_consume] = rx_buf[rx_consume]
      BY <3>1, <3>2, RxTypes
    <3> QED
      BY <3>1, <3>2, <3>3
  <2>4. CASE RxQuiet
    BY <1>1, <2>4 DEF RxQuiet
  <2> QED
    BY <2>1, <2>2, <2>3, <2>4, RxQuietSteps
<1> QED
  BY <1>2, <1>3

(* The receive path as four stretches: what uart_read has returned, the    *)
(* ring, the character uart_isr has acknowledged and is about to store,    *)
(* and what the core and its FIFO hold.                                    *)
Acked == IF ipc = "rx" /\ "RX_EVT" \in stat THEN <<rx_reg>> ELSE <<>>
Latched == IF jtag_rd THEN <<jtag_q>> ELSE <<>>
Supply == Latched \o rfifo
InRegister == IF rx_event THEN <<rx_reg>> ELSE <<>>
Coming == InRegister \o Supply
RxLine == ((got \o RxRing) \o Acked) \o Coming

(* The stretches are sequences of characters. *)
LEMMA RxLineTypes ==
    ASSUME DriverTypeOK
    PROVE  /\ got \in Seq(Nat) /\ RxRing \in Seq(Nat) /\ Acked \in Seq(Nat) /\ Latched \in Seq(Nat)
           /\ rfifo \in Seq(Nat) /\ Supply \in Seq(Nat) /\ InRegister \in Seq(Nat) /\ Coming \in Seq(Nat)
<1>1. /\ got \in Seq(Nat) /\ rfifo \in Seq(Nat) /\ rx_reg \in Nat /\ jtag_q \in Nat
  BY RxTypes
<1>2. RxRing \in Seq(Nat)
  BY RingType, RingAssumption DEF RxRing, DriverTypeOK, DriverVarsOK, Char
<1>3. Acked \in Seq(Nat) /\ Latched \in Seq(Nat) /\ InRegister \in Seq(Nat)
  BY <1>1 DEF Acked, Latched, InRegister
<1>4. Supply \in Seq(Nat)
  BY <1>1, <1>3, CharSeqs DEF Supply
<1>5. Coming \in Seq(Nat)
  BY <1>3, <1>4, CharSeqs DEF Coming
<1> QED
  BY <1>1, <1>2, <1>3, <1>4, <1>5

(* Five sequences in a row, bracketed in two ways.                         *)
LEMMA Rebracket ==
    ASSUME NEW g \in Seq(Nat), NEW r \in Seq(Nat), NEW a \in Seq(Nat), NEW e \in Seq(Nat),
           NEW j \in Seq(Nat), NEW f \in Seq(Nat)
    PROVE  Cat(g, Cat(Cat(Cat(r, Cat(a, e)), j), f)) = Cat(Cat(Cat(g, r), a), Cat(e, Cat(j, f)))
<1>1. Cat(j, f) \in Seq(Nat) /\ Cat(e, Cat(j, f)) \in Seq(Nat)
      /\ Cat(a, Cat(e, Cat(j, f))) \in Seq(Nat) /\ Cat(a, e) \in Seq(Nat)
      /\ Cat(r, Cat(a, e)) \in Seq(Nat) /\ Cat(g, r) \in Seq(Nat)
  BY CatAssociative
<1>2. Cat(Cat(Cat(r, Cat(a, e)), j), f) = Cat(r, Cat(a, Cat(e, Cat(j, f))))
  BY <1>1, CatAssociative
<1>3. Cat(Cat(Cat(g, r), a), Cat(e, Cat(j, f))) = Cat(g, Cat(r, Cat(a, Cat(e, Cat(j, f)))))
  BY <1>1, CatAssociative
<1> QED
  BY <1>2, <1>3

(* The line is the path of the model. *)
LEMMA RxLineIs ==
    DriverTypeOK /\ (ipc = "rx" /\ "RX_EVT" \in stat => ~rx_event) => got \o RxPath = RxLine
<1> SUFFICES ASSUME DriverTypeOK, ipc = "rx" /\ "RX_EVT" \in stat => ~rx_event
             PROVE  got \o RxPath = RxLine
  OBVIOUS
<1> DEFINE held == IF RxHeld THEN <<rx_reg>> ELSE <<>>
<1>1. held = Acked \o InRegister
  <2>1. CASE ipc = "rx" /\ "RX_EVT" \in stat
    <3>1. held = <<rx_reg>> /\ Acked = <<rx_reg>> /\ InRegister = <<>>
      BY <2>1 DEF RxHeld, Acked, InRegister
    <3> QED
      BY <3>1, RxLineTypes, ConcatEmptySeq
  <2>2. CASE ~(ipc = "rx" /\ "RX_EVT" \in stat)
    <3>1. held = InRegister /\ Acked = <<>>
      BY <2>2 DEF RxHeld, Acked, InRegister
    <3> QED
      BY <3>1, RxLineTypes, ConcatEmptySeq
  <2> QED
    BY <2>1, <2>2
<1>2. RxPath = ((RxRing \o (Acked \o InRegister)) \o Latched) \o rfifo
  BY <1>1 DEF RxPath, Latched
<1>3. got \o RxPath = ((got \o RxRing) \o Acked) \o (InRegister \o (Latched \o rfifo))
  <2> DEFINE R == RxRing
             A == Acked
             E == InRegister
             J == Latched
  <2>1. got \in Seq(Nat) /\ R \in Seq(Nat) /\ A \in Seq(Nat) /\ E \in Seq(Nat)
        /\ J \in Seq(Nat) /\ rfifo \in Seq(Nat)
    BY RxLineTypes
  <2> HIDE DEF R, A, E, J
  <2>2. Cat(got, Cat(Cat(Cat(R, Cat(A, E)), J), rfifo)) = Cat(Cat(Cat(got, R), A), Cat(E, Cat(J, rfifo)))
    BY <2>1, Rebracket
  <2> QED
    BY <1>2, <2>2 DEF R, A, E, J, Cat
<1> QED
  BY <1>3 DEF RxLine, Coming, Supply

(* An edge that acknowledges no receive event moves characters on within   *)
(* the core.                                                               *)
LEMMA ComingKept ==
    ASSUME DriverTypeOK, jtag_rd => ~rx_event,
           NEW w, Clock(w), w.reg # "STAT" \/ "RX_EVT" \notin w.bits
    PROVE  Coming' = Coming
<1>1. jtag_rd \in BOOLEAN /\ rx_event \in BOOLEAN /\ rfifo \in Seq(Nat) /\ jtag_q \in Nat /\ rx_reg \in Nat
  BY DEF DriverTypeOK, UartTypeOK, Char
<1>2. /\ jtag_rd' = read_jtag
      /\ jtag_q' = IF read_jtag THEN Head(rfifo) ELSE jtag_q
      /\ rfifo' = IF read_jtag THEN Tail(rfifo) ELSE rfifo
      /\ rx_reg' = IF jtag_rd THEN jtag_q ELSE rx_reg
      /\ rx_event' = (rx_event \/ jtag_rd)
  BY DEF Clock, ClockRx
<1>3. CASE jtag_rd
  <2>1. /\ InRegister = <<>> /\ Latched = <<jtag_q>> /\ InRegister' = <<jtag_q>> /\ Latched' = <<>>
        /\ rfifo' = rfifo
    BY <1>1, <1>2, <1>3 DEF InRegister, Latched, read_jtag
  <2>2. <<jtag_q>> \o rfifo \in Seq(Nat)
    BY <1>1
  <2>3. <<>> \o rfifo = rfifo /\ <<>> \o (<<jtag_q>> \o rfifo) = <<jtag_q>> \o rfifo
    BY <1>1, <2>2, ConcatEmptySeq
  <2> QED
    BY <2>1, <2>3 DEF Coming, Supply
<1>4. CASE ~jtag_rd /\ read_jtag
  <2>1. /\ InRegister = <<>> /\ Latched = <<>> /\ InRegister' = <<>> /\ Latched' = <<Head(rfifo)>>
        /\ rfifo' = Tail(rfifo) /\ rfifo # <<>>
    BY <1>1, <1>2, <1>4 DEF InRegister, Latched, read_jtag
  <2>2. <<Head(rfifo)>> \o Tail(rfifo) = rfifo
    BY <1>1, <2>1
  <2>3. <<>> \o rfifo = rfifo
    BY <1>1, ConcatEmptySeq
  <2> QED
    BY <2>1, <2>2, <2>3 DEF Coming, Supply
<1>5. CASE ~jtag_rd /\ ~read_jtag
  BY <1>1, <1>2, <1>5 DEF Coming, Supply, InRegister, Latched
<1> QED
  BY <1>3, <1>4, <1>5

(* One that does takes the oldest out of it.                               *)
LEMMA ComingTaken ==
    ASSUME DriverTypeOK, rx_event, ~jtag_rd, "RX_EVT" \in stat, Clock(WriteSTAT(stat))
    PROVE  /\ Coming = <<rx_reg>> \o Coming' /\ rx_reg' = rx_reg
           /\ Coming' \in Seq(Nat) /\ <<rx_reg>> \in Seq(Nat)
<1>1. rfifo \in Seq(Nat) /\ rx_reg \in Nat
  BY DEF DriverTypeOK, UartTypeOK, Char
<1>2. ~jtag_rd' /\ ~rx_event' /\ rx_reg' = rx_reg /\ rfifo' = rfifo
  BY DEF Clock, ClockRx, WriteSTAT, read_jtag
<1>3. InRegister = <<rx_reg>> /\ InRegister' = <<>> /\ Supply = <<>> \o rfifo /\ Supply' = <<>> \o rfifo
  BY <1>2 DEF InRegister, Supply, Latched
<1>4. <<>> \o rfifo = rfifo
  BY <1>1, ConcatEmptySeq
<1> QED
  BY <1>1, <1>2, <1>3, <1>4 DEF Coming

(* Most steps leave the line as it is.                                     *)
RxStill == UNCHANGED <<got, RxRing, Acked, Coming, rxDropped, hostTx>>

(* Which those are: all but five kinds of step. *)
LEMMA RxStillSteps ==
    ASSUME DriverTypeOK, TokenInv, SlotsInv, AckInv, [Next]_vars, rxFault' = {},
           ~ReadAdvance, ~DriverHostSend, ~("RX_EVT" \in stat /\ (IsrClear \/ IsrRx \/ InitStatWrite))
    PROVE  RxStill
<1> USE DEF App, Goto, Cpu, Bus, ringVars, appVars, isrVars, histVars
<1>1. \A w : Clock(w) /\ (w.reg # "STAT" \/ "RX_EVT" \notin w.bits) => Coming' = Coming /\ hostTx' = hostTx
  BY ComingKept DEF AckInv, Clock
<1>2. /\ NoWrite.reg # "STAT" /\ (\A bits : WriteCTRL(bits).reg # "STAT")
      /\ (\A c : WriteRXTX(c).reg # "STAT") /\ WriteSTAT(stat).bits = stat
  BY DEF NoWrite, WriteCTRL, WriteRXTX, WriteSTAT
<1>3. CASE InitStep
  <2>1. ipc = "none" /\ ipc' = "none"
    BY <1>3 DEF InitStep, InitIE, InitVars, InitAck, InitStatRead, InitStatWrite, InitCtrl, InitMask
  <2>2. Acked' = Acked
    BY <2>1 DEF Acked
  <2>3. RxRing' = RxRing
    <3>1. CASE InitVars
      BY <3>1 DEF InitVars, SlotsInv, InitPcs, RxRing
    <3> QED
      BY <1>3, <3>1 DEF InitStep, InitIE, InitAck, InitStatRead, InitStatWrite, InitCtrl, InitMask, RxRing
  <2>4. CASE InitStatWrite
    BY <1>1, <1>2, <2>2, <2>3, <2>4 DEF InitStatWrite, RxStill
  <2> QED
    BY <1>1, <1>2, <1>3, <2>2, <2>3, <2>4
       DEF InitStep, InitIE, InitVars, InitAck, InitStatRead, InitCtrl, InitMask, RxStill
<1>4. CASE WriteStep
  BY <1>1, <1>2, <1>4 DEF WriteStep, WriteSync, WriteDirect, WriteTest, WriteRing, WriteRegister,
        WritePoll, WriteRestore, RxStill, RxRing, Acked
<1>5. CASE ReadStep \/ SyncStep
  BY <1>1, <1>2, <1>5 DEF ReadStep, ReadChar, SyncStep, ForceSyncSet, RebootMask,
        RebootIE, RebootWriteId, RxStill, RxRing, Acked
<1>6. CASE AppCall
  BY <1>1, <1>2, <1>6 DEF AppCall, WriteCall, ReadCall, ForceSyncOn, ForceSyncOff, RebootCall,
        RxStill, RxRing, Acked
<1>7. CASE Isr
  <2>1. CASE IsrClear
    BY <1>1, <1>2, <1>7, <2>1 DEF IsrClear, IsrAt, RxStill, RxRing, Acked
  <2>2. CASE IsrRx
    BY <1>1, <1>2, <2>2 DEF IsrRx, IsrAt, RxStill, RxRing, Acked
  <2> QED
    BY <1>1, <1>2, <1>7, <2>1, <2>2 DEF Isr, IsrEnter, IsrReadStat, IsrTxIdle, IsrTxNext, IsrAck,
          IsrEret, IsrAt, RxStill, RxRing, Acked
<1>8. CASE Stall
  <2>1. Acked' = Acked
    <3>1. CASE ipc = "rx" /\ "RX_EVT" \in stat
      <4>1. ~jtag_rd /\ ipc' = ipc /\ stat' = stat
        BY <1>8, <3>1 DEF Stall
      <4>2. rx_reg' = rx_reg
        BY <1>8, <4>1 DEF Stall, Clock, ClockRx
      <4> QED
        BY <4>1, <4>2 DEF Acked
    <3> QED
      BY <1>8, <3>1 DEF Stall, Acked
  <2> QED
    BY <1>1, <1>2, <1>8, <2>1 DEF Stall, RxStill, RxRing
<1>9. CASE DriverHostReceive \/ UNCHANGED vars
  <2>1. /\ UNCHANGED <<rx_reg, jtag_rd, jtag_q, rx_event, rfifo, hostTx, got, rx_buf, rx_produce>>
        /\ UNCHANGED <<rx_consume, ipc, stat, rxDropped>>
    BY <1>9 DEF DriverHostReceive, HostReceive, uartRegs, DriverUnchanged, vars, uartVars
  <2>2. RxRing' = RxRing
    BY <2>1 DEF RxRing
  <2>3. Acked' = Acked
    BY <2>1 DEF Acked
  <2>4. InRegister' = InRegister /\ Latched' = Latched
    BY <2>1 DEF InRegister, Latched
  <2> QED
    BY <2>1, <2>2, <2>3, <2>4 DEF RxStill, Coming, Supply
<1> QED
  BY <1>3, <1>4, <1>5, <1>6, <1>7, <1>8, <1>9 DEF Next, AppStep

(* uart_isr acknowledges the event: the character of it is still held.     *)
LEMMA ClearKeepsLine ==
    ASSUME DriverTypeOK, AckInv, IsrClear, "RX_EVT" \in stat
    PROVE  RxLine' = RxLine /\ UNCHANGED <<rxDropped, hostTx>>
<1>1. /\ Clock(WriteSTAT(stat)) /\ ipc = "clear" /\ ipc' = "rx" /\ stat' = stat
      /\ UNCHANGED <<got, rx_buf, rx_produce, rx_consume, rxDropped>>
  BY DEF IsrClear, IsrAt, Bus, ringVars, histVars
<1>2. rx_event /\ ~jtag_rd
  BY <1>1 DEF AckInv
<1> DEFINE r == <<rx_reg>>
           G == got \o RxRing
           S == Coming'
<1>3. Coming = r \o S /\ rx_reg' = rx_reg /\ S \in Seq(Nat) /\ r \in Seq(Nat)
  BY <1>1, <1>2, ComingTaken
<1>4. Acked = <<>> /\ Acked' = r
  BY <1>1, <1>3 DEF Acked
<1>5. RxRing' = RxRing /\ G \in Seq(Nat)
  BY <1>1, RxLineTypes, CharSeqs DEF RxRing
<1> HIDE DEF r, S
<1>6. RxLine = (G \o <<>>) \o (r \o S) /\ RxLine' = (G \o r) \o S
  BY <1>1, <1>3, <1>4, <1>5 DEF RxLine, S
<1> HIDE DEF G
<1>7. G \o <<>> = G /\ (G \o r) \o S = G \o (r \o S)
  <2>1. Cat(Cat(G, r), S) = Cat(G, Cat(r, S))
    BY <1>3, <1>5, CatAssociative
  <2>2. G \o <<>> = G
    BY <1>5, ConcatEmptySeq
  <2> QED
    BY <2>1, <2>2 DEF Cat
<1> QED
  BY <1>1, <1>6, <1>7 DEF Clock

(* uart_read takes the oldest character out of the ring.                   *)
LEMMA AdvanceKeepsLine ==
    ASSUME DriverTypeOK, AckInv, ReadAdvance, rx_consume # rx_produce, ch = rx_buf[rx_consume]
    PROVE  RxLine' = RxLine /\ UNCHANGED <<rxDropped, hostTx>>
<1>1. /\ Clock(NoWrite) /\ ipc = "none" /\ UNCHANGED <<ipc, rx_buf, rx_produce, rxDropped>>
      /\ rx_consume' = (rx_consume + 1) % RingSizeRX /\ got' = Append(got, ch)
  BY DEF ReadAdvance, App, Cpu, Bus, isrVars, NextRX
<1>2. Coming' = Coming /\ hostTx' = hostTx
  BY <1>1, ComingKept DEF AckInv, NoWrite, Clock
<1>3. Acked' = Acked
  BY <1>1 DEF Acked
<1> DEFINE c == <<ch>>
           R == RxRing'
<1>4. RxRing = c \o R
  <2>1. RxRing' = RingContents(rx_buf, RingSizeRX, rx_produce, (rx_consume + 1) % RingSizeRX)
    BY <1>1 DEF RxRing
  <2>2. /\ rx_buf \in [0..RingSizeRX-1 -> Char] /\ RingSizeRX \in Nat \ {0}
        /\ rx_produce \in 0..RingSizeRX-1 /\ rx_consume \in 0..RingSizeRX-1
    BY RxTypes DEF Char
  <2> QED
    BY <2>1, <2>2, RingPop, ZenonT(40) DEF RxRing
<1>5. R \in Seq(Nat) /\ c \in Seq(Nat) /\ got \in Seq(Nat) /\ got' = got \o c
  <2>1. rx_consume' \in 0..RingSizeRX-1 /\ rx_buf' = rx_buf /\ rx_produce' = rx_produce
    BY <1>1, RxTypes DEF NextRX
  <2>2. R \in Seq(Char)
    BY <2>1, RingType, RxTypes DEF RxRing, Char
  <2>3. R \in Seq(Nat) /\ got \in Seq(Nat) /\ ch \in Nat
    BY <2>2, RxTypes DEF Char
  <2>4. Append(got, ch) = got \o <<ch>> /\ <<ch>> \in Seq(Nat)
    BY <2>3, AppendIsConcat
  <2> QED
    BY <1>1, <2>3, <2>4
<1> HIDE DEF c, R
<1>6. (got \o c) \o R = got \o (c \o R)
  <2>1. Cat(Cat(got, c), R) = Cat(got, Cat(c, R))
    BY <1>5, CatAssociative
  <2> QED
    BY <2>1 DEF Cat
<1>7. got' \o RxRing' = got \o RxRing
  BY <1>4, <1>5, <1>6 DEF R
<1> QED
  BY <1>1, <1>2, <1>3, <1>7 DEF RxLine

(* uart_isr stores the character: the line goes on, or what the ring held  *)
(* and the character are cut out of it.                                    *)
LEMMA StoreCutsLine ==
    ASSUME DriverTypeOK, AckInv, ~rx_event, IsrRx, "RX_EVT" \in stat,
           Delivers(RxLine, hostTx, rxDropped, {}), rxDropped \subseteq 1..hostTx
    PROVE  Delivers(RxLine', hostTx', rxDropped', {}) /\ rxDropped' \subseteq 1..hostTx'
<1> DEFINE r == <<rx_reg>>
           R == RxRing
           S == Coming
<1>1. /\ Clock(NoWrite) /\ ipc = "rx" /\ ipc' = "tx" /\ got' = got /\ rx_consume' = rx_consume
      /\ rx_buf' = [rx_buf EXCEPT ![rx_produce] = rx_reg]
      /\ rx_produce' = (rx_produce + 1) % RingSizeRX
      /\ rxDropped' = IF NextRX(rx_produce) = rx_consume
                      THEN rxDropped \cup Range(RxRing) \cup {rx_reg} ELSE rxDropped
  BY DEF IsrRx, IsrAt, Cpu, Bus, RXTX, NextRX
<1>2. Coming' = S /\ hostTx' = hostTx
  BY <1>1, ComingKept DEF AckInv, NoWrite, Clock
<1>3. Acked = r /\ Acked' = <<>>
  BY <1>1 DEF Acked
<1>4. got \in Seq(Nat) /\ R \in Seq(Nat) /\ S \in Seq(Nat) /\ r \in Seq(Nat)
  BY RxLineTypes, RxTypes
<1>5. RxLine = ((got \o R) \o r) \o S /\ RxLine' = ((got \o RxRing') \o <<>>) \o S
  BY <1>1, <1>2, <1>3 DEF RxLine
<1>6. /\ rx_buf \in [0..RingSizeRX-1 -> Char] /\ rx_reg \in Char
      /\ rx_produce \in 0..RingSizeRX-1 /\ rx_consume \in 0..RingSizeRX-1 /\ RingSizeRX \in Nat \ {0}
  BY RxTypes DEF Char
<1> DEFINE Rr == R \o r
           gR == got \o R
<1>7. Rr \in Seq(Nat) /\ gR \in Seq(Nat)
  BY <1>4, CharSeqs
<1>8. gR \o r = got \o Rr
  <2> HIDE DEF R, r
  <2>1. Cat(Cat(got, R), r) = Cat(got, Cat(R, r))
    BY <1>4, CatAssociative
  <2> QED
    BY <2>1 DEF Cat
<1>9. hostTx \in Nat
  BY RxTypes
<1>10. CASE NextRX(rx_produce) # rx_consume
  <2>1. RxRing' = Append(R, rx_reg)
    BY <1>1, <1>6, <1>10, RingPush DEF RxRing, NextRX
  <2>2. RxRing' = Rr
    BY <1>4, <1>6, <2>1, AppendIsConcat DEF Char
  <2> HIDE DEF Rr, gR, R, r, S
  <2>3. got \o Rr \in Seq(Nat)
    BY <1>4, <1>7, CharSeqs
  <2>4. (got \o Rr) \o <<>> = got \o Rr
    BY <2>3, ConcatEmptySeq
  <2>5. RxLine' = RxLine
    BY <1>5, <1>8, <2>2, <2>4 DEF gR
  <2> QED
    BY <1>1, <1>2, <1>10, <2>5
<1>11. CASE NextRX(rx_produce) = rx_consume
  <2>1. RxRing' = <<>>
    BY <1>1, <1>6, <1>11, RingEmpty DEF RxRing, NextRX
  <2>2. Range(Rr) = Range(R) \cup {rx_reg}
    <3>1. Rr = Append(R, rx_reg) /\ rx_reg \in Nat
      BY <1>4, <1>6, AppendIsConcat DEF Char
    <3> HIDE DEF Rr, R
    <3> QED
      BY <1>4, <3>1, RangeAppend
  <2> HIDE DEF Rr, gR, R, r, S
  <2>3. RxLine = (got \o Rr) \o S
    BY <1>5, <1>8 DEF gR
  <2>4. Delivers((got \o Rr) \o S, hostTx, rxDropped, {})
    BY <2>3
  <2>5. Delivers(got \o S, hostTx, rxDropped \cup Range(Rr), {})
    BY <1>4, <1>7, <1>9, <2>4, DeliversCut
  <2>6. RxLine' = got \o S
    BY <1>4, <1>5, <2>1, ConcatEmptySeq
  <2>7. rxDropped' = rxDropped \cup Range(Rr)
    BY <1>1, <1>11, <2>2 DEF R
  <2>8. Range(Rr) \subseteq 1..hostTx
    <3>1. Range(Rr) \subseteq Range((got \o Rr) \o S)
      <4>1. got \o Rr \in Seq(Nat)
        BY <1>4, <1>7, CharSeqs
      <4>2. Range(got \o Rr) = Range(got) \cup Range(Rr)
        BY <1>4, <1>7, RangeConcatenation
      <4> DEFINE u == got \o Rr
      <4> HIDE DEF u
      <4>3. Range(u \o S) = Range(u) \cup Range(S)
        <5>1. u \in Seq(Nat) /\ S \in Seq(Nat)
          BY <1>4, <4>1 DEF u
        <5> QED
          BY <5>1, RangeConcatenation
      <4> QED
        BY <4>2, <4>3 DEF u
    <3> QED
      BY <2>4, <3>1 DEF Delivers
  <2> QED
    BY <1>2, <2>5, <2>6, <2>7, <2>8
<1> QED
  BY <1>10, <1>11

(* uart_init discards the character whose event it acknowledges.           *)
LEMMA InitCutsLine ==
    ASSUME DriverTypeOK, AckInv, InitStatWrite, "RX_EVT" \in stat,
           Delivers(RxLine, hostTx, rxDropped, {}), rxDropped \subseteq 1..hostTx
    PROVE  Delivers(RxLine', hostTx', rxDropped', {}) /\ rxDropped' \subseteq 1..hostTx'
<1> DEFINE r == <<rx_reg>>
           G == got \o RxRing
           S == Coming'
<1>1. /\ Clock(WriteSTAT(stat)) /\ ipc = "none" /\ ipc' = ipc /\ pc = "init_stat2"
      /\ UNCHANGED <<got, rx_buf, rx_produce, rx_consume>>
      /\ rxDropped' = rxDropped \cup {rx_reg}
  BY DEF InitStatWrite, App, Bus, ringVars, isrVars
<1>2. rx_event /\ ~jtag_rd
  BY <1>1 DEF AckInv
<1>3. Coming = r \o S /\ S \in Seq(Nat) /\ r \in Seq(Nat)
  BY <1>1, <1>2, ComingTaken
<1>4. Acked = <<>> /\ Acked' = <<>> /\ RxRing' = RxRing /\ hostTx' = hostTx /\ hostTx \in Nat
  BY <1>1, RxTypes DEF Acked, RxRing, Clock
<1>5. G \in Seq(Nat) /\ G \o <<>> = G
  BY RxLineTypes, CharSeqs
<1>6. RxLine = (G \o <<>>) \o (r \o S) /\ RxLine' = (G \o <<>>) \o S
  BY <1>1, <1>3, <1>4 DEF RxLine
<1>7. Range(r) = {rx_reg}
  <2>1. Len(r) = 1 /\ r[1] = rx_reg
    OBVIOUS
  <2> HIDE DEF r
  <2>2. Range(r) = {r[i] : i \in 1..Len(r)}
    BY <1>3, RangeEquality
  <2> QED
    BY <2>1, <2>2
<1> HIDE DEF r, S, G
<1>8. G \o (r \o S) = (G \o r) \o S
  <2>1. Cat(Cat(G, r), S) = Cat(G, Cat(r, S))
    BY <1>3, <1>5, CatAssociative
  <2> QED
    BY <2>1 DEF Cat
<1>9. Delivers((G \o r) \o S, hostTx, rxDropped, {})
  BY <1>5, <1>6, <1>8
<1>10. Delivers(G \o S, hostTx, rxDropped \cup Range(r), {})
  BY <1>3, <1>4, <1>5, <1>9, DeliversCut
<1>11. Range(r) \subseteq 1..hostTx
  <2>1. Range(r) \subseteq Range(G \o r)
    BY <1>3, <1>5, RangeConcatenation
  <2> DEFINE u == G \o r
  <2>2. u \in Seq(Nat)
    BY <1>3, <1>5, CharSeqs
  <2> HIDE DEF u
  <2>3. Range(u) \subseteq Range(u \o S)
    BY <1>3, <2>2, RangeConcatenation
  <2> QED
    BY <1>9, <2>1, <2>3 DEF Delivers, u
<1> QED
  BY <1>1, <1>4, <1>5, <1>6, <1>7, <1>10, <1>11

(* The host puts its next character at the end.                            *)
LEMMA SendExtendsLine ==
    ASSUME DriverTypeOK, DriverHostSend,
           Delivers(RxLine, hostTx, rxDropped, {}), rxDropped \subseteq 1..hostTx
    PROVE  Delivers(RxLine', hostTx', rxDropped', {}) /\ rxDropped' \subseteq 1..hostTx'
<1> DEFINE G == (got \o RxRing) \o Acked
           h == <<hostTx + 1>>
<1>1. /\ hostTx' = hostTx + 1 /\ rfifo' = Append(rfifo, hostTx + 1)
      /\ UNCHANGED <<rx_reg, jtag_rd, jtag_q, rx_event, got, rx_buf, rx_produce>>
      /\ UNCHANGED <<rx_consume, ipc, stat, rxDropped>>
  BY DEF DriverHostSend, HostSend, uartRegs, DriverUnchanged, ringVars, isrVars, histVars
<1>2. hostTx \in Nat /\ rfifo \in Seq(Nat) /\ hostTx + 1 \in Nat
  BY RxTypes
<1>3. h \in Seq(Nat) /\ rfifo' = rfifo \o h
  BY <1>1, <1>2, AppendIsConcat
<1>4. InRegister' = InRegister /\ Latched' = Latched /\ G' = G
  BY <1>1 DEF InRegister, Latched, RxRing, Acked
<1>5. G \in Seq(Nat) /\ Latched \in Seq(Nat) /\ InRegister \in Seq(Nat)
  <2>1. got \o RxRing \in Seq(Nat)
    BY RxLineTypes, CharSeqs
  <2> QED
    BY <2>1, RxLineTypes, CharSeqs
<1>6. RxLine = G \o (InRegister \o (Latched \o rfifo))
      /\ RxLine' = G \o (InRegister \o (Latched \o (rfifo \o h)))
  BY <1>3, <1>4 DEF RxLine, Coming, Supply
<1> DEFINE I == InRegister
           L == Latched
           F == rfifo
<1>7. G \in Seq(Nat) /\ I \in Seq(Nat) /\ L \in Seq(Nat) /\ F \in Seq(Nat)
  BY <1>2, <1>5
<1>8. RxLine = G \o (I \o (L \o F)) /\ RxLine' = G \o (I \o (L \o (F \o h)))
  BY <1>6
<1> HIDE DEF G, h, I, L, F
<1>9. RxLine' = RxLine \o h /\ RxLine \in Seq(Nat)
  <2>1. Cat(L, F) \in Seq(Nat) /\ Cat(I, Cat(L, F)) \in Seq(Nat) /\ Cat(G, Cat(I, Cat(L, F))) \in Seq(Nat)
    BY <1>7, CatAssociative
  <2>2. Cat(G, Cat(I, Cat(L, Cat(F, h)))) = Cat(Cat(G, Cat(I, Cat(L, F))), h)
    BY <1>3, <1>7, <2>1, CatAssociative
  <2> QED
    BY <1>8, <2>1, <2>2 DEF Cat
<1>10. RxLine' = Append(RxLine, hostTx + 1)
  BY <1>2, <1>9, AppendIsConcat DEF h
<1>11. Delivers(Append(RxLine, hostTx + 1), hostTx + 1, rxDropped, {})
  BY <1>2, <1>9, DeliversMore
<1>12. rxDropped \subseteq 1..hostTx + 1
  BY <1>2
<1> QED
  BY <1>1, <1>10, <1>11, <1>12

(* Every step without a fault keeps the line whole. *)
LEMMA WholeStep ==
    ASSUME DriverTypeOK, DriverTypeOK', TokenInv, SlotsInv, AckInv, HeldInv, HeldInv', WholeInv, [Next]_vars
    PROVE  WholeInv'
<1> SUFFICES ASSUME rxFault' = {}
             PROVE  RxStreamIntact' /\ rxDropped' \subseteq 1..hostTx'
  BY DEF WholeInv
<1>1. rxFault = {} /\ rxDropped \subseteq 1..hostTx
  BY FaultStays DEF WholeInv
<1>2. got \o RxPath = RxLine /\ (ipc = "rx" /\ "RX_EVT" \in stat => ~rx_event)
  BY <1>1, RxLineIs DEF HeldInv
<1>3. Delivers(RxLine, hostTx, rxDropped, {})
  BY <1>1, <1>2 DEF WholeInv, RxStreamIntact
<1>4. (got \o RxPath = RxLine)'
  <2>1. (ipc = "rx" /\ "RX_EVT" \in stat => ~rx_event)'
    BY DEF HeldInv
  <2>2. (DriverTypeOK /\ (ipc = "rx" /\ "RX_EVT" \in stat => ~rx_event) => got \o RxPath = RxLine)'
    BY RxLineIs, PTL
  <2> QED
    BY <2>1, <2>2
<1>5. Delivers(RxLine', hostTx', rxDropped', {}) /\ rxDropped' \subseteq 1..hostTx'
  <2>1. CASE RxLine' = RxLine /\ UNCHANGED <<rxDropped, hostTx>>
    BY <1>1, <1>3, <2>1
  <2>2. CASE IsrClear /\ "RX_EVT" \in stat
    BY <2>1, <2>2, ClearKeepsLine
  <2>3. CASE ReadAdvance
    <3>1. rx_consume # rx_produce /\ ch = rx_buf[rx_consume]
      BY <1>1, <2>3 DEF HeldInv, ReadAdvance, App
    <3> QED
      BY <2>1, <2>3, <3>1, AdvanceKeepsLine
  <2>4. CASE IsrRx /\ "RX_EVT" \in stat
    <3>1. ~rx_event
      BY <1>2, <2>4 DEF IsrRx, IsrAt
    <3> QED
      BY <1>1, <1>3, <2>4, <3>1, StoreCutsLine
  <2>5. CASE InitStatWrite /\ "RX_EVT" \in stat
    BY <1>1, <1>3, <2>5, InitCutsLine
  <2>6. CASE DriverHostSend
    BY <1>1, <1>3, <2>6, SendExtendsLine
  <2>7. CASE RxStill
    <3>1. RxLine' = RxLine
      BY <2>7 DEF RxStill, RxLine
    <3> QED
      BY <2>1, <2>7, <3>1 DEF RxStill
  <2> QED
    BY <2>2, <2>3, <2>4, <2>5, <2>6, <2>7, RxStillSteps
<1> QED
  BY <1>4, <1>5 DEF RxStreamIntact

(* Until something goes wrong, every character the host has sent is        *)
(* returned once and in order, or is on its way, or has been discarded by  *)
(* a full ring or by uart_init.                                            *)
THEOREM RxStreamCorrect == Spec => []RxStream
<1>1. Init => RxInv
  <2> SUFFICES ASSUME Init PROVE RxInv
    OBVIOUS
  <2>1. /\ ~jtag_rd /\ ~rx_event /\ rfifo = <<>> /\ got = <<>> /\ hostTx = 0 /\ rxDropped = {}
        /\ rx_produce = 0 /\ rx_consume = 0 /\ pc = "init_ie" /\ ipc = "none" /\ stat = {}
    BY DEF Init, UartInit
  <2>2. RxRing = <<>>
    <3>1. 0 \in 0..RingSizeRX-1
      BY RingAssumption
    <3> QED
      BY <2>1, <3>1, RingEmpty, RingAssumption DEF RxRing
  <2>3. got \o RxPath = <<>> \o (((<<>> \o <<>>) \o <<>>) \o <<>>)
    BY <2>1, <2>2 DEF RxPath, RxHeld
  <2>4. got \o RxPath = <<>>
    BY <2>3, ConcatEmptySeq
  <2>5. RxStreamIntact
    BY <2>1, <2>4 DEF RxStreamIntact, Delivers, Range
  <2> QED
    BY <2>1, <2>5 DEF RxInv, AckInv, HeldInv, WholeInv
<1>2. IInv /\ OrderInv /\ RxInv /\ [Next]_vars /\ IInv' => RxInv'
  <2> SUFFICES ASSUME IInv, OrderInv, RxInv, [Next]_vars, IInv' PROVE RxInv'
    OBVIOUS
  <2>1. DriverTypeOK /\ DriverTypeOK' /\ TokenInv /\ SlotsInv
    BY DEF IInv, OrderInv
  <2>2. AckInv'
    BY <2>1, AckStep DEF RxInv
  <2>3. HeldInv'
    BY <2>1, HeldStep DEF RxInv
  <2>4. WholeInv'
    BY <2>1, <2>3, WholeStep DEF RxInv
  <2> QED
    BY <2>2, <2>3, <2>4 DEF RxInv
<1>3. RxInv => RxStream
  BY DEF RxInv, WholeInv, RxStream
<1> QED
  BY <1>1, <1>2, <1>3, TokenCorrect, OrderCorrect, PTL DEF Spec
=============================================================================
