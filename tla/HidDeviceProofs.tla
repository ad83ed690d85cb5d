--------------------------- MODULE HidDeviceProofs ---------------------------
(***************************************************************************)
(* Proofs about HidDevice and the parser it rests on, for every device,    *)
(* every descriptor, every width of a byte and every size of the parser's  *)
(* tables.                                                                 *)
(*                                                                         *)
(* Every operator of the parser is a function over the items, so the       *)
(* proofs go by induction over numbers.  The library states induction with *)
(* a predicate as a parameter; here it is stated for a set of numbers, and *)
(* comes from the fact that the numbers are well-founded.                  *)
(*                                                                         *)
(*   1. Powers of two, sequences, positions in a set.                      *)
(*   2. What each item does to the parser (ItemState, AfterState): the     *)
(*      table never has overlapping fields or too many of them.            *)
(*   3. DeviceInv, the inductive invariant: the driver knows of the device *)
(*      what the table says, and a report holds as many bits as it has.    *)
(*   4. The answers of the calls, from DeviceInv.                          *)
(*   5. The parser against the HID specification (ParsedIsDeclared): the   *)
(*      values in force, the queue of usages, the path, the offsets and    *)
(*      the table agree with those at every item.                          *)
(***************************************************************************)
EXTENDS HidDevice, WellFoundedInduction, FiniteSetTheorems, SequenceTheorems, TLAPS

-----------------------------------------------------------------------------
(* Induction over the numbers, from the fact that they are well-founded    *)

\* A nonempty set of numbers has a least one.
LEMMA Least ==
  ASSUME NEW T, T \subseteq Nat, T # {}
  PROVE  \E x \in T : \A y \in T : x <= y
<1> DEFINE R == {s \in Nat \X Nat : s[1] < s[2]}
<1>1. \A Q, S, U : IsWellFoundedOn(Q, S) /\ U \subseteq S /\ U # {}
        => \E x \in U : \A y \in U : ~ (<<y, x>> \in Q)
  BY WFMin
<1>2. IsWellFoundedOn(R, Nat)
  BY NatLessThanWellFounded DEF OpToRel
<1>3. PICK x \in T : \A y \in T : ~(<<y, x>> \in R)
  <2> HIDE DEF R
  <2> QED BY <1>1, <1>2
<1>4. \A y \in T : ~(y < x)
  BY <1>3
<1> QED
  BY <1>4

\* A set with 0 that has with a number the next one has them all.
LEMMA SetInduction ==
  ASSUME NEW S, 0 \in S, \A n \in Nat : n \in S => n + 1 \in S
  PROVE  Nat \subseteq S
<1> SUFFICES ASSUME Nat \ S # {} PROVE FALSE
  OBVIOUS
<1>1. PICK x \in Nat \ S : \A y \in Nat \ S : x <= y
  BY Least
<1>2. x # 0 /\ x - 1 \in Nat /\ x - 1 + 1 = x
  BY <1>1
<1>3. x - 1 \in S
  BY <1>1, <1>2
<1> QED
  BY <1>1, <1>2, <1>3

\* The same up to a bound
LEMMA UptoInduction ==
  ASSUME NEW N \in Nat, NEW S, 0 \in S,
         \A n \in 0..(N - 1) : n \in S => n + 1 \in S
  PROVE  0..N \subseteq S
<1> DEFINE T == {n \in Nat : n <= N => n \in S}
<1>1. 0 \in T
  OBVIOUS
<1>2. ASSUME NEW n \in Nat, n \in T PROVE n + 1 \in T
  <2>1. CASE n + 1 <= N
    <3>1. n \in 0..(N - 1) /\ n \in S
      BY <1>2, <2>1
    <3> QED BY <3>1
  <2> QED BY <2>1
<1>3. Nat \subseteq T
  <2> HIDE DEF T
  <2> QED BY <1>1, <1>2, SetInduction
<1> QED
  BY <1>3

\* A nonempty set of numbers up to a bound has a greatest one.
LEMMA Greatest ==
  ASSUME NEW N \in Nat, NEW T, T \subseteq 0..N, T # {}
  PROVE  \E x \in T : \A y \in T : y <= x
<1> DEFINE U == {n \in Nat : N - n \in T}
<1>1. U \subseteq Nat /\ U # {}
  <2>1. PICK y \in T : TRUE
    OBVIOUS
  <2>2. N - y \in Nat /\ N - (N - y) = y
    BY <2>1
  <2> QED BY <2>2
<1>2. PICK u \in U : \A v \in U : u <= v
  <2> HIDE DEF U
  <2> QED BY <1>1, Least
<1>3. N - u \in T
  BY <1>2
<1>4. ASSUME NEW y \in T PROVE y <= N - u
  <2>1. N - y \in Nat /\ N - (N - y) = y
    OBVIOUS
  <2>2. u <= N - y
    BY <1>2, <2>1
  <2> QED BY <2>2, <2>1
<1> QED
  BY <1>3, <1>4

-----------------------------------------------------------------------------
(* Arithmetic *)

\* A product grows with its factor.
LEMMA TimesMonotone ==
  ASSUME NEW a \in Nat, NEW b \in Nat, NEW c \in Nat, a <= b
  PROVE  a * c \in Nat /\ b * c \in Nat /\ a * c <= b * c
<1>1. PICK d \in Nat : b = a + d
  <2>1. b - a \in Nat /\ b = a + (b - a)
    OBVIOUS
  <2> QED BY <2>1
<1>2. b * c = a * c + d * c
  BY <1>1
<1>3. a * c \in Nat /\ d * c \in Nat
  OBVIOUS
<1> QED
  BY <1>2, <1>3

\* A number is its quotient and its rest, which is less than what divides.
LEMMA Division ==
  ASSUME NEW a \in Int, NEW d \in Nat \ {0}
  PROVE  \E q \in Int, r \in 0..(d - 1) :
           q = a \div d /\ r = a % d /\ a = d * q + r
<1>1. a \div d \in Int /\ a % d \in 0..(d - 1)
  OBVIOUS
<1>2. ASSUME NEW q, q = a \div d, NEW r, r = a % d PROVE a = d * q + r
  BY <1>2
<1> QED
  BY <1>1, <1>2

\* Quotient and remainder are the only ones.
LEMMA DivisionUnique ==
  ASSUME NEW d \in Nat \ {0}, NEW q \in Int, NEW r \in 0..(d - 1)
  PROVE  (d * q + r) \div d = q /\ (d * q + r) % d = r
<1> DEFINE a == d * q + r
           p == a \div d
           s == a % d
<1>1. a \in Int
  OBVIOUS
<1>2. p \in Int /\ s \in 0..(d - 1) /\ a = d * p + s
  <2>1. PICK x \in Int, y \in 0..(d - 1) : x = p /\ y = s /\ a = d * x + y
    <3> HIDE DEF a
    <3> QED BY <1>1, Division
  <2> HIDE DEF a, p, s
  <2> QED BY <2>1
<1>3. d * (q - p) = s - r
  <2>1. d * q + r = d * p + s
    BY <1>2
  <2>2. d * (q - p) = d * q - d * p
    BY <1>2
  <2> QED BY <2>1, <2>2, <1>2
<1>4. q = p
  <2> HIDE DEF p, s, a
  <2>1. CASE q - p >= 1
    <3>1. d * (q - p) >= d
      BY <2>1, <1>2
    <3> QED BY <3>1, <1>2, <1>3
  <2>2. CASE q - p <= -1
    <3>1. d * (q - p) <= -d
      BY <2>2, <1>2
    <3> QED BY <3>1, <1>2, <1>3
  <2> QED BY <2>1, <2>2, <1>2
<1> QED
  BY <1>2, <1>3, <1>4

-----------------------------------------------------------------------------
(* Powers of two *)

\* There is a function that is 1 at 0 and doubles.
LEMMA PowExists ==
  \E g \in [Nat -> Nat] : g[0] = 1 /\ \A n \in Nat : g[n + 1] = 2 * g[n]
<1> DEFINE Upto(n, h) == /\ h \in [0..n -> Nat] /\ h[0] = 1
                         /\ \A i \in 0..(n-1) : h[i + 1] = 2 * h[i]
           S == {n \in Nat : \E h : Upto(n, h)}
<1>1. Nat \subseteq S
  <2>1. 0 \in S
    <3>1. Upto(0, [i \in 0..0 |-> 1])
      OBVIOUS
    <3> QED BY <3>1
  <2>2. ASSUME NEW n \in Nat, n \in S PROVE n + 1 \in S
    <3>1. PICK h : Upto(n, h)
      BY <2>2
    <3> DEFINE k == [i \in 0..(n+1) |-> IF i = n + 1 THEN 2 * h[n] ELSE h[i]]
    <3>2. h[n] \in Nat
      BY <3>1
    <3>3. k \in [0..(n+1) -> Nat]
      BY <3>1, <3>2
    <3>4. k[0] = 1
      BY <3>1
    <3>5. ASSUME NEW i \in 0..n PROVE k[i + 1] = 2 * k[i]
      <4>1. CASE i = n
        <5>1. k[n + 1] = 2 * h[n]
          OBVIOUS
        <5>2. k[n] = h[n]
          BY n # n + 1
        <5> HIDE DEF k
        <5> QED BY <4>1, <5>1, <5>2
      <4>2. CASE i # n
        <5>1. i \in 0..(n-1) /\ i + 1 # n + 1 /\ i # n + 1 /\ i+1 \in 0..(n+1)
          BY <4>2
        <5> QED BY <3>1, <5>1
      <4> QED BY <4>1, <4>2
    <3>6. Upto(n+1, k)
      <4>1. n + 1 - 1 = n
        OBVIOUS
      <4> HIDE DEF k
      <4> QED BY <3>3, <3>4, <3>5, <4>1
    <3> HIDE DEF Upto
    <3> QED BY <3>6
  <2> HIDE DEF S
  <2> QED BY <2>1, <2>2, SetInduction
<1> DEFINE h(n) == CHOOSE h : Upto(n, h)
<1>2. ASSUME NEW n \in Nat PROVE Upto(n, h(n))
  BY <1>1
<1>3. ASSUME NEW n \in Nat, NEW a, NEW b, Upto(n, a), Upto(n+1, b) PROVE a[n] = b[n]
  <2> DEFINE D == {i \in Nat : i <= n => a[i] = b[i]}
  <2>1. 0 \in D
    BY <1>3
  <2>2. ASSUME NEW i \in Nat, i \in D PROVE i + 1 \in D
    <3>1. CASE i + 1 <= n
      <4>1. i \in 0..(n-1) /\ i \in 0..(n+1-1) /\ i <= n
        BY <3>1
      <4>2. a[i] = b[i]
        BY <2>2, <4>1
      <4>3. a[i+1] = 2 * a[i] /\ b[i+1] = 2 * b[i]
        BY <1>3, <4>1
      <4> QED BY <4>2, <4>3
    <3> QED BY <3>1
  <2>3. Nat \subseteq D
    <3> HIDE DEF D
    <3> QED BY <2>1, <2>2, SetInduction
  <2> QED BY <2>3
<1> DEFINE g == [n \in Nat |-> h(n)[n]]
<1>4. ASSUME NEW n \in Nat PROVE h(n)[n] \in Nat
  <2> HIDE DEF h
  <2> QED BY <1>2
<1>5. h(0)[0] = 1
  <2> HIDE DEF h
  <2> QED BY <1>2
<1>6. ASSUME NEW n \in Nat PROVE h(n+1)[n+1] = 2 * h(n)[n]
  <2> HIDE DEF h
  <2>1. Upto(n+1, h(n+1)) /\ Upto(n, h(n))
    <3> HIDE DEF Upto
    <3>1. n + 1 \in Nat
      OBVIOUS
    <3> QED BY <1>2, <3>1
  <2>2. h(n)[n] = h(n+1)[n]
    <3> HIDE DEF Upto
    <3> QED BY <1>3, <2>1
  <2>3. n \in 0..(n+1-1)
    OBVIOUS
  <2> QED BY <2>1, <2>2, <2>3
<1> HIDE DEF h, Upto
<1>7. g \in [Nat -> Nat] /\ g[0] = 1 /\ \A n \in Nat : g[n+1] = 2 * g[n]
  BY <1>4, <1>5, <1>6
<1> QED BY <1>7

\* Pow2 is what its recursion says: there is a function that satisfies it, and only one.
LEMMA PowDef ==
  /\ Pow2 \in [Nat -> Nat] /\ Pow2[0] = 1
  /\ \A n \in Nat : Pow2[n + 1] = 2 * Pow2[n]
<1>2. PICK g \in [Nat -> Nat] : g[0] = 1 /\ \A n \in Nat : g[n + 1] = 2 * g[n]
  BY PowExists
<1>3. g = [n \in Nat |-> IF n = 0 THEN 1 ELSE 2 * g[n - 1]]
  <2>1. ASSUME NEW n \in Nat, n # 0 PROVE g[n] = 2 * g[n - 1]
    <3>1. n - 1 \in Nat /\ n - 1 + 1 = n
      BY <2>1
    <3>2. g[n - 1 + 1] = 2 * g[n - 1]
      BY <3>1, <1>2
    <3> QED BY <3>1, <3>2
  <2> QED BY <2>1, <1>2
<1>4. Pow2 = [n \in Nat |-> IF n = 0 THEN 1 ELSE 2 * Pow2[n - 1]]
  <2>1. \E f : f = [n \in Nat |-> IF n = 0 THEN 1 ELSE 2 * f[n - 1]]
    BY <1>3
  <2> QED BY <2>1 DEF Pow2
<1>5. Pow2[0] = 1
  BY <1>4
<1>6. ASSUME NEW n \in Nat PROVE Pow2[n + 1] = 2 * Pow2[n]
  <2>1. n + 1 \in Nat /\ n + 1 # 0 /\ n + 1 - 1 = n
    OBVIOUS
  <2> QED BY <1>4, <2>1
<1>7. \A n \in Nat : Pow2[n] \in Nat
  <2> DEFINE S == {n \in Nat : Pow2[n] \in Nat}
  <2>1. 0 \in S
    BY <1>5
  <2>2. \A n \in Nat : n \in S => n + 1 \in S
    BY <1>6
  <2>3. Nat \subseteq S
    <3> HIDE DEF S
    <3> QED BY <2>1, <2>2, SetInduction
  <2> QED BY <2>3
<1> QED
  BY <1>4, <1>5, <1>6, <1>7

\* Powers of two are positive.
LEMMA PowPositive == \A n \in Nat : Pow2[n] \in Nat \ {0}
<1> DEFINE S == {n \in Nat : Pow2[n] \in Nat \ {0}}
<1>1. 0 \in S
  BY PowDef
<1>2. ASSUME NEW n \in Nat, n \in S PROVE n + 1 \in S
  <2>1. Pow2[n + 1] = 2 * Pow2[n] /\ Pow2[n] \in Nat \ {0}
    BY <1>2, PowDef
  <2> QED BY <2>1
<1>3. Nat \subseteq S
  <2> HIDE DEF S
  <2> QED BY <1>1, <1>2, SetInduction
<1> QED
  BY <1>3

\* The law of exponents, for shifts that follow one another.
LEMMA PowSum ==
  ASSUME NEW a \in Nat, NEW b \in Nat
  PROVE  Pow2[a + b] = Pow2[a] * Pow2[b]
<1> DEFINE S == {n \in Nat : Pow2[a + n] = Pow2[a] * Pow2[n]}
<1>1. 0 \in S
  <2>1. a + 0 = a /\ Pow2[a] \in Nat /\ Pow2[0] = 1
    BY PowDef
  <2> QED BY <2>1
<1>2. ASSUME NEW n \in Nat, n \in S PROVE n + 1 \in S
  <2>1. Pow2[a + n] = Pow2[a] * Pow2[n]
    BY <1>2
  <2>2. Pow2[n + 1] = 2 * Pow2[n] /\ Pow2[a] \in Nat /\ Pow2[n] \in Nat
    BY PowDef
  <2>3. Pow2[(a + n) + 1] = 2 * Pow2[a + n]
    BY PowDef
  <2>4. a + (n + 1) = (a + n) + 1
    OBVIOUS
  <2>5. \A x, y \in Nat : 2 * (x * y) = x * (2 * y)
    OBVIOUS
  <2> QED BY <2>1, <2>2, <2>3, <2>4, <2>5
<1>3. Nat \subseteq S
  <2> HIDE DEF S
  <2> QED BY <1>1, <1>2, SetInduction
<1> QED
  BY <1>3

\* A smaller power divides a greater one.
LEMMA PowDivides ==
  ASSUME NEW a \in Nat, NEW b \in Nat, a <= b
  PROVE  \E q \in Nat \ {0} : Pow2[b] = Pow2[a] * q
<1>1. b - a \in Nat /\ a + (b - a) = b
  OBVIOUS
<1>2. Pow2[a + (b - a)] = Pow2[a] * Pow2[b - a]
  BY <1>1, PowSum
<1> QED
  BY <1>1, <1>2, PowPositive

\* A wider field holds no less.
LEMMA PowMonotone ==
  ASSUME NEW a \in Nat, NEW b \in Nat, a <= b
  PROVE  Pow2[a] <= Pow2[b]
<1>1. PICK q \in Nat \ {0} : Pow2[b] = Pow2[a] * q
  BY PowDivides
<1>2. Pow2[a] \in Nat \ {0}
  BY PowPositive
<1>3. 1 * Pow2[a] <= q * Pow2[a]
  BY <1>2, TimesMonotone
<1> QED
  BY <1>1, <1>2, <1>3

-----------------------------------------------------------------------------
(* Sequences of anything *)

\* A sequence of whatever it holds: Seq(S) needs an S, and the items of a
\* descriptor have no common type.
IsSeq(s) == Len(s) \in Nat /\ s = [i \in 1..Len(s) |-> s[i]]

\* A sequence whose elements are in a set is a sequence over it.
LEMMA SeqIn ==
  ASSUME NEW s, IsSeq(s), NEW T, \A i \in 1..Len(s) : s[i] \in T
  PROVE  s \in Seq(T)
<1>1. s \in [1..Len(s) -> T] /\ Len(s) \in Nat
  BY DEF IsSeq
<1> QED
  BY <1>1, SeqDef

\* A sequence over a set is a sequence.
LEMMA SeqIs ==
  ASSUME NEW T, NEW s \in Seq(T)
  PROVE  IsSeq(s) /\ \A i \in 1..Len(s) : s[i] \in T
<1>1. Len(s) \in Nat /\ s \in [1..Len(s) -> T] /\ DOMAIN s = 1..Len(s)
  BY LenProperties
<1> QED
  BY <1>1 DEF IsSeq

\* A function over 1..n is a sequence of length n.
LEMMA SeqFun ==
  ASSUME NEW n \in Nat, NEW s, s = [i \in 1..n |-> s[i]]
  PROVE  IsSeq(s) /\ Len(s) = n
<1> DEFINE T == {s[i] : i \in 1..n}
<1>1. s \in [1..n -> T]
  OBVIOUS
<1>2. s \in Seq(T)
  <2> HIDE DEF T
  <2> QED BY <1>1, SeqDef
<1>3. DOMAIN s = 1..n /\ Len(s) \in Nat /\ DOMAIN s = 1..Len(s)
  BY <1>1, <1>2, LenProperties
<1>4. Len(s) = n
  BY <1>3
<1> QED
  BY <1>4 DEF IsSeq

\* Only the empty sequence has length 0.
LEMMA SeqEmpty ==
  /\ IsSeq(<<>>) /\ Len(<<>>) = 0
  /\ \A s : IsSeq(s) => (Len(s) = 0 <=> s = <<>>)
<1>1. <<>> \in Seq({}) /\ Len(<<>>) = 0
  OBVIOUS
<1>2. IsSeq(<<>>)
  BY <1>1, SeqIs
<1>3. ASSUME NEW s, IsSeq(s), Len(s) = 0 PROVE s = <<>>
  <2>1. s \in Seq({})
    BY <1>3, SeqIn
  <2> QED BY <2>1, <1>3, EmptySeq
<1> QED
  BY <1>1, <1>2, <1>3

\* One sequence after another.
LEMMA SeqConcat ==
  ASSUME NEW s, NEW t, IsSeq(s), IsSeq(t)
  PROVE  /\ IsSeq(s \o t) /\ Len(s \o t) = Len(s) + Len(t)
         /\ \A i \in 1..Len(s) : (s \o t)[i] = s[i]
         /\ \A i \in 1..Len(t) : (s \o t)[Len(s) + i] = t[i]
<1> DEFINE T == {s[i] : i \in 1..Len(s)} \cup {t[i] : i \in 1..Len(t)}
<1>1. s \in Seq(T) /\ t \in Seq(T)
  BY SeqIn
<1> HIDE DEF T
<1>2. /\ s \o t \in Seq(T) /\ Len(s \o t) = Len(s) + Len(t)
      /\ \A i \in 1..Len(s) + Len(t) :
           (s \o t)[i] = IF i <= Len(s) THEN s[i] ELSE t[i - Len(s)]
  BY <1>1, ConcatProperties
<1>3. Len(s) \in Nat /\ Len(t) \in Nat
  BY DEF IsSeq
<1>4. IsSeq(s \o t)
  BY <1>2, SeqIs
<1>5. ASSUME NEW i \in 1..Len(t) PROVE (s \o t)[Len(s) + i] = t[i]
  <2>1. Len(s) + i \in 1..Len(s) + Len(t) /\ ~(Len(s) + i <= Len(s)) /\ Len(s) + i - Len(s) = i
    BY <1>3
  <2> QED BY <2>1, <1>2
<1>6. ASSUME NEW i \in 1..Len(s) PROVE (s \o t)[i] = s[i]
  <2>1. i \in 1..Len(s) + Len(t) /\ i <= Len(s)
    BY <1>3
  <2> QED BY <2>1, <1>2
<1> QED
  BY <1>2, <1>4, <1>5, <1>6

\* One element more.
LEMMA SeqAppend ==
  ASSUME NEW s, IsSeq(s), NEW e
  PROVE  /\ IsSeq(Append(s, e)) /\ Len(Append(s, e)) = Len(s) + 1
         /\ \A i \in 1..Len(s) : Append(s, e)[i] = s[i]
         /\ Append(s, e)[Len(s) + 1] = e
<1> DEFINE T == {s[i] : i \in 1..Len(s)} \cup {e}
<1>1. s \in Seq(T) /\ e \in T
  BY SeqIn
<1> HIDE DEF T
<1>2. /\ Append(s, e) \in Seq(T)
      /\ Len(Append(s, e)) = Len(s) + 1
      /\ \A i \in 1..Len(s) : Append(s, e)[i] = s[i]
      /\ Append(s, e)[Len(s) + 1] = e
  BY <1>1, AppendProperties
<1> QED
  BY <1>2, SeqIs

\* One element less.
LEMMA SeqFront ==
  ASSUME NEW s, IsSeq(s), s # <<>>
  PROVE  /\ IsSeq(Front(s)) /\ Len(Front(s)) = Len(s) - 1
         /\ \A i \in 1..(Len(s) - 1) : Front(s)[i] = s[i]
<1>1. Len(s) \in Nat \ {0}
  BY SeqEmpty DEF IsSeq
<1> DEFINE T == {s[i] : i \in 1..Len(s)}
<1>2. s \in Seq(T)
  BY SeqIn
<1>3. \A i \in 1..(Len(s) - 1) : s[i] \in T
  BY <1>1
<1> HIDE DEF T
<1> DEFINE n == Len(s) - 1
           t == SubSeq(s, 1, n)
<1>4. n \in Nat /\ n <= Len(s) /\ Len(s) = n + 1 /\ t = Front(s)
  BY <1>1 DEF Front
<1>5. t = [i \in 1..n |-> s[i]]
  <2> HIDE DEF n
  <2> QED BY <1>2, <1>4
<1> HIDE DEF t, n
<1>6. IsSeq(t) /\ Len(t) = n /\ \A i \in 1..n : t[i] = s[i]
  <2>1. t = [i \in 1..n |-> t[i]]
    BY <1>5
  <2>2. \A i \in 1..n : t[i] = s[i]
    BY <1>5
  <2> QED BY <2>1, <2>2, <1>4, SeqFun
<1>7. n = Len(s) - 1
  BY <1>4, <1>1
<1> QED
  BY <1>4, <1>6, <1>7

\* Sequences that agree everywhere are the same.
LEMMA SeqSame ==
  ASSUME NEW s, NEW t, IsSeq(s), IsSeq(t), Len(s) = Len(t),
         \A i \in 1..Len(s) : s[i] = t[i]
  PROVE  s = t
<1> DEFINE T == {s[i] : i \in 1..Len(s)} \cup {t[i] : i \in 1..Len(t)}
<1>1. s \in Seq(T) /\ t \in Seq(T)
  BY SeqIn
<1> HIDE DEF T
<1> QED
  BY <1>1, SeqEqual

-----------------------------------------------------------------------------
(* What each item does to what the parser knows *)

\* A state of the parser has its five parts.
HasParts(s) ==
  s = [global |-> s.global, queue |-> s.queue, path |-> s.path,
       offsets |-> s.offsets, fields |-> s.fields]

\* Replacing one part of the parser leaves the others.  The usages in wait:
LEMMA WithQueue ==
  ASSUME NEW s, HasParts(s), NEW x
  PROVE  /\ HasParts([s EXCEPT !.queue = x])
         /\ [s EXCEPT !.queue = x].global = s.global /\ [s EXCEPT !.queue = x].queue = x
         /\ [s EXCEPT !.queue = x].path = s.path /\ [s EXCEPT !.queue = x].offsets = s.offsets
         /\ [s EXCEPT !.queue = x].fields = s.fields
<1>1. [s EXCEPT !.queue = x]
        = [global |-> s.global, queue |-> x, path |-> s.path, offsets |-> s.offsets, fields |-> s.fields]
  BY DEF HasParts
<1> QED
  BY <1>1 DEF HasParts

\* The open collections:
LEMMA WithPath ==
  ASSUME NEW s, HasParts(s), NEW x
  PROVE  /\ HasParts([s EXCEPT !.path = x])
         /\ [s EXCEPT !.path = x].global = s.global /\ [s EXCEPT !.path = x].queue = s.queue
         /\ [s EXCEPT !.path = x].path = x /\ [s EXCEPT !.path = x].offsets = s.offsets
         /\ [s EXCEPT !.path = x].fields = s.fields
<1>1. [s EXCEPT !.path = x]
        = [global |-> s.global, queue |-> s.queue, path |-> x, offsets |-> s.offsets, fields |-> s.fields]
  BY DEF HasParts
<1> QED
  BY <1>1 DEF HasParts

\* The offsets:
LEMMA WithOffsets ==
  ASSUME NEW s, HasParts(s), NEW x
  PROVE  /\ HasParts([s EXCEPT !.offsets = x])
         /\ [s EXCEPT !.offsets = x].global = s.global /\ [s EXCEPT !.offsets = x].queue = s.queue
         /\ [s EXCEPT !.offsets = x].path = s.path /\ [s EXCEPT !.offsets = x].offsets = x
         /\ [s EXCEPT !.offsets = x].fields = s.fields
<1>1. [s EXCEPT !.offsets = x]
        = [global |-> s.global, queue |-> s.queue, path |-> s.path, offsets |-> x, fields |-> s.fields]
  BY DEF HasParts
<1> QED
  BY <1>1 DEF HasParts

\* The table:
LEMMA WithFields ==
  ASSUME NEW s, HasParts(s), NEW x
  PROVE  /\ HasParts([s EXCEPT !.fields = x])
         /\ [s EXCEPT !.fields = x].global = s.global /\ [s EXCEPT !.fields = x].queue = s.queue
         /\ [s EXCEPT !.fields = x].path = s.path /\ [s EXCEPT !.fields = x].offsets = s.offsets
         /\ [s EXCEPT !.fields = x].fields = x
<1>1. [s EXCEPT !.fields = x]
        = [global |-> s.global, queue |-> s.queue, path |-> s.path, offsets |-> s.offsets, fields |-> x]
  BY DEF HasParts
<1> QED
  BY <1>1 DEF HasParts

\* The kinds of items exclude each other.
LEMMA TagsApart ==
  /\ \A t \in Globals : t \notin Types /\ t \notin {"usage", "collection", "end"}
  /\ \A t \in Types : t \notin Globals /\ t \notin {"usage", "collection", "end"}
BY DEF Globals, Types

\* A global item (hid_parser.c, parse_globals).
LEMMA ItemGlobal ==
  ASSUME NEW s, HasParts(s), NEW item, item.tag \in Globals
  PROVE  /\ HasParts(Item(s, item))
         /\ Item(s, item).global = [s.global EXCEPT ![item.tag] = item.val]
         /\ Item(s, item).queue = s.queue /\ Item(s, item).path = s.path
         /\ Item(s, item).offsets = s.offsets /\ Item(s, item).fields = s.fields
<1>1. Item(s, item) = [s EXCEPT !.global[item.tag] = item.val]
  BY TagsApart DEF Item
<1>2. [s EXCEPT !.global[item.tag] = item.val]
        = [global |-> [s.global EXCEPT ![item.tag] = item.val], queue |-> s.queue,
           path |-> s.path, offsets |-> s.offsets, fields |-> s.fields]
  BY DEF HasParts
<1> QED
  BY <1>1, <1>2 DEF HasParts

\* A usage waits for a main item, if there is room in the queue.
LEMMA ItemUsage ==
  ASSUME NEW s, HasParts(s), NEW item, item.tag = "usage"
  PROVE  /\ HasParts(Item(s, item))
         /\ Item(s, item).global = s.global
         /\ Item(s, item).queue =
              IF Len(s.queue) < UsageQueue THEN Append(s.queue, item.val) ELSE s.queue
         /\ Item(s, item).path = s.path
         /\ Item(s, item).offsets = s.offsets /\ Item(s, item).fields = s.fields
<1> DEFINE q == IF Len(s.queue) < UsageQueue THEN Append(s.queue, item.val) ELSE s.queue
<1>1. Item(s, item) = [s EXCEPT !.queue = q]
  BY TagsApart DEF Item
<1> HIDE DEF q
<1>2. [s EXCEPT !.queue = q]
        = [global |-> s.global, queue |-> q,
           path |-> s.path, offsets |-> s.offsets, fields |-> s.fields]
  BY DEF HasParts
<1>3. HasParts(Item(s, item)) /\ Item(s, item).queue = q
      /\ Item(s, item).global = s.global /\ Item(s, item).path = s.path
      /\ Item(s, item).offsets = s.offsets /\ Item(s, item).fields = s.fields
  BY <1>1, <1>2 DEF HasParts
<1> QED
  BY <1>3 DEF q

\* What Collection appends to the path
Opening(s) ==
  <<s.global["page"], IF s.queue = <<>> THEN "none" ELSE Head(s.queue)>>

\* A collection opens with the first usage in wait; deeper ones are not on the path.
LEMMA ItemCollection ==
  ASSUME NEW s, HasParts(s), NEW item, item.tag = "collection"
  PROVE  /\ HasParts(Item(s, item))
         /\ Item(s, item).global = s.global /\ Item(s, item).queue = <<>>
         /\ Item(s, item).path =
              IF Len(s.path) < HID_MAX_PATH THEN Append(s.path, Opening(s)) ELSE s.path
         /\ Item(s, item).offsets = s.offsets /\ Item(s, item).fields = s.fields
<1> DEFINE p == IF Len(s.path) < HID_MAX_PATH THEN Append(s.path, Opening(s)) ELSE s.path
<1>1. Item(s, item) = Collection(s)
  BY TagsApart DEF Item
<1>2. Collection(s) = [s EXCEPT !.path = p, !.queue = <<>>]
  BY DEF Collection, Opening
<1> HIDE DEF p
<1> DEFINE t == [s EXCEPT !.path = p]
<1>3. [s EXCEPT !.path = p, !.queue = <<>>] = [t EXCEPT !.queue = <<>>]
  OBVIOUS
<1>4. HasParts(t) /\ t.global = s.global /\ t.queue = s.queue /\ t.path = p
      /\ t.offsets = s.offsets /\ t.fields = s.fields
  BY WithPath
<1> HIDE DEF t
<1> DEFINE u == [t EXCEPT !.queue = <<>>]
<1>5. HasParts(u) /\ u.global = t.global /\ u.queue = <<>> /\ u.path = t.path
      /\ u.offsets = t.offsets /\ u.fields = t.fields
  BY <1>4, WithQueue
<1>6. Item(s, item) = u
  BY <1>1, <1>2, <1>3
<1> HIDE DEF u
<1> QED
  BY <1>4, <1>5, <1>6 DEF p

\* An end closes the innermost collection, if one is open.
LEMMA ItemEnd ==
  ASSUME NEW s, HasParts(s), NEW item, item.tag = "end"
  PROVE  /\ HasParts(Item(s, item))
         /\ Item(s, item).global = s.global /\ Item(s, item).queue = s.queue
         /\ Item(s, item).path = IF s.path = <<>> THEN s.path ELSE Front(s.path)
         /\ Item(s, item).offsets = s.offsets /\ Item(s, item).fields = s.fields
<1> DEFINE p == IF s.path = <<>> THEN s.path ELSE Front(s.path)
<1>1. Item(s, item) = EndCollection(s)
  BY TagsApart DEF Item
<1>2. EndCollection(s) = [s EXCEPT !.path = p]
  BY DEF EndCollection
<1> HIDE DEF p
<1>3. [s EXCEPT !.path = p]
        = [global |-> s.global, queue |-> s.queue,
           path |-> p, offsets |-> s.offsets, fields |-> s.fields]
  BY DEF HasParts
<1>4. HasParts(Item(s, item)) /\ Item(s, item).queue = s.queue
      /\ Item(s, item).global = s.global /\ Item(s, item).path = p
      /\ Item(s, item).offsets = s.offsets /\ Item(s, item).fields = s.fields
  BY <1>1, <1>2, <1>3 DEF HasParts
<1> QED
  BY <1>4 DEF p

\* How many fields Main declares, and which
Room(s) ==
  IF s.global["count"] < HID_MAX_FIELDS - Len(s.fields)
  THEN s.global["count"] ELSE HID_MAX_FIELDS - Len(s.fields)
\* The fields an Input, Output or Feature item puts into the table, and where
\* their bits are counted.
NewFields(s, type) == [k \in 1..Room(s) |-> DeclaredField(s, type, k)]
Slot(s, type) == <<s.global["id"], type>>

\* A main item takes its fields, as far as there is room, and their bits.
LEMMA ItemMain ==
  ASSUME NEW s, HasParts(s), NEW item, item.tag \in Types
  PROVE  /\ HasParts(Item(s, item))
         /\ Item(s, item).global = s.global /\ Item(s, item).queue = <<>>
         /\ Item(s, item).path = s.path
         /\ Item(s, item).offsets =
              [s.offsets EXCEPT ![Slot(s, item.tag)] =
                 s.offsets[Slot(s, item.tag)] + Room(s) * s.global["size"]]
         /\ Item(s, item).fields = s.fields \o NewFields(s, item.tag)
<1> DEFINE fs == s.fields \o NewFields(s, item.tag)
           os == [s.offsets EXCEPT ![Slot(s, item.tag)] =
                    s.offsets[Slot(s, item.tag)] + Room(s) * s.global["size"]]
<1>1. Item(s, item) = Main(s, item.tag)
  BY TagsApart DEF Item
<1>2. Main(s, item.tag) = [s EXCEPT !.fields = fs, !.offsets = os, !.queue = <<>>]
  BY DEF Main, NewFields, Room, Slot
<1> HIDE DEF fs, os
<1> DEFINE t == [s EXCEPT !.fields = fs]
<1>4. HasParts(t) /\ t.global = s.global /\ t.queue = s.queue /\ t.path = s.path
      /\ t.offsets = s.offsets /\ t.fields = fs
  BY WithFields
<1> DEFINE u == [t EXCEPT !.offsets = os]
<1>5. HasParts(u) /\ u.global = t.global /\ u.queue = t.queue /\ u.path = t.path
      /\ u.offsets = os /\ u.fields = t.fields
  <2> HIDE DEF t
  <2> QED BY <1>4, WithOffsets
<1> DEFINE v == [u EXCEPT !.queue = <<>>]
<1>6. HasParts(v) /\ v.global = u.global /\ v.queue = <<>> /\ v.path = u.path
      /\ v.offsets = u.offsets /\ v.fields = u.fields
  <2> HIDE DEF u, t
  <2> QED BY <1>5, WithQueue
<1>7. Item(s, item) = v
  BY <1>1, <1>2
<1> HIDE DEF t, u, v
<1> QED
  BY <1>4, <1>5, <1>6, <1>7 DEF fs, os

-----------------------------------------------------------------------------
(* What the parser knows at each item *)

\* Every item of the descriptor is one the parser knows.
IsDesc(desc) == Len(desc) \in Nat /\ \A i \in 1..Len(desc) : IsItem(desc[i])

\* What the parser knows after an item is what it knew before, and the item.
LEMMA AfterUnfold ==
  ASSUME NEW desc, Len(desc) \in Nat
  PROVE  /\ After(desc)[0] = Start
         /\ \A i \in 1..Len(desc) :
              After(desc)[i] = Item(After(desc)[i - 1], desc[i])
<1> DEFINE N == Len(desc)
           Runs(n, h) == h = [i \in 0..n |-> IF i = 0 THEN Start ELSE Item(h[i - 1], desc[i])]
           S == {n \in 0..N : \E h : Runs(n, h)}
<1>1. 0 \in S
  <2> DEFINE k == [i \in 0..0 |-> Start]
  <2>1. \A i \in 0..0 : k[i] = IF i = 0 THEN Start ELSE Item(k[i - 1], desc[i])
    OBVIOUS
  <2>2. Runs(0, k)
    <3>1. k = [i \in 0..0 |-> k[i]]
      OBVIOUS
    <3> HIDE DEF k
    <3> QED BY <2>1, <3>1
  <2> HIDE DEF Runs, k
  <2> QED BY <2>2
<1>2. ASSUME NEW n \in 0..(N - 1), n \in S PROVE n + 1 \in S
  <2>1. PICK h : Runs(n, h)
    BY <1>2
  <2> DEFINE k == [i \in 0..(n + 1) |-> IF i = n + 1 THEN Item(h[n], desc[n + 1]) ELSE h[i]]
  <2>2. k = [i \in 0..(n + 1) |-> IF i = 0 THEN Start ELSE Item(k[i - 1], desc[i])]
    <3>1. ASSUME NEW i \in 0..(n + 1)
          PROVE  k[i] = IF i = 0 THEN Start ELSE Item(k[i - 1], desc[i])
      <4>1. CASE i = n + 1
        <5>1. i - 1 = n /\ n # n + 1 /\ n \in 0..(n + 1) /\ i # 0
          BY <4>1
        <5>2. k[i] = Item(h[n], desc[n + 1]) /\ k[n] = h[n]
          BY <4>1, <5>1
        <5> HIDE DEF k
        <5> QED BY <4>1, <5>1, <5>2
      <4>2. CASE i = 0
        <5>1. 0 # n + 1 /\ 0 \in 0..n
          OBVIOUS
        <5>2. k[0] = h[0] /\ h[0] = Start
          BY <2>1, <5>1
        <5> HIDE DEF k
        <5> QED BY <4>2, <5>2
      <4>3. CASE i \in 1..n
        <5>1. i \in 0..n /\ i # 0 /\ i # n + 1 /\ i - 1 # n + 1 /\ i - 1 \in 0..(n + 1)
          BY <4>3
        <5>2. k[i] = h[i] /\ k[i - 1] = h[i - 1]
          BY <5>1
        <5>3. h[i] = Item(h[i - 1], desc[i])
          BY <2>1, <5>1
        <5> HIDE DEF k
        <5> QED BY <5>1, <5>2, <5>3
      <4> QED BY <4>1, <4>2, <4>3
    <3>2. k = [i \in 0..(n + 1) |-> k[i]]
      OBVIOUS
    <3> HIDE DEF k
    <3> QED BY <3>1, <3>2
  <2>3. Runs(n + 1, k)
    BY <2>2
  <2>4. n + 1 \in 0..N
    OBVIOUS
  <2> HIDE DEF k, Runs
  <2> QED BY <2>3, <2>4
<1>3. PICK g : Runs(N, g)
  <2>1. N \in Nat
    OBVIOUS
  <2>2. 0..N \subseteq S
    <3> HIDE DEF S, N
    <3> QED BY <1>1, <1>2, <2>1, UptoInduction
  <2>3. N \in 0..N
    OBVIOUS
  <2> HIDE DEF Runs, N
  <2> QED BY <2>2, <2>3
<1>4. After(desc)
        = [i \in 0..N |-> IF i = 0 THEN Start ELSE Item(After(desc)[i - 1], desc[i])]
  BY <1>3 DEF After
<1>5. ASSUME NEW i \in 1..Len(desc)
      PROVE  After(desc)[i] = Item(After(desc)[i - 1], desc[i])
  <2>1. i \in 0..N /\ i # 0
    OBVIOUS
  <2> QED BY <1>4, <2>1
<1> QED
  BY <1>4, <1>5

\* What the global items say is of the type they say it in.
IsGlobal(g) ==
  /\ g = [x \in Globals |-> g[x]]
  /\ g["size"] \in Nat /\ g["count"] \in Nat /\ g["id"] \in Ids
  /\ g["min"] \in Int /\ g["exp"] \in Int

\* A field of the table.
IsField(f) ==
  /\ IsSeq(f.path) /\ Len(f.path) \in 1..HID_MAX_PATH
  /\ f.type \in Types /\ f.id \in Ids /\ f.size \in Nat /\ f.offset \in Nat
  /\ f.min \in Int

\* The fields of a slot lie one behind the other, below where the next goes.
Apart(s) ==
  /\ \A i \in 1..Len(s.fields) :
       s.fields[i].offset + s.fields[i].size
         <= s.offsets[<<s.fields[i].id, s.fields[i].type>>]
  /\ \A i, j \in 1..Len(s.fields) :
       i < j /\ s.fields[i].id = s.fields[j].id /\ s.fields[i].type = s.fields[j].type
         => s.fields[i].offset + s.fields[i].size <= s.fields[j].offset

\* The parser at any item of any descriptor.
IsState(s) ==
  /\ HasParts(s) /\ IsGlobal(s.global)
  /\ IsSeq(s.queue) /\ Len(s.queue) <= UsageQueue
  /\ IsSeq(s.path) /\ Len(s.path) <= HID_MAX_PATH
  /\ s.offsets \in [Slots -> Nat]
  /\ IsSeq(s.fields) /\ Len(s.fields) <= HID_MAX_FIELDS
  /\ \A i \in 1..Len(s.fields) : IsField(s.fields[i])
  /\ Apart(s)

\* The parser is like that at the start,
LEMMA StartState == IsState(Start)
<1>1. HasParts(Start) /\ Start.queue = <<>> /\ Start.path = <<>> /\ Start.fields = <<>>
      /\ Start.global = Before /\ Start.offsets = [slot \in Slots |-> 0]
  BY DEF Start, HasParts
<1>2. IsGlobal(Before)
  <2>1. /\ Before["size"] = 0 /\ Before["count"] = 0 /\ Before["id"] = 0
        /\ Before["min"] = 0 /\ Before["exp"] = 0
    BY DEF Before, Globals
  <2>2. Before = [x \in Globals |-> Before[x]]
    BY DEF Before
  <2> QED BY <2>1, <2>2, ParserAssumption DEF IsGlobal
<1>3. {HID_MAX_PATH, HID_MAX_FIELDS, UsageQueue} \subseteq Nat
  BY ParserAssumption
<1> QED
  BY <1>1, <1>2, <1>3, SeqEmpty DEF IsState, Apart

\* A field that is declared is one, and where it lies.
LEMMA NewField ==
  ASSUME NEW s, IsState(s), NEW type \in Types, NEW k \in Nat \ {0}
  PROVE  /\ IsField(DeclaredField(s, type, k))
         /\ DeclaredField(s, type, k).id = s.global["id"]
         /\ DeclaredField(s, type, k).type = type
         /\ DeclaredField(s, type, k).size = s.global["size"]
         /\ DeclaredField(s, type, k).offset =
              s.offsets[Slot(s, type)] + (k - 1) * s.global["size"]
<1> DEFINE f == DeclaredField(s, type, k)
           own == <<s.global["page"], UsageAt(s.queue, k)>>
           path == IF Len(s.path) < HID_MAX_PATH THEN Append(s.path, own) ELSE s.path
<1>1. f = Field(s.global, path, own, type, s.offsets[Slot(s, type)] + (k - 1) * s.global["size"])
  BY DEF DeclaredField, Slot
<1>2. IsSeq(path) /\ Len(path) \in 1..HID_MAX_PATH
  <2>1. HID_MAX_PATH \in Nat \ {0}
    BY ParserAssumption
  <2>2. IsSeq(s.path) /\ Len(s.path) \in Nat /\ Len(s.path) <= HID_MAX_PATH
    BY DEF IsState, IsSeq
  <2>3. IsSeq(Append(s.path, own)) /\ Len(Append(s.path, own)) = Len(s.path) + 1
    <3> HIDE DEF own
    <3> QED BY <2>2, SeqAppend
  <2> HIDE DEF own
  <2> QED BY <2>1, <2>2, <2>3
<1>3. s.global["id"] \in Ids /\ s.global["size"] \in Nat /\ s.global["min"] \in Int
  BY DEF IsState, IsGlobal
<1>4. s.offsets[Slot(s, type)] + (k - 1) * s.global["size"] \in Nat
  <2>1. Slot(s, type) \in Slots
    BY <1>3 DEF Slot, Slots
  <2>2. s.offsets[Slot(s, type)] \in Nat
    BY <2>1 DEF IsState
  <2>3. (k - 1) * s.global["size"] \in Nat
    BY <1>3, k - 1 \in Nat, TimesMonotone
  <2> QED BY <2>2, <2>3
<1> HIDE DEF path, own
<1>5. /\ f.path = path /\ f.type = type /\ f.id = s.global["id"] /\ f.size = s.global["size"]
      /\ f.offset = s.offsets[Slot(s, type)] + (k - 1) * s.global["size"]
      /\ f.min = s.global["min"]
  BY <1>1 DEF Field
<1> HIDE DEF f
<1>6. IsField(f)
  BY <1>2, <1>3, <1>4, <1>5 DEF IsField
<1> QED
  BY <1>5, <1>6 DEF f

\* The fields that Main declares lie one behind the other.
LEMMA NewFieldsPlace ==
  ASSUME NEW s, IsState(s), NEW type \in Types
  PROVE  /\ Room(s) \in Nat /\ Len(s.fields) + Room(s) <= HID_MAX_FIELDS
         /\ Room(s) * s.global["size"] \in Nat
         /\ IsSeq(NewFields(s, type)) /\ Len(NewFields(s, type)) = Room(s)
         /\ \A k \in 1..Room(s) :
              /\ NewFields(s, type)[k] = DeclaredField(s, type, k)
              /\ s.offsets[Slot(s, type)] <= DeclaredField(s, type, k).offset
              /\ DeclaredField(s, type, k).offset + s.global["size"]
                   <= s.offsets[Slot(s, type)] + Room(s) * s.global["size"]
         /\ \A k, m \in 1..Room(s) : k < m =>
              DeclaredField(s, type, k).offset + s.global["size"]
                <= DeclaredField(s, type, m).offset
<1> DEFINE n == Room(s)
           size == s.global["size"]
           at == s.offsets[Slot(s, type)]
<1>1. size \in Nat /\ s.global["id"] \in Ids /\ s.global["count"] \in Nat
  BY DEF IsState, IsGlobal
<1>2. at \in Nat
  <2>1. Slot(s, type) \in Slots
    BY <1>1 DEF Slot, Slots
  <2> QED BY <2>1 DEF IsState
<1>3. n \in Nat /\ Len(s.fields) + n <= HID_MAX_FIELDS
  BY <1>1, ParserAssumption DEF Room, IsState, IsSeq
<1>4. n * size \in Nat
  BY <1>1, <1>3, TimesMonotone
<1>5. IsSeq(NewFields(s, type)) /\ Len(NewFields(s, type)) = n
      /\ \A k \in 1..n : NewFields(s, type)[k] = DeclaredField(s, type, k)
  <2>1. NewFields(s, type) = [k \in 1..n |-> DeclaredField(s, type, k)]
    BY DEF NewFields
  <2>2. \A k \in 1..n : NewFields(s, type)[k] = DeclaredField(s, type, k)
    BY <2>1
  <2>3. NewFields(s, type) = [k \in 1..n |-> NewFields(s, type)[k]]
    BY <2>1
  <2> HIDE DEF n
  <2> QED BY <1>3, <2>2, <2>3, SeqFun
<1>6. \A k \in 1..n : DeclaredField(s, type, k).offset = at + (k - 1) * size
  BY NewField
<1>7. ASSUME NEW k \in 1..n, NEW m \in Nat, k <= m
      PROVE  /\ (k - 1) * size \in Nat /\ k * size \in Nat /\ m * size \in Nat
             /\ (k - 1) * size + size = k * size /\ k * size <= m * size
  <2>1. k - 1 \in Nat /\ k \in Nat
    OBVIOUS
  <2>2. (k - 1) * size \in Nat /\ k * size \in Nat /\ m * size \in Nat /\ k * size <= m * size
    BY <1>7, <1>1, <2>1, TimesMonotone
  <2>3. (k - 1) * size + size = k * size
    BY <1>1
  <2> QED BY <2>2, <2>3
<1>8. ASSUME NEW k \in 1..n
      PROVE  /\ at <= DeclaredField(s, type, k).offset
             /\ DeclaredField(s, type, k).offset + size <= at + n * size
  <2>1. /\ (k - 1) * size \in Nat /\ (k - 1) * size + size = k * size
        /\ k * size <= n * size /\ k * size \in Nat
    BY <1>7, <1>3
  <2> HIDE DEF n, size, at
  <2> QED BY <2>1, <1>6, <1>1, <1>2, <1>4
<1>9. ASSUME NEW k \in 1..n, NEW m \in 1..n, k < m
      PROVE  DeclaredField(s, type, k).offset + size <= DeclaredField(s, type, m).offset
  <2>1. m - 1 \in Nat /\ k <= m - 1
    BY <1>9
  <2>2. /\ (k - 1) * size \in Nat /\ (k - 1) * size + size = k * size
        /\ k * size <= (m - 1) * size /\ k * size \in Nat /\ (m - 1) * size \in Nat
    BY <1>7, <2>1
  <2> HIDE DEF n, size, at
  <2> QED BY <2>2, <1>6, <1>1, <1>2
<1> QED
  BY <1>3, <1>4, <1>5, <1>8, <1>9

\* an item that declares fields leaves it so: the new ones begin behind those of
\* the same report,
LEMMA MainState ==
  ASSUME NEW s, IsState(s), NEW item, item.tag \in Types
  PROVE  IsState(Item(s, item))
<1> DEFINE t == Item(s, item)
           new == NewFields(s, item.tag)
           n == Room(s)
           slot == Slot(s, item.tag)
           size == s.global["size"]
<1>1. /\ HasParts(t) /\ t.global = s.global /\ t.queue = <<>> /\ t.path = s.path
      /\ t.offsets = [s.offsets EXCEPT ![slot] = s.offsets[slot] + n * size]
      /\ t.fields = s.fields \o new
  BY ItemMain DEF IsState
<1>2. /\ n \in Nat /\ Len(s.fields) + n <= HID_MAX_FIELDS /\ n * size \in Nat
      /\ IsSeq(new) /\ Len(new) = n
      /\ \A k \in 1..n :
              /\ new[k] = DeclaredField(s, item.tag, k)
              /\ s.offsets[slot] <= DeclaredField(s, item.tag, k).offset
              /\ DeclaredField(s, item.tag, k).offset + size
                   <= s.offsets[slot] + n * size
      /\ \A k, m \in 1..n : k < m =>
              DeclaredField(s, item.tag, k).offset + size
                <= DeclaredField(s, item.tag, m).offset
  BY NewFieldsPlace
<1>3. s.global["id"] \in Ids /\ size \in Nat
  BY DEF IsState, IsGlobal
<1>4. slot \in Slots
  BY <1>3 DEF Slot, Slots
<1>5. s.offsets \in [Slots -> Nat] /\ s.offsets[slot] \in Nat
  BY <1>4 DEF IsState
<1>6. ASSUME NEW k \in 1..n
      PROVE  /\ IsField(new[k]) /\ new[k].id = s.global["id"] /\ new[k].type = item.tag
             /\ new[k].size = size /\ <<new[k].id, new[k].type>> = slot
  <2>1. /\ IsField(DeclaredField(s, item.tag, k))
        /\ DeclaredField(s, item.tag, k).id = s.global["id"]
        /\ DeclaredField(s, item.tag, k).type = item.tag
        /\ DeclaredField(s, item.tag, k).size = s.global["size"]
    BY NewField
  <2>2. new[k] = DeclaredField(s, item.tag, k)
    BY <1>2
  <2> QED BY <2>1, <2>2 DEF Slot
<1> HIDE DEF t, new, n
<1>7. /\ IsSeq(t.fields) /\ Len(t.fields) = Len(s.fields) + n
      /\ \A i \in 1..Len(s.fields) : t.fields[i] = s.fields[i]
      /\ \A k \in 1..n : t.fields[Len(s.fields) + k] = new[k]
  <2>1. IsSeq(s.fields) /\ IsSeq(new)
    BY <1>2 DEF IsState
  <2>2. /\ IsSeq(s.fields \o new) /\ Len(s.fields \o new) = Len(s.fields) + Len(new)
        /\ \A i \in 1..Len(s.fields) : (s.fields \o new)[i] = s.fields[i]
        /\ \A i \in 1..Len(new) : (s.fields \o new)[Len(s.fields) + i] = new[i]
    BY <2>1, SeqConcat
  <2> QED BY <2>2, <1>1, <1>2
<1>8. Len(s.fields) \in Nat
  BY DEF IsState, IsSeq
<1>9. ASSUME NEW i \in 1..Len(t.fields)
      PROVE  \/ i \in 1..Len(s.fields) /\ t.fields[i] = s.fields[i]
             \/ \E k \in 1..n : i = Len(s.fields) + k /\ t.fields[i] = new[k]
  <2>1. CASE i <= Len(s.fields)
    BY <2>1, <1>7
  <2>2. CASE i > Len(s.fields)
    <3>1. i - Len(s.fields) \in 1..n /\ i = Len(s.fields) + (i - Len(s.fields))
      BY <2>2, <1>7, <1>8, <1>2
    <3> QED BY <3>1, <1>7
  <2> QED BY <2>1, <2>2, <1>8
<1>10. t.offsets \in [Slots -> Nat] /\ t.offsets[slot] = s.offsets[slot] + n * size
       /\ \A x \in Slots : x # slot => t.offsets[x] = s.offsets[x]
  <2>1. s.offsets[slot] + n * size \in Nat
    BY <1>5, <1>2
  <2> HIDE DEF slot, size
  <2> QED BY <2>1, <1>1, <1>4, <1>5
<1>11. \A x \in Slots : s.offsets[x] <= t.offsets[x]
  <2> DEFINE more == n * size
  <2>1. more \in Nat /\ t.offsets[slot] = s.offsets[slot] + more
    BY <1>2, <1>10
  <2> HIDE DEF more, slot, size
  <2>2. ASSUME NEW x \in Slots PROVE s.offsets[x] <= t.offsets[x]
    <3>1. s.offsets[x] \in Nat
      BY <1>5
    <3>2. CASE x = slot
      BY <3>2, <2>1, <1>5
    <3>3. CASE x # slot
      BY <3>1, <3>3, <1>10
    <3> QED BY <3>2, <3>3
  <2> QED BY <2>2
<1>12. \A i \in 1..Len(s.fields) : IsField(s.fields[i])
          /\ s.fields[i].offset + s.fields[i].size
                <= s.offsets[<<s.fields[i].id, s.fields[i].type>>]
  BY DEF IsState, Apart
<1>13. \A i \in 1..Len(t.fields) : IsField(t.fields[i])
  BY <1>6, <1>9, <1>12
<1>14. ASSUME NEW i \in 1..Len(t.fields)
       PROVE  t.fields[i].offset + t.fields[i].size
                <= t.offsets[<<t.fields[i].id, t.fields[i].type>>]
  <2>1. CASE i \in 1..Len(s.fields) /\ t.fields[i] = s.fields[i]
    <3>1. s.fields[i].offset + s.fields[i].size
                <= s.offsets[<<s.fields[i].id, s.fields[i].type>>]
      BY <1>12, <2>1
    <3>5. s.fields[i].offset \in Nat /\ s.fields[i].size \in Nat
      BY <1>12, <2>1 DEF IsField
    <3>4. <<s.fields[i].id, s.fields[i].type>> \in Slots
      BY <1>12, <2>1 DEF IsField, Slots
    <3>2. /\ s.offsets[<<s.fields[i].id, s.fields[i].type>>] \in Nat
          /\ t.offsets[<<s.fields[i].id, s.fields[i].type>>] \in Nat
          /\ s.offsets[<<s.fields[i].id, s.fields[i].type>>]
               <= t.offsets[<<s.fields[i].id, s.fields[i].type>>]
      BY <3>4, <1>11, <1>10, <1>5
    <3> QED BY <2>1, <3>1, <3>2, <3>5
  <2>2. CASE \E k \in 1..n : i = Len(s.fields) + k /\ t.fields[i] = new[k]
    <3>1. PICK k \in 1..n : t.fields[i] = new[k]
      BY <2>2
    <3>2. new[k].offset + size <= s.offsets[slot] + n * size
      BY <1>2
    <3> QED BY <3>1, <3>2, <1>6, <1>10
  <2> QED BY <2>1, <2>2, <1>9
<1>15. ASSUME NEW i \in 1..Len(t.fields), NEW j \in 1..Len(t.fields), i < j,
              t.fields[i].id = t.fields[j].id, t.fields[i].type = t.fields[j].type
       PROVE  t.fields[i].offset + t.fields[i].size <= t.fields[j].offset
  <2>1. CASE j \in 1..Len(s.fields) /\ t.fields[j] = s.fields[j]
    <3>1. i \in 1..Len(s.fields) /\ t.fields[i] = s.fields[i]
      BY <2>1, <1>15, <1>7
    <3> QED BY <2>1, <3>1, <1>15 DEF IsState, Apart
  <2>2. CASE \E k \in 1..n : j = Len(s.fields) + k /\ t.fields[j] = new[k]
    <3>1. PICK k \in 1..n : j = Len(s.fields) + k /\ t.fields[j] = new[k]
      BY <2>2
    <3>2. CASE i \in 1..Len(s.fields) /\ t.fields[i] = s.fields[i]
      <4>1. <<s.fields[i].id, s.fields[i].type>> = slot
        BY <3>1, <3>2, <1>15, <1>6
      <4>2. s.fields[i].offset + s.fields[i].size <= s.offsets[slot]
        BY <4>1, <3>2, <1>12
      <4>3. s.offsets[slot] <= new[k].offset
        BY <1>2
      <4>4. s.fields[i].offset \in Nat /\ s.fields[i].size \in Nat /\ new[k].offset \in Nat
        BY <3>2, <1>12, <1>6 DEF IsField
      <4>5. s.fields[i].offset + s.fields[i].size <= new[k].offset
        <5> DEFINE old == s.fields[i].offset + s.fields[i].size
                   base == s.offsets[slot]
                   begin == new[k].offset
        <5>1. old \in Nat /\ base \in Nat /\ begin \in Nat /\ old <= base /\ base <= begin
          BY ONLY <4>2, <4>3, <4>4, <1>5
        <5> HIDE DEF old, base, begin
        <5>2. old <= begin
          BY ONLY <5>1
        <5> QED BY <5>2 DEF old, begin
      <4> QED BY <4>5, <3>1, <3>2
    <3>3. CASE \E m \in 1..n : i = Len(s.fields) + m /\ t.fields[i] = new[m]
      <4>1. PICK m \in 1..n : i = Len(s.fields) + m /\ t.fields[i] = new[m]
        BY <3>3
      <4>2. m < k
        BY <4>1, <3>1, <1>15, <1>8
      <4>3. new[m].offset + size <= new[k].offset
        BY <4>2, <1>2
      <4> QED BY <4>1, <4>3, <3>1, <1>6
    <3> QED BY <3>2, <3>3, <1>9
  <2> QED BY <2>1, <2>2, <1>9
<1>16. Apart(t)
  BY <1>14, <1>15 DEF Apart
<1>17. IsGlobal(t.global) /\ IsSeq(t.queue) /\ Len(t.queue) <= UsageQueue
       /\ IsSeq(t.path) /\ Len(t.path) <= HID_MAX_PATH
  BY <1>1, SeqEmpty, ParserAssumption DEF IsState
<1>18. Len(t.fields) <= HID_MAX_FIELDS
  BY <1>2, <1>7
<1>19. IsState(t)
  BY <1>1, <1>7, <1>10, <1>13, <1>16, <1>17, <1>18 DEF IsState
<1> QED
  BY <1>19 DEF t

\* and so does every item.
LEMMA ItemState ==
  ASSUME NEW s, IsState(s), NEW item, IsItem(item)
  PROVE  IsState(Item(s, item))
<1> DEFINE t == Item(s, item)
<1>1. item.tag \in Globals \cup Types \cup {"usage", "collection", "end"}
  BY DEF IsItem
<1>2. CASE item.tag \in Globals
  <2>1. /\ HasParts(t) /\ t.global = [s.global EXCEPT ![item.tag] = item.val]
        /\ t.queue = s.queue /\ t.path = s.path
        /\ t.offsets = s.offsets /\ t.fields = s.fields
    BY <1>2, ItemGlobal DEF IsState
  <2> HIDE DEF t
  <2>2. \A x \in Globals : t.global[x] = IF x = item.tag THEN item.val ELSE s.global[x]
    BY <2>1 DEF IsState, IsGlobal
  <2>3. t.global = [x \in Globals |-> t.global[x]]
    BY <2>1 DEF IsState, IsGlobal
  <2>4. {"size", "count", "id", "min", "exp"} \subseteq Globals
    BY DEF Globals
  <2>5. t.global["size"] \in Nat /\ t.global["count"] \in Nat
    BY <2>2, <2>4 DEF IsItem, IsState, IsGlobal
  <2>6. t.global["id"] \in Ids
    BY <2>2, <2>4 DEF IsItem, IsState, IsGlobal
  <2>7. t.global["min"] \in Int /\ t.global["exp"] \in Int
    BY <2>2, <2>4 DEF IsItem, IsState, IsGlobal
  <2>8. IsGlobal(t.global)
    BY <2>3, <2>5, <2>6, <2>7 DEF IsGlobal
  <2>9. IsState(t)
    BY <2>1, <2>8 DEF IsState, Apart
  <2> QED BY <2>9 DEF t
<1>3. CASE item.tag = "usage"
  <2>1. /\ HasParts(t) /\ t.global = s.global
        /\ t.queue = IF Len(s.queue) < UsageQueue THEN Append(s.queue, item.val) ELSE s.queue
        /\ t.path = s.path /\ t.offsets = s.offsets /\ t.fields = s.fields
    BY <1>3, ItemUsage DEF IsState
  <2>2. IsSeq(s.queue) /\ Len(s.queue) \in Nat /\ Len(s.queue) <= UsageQueue /\ UsageQueue \in Nat
    BY ParserAssumption DEF IsState, IsSeq
  <2>3. IsSeq(Append(s.queue, item.val)) /\ Len(Append(s.queue, item.val)) = Len(s.queue) + 1
    BY <2>2, SeqAppend
  <2> HIDE DEF t
  <2>4. IsSeq(t.queue) /\ Len(t.queue) <= UsageQueue
    BY <2>1, <2>2, <2>3
  <2>5. IsState(t)
    BY <2>1, <2>4 DEF IsState, Apart
  <2> QED BY <2>5 DEF t
<1>4. CASE item.tag = "collection"
  <2>1. /\ HasParts(t) /\ t.global = s.global /\ t.queue = <<>>
        /\ t.path = IF Len(s.path) < HID_MAX_PATH THEN Append(s.path, Opening(s)) ELSE s.path
        /\ t.offsets = s.offsets /\ t.fields = s.fields
    BY <1>4, ItemCollection DEF IsState
  <2>2. IsSeq(s.path) /\ Len(s.path) \in Nat /\ Len(s.path) <= HID_MAX_PATH
        /\ HID_MAX_PATH \in Nat /\ UsageQueue \in Nat
    BY ParserAssumption DEF IsState, IsSeq
  <2>3. IsSeq(Append(s.path, Opening(s))) /\ Len(Append(s.path, Opening(s))) = Len(s.path) + 1
    BY <2>2, SeqAppend
  <2> HIDE DEF t
  <2>4. IsSeq(t.path) /\ Len(t.path) <= HID_MAX_PATH
    BY <2>1, <2>2, <2>3
  <2>5. IsSeq(t.queue) /\ Len(t.queue) <= UsageQueue
    BY <2>1, <2>2, SeqEmpty
  <2>6. IsState(t)
    BY <2>1, <2>4, <2>5 DEF IsState, Apart
  <2> QED BY <2>6 DEF t
<1>5. CASE item.tag = "end"
  <2>1. /\ HasParts(t) /\ t.global = s.global /\ t.queue = s.queue
        /\ t.path = IF s.path = <<>> THEN s.path ELSE Front(s.path)
        /\ t.offsets = s.offsets /\ t.fields = s.fields
    BY <1>5, ItemEnd DEF IsState
  <2>2. IsSeq(s.path) /\ Len(s.path) \in Nat /\ Len(s.path) <= HID_MAX_PATH /\ HID_MAX_PATH \in Nat
    BY ParserAssumption DEF IsState, IsSeq
  <2>3. s.path # <<>> => IsSeq(Front(s.path)) /\ Len(Front(s.path)) = Len(s.path) - 1
    BY <2>2, SeqFront
  <2> HIDE DEF t
  <2>4. IsSeq(t.path) /\ Len(t.path) <= HID_MAX_PATH
    BY <2>1, <2>2, <2>3
  <2>5. IsState(t)
    BY <2>1, <2>4 DEF IsState, Apart
  <2> QED BY <2>5 DEF t
<1>6. CASE item.tag \in Types
  BY <1>6, MainState
<1> QED
  BY <1>1, <1>2, <1>3, <1>4, <1>5, <1>6

\* So it is like that after any number of items.
LEMMA AfterState ==
  ASSUME NEW desc, IsDesc(desc), NEW i \in 0..Len(desc)
  PROVE  IsState(After(desc)[i])
<1> DEFINE S == {n \in 0..Len(desc) : IsState(After(desc)[n])}
<1>1. Len(desc) \in Nat /\ \A n \in 1..Len(desc) : IsItem(desc[n])
  BY DEF IsDesc
<1>2. 0 \in S
  BY <1>1, AfterUnfold, StartState
<1>3. ASSUME NEW n \in 0..(Len(desc) - 1), n \in S PROVE n + 1 \in S
  <2>1. n + 1 \in 1..Len(desc) /\ n + 1 - 1 = n
    BY <1>1
  <2>2. After(desc)[n + 1] = Item(After(desc)[n], desc[n + 1])
    <3>1. After(desc)[n + 1] = Item(After(desc)[n + 1 - 1], desc[n + 1])
      BY <1>1, <2>1, AfterUnfold
    <3> QED BY <3>1, <2>1
  <2>3. IsState(After(desc)[n]) /\ IsItem(desc[n + 1])
    BY <1>3, <1>1, <2>1
  <2>4. IsState(After(desc)[n + 1])
    BY <2>2, <2>3, ItemState
  <2> QED BY <2>1, <2>4
<1>4. 0..Len(desc) \subseteq S
  <2> HIDE DEF S
  <2> QED BY <1>1, <1>2, <1>3, UptoInduction
<1> QED
  BY <1>4

\* What is known of the table that is parsed from any descriptor
IsTable(map) ==
  /\ IsSeq(map) /\ Len(map) <= HID_MAX_FIELDS
  /\ \A i \in 1..Len(map) : IsField(map[i])
  /\ \A i, j \in 1..Len(map) :
       i < j /\ map[i].id = map[j].id /\ map[i].type = map[j].type
         => map[i].offset + map[i].size <= map[j].offset

\* What the driver keeps of the descriptor is such a table.
LEMMA ParseTable ==
  ASSUME NEW desc, IsDesc(desc)
  PROVE  IsTable(Parse(desc))
<1>1. Len(desc) \in 0..Len(desc)
  BY DEF IsDesc
<1>2. IsState(After(desc)[Len(desc)])
  BY <1>1, AfterState
<1> QED
  BY <1>2 DEF Parse, IsTable, IsState, Apart

-----------------------------------------------------------------------------
(* Looking fields up *)

\* SelectInSeq finds the first that passes, or 0.
LEMMA FirstOf ==
  ASSUME NEW n \in Nat, NEW I, I \subseteq 1..n
  PROVE  /\ I = {} => (IF I # {} THEN Min(I) ELSE 0) = 0
         /\ I # {} => /\ (IF I # {} THEN Min(I) ELSE 0) \in I
                      /\ \A j \in I : (IF I # {} THEN Min(I) ELSE 0) <= j
<1>1. ASSUME I # {} PROVE Min(I) \in I /\ \A j \in I : Min(I) <= j
  <2>1. \E x \in I : \A y \in I : x <= y
    <3>1. I \subseteq Nat
      OBVIOUS
    <3> QED BY <1>1, <3>1, Least
  <2> QED BY <2>1 DEF Min
<1> QED
  BY <1>1

\* The fields a lookup may return (hid_find_field).
Ends(path, f) == f.type = "feature" /\ IsSuffix(path, f.path)

\* A lookup returns the first field that ends in the path, or none.
LEMMA Found ==
  ASSUME NEW map, IsTable(map), NEW path
  PROVE  \/ /\ Find(map, path) = NoField
            /\ \A i \in 1..Len(map) : ~Ends(path, map[i])
         \/ \E i \in 1..Len(map) :
              /\ Find(map, path) = map[i] /\ Ends(path, map[i]) /\ map[i] # NoField
              /\ \A j \in 1..(i - 1) : ~Ends(path, map[j])
<1> DEFINE I == {i \in 1..Len(map) : map[i].type = "feature" /\ IsSuffix(path, map[i].path)}
           k == IF I # {} THEN Min(I) ELSE 0
<1>1. Len(map) \in Nat
  BY DEF IsTable, IsSeq
<1>2. Find(map, path) = IF k = 0 THEN NoField ELSE map[k]
  BY DEF Find, SelectInSeq
<1>3. /\ I = {} => k = 0
      /\ I # {} => k \in I /\ \A j \in I : k <= j
  <2>1. I \subseteq 1..Len(map)
    OBVIOUS
  <2> HIDE DEF I
  <2> QED BY <1>1, <2>1, FirstOf
<1> HIDE DEF k
<1>4. \A i \in 1..Len(map) : i \in I <=> Ends(path, map[i])
  BY DEF Ends
<1>5. CASE I = {}
  BY <1>2, <1>3, <1>4, <1>5
<1>6. CASE I # {}
  <2>1. k \in I /\ \A j \in I : k <= j
    BY <1>3, <1>6
  <2>2. k \in 1..Len(map)
    BY <2>1
  <2>3. map[k] # NoField
    <3>1. Len(map[k].path) # 0
      BY <2>2 DEF IsTable, IsField
    <3>2. NoField.path = <<>> /\ Len(<<>>) = 0
      BY SeqEmpty DEF NoField
    <3> QED BY <3>1, <3>2
  <2>4. \A j \in 1..(k - 1) : ~Ends(path, map[j])
    <3> HIDE DEF I
    <3> QED BY <2>1, <2>2, <1>4, <1>1
  <2> HIDE DEF I
  <2> QED BY <1>2, <2>1, <2>2, <2>3, <2>4, <1>4
<1> QED
  BY <1>5, <1>6

\* The fields of a table as a set.
LEMMA InTable ==
  ASSUME NEW map, IsTable(map)
  PROVE  /\ ToSet(map) = {map[i] : i \in 1..Len(map)}
         /\ \A f \in ToSet(map) : IsField(f)
         /\ NoField \notin ToSet(map)
<1>1. ToSet(map) = {map[i] : i \in 1..Len(map)}
  BY DEF ToSet, IsTable, IsSeq
<1>2. \A f \in ToSet(map) : IsField(f)
  BY <1>1 DEF IsTable
<1>3. ASSUME NoField \in ToSet(map) PROVE FALSE
  <2>1. Len(NoField.path) # 0
    BY <1>2, <1>3 DEF IsField
  <2>2. NoField.path = <<>> /\ Len(<<>>) = 0
    BY SeqEmpty DEF NoField
  <2> QED BY <2>1, <2>2
<1> QED
  BY <1>1, <1>2, <1>3

\* How the device is told the fields of a name
LEMMA Resolved ==
  ASSUME NEW map, IsTable(map), NEW d, NEW name \in Names,
         Resolve(d, map, name) # NoField
  PROVE  /\ Resolve(d, map, name) \in ToSet(map)
         /\ Resolve(d, map, name).type = "feature"
         /\ \/ name \in Standard /\ IsSuffix(StandardPaths[name], Resolve(d, map, name).path)
            \/ name \in DOMAIN SummaryPaths /\ IsSuffix(SummaryPaths[name], Resolve(d, map, name).path)
            \/ name \notin Standard
<1>1. \A path : Find(map, path) # NoField =>
        /\ Find(map, path) \in ToSet(map) /\ Find(map, path).type = "feature"
        /\ IsSuffix(path, Find(map, path).path)
  BY Found, InTable DEF Ends
<1>2. CASE name \in Standard
  <2>1. Resolve(d, map, name) = IF Find(map, StandardPaths[name]) = NoField /\ name \in DOMAIN SummaryPaths
           THEN Find(map, SummaryPaths[name]) ELSE Find(map, StandardPaths[name])
    BY <1>2 DEF Resolve
  <2> QED BY <1>1, <1>2, <2>1
<1>3. CASE name \notin Standard
  <2>1. Resolve(d, map, name) = IF d.vendor = "apc" THEN Find(map, ApcPaths[name]) ELSE NoField
    BY <1>3 DEF Resolve
  <2> QED BY <1>1, <1>3, <2>1
<1> QED
  BY <1>2, <1>3

-----------------------------------------------------------------------------
(* The length of a report *)

\* The length of a report, as a function of the table.
FieldEnds(map, id) ==
  {f.offset + f.size : f \in {x \in ToSet(map) : x.type = "feature" /\ x.id = id}}
LengthIn(map, id) ==
  IF FieldEnds(map, id) = {} THEN 0
  ELSE BYTE * ((Max(FieldEnds(map, id)) + BYTE - 1) \div BYTE)

\* Length is that of the table of the driver.
LEMMA LengthIs == \A id : Length(id) = LengthIn(fields, id) /\ Length(id)' = LengthIn(fields', id)
  BY DEF Length, LengthIn, FieldEnds

\* The numbers of a table are bounded.
LEMMA TableBound ==
  ASSUME NEW map, IsTable(map)
  PROVE  \E b \in Nat : \A i \in 1..Len(map) : map[i].offset + map[i].size <= b
<1> DEFINE S == {n \in 0..Len(map) : \E b \in Nat : \A i \in 1..n : map[i].offset + map[i].size <= b}
<1>1. Len(map) \in Nat
  BY DEF IsTable, IsSeq
<1>2. 0 \in S
  BY <1>1
<1>3. ASSUME NEW n \in 0..(Len(map) - 1), n \in S PROVE n + 1 \in S
  <2>1. PICK b \in Nat : \A i \in 1..n : map[i].offset + map[i].size <= b
    BY <1>3
  <2> DEFINE e == map[n + 1].offset + map[n + 1].size
             c == IF b <= e THEN e ELSE b
  <2>2. n + 1 \in 1..Len(map) /\ n + 1 \in 0..Len(map)
    BY <1>1
  <2>3. \A i \in 1..Len(map) : map[i].offset \in Nat /\ map[i].size \in Nat
    BY DEF IsTable, IsField
  <2>4. e \in Nat /\ c \in Nat
    BY <2>2, <2>3
  <2>5. ASSUME NEW i \in 1..(n + 1) PROVE map[i].offset + map[i].size <= c
    <3>1. CASE i = n + 1
      BY <3>1, <2>4
    <3>2. CASE i \in 1..n
      <4>1. map[i].offset + map[i].size <= b /\ map[i].offset + map[i].size \in Nat
        BY <3>2, <2>1, <2>2, <2>3
      <4>2. b <= c
        BY <2>4
      <4> HIDE DEF c
      <4> QED BY <4>1, <4>2, <2>4
    <3> QED BY <3>1, <3>2
  <2> HIDE DEF c
  <2> QED BY <2>2, <2>4, <2>5
<1>4. Len(map) \in S
  <2>1. 0..Len(map) \subseteq S
    <3> HIDE DEF S
    <3> QED BY <1>1, <1>2, <1>3, UptoInduction
  <2>2. Len(map) \in 0..Len(map)
    BY <1>1
  <2> HIDE DEF S
  <2> QED BY <2>1, <2>2
<1> QED
  BY <1>4

\* A report is as long as its fields need.
LEMMA LengthFits ==
  ASSUME NEW map, IsTable(map), NEW id
  PROVE  /\ LengthIn(map, id) \in Nat
         /\ \A f \in ToSet(map) : f.type = "feature" /\ f.id = id =>
              f.offset + f.size \in Nat /\ f.offset + f.size <= LengthIn(map, id)
<1> DEFINE E == FieldEnds(map, id)
<1>1. PICK b \in Nat : \A i \in 1..Len(map) : map[i].offset + map[i].size <= b
  BY TableBound
<1>2. E \subseteq 0..b
  <2>1. ASSUME NEW f \in ToSet(map) PROVE f.offset + f.size \in 0..b
    <3>1. PICK i \in 1..Len(map) : f = map[i]
      BY InTable
    <3>2. f.offset \in Nat /\ f.size \in Nat
      BY InTable DEF IsField
    <3> QED BY <3>1, <3>2, <1>1
  <2> QED BY <2>1 DEF FieldEnds
<1>3. BYTE \in Nat \ {0}
  BY ParserAssumption
<1>4. CASE E = {}
  BY <1>4 DEF FieldEnds, LengthIn
<1>5. CASE E # {}
  <2> DEFINE m == Max(E)
             a == m + BYTE - 1
             q == a \div BYTE
  <2>1. \E x \in E : \A y \in E : y <= x
    <3> HIDE DEF E
    <3> QED BY <1>2, <1>5, Greatest
  <2>2. m \in E /\ \A y \in E : m >= y
    <3>1. \E x \in E : \A y \in E : x >= y
      <4>1. E \subseteq Int
        BY <1>2
      <4> HIDE DEF E
      <4> QED BY <2>1, <4>1
    <3> HIDE DEF E
    <3> QED BY <3>1 DEF Max
  <2>3. m \in Nat
    BY <2>2, <1>2
  <2>4. LengthIn(map, id) = BYTE * q
    BY <1>5 DEF LengthIn
  <2>5. m + BYTE - 1 \in Nat
    BY <2>3, <1>3
  <2>6. PICK x \in Int, r \in 0..(BYTE - 1) : x = q /\ r = a % BYTE /\ a = BYTE * x + r
    <3>1. a \in Int
      BY <2>5
    <3> HIDE DEF a
    <3> QED BY <3>1, <1>3, Division
  <2> HIDE DEF q, m
  <2>7. q \in Int /\ BYTE * q \in Int /\ m <= BYTE * q
    BY <2>6, <2>3, <1>3
  <2>8. LengthIn(map, id) \in Nat /\ m <= LengthIn(map, id)
    BY <2>4, <2>7, <2>3
  <2>9. ASSUME NEW f \in ToSet(map), f.type = "feature", f.id = id
        PROVE  f.offset + f.size \in Nat /\ f.offset + f.size <= LengthIn(map, id)
    <3>1. f.offset + f.size \in E
      BY <2>9 DEF FieldEnds
    <3>2. f.offset + f.size \in Nat
      BY <3>1, <1>2
    <3>3. m >= f.offset + f.size
      BY <3>1, <2>2
    <3> HIDE DEF E
    <3> QED BY <3>2, <3>3, <2>3, <2>8
  <2> QED BY <2>8, <2>9
<1> QED
  BY <1>4, <1>5

\* A path ends in another when their last parts agree, one by one.
LEMMA Suffix ==
  ASSUME NEW s, NEW t, IsSeq(s), IsSeq(t)
  PROVE  IsSuffix(s, t) <=>
           /\ Len(s) <= Len(t)
           /\ \A i \in 0..(Len(s) - 1) : t[Len(t) - i] = s[Len(s) - i]
<1> DEFINE r == Reverse(s)
           u == Reverse(t)
<1>1. Len(s) \in Nat /\ Len(t) \in Nat
  BY DEF IsSeq
<1>2. /\ r = [i \in 1..Len(s) |-> s[(Len(s) - i) + 1]]
      /\ u = [i \in 1..Len(t) |-> t[(Len(t) - i) + 1]]
  BY DEF Reverse
<1>3. /\ IsSeq(r) /\ Len(r) = Len(s) /\ \A i \in 1..Len(s) : r[i] = s[(Len(s) - i) + 1]
      /\ IsSeq(u) /\ Len(u) = Len(t) /\ \A i \in 1..Len(t) : u[i] = t[(Len(t) - i) + 1]
  <2> HIDE DEF r, u
  <2>1. r = [i \in 1..Len(s) |-> r[i]] /\ \A i \in 1..Len(s) : r[i] = s[(Len(s) - i) + 1]
    BY <1>2
  <2>2. u = [i \in 1..Len(t) |-> u[i]] /\ \A i \in 1..Len(t) : u[i] = t[(Len(t) - i) + 1]
    BY <1>2
  <2> QED BY <2>1, <2>2, <1>1, SeqFun
<1>4. IsSuffix(s, t) <=> IsPrefix(r, u)
  BY DEF IsSuffix
<1> HIDE DEF r, u
<1>5. IsPrefix(r, u) <=> Len(s) <= Len(t) /\ \A i \in 1..Len(s) : r[i] = u[i]
  <2>1. r \in Seq({r[i] : i \in 1..Len(r)}) /\ u \in Seq({u[i] : i \in 1..Len(u)})
    BY <1>3, SeqIn
  <2> DEFINE n == Len(s)
  <2>2. n \in Nat /\ Len(r) = n
    BY <1>1, <1>3
  <2>3. CASE n <= Len(u)
    <3>1. SubSeq(r, 1, n) = [i \in 1..n |-> r[i]]
      <4> HIDE DEF n
      <4> QED BY <2>1, <2>2
    <3>2. SubSeq(u, 1, n) = [i \in 1..n |-> u[i]]
      <4> HIDE DEF n
      <4> QED BY <2>1, <2>2, <2>3
    <3>3. IsPrefix(r, u) <=> SubSeq(r, 1, n) = SubSeq(u, 1, n)
      BY <2>2, <2>3 DEF IsPrefix
    <3>4. [i \in 1..n |-> r[i]] = [i \in 1..n |-> u[i]] <=> \A i \in 1..n : r[i] = u[i]
      <4>1. ASSUME [i \in 1..n |-> r[i]] = [i \in 1..n |-> u[i]], NEW i \in 1..n PROVE r[i] = u[i]
        <5>1. [j \in 1..n |-> r[j]][i] = [j \in 1..n |-> u[j]][i]
          BY <4>1
        <5> QED BY <5>1
      <4>2. ASSUME \A i \in 1..n : r[i] = u[i] PROVE [i \in 1..n |-> r[i]] = [i \in 1..n |-> u[i]]
        BY <4>2
      <4> QED BY <4>1, <4>2
    <3> QED BY <3>1, <3>2, <3>3, <3>4, <2>3, <1>3
  <2>4. CASE ~(n <= Len(u))
    BY <2>4, <2>2, <1>3 DEF IsPrefix
  <2> QED BY <2>3, <2>4
<1>6. ASSUME Len(s) <= Len(t)
      PROVE  (\A i \in 1..Len(s) : r[i] = u[i])
               <=> \A i \in 0..(Len(s) - 1) : t[Len(t) - i] = s[Len(s) - i]
  <2>1. ASSUME \A i \in 1..Len(s) : r[i] = u[i], NEW i \in 0..(Len(s) - 1)
        PROVE  t[Len(t) - i] = s[Len(s) - i]
    <3>1. i + 1 \in 1..Len(s) /\ i + 1 \in 1..Len(t)
      BY <1>1, <1>6
    <3>2. r[i + 1] = u[i + 1]
      BY <2>1, <3>1
    <3>3. r[i + 1] = s[(Len(s) - (i + 1)) + 1] /\ u[i + 1] = t[(Len(t) - (i + 1)) + 1]
      BY <1>3, <3>1
    <3>4. (Len(s) - (i + 1)) + 1 = Len(s) - i /\ (Len(t) - (i + 1)) + 1 = Len(t) - i
      BY <1>1
    <3> QED BY <3>2, <3>3, <3>4
  <2>2. ASSUME \A i \in 0..(Len(s) - 1) : t[Len(t) - i] = s[Len(s) - i], NEW i \in 1..Len(s)
        PROVE  r[i] = u[i]
    <3>1. i - 1 \in 0..(Len(s) - 1) /\ i \in 1..Len(t)
      BY <1>1, <1>6
    <3>2. t[Len(t) - (i - 1)] = s[Len(s) - (i - 1)]
      BY <2>2, <3>1
    <3>3. r[i] = s[(Len(s) - i) + 1] /\ u[i] = t[(Len(t) - i) + 1]
      BY <1>3, <3>1
    <3>4. (Len(s) - i) + 1 = Len(s) - (i - 1) /\ (Len(t) - i) + 1 = Len(t) - (i - 1)
      BY <1>1
    <3> QED BY <3>2, <3>3, <3>4
  <2> QED BY <2>1, <2>2
<1> QED
  BY <1>4, <1>5, <1>6

\* A path of one usage is found at the end of any path that ends in it.
LEMMA SuffixOne ==
  ASSUME NEW a, NEW t, IsSeq(t)
  PROVE  IsSuffix(<<a>>, t) <=> Len(t) >= 1 /\ t[Len(t)] = a
<1>1. IsSeq(<<a>>) /\ Len(<<a>>) = 1 /\ <<a>>[1] = a
  <2>1. <<a>> \in Seq({a})
    OBVIOUS
  <2>2. Len(<<a>>) = 1 /\ <<a>>[1] = a
    OBVIOUS
  <2> QED BY <2>1, <2>2, SeqIs
<1> DEFINE s == <<a>>
<1>2. IsSuffix(s, t) <=>
           /\ Len(s) <= Len(t)
           /\ \A i \in 0..(Len(s) - 1) : t[Len(t) - i] = s[Len(s) - i]
  BY <1>1, Suffix
<1>3. Len(t) \in Nat /\ Len(t) - 0 = Len(t)
  BY DEF IsSeq
<1> HIDE DEF s
<1>4. Len(s) = 1 /\ s[1] = a
  BY <1>1 DEF s
<1>5. (\A i \in 0..(Len(s) - 1) : t[Len(t) - i] = s[Len(s) - i]) <=> t[Len(t)] = a
  BY <1>3, <1>4
<1>6. IsSuffix(s, t) <=> Len(t) >= 1 /\ t[Len(t)] = a
  BY <1>2, <1>3, <1>4, <1>5
<1> QED
  BY <1>6 DEF s

\* So is a path of two.
LEMMA SuffixTwo ==
  ASSUME NEW a, NEW b, NEW t, IsSeq(t)
  PROVE  IsSuffix(<<a, b>>, t) <=> Len(t) > 1 /\ t[Len(t)] = b /\ t[Len(t) - 1] = a
<1> DEFINE s == <<a, b>>
<1>1. IsSeq(s) /\ Len(s) = 2 /\ s[1] = a /\ s[2] = b
  <2>1. s \in Seq({a, b})
    OBVIOUS
  <2>2. Len(s) = 2 /\ s[1] = a /\ s[2] = b
    OBVIOUS
  <2> HIDE DEF s
  <2> QED BY <2>1, <2>2, SeqIs
<1> HIDE DEF s
<1>2. IsSuffix(s, t) <=>
           /\ Len(s) <= Len(t)
           /\ \A i \in 0..(Len(s) - 1) : t[Len(t) - i] = s[Len(s) - i]
  BY <1>1, Suffix
<1>3. Len(t) \in Nat /\ Len(t) - 0 = Len(t)
  BY DEF IsSeq
<1>4. \A i \in 0..(Len(s) - 1) : i = 0 \/ i = 1
  BY <1>1
<1>5. 0 \in 0..(Len(s) - 1) /\ 1 \in 0..(Len(s) - 1) /\ Len(s) - 0 = 2 /\ Len(s) - 1 = 1
  BY <1>1
<1>6. (\A i \in 0..(Len(s) - 1) : t[Len(t) - i] = s[Len(s) - i])
        <=> t[Len(t)] = b /\ t[Len(t) - 1] = a
  <2>1. ASSUME \A i \in 0..(Len(s) - 1) : t[Len(t) - i] = s[Len(s) - i]
        PROVE  t[Len(t)] = b /\ t[Len(t) - 1] = a
    <3>1. t[Len(t) - 0] = s[Len(s) - 0] /\ t[Len(t) - 1] = s[Len(s) - 1]
      BY <2>1, <1>5
    <3> QED BY <3>1, <1>1, <1>3, <1>5
  <2>2. ASSUME t[Len(t)] = b, t[Len(t) - 1] = a, NEW i \in 0..(Len(s) - 1)
        PROVE  t[Len(t) - i] = s[Len(s) - i]
    <3>1. CASE i = 0
      BY <3>1, <2>2, <1>1, <1>3, <1>5
    <3>2. CASE i = 1
      BY <3>2, <2>2, <1>1, <1>5
    <3> QED BY <3>1, <3>2, <1>4
  <2> QED BY <2>1, <2>2
<1>7. IsSuffix(s, t) <=> Len(t) > 1 /\ t[Len(t)] = b /\ t[Len(t) - 1] = a
  BY <1>1, <1>2, <1>3, <1>6
<1> QED
  BY <1>7 DEF s

\* A field with its report for itself is all of the report.
LEMMA AloneLength ==
  ASSUME IsTable(fields), NEW f \in ToSet(fields), f.type = "feature", Alone(f)
  PROVE  /\ Length(f.id) = f.size /\ f.size \in Nat \ {0} /\ f.offset = 0
         /\ BYTE <= f.size /\ f.size % BYTE = 0
         /\ DataBytes(f) \in Nat \ {0} /\ f.size = DataBytes(f) * BYTE
<1>1. f.offset = 0 /\ f.size \in Nat \ {0} /\ f.size % BYTE = 0
  BY InTable DEF Alone, IsField
<1>2. {x \in ToSet(fields) : x.type = "feature" /\ x.id = f.id} = {f}
  BY DEF Alone
<1>3. FieldEnds(fields, f.id) = {f.size}
  BY <1>1, <1>2 DEF FieldEnds
<1>4. Max({f.size}) = f.size
  BY <1>1 DEF Max
<1>5. BYTE \in Nat \ {0}
  BY ParserAssumption
<1> DEFINE n == f.size \div BYTE
<1>6. n \in Int /\ f.size = BYTE * n
  <2>1. PICK q \in Int, r \in 0..(BYTE - 1) : q = f.size \div BYTE /\ r = f.size % BYTE /\ f.size = BYTE * q + r
    BY <1>1, <1>5, Division
  <2> QED BY <2>1, <1>1, <1>5
<1> HIDE DEF n
<1>7. n >= 1 /\ BYTE <= f.size
  <2>1. CASE n <= 0
    <3>1. BYTE * n <= 0
      BY <2>1, <1>5, <1>6
    <3> QED BY <3>1, <1>1, <1>6
  <2>2. CASE n >= 1
    <3>1. 1 * BYTE <= n * BYTE
      BY <2>2, <1>5, <1>6, TimesMonotone
    <3> QED BY <3>1, <2>2, <1>5, <1>6
  <2> QED BY <2>1, <2>2, <1>6
<1>8. (f.size + BYTE - 1) \div BYTE = n
  <2>1. f.size + BYTE - 1 = BYTE * n + (BYTE - 1)
    BY <1>6, <1>5
  <2>2. BYTE - 1 \in 0..(BYTE - 1)
    BY <1>5
  <2> HIDE DEF n
  <2>3. (BYTE * n + (BYTE - 1)) \div BYTE = n
    BY <1>5, <1>6, <2>2, DivisionUnique
  <2> QED BY <2>1, <2>3
<1>9. Length(f.id) = BYTE * n
  <2>1. FieldEnds(fields, f.id) # {}
    BY <1>3
  <2>2. LengthIn(fields, f.id) = BYTE * ((f.size + BYTE - 1) \div BYTE)
    BY <2>1, <1>3, <1>4 DEF LengthIn
  <2> QED BY <2>2, <1>8, LengthIs
<1>10. DataBytes(f) = n
  BY <1>8 DEF DataBytes
<1> QED
  BY <1>1, <1>5, <1>6, <1>7, <1>9, <1>10

-----------------------------------------------------------------------------
(* Reports *)

\* The lower part of a number replaced by that of another
LEMMA Replaced ==
  ASSUME NEW room \in Nat \ {0}, NEW a \in Nat, NEW d \in Nat
  PROVE  /\ (a - (a % room)) + (d % room) \in Nat
         /\ ((a - (a % room)) + (d % room)) % room = d % room
         /\ ((a - (a % room)) + (d % room)) \div room = a \div room
         /\ \A Q \in Nat : a < room * Q => (a - (a % room)) + (d % room) < room * Q
<1>1. PICK q \in Int, r \in 0..(room - 1) : q = a \div room /\ r = a % room /\ a = room * q + r
  BY Division
<1>2. PICK e \in 0..(room - 1) : e = d % room
  BY Division
<1>3. (a - (a % room)) + (d % room) = room * q + e
  BY <1>1, <1>2
<1>4. (room * q + e) \div room = q /\ (room * q + e) % room = e
  BY DivisionUnique
<1>5. room * q \in Int /\ q >= 0
  <2>1. room * q \in Int
    OBVIOUS
  <2>2. CASE q <= -1
    <3>1. room * q <= -room
      BY <2>2
    <3> QED BY <3>1, <2>1, <1>1
  <2> QED BY <2>1, <2>2
<1>6. room * q + e \in Nat
  <2>1. 0 * room <= q * room
    BY <1>5, TimesMonotone
  <2> QED BY <2>1, <1>5
<1>7. ASSUME NEW Q \in Nat, a < room * Q PROVE room * q + e < room * Q
  <2>1. CASE q >= Q
    <3>1. Q * room <= q * room
      BY <2>1, <1>5, TimesMonotone
    <3> QED BY <3>1, <1>1, <1>5, <1>7
  <2>2. CASE q + 1 <= Q
    <3>1. (q + 1) * room <= Q * room /\ (q + 1) * room \in Nat
      BY <2>2, <1>5, TimesMonotone
    <3>2. (q + 1) * room = room * q + room
      BY <1>5
    <3> QED BY <3>1, <3>2, <1>5
  <2> QED BY <2>1, <2>2, <1>5
<1> QED
  BY <1>1, <1>2, <1>3, <1>4, <1>6, <1>7

\* What the reports may hold
Holding(mem) == mem \in [Ids -> Nat] /\ \A i \in Ids : mem[i] < Pow2[Length(i)]

\* The bits that a report of n bytes replaces
Span(id, n) == IF n * BYTE <= Length(id) THEN n * BYTE ELSE Length(id)

\* A report that is sent arrives as it is, or not at all, and leaves the others.
LEMMA SentHolds ==
  ASSUME IsTable(fields), NEW mem, Holding(mem), NEW id \in Ids, NEW n \in Nat,
         NEW data \in Nat, NEW fate \in Fates
  PROVE  /\ Holding(Sent(mem, id, n, data, fate))
         /\ \A i \in Ids : i # id => Sent(mem, id, n, data, fate)[i] = mem[i]
         /\ fate # "stored" => Sent(mem, id, n, data, fate) = mem
         /\ fate = "stored" =>
              /\ Sent(mem, id, n, data, fate)[id] % Pow2[Span(id, n)]
                   = data % Pow2[Span(id, n)]
              /\ Sent(mem, id, n, data, fate)[id] \div Pow2[Span(id, n)]
                   = mem[id] \div Pow2[Span(id, n)]
              /\ Sent(mem, id, n, data, fate)[id]
                   = (mem[id] - (mem[id] % Pow2[Span(id, n)])) + (data % Pow2[Span(id, n)])
<1>1. CASE fate # "stored"
  BY <1>1 DEF Sent
<1>2. CASE fate = "stored"
  <2> DEFINE m == Span(id, n)
             room == Pow2[m]
             new == (mem[id] - (mem[id] % room)) + (data % room)
  <2>1. BYTE \in Nat \ {0} /\ n * BYTE \in Nat /\ Length(id) \in Nat
    BY ParserAssumption, LengthFits, LengthIs, TimesMonotone
  <2>2. m \in Nat /\ m <= Length(id)
    BY <2>1 DEF Span
  <2>3. Min({n * BYTE, Length(id)}) = m
    <3>1. \A x, y \in Nat : Min({x, y}) = IF x <= y THEN x ELSE y
      BY DEF Min
    <3> QED BY <3>1, <2>1 DEF Span
  <2>4. Sent(mem, id, n, data, fate) = [mem EXCEPT ![id] = new]
    BY <1>2, <2>3 DEF Sent
  <2>5. PICK Q \in Nat \ {0} : Pow2[Length(id)] = room * Q
    BY <2>1, <2>2, PowDivides
  <2>6. room \in Nat \ {0}
    <3> HIDE DEF m
    <3> QED BY <2>2, PowPositive
  <2>7. mem \in [Ids -> Nat] /\ mem[id] \in Nat /\ mem[id] < Pow2[Length(id)]
    BY DEF Holding
  <2>8. /\ new \in Nat /\ new % room = data % room /\ new \div room = mem[id] \div room
        /\ new < Pow2[Length(id)]
    <3>1. /\ new \in Nat /\ new % room = data % room /\ new \div room = mem[id] \div room
          /\ \A P \in Nat : mem[id] < room * P => new < room * P
      <4> HIDE DEF room
      <4> QED BY <2>6, <2>7, Replaced
    <3>2. Q \in Nat /\ mem[id] < room * Q
      BY <2>5, <2>7
    <3>3. new < room * Q
      <4> HIDE DEF new, room
      <4> QED BY <3>1, <3>2
    <3> HIDE DEF new, room
    <3> QED BY <3>1, <3>3, <2>5
  <2> HIDE DEF new
  <2>9. /\ [mem EXCEPT ![id] = new] \in [Ids -> Nat] /\ [mem EXCEPT ![id] = new][id] = new
        /\ \A i \in Ids : i # id => [mem EXCEPT ![id] = new][i] = mem[i]
    BY <2>7, <2>8
  <2>10. Holding([mem EXCEPT ![id] = new])
    <3>1. ASSUME NEW i \in Ids PROVE [mem EXCEPT ![id] = new][i] < Pow2[Length(i)]
      <4>1. CASE i = id
        BY <4>1, <2>8, <2>9
      <4>2. CASE i # id
        <5>1. mem[i] < Pow2[Length(i)]
          BY DEF Holding
        <5> QED BY <4>2, <5>1, <2>9
      <4> QED BY <4>1, <4>2
    <3> QED BY <2>9, <3>1 DEF Holding
  <2> QED BY <1>2, <2>4, <2>8, <2>9, <2>10 DEF new
<1> QED
  BY <1>1, <1>2

\* The bits of a report, and what is read from them
LEMMA BitsIn ==
  ASSUME NEW v \in Nat, NEW offset \in Nat, NEW size \in Nat
  PROVE  /\ Bits(v, offset, size) \in 0..(Pow2[size] - 1)
         /\ Bits(v, 0, size) = v % Pow2[size]
<1>1. Pow2[offset] \in Nat \ {0} /\ Pow2[size] \in Nat \ {0} /\ Pow2[0] = 1
  BY PowPositive, PowDef
<1>2. v \div Pow2[offset] \in Int
  <2> DEFINE d == Pow2[offset]
  <2> HIDE DEF d
  <2>1. d \in Nat \ {0}
    BY <1>1 DEF d
  <2>2. v \div d \in Int
    BY <2>1
  <2> QED BY <2>2 DEF d
<1>3. \A x \in Int : x % Pow2[size] \in 0..(Pow2[size] - 1)
  <2> DEFINE d == Pow2[size]
  <2> HIDE DEF d
  <2>1. d \in Nat \ {0}
    BY <1>1 DEF d
  <2>2. \A x \in Int : x % d \in 0..(d - 1)
    BY <2>1
  <2> QED BY <2>2 DEF d
<1>4. v \div 1 = v
  OBVIOUS
<1> QED
  BY <1>1, <1>2, <1>3, <1>4 DEF Bits

\* What is read of a field is a number of as many bits, or, in two's complement,
\* 2^size less.
LEMMA ExtractIn ==
  ASSUME NEW f, IsField(f), NEW v \in Nat
  PROVE  /\ Extract(f, v) \in Int /\ Value(f, v) \in Int
         /\ Bits(v, f.offset, f.size) \in Nat /\ Bits(v, f.offset, f.size) < Pow2[f.size]
         /\ \/ Extract(f, v) = Bits(v, f.offset, f.size)
            \/ Extract(f, v) = Bits(v, f.offset, f.size) - Pow2[f.size]
<1>1. f.size \in Nat /\ f.offset \in Nat /\ Pow2[f.size] \in Nat
  BY PowDef DEF IsField
<1>2. Bits(v, f.offset, f.size) \in 0..(Pow2[f.size] - 1)
  BY <1>1, BitsIn
<1> DEFINE b == Bits(v, f.offset, f.size)
<1>3. b \in Nat /\ b < Pow2[f.size]
  BY <1>1, <1>2
<1>4. TwosComplement(b, f.size) \in {b, b - Pow2[f.size]}
  BY DEF TwosComplement
<1>5. Extract(f, v) \in {b, b - Pow2[f.size]} /\ Value(f, v) \in {b, b - Pow2[f.size]}
  <2> HIDE DEF b
  <2>1. Extract(f, v) \in {b, TwosComplement(b, f.size)} /\ Value(f, v) \in {b, TwosComplement(b, f.size)}
    BY DEF Extract, Value, b
  <2> QED BY <2>1, <1>4
<1> HIDE DEF b
<1> QED
  BY <1>1, <1>3, <1>5 DEF b

-----------------------------------------------------------------------------
(* What every state is like: the driver knows of the device what its       *)
(* descriptor says, and the reports hold as many bits as they have.        *)

\* What the driver knows follows from the device.
Known ==
  /\ device \in Devices \cup {NoDevice}
  /\ fields = IF Opened THEN Parse(device.desc) ELSE <<>>
  /\ pdc = [n \in Names |-> IF Opened THEN Resolve(device, fields, n) ELSE NoField]
  /\ ~Opened => answer.call = "none"

\* The inductive invariant.
DeviceInv ==
  /\ Known
  /\ memory \in [Ids -> Nat] /\ nominal_watts \in Nat
  /\ Opened => Holding(memory)
  /\ changes \in 0..MaxChanges

\* The devices of the model are as DeviceAssumption says.
LEMMA DeviceDescs ==
  ASSUME NEW d \in Devices
  PROVE  /\ IsDesc(d.desc) /\ d.reports \in [Ids -> Nat] /\ d.watts \in Nat /\ d # NoDevice
         /\ IsTable(Parse(d.desc))
<1>1. /\ IsDesc(d.desc) /\ d.reports \in [Ids -> Nat] /\ d.watts \in Nat /\ d # NoDevice
  BY DeviceAssumption DEF IsDesc
<1> QED
  BY <1>1, ParseTable

\* What the driver knows is a table, and what it resolved is in it.
LEMMA KnownTable ==
  ASSUME Known
  PROVE  /\ IsTable(fields) /\ (Opened <=> device \in Devices)
         /\ \A n \in Names : pdc[n] # NoField =>
              /\ pdc[n] \in ToSet(fields) /\ IsField(pdc[n]) /\ pdc[n].type = "feature"
              /\ pdc[n].id \in Ids
              /\ Opened /\ pdc[n] = Resolve(device, fields, n)
<1>1. IsTable(<<>>)
  BY SeqEmpty, ParserAssumption DEF IsTable
<1>2. Opened <=> device \in Devices
  BY DeviceAssumption DEF Known, Opened
<1>3. IsTable(fields)
  BY <1>1, <1>2, DeviceDescs DEF Known
<1>4. ASSUME NEW n \in Names, pdc[n] # NoField
      PROVE  /\ pdc[n] \in ToSet(fields) /\ IsField(pdc[n]) /\ pdc[n].type = "feature"
             /\ pdc[n].id \in Ids
             /\ Opened /\ pdc[n] = Resolve(device, fields, n)
  <2>1. Opened /\ pdc[n] = Resolve(device, fields, n)
    BY <1>4 DEF Known
  <2>2. pdc[n] \in ToSet(fields) /\ pdc[n].type = "feature"
    BY <1>3, <1>4, <2>1, Resolved
  <2>3. IsField(pdc[n])
    BY <2>2, <1>3, InTable
  <2> QED BY <2>1, <2>2, <2>3 DEF IsField
<1> QED
  BY <1>2, <1>3, <1>4

\* As long as the table stays, so do the lengths of the reports.
LEMMA SameLengths ==
  ASSUME fields' = fields
  PROVE  \A i : Length(i)' = Length(i)
BY LengthIs

\* A value read is a number, and so is one that could not be read.
LEMMA RawIn ==
  ASSUME DeviceInv, Opened, NEW n \in Names, NEW failing
  PROVE  Raw(pdc[n], failing) \in Int
<1>1. CASE pdc[n] = NoField \/ ~Given(pdc[n].id, failing)
  BY <1>1 DEF Raw
<1>2. CASE pdc[n] # NoField /\ Given(pdc[n].id, failing)
  <2>1. IsField(pdc[n]) /\ pdc[n].id \in Ids
    BY <1>2, KnownTable DEF DeviceInv
  <2>2. memory[pdc[n].id] \in Nat
    BY <2>1 DEF DeviceInv
  <2>3. Extract(pdc[n], memory[pdc[n].id]) \in Int
    BY <2>1, <2>2, ExtractIn
  <2> QED BY <1>2, <2>3 DEF Raw
<1> QED
  BY <1>1, <1>2

\* The names the calls use are names the driver resolves.
LEMMA NamesIn ==
  /\ Standard \subseteq Names
  /\ {"delay_before_shutdown", "delay_before_startup", "config_active_power",
      "test", "alarm_control", "module_reset"} \subseteq Standard
  /\ Writable \subseteq Names /\ Registers \subseteq Names
  /\ \A c \in DOMAIN OneReport : OneReport[c][1] \in Names
  /\ Readings \subseteq Standard
<1>1. Standard \subseteq Names
  BY DEF Names
<1>2. Readings \subseteq Standard
  BY DEF Readings, Standard, StandardPaths
<1>3. Writable \subseteq Names
  BY DEF Writable, Bitfields, Names, Standard, StandardPaths, ApcPaths
<1>4. Registers \subseteq Names
  BY <1>1, <1>2, <1>3 DEF Registers, Standard, StandardPaths
<1>5. {"delay_before_shutdown", "delay_before_startup", "config_active_power",
      "test", "alarm_control", "module_reset"} \subseteq Standard
  BY DEF Standard, StandardPaths
<1>6. DOMAIN OneReport = {"abort_shutdown", "battery_test", "mute", "unmute", "clear_faults", "beep_short"}
  BY DEF OneReport
<1>7. \A c \in DOMAIN OneReport : OneReport[c][1] \in
         {"delay_before_shutdown", "test", "alarm_control", "module_reset", "lights_test"}
  BY <1>6 DEF OneReport
<1>8. "lights_test" \in Names
  BY DEF Names, ApcPaths
<1> QED
  BY <1>1, <1>2, <1>3, <1>4, <1>5, <1>7, <1>8

-----------------------------------------------------------------------------
(* What the steps of the calls do to all of that *)

\* Only the opening changes what the driver knows.
LEMMA KnownStays ==
  ASSUME Known, UNCHANGED <<device, fields, pdc>>, Opened
  PROVE  Known'
BY DEF Known, Opened

\* DeviceInv holds at first, and every call and every change of the device keeps it.
LEMMA InvInit == Init => DeviceInv
<1> SUFFICES ASSUME Init PROVE DeviceInv
  OBVIOUS
<1>1. ~Opened
  BY DEF Init, Opened
<1>2. Known
  BY <1>1 DEF Init, Known
<1> QED
  BY <1>1, <1>2, DeviceAssumption DEF Init, DeviceInv

\* hid_open: the table is parsed and every name resolved.
LEMMA OpenStep == DeviceInv /\ Open => DeviceInv'
<1> SUFFICES ASSUME DeviceInv, Open PROVE DeviceInv'
  OBVIOUS
<1>1. PICK d \in Devices :
       /\ device' = d /\ fields' = Parse(d.desc)
       /\ memory' = [i \in Ids |-> d.reports[i] % Pow2[Length(i)']]
       /\ pdc' = [n \in Names |-> Resolve(d, fields', n)]
  BY DEF Open
<1>2. /\ IsTable(fields') /\ d.reports \in [Ids -> Nat] /\ d # NoDevice
  BY <1>1, DeviceDescs
<1>3. Known'
  BY <1>1, <1>2 DEF Known, Opened
<1>4. ASSUME NEW i \in Ids PROVE memory'[i] \in Nat /\ memory'[i] < Pow2[Length(i)]'
  <2>1. LengthIn(fields', i) \in Nat
    BY <1>2, LengthFits
  <2>2. Length(i)' = LengthIn(fields', i)
    BY LengthIs
  <2> DEFINE p == Pow2[LengthIn(fields', i)]
             v == d.reports[i]
  <2>3. p \in Nat \ {0} /\ v \in Nat
    BY <2>1, <1>2, PowPositive
  <2>4. memory'[i] = v % p
    BY <1>1, <2>2
  <2>5. Pow2[Length(i)]' = p
    BY <2>2
  <2>6. v % p \in 0..(p - 1)
    <3> HIDE DEF p, v
    <3> QED BY <2>3
  <2> HIDE DEF p, v
  <2> QED BY <2>3, <2>4, <2>5, <2>6
<1>5. memory' \in [Ids -> Nat]
  BY <1>1, <1>4
<1>6. Holding(memory)'
  BY <1>4, <1>5 DEF Holding
<1> QED
  BY <1>3, <1>5, <1>6 DEF DeviceInv, Open

\* A step that changes only the reports, the nameplate and the answer
LEMMA StepKeeps ==
  ASSUME DeviceInv, Opened, UNCHANGED <<device, fields, pdc>>, Holding(memory'),
         nominal_watts' \in Nat, changes' \in 0..MaxChanges
  PROVE  DeviceInv'
<1>1. Known'
  BY KnownStays DEF DeviceInv
<1>2. Opened'
  BY DEF Opened
<1>3. Holding(memory)'
  BY SameLengths DEF Holding
<1> QED
  BY <1>1, <1>2, <1>3 DEF DeviceInv, Holding

\* The device changes its own registers.
LEMMA ChangesStep == DeviceInv /\ Changes => DeviceInv'
<1> SUFFICES ASSUME DeviceInv, Changes PROVE DeviceInv'
  OBVIOUS
<1>1. PICK id \in Ids, v \in Panel :
        memory' = [memory EXCEPT ![id] = v % Pow2[Length(id)]]
  BY DEF Changes
<1>2. v \in Nat /\ Length(id) \in Nat
  <2>1. IsTable(fields)
    BY KnownTable DEF DeviceInv
  <2> QED BY <2>1, DeviceAssumption, LengthFits, LengthIs
<1> DEFINE p == Pow2[Length(id)]
           w == v % p
<1>3. w \in Nat /\ w < p
  <2>1. p \in Nat \ {0}
    BY <1>2, PowPositive
  <2>2. v % p \in 0..(p - 1)
    <3> HIDE DEF p
    <3> QED BY <2>1, <1>2
  <2> HIDE DEF p
  <2> QED BY <2>1, <2>2
<1>4. Holding(memory) /\ Opened
  BY DEF Changes, DeviceInv
<1>5. memory' = [memory EXCEPT ![id] = w]
  BY <1>1
<1> HIDE DEF w
<1>6. \A i \in Ids : memory'[i] = IF i = id THEN w ELSE memory[i]
  BY <1>4, <1>5 DEF Holding
<1>7. memory' \in [Ids -> Nat]
  BY <1>3, <1>4, <1>5 DEF Holding
<1>8. Holding(memory')
  BY <1>3, <1>4, <1>6, <1>7 DEF Holding
<1>9. nominal_watts' \in Nat /\ changes' \in 0..MaxChanges
  BY DeviceAssumption DEF Changes, DeviceInv
<1>10. UNCHANGED <<device, fields, pdc>>
  BY DEF Changes
<1> QED
  BY <1>4, <1>8, <1>9, <1>10, StepKeeps

\* Reading changes no report.
LEMMA ReadsStep ==
  ASSUME DeviceInv, Reads, nominal_watts' \in Nat
  PROVE  DeviceInv'
<1>1. Holding(memory') /\ changes' \in 0..MaxChanges /\ Opened /\ UNCHANGED <<device, fields, pdc>>
  BY DEF Reads, DeviceInv
<1> QED
  BY <1>1, StepKeeps

\* Writing leaves reports that hold as many bits as they have.
LEMMA WritesStep ==
  ASSUME DeviceInv, Writes, Holding(memory')
  PROVE  DeviceInv'
<1>1. changes' \in 0..MaxChanges /\ Opened /\ UNCHANGED <<device, fields, pdc>> /\ nominal_watts' \in Nat
  BY DeviceAssumption DEF Writes, DeviceInv
<1> QED
  BY <1>1, StepKeeps

\* What a command sends is a number.
LEMMA CommandData ==
  \A c \in DOMAIN OneReport : OneReport[c][2] \in Nat /\ OneReport[c][3] \in Nat
<1>1. DOMAIN OneReport = {"abort_shutdown", "battery_test", "mute", "unmute", "clear_faults", "beep_short"}
  BY DEF OneReport
<1>2. Pow2[2 * BYTE] - 1 \in Nat
  <2>1. 2 * BYTE \in Nat
    BY ParserAssumption
  <2>2. Pow2[2 * BYTE] \in Nat \ {0}
    BY <2>1, PowPositive
  <2> QED BY <2>2
<1> QED
  BY <1>1, <1>2 DEF OneReport

\* What is sent for a value is a number.
LEMMA ImageIn ==
  ASSUME NEW reg, NEW f, IsField(f), memory[f.id] \in Nat, NEW value \in Nat
  PROVE  Image(reg, f, value) \in Nat /\ DataBytes(f) \in Nat
<1>1. BYTE \in Nat \ {0} /\ f.size \in Nat
  BY ParserAssumption DEF IsField
<1>2. DataBytes(f) \in Nat
  <2> DEFINE a == f.size + BYTE - 1
  <2>1. a \in Nat
    BY <1>1
  <2>2. a \div BYTE \in Nat
    <3> HIDE DEF a
    <3> QED BY <2>1, <1>1
  <2> QED BY <2>2 DEF DataBytes
<1> DEFINE p == Pow2[BYTE]
           w == Pow2[2 * BYTE]
           u == Pow2[DataBytes(f) * BYTE]
<1>3. p \in Nat \ {0} /\ w \in Nat \ {0} /\ u \in Nat \ {0}
  <2>1. 2 * BYTE \in Nat /\ DataBytes(f) * BYTE \in Nat
    BY <1>1, <1>2, TimesMonotone
  <2> QED BY <1>1, <2>1, PowPositive
<1> DEFINE now == memory[f.id] % u
<1> HIDE DEF p, w, u
<1>4. value % p \in Nat /\ value % w \in Nat /\ now \in Nat
  BY <1>3
<1> HIDE DEF now
<1>5. (now - (now % p)) + (value % p) \in Nat
  BY <1>3, <1>4, Replaced
<1> QED
  BY <1>2, <1>4, <1>5 DEF Image, p, w, u, now

\* The two delays of a shutdown are sent one after the other.
LEMMA ShutdownStep == DeviceInv /\ CmdShutdown => DeviceInv'
<1> SUFFICES ASSUME DeviceInv, CmdShutdown PROVE DeviceInv'
  OBVIOUS
<1> DEFINE countdown == pdc["delay_before_shutdown"]
           restart == pdc["delay_before_startup"]
           mid(first) == IF restart = NoField THEN memory ELSE Sent(memory, restart.id, 2, 0, first)
<1>1. PICK first \in Fates, second \in Fates :
        memory' = Sent(mid(first), countdown.id, 2, ShutdownDelay, second)
  BY DEF CmdShutdown
<1>2. IsTable(fields) /\ Holding(memory) /\ Writes /\ countdown # NoField
  BY KnownTable DEF DeviceInv, CmdShutdown, Writes
<1>3. countdown.id \in Ids /\ (restart # NoField => restart.id \in Ids)
  BY <1>2, KnownTable, NamesIn DEF DeviceInv
<1>4. ShutdownDelay \in Nat
  <2>1. BYTE - 1 \in Nat
    BY ParserAssumption
  <2> QED BY <2>1, PowPositive, DeviceAssumption
<1> HIDE DEF countdown, restart
<1>5. Holding(mid(first))
  BY <1>2, <1>3, SentHolds
<1> HIDE DEF mid
<1>6. Holding(memory')
  BY <1>1, <1>2, <1>3, <1>4, <1>5, SentHolds
<1> QED
  BY <1>2, <1>6, WritesStep

\* The other commands send one report.
LEMMA CommandStep == DeviceInv /\ (\E c \in DOMAIN OneReport : Command(c)) => DeviceInv'
<1> SUFFICES ASSUME DeviceInv, NEW c \in DOMAIN OneReport, Command(c) PROVE DeviceInv'
  OBVIOUS
<1> DEFINE f == pdc[OneReport[c][1]]
<1>1. PICK fate \in Fates :
        memory' = Sent(memory, f.id, OneReport[c][2], OneReport[c][3], fate)
  BY DEF Command
<1>2. IsTable(fields) /\ Holding(memory) /\ Writes /\ f # NoField
  BY KnownTable DEF DeviceInv, Command, Writes
<1>3. f.id \in Ids
  BY <1>2, KnownTable, NamesIn DEF DeviceInv
<1>4. OneReport[c][2] \in Nat /\ OneReport[c][3] \in Nat
  BY CommandData
<1> HIDE DEF f
<1>5. Holding(memory')
  BY <1>1, <1>2, <1>3, <1>4, SentHolds
<1> QED
  BY <1>2, <1>5, WritesStep

\* A register is written where its report has the field.
LEMMA ConfigWriteStep ==
  DeviceInv /\ (\E reg \in Writable, value \in Written : ConfigWrite(reg, value)) => DeviceInv'
<1> SUFFICES ASSUME DeviceInv, NEW reg \in Writable, NEW value \in Written,
                    ConfigWrite(reg, value)
             PROVE  DeviceInv'
  OBVIOUS
<1> DEFINE f == pdc[reg]
<1>1. \/ UNCHANGED memory
      \/ \E fate \in Fates :
           memory' = Sent(memory, f.id, DataBytes(f), Image(reg, f, value), fate)
  BY DEF ConfigWrite
<1>2. IsTable(fields) /\ Holding(memory) /\ Writes /\ f # NoField
  BY KnownTable DEF DeviceInv, ConfigWrite, Writes
<1>3. f.id \in Ids /\ IsField(f)
  BY <1>2, KnownTable, NamesIn DEF DeviceInv
<1> HIDE DEF f
<1>4. value \in Nat /\ memory[f.id] \in Nat
  BY <1>2, <1>3, DeviceAssumption DEF Holding
<1>5. Image(reg, f, value) \in Nat /\ DataBytes(f) \in Nat
  BY <1>3, <1>4, ImageIn
<1>6. Holding(memory')
  BY <1>1, <1>2, <1>3, <1>5, SentHolds
<1> QED
  BY <1>2, <1>6, WritesStep

\* The nominal power is remembered.
LEMMA InventoryStep == DeviceInv /\ ReadInventory => DeviceInv'
<1> SUFFICES ASSUME DeviceInv, ReadInventory PROVE DeviceInv'
  OBVIOUS
<1>1. PICK failing \in Faults :
        nominal_watts' = IF Raw(pdc["config_active_power"], failing) > 0
                         THEN Raw(pdc["config_active_power"], failing) ELSE device.watts
  BY DEF ReadInventory
<1>2. Reads /\ Opened
  BY DEF ReadInventory, Reads
<1>3. Raw(pdc["config_active_power"], failing) \in Int
  BY <1>2, RawIn, NamesIn
<1>4. device.watts \in Nat
  BY <1>2, KnownTable, DeviceDescs DEF DeviceInv
<1>5. nominal_watts' \in Nat
  BY <1>1, <1>3, <1>4
<1> QED
  BY <1>2, <1>5, ReadsStep

\* Every step keeps the invariant,
LEMMA InvNext == DeviceInv /\ [Next]_vars => DeviceInv'
<1> SUFFICES ASSUME DeviceInv, [Next]_vars PROVE DeviceInv'
  OBVIOUS
<1>1. CASE Open
  BY <1>1, OpenStep
<1>2. CASE Changes
  BY <1>2, ChangesStep
<1>3. CASE ReadStatus \/ ReadDynamic \/ ReadThresholds \/ \E reg \in Registers : ConfigRead(reg)
  <2>1. Reads /\ nominal_watts' \in Nat
    BY <1>3 DEF ReadStatus, ReadDynamic, ReadThresholds, ConfigRead, DeviceInv
  <2> QED BY <2>1, ReadsStep
<1>4. CASE ReadInventory
  BY <1>4, InventoryStep
<1>5. CASE CmdShutdown
  BY <1>5, ShutdownStep
<1>6. CASE \E c \in DOMAIN OneReport : Command(c)
  BY <1>6, CommandStep
<1>7. CASE \E reg \in Writable, value \in Written : ConfigWrite(reg, value)
  BY <1>7, ConfigWriteStep
<1>8. CASE UNCHANGED vars
  <2>1. UNCHANGED <<device, fields, pdc, memory, nominal_watts, answer, changes>>
    BY <1>8 DEF vars
  <2>2. Known'
    BY <2>1 DEF Known, DeviceInv, Opened
  <2>3. Opened <=> Opened'
    BY <2>1 DEF Opened
  <2>4. Holding(memory) => Holding(memory)'
    BY <2>1, SameLengths DEF Holding
  <2> QED BY <2>1, <2>2, <2>3, <2>4 DEF DeviceInv
<1> QED
  BY <1>1, <1>2, <1>3, <1>4, <1>5, <1>6, <1>7, <1>8 DEF Next

\* so it always holds.
LEMMA AlwaysDeviceInv == Spec => []DeviceInv
<1>1. Init => DeviceInv
  BY InvInit
<1>2. DeviceInv /\ [Next]_vars => DeviceInv'
  BY InvNext
<1> QED
  BY <1>1, <1>2, PTL DEF Spec

-----------------------------------------------------------------------------
\* Every reachable state is well typed: the table keeps within its bounds, what is
\* resolved is in it, and no report holds more bits than it has.
THEOREM TypeCorrect == Spec => []TypeOK
<1>1. DeviceInv => TypeOK
  <2> SUFFICES ASSUME DeviceInv PROVE TypeOK
    OBVIOUS
  <2>1. IsTable(fields)
    BY KnownTable DEF DeviceInv
  <2>2. \A i \in 1..Len(fields) : Len(fields[i].path) <= HID_MAX_PATH
    BY <2>1, ParserAssumption DEF IsTable, IsField
  <2>3. \A n \in Names : pdc[n] = NoField \/ pdc[n] \in ToSet(fields)
    BY KnownTable DEF DeviceInv
  <2> QED BY <2>1, <2>2, <2>3 DEF TypeOK, DeviceInv, Known, Holding, IsTable
<1> QED
  BY <1>1, AlwaysDeviceInv, PTL

\* The fields of one type in a report share no bit (hid_parser.c:54-58): each
\* begins where those before it in the report have ended.
THEOREM NoSharedBit == Spec => []FieldsApart
<1>1. DeviceInv => FieldsApart
  BY KnownTable DEF DeviceInv, IsTable, FieldsApart
<1> QED
  BY <1>1, AlwaysDeviceInv, PTL

-----------------------------------------------------------------------------
(* Which call an answer is of *)

\* Every call leaves an answer of its own.
LEMMA Calls ==
  /\ Init => answer.call = "none"
  /\ Open => answer'.call = "open"
  /\ Changes => answer'.call = "none"
  /\ ReadStatus => answer'.call = "status"
  /\ ReadDynamic => answer'.call = "dynamic"
  /\ ReadThresholds => answer'.call = "thresholds"
  /\ ReadInventory => answer'.call = "inventory"
  /\ CmdShutdown => answer'.call = "shutdown"
  /\ (\E c \in DOMAIN OneReport : Command(c)) =>
       answer'.call \notin {"open", "status", "dynamic", "shutdown", "config_read", "config_write"}
  /\ (\E reg \in Registers : ConfigRead(reg)) => answer'.call = "config_read"
  /\ (\E reg \in Writable, value \in Written : ConfigWrite(reg, value)) =>
       answer'.call = "config_write"
<1>1. Init => answer.call = "none"
  BY DEF Init
<1>2. Open => answer'.call = "open"
  BY DEF Open
<1>3. Changes => answer'.call = "none"
  BY DEF Changes
<1>4. ReadStatus => answer'.call = "status"
  BY DEF ReadStatus, Answers
<1>5. ReadDynamic => answer'.call = "dynamic"
  BY DEF ReadDynamic, Answers
<1>6. ReadThresholds => answer'.call = "thresholds"
  BY DEF ReadThresholds, Answers
<1>7. ReadInventory => answer'.call = "inventory"
  BY DEF ReadInventory, Answers
<1>8. CmdShutdown => answer'.call = "shutdown"
  BY DEF CmdShutdown
<1>9. ASSUME NEW c \in DOMAIN OneReport, Command(c)
      PROVE  answer'.call \notin {"open", "status", "dynamic", "shutdown", "config_read", "config_write"}
  <2>1. answer'.call = c
    BY <1>9 DEF Command
  <2> QED BY <2>1 DEF OneReport
<1>10. (\E reg \in Registers : ConfigRead(reg)) => answer'.call = "config_read"
  BY DEF ConfigRead, Answers
<1>11. (\E reg \in Writable, value \in Written : ConfigWrite(reg, value)) =>
       answer'.call = "config_write"
  BY DEF ConfigWrite
<1> QED
  BY <1>1, <1>2, <1>3, <1>4, <1>5, <1>6, <1>7, <1>8, <1>9, <1>10, <1>11

-----------------------------------------------------------------------------
\* A register is read as its descriptor says.
LEMMA ReadsDescribedStep == DeviceInv /\ ReadsDescribed /\ [Next]_vars => ReadsDescribed'
<1> SUFFICES ASSUME DeviceInv, ReadsDescribed, [Next]_vars PROVE ReadsDescribed'
  OBVIOUS
<1>1. CASE UNCHANGED vars
  BY <1>1 DEF vars, ReadsDescribed
<1>2. CASE answer'.call # "config_read"
  BY <1>2 DEF ReadsDescribed
<1>3. ASSUME NEW reg \in Registers, ConfigRead(reg) PROVE ReadsDescribed'
  <2>1. PICK failing \in Faults :
        answer' = [call |-> "config_read", ok |-> TRUE, reg |-> reg,
                given |-> Given(pdc[reg].id, failing),
                value |-> ValueByte(reg, Raw(pdc[reg], failing), pdc[reg])]
    BY <1>3 DEF ConfigRead, Answers
  <2>2. pdc[reg] # NoField /\ pdc' = pdc /\ memory' = memory
    BY <1>3 DEF ConfigRead, Reads
  <2> DEFINE f == pdc[reg]
  <2>3. ASSUME Given(f.id, failing), f.min < 0 => ~Fast(f), f.size < 4 * BYTE
        PROVE  ValueByte(reg, Raw(f, failing), f) = ValueByte(reg, Value(f, memory[f.id]), f)
    <3>1. Raw(f, failing) = Extract(f, memory[f.id])
      BY <2>2, <2>3 DEF Raw
    <3>2. IsField(f)
      BY <2>2, KnownTable, NamesIn DEF DeviceInv
    <3>3. f.size # 4 * BYTE
      BY <2>3, <3>2, ParserAssumption DEF IsField
    <3>4. Extract(f, memory[f.id]) = Value(f, memory[f.id])
      BY <3>3, <2>3 DEF Extract, Value
    <3> QED BY <3>1, <3>4
  <2> HIDE DEF f
  <2>4. /\ answer'.reg = reg /\ answer'.given = Given(f.id, failing)
        /\ answer'.value = ValueByte(reg, Raw(f, failing), f) /\ pdc'[answer'.reg] = f
    BY <2>1, <2>2 DEF f
  <2> QED BY <2>2, <2>3, <2>4 DEF ReadsDescribed
<1>4. CASE Next /\ answer'.call = "config_read"
  BY <1>3, <1>4, Calls DEF Next
<1> QED
  BY <1>1, <1>2, <1>4

\* A register is read as the descriptor says, whatever the device and whatever was
\* written before (hid_parser.c:187-242).
THEOREM ReadAsDescribed == Spec => []ReadsDescribed
<1>1. Init => ReadsDescribed
  BY Calls DEF ReadsDescribed
<1>2. DeviceInv /\ ReadsDescribed /\ [Next]_vars => ReadsDescribed'
  BY ReadsDescribedStep
<1> QED
  BY <1>1, <1>2, AlwaysDeviceInv, PTL DEF Spec

-----------------------------------------------------------------------------
(* Shutting down *)

\* A small value that is all of a field is the value of the field.
LEMMA ValueSmall ==
  ASSUME NEW f, IsField(f), f.offset = 0, BYTE <= f.size, NEW m \in Nat,
         NEW v \in 0..(Pow2[BYTE - 1] - 1), m % Pow2[f.size] = v % Pow2[f.size]
  PROVE  Value(f, m) = v
<1>1. BYTE \in Nat \ {0} /\ f.size \in Nat /\ f.size - 1 \in Nat /\ BYTE - 1 \in Nat
  BY ParserAssumption DEF IsField
<1>2. /\ Pow2[BYTE - 1] \in Nat \ {0} /\ Pow2[f.size - 1] \in Nat \ {0}
      /\ Pow2[f.size] \in Nat \ {0}
  BY <1>1, PowPositive
<1>3. Pow2[BYTE - 1] <= Pow2[f.size - 1]
  BY <1>1, PowMonotone
<1>4. Pow2[f.size - 1] <= Pow2[f.size]
  BY <1>1, PowMonotone
<1>5. v \in Nat /\ v < Pow2[f.size - 1] /\ v < Pow2[f.size]
  BY <1>2, <1>3, <1>4
<1>6. v % Pow2[f.size] = v
  <2> DEFINE d == Pow2[f.size]
  <2>1. d \in Nat \ {0} /\ v \in Nat /\ v < d
    BY <1>2, <1>5
  <2> HIDE DEF d
  <2>2. v % d = v
    BY <2>1
  <2> QED BY <2>2 DEF d
<1>7. Bits(m, f.offset, f.size) = v
  <2>1. Bits(m, 0, f.size) = m % Pow2[f.size]
    BY <1>1, BitsIn
  <2> QED BY <2>1, <1>6
<1>8. TwosComplement(v, f.size) = v
  BY <1>2, <1>5 DEF TwosComplement
<1> QED
  BY <1>7, <1>8 DEF Value

\* A report sent to a field of two bytes at most that has it for itself
LEMMA SentAlone ==
  ASSUME IsTable(fields), NEW mem, Holding(mem), NEW f \in ToSet(fields), f.type = "feature",
         Alone(f), f.size <= 2 * BYTE, NEW v \in 0..(Pow2[BYTE - 1] - 1)
  PROVE  Value(f, Sent(mem, f.id, 2, v, "stored")[f.id]) = v
<1>1. IsField(f) /\ f.id \in Ids
  BY InTable DEF IsField
<1>2. Length(f.id) = f.size /\ f.size \in Nat /\ f.offset = 0 /\ BYTE <= f.size
  BY AloneLength
<1>3. Span(f.id, 2) = f.size
  BY <1>2, ParserAssumption DEF Span
<1>4. v \in Nat /\ "stored" \in Fates
  <2>1. Pow2[BYTE - 1] \in Nat
    BY PowPositive, ParserAssumption
  <2> QED BY <2>1 DEF Fates
<1>5. /\ Holding(Sent(mem, f.id, 2, v, "stored"))
      /\ Sent(mem, f.id, 2, v, "stored")[f.id] % Pow2[f.size] = v % Pow2[f.size]
  <2>1. /\ Holding(Sent(mem, f.id, 2, v, "stored"))
        /\ Sent(mem, f.id, 2, v, "stored")[f.id] % Pow2[Span(f.id, 2)]
             = v % Pow2[Span(f.id, 2)]
    BY <1>1, <1>4, SentHolds
  <2> QED BY <2>1, <1>3
<1>6. Sent(mem, f.id, 2, v, "stored")[f.id] \in Nat
  BY <1>1, <1>5 DEF Holding
<1> QED
  BY <1>1, <1>2, <1>5, <1>6, ValueSmall

\* The delays of the shutdown and of the restart are two fields.
LEMMA DelaysApart ==
  ASSUME Known, pdc["delay_before_shutdown"] # NoField, pdc["delay_before_startup"] # NoField
  PROVE  pdc["delay_before_shutdown"] # pdc["delay_before_startup"]
<1> DEFINE down == pdc["delay_before_shutdown"]
           up == pdc["delay_before_startup"]
<1>1. /\ "delay_before_shutdown" \in Standard /\ "delay_before_startup" \in Standard
      /\ "delay_before_shutdown" \notin DOMAIN SummaryPaths
      /\ "delay_before_startup" \notin DOMAIN SummaryPaths
      /\ "delay_before_shutdown" \in Names /\ "delay_before_startup" \in Names
  BY NamesIn DEF SummaryPaths
<1>2. /\ StandardPaths["delay_before_shutdown"] = <<Pw("delay_before_shutdown")>>
      /\ StandardPaths["delay_before_startup"] = <<Pw("delay_before_startup")>>
  BY DEF StandardPaths
<1>3. /\ IsField(down) /\ IsField(up) /\ IsTable(fields)
      /\ down = Resolve(device, fields, "delay_before_shutdown")
      /\ up = Resolve(device, fields, "delay_before_startup")
  BY <1>1, KnownTable
<1>4. IsSuffix(<<Pw("delay_before_shutdown")>>, down.path)
  BY <1>1, <1>2, <1>3, Resolved
<1>5. IsSuffix(<<Pw("delay_before_startup")>>, up.path)
  BY <1>1, <1>2, <1>3, Resolved
<1>6. down.path[Len(down.path)] = Pw("delay_before_shutdown")
  BY <1>3, <1>4, SuffixOne DEF IsField
<1>7. up.path[Len(up.path)] = Pw("delay_before_startup")
  BY <1>3, <1>5, SuffixOne DEF IsField
<1>8. Pw("delay_before_shutdown") # Pw("delay_before_startup")
  BY DEF Pw
<1> QED
  BY <1>6, <1>7, <1>8

\* After a shutdown that was taken the countdown and the restart delay hold
\* what was sent.
LEMMA ArmsStep == DeviceInv /\ ShutdownArms /\ [Next]_vars => ShutdownArms'
<1> SUFFICES ASSUME DeviceInv, ShutdownArms, [Next]_vars PROVE ShutdownArms'
  OBVIOUS
<1>1. CASE UNCHANGED vars
  BY <1>1 DEF vars, ShutdownArms, Alone
<1>2. CASE answer'.call # "shutdown"
  BY <1>2 DEF ShutdownArms
<1>3. ASSUME CmdShutdown PROVE ShutdownArms'
  <2> DEFINE down == pdc["delay_before_shutdown"]
             up == pdc["delay_before_startup"]
             mid(first) == IF up = NoField THEN memory ELSE Sent(memory, up.id, 2, 0, first)
  <2>1. PICK first \in Fates, second \in Fates :
          /\ memory' = Sent(mid(first), down.id, 2, ShutdownDelay, second)
          /\ answer' = [call |-> "shutdown", ok |-> second # "refused",
                        fates |-> {second, IF up = NoField THEN second ELSE first}]
    BY <1>3 DEF CmdShutdown
  <2>2. IsTable(fields) /\ Holding(memory) /\ down # NoField /\ fields' = fields /\ pdc' = pdc
    BY <1>3, KnownTable DEF DeviceInv, CmdShutdown, Writes
  <2>3. /\ down \in ToSet(fields) /\ down.type = "feature" /\ down.id \in Ids
        /\ up # NoField => up \in ToSet(fields) /\ up.type = "feature" /\ up.id \in Ids
    BY <2>2, KnownTable, NamesIn DEF DeviceInv
  <2>4. up # NoField => up # down
    BY <2>2, DelaysApart DEF DeviceInv
  <2>5. 0 \in 0..(Pow2[BYTE - 1] - 1) /\ ShutdownDelay \in 0..(Pow2[BYTE - 1] - 1)
        /\ ShutdownDelay \in Nat
    <3>1. Pow2[BYTE - 1] \in Nat \ {0}
      BY PowPositive, ParserAssumption
    <3> QED BY <3>1, DeviceAssumption
  <2> HIDE DEF down, up
  <2>6. Holding(mid(first))
    BY <2>2, <2>3, SentHolds
  <2>7. ASSUME answer'.fates = {"stored"}
        PROVE  answer'.ok /\ second = "stored" /\ (up # NoField => first = "stored")
    <3>1. second \in answer'.fates /\ (up # NoField => first \in answer'.fates)
          /\ answer'.ok = (second # "refused")
      BY <2>1
    <3> QED BY <3>1, <2>7
  <2>8. ASSUME second = "stored", Alone(down), down.size <= 2 * BYTE
        PROVE  Value(down, memory'[down.id]) = ShutdownDelay
    BY <2>1, <2>2, <2>3, <2>5, <2>6, <2>8, SentAlone
  <2>9. ASSUME up # NoField, first = "stored", Alone(up), up.size <= 2 * BYTE
        PROVE  Value(up, memory'[up.id]) = 0
    <3>1. up.id # down.id
      BY <2>3, <2>4, <2>9 DEF Alone
    <3>2. Value(up, mid(first)[up.id]) = 0
      BY <2>2, <2>3, <2>5, <2>9, SentAlone
    <3> HIDE DEF mid
    <3>3. memory'[up.id] = mid(first)[up.id]
      <4>1. 2 \in Nat /\ second \in Fates
        OBVIOUS
      <4>2. \A i \in Ids : i # down.id =>
              Sent(mid(first), down.id, 2, ShutdownDelay, second)[i] = mid(first)[i]
        BY <4>1, <2>2, <2>3, <2>5, <2>6, SentHolds
      <4> QED BY <4>2, <2>1, <2>3, <2>9, <3>1
    <3> QED BY <3>2, <3>3
  <2>10. (Alone(down) <=> Alone(down)') /\ (Alone(up) <=> Alone(up)')
    BY <2>2 DEF Alone, down, up
  <2>11. down = down' /\ up = up'
    BY <2>2 DEF down, up
  <2> QED BY <2>7, <2>8, <2>9, <2>10, <2>11 DEF ShutdownArms, down, up
<1>4. CASE Next /\ answer'.call = "shutdown"
  BY <1>3, <1>4, Calls DEF Next
<1> QED
  BY <1>1, <1>2, <1>4

\* A shutdown whose reports were taken leaves the countdown running and the
\* restart armed (hid_pdc_core.c:687-691): the two reports do not disturb each other.
THEOREM ShutdownLeavesArmed == Spec => []ShutdownArms
<1>1. Init => ShutdownArms
  BY Calls DEF ShutdownArms
<1>2. DeviceInv /\ ShutdownArms /\ [Next]_vars => ShutdownArms'
  BY ArmsStep
<1> QED
  BY <1>1, <1>2, AlwaysDeviceInv, PTL DEF Spec

-----------------------------------------------------------------------------
(* Writing a register *)

\* What is added above a multiple of a divisor leaves the rest.
LEMMA RestOfShifted ==
  ASSUME NEW d \in Nat \ {0}, NEW b \in Nat, NEW q \in Int
  PROVE  (b - d * q) % d = b % d
<1>1. PICK s \in Int, r \in 0..(d - 1) : s = b \div d /\ r = b % d /\ b = d * s + r
  BY Division
<1>2. b - d * q = d * (s - q) + r
  BY <1>1
<1>3. s - q \in Int
  BY <1>1
<1>4. (d * (s - q) + r) % d = r
  BY <1>1, <1>3, DivisionUnique
<1> QED
  BY <1>1, <1>2, <1>4

\* What is added below a multiple of a divisor leaves the quotient.
LEMMA QuotientOfShifted ==
  ASSUME NEW d \in Nat \ {0}, NEW b \in Nat, NEW q \in Int
  PROVE  (d * q + b) \div d = q + (b \div d)
<1>1. PICK s \in Int, r \in 0..(d - 1) : s = b \div d /\ r = b % d /\ b = d * s + r
  BY Division
<1>2. d * q + b = d * (q + s) + r
  BY <1>1
<1>3. q + s \in Int
  BY <1>1
<1>4. (d * (q + s) + r) \div d = q + s
  BY <1>1, <1>3, DivisionUnique
<1> QED
  BY <1>1, <1>2, <1>4

\* The first byte of a number of several replaced in its lower part
LEMMA FirstByte ==
  ASSUME NEW d \in Nat \ {0}, NEW room \in Nat \ {0}, \E Q \in Nat \ {0} : room = d * Q,
         NEW m \in Nat, NEW v \in Nat
  PROVE  \E image \in Nat :
           /\ image = ((m % room) - ((m % room) % d)) + (v % d)
           /\ ((m - (m % room)) + (image % room)) \div d = m \div d
<1> DEFINE now == m % room
           image == (now - (now % d)) + (v % d)
<1>1. PICK q \in Int, x \in 0..(room - 1) : q = m \div room /\ x = now /\ m = room * q + x
  <2>1. \A e \in Nat \ {0} :
          \E q \in Int, x \in 0..(e - 1) : q = m \div e /\ x = m % e /\ m = e * q + x
    BY Division
  <2> QED BY <2>1
<1> HIDE DEF now
<1>2. now \in Nat /\ now < room
  BY <1>1
<1>3. /\ image \in Nat /\ image \div d = now \div d
      /\ \A P \in Nat : now < d * P => image < d * P
  BY <1>2, Replaced
<1> HIDE DEF image
<1>0. PICK Q \in Nat \ {0} : room = d * Q
  OBVIOUS
<1>4. image < room
  BY <1>0, <1>2, <1>3
<1>5. image % room = image
  BY <1>3, <1>4
<1>6. room * q = d * (Q * q) /\ Q * q \in Int
  <2>1. \A a, b, c \in Int : (a * b) * c = a * (b * c) /\ b * c \in Int
    OBVIOUS
  <2>2. d \in Int /\ Q \in Int /\ q \in Int
    BY <1>1
  <2>3. (d * Q) * q = d * (Q * q) /\ Q * q \in Int
    BY <2>1, <2>2
  <2> QED BY <2>3, <1>0
<1>7. m = d * (Q * q) + now /\ m - now = d * (Q * q)
  BY <1>1, <1>2, <1>6
<1>8. (d * (Q * q) + image) \div d = (Q * q) + (image \div d)
  BY <1>3, <1>6, QuotientOfShifted
<1>9. (d * (Q * q) + now) \div d = (Q * q) + (now \div d)
  BY <1>2, <1>6, QuotientOfShifted
<1>10. ((m - now) + image) \div d = m \div d
  BY <1>3, <1>7, <1>8, <1>9
<1> QED
  BY <1>3, <1>5, <1>10 DEF now, image

\* A readback that agrees with what was written is what the field holds.
LEMMA ReadbackHeld ==
  ASSUME NEW reg, NEW f, IsField(f), f.offset = 0, BYTE <= f.size, NEW m \in Nat,
         NEW value \in Nat, ValueByte(reg, Extract(f, m), f) = value
  PROVE  ValueByte(reg, Bits(m, f.offset, f.size), f) = value
<1> DEFINE b == Bits(m, f.offset, f.size)
           p == Pow2[f.size]
           d == Pow2[BYTE]
<1>1. b \in Nat /\ b < p /\ (Extract(f, m) = b \/ Extract(f, m) = b - p)
  BY ExtractIn
<1>2. p \in Nat \ {0} /\ d \in Nat \ {0} /\ BYTE \in Nat /\ f.size \in Nat
  BY PowPositive, ParserAssumption DEF IsField
<1>3. PICK Q \in Nat \ {0} : p = d * Q
  BY <1>2, PowDivides
<1>4. (b - d * Q) % d = b % d
  <2>1. d \in Nat \ {0} /\ b \in Nat /\ Q \in Int
    BY <1>1, <1>2
  <2> HIDE DEF b, p, d
  <2> QED BY ONLY <2>1, RestOfShifted
<1>5. (b - p) % d = b % d
  BY <1>3, <1>4
<1>6. CASE reg \in Bitfields /\ f.size > BYTE
  <2>1. \A x : ValueByte(reg, x, f) = x % d
    BY <1>6 DEF ValueByte
  <2> HIDE DEF b, p, d
  <2> QED BY <1>1, <1>5, <2>1 DEF b
<1>7. CASE ~(reg \in Bitfields /\ f.size > BYTE)
  <2>1. \A x : ValueByte(reg, x, f) = x
    BY <1>7 DEF ValueByte
  <2> HIDE DEF b, p, d
  <2>2. Extract(f, m) = value
    BY <2>1
  <2>3. Extract(f, m) = b
    BY <2>2, <1>1, <1>2
  <2> QED BY <2>1, <2>2, <2>3 DEF b
<1> QED
  BY <1>6, <1>7

\* What a write leaves in a report that is one field's
LEMMA WriteLeaves ==
  ASSUME IsTable(fields), Holding(memory), NEW f \in ToSet(fields), f.type = "feature",
         Alone(f), NEW reg \in Bitfields, NEW value \in Nat, NEW fate \in Fates
  PROVE  Sent(memory, f.id, DataBytes(f), Image(reg, f, value), fate)[f.id] \div Pow2[BYTE]
           = memory[f.id] \div Pow2[BYTE]
<1> DEFINE n == DataBytes(f)
           room == Pow2[f.size]
           d == Pow2[BYTE]
           m == memory[f.id]
           image == Image(reg, f, value)
           now == m % room
<1>1. IsField(f) /\ f.id \in Ids
  BY InTable DEF IsField
<1>2. /\ Length(f.id) = f.size /\ f.size \in Nat /\ BYTE <= f.size
      /\ n \in Nat \ {0} /\ f.size = n * BYTE
  BY AloneLength
<1>3. Span(f.id, n) = f.size
  BY <1>2 DEF Span
<1>4. m \in Nat /\ image \in Nat
  <2>1. m \in Nat
    BY <1>1 DEF Holding
  <2> QED BY <1>1, <2>1, ImageIn
<1>5. /\ fate # "stored" => Sent(memory, f.id, n, image, fate) = memory
      /\ fate = "stored" =>
           Sent(memory, f.id, n, image, fate)[f.id] = (m - (m % room)) + (image % room)
  <2>1. n \in Nat
    BY <1>2
  <2> HIDE DEF n, image
  <2>2. /\ fate # "stored" => Sent(memory, f.id, n, image, fate) = memory
        /\ fate = "stored" =>
             Sent(memory, f.id, n, image, fate)[f.id]
               = (memory[f.id] - (memory[f.id] % Pow2[Span(f.id, n)]))
                   + (image % Pow2[Span(f.id, n)])
    BY <1>1, <1>4, <2>1, SentHolds
  <2> QED BY <2>2, <1>3
<1>6. room \in Nat \ {0} /\ d \in Nat \ {0} /\ BYTE \in Nat
  BY <1>2, PowPositive, ParserAssumption
<1>7. ((m - (m % room)) + (image % room)) \div d = m \div d
  <2>1. CASE n = 1
    <3>1. room = d
      BY <2>1, <1>2, <1>6
    <3>2. ((m - (m % room)) + (image % room)) \div room = m \div room
      <4> HIDE DEF room, m, image
      <4> QED BY <1>4, <1>6, Replaced
    <3> HIDE DEF room, d, m, image
    <3> QED BY <3>1, <3>2
  <2>2. CASE n # 1
    <3>1. image = (now - (now % d)) + (value % d)
      <4>1. f.size = DataBytes(f) * BYTE
        BY <1>2
      <4> QED BY <2>2, <4>1 DEF Image
    <3>2. \E Q \in Nat \ {0} : room = d * Q
      BY <1>2, <1>6, PowDivides
    <3> HIDE DEF room, d, m, image
    <3>3. \E i \in Nat :
            /\ i = ((m % room) - ((m % room) % d)) + (value % d)
            /\ ((m - (m % room)) + (i % room)) \div d = m \div d
      BY <1>4, <1>6, <3>2, FirstByte
    <3> QED BY <3>1, <3>3
  <2> QED BY <2>1, <2>2
<1> HIDE DEF n, image, room, m, d
<1>8. CASE fate = "stored"
  BY <1>5, <1>7, <1>8 DEF n, image, m, d
<1>9. CASE fate # "stored"
  BY <1>5, <1>9 DEF n, image, m, d
<1> QED
  BY <1>8, <1>9

\* A write reports what it did to the device, and no other call says it wrote.
LEMMA WriteHonestStep == DeviceInv /\ WriteHonest /\ [Next]_vars => WriteHonest'
<1> SUFFICES ASSUME DeviceInv, WriteHonest, [Next]_vars PROVE WriteHonest'
  OBVIOUS
<1>1. CASE UNCHANGED vars
  BY <1>1 DEF vars, WriteHonest, Alone
<1>2. CASE answer'.call # "config_write"
  BY <1>2 DEF WriteHonest
<1>3. ASSUME NEW reg \in Writable, NEW value \in Written, ConfigWrite(reg, value)
      PROVE  WriteHonest'
  <2> DEFINE f == pdc[reg]
  <2>1. /\ fields' = fields /\ pdc' = pdc /\ before' = memory /\ f # NoField
        /\ IsTable(fields) /\ Holding(memory)
    BY <1>3, KnownTable DEF DeviceInv, ConfigWrite, Writes
  <2>2. f \in ToSet(fields) /\ f.type = "feature" /\ f.id \in Ids /\ IsField(f)
    BY <2>1, KnownTable, NamesIn DEF DeviceInv
  <2>3. value \in Nat
    BY DeviceAssumption
  <2>4. (Alone(f) <=> Alone(f)') /\ f' = f
    BY <2>1 DEF Alone
  <2>5. answer'.reg = reg /\ answer'.value = value /\ pdc'[answer'.reg] = f
    BY <1>3, <2>1 DEF ConfigWrite
  <2>6. \/ UNCHANGED memory /\ answer'.ok = FALSE
        \/ \E fate \in Fates, given \in BOOLEAN :
             /\ memory' = Sent(memory, f.id, DataBytes(f), Image(reg, f, value), fate)
             /\ answer'.ok =>
                  ValueByte(reg, IF given THEN Extract(f, memory'[f.id]) ELSE 0, f) = value
    <3>1. CASE UNCHANGED memory /\ answer' = [call |-> "config_write", ok |-> FALSE,
                                              reg |-> reg, value |-> value]
      BY <3>1
    <3>2. CASE \E fate \in Fates, given \in BOOLEAN :
             LET now == Sent(memory, f.id, DataBytes(f), Image(reg, f, value), fate)
                 readback == IF given THEN Extract(f, now[f.id]) ELSE 0
             IN /\ memory' = now
                /\ answer' = [call |-> "config_write",
                              ok |-> (/\ fate # "refused"
                                      /\ ValueByte(reg, readback, f) = value),
                              reg |-> reg, value |-> value]
      <4>1. PICK fate \in Fates, given \in BOOLEAN :
             LET now == Sent(memory, f.id, DataBytes(f), Image(reg, f, value), fate)
                 readback == IF given THEN Extract(f, now[f.id]) ELSE 0
             IN /\ memory' = now
                /\ answer' = [call |-> "config_write",
                              ok |-> (/\ fate # "refused"
                                      /\ ValueByte(reg, readback, f) = value),
                              reg |-> reg, value |-> value]
        BY <3>2
      <4> DEFINE readback == IF given THEN Extract(f, memory'[f.id]) ELSE 0
      <4>2. memory' = Sent(memory, f.id, DataBytes(f), Image(reg, f, value), fate)
        BY <4>1
      <4>3. answer'.ok <=> fate # "refused" /\ ValueByte(reg, readback, f) = value
        BY <4>1
      <4> QED BY <4>2, <4>3
    <3> QED BY <1>3, <3>1, <3>2 DEF ConfigWrite
  <2> HIDE DEF f
  <2>7. ASSUME Alone(f), answer'.ok, value # 0
        PROVE  ValueByte(reg, Bits(memory'[f.id], f.offset, f.size), f) = value
    <3>1. PICK fate \in Fates, given \in BOOLEAN :
             /\ memory' = Sent(memory, f.id, DataBytes(f), Image(reg, f, value), fate)
             /\ ValueByte(reg, IF given THEN Extract(f, memory'[f.id]) ELSE 0, f) = value
      BY <2>6, <2>7
    <3>2. f.offset = 0 /\ BYTE <= f.size
      BY <2>1, <2>2, <2>7, AloneLength
    <3>3. memory'[f.id] \in Nat
      <4>1. DeviceInv'
        BY InvNext
      <4> QED BY <4>1, <2>2 DEF DeviceInv
    <3>4. CASE given
      <4>1. ValueByte(reg, Extract(f, memory'[f.id]), f) = value
        BY <3>1, <3>4
      <4> QED BY <4>1, <3>2, <3>3, <2>2, <2>3, ReadbackHeld
    <3>5. CASE ~given
      <4>1. ValueByte(reg, 0, f) = value
        BY <3>1, <3>5
      <4>2. Pow2[BYTE] \in Nat \ {0}
        BY PowPositive, ParserAssumption
      <4>3. 0 % Pow2[BYTE] = 0
        BY <4>2
      <4>4. ValueByte(reg, 0, f) = 0
        BY <4>3 DEF ValueByte
      <4> QED BY <4>1, <4>4, <2>7
    <3> QED BY <3>4, <3>5
  <2>8. ASSUME Alone(f), reg \in Bitfields
        PROVE  memory'[f.id] \div Pow2[BYTE] = memory[f.id] \div Pow2[BYTE]
    <3>1. CASE UNCHANGED memory
      BY <3>1
    <3>2. CASE \E fate \in Fates :
            memory' = Sent(memory, f.id, DataBytes(f), Image(reg, f, value), fate)
      BY <3>2, <2>1, <2>2, <2>3, <2>8, WriteLeaves
    <3> QED BY <3>1, <3>2, <2>6
  <2>9. Bits(memory[f.id], f.offset, f.size)' = Bits(memory'[f.id], f.offset, f.size)
    BY <2>4
  <2> QED BY <2>1, <2>4, <2>5, <2>7, <2>8, <2>9 DEF WriteHonest
<1>4. CASE Next /\ answer'.call = "config_write"
  BY <1>3, <1>4, Calls DEF Next
<1> QED
  BY <1>1, <1>2, <1>4

\* A register that was written is in the device, and a bitfield keeps its other
\* bytes (hid_pdc_core.c:774-776).
THEOREM WrittenIsHeld == Spec => []WriteHonest
<1>1. Init => WriteHonest
  BY Calls DEF WriteHonest
<1>2. DeviceInv /\ WriteHonest /\ [Next]_vars => WriteHonest'
  BY WriteHonestStep
<1> QED
  BY <1>1, <1>2, AlwaysDeviceInv, PTL DEF Spec

-----------------------------------------------------------------------------
(* The readers *)

\* The bit that a call looks for in the status report
BitIn(usage, id, f) == IsBit(f, usage) /\ f.offset < Length(id)

\* The bit that is found is one the device reports.
LEMMA BitFound ==
  ASSUME IsTable(fields), NEW u, NEW id
  PROVE  \/ /\ ~StatusBit(u, id)
            /\ \A f \in ToSet(fields) : ~BitIn(u, id, f)
         \/ \E f \in ToSet(fields) :
              BitIn(u, id, f) /\ (StatusBit(u, id) <=> Bits(memory[id], f.offset, 1) = 1)
<1> DEFINE I == {i \in 1..Len(fields) : IsBit(fields[i], u) /\ fields[i].offset < Length(id)}
           k == IF I # {} THEN Min(I) ELSE 0
<1>1. Len(fields) \in Nat /\ ToSet(fields) = {fields[i] : i \in 1..Len(fields)}
  BY InTable DEF IsTable, IsSeq
<1>2. StatusBit(u, id) <=> k # 0 /\ Bits(memory[id], fields[k].offset, 1) = 1
  BY DEF StatusBit, SelectInSeq
<1>3. /\ I = {} => k = 0
      /\ I # {} => k \in I
  <2>1. I \subseteq 1..Len(fields)
    OBVIOUS
  <2> HIDE DEF I
  <2> QED BY <1>1, <2>1, FirstOf
<1> HIDE DEF k
<1>4. \A i \in 1..Len(fields) : i \in I <=> BitIn(u, id, fields[i])
  BY DEF BitIn
<1>5. I \subseteq 1..Len(fields)
  OBVIOUS
<1> HIDE DEF I
<1>6. CASE I = {}
  <2>1. \A f \in ToSet(fields) : ~BitIn(u, id, f)
    BY <1>1, <1>4, <1>6
  <2> QED BY <1>2, <1>3, <1>6, <2>1
<1>7. CASE I # {}
  <2>1. k \in I
    BY <1>3, <1>7
  <2>2. k \in 1..Len(fields)
    BY <2>1, <1>5
  <2>3. k # 0
    BY <2>2, <1>1
  <2>4. BitIn(u, id, fields[k]) /\ fields[k] \in ToSet(fields)
    BY <2>1, <2>2, <1>1, <1>4
  <2>5. StatusBit(u, id) <=> Bits(memory[id], fields[k].offset, 1) = 1
    BY <1>2, <2>3
  <2> QED BY <2>4, <2>5
<1> QED
  BY <1>6, <1>7

\* The report of the status is that of a field with the mains bit.
LEMMA StatusIdOf ==
  ASSUME IsTable(fields), HasStatusBit(Bt("ac_present"))
  PROVE  \E f \in ToSet(fields) : IsBit(f, Bt("ac_present")) /\ StatusId = f.id
<1> DEFINE I == {i \in 1..Len(fields) : IsBit(fields[i], Bt("ac_present"))}
           k == IF I # {} THEN Min(I) ELSE 0
<1>1. Len(fields) \in Nat /\ ToSet(fields) = {fields[i] : i \in 1..Len(fields)}
  BY InTable DEF IsTable, IsSeq
<1>2. StatusId = IF k = 0 THEN 0 ELSE fields[k].id
  BY DEF StatusId, SelectInSeq
<1>3. I # {} => k \in I
  <2>1. I \subseteq 1..Len(fields)
    OBVIOUS
  <2> HIDE DEF I
  <2> QED BY <1>1, <2>1, FirstOf
<1>4. I # {}
  BY <1>1 DEF HasStatusBit
<1> HIDE DEF k
<1>5. k \in 1..Len(fields) /\ IsBit(fields[k], Bt("ac_present"))
  BY <1>3, <1>4
<1>6. k # 0 /\ fields[k] \in ToSet(fields)
  BY <1>1, <1>5
<1> QED
  BY <1>2, <1>5, <1>6

\* A field of a bit holds a value.
Says(u, b) == \E f \in ToSet(fields) : IsBit(f, u) /\ Value(f, memory[f.id]) = b

\* A bit of the status is the value of its field.
LEMMA BitSays ==
  ASSUME IsTable(fields), memory \in [Ids -> Nat], StatusInOneReport, NEW u
  PROVE  /\ StatusBit(u, StatusId) <=> Says(u, 1)
         /\ HasStatusBit(u) /\ ~StatusBit(u, StatusId) => Says(u, 0)
<1>1. CASE \A f \in ToSet(fields) : ~IsBit(f, u)
  <2>1. \A f \in ToSet(fields) : ~BitIn(u, StatusId, f)
    BY <1>1 DEF BitIn
  <2>2. ~StatusBit(u, StatusId)
    BY <2>1, BitFound
  <2> QED BY <1>1, <2>2 DEF Says, HasStatusBit
<1>2. ASSUME NEW f \in ToSet(fields), IsBit(f, u)
      PROVE  /\ StatusBit(u, StatusId) <=> Says(u, 1)
             /\ HasStatusBit(u) /\ ~StatusBit(u, StatusId) => Says(u, 0)
  <2>1. OneBit(f) /\ f.min >= 0 /\ HasStatusBit(Bt("ac_present"))
    BY <1>2 DEF IsBit, OneBit, StatusInOneReport
  <2>2. StatusId = f.id
    <3>1. PICK g \in ToSet(fields) : IsBit(g, Bt("ac_present")) /\ StatusId = g.id
      BY <2>1, StatusIdOf
    <3>2. OneBit(g)
      BY <3>1 DEF IsBit, OneBit
    <3> QED BY <3>1, <3>2, <2>1 DEF StatusInOneReport
  <2>3. \A g \in ToSet(fields) : IsBit(g, u) => g = f
    <3>1. ASSUME NEW g \in ToSet(fields), IsBit(g, u) PROVE g = f
      <4>1. OneBit(g) /\ g.usage = f.usage
        BY <3>1, <1>2 DEF IsBit, OneBit
      <4> QED BY <4>1, <2>1 DEF StatusInOneReport
    <3> QED BY <3>1
  <2>4. IsField(f) /\ f.size = 1 /\ f.type = "feature"
    BY <1>2, InTable DEF IsBit
  <2>5. f.offset \in Nat /\ f.min \in Int /\ f.id \in Ids /\ memory[f.id] \in Nat
    BY <2>4 DEF IsField
  <2>6. f.offset < Length(f.id)
    <3>1. f.offset + f.size \in Nat /\ f.offset + f.size <= LengthIn(fields, f.id) /\ LengthIn(fields, f.id) \in Nat
      BY <2>4, LengthFits
    <3> QED BY <3>1, <2>4, <2>5, LengthIs
  <2>7. BitIn(u, StatusId, f)
    BY <1>2, <2>2, <2>6 DEF BitIn
  <2>8. StatusBit(u, StatusId) <=> Bits(memory[f.id], f.offset, 1) = 1
    <3>1. PICK g \in ToSet(fields) :
            BitIn(u, StatusId, g) /\ (StatusBit(u, StatusId) <=> Bits(memory[StatusId], g.offset, 1) = 1)
      BY <2>7, BitFound
    <3>2. g = f
      BY <3>1, <2>3 DEF BitIn
    <3> QED BY <3>1, <3>2, <2>2
  <2>9. Bits(memory[f.id], f.offset, 1) \in {0, 1}
    <3>1. Pow2[1] = 2
      <4>1. Pow2[0 + 1] = 2 * Pow2[0] /\ Pow2[0] = 1
        BY PowDef
      <4> QED BY <4>1
    <3>2. Bits(memory[f.id], f.offset, 1) \in 0..(Pow2[1] - 1)
      BY <2>5, BitsIn
    <3> HIDE DEF Bits
    <3> QED BY <3>1, <3>2
  <2>10. Value(f, memory[f.id]) = Bits(memory[f.id], f.offset, 1)
    <3>1. ~(f.min < 0)
      BY <2>1, <2>5
    <3> QED BY <3>1, <2>4 DEF Value
  <2>11. \A b : Says(u, b) <=> Bits(memory[f.id], f.offset, 1) = b
    BY <1>2, <2>3, <2>10 DEF Says
  <2> QED BY <2>8, <2>9, <2>11
<1> QED
  BY <1>1, <1>2

\* The status calls a bit set, or clear, only when the device says so.
LEMMA StatusStep == DeviceInv /\ ReadStatus => StatusHonest'
<1> SUFFICES ASSUME DeviceInv, ReadStatus, StatusInOneReport', answer'.ok PROVE StatusHonest'
  BY DEF StatusHonest
<1>1. fields' = fields /\ memory' = memory /\ device' = device /\ IsTable(fields) /\ memory \in [Ids -> Nat]
  BY KnownTable DEF DeviceInv, ReadStatus, Reads
<1>2. PICK failing \in Faults : answer' =
         IF ~Given(StatusId, failing) THEN [call |-> "status", ok |-> FALSE]
         ELSE [call |-> "status", ok |-> TRUE,
               flags |-> {g \in DOMAIN Flags : FlagSet(g, StatusId)},
               disconnected |-> Disconnected(StatusId),
               testing |-> Raw(pdc["test"], failing) = TestInProgress]
  BY DEF ReadStatus, Answers
<1>3. Given(StatusId, failing)
  BY <1>2
<1>4. /\ answer'.flags = {g \in DOMAIN Flags : FlagSet(g, StatusId)}
      /\ answer'.disconnected = Disconnected(StatusId)
  BY <1>2, <1>3
<1>5. StatusInOneReport
  BY <1>1 DEF StatusInOneReport, HasStatusBit
<1>6. \A u : /\ StatusBit(u, StatusId) <=> Says(u, 1)
             /\ HasStatusBit(u) /\ ~StatusBit(u, StatusId) => Says(u, 0)
  BY <1>1, <1>5, BitSays
<1>7. \A g \in DOMAIN Flags \ AvrFlags :
        g \in answer'.flags <=> \E u \in Flags[g] : Says(u, 1)
  BY <1>4, <1>6 DEF FlagSet
<1>8. answer'.disconnected => Says(Bt("battery_present"), 0)
  BY <1>4, <1>6 DEF Disconnected
<1>9. \A u, b : Says(u, b) <=> \E f \in ToSet(fields') : IsBit(f, u) /\ Value(f, memory'[f.id]) = b
  BY <1>1 DEF Says
<1> QED
  BY <1>7, <1>8, <1>9 DEF StatusHonest

-----------------------------------------------------------------------------
\* The fields that end in a usage in a collection
EndingIn(map, a, b) ==
  {f \in ToSet(map) : /\ f.type = "feature" /\ Last(f.path) = b
                      /\ Len(f.path) > 1 /\ f.path[Len(f.path) - 1] = a}

\* Looking one up finds one of them if there is one.
LEMMA FoundIn ==
  ASSUME NEW map, IsTable(map), NEW a, NEW b
  PROVE  /\ Find(map, <<a, b>>) = NoField => EndingIn(map, a, b) = {}
         /\ Find(map, <<a, b>>) # NoField => Find(map, <<a, b>>) \in EndingIn(map, a, b)
<1> DEFINE path == <<a, b>>
<1>1. ASSUME NEW f \in ToSet(map)
      PROVE  Ends(path, f) <=> f \in EndingIn(map, a, b)
  <2>1. IsSeq(f.path)
    BY <1>1, InTable DEF IsField
  <2>2. IsSuffix(<<a, b>>, f.path) <=> Len(f.path) > 1 /\ f.path[Len(f.path)] = b /\ f.path[Len(f.path) - 1] = a
    BY <2>1, SuffixTwo
  <2> QED BY <1>1, <2>2 DEF Ends, EndingIn, Last
<1>2. \A i \in 1..Len(map) : map[i] \in ToSet(map)
  BY InTable
<1>3. \A f \in EndingIn(map, a, b) : f \in ToSet(map)
  BY DEF EndingIn
<1>4. \A f \in ToSet(map) : \E i \in 1..Len(map) : f = map[i]
  BY InTable
<1>5. \/ /\ Find(map, path) = NoField
         /\ \A i \in 1..Len(map) : ~Ends(path, map[i])
      \/ \E i \in 1..Len(map) :
           Find(map, path) = map[i] /\ Ends(path, map[i]) /\ map[i] # NoField
  BY Found
<1> HIDE DEF path
<1>6. /\ Find(map, path) = NoField => EndingIn(map, a, b) = {}
      /\ Find(map, path) # NoField => Find(map, path) \in EndingIn(map, a, b)
  BY <1>1, <1>2, <1>3, <1>4, <1>5
<1> QED
  BY <1>6 DEF path

\* The summary collection repeats readings of the battery collection.
LEMMA SummaryNames ==
  /\ DOMAIN SummaryPaths \subseteq Readings /\ DOMAIN SummaryPaths \subseteq Standard
  /\ \A n \in DOMAIN SummaryPaths :
       /\ StandardPaths[n] = <<Pw("battery"), Last(StandardPaths[n])>>
       /\ SummaryPaths[n] = <<Pw("power_summary"), Last(StandardPaths[n])>>
<1>1. DOMAIN SummaryPaths = {"battery_voltage", "remaining_capacity", "runtime_to_empty"}
  BY DEF SummaryPaths
<1>2. DOMAIN SummaryPaths \subseteq Readings /\ DOMAIN SummaryPaths \subseteq Standard
  BY <1>1 DEF Readings, Standard, StandardPaths
<1>3. \A a, b : Last(<<a, b>>) = b
  BY DEF Last
<1>4. /\ StandardPaths["battery_voltage"] = <<Pw("battery"), Pw("voltage")>>
      /\ SummaryPaths["battery_voltage"] = <<Pw("power_summary"), Pw("voltage")>>
  BY DEF StandardPaths, SummaryPaths, Under
<1>5. /\ StandardPaths["remaining_capacity"] = <<Pw("battery"), Bt("remaining_capacity")>>
      /\ SummaryPaths["remaining_capacity"] = <<Pw("power_summary"), Bt("remaining_capacity")>>
  BY DEF StandardPaths, SummaryPaths, Under
<1>6. /\ StandardPaths["runtime_to_empty"] = <<Pw("battery"), Bt("runtime_to_empty")>>
      /\ SummaryPaths["runtime_to_empty"] = <<Pw("power_summary"), Bt("runtime_to_empty")>>
  BY DEF StandardPaths, SummaryPaths, Under
<1> QED
  BY <1>1, <1>2, <1>3, <1>4, <1>5, <1>6

\* A field in a report of no length has no bits, and reads as 0.
LEMMA RawOf ==
  ASSUME DeviceInv, Opened, NEW f \in ToSet(fields), f.type = "feature", NEW failing
  PROVE  Raw(f, failing) = IF f.id \in failing THEN 0 ELSE Extract(f, memory[f.id])
<1>1. IsTable(fields)
  BY KnownTable DEF DeviceInv
<1>2. f # NoField /\ IsField(f) /\ f.size \in Nat /\ f.offset \in Nat /\ f.id \in Ids
  BY <1>1, InTable DEF IsField
<1>3. /\ Length(f.id) \in Nat /\ f.offset + f.size <= Length(f.id)
  <2>1. f.offset + f.size <= LengthIn(fields, f.id) /\ LengthIn(fields, f.id) \in Nat
    BY <1>1, LengthFits
  <2> QED BY <2>1, LengthIs
<1>4. CASE Length(f.id) > 0 \/ f.id \in failing
  BY <1>2, <1>4 DEF Raw, Given
<1>5. CASE ~(Length(f.id) > 0) /\ f.id \notin failing
  <2>1. f.size = 0
    BY <1>2, <1>3, <1>5
  <2>2. memory[f.id] \in Nat
    BY <1>2 DEF DeviceInv
  <2>3. Bits(memory[f.id], f.offset, 0) \in 0..(Pow2[0] - 1) /\ Pow2[0] = 1
    BY <1>2, <2>2, BitsIn, PowDef
  <2>4. Bits(memory[f.id], f.offset, f.size) = 0
    BY <2>1, <2>3
  <2>5. TwosComplement(0, f.size) = 0
    BY <2>1 DEF TwosComplement
  <2>6. Extract(f, memory[f.id]) = 0
    <3> HIDE DEF Bits, TwosComplement
    <3> QED BY <2>4, <2>5 DEF Extract
  <2> QED BY <1>2, <1>5, <2>6 DEF Raw, Given
<1> QED
  BY <1>4, <1>5

\* The dynamic readings are those of the first field that has the path.
LEMMA DynamicStep == DeviceInv /\ ReadDynamic => DynamicHonest'
<1> SUFFICES ASSUME DeviceInv, ReadDynamic PROVE DynamicHonest'
  OBVIOUS
<1>1. /\ fields' = fields /\ memory' = memory /\ IsTable(fields) /\ Opened
      /\ pdc = [n \in Names |-> Resolve(device, fields, n)]
  BY KnownTable DEF DeviceInv, ReadDynamic, Reads, Known
<1>2. PICK failing \in Faults :
        /\ answer'.failing = failing
        /\ answer'.values = [n \in Readings |-> Scaled(pdc[n], failing)]
  BY DEF ReadDynamic, Answers
<1> DEFINE x(n) == Last(StandardPaths[n])
           Batt(n) == EndingIn(fields, Pw("battery"), x(n))
           Summ(n) == EndingIn(fields, Pw("power_summary"), x(n))
           told(n) == IF Batt(n) # {} THEN Batt(n) ELSE Summ(n)
<1>3. ASSUME NEW n \in DOMAIN SummaryPaths
      PROVE  IF told(n) = {} THEN answer'.values[n].raw = 0
             ELSE \E f \in told(n) : answer'.values[n].raw =
                    IF f.id \in answer'.failing THEN 0 ELSE Extract(f, memory[f.id])
  <2>1. n \in Readings /\ n \in Standard /\ n \in Names
    BY SummaryNames, NamesIn
  <2>2. answer'.values[n].raw = Raw(pdc[n], failing)
    BY <1>2, <2>1 DEF Scaled
  <2>3. /\ StandardPaths[n] = <<Pw("battery"), x(n)>>
        /\ SummaryPaths[n] = <<Pw("power_summary"), x(n)>>
    BY SummaryNames
  <2> DEFINE first == Find(fields, StandardPaths[n])
             second == Find(fields, SummaryPaths[n])
  <2>4. pdc[n] = IF first = NoField THEN second ELSE first
    BY <1>1, <2>1 DEF Resolve
  <2>5. /\ first = NoField => Batt(n) = {}
        /\ first # NoField => first \in Batt(n)
    <3> HIDE DEF x
    <3> QED BY <1>1, <2>3, FoundIn
  <2>6. /\ second = NoField => Summ(n) = {}
        /\ second # NoField => second \in Summ(n)
    <3> HIDE DEF x
    <3> QED BY <1>1, <2>3, FoundIn
  <2>7. Batt(n) \subseteq ToSet(fields) /\ Summ(n) \subseteq ToSet(fields)
        /\ \A f \in Batt(n) \cup Summ(n) : f.type = "feature"
    BY DEF EndingIn
  <2>8. /\ pdc[n] = NoField => told(n) = {}
        /\ pdc[n] # NoField => pdc[n] \in told(n)
    <3> HIDE DEF Batt, Summ, first, second
    <3> QED BY <2>4, <2>5, <2>6
  <2>9. told(n) \subseteq ToSet(fields) /\ \A f \in told(n) : f.type = "feature"
    <3> HIDE DEF Batt, Summ
    <3> QED BY <2>7
  <2> HIDE DEF told
  <2>10. CASE pdc[n] = NoField
    BY <2>2, <2>8, <2>10 DEF Raw
  <2>11. CASE pdc[n] # NoField
    <3>1. pdc[n] \in told(n) /\ pdc[n] \in ToSet(fields) /\ pdc[n].type = "feature"
      BY <2>8, <2>9, <2>11
    <3>2. Raw(pdc[n], failing) = IF pdc[n].id \in failing THEN 0 ELSE Extract(pdc[n], memory[pdc[n].id])
      BY <1>1, <3>1, RawOf
    <3> QED BY <1>2, <2>2, <3>1, <3>2
  <2> QED BY <2>10, <2>11
<1>4. \A n : /\ Batt(n) = {f \in ToSet(fields') :
                /\ f.type = "feature" /\ Last(f.path) = Last(StandardPaths[n])
                /\ Len(f.path) > 1 /\ f.path[Len(f.path) - 1] = Pw("battery")}
             /\ Summ(n) = {f \in ToSet(fields') :
                /\ f.type = "feature" /\ Last(f.path) = Last(StandardPaths[n])
                /\ Len(f.path) > 1 /\ f.path[Len(f.path) - 1] = Pw("power_summary")}
  BY <1>1 DEF EndingIn
<1> HIDE DEF Batt, Summ, x
<1> QED
  BY <1>1, <1>3, <1>4 DEF DynamicHonest

\* Together: what both readers answer agrees with the device.
LEMMA ReadersStep == DeviceInv /\ ReadersHonest /\ [Next]_vars => ReadersHonest'
<1> SUFFICES ASSUME DeviceInv, ReadersHonest, [Next]_vars PROVE ReadersHonest'
  OBVIOUS
<1>1. CASE UNCHANGED vars
  <2>1. StatusHonest'
    BY <1>1 DEF vars, ReadersHonest, StatusHonest, StatusInOneReport, HasStatusBit
  <2>2. DynamicHonest'
    BY <1>1 DEF vars, ReadersHonest, DynamicHonest
  <2> QED BY <2>1, <2>2 DEF ReadersHonest
<1>2. CASE answer'.call \notin {"status", "dynamic"}
  BY <1>2 DEF ReadersHonest, StatusHonest, DynamicHonest
<1>3. CASE ReadStatus
  <2>1. answer'.call = "status"
    BY <1>3, Calls
  <2>2. DynamicHonest'
    BY <2>1 DEF DynamicHonest
  <2> QED BY <1>3, <2>2, StatusStep DEF ReadersHonest
<1>4. CASE ReadDynamic
  <2>1. answer'.call = "dynamic"
    BY <1>4, Calls
  <2>2. StatusHonest'
    BY <2>1 DEF StatusHonest
  <2> QED BY <1>4, <2>2, DynamicStep DEF ReadersHonest
<1>5. CASE Next /\ answer'.call \in {"status", "dynamic"}
  BY <1>3, <1>4, <1>5, Calls DEF Next
<1> QED
  BY <1>1, <1>2, <1>5

\* What the monitor polls is what the device reports, whichever requests fail
\* (hid_pdc_core.c:510-670).
THEOREM PolledAsReported == Spec => []ReadersHonest
<1>1. Init => ReadersHonest
  BY Calls DEF ReadersHonest, StatusHonest, DynamicHonest
<1>2. DeviceInv /\ ReadersHonest /\ [Next]_vars => ReadersHonest'
  BY ReadersStep
<1> QED
  BY <1>1, <1>2, AlwaysDeviceInv, PTL DEF Spec

-----------------------------------------------------------------------------
(* Sets of positions *)

\* A position behind the others is the last, and the others stay in order.
LEMMA NthAdd ==
  ASSUME NEW n \in Nat, NEW S, S \subseteq 1..n, NEW x \in Nat, \A j \in S : j < x
  PROVE  /\ IsFiniteSet(S) /\ Cardinality(S) \in Nat
         /\ Cardinality(S \cup {x}) = Cardinality(S) + 1
         /\ \A k \in 1..Cardinality(S) : Nth(S \cup {x}, k) = Nth(S, k)
         /\ Nth(S \cup {x}, Cardinality(S) + 1) = x
<1> DEFINE T == S \cup {x}
           Below(U, i) == {m \in U : m <= i}
           c == Cardinality(S)
<1>1. S \subseteq Nat /\ x \notin S
  OBVIOUS
<1>2. IsFiniteSet(S) /\ c \in Nat
  <2>1. IsFiniteSet(1..n)
    BY FS_Interval
  <2> QED BY <2>1, FS_Subset, FS_CardinalityType
<1>3. Cardinality(T) = c + 1
  BY <1>1, <1>2, FS_AddElement
<1>4. Below(T, x) = T
  <2>1. \A m \in T : m <= x
    BY <1>1
  <2> HIDE DEF T
  <2> QED BY <2>1
<1>5. ASSUME NEW j \in S PROVE Below(T, j) = Below(S, j) /\ Cardinality(Below(S, j)) <= c
  <2>1. Below(T, j) = Below(S, j)
    BY <1>1
  <2>2. Below(S, j) \in SUBSET S
    OBVIOUS
  <2> HIDE DEF Below
  <2> QED BY <2>1, <2>2, <1>2, FS_Subset
<1>6. ASSUME NEW j \in S PROVE Cardinality(Below(S, j)) \in Nat
  <2>1. Below(S, j) \in SUBSET S
    OBVIOUS
  <2> HIDE DEF Below
  <2> QED BY <2>1, <1>2, FS_Subset, FS_CardinalityType
<1> DEFINE With(U, k) == {i \in U : Cardinality(Below(U, i)) = k}
<1>7. \A U, k : Nth(U, k) = CHOOSE i \in U : Cardinality(Below(U, i)) = k
  BY DEF Nth
<1> HIDE DEF Below
<1>8. ASSUME NEW k \in 1..c PROVE Nth(T, k) = Nth(S, k)
  <2>1. ASSUME NEW i
        PROVE  (i \in T /\ Cardinality(Below(T, i)) = k) <=> (i \in S /\ Cardinality(Below(S, i)) = k)
    <3>1. CASE i \in S
      BY <3>1, <1>5
    <3>2. CASE i = x
      <4>1. Cardinality(Below(T, x)) # k
        BY <1>2, <1>3, <1>4
      <4> QED BY <3>2, <4>1, <1>1
    <3> QED BY <3>1, <3>2
  <2> QED BY <1>7, <2>1
<1>9. Nth(T, c + 1) = x
  <2>1. ASSUME NEW i \in T, Cardinality(Below(T, i)) = c + 1 PROVE i = x
    <3>1. CASE i \in S
      BY <3>1, <2>1, <1>2, <1>5, <1>6
    <3> QED BY <3>1
  <2>2. x \in T /\ Cardinality(Below(T, x)) = c + 1
    BY <1>3, <1>4
  <2> HIDE DEF T, c
  <2> QED BY <1>7, <2>1, <2>2
<1> QED
  BY <1>2, <1>3, <1>8, <1>9

\* Items of a kind between two positions are finitely many.
LEMMA TaggedIn ==
  ASSUME NEW desc, NEW from \in Nat \ {0}, NEW to \in Nat, NEW tags
  PROVE  /\ Tagged(desc, from, to, tags) \subseteq 1..to
         /\ IsFiniteSet(Tagged(desc, from, to, tags))
         /\ Cardinality(Tagged(desc, from, to, tags)) \in Nat
<1>1. Tagged(desc, from, to, tags) \subseteq 1..to
  BY DEF Tagged
<1>2. IsFiniteSet(1..to)
  BY FS_Interval
<1> QED
  BY <1>1, <1>2, FS_Subset, FS_CardinalityType

-----------------------------------------------------------------------------
(* The global items in force *)

\* The value in force of a global item is the last one given.
LEMMA GlobalStep ==
  ASSUME NEW desc, NEW i \in Nat \ {0}, NEW tag
  PROVE  /\ LastGlobal(desc, 1, tag) = Before[tag]
         /\ LastGlobal(desc, i + 1, tag)
              = IF desc[i].tag = tag THEN desc[i].val ELSE LastGlobal(desc, i, tag)
<1> DEFINE S == Tagged(desc, 1, i - 1, {tag})
           T == Tagged(desc, 1, i, {tag})
<1>1. (i + 1) - 1 = i /\ S \subseteq 1..(i - 1) /\ T \subseteq 1..i
  BY DEF Tagged
<1> DEFINE Latest(U) == IF U = {} THEN Before[tag] ELSE desc[CHOOSE j \in U : \A m \in U : m <= j].val
<1>2. \A x : LastGlobal(desc, x, tag) = Latest(Tagged(desc, 1, x - 1, {tag}))
  BY DEF LastGlobal
<1> HIDE DEF Latest
<1>5. LastGlobal(desc, 1, tag) = Before[tag]
  <2>1. Tagged(desc, 1, 1 - 1, {tag}) = {}
    BY DEF Tagged
  <2> QED BY <1>2, <2>1 DEF Latest
<1>6. LastGlobal(desc, i + 1, tag) = Latest(T)
  <2>1. Tagged(desc, 1, (i + 1) - 1, {tag}) = T
    BY <1>1
  <2> HIDE DEF T
  <2> QED BY <1>2, <2>1
<1>3. CASE desc[i].tag = tag
  <2>1. i \in T
    BY <1>3 DEF Tagged
  <2>2. \A m \in T : m <= i
    BY <1>1
  <2> HIDE DEF T
  <2>3. ASSUME NEW j \in T, \A m \in T : m <= j PROVE j = i
    <3>1. i <= j /\ j <= i /\ j \in Nat
      BY <1>1, <2>1, <2>2, <2>3
    <3> QED BY <3>1
  <2>4. (CHOOSE j \in T : \A m \in T : m <= j) = i
    BY <2>1, <2>2, <2>3
  <2>5. T # {}
    BY <2>1
  <2>6. Latest(T) = desc[CHOOSE j \in T : \A m \in T : m <= j].val
    BY <2>5 DEF Latest
  <2>7. Latest(T) = desc[i].val
    BY <2>4, <2>6
  <2> QED BY <1>3, <1>5, <1>6, <2>7
<1>4. CASE desc[i].tag # tag
  <2>1. T = S
    BY <1>4 DEF Tagged
  <2> HIDE DEF S, T
  <2> QED BY <1>2, <1>4, <1>5, <1>6, <2>1 DEF S
<1> QED
  BY <1>3, <1>4, <1>5

\* The parser's global items are those in force at the next item.
LEMMA GlobalsAgree ==
  ASSUME NEW desc, IsDesc(desc), NEW i \in 0..Len(desc)
  PROVE  After(desc)[i].global = InForce(desc, i + 1)
<1> DEFINE N == Len(desc)
           S == {n \in 0..N : After(desc)[n].global = InForce(desc, n + 1)}
<1>1. N \in Nat
  BY DEF IsDesc
<1>2. 0 \in S
  <2>1. InForce(desc, 1) = [g \in Globals |-> Before[g]]
    <3>1. \A g : LastGlobal(desc, 1, g) = Before[g]
      BY 1 \in Nat \ {0}, GlobalStep
    <3> QED BY <3>1 DEF InForce
  <2>2. Before = [g \in Globals |-> Before[g]]
    BY DEF Before
  <2>3. After(desc)[0].global = Before
    BY <1>1, AfterUnfold DEF Start
  <2> QED BY <1>1, <2>1, <2>2, <2>3
<1>3. ASSUME NEW n \in 0..(N - 1), n \in S PROVE n + 1 \in S
  <2> DEFINE s == After(desc)[n]
             t == After(desc)[n + 1]
             item == desc[n + 1]
  <2>1. n + 1 \in 1..N /\ n + 1 - 1 = n /\ n \in 0..N /\ n + 1 \in Nat \ {0} /\ n + 1 \in 0..N
    BY <1>1
  <2>2. t = Item(s, item)
    BY <1>1, <2>1, AfterUnfold
  <2>3. IsState(s) /\ IsState(t) /\ HasParts(s)
    BY <2>1, AfterState DEF IsState
  <2>4. IsItem(item)
    BY <2>1 DEF IsDesc
  <2>5. s.global = InForce(desc, n + 1)
    BY <1>3
  <2>6. \A g \in Globals : InForce(desc, n + 1 + 1)[g]
          = IF item.tag = g THEN item.val ELSE InForce(desc, n + 1)[g]
    <3>1. \A g : LastGlobal(desc, n + 1 + 1, g)
              = IF item.tag = g THEN item.val ELSE LastGlobal(desc, n + 1, g)
      BY <2>1, GlobalStep
    <3> QED BY <3>1 DEF InForce
  <2> HIDE DEF s, t, item
  <2>7. \A g \in Globals : t.global[g] = IF item.tag = g THEN item.val ELSE s.global[g]
    <3>1. CASE item.tag \in Globals
      <4>1. t.global = [s.global EXCEPT ![item.tag] = item.val]
        BY <2>2, <2>3, <3>1, ItemGlobal
      <4>2. s.global = [x \in Globals |-> s.global[x]]
        BY <2>3 DEF IsState, IsGlobal
      <4> QED BY <4>1, <4>2
    <3>2. CASE item.tag \notin Globals
      <4>1. t.global = s.global
        <5>1. item.tag \in Types \cup {"usage", "collection", "end"}
          BY <2>4, <3>2 DEF IsItem
        <5>2. CASE item.tag \in Types
          BY <5>2, <2>2, <2>3, ItemMain
        <5>3. CASE item.tag = "usage"
          BY <5>3, <2>2, <2>3, ItemUsage
        <5>4. CASE item.tag = "collection"
          BY <5>4, <2>2, <2>3, ItemCollection
        <5>5. CASE item.tag = "end"
          BY <5>5, <2>2, <2>3, ItemEnd
        <5> QED BY <5>1, <5>2, <5>3, <5>4, <5>5
      <4> QED BY <4>1, <3>2
    <3> QED BY <3>1, <3>2
  <2>8. t.global = [g \in Globals |-> t.global[g]]
    BY <2>3 DEF IsState, IsGlobal
  <2>9. InForce(desc, n + 1 + 1) = [g \in Globals |-> InForce(desc, n + 1 + 1)[g]]
    BY DEF InForce
  <2>10. \A g \in Globals : t.global[g] = InForce(desc, n + 1 + 1)[g]
    BY <2>5, <2>6, <2>7
  <2>11. t.global = InForce(desc, n + 1 + 1)
    <3> HIDE DEF InForce
    <3> QED BY <2>8, <2>9, <2>10
  <2> QED BY <2>1, <2>11 DEF t
<1>4. 0..N \subseteq S
  <2> HIDE DEF S, N
  <2> QED BY <1>1, <1>2, <1>3, UptoInduction
<1> QED
  BY <1>4

\* The same, one by one
LEMMA InForceAt ==
  ASSUME NEW desc, IsDesc(desc), NEW i \in 1..Len(desc)
  PROVE  /\ After(desc)[i - 1].global = InForce(desc, i)
         /\ \A g \in Globals : LastGlobal(desc, i, g) = After(desc)[i - 1].global[g]
         /\ LastGlobal(desc, i, "count") \in Nat /\ LastGlobal(desc, i, "size") \in Nat
         /\ LastGlobal(desc, i, "id") \in Ids
<1>1. i - 1 \in 0..Len(desc) /\ i - 1 + 1 = i
  BY DEF IsDesc
<1>2. After(desc)[i - 1].global = InForce(desc, i)
  <2>1. After(desc)[i - 1].global = InForce(desc, i - 1 + 1)
    BY <1>1, GlobalsAgree
  <2> QED BY <1>1, <2>1
<1>3. \A g \in Globals : LastGlobal(desc, i, g) = After(desc)[i - 1].global[g]
  BY <1>2 DEF InForce
<1>4. {"count", "size", "id", "page"} \subseteq Globals
  BY DEF Globals
<1>5. IsGlobal(After(desc)[i - 1].global)
  BY <1>1, AfterState DEF IsState
<1> QED
  BY <1>2, <1>3, <1>4, <1>5 DEF IsGlobal

-----------------------------------------------------------------------------
(* The usages that wait for a main item *)

\* The usages that belong to an item: those since the last main item.
LEMMA OwnStep ==
  ASSUME NEW desc, NEW i \in Nat \ {0}
  PROVE  /\ OwnUsages(desc, 1) = {} /\ OwnUsages(desc, i) \subseteq 1..(i - 1)
         /\ desc[i].tag = "usage" => OwnUsages(desc, i + 1) = OwnUsages(desc, i) \cup {i}
         /\ desc[i].tag \in MainTags => OwnUsages(desc, i + 1) = {}
         /\ desc[i].tag \notin MainTags \cup {"usage"} =>
              OwnUsages(desc, i + 1) = OwnUsages(desc, i)
<1> DEFINE Free(j, to) == Tagged(desc, j, to, MainTags) = {}
<1>1. (i + 1) - 1 = i
  OBVIOUS
<1>2. \A x : OwnUsages(desc, x) = {j \in Tagged(desc, 1, x - 1, {"usage"}) : Free(j, x - 1)}
  BY DEF OwnUsages
<1>3. OwnUsages(desc, i + 1) = {j \in Tagged(desc, 1, i, {"usage"}) : Free(j, i)}
  <2> HIDE DEF Free
  <2> QED BY <1>1, <1>2
<1>4. \A j : j \in Tagged(desc, 1, i - 1, {"usage"}) <=> j \in 1..(i - 1) /\ desc[j].tag = "usage"
  BY DEF Tagged
<1>5. \A j : j \in Tagged(desc, 1, i, {"usage"}) <=> j \in 1..i /\ desc[j].tag = "usage"
  BY DEF Tagged
<1>6. "usage" \notin MainTags
  BY DEF MainTags, Types
<1>7. ASSUME NEW j \in 1..i
      PROVE  Free(j, i) <=> desc[i].tag \notin MainTags /\ Free(j, i - 1)
  <2>1. \A m : m \in j..i <=> m = i \/ m \in j..(i - 1)
    BY <1>7
  <2> QED BY <2>1 DEF Tagged
<1>8. Free(i, i - 1)
  BY DEF Tagged
<1> HIDE DEF Free
<1>9. OwnUsages(desc, i) \subseteq 1..(i - 1)
  BY <1>2, <1>4
<1>10. OwnUsages(desc, 1) = {}
  <2>1. Tagged(desc, 1, 1 - 1, {"usage"}) = {}
    BY DEF Tagged
  <2> QED BY <1>2, <2>1
<1>11. CASE desc[i].tag \in MainTags
  BY <1>3, <1>5, <1>6, <1>7, <1>9, <1>10, <1>11
<1>12. CASE desc[i].tag \notin MainTags
  <2>1. \A j : j \in OwnUsages(desc, i + 1) <=> j \in 1..i /\ desc[j].tag = "usage" /\ Free(j, i - 1)
    BY <1>3, <1>5, <1>7, <1>12
  <2>2. \A j : j \in OwnUsages(desc, i) <=> j \in 1..(i - 1) /\ desc[j].tag = "usage" /\ Free(j, i - 1)
    BY <1>2, <1>4
  <2>3. \A j : j \in 1..i <=> j = i \/ j \in 1..(i - 1)
    OBVIOUS
  <2>4. CASE desc[i].tag = "usage"
    <3>1. \A j : j \in OwnUsages(desc, i + 1) <=> j = i \/ j \in OwnUsages(desc, i)
      BY <2>1, <2>2, <2>3, <2>4, <1>8
    <3> QED BY <3>1, <2>4, <1>6, <1>9, <1>10
  <2>5. CASE desc[i].tag # "usage"
    <3>1. \A j : j \in OwnUsages(desc, i + 1) <=> j \in OwnUsages(desc, i)
      BY <2>1, <2>2, <2>3, <2>5
    <3> QED BY <3>1, <2>5, <1>12, <1>9, <1>10
  <2> QED BY <2>4, <2>5
<1> QED
  BY <1>11, <1>12

\* The queue holds the values of those usages, in order.
QueuedAt(desc, i, q) ==
  /\ IsSeq(q) /\ Len(q) = Cardinality(OwnUsages(desc, i))
  /\ \A k \in 1..Len(q) : q[k] = desc[Nth(OwnUsages(desc, i), k)].val

\* No usages, an empty queue.
LEMMA QueueNone ==
  ASSUME NEW desc, NEW i, OwnUsages(desc, i) = {}
  PROVE  QueuedAt(desc, i, <<>>)
BY SeqEmpty, FS_EmptySet DEF QueuedAt

\* One item keeps it so.  An end consumes no usage in the code and all of them in
\* the specification; Fits has none waiting there.
LEMMA QueueStep ==
  ASSUME NEW desc, NEW s, HasParts(s), NEW i \in Nat \ {0},
         IsItem(desc[i]), QueuedAt(desc, i, s.queue),
         Cardinality(OwnUsages(desc, i + 1)) <= UsageQueue,
         desc[i].tag = "end" => OwnUsages(desc, i) = {}
  PROVE  QueuedAt(desc, i + 1, Item(s, desc[i]).queue)
<1> DEFINE q == s.queue
           t == Item(s, desc[i])
           own == OwnUsages(desc, i)
           next == OwnUsages(desc, i + 1)
<1>1. IsSeq(q) /\ Len(q) = Cardinality(own) /\ Len(q) \in Nat
  BY DEF QueuedAt, IsSeq
<1>2. /\ own \subseteq 1..(i - 1) /\ i - 1 \in Nat
      /\ desc[i].tag = "usage" => next = own \cup {i}
      /\ desc[i].tag \in MainTags => next = {}
      /\ desc[i].tag \notin MainTags \cup {"usage"} => next = own
  BY OwnStep
<1>3. CASE desc[i].tag = "usage"
  <2>1. next = own \cup {i}
    BY <1>2, <1>3
  <2>2. /\ Cardinality(own \cup {i}) = Cardinality(own) + 1
        /\ \A k \in 1..Cardinality(own) : Nth(own \cup {i}, k) = Nth(own, k)
        /\ Nth(own \cup {i}, Cardinality(own) + 1) = i
    <3>1. /\ own \subseteq 1..(i - 1) /\ i - 1 \in Nat /\ i \in Nat
          /\ \A j \in own : j < i
      BY <1>2
    <3> HIDE DEF own
    <3>2. /\ IsFiniteSet(own) /\ Cardinality(own) \in Nat
          /\ Cardinality(own \cup {i}) = Cardinality(own) + 1
          /\ \A k \in 1..Cardinality(own) : Nth(own \cup {i}, k) = Nth(own, k)
          /\ Nth(own \cup {i}, Cardinality(own) + 1) = i
      BY ONLY <3>1, NthAdd
    <3> QED BY <3>2
  <2>3. t.queue = IF Len(q) < UsageQueue THEN Append(q, desc[i].val) ELSE q
    BY <1>3, ItemUsage
  <2>4. Len(q) < UsageQueue
    <3>1. Cardinality(next) <= UsageQueue
      OBVIOUS
    <3>2. UsageQueue \in Nat
      BY ParserAssumption
    <3> HIDE DEF own, next, q
    <3> QED BY <1>1, <2>1, <2>2, <3>1, <3>2
  <2> DEFINE r == Append(q, desc[i].val)
  <2>5. /\ IsSeq(r) /\ Len(r) = Len(q) + 1 /\ \A k \in 1..Len(q) : r[k] = q[k]
        /\ r[Len(q) + 1] = desc[i].val
    <3> HIDE DEF q
    <3> QED BY <1>1, SeqAppend
  <2>6. \A k \in 1..Len(q) : q[k] = desc[Nth(own, k)].val
    BY DEF QueuedAt
  <2>7. t.queue = r
    BY <2>3, <2>4
  <2> HIDE DEF r, q, own, next, t
  <2>8. ASSUME NEW k \in 1..Len(r) PROVE r[k] = desc[Nth(next, k)].val
    <3>1. CASE k \in 1..Len(q)
      BY <3>1, <1>1, <2>1, <2>2, <2>5, <2>6
    <3>2. CASE k = Len(q) + 1
      BY <3>2, <1>1, <2>1, <2>2, <2>5
    <3> QED BY <3>1, <3>2, <2>5, <1>1
  <2>9. Len(r) = Cardinality(next)
    BY <1>1, <2>1, <2>2, <2>5
  <2>10. QueuedAt(desc, i + 1, r)
    BY <2>5, <2>8, <2>9 DEF QueuedAt, next
  <2> QED BY <2>7, <2>10 DEF t
<1>4. CASE desc[i].tag \in MainTags
  <2>1. next = {}
    BY <1>2, <1>4
  <2>2. t.queue = <<>>
    <3>1. CASE desc[i].tag = "end"
      <4>1. Cardinality(own) = 0
        BY <3>1, FS_EmptySet
      <4>2. q = <<>>
        BY <4>1, <1>1, SeqEmpty
      <4> QED BY <3>1, <4>2, ItemEnd
    <3>2. CASE desc[i].tag = "collection"
      BY <3>2, ItemCollection
    <3>3. CASE desc[i].tag \in Types
      <4> DEFINE item == desc[i]
      <4>1. item.tag \in Types
        BY <3>3
      <4> HIDE DEF item
      <4>2. Item(s, item).queue = <<>>
        BY ONLY <4>1, HasParts(s), ItemMain
      <4> QED BY <4>2 DEF item
    <3> QED BY <3>1, <3>2, <3>3, <1>4 DEF MainTags
  <2> QED BY <2>1, <2>2, QueueNone
<1>5. CASE desc[i].tag \notin MainTags \cup {"usage"}
  <2>1. desc[i].tag \in Globals
    BY <1>5 DEF IsItem, MainTags
  <2>2. t.queue = q
    BY <2>1, ItemGlobal
  <2>3. next = own
    BY <1>2, <1>5
  <2> QED BY <2>2, <2>3 DEF QueuedAt
<1> QED
  BY <1>3, <1>4, <1>5

\* So the queue is that of the specification at every item.
LEMMA QueueAgrees ==
  ASSUME NEW desc, IsDesc(desc), Fits(desc), NEW i \in 1..Len(desc)
  PROVE  QueuedAt(desc, i, After(desc)[i - 1].queue)
<1> DEFINE N == Len(desc)
           S == {n \in 0..N : n < N => QueuedAt(desc, n + 1, After(desc)[n].queue)}
<1>1. N \in Nat
  BY DEF IsDesc
<1>2. 0 \in S
  <2>1. OwnUsages(desc, 1) = {}
    BY 1 \in Nat \ {0}, OwnStep
  <2>2. After(desc)[0].queue = <<>>
    BY <1>1, AfterUnfold DEF Start
  <2>3. QueuedAt(desc, 1, After(desc)[0].queue)
    BY <2>1, <2>2, QueueNone
  <2> QED BY <2>3, <1>1
<1>3. ASSUME NEW n \in 0..(N - 1), n \in S PROVE n + 1 \in S
  <2>1. n + 1 \in 1..N /\ n + 1 - 1 = n /\ n \in 0..N /\ n + 1 \in Nat \ {0} /\ n + 1 \in 0..N /\ n < N
    BY <1>1
  <2>2. After(desc)[n + 1] = Item(After(desc)[n], desc[n + 1])
    BY <1>1, <2>1, AfterUnfold
  <2>3. HasParts(After(desc)[n]) /\ IsItem(desc[n + 1])
    BY <2>1, AfterState DEF IsState, IsDesc
  <2>4. QueuedAt(desc, n + 1, After(desc)[n].queue)
    BY <1>3, <2>1
  <2>5. ASSUME n + 1 < N PROVE QueuedAt(desc, n + 1 + 1, After(desc)[n + 1].queue)
    <3>1. n + 1 + 1 \in 1..Len(desc) /\ n + 1 \in 1..Len(desc)
      BY <2>1, <2>5, <1>1
    <3>2. Cardinality(OwnUsages(desc, n + 1 + 1)) <= UsageQueue
      BY <3>1 DEF Fits
    <3>3. desc[n + 1].tag = "end" => OwnUsages(desc, n + 1) = {}
      BY <3>1 DEF Fits
    <3>4. QueuedAt(desc, n + 1 + 1, Item(After(desc)[n], desc[n + 1]).queue)
      BY <2>1, <2>3, <2>4, <3>2, <3>3, QueueStep
    <3> QED BY <3>4, <2>2
  <2> QED BY <2>1, <2>5
<1>4. 0..N \subseteq S
  <2> HIDE DEF S, N
  <2> QED BY <1>1, <1>2, <1>3, UptoInduction
<1>5. i - 1 \in 0..N /\ i - 1 < N /\ i - 1 + 1 = i
  BY <1>1
<1>6. i - 1 \in S
  BY <1>4, <1>5
<1> QED
  BY <1>5, <1>6

\* So the usage the parser takes for a field is the one declared for it.
LEMMA UsageAgrees ==
  ASSUME NEW desc, IsDesc(desc), Fits(desc), NEW i \in 1..Len(desc)
  PROVE  /\ Opening(After(desc)[i - 1]) = DeclaredUsage(desc, i, 1)
         /\ \A k \in Nat \ {0} :
              <<After(desc)[i - 1].global["page"], UsageAt(After(desc)[i - 1].queue, k)>>
                = DeclaredUsage(desc, i, k)
<1> DEFINE s == After(desc)[i - 1]
           q == s.queue
           own == OwnUsages(desc, i)
           n == Cardinality(own)
<1>1. s.global["page"] = LastGlobal(desc, i, "page")
  <2>1. "page" \in Globals
    BY DEF Globals
  <2> QED BY <2>1, InForceAt
<1>2. IsSeq(q) /\ Len(q) = n /\ n \in Nat /\ \A k \in 1..n : q[k] = desc[Nth(own, k)].val
  <2>1. QueuedAt(desc, i, q)
    BY QueueAgrees
  <2>2. Len(q) \in Nat
    BY <2>1 DEF QueuedAt, IsSeq
  <2> QED BY <2>1, <2>2 DEF QueuedAt
<1>3. own = {} <=> q = <<>>
  <2>1. IsFiniteSet(own)
    <3>1. own \subseteq 1..(i - 1) /\ i \in Nat \ {0} /\ i - 1 \in Nat
      BY OwnStep DEF IsDesc
    <3>2. IsFiniteSet(1..(i - 1))
      BY <3>1, FS_Interval
    <3> QED BY <3>1, <3>2, FS_Subset
  <2>2. own = {} <=> n = 0
    BY <2>1, FS_EmptySet
  <2> QED BY <2>2, <1>2, SeqEmpty
<1>4. ASSUME NEW k \in Nat \ {0}
      PROVE  UsageAt(q, k) = IF own = {} THEN "none" ELSE desc[Nth(own, IF k <= n THEN k ELSE n)].val
  <2>1. CASE own = {}
    BY <2>1, <1>3 DEF UsageAt
  <2>2. CASE own # {}
    <3>1. q # <<>> /\ n # 0
      BY <2>2, <1>2, <1>3, SeqEmpty
    <3> HIDE DEF n, q, own
    <3>2. UsageAt(q, k) = IF k <= n THEN q[k] ELSE q[n]
      BY <3>1, <1>2 DEF UsageAt, Last
    <3>3. CASE k <= n
      <4>1. k \in 1..n
        BY <3>3, <1>2
      <4> QED BY <2>2, <3>2, <3>3, <4>1, <1>2
    <3>4. CASE ~(k <= n)
      <4>1. n \in 1..n
        BY <3>1, <1>2
      <4> QED BY <2>2, <3>2, <3>4, <4>1, <1>2
    <3> QED BY <3>3, <3>4
  <2> QED BY <2>1, <2>2
<1>5. \A k : DeclaredUsage(desc, i, k) =
        <<LastGlobal(desc, i, "page"),
          IF own = {} THEN "none" ELSE desc[Nth(own, IF k <= n THEN k ELSE n)].val>>
  BY DEF DeclaredUsage
<1>6. \A k \in Nat \ {0} : <<s.global["page"], UsageAt(q, k)>> = DeclaredUsage(desc, i, k)
  <2> HIDE DEF s, q, own, n
  <2> QED BY <1>1, <1>4, <1>5
<1>7. Opening(s) = <<s.global["page"], UsageAt(q, 1)>>
  <2>1. CASE q = <<>>
    BY <2>1 DEF Opening, UsageAt
  <2>2. CASE q # <<>>
    <3> DEFINE T == {q[k] : k \in 1..Len(q)}
    <3>1. q \in Seq(T)
      BY <1>2, SeqIn
    <3>2. Head(q) = q[1] /\ 1 <= Len(q)
      <4> HIDE DEF T, q, n
      <4> QED BY <3>1, <2>2, <1>2, SeqEmpty
    <3> QED BY <2>2, <3>2 DEF Opening, UsageAt
  <2> QED BY <2>1, <2>2
<1>8. 1 \in Nat \ {0}
  OBVIOUS
<1> QED
  BY <1>6, <1>7, <1>8

-----------------------------------------------------------------------------
(* The collections that are open *)

\* Openings less closings, counted in two parts.
LEMMA ExcessSplit ==
  ASSUME NEW desc, NEW a \in Nat \ {0}, NEW b \in Nat, NEW c \in Nat, a <= b + 1, b <= c
  PROVE  /\ Excess(desc, a, b) \in Int /\ Excess(desc, b + 1, c) \in Int
         /\ Excess(desc, a, c) = Excess(desc, a, b) + Excess(desc, b + 1, c)
<1>1. ASSUME NEW tags
      PROVE  /\ Cardinality(Tagged(desc, a, b, tags)) \in Nat
             /\ Cardinality(Tagged(desc, b + 1, c, tags)) \in Nat
             /\ Cardinality(Tagged(desc, a, c, tags))
                  = Cardinality(Tagged(desc, a, b, tags)) + Cardinality(Tagged(desc, b + 1, c, tags))
  <2> DEFINE S == Tagged(desc, a, b, tags)
             T == Tagged(desc, b + 1, c, tags)
  <2>1. \A j : j \in a..c <=> j \in a..b \/ j \in (b + 1)..c
    OBVIOUS
  <2>2. Tagged(desc, a, c, tags) = S \cup T
    BY <2>1 DEF Tagged
  <2>3. S \cap T = {}
    BY DEF Tagged
  <2>4. IsFiniteSet(S) /\ Cardinality(S) \in Nat
    BY TaggedIn
  <2>5. IsFiniteSet(T) /\ Cardinality(T) \in Nat
    BY b + 1 \in Nat \ {0}, TaggedIn
  <2> HIDE DEF S, T
  <2>6. Cardinality(S \cup T) = Cardinality(S) + Cardinality(T) - Cardinality({})
    BY <2>3, <2>4, <2>5, FS_Union
  <2> QED BY <2>2, <2>4, <2>5, <2>6, FS_EmptySet DEF S, T
<1> QED
  BY <1>1 DEF Excess

\* Openings less closings of a single item.
LEMMA ExcessOne ==
  ASSUME NEW desc, NEW i \in Nat \ {0}
  PROVE  /\ desc[i].tag = "collection" => Excess(desc, i, i) = 1
         /\ desc[i].tag = "end" => Excess(desc, i, i) = -1
         /\ desc[i].tag \notin {"collection", "end"} => Excess(desc, i, i) = 0
<1>1. \A tag : Tagged(desc, i, i, {tag}) = IF desc[i].tag = tag THEN {i} ELSE {}
  BY DEF Tagged
<1>2. Cardinality({i}) = 1 /\ Cardinality({}) = 0
  BY FS_Singleton, FS_EmptySet
<1>3. \A tag : Cardinality(Tagged(desc, i, i, {tag})) = IF desc[i].tag = tag THEN 1 ELSE 0
  BY <1>1, <1>2
<1> QED
  BY <1>3 DEF Excess

\* The last collection that is open has as many ends as collections in it.
LEMMA Innermost ==
  ASSUME NEW desc, NEW i \in Nat \ {0}, NEW x \in Enclosing(desc, i),
         \A j \in Enclosing(desc, i) : j <= x
  PROVE  Excess(desc, x, i - 1) = 1
<1> DEFINE Sum(m) == Excess(desc, x, m)
           M == {m \in x..(i - 1) : Sum(m) = 1}
<1>1. /\ x \in 1..(i - 1) /\ desc[x].tag = "collection"
      /\ \A m \in x..(i - 1) : Sum(m) > 0
      /\ \A j \in 1..(i - 1) : desc[j].tag = "collection" /\ j > x =>
           \E m \in j..(i - 1) : ~(Excess(desc, j, m) > 0)
  <2>1. \A j : j \in Enclosing(desc, i) <=>
          /\ j \in 1..(i - 1) /\ desc[j].tag = "collection"
          /\ \A m \in j..(i - 1) : Excess(desc, j, m) > 0
    BY DEF Enclosing, Tagged
  <2>2. \A j \in 1..(i - 1) : j > x => j \notin Enclosing(desc, i)
    BY <2>1
  <2> QED BY <2>1, <2>2
<1>2. x \in M
  BY <1>1, ExcessOne
<1>3. PICK y \in M : \A m \in M : m <= y
  <2>1. M \subseteq 0..i /\ M # {}
    BY <1>1, <1>2
  <2> HIDE DEF M
  <2> QED BY <2>1, Greatest
<1>4. SUFFICES ASSUME y # i - 1 PROVE FALSE
  BY <1>3
<1>5. y \in x..(i - 1) /\ Sum(y) = 1 /\ y + 1 \in (x + 1)..(i - 1) /\ y + 1 \in 1..(i - 1)
      /\ y \in Nat /\ y + 1 \in Nat \ {0}
  BY <1>1, <1>3, <1>4
<1>6. ASSUME NEW m \in (y + 1)..(i - 1)
      PROVE  /\ Excess(desc, y + 1, m) \in Int /\ Sum(m) = 1 + Excess(desc, y + 1, m)
             /\ Sum(m) # 1 /\ Sum(m) > 0
  <2>1. m \notin M /\ m \in x..(i - 1) /\ m \in Nat
    <3>1. m \in x..(i - 1) /\ m \in Nat /\ ~(m <= y)
      BY <1>1, <1>5
    <3> HIDE DEF M
    <3> QED BY <1>3, <3>1
  <2>2. /\ Excess(desc, x, y) \in Int /\ Excess(desc, y + 1, m) \in Int
        /\ Excess(desc, x, m) = Excess(desc, x, y) + Excess(desc, y + 1, m)
    <3>1. x \in Nat \ {0} /\ x <= y + 1 /\ y <= m
      BY <1>1, <1>5
    <3> QED BY <1>5, <2>1, <3>1, ExcessSplit
  <2> QED BY <2>1, <2>2, <1>1, <1>5
<1>7. \A m \in (y + 1)..(i - 1) : Excess(desc, y + 1, m) > 0
  <2> HIDE DEF Sum
  <2> QED BY <1>6
<1>8. desc[y + 1].tag = "collection"
  <2>1. Excess(desc, y + 1, y + 1) > 0
    BY <1>5, <1>7
  <2> QED BY <2>1, <1>5, ExcessOne
<1>9. y + 1 > x
  BY <1>5, <1>1
<1> QED
  BY <1>1, <1>5, <1>7, <1>8, <1>9

\* The collections open at an item: an opening adds itself, a closing removes the
\* innermost.
LEMMA EnclosingStep ==
  ASSUME NEW desc, NEW i \in Nat \ {0}
  PROVE  /\ Enclosing(desc, 1) = {} /\ Enclosing(desc, i) \subseteq 1..(i - 1)
         /\ desc[i].tag = "collection" => Enclosing(desc, i + 1) = Enclosing(desc, i) \cup {i}
         /\ desc[i].tag = "end" /\ Enclosing(desc, i) # {} =>
              \E x \in Enclosing(desc, i) :
                /\ \A j \in Enclosing(desc, i) \ {x} : j < x
                /\ Enclosing(desc, i + 1) = Enclosing(desc, i) \ {x}
         /\ desc[i].tag \notin {"collection", "end"} =>
              Enclosing(desc, i + 1) = Enclosing(desc, i)
<1> DEFINE E == Enclosing(desc, i)
           F == Enclosing(desc, i + 1)
           d == Excess(desc, i, i)
<1>1. \A j : j \in E <=>
        /\ j \in 1..(i - 1) /\ desc[j].tag = "collection"
        /\ \A m \in j..(i - 1) : Excess(desc, j, m) > 0
  BY DEF Enclosing, Tagged
<1>2. \A j : j \in F <=>
        /\ j \in 1..i /\ desc[j].tag = "collection"
        /\ \A m \in j..i : Excess(desc, j, m) > 0
  <2>1. i + 1 - 1 = i
    OBVIOUS
  <2> QED BY <2>1 DEF Enclosing, Tagged
<1>3. Enclosing(desc, 1) = {}
  <2>1. 1..(1 - 1) = {}
    OBVIOUS
  <2> QED BY <2>1 DEF Enclosing, Tagged
<1>4. E \subseteq 1..(i - 1)
  BY <1>1
<1>5. ASSUME NEW j \in 1..(i - 1)
      PROVE  /\ Excess(desc, j, i - 1) \in Int /\ Excess(desc, i, i) \in Int
             /\ Excess(desc, j, i) = Excess(desc, j, i - 1) + Excess(desc, i, i)
  <2>1. j \in Nat \ {0} /\ i - 1 \in Nat /\ j <= (i - 1) + 1 /\ i - 1 <= i /\ (i - 1) + 1 = i
    OBVIOUS
  <2>2. /\ Excess(desc, j, i - 1) \in Int /\ Excess(desc, (i - 1) + 1, i) \in Int
        /\ Excess(desc, j, i) = Excess(desc, j, i - 1) + Excess(desc, (i - 1) + 1, i)
    BY <2>1, ExcessSplit
  <2> QED BY <2>1, <2>2
<1>6. ASSUME NEW j \in 1..(i - 1)
      PROVE  j \in F <=> j \in E /\ Excess(desc, j, i - 1) + d > 0
  <2>1. \A m : m \in j..i <=> m = i \/ m \in j..(i - 1)
    BY <1>6
  <2>2. Excess(desc, j, i) = Excess(desc, j, i - 1) + d
    BY <1>5
  <2> HIDE DEF d, E, F
  <2> QED BY <1>1, <1>2, <2>1, <2>2
<1>7. \A j \in E : Excess(desc, j, i - 1) > 0 /\ Excess(desc, j, i - 1) \in Int
  BY <1>1, <1>5
<1>8. \A j : j \in F => j = i \/ j \in 1..(i - 1)
  BY <1>2
<1>9. i \in F <=> desc[i].tag = "collection"
  <2>1. \A m \in i..i : m = i
    OBVIOUS
  <2> QED BY <1>2, <2>1, ExcessOne
<1>10. CASE desc[i].tag = "collection"
  <2>1. d = 1
    BY <1>10, ExcessOne
  <2>2. ASSUME NEW j \in 1..(i - 1) PROVE j \in F <=> j \in E
    <3> HIDE DEF d, E, F
    <3> QED BY <1>6, <1>7, <2>1
  <2>3. \A j : j \in F <=> j \in E \cup {i}
    <3> HIDE DEF E, F
    <3> QED BY <2>2, <1>4, <1>8, <1>9, <1>10
  <2>4. F = E \cup {i}
    <3> HIDE DEF E, F
    <3> QED BY <2>3
  <2> QED BY <1>3, <1>4, <1>10, <2>4
<1>11. CASE desc[i].tag \notin {"collection", "end"}
  <2>1. d = 0
    BY <1>11, ExcessOne
  <2>2. ASSUME NEW j \in 1..(i - 1) PROVE j \in F <=> j \in E
    <3> HIDE DEF d, E, F
    <3> QED BY <1>6, <1>7, <2>1
  <2>3. F = E
    <3> HIDE DEF E, F
    <3> QED BY <2>2, <1>4, <1>8, <1>9, <1>11
  <2> QED BY <1>3, <1>4, <1>11, <2>3
<1>12. CASE desc[i].tag = "end"
  <2>1. d = -1
    BY <1>12, ExcessOne
  <2>2. ASSUME E # {}
        PROVE  \E x \in E : (\A j \in E \ {x} : j < x) /\ F = E \ {x}
    <3>1. PICK x \in E : \A j \in E : j <= x
      <4>1. E \subseteq 0..i
        BY <1>4
      <4> HIDE DEF E
      <4> QED BY <4>1, <2>2, Greatest
    <3>2. Excess(desc, x, i - 1) = 1
      BY <3>1, Innermost
    <3>3. x \in 1..(i - 1) /\ \A j \in E \ {x} : j \in 1..(i - 1) /\ j < x
      BY <3>1, <1>4
    <3>4. ASSUME NEW j \in E \ {x} PROVE Excess(desc, j, i - 1) > 1 /\ Excess(desc, j, i - 1) \in Int
      <4>1. j \in Nat \ {0} /\ x - 1 \in Nat /\ i - 1 \in Nat /\ j <= (x - 1) + 1 /\ x - 1 <= i - 1
            /\ (x - 1) + 1 = x /\ x - 1 \in j..(i - 1)
        BY <3>3
      <4>2. /\ Excess(desc, j, x - 1) \in Int /\ Excess(desc, (x - 1) + 1, i - 1) \in Int
            /\ Excess(desc, j, i - 1) = Excess(desc, j, x - 1) + Excess(desc, (x - 1) + 1, i - 1)
        <5> DEFINE m == x - 1
        <5>1. j \in Nat \ {0} /\ m \in Nat /\ i - 1 \in Nat /\ j <= m + 1 /\ m <= i - 1
          BY <4>1
        <5> HIDE DEF m
        <5>2. /\ Excess(desc, j, m) \in Int /\ Excess(desc, m + 1, i - 1) \in Int
              /\ Excess(desc, j, i - 1) = Excess(desc, j, m) + Excess(desc, m + 1, i - 1)
          BY ONLY <5>1, ExcessSplit
        <5> QED BY <5>2 DEF m
      <4>3. Excess(desc, j, x - 1) > 0
        BY <4>1, <1>1
      <4> QED BY <4>1, <4>2, <4>3, <3>2
    <3>5. x \notin F
      <4> HIDE DEF E, F, d
      <4> QED BY <1>6, <2>1, <3>2, <3>3
    <3>6. ASSUME NEW j \in E \ {x} PROVE j \in F
      <4> HIDE DEF E, F, d
      <4> QED BY <1>6, <2>1, <3>3, <3>4
    <3>7. F \subseteq E
      <4> HIDE DEF E, F, d
      <4> QED BY <1>6, <1>8, <1>9, <1>12
    <3>8. F = E \ {x}
      <4> HIDE DEF E, F
      <4> QED BY <3>5, <3>6, <3>7
    <3> QED BY <3>3, <3>8
  <2> QED BY <1>3, <1>4, <1>12, <2>2
<1> QED
  BY <1>10, <1>11, <1>12

-----------------------------------------------------------------------------
(* The path of the parser is that of the collections that are open. *)

\* The path of the parser names the collections open, from the outermost.
OpenAt(desc, i, p) ==
  /\ IsSeq(p) /\ Len(p) = Cardinality(Enclosing(desc, i))
  /\ \A n \in 1..Len(p) : p[n] = DeclaredUsage(desc, Nth(Enclosing(desc, i), n), 1)

\* One item keeps it so.
LEMMA PathStep ==
  ASSUME NEW desc, NEW s, HasParts(s), NEW i \in Nat \ {0},
         IsItem(desc[i]), OpenAt(desc, i, s.path),
         Cardinality(Enclosing(desc, i)) < HID_MAX_PATH,
         desc[i].tag = "end" => Enclosing(desc, i) # {},
         Opening(s) = DeclaredUsage(desc, i, 1)
  PROVE  OpenAt(desc, i + 1, Item(s, desc[i]).path)
<1> DEFINE p == s.path
           t == Item(s, desc[i])
           E == Enclosing(desc, i)
           F == Enclosing(desc, i + 1)
           D(j) == DeclaredUsage(desc, j, 1)
<1>1. IsSeq(p) /\ Len(p) = Cardinality(E) /\ Len(p) \in Nat
      /\ \A n \in 1..Len(p) : p[n] = D(Nth(E, n))
  BY DEF OpenAt, IsSeq
<1>2. /\ E \subseteq 1..(i - 1) /\ i - 1 \in Nat
      /\ desc[i].tag = "collection" => F = E \cup {i}
      /\ desc[i].tag = "end" /\ E # {} =>
           \E x \in E : (\A j \in E \ {x} : j < x) /\ F = E \ {x}
      /\ desc[i].tag \notin {"collection", "end"} => F = E
  BY EnclosingStep
<1>3. CASE desc[i].tag = "collection"
  <2>1. F = E \cup {i}
    BY <1>2, <1>3
  <2>2. /\ Cardinality(E \cup {i}) = Cardinality(E) + 1
        /\ \A k \in 1..Cardinality(E) : Nth(E \cup {i}, k) = Nth(E, k)
        /\ Nth(E \cup {i}, Cardinality(E) + 1) = i
    <3>1. E \subseteq 1..(i - 1) /\ i - 1 \in Nat /\ \A j \in E : j < i
      BY <1>2
    <3> HIDE DEF E
    <3>2. i \in Nat
      OBVIOUS
    <3>3. /\ IsFiniteSet(E) /\ Cardinality(E) \in Nat
          /\ Cardinality(E \cup {i}) = Cardinality(E) + 1
          /\ \A k \in 1..Cardinality(E) : Nth(E \cup {i}, k) = Nth(E, k)
          /\ Nth(E \cup {i}, Cardinality(E) + 1) = i
      BY ONLY <3>1, <3>2, NthAdd
    <3> QED BY <3>3
  <2>3. t.path = IF Len(p) < HID_MAX_PATH THEN Append(p, Opening(s)) ELSE p
    BY <1>3, ItemCollection
  <2>4. Len(p) < HID_MAX_PATH
    BY <1>1
  <2> DEFINE r == Append(p, Opening(s))
  <2>5. /\ IsSeq(r) /\ Len(r) = Len(p) + 1 /\ \A k \in 1..Len(p) : r[k] = p[k]
        /\ r[Len(p) + 1] = D(i)
    <3> HIDE DEF p
    <3> QED BY <1>1, SeqAppend
  <2>6. t.path = r
    BY <2>3, <2>4
  <2> HIDE DEF r, p, E, F, t, D
  <2>7. ASSUME NEW k \in 1..Len(r) PROVE r[k] = D(Nth(F, k))
    <3>1. CASE k \in 1..Len(p)
      BY <3>1, <1>1, <2>1, <2>2, <2>5
    <3>2. CASE k = Len(p) + 1
      BY <3>2, <1>1, <2>1, <2>2, <2>5
    <3> QED BY <3>1, <3>2, <2>5, <1>1
  <2>8. Len(r) = Cardinality(F)
    BY <1>1, <2>1, <2>2, <2>5
  <2>9. OpenAt(desc, i + 1, r)
    BY <2>5, <2>7, <2>8 DEF OpenAt, F, D
  <2> QED BY <2>6, <2>9 DEF t
<1>4. CASE desc[i].tag = "end"
  <2>1. PICK x \in E : (\A j \in E \ {x} : j < x) /\ F = E \ {x}
    BY <1>2, <1>4
  <2>2. /\ IsFiniteSet(F) /\ Cardinality(F) \in Nat
        /\ Cardinality(F \cup {x}) = Cardinality(F) + 1
        /\ \A k \in 1..Cardinality(F) : Nth(F \cup {x}, k) = Nth(F, k)
    <3>1. F \subseteq 1..(i - 1) /\ i - 1 \in Nat /\ x \in Nat /\ \A j \in F : j < x
      BY <1>2, <2>1
    <3> HIDE DEF F, E
    <3>2. /\ IsFiniteSet(F) /\ Cardinality(F) \in Nat
          /\ Cardinality(F \cup {x}) = Cardinality(F) + 1
          /\ \A k \in 1..Cardinality(F) : Nth(F \cup {x}, k) = Nth(F, k)
          /\ Nth(F \cup {x}, Cardinality(F) + 1) = x
      BY ONLY <3>1, NthAdd
    <3> QED BY <3>2
  <2>3. F \cup {x} = E
    <3> HIDE DEF F, E
    <3> QED BY <2>1
  <2>4. Len(p) = Cardinality(F) + 1
    <3> HIDE DEF F, E, p
    <3> QED BY <1>1, <2>2, <2>3
  <2>5. p # <<>>
    <3> HIDE DEF F, p
    <3> QED BY <2>2, <2>4, SeqEmpty
  <2>6. t.path = Front(p)
    BY <1>4, <2>5, ItemEnd
  <2> DEFINE r == Front(p)
  <2>7. IsSeq(r) /\ Len(r) = Len(p) - 1 /\ \A k \in 1..(Len(p) - 1) : r[k] = p[k]
    <3> HIDE DEF p
    <3> QED BY <1>1, <2>5, SeqFront
  <2> HIDE DEF r, p, E, F, t, D
  <2>8. Len(r) = Cardinality(F)
    BY <2>2, <2>4, <2>7
  <2>9. ASSUME NEW k \in 1..Len(r) PROVE r[k] = D(Nth(F, k))
    <3>1. k \in 1..Cardinality(F) /\ k \in 1..Len(p) /\ k \in 1..(Len(p) - 1)
      BY <2>2, <2>4, <2>8
    <3>2. r[k] = p[k] /\ p[k] = D(Nth(E, k))
      BY <3>1, <2>7, <1>1
    <3>3. Nth(E, k) = Nth(F, k)
      BY <3>1, <2>2, <2>3
    <3> QED BY <3>2, <3>3
  <2>10. OpenAt(desc, i + 1, r)
    BY <2>7, <2>8, <2>9 DEF OpenAt, F, D
  <2> QED BY <2>6, <2>10 DEF t, r
<1>5. CASE desc[i].tag \notin {"collection", "end"}
  <2>1. desc[i].tag \in Globals \cup Types \cup {"usage"}
    BY <1>5 DEF IsItem
  <2>2. t.path = p
    BY <2>1, ItemGlobal, ItemUsage, ItemMain
  <2>3. F = E
    BY <1>2, <1>5
  <2> QED BY <2>2, <2>3 DEF OpenAt
<1> QED
  BY <1>3, <1>4, <1>5

\* So the path is that of the specification at every item.
LEMMA PathAgrees ==
  ASSUME NEW desc, IsDesc(desc), Fits(desc), NEW i \in 1..Len(desc)
  PROVE  OpenAt(desc, i, After(desc)[i - 1].path)
<1> DEFINE N == Len(desc)
           S == {n \in 0..N : OpenAt(desc, n + 1, After(desc)[n].path)}
<1>1. N \in Nat
  BY DEF IsDesc
<1>2. 0 \in S
  <2>1. Enclosing(desc, 1) = {}
    BY 1 \in Nat \ {0}, EnclosingStep
  <2>2. After(desc)[0].path = <<>>
    BY <1>1, AfterUnfold DEF Start
  <2>3. OpenAt(desc, 1, <<>>)
    BY <2>1, SeqEmpty, FS_EmptySet DEF OpenAt
  <2> QED BY <2>2, <2>3, <1>1
<1>3. ASSUME NEW n \in 0..(N - 1), n \in S PROVE n + 1 \in S
  <2>1. n + 1 \in 1..N /\ n + 1 - 1 = n /\ n \in 0..N /\ n + 1 \in Nat \ {0} /\ n + 1 \in 0..N
    BY <1>1
  <2>2. After(desc)[n + 1] = Item(After(desc)[n], desc[n + 1])
    BY <1>1, <2>1, AfterUnfold
  <2>3. HasParts(After(desc)[n]) /\ IsItem(desc[n + 1])
    BY <2>1, AfterState DEF IsState, IsDesc
  <2>4. OpenAt(desc, n + 1, After(desc)[n].path)
    BY <1>3
  <2>5. /\ Cardinality(Enclosing(desc, n + 1)) < HID_MAX_PATH
        /\ desc[n + 1].tag = "end" => Enclosing(desc, n + 1) # {}
    BY <2>1 DEF Fits
  <2>6. Opening(After(desc)[n]) = DeclaredUsage(desc, n + 1, 1)
    <3>1. Opening(After(desc)[n + 1 - 1]) = DeclaredUsage(desc, n + 1, 1)
      BY <2>1, UsageAgrees
    <3> QED BY <3>1, <2>1
  <2>7. OpenAt(desc, n + 1 + 1, Item(After(desc)[n], desc[n + 1]).path)
    BY <2>1, <2>3, <2>4, <2>5, <2>6, PathStep
  <2> QED BY <2>1, <2>2, <2>7
<1>4. 0..N \subseteq S
  <2> HIDE DEF S, N
  <2> QED BY <1>1, <1>2, <1>3, UptoInduction
<1>5. i - 1 \in 0..N /\ i - 1 + 1 = i
  BY <1>1
<1>6. i - 1 \in S
  BY <1>4, <1>5
<1> QED
  BY <1>5, <1>6

-----------------------------------------------------------------------------
(* What the descriptor declares, item by item *)

\* The bits taken before an item, unfolded once.
LEMMA TakenUnfold ==
  ASSUME NEW desc, Len(desc) \in Nat, NEW slot
  PROVE  /\ Taken(desc, slot)[0] = 0
         /\ \A i \in 1..Len(desc) :
              Taken(desc, slot)[i] = Taken(desc, slot)[i - 1]
                + IF SlotAt(desc, i) = slot
                  THEN LastGlobal(desc, i, "count") * LastGlobal(desc, i, "size") ELSE 0
<1> DEFINE N == Len(desc)
           D(i) == IF SlotAt(desc, i) = slot
                   THEN LastGlobal(desc, i, "count") * LastGlobal(desc, i, "size") ELSE 0
           Runs(n, h) == h = [i \in 0..n |-> IF i = 0 THEN 0 ELSE h[i - 1] + D(i)]
           S == {n \in 0..N : \E h : Runs(n, h)}
<1>0. Taken(desc, slot) = CHOOSE h : Runs(N, h)
  BY DEF Taken
<1> HIDE DEF D
<1>1. 0 \in S
  <2> DEFINE k == [i \in 0..0 |-> 0]
  <2>1. \A i \in 0..0 : k[i] = IF i = 0 THEN 0 ELSE k[i - 1] + D(i)
    OBVIOUS
  <2>2. Runs(0, k)
    <3>1. k = [i \in 0..0 |-> k[i]]
      OBVIOUS
    <3> HIDE DEF k
    <3> QED BY <2>1, <3>1
  <2> HIDE DEF Runs, k
  <2> QED BY <2>2
<1>2. ASSUME NEW n \in 0..(N - 1), n \in S PROVE n + 1 \in S
  <2>1. PICK h : Runs(n, h)
    BY <1>2
  <2> DEFINE k == [i \in 0..(n + 1) |-> IF i = n + 1 THEN h[n] + D(n + 1) ELSE h[i]]
  <2>2. k = [i \in 0..(n + 1) |-> IF i = 0 THEN 0 ELSE k[i - 1] + D(i)]
    <3>1. ASSUME NEW i \in 0..(n + 1)
          PROVE  k[i] = IF i = 0 THEN 0 ELSE k[i - 1] + D(i)
      <4>1. CASE i = n + 1
        <5>1. i - 1 = n /\ n # n + 1 /\ n \in 0..(n + 1) /\ i # 0
          BY <4>1
        <5>2. k[i] = h[n] + D(n + 1) /\ k[n] = h[n]
          BY <4>1, <5>1
        <5> HIDE DEF k
        <5> QED BY <4>1, <5>1, <5>2
      <4>2. CASE i = 0
        <5>1. 0 # n + 1 /\ 0 \in 0..n
          OBVIOUS
        <5>2. k[0] = h[0] /\ h[0] = 0
          BY <2>1, <5>1
        <5> HIDE DEF k
        <5> QED BY <4>2, <5>2
      <4>3. CASE i \in 1..n
        <5>1. i \in 0..n /\ i # 0 /\ i # n + 1 /\ i - 1 # n + 1 /\ i - 1 \in 0..(n + 1)
          BY <4>3
        <5>2. k[i] = h[i] /\ k[i - 1] = h[i - 1]
          BY <5>1
        <5>3. h[i] = h[i - 1] + D(i)
          BY <2>1, <5>1
        <5> HIDE DEF k
        <5> QED BY <5>1, <5>2, <5>3
      <4> QED BY <4>1, <4>2, <4>3
    <3>2. k = [i \in 0..(n + 1) |-> k[i]]
      OBVIOUS
    <3> HIDE DEF k
    <3> QED BY <3>1, <3>2
  <2>3. Runs(n + 1, k)
    BY <2>2
  <2>4. n + 1 \in 0..N
    OBVIOUS
  <2> HIDE DEF k, Runs
  <2> QED BY <2>3, <2>4
<1>3. PICK g : Runs(N, g)
  <2>1. N \in Nat
    OBVIOUS
  <2>2. 0..N \subseteq S
    <3> HIDE DEF S, N
    <3> QED BY <1>1, <1>2, <2>1, UptoInduction
  <2>3. N \in 0..N
    OBVIOUS
  <2> HIDE DEF Runs, N
  <2> QED BY <2>2, <2>3
<1> DEFINE T == Taken(desc, slot)
<1>4. T = [i \in 0..N |-> IF i = 0 THEN 0 ELSE T[i - 1] + D(i)]
  <2>1. Runs(N, T)
    <3> HIDE DEF Runs
    <3> QED BY <1>0, <1>3
  <2> QED BY <2>1
<1> HIDE DEF T
<1>5. ASSUME NEW i \in 1..Len(desc) PROVE T[i] = T[i - 1] + D(i)
  <2>1. i \in 0..N /\ i # 0
    OBVIOUS
  <2> QED BY <1>4, <2>1
<1>6. T[0] = 0
  BY <1>4
<1> QED
  BY <1>5, <1>6 DEF T, D

\* The fields declared up to an item, unfolded once.
LEMMA DeclaredUnfold ==
  ASSUME NEW desc, Len(desc) \in Nat
  PROVE  /\ DeclaredUpTo(desc)[0] = <<>>
         /\ \A i \in 1..Len(desc) :
              DeclaredUpTo(desc)[i] = DeclaredUpTo(desc)[i - 1] \o Declares(desc, i)
<1> DEFINE N == Len(desc)
           D(i) == Declares(desc, i)
           Runs(n, h) == h = [i \in 0..n |-> IF i = 0 THEN <<>> ELSE h[i - 1] \o D(i)]
           S == {n \in 0..N : \E h : Runs(n, h)}
<1>0. DeclaredUpTo(desc) = CHOOSE h : Runs(N, h)
  BY DEF DeclaredUpTo
<1> HIDE DEF D
<1>1. 0 \in S
  <2> DEFINE k == [i \in 0..0 |-> <<>>]
  <2>1. \A i \in 0..0 : k[i] = IF i = 0 THEN <<>> ELSE k[i - 1] \o D(i)
    OBVIOUS
  <2>2. Runs(0, k)
    <3>1. k = [i \in 0..0 |-> k[i]]
      OBVIOUS
    <3> HIDE DEF k
    <3> QED BY <2>1, <3>1
  <2> HIDE DEF Runs, k
  <2> QED BY <2>2
<1>2. ASSUME NEW n \in 0..(N - 1), n \in S PROVE n + 1 \in S
  <2>1. PICK h : Runs(n, h)
    BY <1>2
  <2> DEFINE k == [i \in 0..(n + 1) |-> IF i = n + 1 THEN h[n] \o D(n + 1) ELSE h[i]]
  <2>2. k = [i \in 0..(n + 1) |-> IF i = 0 THEN <<>> ELSE k[i - 1] \o D(i)]
    <3>1. ASSUME NEW i \in 0..(n + 1)
          PROVE  k[i] = IF i = 0 THEN <<>> ELSE k[i - 1] \o D(i)
      <4>1. CASE i = n + 1
        <5>1. i - 1 = n /\ n # n + 1 /\ n \in 0..(n + 1) /\ i # 0
          BY <4>1
        <5>2. k[i] = h[n] \o D(n + 1) /\ k[n] = h[n]
          BY <4>1, <5>1
        <5> HIDE DEF k
        <5> QED BY <4>1, <5>1, <5>2
      <4>2. CASE i = 0
        <5>1. 0 # n + 1 /\ 0 \in 0..n
          OBVIOUS
        <5>2. k[0] = h[0] /\ h[0] = <<>>
          BY <2>1, <5>1
        <5> HIDE DEF k
        <5> QED BY <4>2, <5>2
      <4>3. CASE i \in 1..n
        <5>1. i \in 0..n /\ i # 0 /\ i # n + 1 /\ i - 1 # n + 1 /\ i - 1 \in 0..(n + 1)
          BY <4>3
        <5>2. k[i] = h[i] /\ k[i - 1] = h[i - 1]
          BY <5>1
        <5>3. h[i] = h[i - 1] \o D(i)
          BY <2>1, <5>1
        <5> HIDE DEF k
        <5> QED BY <5>1, <5>2, <5>3
      <4> QED BY <4>1, <4>2, <4>3
    <3>2. k = [i \in 0..(n + 1) |-> k[i]]
      OBVIOUS
    <3> HIDE DEF k
    <3> QED BY <3>1, <3>2
  <2>3. Runs(n + 1, k)
    BY <2>2
  <2>4. n + 1 \in 0..N
    OBVIOUS
  <2> HIDE DEF k, Runs
  <2> QED BY <2>3, <2>4
<1>3. PICK g : Runs(N, g)
  <2>1. N \in Nat
    OBVIOUS
  <2>2. 0..N \subseteq S
    <3> HIDE DEF S, N
    <3> QED BY <1>1, <1>2, <2>1, UptoInduction
  <2>3. N \in 0..N
    OBVIOUS
  <2> HIDE DEF Runs, N
  <2> QED BY <2>2, <2>3
<1> DEFINE T == DeclaredUpTo(desc)
<1>4. T = [i \in 0..N |-> IF i = 0 THEN <<>> ELSE T[i - 1] \o D(i)]
  <2>1. Runs(N, T)
    <3> HIDE DEF Runs
    <3> QED BY <1>0, <1>3
  <2> QED BY <2>1
<1> HIDE DEF T
<1>5. ASSUME NEW i \in 1..Len(desc) PROVE T[i] = T[i - 1] \o D(i)
  <2>1. i \in 0..N /\ i # 0
    OBVIOUS
  <2> QED BY <1>4, <2>1
<1>6. T[0] = <<>>
  BY <1>4
<1> QED
  BY <1>5, <1>6 DEF T, D

\* What one item declares.
LEMMA DeclaresSeq ==
  ASSUME NEW desc, IsDesc(desc), NEW i \in 1..Len(desc)
  PROVE  /\ IsSeq(Declares(desc, i)) /\ Len(Declares(desc, i)) \in Nat
         /\ desc[i].tag \notin Types => Declares(desc, i) = <<>>
         /\ desc[i].tag \in Types =>
              /\ Len(Declares(desc, i)) = LastGlobal(desc, i, "count")
              /\ \A k \in 1..LastGlobal(desc, i, "count") :
                   Declares(desc, i)[k] =
                     Field(InForce(desc, i), PathAt(desc, i, DeclaredUsage(desc, i, k)),
                           DeclaredUsage(desc, i, k), desc[i].tag,
                           Taken(desc, SlotAt(desc, i))[i - 1]
                             + (k - 1) * LastGlobal(desc, i, "size"))
<1> DEFINE n == LastGlobal(desc, i, "count")
           F(k) == Field(InForce(desc, i), PathAt(desc, i, DeclaredUsage(desc, i, k)),
                         DeclaredUsage(desc, i, k), desc[i].tag,
                         Taken(desc, SlotAt(desc, i))[i - 1]
                           + (k - 1) * LastGlobal(desc, i, "size"))
           d == Declares(desc, i)
<1>1. n \in Nat
  BY InForceAt
<1>2. CASE desc[i].tag \notin Types
  BY <1>2, SeqEmpty DEF Declares
<1>3. CASE desc[i].tag \in Types
  <2>1. d = [k \in 1..n |-> F(k)]
    BY <1>3 DEF Declares
  <2> HIDE DEF d, F, n
  <2>2. d = [k \in 1..n |-> d[k]] /\ \A k \in 1..n : d[k] = F(k)
    BY <2>1
  <2>3. IsSeq(d) /\ Len(d) = n
    BY <1>1, <2>2, SeqFun
  <2> QED BY <1>1, <1>3, <2>2, <2>3 DEF d, F, n
<1> QED
  BY <1>2, <1>3

\* The table only grows.
LEMMA DeclaredGrows ==
  ASSUME NEW desc, IsDesc(desc)
  PROVE  \A i \in 0..Len(desc) :
           /\ IsSeq(DeclaredUpTo(desc)[i]) /\ Len(DeclaredUpTo(desc)[i]) \in Nat
           /\ Len(DeclaredUpTo(desc)[i]) <= Len(Declared(desc))
<1> DEFINE N == Len(desc)
           U(n) == DeclaredUpTo(desc)[n]
           S == {n \in 0..N : IsSeq(U(n))}
           T == {n \in 0..N : Len(U(N - n)) <= Len(U(N))}
<1>1. N \in Nat /\ U(0) = <<>> /\ U(N) = Declared(desc)
  BY DeclaredUnfold DEF IsDesc, Declared
<1>2. ASSUME NEW n \in 0..(N - 1)
      PROVE  n \in 0..N /\ n + 1 \in 0..N /\ n + 1 \in 1..N /\ U(n + 1) = U(n) \o Declares(desc, n + 1)
  <2>1. n + 1 \in 1..N /\ n + 1 - 1 = n /\ n \in 0..N /\ n + 1 \in 0..N
    BY <1>1
  <2>2. \A i \in 1..N : DeclaredUpTo(desc)[i] = DeclaredUpTo(desc)[i - 1] \o Declares(desc, i)
    BY DeclaredUnfold DEF IsDesc
  <2> DEFINE i == n + 1
  <2>3. i \in 1..N /\ i - 1 = n
    BY <2>1
  <2> HIDE DEF i
  <2>4. U(i) = U(n) \o Declares(desc, i)
    BY <2>2, <2>3
  <2> QED BY <2>1, <2>4 DEF i
<1>3. \A n \in 1..N : IsSeq(Declares(desc, n)) /\ Len(Declares(desc, n)) \in Nat
  BY DeclaresSeq
<1> HIDE DEF U
<1>4. 0..N \subseteq S
  <2>1. 0 \in S
    BY <1>1, SeqEmpty
  <2>2. ASSUME NEW n \in 0..(N - 1), n \in S PROVE n + 1 \in S
    <3>1. IsSeq(U(n) \o Declares(desc, n + 1))
      BY <1>2, <1>3, <2>2, SeqConcat
    <3> QED BY <1>2, <3>1
  <2> HIDE DEF S, N
  <2> QED BY <1>1, <2>1, <2>2, UptoInduction
<1>5. \A n \in 0..N : IsSeq(U(n)) /\ Len(U(n)) \in Nat
  BY <1>4 DEF IsSeq
<1>6. \A n \in 0..(N - 1) : Len(U(n)) <= Len(U(n + 1))
  <2>1. ASSUME NEW n \in 0..(N - 1) PROVE Len(U(n)) <= Len(U(n + 1))
    <3>1. Len(U(n) \o Declares(desc, n + 1)) = Len(U(n)) + Len(Declares(desc, n + 1))
      BY <1>2, <1>3, <1>5, SeqConcat
    <3> QED BY <1>2, <1>3, <1>5, <3>1
  <2> QED BY <2>1
<1>7. 0..N \subseteq T
  <2>1. 0 \in T
    BY <1>1, <1>5
  <2>2. ASSUME NEW n \in 0..(N - 1), n \in T PROVE n + 1 \in T
    <3>1. N - (n + 1) \in 0..(N - 1) /\ (N - (n + 1)) + 1 = N - n /\ N - (n + 1) \in 0..N
          /\ N - n \in 0..N /\ N \in 0..N /\ n + 1 \in 0..N
      BY <1>1
    <3>2. Len(U(N - (n + 1))) <= Len(U((N - (n + 1)) + 1))
      BY <3>1, <1>6
    <3>3. Len(U(N - (n + 1))) <= Len(U(N - n))
      BY <3>1, <3>2
    <3>4. Len(U(N - n)) <= Len(U(N))
      BY <2>2
    <3>5. Len(U(N - (n + 1))) \in Nat /\ Len(U(N - n)) \in Nat /\ Len(U(N)) \in Nat
      BY <3>1, <1>5
    <3> QED BY <3>1, <3>3, <3>4, <3>5
  <2> HIDE DEF T, N
  <2> QED BY <1>1, <2>1, <2>2, UptoInduction
<1>8. ASSUME NEW n \in 0..N PROVE Len(U(n)) <= Len(U(N))
  <2>1. N - n \in 0..N /\ N - (N - n) = n
    BY <1>1
  <2>2. N - n \in T
    BY <2>1, <1>7
  <2> QED BY <2>1, <2>2
<1> QED
  BY <1>1, <1>5, <1>8 DEF U

-----------------------------------------------------------------------------
(* The table of the parser is the one declared. *)

\* The fields of a main item, when the table has room for them
LEMMA FieldsAgree ==
  ASSUME NEW desc, IsDesc(desc), Fits(desc), NEW i \in 1..Len(desc), desc[i].tag \in Types,
         Room(After(desc)[i - 1]) = LastGlobal(desc, i, "count"),
         \A slot \in Slots : After(desc)[i - 1].offsets[slot] = Taken(desc, slot)[i - 1]
  PROVE  NewFields(After(desc)[i - 1], desc[i].tag) = Declares(desc, i)
<1> DEFINE s == After(desc)[i - 1]
           type == desc[i].tag
           n == LastGlobal(desc, i, "count")
           E == Enclosing(desc, i)
<1>1. i - 1 \in 0..Len(desc) /\ Len(desc) \in Nat
  BY DEF IsDesc
<1>2. IsState(s)
  BY <1>1, AfterState
<1>3. n \in Nat /\ LastGlobal(desc, i, "size") = s.global["size"]
      /\ LastGlobal(desc, i, "id") = s.global["id"] /\ s.global = InForce(desc, i)
      /\ s.global["id"] \in Ids
  <2>1. {"size", "id"} \subseteq Globals
    BY DEF Globals
  <2> QED BY <2>1, InForceAt
<1>4. SlotAt(desc, i) = Slot(s, type) /\ Slot(s, type) \in Slots
  BY <1>3 DEF SlotAt, Slot, Slots
<1>5. OpenAt(desc, i, s.path)
  BY PathAgrees
<1>6. IsSeq(s.path) /\ Len(s.path) = Cardinality(E) /\ Len(s.path) \in Nat /\ Len(s.path) < HID_MAX_PATH
      /\ \A m \in 1..Len(s.path) : s.path[m] = DeclaredUsage(desc, Nth(E, m), 1)
  <2>1. Cardinality(E) < HID_MAX_PATH
    BY DEF Fits
  <2> QED BY <1>5, <2>1 DEF OpenAt, IsSeq
<1>7. ASSUME NEW own PROVE Append(s.path, own) = PathAt(desc, i, own)
  <2> DEFINE p == s.path
             c == Cardinality(E)
             r == Append(p, own)
             u == PathAt(desc, i, own)
  <2>1. /\ IsSeq(r) /\ Len(r) = Len(p) + 1 /\ \A k \in 1..Len(p) : r[k] = p[k]
        /\ r[Len(p) + 1] = own
    <3>1. IsSeq(p)
      BY <1>6
    <3> HIDE DEF p
    <3> QED BY <3>1, SeqAppend
  <2>2. u = [m \in 1..(c + 1) |-> IF m <= c THEN DeclaredUsage(desc, Nth(E, m), 1) ELSE own]
    BY DEF PathAt
  <2>3. c \in Nat /\ c + 1 \in Nat /\ Len(p) = c
    BY <1>6
  <2> HIDE DEF p, c, r, u, E
  <2>4. u = [m \in 1..(c + 1) |-> u[m]]
        /\ \A m \in 1..(c + 1) : u[m] = IF m <= c THEN DeclaredUsage(desc, Nth(E, m), 1) ELSE own
    BY <2>2
  <2>5. IsSeq(u) /\ Len(u) = c + 1
    BY <2>3, <2>4, SeqFun
  <2>6. ASSUME NEW m \in 1..Len(r) PROVE r[m] = u[m]
    <3>1. CASE m <= c
      <4>1. m \in 1..c /\ m \in 1..(c + 1) /\ m \in 1..Len(p)
        BY <3>1, <2>1, <2>3
      <4>2. r[m] = p[m] /\ p[m] = DeclaredUsage(desc, Nth(E, m), 1)
        BY <4>1, <2>1, <1>6 DEF p
      <4> QED BY <4>1, <4>2, <2>4, <3>1
    <3>2. CASE ~(m <= c)
      <4>1. m = c + 1 /\ m \in 1..(c + 1)
        BY <3>2, <2>1, <2>3
      <4> QED BY <4>1, <2>1, <2>3, <2>4, <3>2
    <3> QED BY <3>1, <3>2
  <2>7. r = u
    BY <2>1, <2>3, <2>5, <2>6, SeqSame
  <2> QED BY <2>7 DEF r, u, p
<1>8. ASSUME NEW k \in 1..n PROVE DeclaredField(s, type, k) = Declares(desc, i)[k]
  <2> DEFINE own == <<s.global["page"], UsageAt(s.queue, k)>>
             at == Taken(desc, SlotAt(desc, i))[i - 1] + (k - 1) * LastGlobal(desc, i, "size")
  <2>1. own = DeclaredUsage(desc, i, k)
    BY UsageAgrees
  <2>2. DeclaredField(s, type, k)
          = Field(s.global, Append(s.path, own), own, type,
                  s.offsets[<<s.global["id"], type>>] + (k - 1) * s.global["size"])
    BY <1>6 DEF DeclaredField
  <2>3. s.offsets[<<s.global["id"], type>>] = Taken(desc, SlotAt(desc, i))[i - 1]
    BY <1>4 DEF Slot
  <2>4. Declares(desc, i)[k]
          = Field(InForce(desc, i), PathAt(desc, i, DeclaredUsage(desc, i, k)),
                  DeclaredUsage(desc, i, k), desc[i].tag, at)
    BY DeclaresSeq
  <2>5. Append(s.path, own) = PathAt(desc, i, own)
    BY <1>7
  <2> HIDE DEF s, own
  <2> QED BY <2>1, <2>2, <2>3, <2>4, <2>5, <1>3
<1>9. IsSeq(Declares(desc, i)) /\ Len(Declares(desc, i)) = n
  BY DeclaresSeq
<1>10. NewFields(s, type) = [k \in 1..n |-> DeclaredField(s, type, k)]
  BY DEF NewFields
<1> DEFINE d == Declares(desc, i)
<1>11. d = [k \in 1..n |-> d[k]]
  BY <1>9 DEF IsSeq
<1>12. NewFields(s, type) = d
  <2> HIDE DEF d, s, type, n
  <2> QED BY <1>8, <1>10, <1>11 DEF d
<1> QED
  BY <1>12

\* One item adds to the table what it declares.
LEMMA TableStep ==
  ASSUME NEW desc, IsDesc(desc), Fits(desc), NEW i \in 1..Len(desc),
         After(desc)[i - 1].fields = DeclaredUpTo(desc)[i - 1],
         \A slot \in Slots : After(desc)[i - 1].offsets[slot] = Taken(desc, slot)[i - 1]
  PROVE  /\ After(desc)[i].fields = DeclaredUpTo(desc)[i]
         /\ \A slot \in Slots : After(desc)[i].offsets[slot] = Taken(desc, slot)[i]
<1> DEFINE s == After(desc)[i - 1]
           t == After(desc)[i]
           item == desc[i]
           U(n) == DeclaredUpTo(desc)[n]
           count == LastGlobal(desc, i, "count")
           size == LastGlobal(desc, i, "size")
<1>1. i - 1 \in 0..Len(desc) /\ i \in 0..Len(desc) /\ Len(desc) \in Nat
  BY DEF IsDesc
<1>2. t = Item(s, item)
  BY <1>1, AfterUnfold
<1>3. IsState(s) /\ HasParts(s) /\ IsItem(item)
  BY <1>1, AfterState DEF IsState, IsDesc
<1>4. U(i) = U(i - 1) \o Declares(desc, i)
  BY <1>1, DeclaredUnfold
<1>5. IsSeq(U(i - 1)) /\ Len(U(i - 1)) \in Nat /\ Len(U(i)) \in Nat /\ Len(U(i)) <= Len(Declared(desc))
  BY <1>1, DeclaredGrows
<1>6. \A slot : Taken(desc, slot)[i] = Taken(desc, slot)[i - 1]
                  + IF SlotAt(desc, i) = slot THEN count * size ELSE 0
  BY <1>1, TakenUnfold
<1>7. count \in Nat /\ size \in Nat /\ s.global["count"] = count /\ s.global["size"] = size
      /\ s.global["id"] = LastGlobal(desc, i, "id") /\ s.global["id"] \in Ids
  <2>1. {"count", "size", "id"} \subseteq Globals
    BY DEF Globals
  <2> QED BY <2>1, InForceAt
<1>8. \A slot \in Slots : s.offsets[slot] \in Nat
  BY <1>3 DEF IsState
<1>9. CASE item.tag \in Types
  <2>1. /\ t.offsets = [s.offsets EXCEPT ![Slot(s, item.tag)] =
                 s.offsets[Slot(s, item.tag)] + Room(s) * s.global["size"]]
        /\ t.fields = s.fields \o NewFields(s, item.tag)
    <3> HIDE DEF s, t, item
    <3> QED BY <1>2, <1>3, <1>9, ItemMain
  <2>2. IsSeq(Declares(desc, i)) /\ Len(Declares(desc, i)) = count
    BY <1>9, DeclaresSeq
  <2>3. Len(U(i)) = Len(U(i - 1)) + count
    <3> HIDE DEF U
    <3> QED BY <1>4, <1>5, <2>2, SeqConcat
  <2>4. Len(Declared(desc)) <= HID_MAX_FIELDS /\ HID_MAX_FIELDS \in Nat
    BY ParserAssumption DEF Fits
  <2>5. Len(Declared(desc)) \in Nat
    BY <1>1, DeclaredGrows DEF Declared
  <2>6. Room(s) = count
    <3>1. Len(s.fields) = Len(U(i - 1))
      OBVIOUS
    <3> HIDE DEF U, s, count
    <3> QED BY <1>5, <1>7, <2>3, <2>4, <2>5, <3>1 DEF Room
  <2>7. NewFields(s, item.tag) = Declares(desc, i)
    BY <1>9, <2>6, FieldsAgree
  <2>8. t.fields = U(i)
    <3>1. s.fields = U(i - 1)
      OBVIOUS
    <3> HIDE DEF U, s, t
    <3> QED BY <1>4, <2>1, <2>7, <3>1
  <2>9. SlotAt(desc, i) = Slot(s, item.tag)
    BY <1>7 DEF SlotAt, Slot
  <2>10. s.offsets = [x \in Slots |-> s.offsets[x]]
    BY <1>3 DEF IsState
  <2>11. ASSUME NEW slot \in Slots PROVE t.offsets[slot] = Taken(desc, slot)[i]
    <3>1. s.offsets[slot] = Taken(desc, slot)[i - 1]
      OBVIOUS
    <3>2. s.offsets[slot] \in Nat
      BY <1>8
    <3> DEFINE mine == Slot(s, item.tag)
    <3>3. Taken(desc, slot)[i] = Taken(desc, slot)[i - 1] + IF mine = slot THEN count * size ELSE 0
      BY <1>6, <2>9
    <3> HIDE DEF s, t, mine, count, size
    <3>4. t.offsets[slot] = IF mine = slot THEN s.offsets[slot] + count * size ELSE s.offsets[slot]
      BY <2>1, <2>6, <2>10, <1>7 DEF mine
    <3> QED BY <3>1, <3>2, <3>3, <3>4
  <2> QED BY <2>8, <2>11
<1>10. CASE item.tag \notin Types
  <2>1. t.offsets = s.offsets /\ t.fields = s.fields
    <3>1. item.tag \in Globals \cup {"usage", "collection", "end"}
      BY <1>3, <1>10 DEF IsItem
    <3> HIDE DEF s, t, item
    <3>2. CASE item.tag \in Globals
      BY <3>2, <1>2, <1>3, ItemGlobal
    <3>3. CASE item.tag \in {"usage", "collection", "end"}
      BY <3>3, <1>2, <1>3, ItemUsage, ItemCollection, ItemEnd
    <3> QED BY <3>1, <3>2, <3>3
  <2>2. Declares(desc, i) = <<>>
    BY <1>10, DeclaresSeq
  <2>3. U(i) = U(i - 1)
    <3> HIDE DEF U
    <3>1. /\ IsSeq(U(i - 1) \o <<>>) /\ Len(U(i - 1) \o <<>>) = Len(U(i - 1)) + Len(<<>>)
          /\ \A k \in 1..Len(U(i - 1)) : (U(i - 1) \o <<>>)[k] = U(i - 1)[k]
      BY <1>5, SeqEmpty, SeqConcat
    <3>2. Len(U(i - 1) \o <<>>) = Len(U(i - 1))
      BY <3>1, <1>5, SeqEmpty
    <3>3. U(i - 1) \o <<>> = U(i - 1)
      BY <3>1, <3>2, <1>5, SeqSame
    <3> QED BY <1>4, <2>2, <3>3
  <2>4. ASSUME NEW slot \in Slots PROVE t.offsets[slot] = Taken(desc, slot)[i]
    <3>1. SlotAt(desc, i) # slot
      BY <1>10 DEF SlotAt, Slots
    <3>2. s.offsets[slot] = Taken(desc, slot)[i - 1] /\ s.offsets[slot] \in Nat
      BY <1>8
    <3>3. Taken(desc, slot)[i] = Taken(desc, slot)[i - 1] + 0
      BY <1>6, <3>1
    <3> HIDE DEF s, t
    <3> QED BY <2>1, <3>2, <3>3
  <2> QED BY <2>1, <2>3, <2>4
<1> QED
  BY <1>9, <1>10

\* The parser computes, for every descriptor that fits its limits, the table the
\* HID specification declares.
LEMMA ParsedIsDeclared ==
  ASSUME NEW desc, IsDesc(desc), Fits(desc)
  PROVE  Parse(desc) = Declared(desc)
<1> DEFINE N == Len(desc)
           S == {n \in 0..N : /\ After(desc)[n].fields = DeclaredUpTo(desc)[n]
                              /\ \A slot \in Slots : After(desc)[n].offsets[slot] = Taken(desc, slot)[n]}
<1>1. N \in Nat
  BY DEF IsDesc
<1>2. 0 \in S
  <2>1. After(desc)[0].fields = DeclaredUpTo(desc)[0]
    BY <1>1, AfterUnfold, DeclaredUnfold DEF Start
  <2>2. \A slot \in Slots : After(desc)[0].offsets[slot] = Taken(desc, slot)[0]
    <3>1. \A slot : Taken(desc, slot)[0] = 0
      BY <1>1, TakenUnfold
    <3>2. After(desc)[0].offsets = [slot \in Slots |-> 0]
      BY <1>1, AfterUnfold DEF Start
    <3> QED BY <3>1, <3>2
  <2> QED BY <1>1, <2>1, <2>2
<1>3. ASSUME NEW n \in 0..(N - 1), n \in S PROVE n + 1 \in S
  <2>1. n + 1 \in 1..N /\ n + 1 - 1 = n /\ n + 1 \in 0..N
    BY <1>1
  <2>2. /\ After(desc)[n + 1 - 1].fields = DeclaredUpTo(desc)[n + 1 - 1]
        /\ \A slot \in Slots : After(desc)[n + 1 - 1].offsets[slot] = Taken(desc, slot)[n + 1 - 1]
    BY <1>3, <2>1
  <2>3. /\ After(desc)[n + 1].fields = DeclaredUpTo(desc)[n + 1]
        /\ \A slot \in Slots : After(desc)[n + 1].offsets[slot] = Taken(desc, slot)[n + 1]
    BY <2>1, <2>2, TableStep
  <2> QED BY <2>1, <2>3
<1>4. 0..N \subseteq S
  <2> HIDE DEF S, N
  <2> QED BY <1>1, <1>2, <1>3, UptoInduction
<1>5. N \in S
  BY <1>1, <1>4
<1> QED
  BY <1>5 DEF Parse, Declared

\* For every descriptor that fits the tables of the parser, the fields are those
\* the HID specification finds in it (hid_parser.h:8-11).
THEOREM ParsedRight == Spec => []ParsedAsDescribed
<1>1. DeviceInv => ParsedAsDescribed
  <2> SUFFICES ASSUME DeviceInv, answer.call = "open", Fits(device.desc)
               PROVE  fields = Declared(device.desc)
    BY DEF ParsedAsDescribed
  <2>1. Opened /\ fields = Parse(device.desc)
    BY DEF DeviceInv, Known
  <2>2. IsDesc(device.desc)
    BY <2>1, KnownTable, DeviceDescs DEF DeviceInv
  <2> QED BY <2>1, <2>2, ParsedIsDeclared
<1> QED
  BY <1>1, AlwaysDeviceInv, PTL
==============================================================================
