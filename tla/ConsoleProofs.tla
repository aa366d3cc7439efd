----------------------------- MODULE ConsoleProofs -----------------------------
(***************************************************************************)
(* The serial line carries the translation of what was printed, and every  *)
(* number reads back, for all texts, all numbers of a width and every      *)
(* pace of the UART.                                                       *)
(*                                                                         *)
(* The loops are recursive functions.  For each it is shown that there is  *)
(* such a function, by induction, and what its last step does.             *)
(***************************************************************************)
EXTENDS Console, SequenceTheorems, WellFoundedInduction, TLAPS

\* Induction up to n, with the set of the numbers that have the property.
LEMMA Induction ==
  ASSUME NEW n \in Nat, NEW G, \A k \in 0 .. n : (\A j \in 0 .. k - 1 : j \in G) => k \in G
  PROVE  0 .. n \subseteq G
<1> SUFFICES ASSUME ~(0 .. n \subseteq G) PROVE FALSE
  OBVIOUS
<1> DEFINE R == {ss \in Nat \X Nat : ss[1] < ss[2]}
<1> DEFINE T == {k \in 0 .. n : k \notin G}
<1>1. IsWellFoundedOn(R, Nat)
  BY NatLessThanWellFounded DEF OpToRel
<1>2. T \subseteq Nat /\ T # {}
  OBVIOUS
<1> HIDE DEF R, T
<1>3. PICK k \in T : \A j \in T : ~(<<j, k>> \in R)
  BY <1>1, <1>2, WFMin
<1>4. k \in 0 .. n /\ k \notin G
  BY <1>3 DEF T
<1>5. \A j \in 0 .. k - 1 : j \in G
  <2> TAKE j \in 0 .. k - 1
  <2>1. j \in 0 .. n /\ j < k /\ j \in Nat /\ k \in Nat
    BY <1>4
  <2>2. j \notin T
    BY <1>3, <2>1 DEF R
  <2>3. QED BY <2>1, <2>2 DEF T
<1>6. QED BY <1>4, <1>5

-----------------------------------------------------------------------------
\* Division, n times.

Quotients(value, base, f, n) ==
  f = [k \in 0 .. n |-> IF k = 0 THEN value ELSE f[k - 1] \div base]

\* There is such a function.
LEMMA QuotientsExist ==
  ASSUME NEW value, NEW base, NEW n \in Nat
  PROVE  \E f : Quotients(value, base, f, n)
<1> DEFINE G == {k \in 0 .. n : \E f : Quotients(value, base, f, k)}
<1>1. ASSUME NEW k \in 0 .. n, \A j \in 0 .. k - 1 : j \in G PROVE k \in G
  <2>1. CASE k = 0
    <3>1. Quotients(value, base, [i \in 0 .. 0 |-> value], 0)
      BY DEF Quotients
    <3>2. QED BY <2>1, <3>1
  <2>2. CASE k # 0
    <3>1. k - 1 \in 0 .. k - 1
      BY <2>2
    <3>2. PICK f : Quotients(value, base, f, k - 1)
      BY <1>1, <3>1
    <3> DEFINE g == [i \in 0 .. k |-> IF i = k THEN f[k - 1] \div base ELSE f[i]]
    <3>3. \A i \in 0 .. k - 1 : f[i] = IF i = 0 THEN value ELSE f[i - 1] \div base
      BY <3>2 DEF Quotients
    <3>4. ASSUME NEW i \in 0 .. k
          PROVE  g[i] = IF i = 0 THEN value ELSE g[i - 1] \div base
      BY <2>2, <3>3
    <3>5. g = [i \in 0 .. k |-> g[i]]
      OBVIOUS
    <3> HIDE DEF g
    <3>6. Quotients(value, base, g, k)
      BY <3>4, <3>5 DEF Quotients
    <3>7. QED BY <3>6
  <2>3. QED BY <2>1, <2>2
<1> HIDE DEF G
<1>2. 0 .. n \subseteq G
  BY <1>1, Induction
<1>3. QED BY <1>2 DEF G

\* Shifted is its last value.
LEMMA ShiftedIs ==
  ASSUME NEW value, NEW base, NEW n \in Nat
  PROVE  \E f : Quotients(value, base, f, n) /\ Shifted(value, base, n) = f[n]
<1> DEFINE f == CHOOSE f : Quotients(value, base, f, n)
<1>1. Quotients(value, base, f, n)
  BY QuotientsExist, Zenon
<1>2. Shifted(value, base, n) = f[n]
  BY Zenon DEF Shifted, Quotients
<1>3. QED BY <1>1, <1>2

\* One more division.
LEMMA ShiftedStep ==
  ASSUME NEW value, NEW base, NEW n \in Nat
  PROVE  /\ Shifted(value, base, 0) = value
         /\ Shifted(value, base, n + 1) = Shifted(value, base, n) \div base
<1>1. PICK f : Quotients(value, base, f, n) /\ Shifted(value, base, n) = f[n]
  BY ShiftedIs
<1>2. PICK g : Quotients(value, base, g, n + 1) /\ Shifted(value, base, n + 1) = g[n + 1]
  BY ShiftedIs
<1>3. PICK h : Quotients(value, base, h, 0) /\ Shifted(value, base, 0) = h[0]
  BY ShiftedIs
<1>4. \A k \in 0 .. n : f[k] = IF k = 0 THEN value ELSE f[k - 1] \div base
  BY <1>1 DEF Quotients
<1>5. \A k \in 0 .. n + 1 : g[k] = IF k = 0 THEN value ELSE g[k - 1] \div base
  BY <1>2 DEF Quotients
<1> DEFINE G == {k \in 0 .. n : f[k] = g[k]}
<1>6. ASSUME NEW k \in 0 .. n, \A j \in 0 .. k - 1 : j \in G PROVE k \in G
  <2>1. k \in 0 .. n + 1
    OBVIOUS
  <2>2. CASE k = 0
    BY <1>4, <1>5, <2>1, <2>2
  <2>3. CASE k # 0
    <3>1. k - 1 \in 0 .. k - 1
      BY <2>3
    <3>2. f[k - 1] = g[k - 1]
      BY <1>6, <3>1
    <3>3. QED BY <1>4, <1>5, <2>1, <2>3, <3>2
  <2>4. QED BY <2>2, <2>3
<1> HIDE DEF G
<1>7. 0 .. n \subseteq G
  BY <1>6, Induction
<1>8. f[n] = g[n]
  BY <1>7 DEF G
<1>9. g[n + 1] = g[n] \div base
  <2>1. n + 1 \in 0 .. n + 1 /\ n + 1 # 0 /\ (n + 1) - 1 = n
    OBVIOUS
  <2>2. QED BY <1>5, <2>1
<1>10. h[0] = value
  BY <1>3 DEF Quotients
<1>11. QED BY <1>1, <1>2, <1>3, <1>8, <1>9, <1>10

\* A quotient and a remainder.
LEMMA Division ==
  ASSUME NEW v \in Nat, NEW b \in Nat, b > 1, NEW q, q = v \div b, NEW m, m = v % b
  PROVE  q \in Nat /\ m \in 0 .. b - 1 /\ q * b + m = v
OBVIOUS

\* A quotient is smaller.
LEMMA SmallerQuotient ==
  ASSUME NEW v \in Nat, v > 0
  PROVE  v \div 10 \in 0 .. v - 1
OBVIOUS

\* The first division may be done first.
LEMMA ShiftedFront ==
  ASSUME NEW value, NEW base, NEW n \in Nat
  PROVE  Shifted(value, base, n + 1) = Shifted(value \div base, base, n)
<1> DEFINE w == value \div base
<1> DEFINE G == {k \in 0 .. n : Shifted(value, base, k + 1) = Shifted(w, base, k)}
<1>1. Shifted(value, base, 0 + 1) = w
  BY ShiftedStep
<1> HIDE DEF w
<1>2. ASSUME NEW k \in 0 .. n, \A j \in 0 .. k - 1 : j \in G PROVE k \in G
  <2>1. CASE k = 0
    BY <1>1, <2>1, ShiftedStep
  <2>2. CASE k # 0
    <3> DEFINE j == k - 1
    <3>1. j \in 0 .. k - 1 /\ j \in Nat /\ j + 1 = k /\ k \in Nat
      BY <2>2
    <3>2. j \in G
      BY <1>2, <3>1
    <3> HIDE DEF j
    <3>3. Shifted(value, base, j + 1) = Shifted(w, base, j)
      BY <3>2
    <3>4. Shifted(value, base, k + 1) = Shifted(value, base, k) \div base
      BY <3>1, ShiftedStep
    <3>5. Shifted(w, base, j + 1) = Shifted(w, base, j) \div base
      BY <3>1, ShiftedStep
    <3>6. QED BY <3>1, <3>3, <3>4, <3>5
  <2>3. QED BY <2>1, <2>2
<1> HIDE DEF G
<1>3. 0 .. n \subseteq G
  BY <1>2, Induction
<1>4. Shifted(value, base, n + 1) = Shifted(w, base, n)
  BY <1>3 DEF G
<1>5. QED BY <1>4 DEF w

\* A quotient is a number.
LEMMA ShiftedNat ==
  ASSUME NEW value \in Nat, NEW base \in Nat, base > 1, NEW n \in Nat
  PROVE  Shifted(value, base, n) \in Nat
<1> DEFINE G == {k \in 0 .. n : Shifted(value, base, k) \in Nat}
<1>1. ASSUME NEW k \in 0 .. n, \A j \in 0 .. k - 1 : j \in G PROVE k \in G
  <2>1. CASE k = 0
    BY <2>1, ShiftedStep
  <2>2. CASE k # 0
    <3> DEFINE j == k - 1
    <3>1. j \in 0 .. k - 1 /\ j \in Nat /\ j + 1 = k
      BY <2>2
    <3>2. j \in G
      BY <1>1, <3>1
    <3> HIDE DEF j
    <3>3. Shifted(value, base, j) \in Nat
      BY <3>2
    <3>4. Shifted(value, base, j + 1) = Shifted(value, base, j) \div base
      BY <3>1, ShiftedStep
    <3>5. Shifted(value, base, j + 1) \in Nat
      <4> DEFINE v == Shifted(value, base, j)
      <4>1. v \in Nat
        BY <3>3
      <4> HIDE DEF v
      <4>2. v \div base \in Nat
        BY <4>1, Division
      <4>3. QED BY <3>4, <4>2 DEF v
    <3>6. QED BY <3>1, <3>5
  <2>3. QED BY <2>1, <2>2
<1> HIDE DEF G
<1>2. 0 .. n \subseteq G
  BY <1>1, Induction
<1>3. QED BY <1>2 DEF G

-----------------------------------------------------------------------------
\* What a text becomes on the line.

\* The characters that go over the line for one.
Piece(c) == IF c = LineFeed THEN <<CarriageReturn, LineFeed>> ELSE <<c>>

Sent(text, f, n) == f = [i \in 0 .. n |-> IF i = 0 THEN << >> ELSE f[i - 1] \o Piece(text[i])]

\* There is such a function.
LEMMA SentExists ==
  ASSUME NEW text, NEW n \in Nat
  PROVE  \E f : Sent(text, f, n)
<1> DEFINE G == {k \in 0 .. n : \E f : Sent(text, f, k)}
<1>1. ASSUME NEW k \in 0 .. n, \A j \in 0 .. k - 1 : j \in G PROVE k \in G
  <2>1. CASE k = 0
    <3>1. Sent(text, [i \in 0 .. 0 |-> << >>], 0)
      BY DEF Sent
    <3>2. QED BY <2>1, <3>1
  <2>2. CASE k # 0
    <3>1. k - 1 \in 0 .. k - 1
      BY <2>2
    <3>2. PICK f : Sent(text, f, k - 1)
      BY <1>1, <3>1
    <3> DEFINE g == [i \in 0 .. k |-> IF i = k THEN f[k - 1] \o Piece(text[k]) ELSE f[i]]
    <3>3. \A i \in 0 .. k - 1 : f[i] = IF i = 0 THEN << >> ELSE f[i - 1] \o Piece(text[i])
      BY <3>2 DEF Sent
    <3>4. ASSUME NEW i \in 0 .. k
          PROVE  g[i] = IF i = 0 THEN << >> ELSE g[i - 1] \o Piece(text[i])
      BY <2>2, <3>3
    <3>5. g = [i \in 0 .. k |-> g[i]]
      OBVIOUS
    <3> HIDE DEF g
    <3>6. Sent(text, g, k)
      BY <3>4, <3>5 DEF Sent
    <3>7. QED BY <3>6
  <2>3. QED BY <2>1, <2>2
<1> HIDE DEF G
<1>2. 0 .. n \subseteq G
  BY <1>1, Induction
<1>3. QED BY <1>2 DEF G

\* Translated is its last value.
LEMMA TranslatedIs ==
  ASSUME NEW text, Len(text) \in Nat
  PROVE  \E f : Sent(text, f, Len(text)) /\ Translated(text) = f[Len(text)]
<1> DEFINE f == CHOOSE f : Sent(text, f, Len(text))
<1>1. Sent(text, f, Len(text))
  BY SentExists, Zenon
<1>2. Translated(text) = f[Len(text)]
  BY Zenon DEF Translated, Sent, Piece
<1>3. QED BY <1>1, <1>2

\* One character more.
LEMMA TranslatedStep ==
  ASSUME NEW S, NEW t \in Seq(S), NEW c \in S
  PROVE  /\ Translated(<< >>) = << >>
         /\ Translated(Append(t, c)) = Translated(t) \o Piece(c)
<1> DEFINE u == Append(t, c)
<1> DEFINE n == Len(t)
<1>0. /\ n \in Nat /\ Len(u) = n + 1 /\ Len(u) \in Nat /\ Len(<< >>) = 0
      /\ \A i \in 1 .. n : u[i] = t[i]
      /\ u[n + 1] = c
  OBVIOUS
<1> HIDE DEF u, n
<1>1. PICK f : Sent(t, f, n) /\ Translated(t) = f[n]
  BY <1>0, TranslatedIs DEF n
<1>2. PICK g : Sent(u, g, n + 1) /\ Translated(u) = g[n + 1]
  BY <1>0, TranslatedIs
<1>3. PICK h : Sent(<< >>, h, 0) /\ Translated(<< >>) = h[0]
  BY <1>0, TranslatedIs
<1>4. \A k \in 0 .. n : f[k] = IF k = 0 THEN << >> ELSE f[k - 1] \o Piece(t[k])
  BY <1>1 DEF Sent
<1>5. \A k \in 0 .. n + 1 : g[k] = IF k = 0 THEN << >> ELSE g[k - 1] \o Piece(u[k])
  BY <1>2 DEF Sent
<1> DEFINE G == {k \in 0 .. n : f[k] = g[k]}
<1>6. ASSUME NEW k \in 0 .. n, \A j \in 0 .. k - 1 : j \in G PROVE k \in G
  <2>1. k \in 0 .. n + 1
    BY <1>0
  <2>2. CASE k = 0
    BY <1>4, <1>5, <2>1, <2>2
  <2>3. CASE k # 0
    <3>1. k - 1 \in 0 .. k - 1 /\ k \in 1 .. n
      BY <1>0, <2>3
    <3>2. f[k - 1] = g[k - 1]
      BY <1>6, <3>1
    <3>3. u[k] = t[k]
      BY <1>0, <3>1
    <3>4. QED BY <1>4, <1>5, <2>1, <2>3, <3>2, <3>3
  <2>4. QED BY <2>2, <2>3
<1> HIDE DEF G
<1>7. 0 .. n \subseteq G
  BY <1>0, <1>6, Induction
<1>8. f[n] = g[n]
  <2>1. n \in 0 .. n
    BY <1>0
  <2>2. QED BY <1>7, <2>1 DEF G
<1>9. g[n + 1] = g[n] \o Piece(c)
  <2>1. n + 1 \in 0 .. n + 1 /\ n + 1 # 0 /\ (n + 1) - 1 = n
    BY <1>0
  <2>2. QED BY <1>0, <1>5, <2>1
<1>10. h[0] = << >>
  BY <1>3 DEF Sent
<1>11. QED BY <1>1, <1>2, <1>3, <1>8, <1>9, <1>10 DEF u

-----------------------------------------------------------------------------
\* What a sequence of digits is worth.

Sums(digits, base, f, n) ==
  f = [i \in 0 .. n |-> IF i = 0 THEN 0 ELSE f[i - 1] * base + DigitValue(digits[i])]

\* There is such a function.
LEMMA SumsExist ==
  ASSUME NEW digits, NEW base, NEW n \in Nat
  PROVE  \E f : Sums(digits, base, f, n)
<1> DEFINE G == {k \in 0 .. n : \E f : Sums(digits, base, f, k)}
<1>1. ASSUME NEW k \in 0 .. n, \A j \in 0 .. k - 1 : j \in G PROVE k \in G
  <2>1. CASE k = 0
    <3>1. Sums(digits, base, [i \in 0 .. 0 |-> 0], 0)
      BY DEF Sums
    <3>2. QED BY <2>1, <3>1
  <2>2. CASE k # 0
    <3>1. k - 1 \in 0 .. k - 1
      BY <2>2
    <3>2. PICK f : Sums(digits, base, f, k - 1)
      BY <1>1, <3>1
    <3> DEFINE g == [i \in 0 .. k |-> IF i = k THEN f[k - 1] * base + DigitValue(digits[k]) ELSE f[i]]
    <3>3. \A i \in 0 .. k - 1 : f[i] = IF i = 0 THEN 0 ELSE f[i - 1] * base + DigitValue(digits[i])
      BY <3>2 DEF Sums
    <3>4. ASSUME NEW i \in 0 .. k
          PROVE  g[i] = IF i = 0 THEN 0 ELSE g[i - 1] * base + DigitValue(digits[i])
      BY <2>2, <3>3
    <3>5. g = [i \in 0 .. k |-> g[i]]
      OBVIOUS
    <3> HIDE DEF g
    <3>6. Sums(digits, base, g, k)
      BY <3>4, <3>5 DEF Sums
    <3>7. QED BY <3>6
  <2>3. QED BY <2>1, <2>2
<1> HIDE DEF G
<1>2. 0 .. n \subseteq G
  BY <1>1, Induction
<1>3. QED BY <1>2 DEF G

\* Value is its last value.
LEMMA ValueIs ==
  ASSUME NEW digits, NEW base, Len(digits) \in Nat
  PROVE  \E f : Sums(digits, base, f, Len(digits)) /\ Value(digits, base) = f[Len(digits)]
<1> DEFINE f == CHOOSE f : Sums(digits, base, f, Len(digits))
<1>1. Sums(digits, base, f, Len(digits))
  BY SumsExist, Zenon
<1>2. Value(digits, base) = f[Len(digits)]
  BY Zenon DEF Value, Sums
<1>3. QED BY <1>1, <1>2

\* One digit more.
LEMMA ValueStep ==
  ASSUME NEW base, NEW S, NEW t \in Seq(S), NEW c \in S
  PROVE  /\ Value(<< >>, base) = 0
         /\ Value(Append(t, c), base) = Value(t, base) * base + DigitValue(c)
<1> DEFINE u == Append(t, c)
<1> DEFINE n == Len(t)
<1>0. /\ n \in Nat /\ Len(u) = n + 1 /\ Len(u) \in Nat /\ Len(<< >>) = 0
      /\ \A i \in 1 .. n : u[i] = t[i]
      /\ u[n + 1] = c
  OBVIOUS
<1> HIDE DEF u, n
<1>1. PICK f : Sums(t, base, f, n) /\ Value(t, base) = f[n]
  BY <1>0, ValueIs DEF n
<1>2. PICK g : Sums(u, base, g, n + 1) /\ Value(u, base) = g[n + 1]
  BY <1>0, ValueIs
<1>3. PICK h : Sums(<< >>, base, h, 0) /\ Value(<< >>, base) = h[0]
  BY <1>0, ValueIs
<1>4. \A k \in 0 .. n : f[k] = IF k = 0 THEN 0 ELSE f[k - 1] * base + DigitValue(t[k])
  BY <1>1 DEF Sums
<1>5. \A k \in 0 .. n + 1 : g[k] = IF k = 0 THEN 0 ELSE g[k - 1] * base + DigitValue(u[k])
  BY <1>2 DEF Sums
<1> DEFINE G == {k \in 0 .. n : f[k] = g[k]}
<1>6. ASSUME NEW k \in 0 .. n, \A j \in 0 .. k - 1 : j \in G PROVE k \in G
  <2>1. k \in 0 .. n + 1
    BY <1>0
  <2>2. CASE k = 0
    BY <1>4, <1>5, <2>1, <2>2
  <2>3. CASE k # 0
    <3>1. k - 1 \in 0 .. k - 1 /\ k \in 1 .. n
      BY <1>0, <2>3
    <3>2. f[k - 1] = g[k - 1]
      BY <1>6, <3>1
    <3>3. u[k] = t[k]
      BY <1>0, <3>1
    <3>4. QED BY <1>4, <1>5, <2>1, <2>3, <3>2, <3>3
  <2>4. QED BY <2>2, <2>3
<1> HIDE DEF G
<1>7. 0 .. n \subseteq G
  BY <1>0, <1>6, Induction
<1>8. f[n] = g[n]
  <2>1. n \in 0 .. n
    BY <1>0
  <2>2. QED BY <1>7, <2>1 DEF G
<1>9. g[n + 1] = g[n] * base + DigitValue(c)
  <2>1. n + 1 \in 0 .. n + 1 /\ n + 1 # 0 /\ (n + 1) - 1 = n
    BY <1>0
  <2>2. QED BY <1>0, <1>5, <2>1
<1>10. h[0] = 0
  BY <1>3 DEF Sums
<1>11. QED BY <1>1, <1>2, <1>3, <1>8, <1>9, <1>10 DEF u

\* It is made of the text's characters and the two of a new line.
LEMMA TranslatedType ==
  ASSUME NEW S, CarriageReturn \in S, LineFeed \in S, NEW t \in Seq(S)
  PROVE  Translated(t) \in Seq(S)
<1> DEFINE n == Len(t)
<1>0. n \in Nat /\ \A i \in 1 .. n : t[i] \in S
  OBVIOUS
<1> HIDE DEF n
<1>1. PICK f : Sent(t, f, n) /\ Translated(t) = f[n]
  BY <1>0, TranslatedIs DEF n
<1>2. \A k \in 0 .. n : f[k] = IF k = 0 THEN << >> ELSE f[k - 1] \o Piece(t[k])
  BY <1>1 DEF Sent
<1>3. \A k \in 1 .. n : Piece(t[k]) \in Seq(S)
  BY <1>0 DEF Piece
<1> DEFINE G == {k \in 0 .. n : f[k] \in Seq(S)}
<1>4. ASSUME NEW k \in 0 .. n, \A j \in 0 .. k - 1 : j \in G PROVE k \in G
  <2>1. CASE k = 0
    <3>1. f[k] = << >> /\ << >> \in Seq(S)
      BY <1>2, <2>1
    <3>2. QED BY <3>1
  <2>2. CASE k # 0
    <3>1. k - 1 \in 0 .. k - 1 /\ k \in 1 .. n
      BY <1>0, <2>2
    <3>2. f[k - 1] \in Seq(S)
      BY <1>4, <3>1
    <3>3. f[k] = f[k - 1] \o Piece(t[k])
      BY <1>2, <2>2
    <3>4. f[k] \in Seq(S)
      BY <1>3, <3>1, <3>2, <3>3, ConcatProperties
    <3>5. QED BY <3>4
  <2>3. QED BY <2>1, <2>2
<1> HIDE DEF G
<1>5. 0 .. n \subseteq G
  BY <1>0, <1>4, Induction
<1>6. n \in 0 .. n
  BY <1>0
<1>7. QED BY <1>1, <1>5, <1>6 DEF G

-----------------------------------------------------------------------------
\* The loops that make digits.

Digits == {Digit[i] : i \in 1 .. 16}

\* No digit stands for two values.
LEMMA DigitWorth ==
  ASSUME NEW j \in 0 .. 15
  PROVE  /\ Digit[j + 1] \in Digits
         /\ DigitValue(Digit[j + 1]) = j
         /\ Digit[j + 1] = "0" => j = 0
<1>1. \A i, k \in 1 .. 16 : Digit[i] = Digit[k] => i = k
  BY DEF Digit
<1>2. DOMAIN Digit = 1 .. 16 /\ Digit[1] = "0"
  BY DEF Digit
<1> DEFINE k == j + 1
<1>3. k \in 1 .. 16 /\ k - 1 = j
  OBVIOUS
<1> HIDE DEF k
<1>4. (CHOOSE i \in 1 .. 16 : Digit[i] = Digit[k]) = k
  BY <1>1, <1>3
<1>5. DigitValue(Digit[k]) = j
  BY <1>2, <1>3, <1>4 DEF DigitValue
<1>6. Digit[k] \in Digits
  BY <1>3 DEF Digits
<1>7. Digit[k] = "0" => k = 1
  BY <1>1, <1>2, <1>3
<1>8. QED BY <1>3, <1>5, <1>6, <1>7 DEF k

\* The value of digits is a number.
LEMMA ValueNat ==
  ASSUME NEW t \in Seq(Digits), NEW base \in Nat
  PROVE  Value(t, base) \in Nat
<1> DEFINE n == Len(t)
<1>0. n \in Nat /\ \A i \in 1 .. n : t[i] \in Digits
  OBVIOUS
<1> HIDE DEF n
<1>1. PICK f : Sums(t, base, f, n) /\ Value(t, base) = f[n]
  BY <1>0, ValueIs DEF n
<1>2. \A k \in 0 .. n : f[k] = IF k = 0 THEN 0 ELSE f[k - 1] * base + DigitValue(t[k])
  BY <1>1 DEF Sums
<1>3. ASSUME NEW k \in 1 .. n PROVE DigitValue(t[k]) \in Nat
  <2>1. PICK i \in 1 .. 16 : t[k] = Digit[i]
    BY <1>0, <1>3 DEF Digits
  <2>2. i - 1 \in 0 .. 15 /\ (i - 1) + 1 = i
    OBVIOUS
  <2>3. DigitValue(Digit[i]) = i - 1
    BY <2>2, DigitWorth
  <2>4. QED BY <2>1, <2>3
<1> DEFINE G == {k \in 0 .. n : f[k] \in Nat}
<1>4. ASSUME NEW k \in 0 .. n, \A j \in 0 .. k - 1 : j \in G PROVE k \in G
  <2>1. CASE k = 0
    BY <1>2, <2>1
  <2>2. CASE k # 0
    <3>1. k - 1 \in 0 .. k - 1 /\ k \in 1 .. n
      BY <1>0, <2>2
    <3>2. f[k - 1] \in Nat
      BY <1>4, <3>1
    <3>3. f[k] = f[k - 1] * base + DigitValue(t[k])
      BY <1>2, <2>2
    <3>4. f[k] \in Nat
      BY <1>3, <3>1, <3>2, <3>3
    <3>5. QED BY <3>4
  <2>3. QED BY <2>1, <2>2
<1> HIDE DEF G
<1>5. 0 .. n \subseteq G
  BY <1>0, <1>4, Induction
<1>6. n \in 0 .. n
  BY <1>0
<1>7. QED BY <1>1, <1>5, <1>6 DEF G

\* The decimal loop, as a function of what is left.
Loop(f, n) == f = [v \in 0 .. n |-> IF v = 0 THEN << >>
                                    ELSE <<Digit[(v % 10) + 1]>> \o f[v \div 10]]

\* There is such a function: a tenth is smaller.
LEMMA LoopExists ==
  ASSUME NEW n \in Nat
  PROVE  \E f : Loop(f, n)
<1> DEFINE G == {k \in 0 .. n : \E f : Loop(f, k)}
<1>1. ASSUME NEW k \in 0 .. n, \A j \in 0 .. k - 1 : j \in G PROVE k \in G
  <2>1. CASE k = 0
    <3>1. Loop([i \in 0 .. 0 |-> << >>], 0)
      BY DEF Loop
    <3>2. QED BY <2>1, <3>1
  <2>2. CASE k # 0
    <3>1. k - 1 \in 0 .. k - 1 /\ k \in Nat
      BY <2>2
    <3>2. PICK f : Loop(f, k - 1)
      BY <1>1, <3>1
    <3> DEFINE g == [i \in 0 .. k |-> IF i = k THEN <<Digit[(k % 10) + 1]>> \o f[k \div 10] ELSE f[i]]
    <3>3. \A i \in 0 .. k - 1 : f[i] = IF i = 0 THEN << >>
                                       ELSE <<Digit[(i % 10) + 1]>> \o f[i \div 10]
      BY <3>2 DEF Loop
    <3>4. ASSUME NEW i \in 0 .. k
          PROVE  g[i] = IF i = 0 THEN << >> ELSE <<Digit[(i % 10) + 1]>> \o g[i \div 10]
      <4>1. CASE i = 0
        <5>1. 0 \in 0 .. k - 1 /\ 0 \in 0 .. k /\ 0 # k
          BY <2>2, <3>1
        <5>2. f[0] = << >>
          BY <3>3, <5>1
        <5>3. g[0] = f[0]
          BY <5>1
        <5>4. QED BY <4>1, <5>2, <5>3
      <4>2. CASE i # 0
        <5> DEFINE d == <<Digit[(i % 10) + 1]>>
        <5> DEFINE q == i \div 10
        <5>1. q \in 0 .. i - 1
          BY <4>2, SmallerQuotient
        <5>2. i \in 0 .. k /\ i = k => d = <<Digit[(k % 10) + 1]>> /\ q = k \div 10
          OBVIOUS
        <5>3. ASSUME i # k PROVE f[i] = d \o f[q]
          <6>1. i \in 0 .. k - 1
            BY <3>1, <5>3
          <6>2. QED BY <3>3, <4>2, <6>1, Zenon
        <5> HIDE DEF d, q
        <5>4. q \in 0 .. k /\ q # k
          BY <5>1
        <5> HIDE DEF g
        <5>5. g[q] = f[q] /\ g[i] = IF i = k THEN <<Digit[(k % 10) + 1]>> \o f[k \div 10] ELSE f[i]
          BY <5>4 DEF g
        <5>6. g[i] = d \o g[q]
          BY <5>2, <5>3, <5>5, Zenon
        <5>7. QED BY <4>2, <5>6 DEF d, q
      <4>3. QED BY <4>1, <4>2
    <3>5. g = [i \in 0 .. k |-> g[i]]
      OBVIOUS
    <3> HIDE DEF g
    <3>6. Loop(g, k)
      BY <3>4, <3>5 DEF Loop
    <3>7. QED BY <3>6
  <2>3. QED BY <2>1, <2>2
<1> HIDE DEF G
<1>2. 0 .. n \subseteq G
  BY <1>1, Induction
<1>3. QED BY <1>2 DEF G

\* LowDigits is its value.
LEMMA LowDigitsIs ==
  ASSUME NEW value \in Nat
  PROVE  \E f : Loop(f, value) /\ LowDigits(value) = f[value]
<1> DEFINE f == CHOOSE f : Loop(f, value)
<1>1. Loop(f, value)
  BY LoopExists, Zenon
<1>2. LowDigits(value) = f[value]
  BY Zenon DEF LowDigits, Loop
<1>3. QED BY <1>1, <1>2

\* Reversed, element by element.
LEMMA Reversed ==
  ASSUME NEW S, NEW s \in Seq(S)
  PROVE  /\ Reverse(s) \in Seq(S)
         /\ Len(Reverse(s)) = Len(s)
         /\ \A i \in 1 .. Len(s) : Reverse(s)[i] = s[(Len(s) - i) + 1]
BY DEF Reverse

\* What is put in front comes out last.
LEMMA ReverseFront ==
  ASSUME NEW S, NEW s \in Seq(S), NEW d \in S
  PROVE  Reverse(<<d>> \o s) = Append(Reverse(s), d)
<1> DEFINE n == Len(s)
<1> DEFINE u == <<d>> \o s
<1> DEFINE r == Reverse(s)
<1> DEFINE a == Append(r, d)
<1> DEFINE b == Reverse(u)
<1>1. /\ n \in Nat /\ u \in Seq(S) /\ Len(u) = n + 1
      /\ u[1] = d /\ \A i \in 2 .. n + 1 : u[i] = s[i - 1]
  OBVIOUS
<1>2. r \in Seq(S) /\ Len(r) = n /\ \A i \in 1 .. n : r[i] = s[(n - i) + 1]
  BY Reversed
<1> HIDE DEF n, u, r
<1>3. a \in Seq(S) /\ Len(a) = n + 1 /\ a[n + 1] = d /\ \A i \in 1 .. n : a[i] = r[i]
  BY <1>2, AppendProperties
<1>4. b \in Seq(S) /\ Len(b) = n + 1 /\ \A i \in 1 .. n + 1 : b[i] = u[((n + 1) - i) + 1]
  <2>1. b \in Seq(S) /\ Len(b) = Len(u) /\ \A i \in 1 .. Len(u) : b[i] = u[(Len(u) - i) + 1]
    BY <1>1, Reversed, Zenon
  <2> HIDE DEF b
  <2>2. QED BY <1>1, <2>1
<1> HIDE DEF a, b
<1>5. ASSUME NEW i \in 1 .. n + 1 PROVE a[i] = b[i]
  <2>1. CASE i = n + 1
    <3>1. ((n + 1) - i) + 1 = 1
      BY <1>1, <2>1
    <3>2. b[i] = u[1]
      BY <1>4, <3>1
    <3>3. QED BY <1>1, <1>3, <2>1, <3>2
  <2>2. CASE i # n + 1
    <3> DEFINE k == ((n + 1) - i) + 1
    <3>1. k \in 2 .. n + 1 /\ k - 1 = (n - i) + 1 /\ i \in 1 .. n
      BY <1>1, <2>2
    <3>2. b[i] = u[k]
      BY <1>4
    <3> HIDE DEF k
    <3>3. u[k] = s[k - 1]
      BY <1>1, <3>1
    <3>4. a[i] = s[(n - i) + 1]
      BY <1>2, <1>3, <3>1
    <3>5. QED BY <3>1, <3>2, <3>3, <3>4
  <2>3. QED BY <2>1, <2>2
<1>6. a = b
  BY <1>3, <1>4, <1>5, SeqEqual
<1>7. QED BY <1>6 DEF a, b, r, u

\* What the decimal loop leaves in the buffer: the digits of v, the lowest first,
\* no more than it takes divisions to come to zero.
Decimal(s, v) ==
  /\ s \in Seq(Digits)
  /\ Value(Reverse(s), 10) = v
  /\ v > 0 => s # << >> /\ s[Len(s)] # "0"
  /\ \A n \in Nat : Shifted(v, 10, n) = 0 => Len(s) <= n

\* One division more.
LEMMA DecimalStep ==
  ASSUME NEW v \in Nat, v > 0, NEW q, q = v \div 10, NEW m, m = v % 10, NEW s, Decimal(s, q)
  PROVE  Decimal(<<Digit[m + 1]>> \o s, v)
<1> DEFINE d == Digit[m + 1]
<1> DEFINE u == <<d>> \o s
<1>1. q \in Nat /\ m \in 0 .. 9 /\ q * 10 + m = v
  BY Division
<1>2. d \in Digits /\ DigitValue(d) = m /\ (d = "0" => m = 0)
  <2>1. m \in 0 .. 15
    BY <1>1
  <2>2. QED BY <2>1, DigitWorth
<1>3. s \in Seq(Digits) /\ Value(Reverse(s), 10) = q
  BY DEF Decimal
<1> HIDE DEF d
<1>4. /\ u \in Seq(Digits) /\ Len(u) = Len(s) + 1 /\ Len(s) \in Nat /\ u[1] = d
      /\ \A i \in 2 .. Len(s) + 1 : u[i] = s[i - 1]
  BY <1>2, <1>3
<1>5. Reverse(u) = Append(Reverse(s), d)
  BY <1>2, <1>3, ReverseFront
<1>6. Reverse(s) \in Seq(Digits)
  BY <1>3, Reversed
<1> HIDE DEF u
<1>7. Value(Reverse(u), 10) = v
  BY <1>1, <1>2, <1>3, <1>5, <1>6, ValueStep
<1>8. u # << >>
  BY <1>4
<1>9. u[Len(u)] # "0"
  <2>1. CASE q = 0
    <3>1. Shifted(q, 10, 0) = 0
      BY <2>1, ShiftedStep
    <3>2. Len(s) <= 0
      BY <3>1 DEF Decimal
    <3>3. Len(u) = 1 /\ m # 0
      BY <1>1, <1>4, <2>1, <3>2
    <3>4. QED BY <1>2, <1>4, <3>3
  <2>2. CASE q # 0
    <3>1. s # << >> /\ s[Len(s)] # "0"
      <4>1. q > 0
        BY <1>1, <2>2
      <4>2. QED BY <4>1 DEF Decimal
    <3>2. Len(s) # 0
      BY <1>3, <3>1
    <3>3. Len(u) \in 2 .. Len(s) + 1 /\ Len(u) - 1 = Len(s)
      BY <1>4, <3>2
    <3>4. u[Len(u)] = s[Len(u) - 1]
      BY <1>4, <3>3
    <3>5. QED BY <3>1, <3>3, <3>4
  <2>3. QED BY <2>1, <2>2
<1>10. ASSUME NEW n \in Nat, Shifted(v, 10, n) = 0 PROVE Len(u) <= n
  <2>1. n # 0
    BY <1>10, ShiftedStep
  <2> DEFINE k == n - 1
  <2>2. k \in Nat /\ k + 1 = n
    BY <2>1
  <2> HIDE DEF k
  <2>3. Shifted(v, 10, k + 1) = Shifted(q, 10, k)
    BY <2>2, ShiftedFront
  <2>4. Shifted(q, 10, k) = 0
    BY <1>10, <2>2, <2>3
  <2>5. Len(s) <= k
    BY <2>2, <2>4 DEF Decimal
  <2>6. QED BY <1>4, <2>2, <2>5
<1>11. Decimal(u, v)
  BY <1>4, <1>7, <1>8, <1>9, <1>10 DEF Decimal
<1>12. QED BY <1>11 DEF u, d

\* The loop ends with the digits of the number.
LEMMA LowDigitsDecimal ==
  ASSUME NEW value \in Nat
  PROVE  Decimal(LowDigits(value), value)
<1>1. PICK f : Loop(f, value) /\ LowDigits(value) = f[value]
  BY LowDigitsIs
<1>2. \A v \in 0 .. value : f[v] = IF v = 0 THEN << >> ELSE <<Digit[(v % 10) + 1]>> \o f[v \div 10]
  BY <1>1 DEF Loop
<1> DEFINE G == {v \in 0 .. value : Decimal(f[v], v)}
<1>3. ASSUME NEW v \in 0 .. value, \A j \in 0 .. v - 1 : j \in G PROVE v \in G
  <2>1. CASE v = 0
    <3>1. f[v] = << >>
      BY <1>2, <2>1
    <3>2. Reverse(<< >>) = << >>
      <4>1. << >> \in Seq(Digits) /\ Len(<< >>) = 0
        BY EmptySeq
      <4>2. Reverse(<< >>) \in Seq(Digits) /\ Len(Reverse(<< >>)) = 0
        BY <4>1, Reversed
      <4>3. QED BY <4>2, EmptySeq
    <3>3. Value(<< >>, 10) = 0
      <4>1. << >> \in Seq(Digits) /\ Digit[0 + 1] \in Digits
        BY EmptySeq, DigitWorth
      <4>2. QED BY <4>1, ValueStep
    <3>4. Decimal(<< >>, 0)
      <4>1. << >> \in Seq(Digits) /\ Len(<< >>) = 0
        BY EmptySeq
      <4>2. QED BY <3>2, <3>3, <4>1 DEF Decimal
    <3>5. QED BY <2>1, <3>1, <3>4
  <2>2. CASE v # 0
    <3> DEFINE q == v \div 10
    <3> DEFINE m == v % 10
    <3>1. q \in 0 .. v - 1 /\ v \in Nat /\ v > 0
      BY <2>2, SmallerQuotient
    <3>2. f[v] = <<Digit[m + 1]>> \o f[q]
      BY <1>2, <2>2, Zenon
    <3>3. Decimal(f[q], q)
      <4> HIDE DEF q
      <4>1. QED BY <1>3, <3>1
    <3>4. Decimal(<<Digit[m + 1]>> \o f[q], v)
      BY <3>1, <3>3, DecimalStep
    <3>5. QED BY <3>2, <3>4
  <2>3. QED BY <2>1, <2>2
<1> HIDE DEF G
<1>4. 0 .. value \subseteq G
  BY <1>3, Induction
<1>5. value \in 0 .. value
  OBVIOUS
<1>6. QED BY <1>1, <1>4, <1>5 DEF G

-----------------------------------------------------------------------------
\* What the two formats show.

\* All the characters there are.
Chars == (UNION {{text[i] : i \in DOMAIN text} : text \in Texts})
           \cup Digits \cup {"x", LineFeed, CarriageReturn}

\* A text reads back as a number: what NumbersReadBack says of the last one.
ReadsBack(text, value, base) ==
  LET digits == IF base = 16 THEN SubSeq(text, 3, Len(text)) ELSE text
  IN  /\ digits # << >> /\ Value(digits, base) = value
      /\ base = 10 => /\ Len(text) <= DecimalBytes
                      /\ text[1] = "0" => text = <<"0">>
      /\ base = 16 => Len(digits) = HexDigits

\* The second part of a sequence.
LEMMA SecondPart ==
  ASSUME NEW S, NEW s \in Seq(S), NEW t \in Seq(S), Len(t) > 0
  PROVE  SubSeq(s \o t, Len(s) + 1, Len(s \o t)) = t
<1> DEFINE u == s \o t
<1> DEFINE m == Len(s) + 1
<1> DEFINE n == Len(s) + Len(t)
<1>1. /\ u \in Seq(S) /\ Len(u) = n /\ m \in Int /\ n \in Int /\ m <= n
      /\ (n - m) + 1 = Len(t)
  OBVIOUS
<1>2. \A i \in 1 .. Len(t) : u[(m + i) - 1] = t[i]
  OBVIOUS
<1>3. \A i \in m .. n : u[i] \in S
  OBVIOUS
<1> DEFINE r == SubSeq(u, m, n)
<1> HIDE DEF u, m, n
<1>4. r \in Seq(S) /\ Len(r) = Len(t) /\ \A i \in 1 .. Len(t) : r[i] = u[(m + i) - 1]
  BY <1>1, <1>3
<1> HIDE DEF r
<1>5. r = t
  BY <1>2, <1>4, SeqEqual
<1>6. QED BY <1>1, <1>5 DEF r, u, m

\* Decimals read back, without a leading zero and within the buffer.
LEMMA DecimalReadsBack ==
  ASSUME NEW value \in Values
  PROVE  write_uint(value) \in Seq(Digits) /\ ReadsBack(write_uint(value), value, 10)
<1>1. value \in Nat /\ Shifted(value, 10, DecimalBytes) = 0 /\ DecimalBytes \in Nat \ {0}
  BY ConsoleAssumption, ValuesAssumption
<1>2. CASE value = 0
  <2>1. Digit[0 + 1] \in Digits /\ DigitValue(Digit[0 + 1]) = 0 /\ Digit[1] = "0"
    BY DigitWorth DEF Digit
  <2>2. "0" \in Digits /\ DigitValue("0") = 0
    BY <2>1
  <2>3. << >> \in Seq(Digits) /\ Append(<< >>, "0") = <<"0">>
    BY EmptySeq
  <2>4. Value(<<"0">>, 10) = 0
    <3>1. Value(<< >>, 10) = 0 /\ Value(Append(<< >>, "0"), 10) = Value(<< >>, 10) * 10 + DigitValue("0")
      BY <2>2, <2>3, ValueStep
    <3>2. QED BY <2>2, <2>3, <3>1
  <2>5. <<"0">> \in Seq(Digits) /\ Len(<<"0">>) = 1 /\ <<"0">> # << >>
    BY <2>2
  <2>6. ReadsBack(<<"0">>, 0, 10)
    BY <1>1, <2>4, <2>5 DEF ReadsBack
  <2>7. QED BY <1>2, <2>5, <2>6 DEF write_uint
<1>3. CASE value # 0
  <2> DEFINE low == LowDigits(value)
  <2> DEFINE text == Reverse(low)
  <2>1. Decimal(low, value)
    BY <1>1, LowDigitsDecimal
  <2>2. value > 0
    BY <1>1, <1>3
  <2> HIDE DEF low
  <2>3. /\ low \in Seq(Digits) /\ Value(text, 10) = value
        /\ low # << >> /\ low[Len(low)] # "0"
        /\ Len(low) <= DecimalBytes
    BY <1>1, <2>1, <2>2 DEF Decimal
  <2>4. Len(low) \in Nat \ {0}
    BY <2>3, EmptySeq
  <2>5. text \in Seq(Digits) /\ Len(text) = Len(low)
        /\ \A i \in 1 .. Len(low) : text[i] = low[(Len(low) - i) + 1]
    BY <2>3, Reversed
  <2> HIDE DEF text
  <2>6. text[1] # "0"
    <3>1. 1 \in 1 .. Len(low) /\ (Len(low) - 1) + 1 = Len(low)
      BY <2>4
    <3>2. QED BY <2>3, <2>5, <3>1
  <2>7. text # << >>
    BY <2>4, <2>5
  <2>8. ReadsBack(text, value, 10)
    BY <2>3, <2>5, <2>6, <2>7 DEF ReadsBack
  <2>9. write_uint(value) = text
    BY <1>3 DEF write_uint, text, low
  <2>10. QED BY <2>5, <2>8, <2>9
<1>4. QED BY <1>2, <1>3

\* Hexadecimals read back, with all their digits.
LEMMA HexReadsBack ==
  ASSUME NEW value \in Words
  PROVE  write_hex(value) \in Seq(Chars) /\ ReadsBack(write_hex(value), value, 16)
<1> DEFINE n == HexDigits
<1> DEFINE w(i) == Shifted(value, 16, i)
<1> DEFINE h == [i \in 1 .. n |-> Digit[(w(n - i) % 16) + 1]]
<1>1. value \in Nat /\ w(n) = 0 /\ n \in Nat \ {0} /\ w(0) = value
  BY ConsoleAssumption, ValuesAssumption, ShiftedStep
<1>2. ASSUME NEW i \in 1 .. n
      PROVE  /\ h[i] \in Digits /\ w(n - i) \in Nat
             /\ w((n - i) + 1) * 16 + DigitValue(h[i]) = w(n - i)
  <2> DEFINE v == w(n - i)
  <2> DEFINE q == v \div 16
  <2> DEFINE m == v % 16
  <2>1. n - i \in Nat
    BY <1>1
  <2>2. v \in Nat
    <3> DEFINE e == n - i
    <3>1. e \in Nat /\ 16 \in Nat /\ 16 > 1
      BY <2>1
    <3> HIDE DEF e
    <3>2. Shifted(value, 16, e) \in Nat
      BY <1>1, <3>1, ShiftedNat
    <3>3. QED BY <3>2 DEF e
  <2>3. w((n - i) + 1) = q
    BY <2>1, ShiftedStep
  <2>4. h[i] = Digit[m + 1]
    BY <1>2
  <2> HIDE DEF h, w
  <2>5. q \in Nat /\ m \in 0 .. 15 /\ q * 16 + m = v
    <3> HIDE DEF v
    <3>1. QED BY <2>2, Division
  <2>6. Digit[m + 1] \in Digits /\ DigitValue(Digit[m + 1]) = m
    <3> HIDE DEF m
    <3>1. QED BY <2>5, DigitWorth
  <2>7. QED BY <2>2, <2>3, <2>4, <2>5, <2>6, Zenon
<1>3. h \in Seq(Digits) /\ Len(h) = n
  <2>1. h = [i \in 1 .. n |-> h[i]]
    OBVIOUS
  <2> HIDE DEF h
  <2>2. QED BY <1>1, <1>2, <2>1
<1> HIDE DEF h
<1>4. PICK f : Sums(h, 16, f, n) /\ Value(h, 16) = f[n]
  BY <1>1, <1>3, ValueIs
<1>5. \A k \in 0 .. n : f[k] = IF k = 0 THEN 0 ELSE f[k - 1] * 16 + DigitValue(h[k])
  BY <1>4 DEF Sums
<1> DEFINE G == {k \in 0 .. n : f[k] = w(n - k)}
<1> HIDE DEF w
<1>6. ASSUME NEW k \in 0 .. n, \A j \in 0 .. k - 1 : j \in G PROVE k \in G
  <2>1. CASE k = 0
    <3>1. f[k] = 0 /\ n - k = n
      BY <1>1, <1>5, <2>1
    <3>2. QED BY <1>1, <3>1
  <2>2. CASE k # 0
    <3>1. k - 1 \in 0 .. k - 1 /\ k \in 1 .. n /\ n - (k - 1) = (n - k) + 1
      BY <1>1, <2>2
    <3>2. f[k - 1] = w((n - k) + 1)
      BY <1>6, <3>1
    <3>3. f[k] = f[k - 1] * 16 + DigitValue(h[k])
      BY <1>5, <2>2
    <3>4. f[k] = w(n - k)
      BY <1>2, <3>1, <3>2, <3>3
    <3>5. QED BY <3>4
  <2>3. QED BY <2>1, <2>2
<1> HIDE DEF G
<1>7. 0 .. n \subseteq G
  BY <1>1, <1>6, Induction
<1>8. Value(h, 16) = value
  <2>1. n \in 0 .. n /\ n - n = 0
    BY <1>1
  <2>2. f[n] = w(0)
    BY <1>7, <2>1 DEF G
  <2>3. QED BY <1>1, <1>4, <2>2
<1> DEFINE text == <<"0", "x">> \o h
<1>9. write_hex(value) = text
  BY DEF write_hex, h, w
<1>10. /\ h \in Seq(Chars) /\ <<"0", "x">> \in Seq(Chars)
       /\ Len(<<"0", "x">>) = 2
  <2>1. Digit[0 + 1] \in Digits /\ Digit[1] = "0"
    BY DigitWorth DEF Digit
  <2>2. Digits \subseteq Chars /\ "x" \in Chars
    <3>1. \A T, D, E : D \subseteq T \cup D \cup E /\ E \subseteq T \cup D \cup E
      OBVIOUS
    <3>2. "x" \in {"x", LineFeed, CarriageReturn}
      OBVIOUS
    <3>3. Digits \subseteq Chars /\ {"x", LineFeed, CarriageReturn} \subseteq Chars
      BY <3>1, Zenon DEF Chars
    <3>4. QED BY <3>2, <3>3
  <2>3. "0" \in Chars
    BY <2>1, <2>2
  <2>4. h \in Seq(Chars)
    BY <1>3, <2>2, SeqMonotonic
  <2>5. QED BY <2>2, <2>3, <2>4
<1>11. text \in Seq(Chars) /\ Len(text) = 2 + n
  BY <1>1, <1>3, <1>10, ConcatProperties
<1>12. SubSeq(text, 3, Len(text)) = h
  <2> DEFINE zx == <<"0", "x">>
  <2> HIDE DEF zx
  <2>1. zx \in Seq(Chars) /\ Len(zx) = 2
    BY <1>10 DEF zx
  <2>2. text = zx \o h /\ Len(zx) + 1 = 3
    BY <2>1 DEF zx
  <2>3. Len(h) > 0
    BY <1>1, <1>3
  <2>4. SubSeq(zx \o h, Len(zx) + 1, Len(zx \o h)) = h
    BY <1>10, <2>1, <2>3, SecondPart
  <2>5. QED BY <2>2, <2>4, Zenon
<1> HIDE DEF text
<1>13. h # << >>
  BY <1>1, <1>3
<1>14. ReadsBack(text, value, 16)
  <2>1. 16 # 10
    OBVIOUS
  <2>2. Len(h) = HexDigits
    BY <1>3
  <2>3. QED BY <1>8, <1>12, <1>13, <2>1, <2>2, Zenon DEF ReadsBack
<1>15. QED BY <1>9, <1>11, <1>14

-----------------------------------------------------------------------------
\* The line.

Return(r) == IF r THEN <<CarriageReturn>> ELSE << >>

\* All of log but the queue has been given, and w, with the character in the
\* holding register at its end, is what it becomes.
Carried(log, q, w, r) ==
  \E given \in Seq(Chars) : log = given \o q /\ w = Translated(given) \o Return(r)

\* The texts, the digits and the two of a new line are made of them.
LEMMA CharsHave ==
  /\ LineFeed \in Chars /\ CarriageReturn \in Chars
  /\ \A text \in Texts : text \in Seq(Chars)
  /\ Digits \subseteq Chars
<1>1. \A T, D, E : T \subseteq T \cup D \cup E /\ D \subseteq T \cup D \cup E /\ E \subseteq T \cup D \cup E
  OBVIOUS
<1> DEFINE All == UNION {{text[i] : i \in DOMAIN text} : text \in Texts}
<1>2. All \subseteq Chars /\ Digits \subseteq Chars /\ {"x", LineFeed, CarriageReturn} \subseteq Chars
  BY <1>1, Zenon DEF Chars
<1>3. ASSUME NEW text \in Texts PROVE text \in Seq(Chars)
  <2> DEFINE its == {text[i] : i \in DOMAIN text}
  <2>1. its \subseteq All
    BY Zenon
  <2> HIDE DEF All
  <2>2. its \subseteq Chars
    BY <1>2, <2>1
  <2>3. text \in Seq(its)
    BY ConsoleAssumption
  <2> HIDE DEF its
  <2>4. QED BY <2>2, <2>3, SeqMonotonic
<1>4. QED BY <1>2, <1>3

\* A call begins with nothing left to give.
LEMMA CarriedCall ==
  ASSUME NEW log, NEW w, NEW text \in Seq(Chars), Carried(log, << >>, w, FALSE)
  PROVE  Carried(log \o text, text, w, FALSE)
<1>1. PICK given \in Seq(Chars) : log = given \o << >> /\ w = Translated(given) \o Return(FALSE)
  BY DEF Carried
<1>2. log = given
  BY <1>1, ConcatEmptySeq
<1>3. QED BY <1>1, <1>2, Zenon DEF Carried

\* A carriage return is given first.
LEMMA CarriedReturn ==
  ASSUME NEW log, NEW q, NEW w \in Seq(Chars), Carried(log, q, w, FALSE)
  PROVE  Carried(log, q, w \o <<CarriageReturn>>, TRUE)
<1>1. PICK given \in Seq(Chars) : log = given \o q /\ w = Translated(given) \o Return(FALSE)
  BY DEF Carried
<1>2. Translated(given) \in Seq(Chars)
  BY CharsHave, TranslatedType
<1>3. Return(FALSE) = << >> /\ Return(TRUE) = <<CarriageReturn>>
  BY DEF Return
<1>4. w = Translated(given)
  BY <1>1, <1>2, <1>3, ConcatEmptySeq
<1>5. QED BY <1>1, <1>3, <1>4, Zenon DEF Carried

\* A character is given, a line feed after its carriage return.
LEMMA CarriedChar ==
  ASSUME NEW log, NEW q \in Seq(Chars), q # << >>, NEW w \in Seq(Chars), NEW r \in BOOLEAN,
         Carried(log, q, w, r), r <=> Head(q) = LineFeed
  PROVE  Carried(log, Tail(q), w \o <<Head(q)>>, FALSE)
<1> DEFINE c == Head(q)
<1> DEFINE rest == Tail(q)
<1>1. PICK given \in Seq(Chars) : log = given \o q /\ w = Translated(given) \o Return(r)
  BY DEF Carried
<1> DEFINE t == Translated(given)
<1> DEFINE more == Append(given, c)
<1>2. c \in Chars /\ rest \in Seq(Chars) /\ q = <<c>> \o rest
  OBVIOUS
<1> HIDE DEF c, rest
<1>3. <<c>> \in Seq(Chars) /\ <<CarriageReturn>> \in Seq(Chars) /\ <<LineFeed>> \in Seq(Chars)
  BY <1>2, CharsHave
<1>4. t \in Seq(Chars)
  BY CharsHave, TranslatedType
<1>5. more \in Seq(Chars) /\ more = given \o <<c>>
  BY <1>2, AppendProperties, AppendIsConcat
<1>6. log = more \o rest
  <2>1. (given \o <<c>>) \o rest = given \o (<<c>> \o rest)
    BY <1>2, <1>3, ConcatAssociative
  <2>2. QED BY <1>1, <1>2, <1>5, <2>1
<1>7. Translated(more) = t \o Piece(c)
  BY <1>2, TranslatedStep
<1> HIDE DEF more, t
<1>8. w \o <<c>> = t \o Piece(c)
  <2>1. CASE r
    <3>1. c = LineFeed /\ w = t \o <<CarriageReturn>>
      BY <1>1, <2>1 DEF c, t, Return
    <3>2. <<CarriageReturn>> \o <<LineFeed>> = <<CarriageReturn, LineFeed>>
      <4> DEFINE a == <<CarriageReturn>> \o <<LineFeed>>
      <4> DEFINE b == <<CarriageReturn, LineFeed>>
      <4>1. a \in Seq(Chars) /\ Len(a) = 2 /\ a[1] = CarriageReturn /\ a[2] = LineFeed
        BY <1>3
      <4>2. b \in Seq(Chars) /\ Len(b) = 2 /\ b[1] = CarriageReturn /\ b[2] = LineFeed
        BY CharsHave
      <4> HIDE DEF a, b
      <4>3. \A i \in 1 .. 2 : a[i] = b[i]
        BY <4>1, <4>2
      <4>4. a = b
        BY <4>1, <4>2, <4>3, SeqEqual
      <4>5. QED BY <4>4 DEF a, b
    <3>3. Piece(c) = <<CarriageReturn>> \o <<LineFeed>>
      BY <3>1, <3>2 DEF Piece
    <3>4. (t \o <<CarriageReturn>>) \o <<LineFeed>> = t \o (<<CarriageReturn>> \o <<LineFeed>>)
      BY <1>3, <1>4, ConcatAssociative
    <3>5. QED BY <3>1, <3>3, <3>4
  <2>2. CASE ~r
    <3>1. c # LineFeed /\ w = t \o << >>
      BY <1>1, <2>2 DEF c, t, Return
    <3>2. t \o << >> = t
      BY <1>4, ConcatEmptySeq
    <3>3. Piece(c) = <<c>>
      BY <3>1 DEF Piece
    <3>4. QED BY <3>1, <3>2, <3>3
  <2>3. QED BY <2>1, <2>2
<1>9. Translated(more) \o Return(FALSE) = w \o <<c>>
  <2>1. Return(FALSE) = << >>
    BY DEF Return
  <2>2. Translated(more) \in Seq(Chars)
    BY <1>5, CharsHave, TranslatedType
  <2>3. Translated(more) \o << >> = Translated(more)
    BY <2>2, ConcatEmptySeq
  <2>4. QED BY <1>7, <1>8, <2>1, <2>3
<1>10. Carried(log, rest, w \o <<c>>, FALSE)
  BY <1>5, <1>6, <1>9, Zenon DEF Carried
<1>11. QED BY <1>10 DEF c, rest

-----------------------------------------------------------------------------
\* The invariant.

Types ==
  /\ shown \in Seq(Chars) /\ queue \in Seq(Chars) /\ thr \in Seq(Chars)
  /\ wire \in Seq(Chars) /\ logged \in Seq(Chars)
  /\ returned \in BOOLEAN

\* A carriage return has been given for nothing but the line feed that comes next.
ReturnForFeed == returned => queue # << >> /\ Head(queue) = LineFeed

Line == Carried(logged, queue, wire \o thr, returned)

\* The place that number tells of lies in what is shown, and has the number's format.
Placed(num, seen) ==
  /\ num.base \in {10, 16} /\ num.value \in IF num.base = 10 THEN Values ELSE Words
  /\ num.first \in 1 .. Len(seen) /\ num.last \in 1 .. Len(seen)
  /\ SubSeq(seen, num.first, num.last)
       = IF num.base = 10 THEN write_uint(num.value) ELSE write_hex(num.value)

NumberShown == number # NoNumber => Placed(number, shown)

ConsoleInv == Types /\ ReturnForFeed /\ Line /\ NumberShown

\* Nothing has been printed.
LEMMA InitConsole ==
  ASSUME Init PROVE ConsoleInv
<1>1. << >> \in Seq(Chars) /\ << >> \o << >> = << >>
  BY EmptySeq, ConcatEmptySeq
<1>2. Types /\ ReturnForFeed /\ NumberShown
  BY <1>1 DEF Init, Types, ReturnForFeed, NumberShown
<1>3. Translated(<< >>) = << >>
  BY <1>1, CharsHave, TranslatedStep
<1>4. Return(FALSE) = << >>
  BY DEF Return
<1>5. Line
  <2>1. Carried(<< >>, << >>, << >> \o << >>, FALSE)
    BY <1>1, <1>3, <1>4, Zenon DEF Carried
  <2>2. QED BY <2>1 DEF Init, Line
<1>6. QED BY <1>2, <1>5 DEF ConsoleInv

\* What a call leaves on its way to the line.
LEMMA ToSerialKeeps ==
  ASSUME ConsoleInv, NEW text \in Seq(Chars), ToSerial(text)
  PROVE  /\ queue' \in Seq(Chars) /\ thr' \in Seq(Chars) /\ wire' \in Seq(Chars)
         /\ logged' \in Seq(Chars) /\ returned' \in BOOLEAN
         /\ ReturnForFeed' /\ Line'
<1>1. Types /\ ReturnForFeed /\ Line
  BY DEF ConsoleInv
<1>2. /\ queue = << >> /\ queue' = text /\ logged' = logged \o text
      /\ returned' = returned /\ thr' = thr /\ wire' = wire
  BY DEF ToSerial
<1>3. returned = FALSE
  BY <1>1, <1>2 DEF ReturnForFeed, Types
<1>4. logged' \in Seq(Chars)
  BY <1>1, <1>2, ConcatProperties DEF Types
<1>5. Carried(logged \o text, text, wire \o thr, FALSE)
  <2>1. Carried(logged, << >>, wire \o thr, FALSE)
    BY <1>1, <1>2, <1>3 DEF Line
  <2>2. QED BY <2>1, CarriedCall
<1>6. Line'
  BY <1>2, <1>3, <1>5 DEF Line
<1>7. ReturnForFeed'
  BY <1>2, <1>3 DEF ReturnForFeed
<1>8. QED BY <1>1, <1>2, <1>4, <1>6, <1>7 DEF Types

\* A place that was shown stays where it is.
LEMMA PlacedStays ==
  ASSUME NEW num, NEW seen \in Seq(Chars), NEW text \in Seq(Chars), Placed(num, seen)
  PROVE  Placed(num, seen \o text)
<1> DEFINE a == num.first
<1> DEFINE b == num.last
<1>1. a \in 1 .. Len(seen) /\ b \in 1 .. Len(seen)
  BY DEF Placed
<1> HIDE DEF a, b
<1>2. SubSeq(seen \o text, a, b) = SubSeq(seen, a, b)
  BY <1>1, SubSeqOfConcat1
<1>3. Len(seen \o text) = Len(seen) + Len(text) /\ Len(seen) \in Nat /\ Len(text) \in Nat
  OBVIOUS
<1>4. a \in 1 .. Len(seen \o text) /\ b \in 1 .. Len(seen \o text)
  BY <1>1, <1>3
<1>5. QED BY <1>2, <1>4, Zenon DEF Placed, a, b

\* A number is written in its place.
LEMMA PlacedNow ==
  ASSUME NEW seen \in Seq(Chars), NEW base \in {10, 16}, NEW value \in IF base = 10 THEN Values ELSE Words,
         NEW text \in Seq(Chars), text = IF base = 10 THEN write_uint(value) ELSE write_hex(value), Len(text) > 0
  PROVE  Placed([value |-> value, base |-> base, first |-> Len(seen) + 1, last |-> Len(seen \o text)],
                seen \o text)
<1>1. SubSeq(seen \o text, Len(seen) + 1, Len(seen \o text)) = text
  BY SecondPart
<1>2. Len(seen \o text) = Len(seen) + Len(text) /\ Len(seen) \in Nat /\ Len(text) \in Nat
  OBVIOUS
<1>3. Len(seen) + 1 \in 1 .. Len(seen \o text) /\ Len(seen \o text) \in 1 .. Len(seen \o text)
  BY <1>2
<1> DEFINE u == seen \o text
<1> DEFINE a == Len(seen) + 1
<1> DEFINE b == Len(u)
<1> DEFINE num == [value |-> value, base |-> base, first |-> a, last |-> b]
<1>4. num.value = value /\ num.base = base /\ num.first = a /\ num.last = b
  BY Zenon
<1> HIDE DEF num
<1>5. Placed(num, u)
  BY <1>1, <1>3, <1>4, Zenon DEF Placed
<1>6. QED BY <1>5 DEF num

\* What a decimal's text is.
LEMMA DecimalType ==
  ASSUME NEW value \in Values
  PROVE  write_uint(value) \in Seq(Chars) /\ Len(write_uint(value)) > 0
<1>1. write_uint(value) \in Seq(Digits) /\ ReadsBack(write_uint(value), value, 10)
  BY DecimalReadsBack
<1>2. write_uint(value) # << >>
  <2>1. 10 # 16
    OBVIOUS
  <2>2. QED BY <1>1, <2>1, Zenon DEF ReadsBack
<1>3. write_uint(value) \in Seq(Chars)
  BY <1>1, CharsHave, SeqMonotonic
<1>4. QED BY <1>2, <1>3, EmptySeq

\* What a hexadecimal's text is.
LEMMA HexType ==
  ASSUME NEW value \in Words
  PROVE  write_hex(value) \in Seq(Chars) /\ Len(write_hex(value)) > 0
<1>1. write_hex(value) \in Seq(Chars) /\ ReadsBack(write_hex(value), value, 16)
  BY HexReadsBack
<1>2. SubSeq(write_hex(value), 3, Len(write_hex(value))) # << >>
  BY <1>1, Zenon DEF ReadsBack
<1>3. ASSUME write_hex(value) = << >> PROVE FALSE
  <2>1. SubSeq(<< >>, 3, Len(<< >>)) = << >>
    BY SubSeqEmpty
  <2>2. QED BY <1>2, <1>3, <2>1
<1>4. QED BY <1>1, <1>3, EmptySeq

\* Every step of a caller, of the driver and of the UART keeps the invariant.
LEMMA ConsoleStep ==
  ASSUME ConsoleInv, [Next]_vars
  PROVE  ConsoleInv'
<1>1. Types /\ ReturnForFeed /\ Line /\ NumberShown
  BY DEF ConsoleInv
<1>2. ASSUME NEW text \in Seq(Chars), ToSerial(text), UNCHANGED <<shown, number>>
      PROVE  ConsoleInv'
  <2>1. shown' = shown /\ number' = number
    BY <1>2
  <2>2. NumberShown'
    BY <1>1, <2>1 DEF NumberShown
  <2>3. shown' \in Seq(Chars)
    BY <1>1, <2>1 DEF Types
  <2>4. QED BY <1>2, <2>2, <2>3, ToSerialKeeps DEF ConsoleInv, Types
<1>3. ASSUME NEW text \in Seq(Chars), api_write(text)
      PROVE  ConsoleInv'
  <2>1. ToSerial(text) /\ shown' = shown \o text /\ number' = number
    BY <1>3 DEF api_write, ToTerminal
  <2>2. shown \in Seq(Chars)
    BY <1>1 DEF Types
  <2>3. shown' \in Seq(Chars)
    BY <2>1, <2>2, ConcatProperties
  <2>4. NumberShown'
    <3>1. ASSUME number # NoNumber PROVE Placed(number, shown \o text)
      BY <1>1, <2>2, <3>1, PlacedStays DEF NumberShown
    <3>2. QED BY <2>1, <3>1 DEF NumberShown
  <2>5. QED BY <2>1, <2>3, <2>4, ToSerialKeeps DEF ConsoleInv, Types
<1>4. ASSUME NEW base \in {10, 16}, NEW value \in IF base = 10 THEN Values ELSE Words,
             NEW text \in Seq(Chars), Len(text) > 0,
             text = IF base = 10 THEN write_uint(value) ELSE write_hex(value),
             WriteNumber(value, base, text)
      PROVE  ConsoleInv'
  <2>1. ToSerial(text) /\ shown' = shown \o text
    BY <1>4 DEF WriteNumber, ToTerminal
  <2>2. number' = [value |-> value, base |-> base, first |-> Len(shown) + 1, last |-> Len(shown \o text)]
    BY <1>4, <2>1 DEF WriteNumber
  <2>3. shown \in Seq(Chars)
    BY <1>1 DEF Types
  <2>4. shown' \in Seq(Chars)
    BY <2>1, <2>3, ConcatProperties
  <2>5. Placed([value |-> value, base |-> base, first |-> Len(shown) + 1, last |-> Len(shown \o text)],
               shown \o text)
    BY <1>4, <2>3, PlacedNow
  <2>6. NumberShown'
    BY <2>1, <2>2, <2>5, Zenon DEF NumberShown
  <2>7. QED BY <2>1, <2>4, <2>6, ToSerialKeeps DEF ConsoleInv, Types
<1>5. CASE Calls
  <2>1. ASSUME NEW text \in Texts, serial_write(text) PROVE ConsoleInv'
    <3>1. text \in Seq(Chars)
      BY CharsHave
    <3>2. QED BY <1>2, <2>1, <3>1 DEF serial_write
  <2>2. ASSUME NEW text \in Texts, api_write(text) PROVE ConsoleInv'
    <3>1. text \in Seq(Chars)
      BY CharsHave
    <3>2. QED BY <1>3, <2>2, <3>1
  <2>3. ASSUME NEW text \in Texts, api_writeln(text) PROVE ConsoleInv'
    <3>1. Append(text, LineFeed) \in Seq(Chars)
      BY CharsHave, AppendProperties
    <3>2. QED BY <1>3, <2>3, <3>1 DEF api_writeln
  <2>4. ASSUME NEW value \in Values, api_write_u64(value) PROVE ConsoleInv'
    <3> DEFINE text == write_uint(value)
    <3>1. text \in Seq(Chars) /\ Len(text) > 0 /\ WriteNumber(value, 10, text)
      BY <2>4, DecimalType DEF api_write_u64
    <3>2. text = IF 10 = 10 THEN write_uint(value) ELSE write_hex(value)
      OBVIOUS
    <3>3. 10 \in {10, 16} /\ value \in IF 10 = 10 THEN Values ELSE Words
      OBVIOUS
    <3> HIDE DEF text
    <3>4. QED BY <1>4, <3>1, <3>2, <3>3, Zenon
  <2>5. ASSUME NEW value \in Words, api_write_hex32(value) PROVE ConsoleInv'
    <3> DEFINE text == write_hex(value)
    <3>1. text \in Seq(Chars) /\ Len(text) > 0 /\ WriteNumber(value, 16, text)
      BY <2>5, HexType DEF api_write_hex32
    <3>2. text = IF 16 = 10 THEN write_uint(value) ELSE write_hex(value)
      OBVIOUS
    <3>3. 16 \in {10, 16} /\ value \in IF 16 = 10 THEN Values ELSE Words
      OBVIOUS
    <3> HIDE DEF text
    <3>4. QED BY <1>4, <3>1, <3>2, <3>3, Zenon
  <2>6. QED BY <1>5, <2>1, <2>2, <2>3, <2>4, <2>5, Zenon DEF Calls
<1>6. CASE serial_write_char
  <2>1. /\ queue # << >> /\ thr = << >>
        /\ shown' = shown /\ wire' = wire /\ logged' = logged /\ number' = number
    BY <1>6 DEF serial_write_char, HoldingEmpty
  <2>2. NumberShown'
    BY <1>1, <2>1 DEF NumberShown
  <2>3. wire \o thr = wire /\ wire \in Seq(Chars) /\ queue \in Seq(Chars)
    BY <1>1, <2>1, ConcatEmptySeq DEF Types
  <2>4. Carried(logged, queue, wire, returned)
    BY <1>1, <2>3 DEF Line
  <2>5. Head(queue) \in Chars /\ Tail(queue) \in Seq(Chars)
    BY <2>1, <2>3, HeadTailProperties
  <2>6. CASE Head(queue) = LineFeed /\ ~returned
    <3>1. thr' = <<CarriageReturn>> /\ returned' = TRUE /\ queue' = queue
      BY <1>6, <2>6 DEF serial_write_char
    <3>2. Carried(logged, queue, wire \o <<CarriageReturn>>, TRUE)
      <4>1. Carried(logged, queue, wire, FALSE)
        <5>1. returned = FALSE
          BY <1>1, <2>6 DEF Types
        <5>2. QED BY <2>4, <5>1
      <4>2. QED BY <2>3, <4>1, CarriedReturn
    <3>3. Line'
      BY <2>1, <3>1, <3>2 DEF Line
    <3>4. ReturnForFeed'
      BY <2>1, <2>6, <3>1 DEF ReturnForFeed
    <3>5. Types'
      BY <1>1, <2>1, <3>1, CharsHave DEF Types
    <3>6. QED BY <2>2, <3>3, <3>4, <3>5 DEF ConsoleInv
  <2>7. CASE ~(Head(queue) = LineFeed /\ ~returned)
    <3>1. thr' = <<Head(queue)>> /\ returned' = FALSE /\ queue' = Tail(queue)
      BY <1>6, <2>7 DEF serial_write_char
    <3>2. returned <=> Head(queue) = LineFeed
      BY <1>1, <2>7 DEF ReturnForFeed
    <3>3. Carried(logged, Tail(queue), wire \o <<Head(queue)>>, FALSE)
      <4>1. returned \in BOOLEAN
        BY <1>1 DEF Types
      <4>2. QED BY <2>1, <2>3, <2>4, <3>2, <4>1, CarriedChar
    <3>4. Line'
      BY <2>1, <3>1, <3>3 DEF Line
    <3>5. ReturnForFeed'
      BY <3>1 DEF ReturnForFeed
    <3>6. Types'
      <4> DEFINE c == Head(queue)
      <4>1. c \in Chars
        BY <2>5
      <4>2. thr' = <<c>>
        BY <3>1
      <4> HIDE DEF c
      <4>3. thr' \in Seq(Chars)
        BY <4>1, <4>2
      <4>4. queue' \in Seq(Chars) /\ returned' \in BOOLEAN
        BY <2>5, <3>1
      <4>5. QED BY <1>1, <2>1, <4>3, <4>4 DEF Types
    <3>7. QED BY <2>2, <3>4, <3>5, <3>6 DEF ConsoleInv
  <2>8. QED BY <2>6, <2>7
<1>7. CASE UartSends
  <2>1. /\ wire' = wire \o thr /\ thr' = << >>
        /\ shown' = shown /\ queue' = queue /\ returned' = returned
        /\ logged' = logged /\ number' = number
    BY <1>7 DEF UartSends
  <2>2. wire' \in Seq(Chars) /\ thr' \in Seq(Chars)
    <3>1. wire \o thr \in Seq(Chars)
      BY <1>1, ConcatProperties DEF Types
    <3>2. << >> \in Seq(Chars)
      BY EmptySeq
    <3>3. QED BY <2>1, <3>1, <3>2
  <2>3. wire' \o thr' = wire \o thr
    <3>1. wire' \o << >> = wire'
      BY <2>2, ConcatEmptySeq
    <3>2. QED BY <2>1, <3>1
  <2>4. Line'
    BY <1>1, <2>1, <2>3 DEF Line
  <2>5. ReturnForFeed' /\ NumberShown'
    BY <1>1, <2>1 DEF ReturnForFeed, NumberShown
  <2>6. Types'
    BY <1>1, <2>1, <2>2 DEF Types
  <2>7. QED BY <2>4, <2>5, <2>6 DEF ConsoleInv
<1>8. CASE UNCHANGED vars
  <2>1. /\ shown' = shown /\ queue' = queue /\ returned' = returned /\ thr' = thr
        /\ wire' = wire /\ logged' = logged /\ number' = number
    BY <1>8 DEF vars
  <2>2. Types' /\ ReturnForFeed' /\ Line' /\ NumberShown'
    BY <1>1, <2>1 DEF Types, ReturnForFeed, Line, NumberShown
  <2>3. QED BY <2>2 DEF ConsoleInv
<1>9. QED BY <1>5, <1>6, <1>7, <1>8 DEF Next

(***************************************************************************)
(* Whatever is printed, and however slow the UART is, the line carries the *)
(* translation of what was given, and the last number is in its place.     *)
(***************************************************************************)
THEOREM ConsoleInvariance == Spec => []ConsoleInv
<1>1. Init => ConsoleInv
  BY InitConsole
<1>2. ConsoleInv /\ [Next]_vars => ConsoleInv'
  BY ConsoleStep
<1>3. QED BY <1>1, <1>2, PTL DEF Spec

(***************************************************************************)
(* serial_write_char loses nothing, repeats nothing and puts one carriage  *)
(* return before each line feed, for every text and every pace of the      *)
(* UART.                                                                   *)
(***************************************************************************)
THEOREM LogIsExact == Spec => []WireExact
<1>1. ASSUME ConsoleInv PROVE WireExact
  <2>1. PICK given \in Seq(Chars) : /\ logged = given \o queue
                                    /\ wire \o thr = Translated(given) \o Return(returned)
    BY <1>1 DEF ConsoleInv, Line, Carried
  <2>2. queue \in Seq(Chars)
    BY <1>1 DEF ConsoleInv, Types
  <2>3. Len(logged) - Len(queue) = Len(given)
    BY <2>1, <2>2
  <2>4. SubSeq(given \o queue, 1, Len(given)) = given
    <3>1. CASE Len(given) = 0
      <4>1. given = << >>
        BY <3>1
      <4>2. SubSeq(given \o queue, 1, 0) = << >>
        BY SubSeqEmpty
      <4>3. QED BY <3>1, <4>1, <4>2
    <3>2. CASE Len(given) # 0
      <4>1. 1 \in 1 .. Len(given) /\ Len(given) \in 1 .. Len(given)
        BY <3>2
      <4>2. SubSeq(given \o queue, 1, Len(given)) = SubSeq(given, 1, Len(given))
        BY <2>2, <4>1, SubSeqOfConcat1
      <4>3. SubSeq(given, 1, Len(given)) = given
        BY SubSeqFull
      <4>4. QED BY <4>2, <4>3
    <3>3. QED BY <3>1, <3>2
  <2>5. SubSeq(logged, 1, Len(logged) - Len(queue)) = given
    BY <2>1, <2>3, <2>4
  <2>6. QED BY <2>1, <2>5, Zenon DEF WireExact, Return
<1>2. QED BY <1>1, ConsoleInvariance, PTL

(***************************************************************************)
(* Every number of the width that the buffers are made for reads back from *)
(* the screen: write_uint divides and reverses, write_hex shifts.          *)
(***************************************************************************)
THEOREM FormatsReadBack == Spec => []NumbersReadBack
<1>1. ASSUME ConsoleInv PROVE NumbersReadBack
  <2> SUFFICES ASSUME number # NoNumber
               PROVE  ReadsBack(SubSeq(shown, number.first, number.last), number.value, number.base)
    BY Zenon DEF NumbersReadBack, ReadsBack
  <2> DEFINE text == SubSeq(shown, number.first, number.last)
  <2>1. /\ number.base \in {10, 16}
        /\ number.value \in IF number.base = 10 THEN Values ELSE Words
        /\ text = IF number.base = 10 THEN write_uint(number.value) ELSE write_hex(number.value)
    BY <1>1 DEF ConsoleInv, NumberShown, Placed
  <2> HIDE DEF text
  <2>2. CASE number.base = 10
    BY <2>1, <2>2, DecimalReadsBack DEF text
  <2>3. CASE number.base = 16
    <3>1. 16 # 10
      OBVIOUS
    <3>2. text = write_hex(number.value) /\ number.value \in Words
      BY <2>1, <2>3, <3>1
    <3>3. QED BY <2>3, <3>2, HexReadsBack DEF text
  <2>4. QED BY <2>1, <2>2, <2>3
<1>2. QED BY <1>1, ConsoleInvariance, PTL
=============================================================================
