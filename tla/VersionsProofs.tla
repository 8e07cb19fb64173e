--------------------------- MODULE VersionsProofs ---------------------------
(***************************************************************************)
(* Proofs about Versions: compareVersions orders releases as their numbers *)
(* do, hence totally, so that they can be sorted, and recentVersions lists *)
(* the newest of any finite set.                                           *)
(*                                                                         *)
(* Induction is by a least counterexample (LeastNatural).                  *)
(***************************************************************************)
EXTENDS Versions, SequenceTheorems, FiniteSetTheorems, WellFoundedInduction, TLAPS

Digits == 0..9

\* A set of naturals has a least element.
LEMMA LeastNatural ==
  ASSUME NEW T \in SUBSET Nat, T # {}
  PROVE  \E m \in T : \A n \in T : m <= n
<1>1. PICK m \in T : \A n \in T : ~(<<n, m>> \in OpToRel(<, Nat))
  BY NatLessThanWellFounded, WFMin
<1>2. \A n \in T : ~(n < m)
  BY <1>1 DEF OpToRel
<1>3. QED
  BY <1>2

\* Induction: what holds of 0 and is handed on holds up to any bound.
LEMMA Inductive ==
  ASSUME NEW a \in Nat, NEW b \in Nat, NEW T \in SUBSET (a..b),
         a \in T, \A i \in a..(b - 1) : i \in T => i + 1 \in T
  PROVE  \A i \in a..b : i \in T
<1> SUFFICES ASSUME (a..b) \ T # {} PROVE FALSE
  OBVIOUS
<1>0. (a..b) \ T \in SUBSET Nat
  OBVIOUS
<1>1. PICK m \in (a..b) \ T : \A n \in (a..b) \ T : m <= n
  BY <1>0, LeastNatural
<1>2. m # a /\ m - 1 \in a..(b - 1) /\ m - 1 \notin (a..b) \ T
  BY <1>1
<1>3. m - 1 \in T /\ (m - 1) + 1 = m
  BY <1>2
<1>4. QED
  BY <1>1, <1>2, <1>3

(***************************************************************************)
(* Fields as numbers                                                       *)
(***************************************************************************)
\* g[i] is the number that the first i digits of f write.
Counts(g, f) ==
  /\ g \in [0..Len(f) -> Nat]
  /\ g[0] = 0
  /\ \A i \in 1..Len(f) : g[i] = 10 * g[i - 1] + f[i]

\* The recursion of Number has a solution ...
LEMMA CountsExist ==
  ASSUME NEW f \in Seq(Digits)
  PROVE  \E g : Counts(g, f)
<1> DEFINE Part(g, n) == /\ g \in [0..n -> Nat] /\ g[0] = 0
                         /\ \A i \in 1..n : g[i] = 10 * g[i - 1] + f[i]
           T == {n \in 0..Len(f) : \E g : Part(g, n)}
<1>0. Len(f) \in Nat /\ \A i \in 1..Len(f) : f[i] \in 0..9
  BY DEF Digits
<1>1. 0 \in T
  <2>1. Part([i \in 0..0 |-> 0], 0)
    OBVIOUS
  <2>2. QED
    <3> HIDE DEF Part
    <3>1. QED
      BY <1>0, <2>1
<1>2. ASSUME NEW n \in 0..(Len(f) - 1), n \in T PROVE n + 1 \in T
  <2>1. PICK g : Part(g, n)
    BY <1>2
  <2>0. n \in Nat /\ n + 1 \in 1..Len(f)
    BY <1>0
  <2>2. DEFINE h == [i \in 0..(n + 1) |-> IF i = n + 1 THEN 10 * g[n] + f[n + 1] ELSE g[i]]
  <2>3. g[n] \in Nat /\ f[n + 1] \in Nat
    <3>1. g \in [0..n -> Nat] /\ n \in 0..n /\ f[n + 1] \in 0..9
      BY <1>0, <2>0, <2>1
    <3>2. QED
      BY <3>1, SMTT(30)
  <2>4. h \in [0..(n + 1) -> Nat]
    BY <2>1, <2>3
  <2>5. h[0] = 0
    BY <2>1
  <2>6. ASSUME NEW i \in 1..(n + 1) PROVE h[i] = 10 * h[i - 1] + f[i]
    <3>1. CASE i = n + 1
      BY <3>1, <2>3
    <3>2. CASE i # n + 1
      <4>1. i \in 1..n /\ i - 1 \in 0..n /\ i - 1 # n + 1
        BY <3>2
      <4>2. h[i] = g[i] /\ h[i - 1] = g[i - 1]
        BY <4>1
      <4>3. QED
        BY <2>1, <4>1, <4>2
    <3>3. QED
      BY <3>1, <3>2
  <2>7. Part(h, n + 1)
    BY <2>4, <2>5, <2>6
  <2>8. QED
    <3> HIDE DEF Part, h
    <3>1. QED
      BY <2>0, <2>7
<1>3. \A n \in 0..Len(f) : n \in T
  <2> HIDE DEF T
  <2>1. T \in SUBSET (0..Len(f))
    BY DEF T
  <2>2. QED
    BY <1>0, <1>1, <1>2, <2>1, Inductive
<1>4. PICK g : Part(g, Len(f))
  <2> HIDE DEF Part
  <2>1. Len(f) \in T
    BY <1>0, <1>3
  <2>2. QED
    BY <2>1
<1>5. QED
  BY <1>4 DEF Counts

\* ... and Number is its last value.
LEMMA NumberCounts ==
  ASSUME NEW f \in Seq(Digits)
  PROVE  \E g : Counts(g, f) /\ Number(f) = g[Len(f)]
<1> DEFINE G(u) == [i \in 0..Len(f) |-> IF i = 0 THEN 0 ELSE 10 * u[i - 1] + f[i]]
           upTo == CHOOSE u : u = G(u)
<1>0. Len(f) \in Nat /\ \A i \in 1..Len(f) : f[i] \in 0..9
  BY DEF Digits
<1>1. PICK g : Counts(g, f)
  BY CountsExist
<1>2. g = G(g)
  BY <1>0, <1>1 DEF Counts
<1>3. upTo = G(upTo)
  BY <1>2
<1>4. Number(f) = upTo[Len(f)]
  BY DEF Number
<1> HIDE DEF upTo
<1> DEFINE T == {i \in 0..Len(f) : upTo[i] = g[i]}
<1>5. 0 \in T
  BY <1>0, <1>1, <1>3 DEF Counts
<1>6. ASSUME NEW i \in 0..(Len(f) - 1), i \in T PROVE i + 1 \in T
  <2>1. i + 1 \in 0..Len(f) /\ i + 1 # 0 /\ (i + 1) - 1 = i /\ i + 1 \in 1..Len(f)
    BY <1>0
  <2>2. upTo[i + 1] = 10 * upTo[i] + f[i + 1]
    BY <1>3, <2>1
  <2>3. g[i + 1] = 10 * g[i] + f[i + 1]
    BY <1>1, <2>1 DEF Counts
  <2>4. QED
    BY <1>6, <2>1, <2>2, <2>3
<1>7. \A i \in 0..Len(f) : i \in T
  <2> HIDE DEF T
  <2>1. T \in SUBSET (0..Len(f))
    BY DEF T
  <2>2. QED
    BY <1>0, <1>5, <1>6, <2>1, Inductive
<1>8. QED
  BY <1>0, <1>1, <1>4, <1>7

\* A leading digit that is not 0 makes a number, however far it goes on.
LEMMA CountsPositive ==
  ASSUME NEW f \in Seq(Digits), NEW g, Counts(g, f), Len(f) > 0, f[1] # 0
  PROVE  \A i \in 1..Len(f) : g[i] > 0
<1> DEFINE T == {i \in 1..Len(f) : g[i] > 0}
<1>0. Len(f) \in Nat /\ \A i \in 1..Len(f) : f[i] \in 0..9
  BY DEF Digits
<1>1. 1 \in T
  <2>1. g[1] = 10 * g[0] + f[1] /\ g[0] = 0 /\ f[1] \in 0..9
    BY <1>0 DEF Counts
  <2>2. QED
    BY <1>0, <2>1
<1>2. ASSUME NEW i \in 1..(Len(f) - 1), i \in T PROVE i + 1 \in T
  <2>1. i + 1 \in 1..Len(f) /\ (i + 1) - 1 = i /\ i \in 0..Len(f)
    BY <1>0
  <2>2. g[i + 1] = 10 * g[i] + f[i + 1] /\ f[i + 1] \in 0..9 /\ g[i] \in Nat
    BY <1>0, <2>1 DEF Counts
  <2>3. QED
    BY <1>2, <2>1, <2>2, SMTT(30)
<1>3. QED
  <2> HIDE DEF T
  <2>1. T \in SUBSET (1..Len(f))
    BY DEF T
  <2>2. \A i \in 1..Len(f) : i \in T
    BY <1>0, <1>1, <1>2, <2>1, Inductive
  <2>3. QED
    BY <2>2 DEF T

LEMMA OneDigit ==
  \A m, n \in Nat, x, y \in 0..9 : m < n => 10 * m + x < 10 * n + y
  OBVIOUS

\* Once smaller, a number stays smaller digit by digit.
LEMMA StaysSmaller ==
  ASSUME NEW f \in Seq(Digits), NEW g \in Seq(Digits), NEW c, NEW d,
         Counts(c, f), Counts(d, g), NEW a \in 0..Len(f), NEW s \in Nat, Len(g) = Len(f) + s,
         c[a] < d[a + s]
  PROVE  c[Len(f)] < d[Len(g)]
<1> DEFINE T == {i \in a..Len(f) : c[i] < d[i + s]}
<1>0. /\ Len(f) \in Nat /\ Len(g) \in Nat /\ a \in Nat
      /\ \A i \in 1..Len(f) : f[i] \in 0..9
      /\ \A i \in 1..Len(g) : g[i] \in 0..9
  BY SMTT(30) DEF Digits
<1>1. a \in T
  BY <1>0
<1>2. ASSUME NEW i \in a..(Len(f) - 1), i \in T PROVE i + 1 \in T
  <2>1. /\ i \in 0..Len(f) /\ i + s \in 0..Len(g) /\ i + 1 \in 1..Len(f)
        /\ (i + 1) + s \in 1..Len(g) /\ (i + 1) - 1 = i /\ ((i + 1) + s) - 1 = i + s
        /\ i + 1 \in a..Len(f)
    BY <1>0
  <2>2. c[i + 1] = 10 * c[i] + f[i + 1] /\ c[i] \in Nat
    BY <2>1 DEF Counts
  <2>3. d[(i + 1) + s] = 10 * d[i + s] + g[(i + 1) + s] /\ d[i + s] \in Nat
    BY <2>1 DEF Counts
  <2>4. f[i + 1] \in 0..9 /\ g[(i + 1) + s] \in 0..9
    BY <1>0, <2>1
  <2>5. c[i] < d[i + s]
    BY <1>2
  <2>6. c[i + 1] < d[(i + 1) + s]
    BY <2>2, <2>3, <2>4, <2>5, OneDigit
  <2>7. QED
    BY <2>1, <2>6
<1>3. QED
  <2> HIDE DEF T
  <2>1. T \in SUBSET (a..Len(f))
    BY DEF T
  <2>2. \A i \in a..Len(f) : i \in T
    BY <1>0, <1>1, <1>2, <2>1, Inductive
  <2>3. Len(f) \in T
    BY <1>0, <2>2
  <2>4. QED
    BY <1>0, <2>3 DEF T

\* Where the first difference is.
LEMMA FirstDifferenceIs ==
  ASSUME NEW S, NEW s \in Seq(S), NEW t \in Seq(S)
  PROVE  LET i == FirstDifference(s, t)
         IN  /\ i \in 1..(Len(s) + 1) /\ i <= Len(t) + 1
             /\ i > Len(t) \/ i > Len(s) \/ s[i] # t[i]
             /\ \A j \in 1..(i - 1) : j <= Len(s) /\ j <= Len(t) /\ s[j] = t[j]
<1> DEFINE D == {i \in 1..(Len(s) + 1) : i > Len(t) \/ i > Len(s) \/ s[i] # t[i]}
           m == FirstDifference(s, t)
<1>0. Len(s) \in Nat /\ Len(t) \in Nat
  OBVIOUS
<1>1. D \in SUBSET Nat /\ Len(s) + 1 \in D
  BY <1>0
<1>2. \E i \in D : \A j \in D : i <= j
  <2> HIDE DEF D
  <2>1. QED
    BY <1>1, LeastNatural
<1>3. m = CHOOSE i \in D : \A j \in D : i <= j
  BY DEF FirstDifference, Min
<1>4. m \in D /\ \A j \in D : m <= j
  <2> HIDE DEF D, m
  <2>1. QED
    BY <1>2, <1>3
<1> HIDE DEF m
<1>5. m \in 1..(Len(s) + 1) /\ (m > Len(t) \/ m > Len(s) \/ s[m] # t[m])
  BY <1>4
<1>6. \A j \in 1..(m - 1) : j <= Len(s) /\ j <= Len(t) /\ s[j] = t[j]
  BY <1>0, <1>4, <1>5
<1>7. m <= Len(t) + 1
  BY <1>0, <1>5, <1>6
<1>8. QED
  BY <1>5, <1>6, <1>7 DEF m

\* FieldBefore is the order of the numbers.
LEMMA FieldOrder ==
  ASSUME NEW f \in Fields, NEW g \in Fields, f # g
  PROVE  /\ FieldBefore(f, g) => Number(f) < Number(g)
         /\ FieldBefore(f, g) \/ FieldBefore(g, f)
         /\ Number(f) \in Nat /\ Number(g) \in Nat
<1> DEFINE i == FirstDifference(f, g)
           j == FirstDifference(g, f)
<1>0. f \in Seq(Digits) /\ g \in Seq(Digits) /\ Len(f) \in Nat \ {0} /\ Len(g) \in Nat \ {0}
  BY DEF Fields, Digits
<1>1. PICK c : Counts(c, f) /\ Number(f) = c[Len(f)]
  BY <1>0, NumberCounts
<1>2. PICK d : Counts(d, g) /\ Number(g) = d[Len(g)]
  BY <1>0, NumberCounts
<1>3. Number(f) \in Nat /\ Number(g) \in Nat
  BY <1>0, <1>1, <1>2, SMTT(30) DEF Counts
<1>4. CASE Len(f) < Len(g)
  <2> DEFINE s == Len(g) - Len(f)
  <2>1. s \in 1..Len(g) /\ s \in Nat /\ Len(g) = Len(f) + s /\ 0 \in 0..Len(f) /\ Len(g) > 1
    BY <1>0, <1>4
  <2>2. g[1] # 0
    BY <2>1 DEF Fields
  <2>3. c[0] < d[0 + s]
    <3>1. c[0] = 0
      BY <1>1 DEF Counts
    <3>2. \A n \in 1..Len(g) : d[n] > 0
      BY <1>0, <1>2, <2>1, <2>2, CountsPositive
    <3>3. 0 + s = s
      BY <2>1
    <3> HIDE DEF s
    <3>4. QED
      BY <2>1, <3>1, <3>2, <3>3
  <2>4. Number(f) < Number(g)
    <3> HIDE DEF s
    <3>1. QED
      BY <1>0, <1>1, <1>2, <2>1, <2>3, StaysSmaller
  <2>5. QED
    BY <1>3, <1>4, <2>4 DEF FieldBefore
<1>5. CASE Len(g) < Len(f)
  BY <1>0, <1>3, <1>5 DEF FieldBefore
<1>6. CASE Len(f) = Len(g)
  <2>1. /\ i \in 1..Len(f) /\ f[i] # g[i] /\ \A n \in 1..(i - 1) : f[n] = g[n]
        /\ j = i
    <3>1. PICK n \in 1..Len(f) : f[n] # g[n]
      BY <1>0, <1>6, SeqEqual
    <3>2. /\ i \in 1..(Len(f) + 1) /\ (i > Len(g) \/ i > Len(f) \/ f[i] # g[i])
          /\ \A m \in 1..(i - 1) : f[m] = g[m]
      BY <1>0, FirstDifferenceIs
    <3>3. /\ j \in 1..(Len(g) + 1) /\ (j > Len(f) \/ j > Len(g) \/ g[j] # f[j])
          /\ \A m \in 1..(j - 1) : g[m] = f[m]
      BY <1>0, FirstDifferenceIs
    <3> HIDE DEF i, j
    <3>4. i <= n /\ j <= n
      BY <1>0, <1>6, <3>1, <3>2, <3>3
    <3>5. f[i] # g[i] /\ f[j] # g[j] /\ i \in 1..Len(f) /\ j \in 1..Len(f)
      BY <1>0, <1>6, <3>1, <3>2, <3>3, <3>4
    <3>6. QED
      BY <1>0, <3>2, <3>3, <3>5
  <2>2. f[i] \in 0..9 /\ g[i] \in 0..9
    BY <1>0, <1>6, <2>1 DEF Digits
  <2>3. FieldBefore(f, g) \/ FieldBefore(g, f)
    BY <1>6, <2>1, <2>2 DEF FieldBefore, TextBefore
  <2>4. ASSUME FieldBefore(f, g) PROVE Number(f) < Number(g)
    <3>1. f[i] < g[i]
      BY <1>0, <1>6, <2>4 DEF FieldBefore, TextBefore
    <3> HIDE DEF i, j
    <3> DEFINE T == {n \in 0..(i - 1) : c[n] = d[n]}
    <3>2. 0 \in T
      BY <1>1, <1>2, <2>1 DEF Counts
    <3>3. ASSUME NEW n \in 0..((i - 1) - 1), n \in T PROVE n + 1 \in T
      <4>1. n + 1 \in 1..(i - 1) /\ n + 1 \in 1..Len(f) /\ n + 1 \in 1..Len(g) /\ (n + 1) - 1 = n
        BY <1>0, <1>6, <2>1
      <4>2. c[n + 1] = 10 * c[n] + f[n + 1] /\ d[n + 1] = 10 * d[n] + g[n + 1]
        BY <1>1, <1>2, <4>1 DEF Counts
      <4>3. QED
        BY <2>1, <3>3, <4>1, <4>2
    <3>4. i - 1 \in T
      <4> HIDE DEF T
      <4>1. T \in SUBSET (0..(i - 1)) /\ i - 1 \in Nat /\ i - 1 \in 0..(i - 1)
        BY <2>1 DEF T
      <4>2. QED
        BY <3>2, <3>3, <4>1, Inductive
    <3>5. c[i] < d[i]
      <4>1. i - 1 \in 0..Len(f) /\ i \in 1..Len(g)
        BY <1>0, <1>6, <2>1
      <4>2. c[i] = 10 * c[i - 1] + f[i] /\ d[i] = 10 * d[i - 1] + g[i] /\ c[i - 1] \in Nat
        BY <1>1, <1>2, <2>1, <4>1 DEF Counts
      <4>3. c[i - 1] = d[i - 1]
        BY <3>4
      <4>4. QED
        BY <2>2, <3>1, <4>2, <4>3
    <3>6. i \in 0..Len(f) /\ 0 \in Nat /\ Len(g) = Len(f) + 0 /\ i + 0 = i
      BY <1>0, <1>6, <2>1
    <3>7. QED
      BY <1>0, <1>1, <1>2, <3>5, <3>6, StaysSmaller
  <2>5. QED
    BY <1>3, <2>3, <2>4
<1>7. QED
  BY <1>0, <1>4, <1>5, <1>6

(***************************************************************************)
(* Versions in order                                                       *)
(***************************************************************************)
Stable == [fields : Seq(Fields), pre : {FALSE}]

\* The numbers of a version.
LEMMA FieldNumbers ==
  ASSUME NEW v \in Stable
  PROVE  /\ Len(v.fields) \in Nat
         /\ \A i \in 1..Len(v.fields) : v.fields[i] \in Fields /\ FieldNumber(v, i) \in Nat
         /\ \A i \in Nat : i > Len(v.fields) => FieldNumber(v, i) = -1
         /\ \A i \in Nat \ {0} : FieldNumber(v, i) \in Int
<1>1. v.fields \in Seq(Fields) /\ Len(v.fields) \in Nat
  BY DEF Stable
<1>2. \A i \in 1..Len(v.fields) : v.fields[i] \in Fields /\ Number(v.fields[i]) \in Nat
  <2> SUFFICES ASSUME NEW i \in 1..Len(v.fields)
               PROVE  v.fields[i] \in Fields /\ Number(v.fields[i]) \in Nat
    OBVIOUS
  <2>1. v.fields[i] \in Fields
    BY <1>1
  <2>2. v.fields[i] \in Seq(Digits)
    BY <2>1 DEF Fields, Digits
  <2>3. PICK g : Counts(g, v.fields[i]) /\ Number(v.fields[i]) = g[Len(v.fields[i])]
    BY <2>2, NumberCounts
  <2>4. Len(v.fields[i]) \in 0..Len(v.fields[i])
    BY <2>2
  <2>5. QED
    BY <2>1, <2>3, <2>4 DEF Counts
<1>3. \A i \in 1..Len(v.fields) : FieldNumber(v, i) = Number(v.fields[i])
  BY <1>1 DEF FieldNumber
<1>4. \A i \in Nat : i > Len(v.fields) => FieldNumber(v, i) = -1
  BY <1>1 DEF FieldNumber
<1>5. QED
  BY <1>1, <1>2, <1>3, <1>4

\* Older is a strict order.
LEMMA OlderOrder ==
  ASSUME NEW a \in Stable, NEW b \in Stable, NEW c \in Stable
  PROVE  /\ ~Older(a, a)
         /\ Older(a, b) /\ Older(b, c) => Older(a, c)
<1>0. /\ \A i \in 1..Len(a.fields) : i \in Nat \ {0}
      /\ \A i \in 1..Len(b.fields) : i \in Nat \ {0}
      /\ \A i \in 1..Len(c.fields) : i \in Nat \ {0}
      /\ \A i \in Nat \ {0} : /\ FieldNumber(a, i) \in Int
                              /\ FieldNumber(b, i) \in Int
                              /\ FieldNumber(c, i) \in Int
  BY FieldNumbers
<1>1. ~Older(a, a)
  BY <1>0 DEF Older
<1>2. ASSUME Older(a, b), Older(b, c) PROVE Older(a, c)
  <2>1. PICK i \in 1..Len(b.fields) :
          /\ FieldNumber(a, i) < FieldNumber(b, i)
          /\ \A j \in 1..(i - 1) : FieldNumber(a, j) = FieldNumber(b, j)
    BY <1>2 DEF Older
  <2>2. PICK n \in 1..Len(c.fields) :
          /\ FieldNumber(b, n) < FieldNumber(c, n)
          /\ \A j \in 1..(n - 1) : FieldNumber(b, j) = FieldNumber(c, j)
    BY <1>2 DEF Older
  <2>3. i \in Nat \ {0} /\ n \in Nat \ {0}
    BY <1>0
  <2>4. CASE n <= i
    <3>1. FieldNumber(a, n) <= FieldNumber(b, n)
      <4>1. n = i \/ n \in 1..(i - 1)
        BY <2>3, <2>4
      <4>2. QED
        BY <1>0, <2>1, <2>3, <4>1
    <3>2. FieldNumber(a, n) < FieldNumber(c, n)
      BY <1>0, <2>2, <2>3, <3>1
    <3>3. \A j \in 1..(n - 1) : FieldNumber(a, j) = FieldNumber(c, j)
      BY <2>1, <2>2, <2>3, <2>4
    <3>4. QED
      BY <3>2, <3>3 DEF Older
  <2>5. CASE i < n
    <3>1. FieldNumber(b, i) = FieldNumber(c, i) /\ i \in 1..Len(c.fields)
      BY <2>2, <2>3, <2>5, FieldNumbers, SMTT(30)
    <3>2. \A j \in 1..(i - 1) : FieldNumber(a, j) = FieldNumber(c, j)
      BY <2>1, <2>2, <2>3, <2>5
    <3>3. QED
      BY <2>1, <3>1, <3>2 DEF Older
  <2>6. QED
    BY <2>3, <2>4, <2>5
<1>3. QED
  BY <1>1, <1>2

\* What compareVersions puts first is older, and it tells any two apart.
LEMMA CompareOlder ==
  ASSUME NEW a \in Stable, NEW b \in Stable
  PROVE  /\ compareVersions(a, b) => Older(a, b)
         /\ a # b => compareVersions(a, b) \/ compareVersions(b, a)
<1> DEFINE i == FirstDifference(a.fields, b.fields)
           j == FirstDifference(b.fields, a.fields)
           la == Len(a.fields)
           lb == Len(b.fields)
<1>0. a.fields \in Seq(Fields) /\ b.fields \in Seq(Fields) /\ la \in Nat /\ lb \in Nat
  BY DEF Stable
<1>1. /\ i \in 1..(la + 1) /\ i <= lb + 1 /\ (i > lb \/ i > la \/ a.fields[i] # b.fields[i])
      /\ \A n \in 1..(i - 1) : n <= la /\ n <= lb /\ a.fields[n] = b.fields[n]
  BY <1>0, FirstDifferenceIs, SMTT(30)
<1>2. /\ j \in 1..(lb + 1) /\ j <= la + 1 /\ (j > la \/ j > lb \/ b.fields[j] # a.fields[j])
      /\ \A n \in 1..(j - 1) : n <= lb /\ n <= la /\ b.fields[n] = a.fields[n]
  BY <1>0, FirstDifferenceIs, SMTT(30)
<1>3. /\ compareVersions(a, b) = (IF i <= la /\ i <= lb
                                  THEN FieldBefore(a.fields[i], b.fields[i]) ELSE la < lb)
      /\ compareVersions(b, a) = (IF j <= lb /\ j <= la
                                  THEN FieldBefore(b.fields[j], a.fields[j]) ELSE lb < la)
  BY DEF compareVersions
<1> HIDE DEF i, j
<1>4. i = j
  BY <1>0, <1>1, <1>2
<1>5. \A n \in 1..(i - 1) : FieldNumber(a, n) = FieldNumber(b, n)
  BY <1>0, <1>1 DEF FieldNumber
<1>6. CASE i <= la /\ i <= lb
  <2>1. a.fields[i] \in Fields /\ b.fields[i] \in Fields /\ a.fields[i] # b.fields[i]
    BY <1>0, <1>1, <1>6
  <2>2. /\ FieldBefore(a.fields[i], b.fields[i]) => FieldNumber(a, i) < FieldNumber(b, i)
        /\ FieldBefore(a.fields[i], b.fields[i]) \/ FieldBefore(b.fields[i], a.fields[i])
    BY <1>6, <2>1, FieldOrder DEF FieldNumber
  <2>3. i \in 1..Len(b.fields)
    BY <1>0, <1>1, <1>6
  <2>4. QED
    BY <1>3, <1>4, <1>5, <1>6, <2>2, <2>3 DEF Older
<1>7. CASE ~(i <= la /\ i <= lb)
  <2>1. ASSUME la < lb PROVE Older(a, b)
    <3>1. i = la + 1 /\ i \in 1..lb
      BY <1>0, <1>1, <1>7, <2>1
    <3>2. FieldNumber(a, i) = -1 /\ FieldNumber(b, i) \in Nat
      BY <1>0, <3>1, FieldNumbers
    <3>3. QED
      BY <1>5, <3>1, <3>2 DEF Older
  <2>2. ASSUME a # b PROVE la < lb \/ lb < la
    <3>1. a.fields # b.fields
      <4>1. /\ a = [fields |-> a.fields, pre |-> a.pre] /\ a.pre = FALSE
            /\ b = [fields |-> b.fields, pre |-> b.pre] /\ b.pre = FALSE
        BY DEF Stable
      <4>2. QED
        BY <2>2, <4>1
    <3>2. ASSUME la = lb PROVE FALSE
      <4>1. \A n \in 1..la : a.fields[n] = b.fields[n]
        BY <1>0, <1>1, <1>7, <3>2
      <4>2. QED
        BY <1>0, <3>1, <3>2, <4>1, SeqEqual
    <3>3. QED
      BY <1>0, <3>2
  <2>3. QED
    BY <1>0, <1>3, <1>4, <1>7, <2>1, <2>2
<1>8. QED
  BY <1>6, <1>7

\* compareVersions(a, b) < 0 exactly if a is the older version, and it is a
\* strict total order of the stable ones, as slices.SortFunc needs it.
THEOREM CompareIsNumeric ==
  /\ \A a, b \in Stable : compareVersions(a, b) <=> Older(a, b)
  /\ \A a, b \in Stable : a # b => compareVersions(a, b) \/ compareVersions(b, a)
  /\ \A a \in Stable : ~compareVersions(a, a)
  /\ \A a, b, c \in Stable :
       compareVersions(a, b) /\ compareVersions(b, c) => compareVersions(a, c)
<1>1. ASSUME NEW a \in Stable, NEW b \in Stable, Older(a, b) PROVE compareVersions(a, b)
  <2>1. a # b
    BY <1>1, OlderOrder
  <2>2. ~Older(b, a)
    BY <1>1, OlderOrder
  <2>3. QED
    BY <2>1, <2>2, CompareOlder
<1>2. \A a, b \in Stable : compareVersions(a, b) <=> Older(a, b)
  BY <1>1, CompareOlder
<1>3. QED
  BY <1>2, CompareOlder, OlderOrder

(***************************************************************************)
(* Sorting                                                                 *)
(***************************************************************************)
Ascends(s) == \A i, j \in DOMAIN s : i < j => compareVersions(s[i], s[j])

\* s lists S in order.
Lists(s, S, n) == s \in [1..n -> S] /\ Ascends(s) /\ \A v \in S : \E i \in 1..n : s[i] = v

\* One version more finds its place.
LEMMA InsertOne ==
  ASSUME NEW S \in SUBSET Stable, NEW v \in Stable \ S, NEW n \in Nat, NEW s, Lists(s, S, n)
  PROVE  \E t : Lists(t, S \cup {v}, n + 1)
<1> DEFINE P == {i \in 1..(n + 1) : i = n + 1 \/ compareVersions(v, s[i])}
<1>0. s \in [1..n -> S] /\ Ascends(s) /\ \A w \in S : \E i \in 1..n : s[i] = w
  BY DEF Lists
<1>1. PICK m \in P : \A i \in P : m <= i
  <2>1. P \in SUBSET Nat /\ n + 1 \in P
    OBVIOUS
  <2> HIDE DEF P
  <2>2. QED
    BY <2>1, LeastNatural
<1>2. m \in 1..(n + 1)
  OBVIOUS
<1>3. ASSUME NEW i \in 1..n, i < m PROVE compareVersions(s[i], v)
  <2>1. i \notin P
    BY <1>1, <1>2, <1>3
  <2>2. ~compareVersions(v, s[i]) /\ s[i] \in Stable /\ s[i] # v
    BY <1>0, <2>1
  <2>3. QED
    BY <2>2, CompareIsNumeric
<1>4. ASSUME NEW i \in 1..n, m <= i PROVE compareVersions(v, s[i])
  <2>1. m \in 1..n /\ compareVersions(v, s[m])
    BY <1>2, <1>4
  <2>2. i = m \/ compareVersions(s[m], s[i])
    BY <1>0, <1>2, <1>4, <2>1 DEF Ascends
  <2>3. s[i] \in Stable /\ s[m] \in Stable /\ v \in Stable
    BY <1>0, <2>1
  <2>4. QED
    BY <2>1, <2>2, <2>3, CompareIsNumeric
<1> HIDE DEF P
<1> DEFINE t == [i \in 1..(n + 1) |-> IF i < m THEN s[i] ELSE IF i = m THEN v ELSE s[i - 1]]
<1>5. /\ \A i \in 1..(m - 1) : i \in 1..n /\ t[i] = s[i]
      /\ t[m] = v
      /\ \A i \in (m + 1)..(n + 1) : i - 1 \in 1..n /\ t[i] = s[i - 1]
  BY <1>2
<1>6. t \in [1..(n + 1) -> S \cup {v}]
  BY <1>0, <1>2
<1>7. \A w \in S \cup {v} : \E i \in 1..(n + 1) : t[i] = w
  <2> HIDE DEF t
  <2>1. ASSUME NEW i \in 1..n PROVE \E j \in 1..(n + 1) : t[j] = s[i]
    <3>1. CASE i < m
      BY <1>2, <1>5, <3>1
    <3>2. CASE ~(i < m)
      <4>1. i + 1 \in (m + 1)..(n + 1) /\ (i + 1) - 1 = i /\ i + 1 \in 1..(n + 1)
        BY <1>2, <3>2
      <4>2. t[i + 1] = s[i]
        BY <1>5, <4>1
      <4>3. QED
        BY <4>1, <4>2
    <3>3. QED
      BY <3>1, <3>2
  <2>2. QED
    BY <1>0, <1>2, <1>5, <2>1, ZenonT(60)
<1>8. Ascends(t)
  <2>0. DOMAIN t = 1..(n + 1) /\ DOMAIN s = 1..n
    BY <1>0
  <2> HIDE DEF t
  <2> SUFFICES ASSUME NEW i \in 1..(n + 1), NEW j \in 1..(n + 1), i < j
               PROVE  compareVersions(t[i], t[j])
    BY <2>0 DEF Ascends
  <2>1. CASE j < m
    <3>1. i \in 1..(m - 1) /\ j \in 1..(m - 1)
      BY <1>2, <2>1
    <3>2. i \in DOMAIN s /\ j \in DOMAIN s /\ t[i] = s[i] /\ t[j] = s[j]
      BY <1>5, <2>0, <3>1
    <3>3. QED
      BY <1>0, <3>2 DEF Ascends
  <2>2. CASE j = m
    <3>1. i \in 1..(m - 1) /\ i < m
      BY <1>2, <2>2
    <3>2. QED
      BY <1>3, <1>5, <2>2, <3>1
  <2>3. CASE j > m
    <3>1. j \in (m + 1)..(n + 1) /\ m <= j - 1
      BY <1>2, <2>3
    <3>2. t[j] = s[j - 1] /\ j - 1 \in 1..n
      BY <1>5, <3>1
    <3>3. CASE i = m
      BY <1>4, <1>5, <3>1, <3>2, <3>3
    <3>4. CASE i < m
      <4>1. i \in 1..(m - 1) /\ i < j - 1
        BY <1>2, <3>1, <3>4
      <4>2. t[i] = s[i] /\ i \in 1..n
        BY <1>5, <4>1
      <4>3. QED
        BY <1>0, <2>0, <3>2, <4>1, <4>2 DEF Ascends
    <3>5. CASE i > m
      <4>1. i \in (m + 1)..(n + 1) /\ i - 1 < j - 1
        BY <1>2, <3>5
      <4>2. t[i] = s[i - 1] /\ i - 1 \in 1..n
        BY <1>5, <4>1
      <4>3. QED
        BY <1>0, <2>0, <3>2, <4>1, <4>2 DEF Ascends
    <3>6. QED
      BY <1>2, <3>3, <3>4, <3>5
  <2>4. QED
    BY <1>2, <2>1, <2>2, <2>3
<1>9. Lists(t, S \cup {v}, n + 1)
  <2> HIDE DEF t
  <2>1. QED
    BY <1>6, <1>7, <1>8 DEF Lists
<1>10. QED
  BY <1>9

\* Any finite set of versions can be listed.
LEMMA ListsExist ==
  ASSUME NEW S \in SUBSET Stable, IsFiniteSet(S)
  PROVE  \E s : Lists(s, S, Cardinality(S))
<1> DEFINE Listed(n) == \A U \in SUBSET Stable :
                          IsFiniteSet(U) /\ Cardinality(U) = n => \E s : Lists(s, U, n)
           T == {n \in 0..Cardinality(S) : Listed(n)}
<1>0. Cardinality(S) \in Nat
  BY FS_CardinalityType
<1>1. Listed(0)
  <2> SUFFICES ASSUME NEW U \in SUBSET Stable, IsFiniteSet(U), Cardinality(U) = 0
               PROVE  \E s : Lists(s, U, 0)
    OBVIOUS
  <2>1. U = {}
    BY FS_EmptySet
  <2>2. Lists([i \in 1..0 |-> 0], U, 0)
    BY <2>1 DEF Lists, Ascends
  <2>3. QED
    BY <2>2
<1>2. ASSUME NEW n \in Nat, Listed(n) PROVE Listed(n + 1)
  <2> SUFFICES ASSUME NEW U \in SUBSET Stable, IsFiniteSet(U), Cardinality(U) = n + 1
               PROVE  \E s : Lists(s, U, n + 1)
    OBVIOUS
  <2>1. PICK v \in U : TRUE
    BY FS_EmptySet
  <2>2. IsFiniteSet(U \ {v}) /\ Cardinality(U \ {v}) = n
    <3>1. IsFiniteSet(U \ {v}) /\ Cardinality(U \ {v}) = Cardinality(U) - 1
      BY FS_RemoveElement
    <3>2. QED
      BY <3>1
  <2>3. PICK s : Lists(s, U \ {v}, n)
    BY <1>2, <2>2
  <2>4. U \ {v} \in SUBSET Stable /\ v \in Stable \ (U \ {v}) /\ (U \ {v}) \cup {v} = U
    OBVIOUS
  <2>5. QED
    BY <2>3, <2>4, InsertOne, ZenonT(60)
<1> HIDE DEF Listed
<1>3. Listed(Cardinality(S))
  <2>1. /\ T \in SUBSET (0..Cardinality(S)) /\ 0 \in T
        /\ \A i \in 0..(Cardinality(S) - 1) : i \in T => i + 1 \in T
    BY <1>0, <1>1, <1>2
  <2>2. \A i \in 0..Cardinality(S) : i \in T
    <3> HIDE DEF T
    <3>1. QED
      BY <1>0, <2>1, Inductive
  <2>3. QED
    BY <1>0, <2>2
<1>4. QED
  BY <1>3 DEF Listed

\* Sorting is possible, and what comes of it lists the set.
LEMMA SortFuncLists ==
  ASSUME NEW S \in SUBSET Stable, IsFiniteSet(S)
  PROVE  Lists(SortFunc(S), S, Cardinality(S))
<1> DEFINE n == Cardinality(S)
           s == SortFunc(S)
<1>0. n \in Nat /\ IsFiniteSet(1..n) /\ Cardinality(1..n) = n
  BY FS_CardinalityType, FS_Interval
<1>1. PICK t : Lists(t, S, n)
  BY ListsExist
<1>2. t \in SetToSeqs(S) /\ Ascends(t)
  <2>1. \A i, j \in 1..n : i < j => t[i] # t[j]
    <3> SUFFICES ASSUME NEW i \in 1..n, NEW j \in 1..n, i < j PROVE t[i] # t[j]
      OBVIOUS
    <3>1. compareVersions(t[i], t[j]) /\ t[i] \in Stable
      BY <1>1 DEF Lists, Ascends
    <3>2. QED
      BY <3>1, CompareIsNumeric
  <2>2. \A i, j \in 1..n : i # j => t[i] # t[j]
    BY <1>0, <2>1
  <2>3. QED
    BY <1>1, <2>2 DEF Lists, SetToSeqs
<1>3. s \in SetToSeqs(S) /\ Ascends(s)
  BY <1>2 DEF SortFunc, Ascends
<1> HIDE DEF s
<1>4. s \in [1..n -> S] /\ \A i, j \in 1..n : i # j => s[i] # s[j]
  BY <1>3 DEF SetToSeqs
<1>5. s \in Injection(1..n, S)
  BY <1>4 DEF Injection, IsInjective
<1>6. s \in Surjection(1..n, S)
  BY <1>0, <1>5, FS_Injection
<1>7. \A v \in S : \E i \in 1..n : s[i] = v
  BY <1>6 DEF Surjection
<1>8. QED
  BY <1>3, <1>4, <1>7 DEF Lists, s

\* The last RecentLimit of the sorted list are the newest.
LEMMA RecentNewest ==
  ASSUME NEW platforms \in Releases
  PROVE  Newest(recentVersions(platforms), platforms)
<1> DEFINE stable == {v \in platforms : ~v.pre}
           n == Cardinality(stable)
           s == SortFunc(stable)
           first == IF n > RecentLimit THEN n - RecentLimit + 1 ELSE 1
           listed == SubSeq(s, first, n)
<1>1. stable \in SUBSET Stable /\ IsFiniteSet(stable)
  <2>1. \A v \in stable : v \in Stable
    BY VersionsAssumption DEF Stable
  <2>2. IsFiniteSet(platforms) /\ stable \in SUBSET platforms
    BY VersionsAssumption
  <2>3. QED
    BY <2>1, <2>2, FS_Subset
<1>2. n \in Nat /\ RecentLimit \in Nat \ {0}
  BY <1>1, FS_CardinalityType, VersionsAssumption
<1>3. s \in [1..n -> stable] /\ Ascends(s) /\ \A v \in stable : \E i \in 1..n : s[i] = v
  <2> HIDE DEF stable
  <2>1. QED
    BY <1>1, SortFuncLists DEF Lists
<1>4. Len(s) = n
  BY <1>2, <1>3
<1>5. recentVersions(platforms) = listed
  BY <1>4 DEF recentVersions
<1> HIDE DEF stable, s, n
<1>6. first \in 1..(n + 1) /\ first \in Int /\ n \in Int
  BY <1>2
<1>7. /\ listed \in Seq(stable) /\ Len(listed) = (n - first) + 1
      /\ \A i \in 1..((n - first) + 1) : listed[i] = s[(first + i) - 1]
  <2>1. \A i \in first..n : s[i] \in stable
    BY <1>2, <1>3, <1>6
  <2> HIDE DEF first
  <2>2. /\ listed \in Seq(stable) /\ Len(listed) = (IF first <= n THEN n - first + 1 ELSE 0)
        /\ \A i \in 1..(n - first + 1) : listed[i] = s[first + i - 1]
    BY <1>6, <2>1, SubSeqProperties
  <2>3. QED
    BY <1>2, <1>6, <2>2
<1> HIDE DEF listed
<1>8. ASSUME NEW i \in 1..((n - first) + 1)
      PROVE  (first + i) - 1 \in 1..n /\ (first + i) - 1 >= first
  BY <1>2, <1>6
<1>9. DOMAIN listed = 1..((n - first) + 1)
  BY <1>7, LenProperties
<1>10. ToSet(listed) \subseteq stable
  BY <1>7, <1>9 DEF ToSet
<1>11. ASSUME NEW i \in DOMAIN listed, NEW j \in DOMAIN listed, i < j
       PROVE  Older(listed[i], listed[j])
  <2>1. i \in 1..((n - first) + 1) /\ j \in 1..((n - first) + 1)
    BY <1>9
  <2>2. /\ (first + i) - 1 \in 1..n /\ (first + j) - 1 \in 1..n
        /\ (first + i) - 1 < (first + j) - 1
    BY <1>2, <1>6, <1>8, <1>11, <2>1
  <2>3. listed[i] = s[(first + i) - 1] /\ listed[j] = s[(first + j) - 1]
    BY <1>7, <2>1
  <2>4. compareVersions(listed[i], listed[j]) /\ listed[i] \in Stable /\ listed[j] \in Stable
    BY <1>1, <1>3, <2>2, <2>3 DEF Ascends
  <2>5. QED
    BY <2>4, CompareIsNumeric
<1>12. ASSUME NEW v \in stable \ ToSet(listed)
       PROVE  Len(listed) = RecentLimit /\ \A i \in DOMAIN listed : Older(v, listed[i])
  <2>1. PICK m \in 1..n : s[m] = v
    BY <1>3
  <2>2. m < first
    <3> SUFFICES ASSUME first <= m PROVE FALSE
      BY <1>6
    <3>1. (m - first) + 1 \in 1..((n - first) + 1) /\ (first + ((m - first) + 1)) - 1 = m
      BY <1>2, <1>6
    <3>2. listed[(m - first) + 1] = v /\ (m - first) + 1 \in DOMAIN listed
      BY <1>7, <1>9, <2>1, <3>1
    <3>3. QED
      BY <1>12, <3>2 DEF ToSet
  <2>3. Len(listed) = RecentLimit
    BY <1>2, <1>7, <2>2
  <2>4. ASSUME NEW i \in DOMAIN listed PROVE Older(v, listed[i])
    <3>1. i \in 1..((n - first) + 1)
      BY <1>9
    <3>2. (first + i) - 1 \in 1..n /\ m < (first + i) - 1 /\ listed[i] = s[(first + i) - 1]
      BY <1>6, <1>7, <1>8, <2>2, <3>1, SMTT(30)
    <3>3. compareVersions(v, listed[i]) /\ v \in Stable /\ listed[i] \in Stable
      BY <1>1, <1>3, <2>1, <3>2 DEF Ascends
    <3>4. QED
      BY <3>3, CompareIsNumeric
  <2>5. QED
    BY <2>3, <2>4
<1>13. QED
  BY <1>5, <1>10, <1>11, <1>12 DEF Newest, stable

\* resolve's error lists the newest stable releases, in order, whatever finite
\* set of releases the manifest holds and whatever numbers are in their tags.
THEOREM NewestSuggested == Spec => []NewestListed
<1>1. AllNewest
  BY RecentNewest DEF AllNewest
<1>2. NewestListed
  BY <1>1 DEF NewestListed
<1>3. QED
  BY <1>2, PTL
=============================================================================
