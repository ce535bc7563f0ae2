-------------------------- MODULE MetricToolsProofs -------------------------
(***************************************************************************)
(* What the sums and the sort of chat-api's tools compute.  Both are loops, *)
(* modelled as recursive functions over the loop's counter; the section on *)
(* loops says that such a function exists and what holds of all its values. *)
(***************************************************************************)
EXTENDS MetricTools, FiniteSetTheorems, WellFoundedInduction, TLAPS

-----------------------------------------------------------------------------
(***************************************************************************)
(* Loops.                                                                  *)
(***************************************************************************)
\* A set of natural numbers has a least member.
LEMMA LeastMember ==
    ASSUME NEW T \in SUBSET Nat, T # {}
    PROVE  \E x \in T : \A y \in T : x <= y
<1> DEFINE R == OpToRel(<, Nat)
<1>1. IsWellFoundedOn(R, Nat)
  BY NatLessThanWellFounded
<1>2. PICK x \in T : \A y \in T : ~(<<y, x>> \in R)
  <2> HIDE DEF R
  <2> QED BY <1>1, WFMin
<1>3. ASSUME NEW y \in T PROVE x <= y
  <2>1. ~(<<y, x>> \in R)
    BY <1>2
  <2>2. ~(y < x)
    BY <2>1 DEF OpToRel
  <2> QED BY <2>2
<1> QED BY <1>3

\* A loop's invariant: what holds at the start and is kept by every turn
\* holds throughout.
LEMMA LoopInduction ==
    ASSUME NEW a \in Nat, NEW b \in Nat, a <= b, NEW T,
           a \in T, \A k \in a .. b : k # a /\ k - 1 \in T => k \in T
    PROVE  a .. b \subseteq T
<1> DEFINE Missing == {k \in a .. b : k \notin T}
<1>1. SUFFICES ASSUME Missing # {} PROVE FALSE
  OBVIOUS
<1>2. Missing \in SUBSET Nat
  OBVIOUS
<1>3. PICK k \in Missing : \A j \in Missing : k <= j
  <2> HIDE DEF Missing
  <2> QED BY <1>1, <1>2, LeastMember
<1>4. k \in a .. b /\ k # a
  OBVIOUS
<1>5. k - 1 \in a .. b /\ k - 1 \notin Missing
  BY <1>3, <1>4
<1> QED BY <1>3, <1>4, <1>5

\* The records of a loop whose turn k makes step[<<k, x>>] of x.
Records(a, b, S, first, step) ==
    {states \in [a .. b -> S] :
        /\ states[a] = first
        /\ \A k \in a .. b : k # a => states[k] = step[<<k, states[k - 1]>>]}

LEMMA LoopExists ==
    ASSUME NEW a \in Nat, NEW b \in Nat, a <= b, NEW S, NEW first \in S,
           NEW step \in [(a .. b) \X S -> S]
    PROVE  Records(a, b, S, first, step) # {}
<1> DEFINE Run(m, g) == /\ g \in [a .. m -> S]
                        /\ g[a] = first
                        /\ \A k \in a .. m : k # a => g[k] = step[<<k, g[k - 1]>>]
<1> DEFINE T == {m \in a .. b : \E g : Run(m, g)}
<1>1. a \in T
  <2>1. Run(a, [k \in a .. a |-> first])
    OBVIOUS
  <2> HIDE DEF Run
  <2> QED BY <2>1
<1>2. ASSUME NEW m \in a .. b, m # a, m - 1 \in T PROVE m \in T
  <2>1. PICK g : Run(m - 1, g)
    BY <1>2
  <2> DEFINE h == [k \in a .. m |-> IF k = m THEN step[<<m, g[m - 1]>>] ELSE g[k]]
  <2>2. g[m - 1] \in S /\ g \in [a .. m - 1 -> S]
    BY <1>2, <2>1
  <2>3. <<m, g[m - 1]>> \in (a .. b) \X S
    BY <2>2
  <2>4. h \in [a .. m -> S]
    BY <2>2, <2>3
  <2>5. h[a] = first
    BY <1>2, <2>1
  <2>6. ASSUME NEW k \in a .. m, k # a PROVE h[k] = step[<<k, h[k - 1]>>]
    <3>1. k - 1 \in a .. m /\ k - 1 # m
      BY <2>6
    <3>2. h[k - 1] = g[k - 1]
      BY <3>1
    <3>3. CASE k = m
      <4>1. h[m] = step[<<m, g[m - 1]>>]
        OBVIOUS
      <4> HIDE DEF h
      <4> QED BY <3>2, <3>3, <4>1
    <3>4. CASE k # m
      <4>1. k \in a .. m - 1 /\ h[k] = g[k]
        BY <3>4
      <4> QED BY <2>1, <2>6, <3>2, <4>1
    <3> QED BY <3>3, <3>4
  <2>7. Run(m, h)
    BY <2>4, <2>5, <2>6
  <2> HIDE DEF Run
  <2> QED BY <2>7
<1>3. a .. b \subseteq T
  <2> HIDE DEF T
  <2> QED BY <1>1, <1>2, LoopInduction
<1>4. \E g : Run(b, g)
  <2>1. b \in T
    <3> HIDE DEF T
    <3> QED BY <1>3
  <2> HIDE DEF Run
  <2> QED BY <2>1
<1> QED BY <1>4 DEF Records

-----------------------------------------------------------------------------
(***************************************************************************)
(* Totals.                                                                 *)
(***************************************************************************)
\* g[k] is the sum of the first k members of s.
SumsOf(s, g) ==
    g = [k \in 0 .. Len(s) |-> IF k = 0 THEN 0 ELSE g[k - 1] + s[k]]

\* Whoever has summed up s has found its total.
LEMMA TotalFound ==
    ASSUME NEW s, Len(s) \in Nat, NEW g, SumsOf(s, g)
    PROVE  TotalOf(s) = g[Len(s)]
<1> DEFINE n == Len(s)
<1> DEFINE f == CHOOSE f : f = [k \in 0 .. Len(s) |-> IF k = 0 THEN 0 ELSE f[k - 1] + s[k]]
<1>1. f = [k \in 0 .. n |-> IF k = 0 THEN 0 ELSE f[k - 1] + s[k]]
  BY Zenon DEF SumsOf
<1>2. TotalOf(s) = f[n]
  BY Zenon DEF TotalOf
<1>3. g = [k \in 0 .. n |-> IF k = 0 THEN 0 ELSE g[k - 1] + s[k]]
  BY DEF SumsOf
<1> DEFINE T == {k \in 0 .. n : f[k] = g[k]}
<1>4. n \in Nat /\ 0 \in Nat /\ 0 <= n
  OBVIOUS
<1> HIDE DEF f, n
<1>5. 0 \in T
  BY <1>1, <1>3, <1>4
<1>6. ASSUME NEW k \in 0 .. n, k # 0, k - 1 \in T PROVE k \in T
  <2>1. k \in 0 .. n /\ k # 0
    BY <1>6
  <2>2. f[k] = f[k - 1] + s[k]
    BY <1>1, <2>1
  <2>3. g[k] = g[k - 1] + s[k]
    BY <1>3, <2>1
  <2> QED BY <1>6, <2>1, <2>2, <2>3
<1>7. 0 .. n \subseteq T
  <2> HIDE DEF T
  <2> QED BY <1>4, <1>5, <1>6, LoopInduction
<1>8. n \in T
  BY <1>4, <1>7
<1>9. f[n] = g[n]
  BY <1>8
<1> QED BY <1>2, <1>9 DEF n

LEMMA TotalIsInt ==
    ASSUME NEW s \in Seq(Int)
    PROVE  TotalOf(s) \in Int
<1> DEFINE n    == Len(s)
           step == [p \in (0 .. n) \X Int |-> IF p[1] = 0 THEN 0 ELSE p[2] + s[p[1]]]
<1>1. n \in Nat /\ 0 <= n /\ 0 \in Nat /\ 0 \in Int
  OBVIOUS
<1>2. step \in [(0 .. n) \X Int -> Int]
  OBVIOUS
<1>3. PICK g : g \in Records(0, n, Int, 0, step)
  <2>1. Records(0, n, Int, 0, step) # {}
    <3> HIDE DEF step, n
    <3> QED BY <1>1, <1>2, LoopExists, Zenon
  <2> QED BY <2>1
<1> USE <1>3 DEF Records
<1>4. ASSUME NEW k \in 0 .. n, k # 0 PROVE g[k] = g[k - 1] + s[k]
  <2>1. g[k - 1] \in Int
    BY <1>4
  <2>2. <<k, g[k - 1]>> \in (0 .. n) \X Int
    BY <2>1
  <2>3. step[<<k, g[k - 1]>>] = g[k - 1] + s[k]
    BY <1>4, <2>2
  <2> QED BY <1>3, <1>4, <2>3
<1> HIDE DEF step
<1>5. g = [k \in 0 .. n |-> IF k = 0 THEN 0 ELSE g[k - 1] + s[k]]
  <2>1. ASSUME NEW k \in 0 .. n PROVE g[k] = IF k = 0 THEN 0 ELSE g[k - 1] + s[k]
    <3>1. CASE k = 0
      BY <1>3, <3>1
    <3>2. CASE k # 0
      BY <1>4, <3>2
    <3> QED BY <3>1, <3>2
  <2> QED BY <2>1
<1>6. SumsOf(s, g)
  BY <1>5 DEF SumsOf
<1>7. TotalOf(s) = g[n]
  BY <1>6, TotalFound
<1> QED BY <1>7

LEMMA Division ==
    ASSUME NEW w \in Nat \ {0}, NEW a \in Nat,
           NEW q \in Int, NEW r \in Int, q = a \div w, r = a % w
    PROVE  a = w * q + r
OBVIOUS

LEMMA DivisionTypes ==
    ASSUME NEW w \in Nat \ {0}, NEW a \in Int
    PROVE  a \div w \in Int /\ a % w \in 0 .. w - 1
OBVIOUS

\* What Delta makes of two samples of the counter.
Grown(x, y) == IF y - x < 0 THEN (y - x) + Wrap ELSE y - x

\* The wrap is undone: a delta is what was counted between two samples, if
\* that is less than a turn of the counter.
LEMMA DeltaIsTrue ==
    ASSUME NEW a \in Nat, NEW b \in Nat, b - a \in 0 .. Wrap - 1
    PROVE  Grown(a % Wrap, b % Wrap) = b - a
<1>1. Wrap \in Nat \ {0}
  BY ToolsAssumption
<1> DEFINE p == a \div Wrap
           q == b \div Wrap
           x == a % Wrap
           y == b % Wrap
           turns == q - p
<1>2. /\ p \in Int /\ x \in 0 .. Wrap - 1 /\ a = Wrap * p + x
      /\ q \in Int /\ y \in 0 .. Wrap - 1 /\ b = Wrap * q + y
  <2>1. /\ p \in Int /\ x \in 0 .. Wrap - 1 /\ x \in Int /\ p = a \div Wrap /\ x = a % Wrap
        /\ q \in Int /\ y \in 0 .. Wrap - 1 /\ y \in Int /\ q = b \div Wrap /\ y = b % Wrap
    BY <1>1, DivisionTypes
  <2> HIDE DEF p, q, x, y
  <2>2. a = Wrap * p + x
    BY <1>1, <2>1, Division
  <2>3. b = Wrap * q + y
    BY <1>1, <2>1, Division
  <2> QED BY <2>1, <2>2, <2>3
<1>3. SUFFICES Grown(x, y) = b - a
  OBVIOUS
<1> HIDE DEF p, q, x, y
<1>4. turns \in Int /\ y - x = (b - a) - Wrap * turns
  BY <1>1, <1>2
<1> HIDE DEF turns
<1>5. CASE turns <= -1
  <2>1. Wrap * turns <= -Wrap
    BY <1>1, <1>4, <1>5
  <2> QED BY <1>1, <1>2, <1>4, <2>1
<1>6. CASE turns >= 2
  <2>1. Wrap * turns >= 2 * Wrap
    BY <1>1, <1>4, <1>6
  <2> QED BY <1>1, <1>2, <1>4, <2>1
<1>7. CASE turns = 0
  <2>1. y - x = b - a
    BY <1>1, <1>4, <1>7
  <2> QED BY <1>1, <1>2, <2>1 DEF Grown
<1>8. CASE turns = 1
  <2>1. y - x = (b - a) - Wrap
    BY <1>1, <1>4, <1>8
  <2> QED BY <1>1, <1>2, <2>1 DEF Grown
<1> QED BY <1>4, <1>5, <1>6, <1>7, <1>8

ReadingOK(r) ==
    r \in Seq(Nat) /\ \A k \in 2 .. Len(r) : r[k] - r[k - 1] \in 0 .. Wrap - 1

\* What rateQuery adds up.
ValuesOf(r) == [k \in DOMAIN r |-> r[k] % Wrap]
DeltasOf(r) == [k \in DOMAIN r |-> IF k = 1 THEN 0 ELSE Delta(ValuesOf(r), k)]

LEMMA DeltasAreTrue ==
    ASSUME NEW r, ReadingOK(r)
    PROVE  /\ DeltasOf(r) \in Seq(Int) /\ Len(DeltasOf(r)) = Len(r)
           /\ \A k \in 2 .. Len(r) : DeltasOf(r)[k] = r[k] - r[k - 1]
<1>1. r \in Seq(Nat) /\ DOMAIN r = 1 .. Len(r) /\ Len(r) \in Nat
  BY DEF ReadingOK
<1>2. ASSUME NEW k \in 2 .. Len(r) PROVE DeltasOf(r)[k] = r[k] - r[k - 1]
  <2>1. k \in DOMAIN r /\ k - 1 \in DOMAIN r /\ k # 1
    BY <1>1
  <2>2. r[k] \in Nat /\ r[k - 1] \in Nat /\ r[k] - r[k - 1] \in 0 .. Wrap - 1
    BY <1>1, <2>1 DEF ReadingOK
  <2>3. ValuesOf(r)[k] = r[k] % Wrap /\ ValuesOf(r)[k - 1] = r[k - 1] % Wrap
    BY <2>1 DEF ValuesOf
  <2>4. Delta(ValuesOf(r), k) = r[k] - r[k - 1]
    <3>1. Delta(ValuesOf(r), k) = Grown(r[k - 1] % Wrap, r[k] % Wrap)
      BY <2>3 DEF Delta, Grown
    <3> QED BY <2>2, <3>1, DeltaIsTrue
  <2> QED BY <2>1, <2>4 DEF DeltasOf
<1>3. ASSUME NEW k \in 1 .. Len(r) PROVE DeltasOf(r)[k] \in Int
  <2>1. CASE k = 1
    BY <1>1, <2>1 DEF DeltasOf
  <2>2. CASE k # 1
    <3>1. k \in 2 .. Len(r) /\ k - 1 \in 1 .. Len(r)
      BY <1>1, <2>2
    <3>2. r[k] \in Nat /\ r[k - 1] \in Nat
      BY <1>1, <3>1
    <3> QED BY <1>2, <3>1, <3>2
  <2> QED BY <2>1, <2>2
<1>4. DeltasOf(r) = [k \in 1 .. Len(r) |-> DeltasOf(r)[k]]
  BY <1>1 DEF DeltasOf
<1>5. DeltasOf(r) \in [1 .. Len(r) -> Int]
  BY <1>3, <1>4
<1>6. DeltasOf(r) \in Seq(Int) /\ Len(DeltasOf(r)) = Len(r)
  BY <1>1, <1>5
<1> QED BY <1>2, <1>6

\* The total of a counter's deltas is what was counted between the first and
\* the last sample.
LEMMA RateIsTrue ==
    ASSUME NEW r, ReadingOK(r), r # <<>>
    PROVE  rateQuery(r).total_bytes = r[Len(r)] - r[1]
<1> DEFINE n == Len(r)
           s == DeltasOf(r)
           g == [k \in 0 .. n |-> IF k = 0 THEN 0 ELSE r[k] - r[1]]
<1>1. r \in Seq(Nat) /\ n \in Nat /\ n # 0
  BY DEF ReadingOK
<1>2. s[1] = 0 /\ Len(s) = n /\ \A k \in 2 .. n : s[k] = r[k] - r[k - 1]
  <2>1. 1 \in DOMAIN r
    BY <1>1
  <2>2. s[1] = 0
    BY <2>1 DEF DeltasOf
  <2> QED BY <2>2, DeltasAreTrue
<1> HIDE DEF s
<1>3. ASSUME NEW k \in 0 .. n, k # 0 PROVE g[k] = g[k - 1] + s[k]
  <2>1. r[k] \in Nat /\ r[1] \in Nat
    BY <1>1, <1>3
  <2>2. CASE k = 1
    BY <1>1, <1>2, <2>1, <2>2
  <2>3. CASE k # 1
    <3>1. k \in 2 .. n /\ k - 1 \in 1 .. n /\ k - 1 # 0
      BY <1>1, <1>3, <2>3
    <3>2. r[k - 1] \in Nat /\ g[k] = r[k] - r[1] /\ g[k - 1] = r[k - 1] - r[1]
      BY <1>1, <1>3, <3>1
    <3> QED BY <1>2, <2>1, <3>1, <3>2
  <2> QED BY <2>2, <2>3
<1>4. SumsOf(s, g)
  <2>1. g[0] = 0 /\ g = [k \in 0 .. n |-> g[k]]
    BY <1>1
  <2> HIDE DEF g
  <2> QED BY <1>2, <1>3, <2>1 DEF SumsOf
<1>5. TotalOf(s) = g[n]
  BY <1>1, <1>2, <1>4, TotalFound
<1>6. rateQuery(r).total_bytes = TotalOf(s)
  BY DEF rateQuery, s, DeltasOf, ValuesOf
<1> QED BY <1>1, <1>5, <1>6

\* What a device is ranked by is a number.
LEMMA RankValueIsInt ==
    ASSUME NEW r, ReadingOK(r), NEW mc
    PROVE  RankValue(mc, r) \in Int
<1>1. r \in Seq(Nat) /\ r \in Seq(Int) /\ Len(r) \in Nat
  BY DEF ReadingOK
<1>2. rateQuery(r).total_bytes \in Int
  <2>1. rateQuery(r).total_bytes = TotalOf(DeltasOf(r))
    BY DEF rateQuery, DeltasOf, ValuesOf
  <2> QED BY <2>1, DeltasAreTrue, TotalIsInt
<1>3. ASSUME NEW a \in Int, NEW b \in Nat \ {0} PROVE (Unit * a) \div b \in Int
  BY DivisionTypes DEF Unit
<1>4. rateQuery(r).span_seconds \in Nat
  BY <1>1 DEF rateQuery
<1>5. Mean(r) \in Int
  <2>1. TotalOf(r) \in Int
    BY <1>1, TotalIsInt
  <2>2. CASE r = <<>>
    BY <2>2 DEF Mean
  <2>3. CASE r # <<>>
    <3>1. Len(r) \in Nat \ {0}
      BY <1>1, <2>3
    <3> QED BY <1>3, <2>1, <2>3, <3>1 DEF Mean
  <2> QED BY <2>2, <2>3
<1> QED BY <1>2, <1>3, <1>4, <1>5 DEF RankValue

-----------------------------------------------------------------------------
(***************************************************************************)
(* The sort.  Elements are taken from a set E whose members have a number  *)
(* as their value.                                                         *)
(***************************************************************************)
Valued(E) == \A x \in E : x.value \in Int

\* t is s with places i and j exchanged.
Swapped(s, t, i, j) ==
    /\ t[i] = s[j] /\ t[j] = s[i]
    /\ \A k \in DOMAIN s : k # i /\ k # j => t[k] = s[k]

\* An exchange loses nothing and invents nothing.
LEMMA SwapKeepsBag ==
    ASSUME NEW E, NEW s \in Seq(E), NEW t \in Seq(E), Len(t) = Len(s),
           NEW i \in 1 .. Len(s), NEW j \in 1 .. Len(s), Swapped(s, t, i, j)
    PROVE  ToBag(t) = ToBag(s)
<1> DEFINE D == 1 .. Len(s)
           other(k) == IF k = i THEN j ELSE IF k = j THEN i ELSE k
<1>1. DOMAIN s = D /\ DOMAIN t = D /\ i \in D /\ j \in D /\ IsFiniteSet(D)
  BY FS_Interval
<1>2. ASSUME NEW k \in D
      PROVE  other(k) \in D /\ other(other(k)) = k /\ t[other(k)] = s[k] /\ s[other(k)] = t[k]
  BY <1>1 DEF Swapped
<1> HIDE DEF D, other
<1>3. Range(t) = Range(s)
  <2>1. ASSUME NEW k \in D PROVE s[k] \in Range(t) /\ t[k] \in Range(s)
    BY <1>1, <1>2 DEF Range
  <2> QED BY <1>1, <2>1 DEF Range
<1>4. ASSUME NEW x
      PROVE  Cardinality({k \in D : t[k] = x}) = Cardinality({k \in D : s[k] = x})
  <2> DEFINE A == {k \in D : s[k] = x}
             B == {k \in D : t[k] = x}
             f == [k \in A |-> other(k)]
  <2>1. IsFiniteSet(A)
    BY <1>1, FS_Subset
  <2>2. f \in [A -> B]
    BY <1>2
  <2>3. \A k, m \in A : f[k] = f[m] => k = m
    BY <1>2
  <2>4. ASSUME NEW k \in B PROVE \E m \in A : f[m] = k
    <3>1. other(k) \in A
      BY <1>2
    <3>2. f[other(k)] = k
      BY <1>2, <3>1
    <3> QED BY <3>1, <3>2
  <2>5. f \in Bijection(A, B)
    BY <2>2, <2>3, <2>4 DEF Bijection, Injection, Surjection, IsInjective
  <2>6. ExistsBijection(A, B)
    BY <2>5 DEF ExistsBijection
  <2> HIDE DEF A, B
  <2>7. Cardinality(B) = Cardinality(A)
    BY <2>1, <2>6, FS_Bijection
  <2> QED BY <2>7 DEF A, B
<1> QED BY <1>1, <1>3, <1>4 DEF ToBag

LEMMA ExchangeResult ==
    ASSUME NEW E, Valued(E), NEW s \in Seq(E),
           NEW i \in 1 .. Len(s), NEW j \in 1 .. Len(s), i # j
    PROVE  LET t == Exchange(s, i, j)
           IN  /\ t \in Seq(E) /\ Len(t) = Len(s) /\ ToBag(t) = ToBag(s)
               /\ Swapped(s, t, i, j) \/ t = s
               /\ t[i].value >= s[i].value /\ t[i].value >= t[j].value
<1> DEFINE t == Exchange(s, i, j)
<1>1. s[i] \in E /\ s[j] \in E /\ s[i].value \in Int /\ s[j].value \in Int
  BY DEF Valued
<1>2. CASE s[j].value > s[i].value
  <2>1. t = [s EXCEPT ![i] = s[j], ![j] = s[i]]
    BY <1>2 DEF Exchange
  <2>2. t \in Seq(E) /\ Len(t) = Len(s)
    BY <1>1, <2>1
  <2>3. Swapped(s, t, i, j)
    BY <2>1 DEF Swapped
  <2>4. ToBag(t) = ToBag(s)
    <3> HIDE DEF t
    <3> QED BY <2>2, <2>3, SwapKeepsBag
  <2> HIDE DEF t
  <2>5. t[i].value >= s[i].value /\ t[i].value >= t[j].value
    BY <1>1, <1>2, <2>3 DEF Swapped
  <2> QED BY <2>2, <2>3, <2>4, <2>5 DEF t
<1>3. CASE ~(s[j].value > s[i].value)
  <2>1. t = s
    BY <1>3 DEF Exchange
  <2> HIDE DEF t
  <2>2. t[i].value >= s[i].value /\ t[i].value >= t[j].value
    BY <1>1, <1>3, <2>1
  <2> QED BY <2>1, <2>2 DEF t
<1> QED BY <1>2, <1>3

\* After turns i + 1 .. j of the inner loop, s has become t: place i holds
\* the largest of i .. j, what is before it stands as it was, and what is at
\* or behind it was there before.
PassInv(E, s, i, j, t) ==
    /\ t \in Seq(E) /\ Len(t) = Len(s) /\ ToBag(t) = ToBag(s)
    /\ \A k \in 1 .. i - 1 : t[k] = s[k]
    /\ \A k \in i .. Len(s) : \E m \in i .. Len(s) : t[k] = s[m]
    /\ \A k \in i .. j : t[i].value >= t[k].value

LEMMA PassTurn ==
    ASSUME NEW E, Valued(E), NEW s \in Seq(E), NEW i \in 1 .. Len(s),
           NEW j \in i .. Len(s), j # i, NEW t, PassInv(E, s, i, j - 1, t)
    PROVE  PassInv(E, s, i, j, Exchange(t, i, j))
<1> DEFINE n == Len(s)
           u == Exchange(t, i, j)
<1>1. /\ t \in Seq(E) /\ Len(t) = n /\ ToBag(t) = ToBag(s)
      /\ n \in Nat /\ i \in 1 .. n /\ j \in 1 .. n /\ i < j
  BY DEF PassInv
<1>2. /\ u \in Seq(E) /\ Len(u) = n /\ ToBag(u) = ToBag(s)
      /\ Swapped(t, u, i, j) \/ u = t
      /\ u[i].value >= t[i].value /\ u[i].value >= u[j].value
  BY <1>1, ExchangeResult
<1> HIDE DEF u, n
<1>3. \A k \in 1 .. n : k # i /\ k # j => u[k] = t[k]
  BY <1>1, <1>2 DEF Swapped
<1>4. \A k \in 1 .. n : t[k].value \in Int /\ u[k].value \in Int
  BY <1>1, <1>2 DEF Valued
<1>5. \A k \in 1 .. i - 1 : u[k] = s[k]
  BY <1>1, <1>3 DEF PassInv
<1>6. ASSUME NEW k \in i .. n PROVE \E m \in i .. n : u[k] = s[m]
  <2>1. \E l \in i .. n : u[k] = t[l]
    <3>1. i \in i .. n /\ j \in i .. n /\ k \in 1 .. n
      BY <1>1
    <3> QED BY <1>2, <1>3, <3>1 DEF Swapped
  <2> QED BY <2>1 DEF PassInv, n
<1>7. ASSUME NEW k \in i .. j PROVE u[i].value >= u[k].value
  <2>1. k \in 1 .. n
    BY <1>1
  <2>2. CASE k = j
    BY <1>2, <2>2
  <2>3. CASE k = i
    BY <1>1, <1>4, <2>3
  <2>4. CASE k # i /\ k # j
    <3>1. k \in i .. j - 1
      BY <1>1, <2>4
    <3>2. t[i].value >= t[k].value /\ u[k] = t[k]
      BY <1>3, <2>1, <2>4, <3>1 DEF PassInv
    <3> QED BY <1>1, <1>2, <1>4, <2>1, <3>2
  <2> QED BY <2>2, <2>3, <2>4
<1> QED BY <1>2, <1>5, <1>6, <1>7 DEF PassInv, u, n

LEMMA PassResult ==
    ASSUME NEW E, Valued(E), NEW s \in Seq(E), NEW i \in 1 .. Len(s)
    PROVE  PassInv(E, s, i, Len(s), Pass(s, i))
<1> DEFINE n    == Len(s)
           S    == {t \in Seq(E) : Len(t) = n}
           step == [p \in (i .. n) \X S |-> IF p[1] = i THEN p[2] ELSE Exchange(p[2], i, p[1])]
<1>1. i \in Nat /\ n \in Nat /\ i <= n /\ s \in S /\ i \in 1 .. n
  OBVIOUS
<1>2. step \in [(i .. n) \X S -> S]
  <2>1. ASSUME NEW k \in i .. n, NEW t \in S, k # i PROVE Exchange(t, i, k) \in S
    <3>1. k \in 1 .. Len(t) /\ i \in 1 .. Len(t) /\ t \in Seq(E) /\ Len(t) = n
      BY <1>1
    <3> QED BY <2>1, <3>1, ExchangeResult
  <2> HIDE DEF S, n
  <2> QED BY <2>1
<1>3. PICK g : g \in Records(i, n, S, s, step)
  <2>1. Records(i, n, S, s, step) # {}
    <3> HIDE DEF step, n, S
    <3> QED BY <1>1, <1>2, LoopExists, Zenon
  <2> QED BY <2>1
<1>4. g = [j \in i .. n |-> IF j = i THEN s ELSE Exchange(g[j - 1], i, j)]
  <2> HIDE DEF S, n
  <2>1. g \in [i .. n -> S] /\ g[i] = s
    BY <1>3 DEF Records
  <2>2. ASSUME NEW j \in i .. n, j # i PROVE g[j] = Exchange(g[j - 1], i, j)
    <3>1. g[j] = step[<<j, g[j - 1]>>]
      BY <1>3, <2>2 DEF Records
    <3>2. <<j, g[j - 1]>> \in (i .. n) \X S
      BY <1>1, <2>1, <2>2
    <3> QED BY <2>2, <3>1, <3>2
  <2> HIDE DEF step
  <2> QED BY <2>1, <2>2
<1> DEFINE f == CHOOSE f : f = [j \in i .. Len(s) |-> IF j = i THEN s ELSE Exchange(f[j - 1], i, j)]
<1>5. f = [j \in i .. n |-> IF j = i THEN s ELSE Exchange(f[j - 1], i, j)]
  <2> HIDE DEF step, S
  <2> QED BY <1>4, Zenon
<1>6. Pass(s, i) = f[n]
  BY Zenon DEF Pass
<1> HIDE DEF step, S, f
<1> DEFINE T == {j \in i .. n : PassInv(E, s, i, j, f[j])}
<1>7. i \in T
  <2>1. f[i] = s /\ i \in i .. n
    BY <1>1, <1>5
  <2>2. s[i].value \in Int
    BY <1>1 DEF Valued
  <2>3. PassInv(E, s, i, i, s)
    BY <1>1, <2>2 DEF PassInv
  <2> QED BY <2>1, <2>3
<1>8. ASSUME NEW j \in i .. n, j # i, j - 1 \in T PROVE j \in T
  <2>1. f[j] = Exchange(f[j - 1], i, j)
    BY <1>5, <1>8
  <2>2. PassInv(E, s, i, j - 1, f[j - 1])
    BY <1>8
  <2>3. PassInv(E, s, i, j, f[j])
    BY <1>8, <2>1, <2>2, PassTurn
  <2> QED BY <2>3
<1>9. i .. n \subseteq T
  <2> HIDE DEF T, n
  <2> QED BY <1>1, <1>7, <1>8, LoopInduction, Zenon
<1>10. PassInv(E, s, i, n, f[n])
  <2>1. n \in i .. n
    BY <1>1
  <2> HIDE DEF n
  <2> QED BY <1>9, <2>1
<1> QED BY <1>6, <1>10

\* After i turns of the outer loop, s has become t: nothing behind one of the
\* first i places is larger than what stands there.
SortInv(E, s, i, t) ==
    /\ t \in Seq(E) /\ Len(t) = Len(s) /\ ToBag(t) = ToBag(s)
    /\ \A k \in 1 .. i : \A m \in k .. Len(s) : t[k].value >= t[m].value

LEMMA SortTurn ==
    ASSUME NEW E, Valued(E), NEW s \in Seq(E), NEW i \in 1 .. Len(s),
           NEW t, SortInv(E, s, i - 1, t)
    PROVE  SortInv(E, s, i, Pass(t, i))
<1> DEFINE n == Len(s)
           u == Pass(t, i)
<1>1. /\ t \in Seq(E) /\ Len(t) = n /\ ToBag(t) = ToBag(s)
      /\ n \in Nat /\ i \in 1 .. n
  BY DEF SortInv
<1>2. PassInv(E, t, i, n, u)
  BY <1>1, PassResult
<1> HIDE DEF u, n
<1>3. u \in Seq(E) /\ Len(u) = n /\ ToBag(u) = ToBag(s)
  BY <1>1, <1>2 DEF PassInv
<1>4. ASSUME NEW k \in 1 .. i, NEW m \in k .. n PROVE u[k].value >= u[m].value
  <2>1. CASE k = i
    BY <1>2, <2>1 DEF PassInv
  <2>2. CASE k # i /\ m < i
    <3>1. k \in 1 .. i - 1 /\ m \in 1 .. i - 1
      BY <1>1, <2>2
    <3>2. u[k] = t[k] /\ u[m] = t[m]
      BY <1>2, <3>1 DEF PassInv
    <3> QED BY <3>1, <3>2 DEF SortInv, n
  <2>3. CASE k # i /\ m >= i
    <3>1. k \in 1 .. i - 1 /\ m \in i .. n
      BY <1>1, <2>3
    <3>2. u[k] = t[k]
      BY <1>2, <3>1 DEF PassInv
    <3>3. PICK l \in i .. n : u[m] = t[l]
      BY <1>1, <1>2, <3>1 DEF PassInv
    <3>4. l \in k .. n
      BY <1>1, <3>1
    <3> QED BY <3>1, <3>2, <3>3, <3>4 DEF SortInv, n
  <2> QED BY <1>1, <2>1, <2>2, <2>3
<1> QED BY <1>3, <1>4 DEF SortInv, u, n

\* The ranking is what was found, largest value first.
LEMMA SortResult ==
    ASSUME NEW E, Valued(E), NEW s \in Seq(E)
    PROVE  /\ ToBag(sortResults(s)) = ToBag(s)
           /\ IsSorted(sortResults(s), LAMBDA a, b : a.value >= b.value)
<1> DEFINE n    == Len(s)
           S    == {t \in Seq(E) : Len(t) = n}
           step == [p \in (0 .. n) \X S |-> IF p[1] = 0 THEN p[2] ELSE Pass(p[2], p[1])]
<1>1. 0 \in Nat /\ n \in Nat /\ 0 <= n /\ s \in S
  OBVIOUS
<1>2. step \in [(0 .. n) \X S -> S]
  <2>1. ASSUME NEW k \in 0 .. n, NEW t \in S, k # 0 PROVE Pass(t, k) \in S
    <3>1. k \in 1 .. Len(t) /\ t \in Seq(E) /\ Len(t) = n
      BY <1>1, <2>1
    <3>2. PassInv(E, t, k, Len(t), Pass(t, k))
      BY <3>1, PassResult
    <3> QED BY <3>1, <3>2 DEF PassInv
  <2> HIDE DEF S, n
  <2> QED BY <2>1
<1>3. PICK g : g \in Records(0, n, S, s, step)
  <2>1. Records(0, n, S, s, step) # {}
    <3> HIDE DEF step, n, S
    <3> QED BY <1>1, <1>2, LoopExists, Zenon
  <2> QED BY <2>1
<1>4. g = [i \in 0 .. n |-> IF i = 0 THEN s ELSE Pass(g[i - 1], i)]
  <2> HIDE DEF S, n
  <2>1. g \in [0 .. n -> S] /\ g[0] = s
    BY <1>3 DEF Records
  <2>2. ASSUME NEW i \in 0 .. n, i # 0 PROVE g[i] = Pass(g[i - 1], i)
    <3>1. g[i] = step[<<i, g[i - 1]>>]
      BY <1>3, <2>2 DEF Records
    <3>2. <<i, g[i - 1]>> \in (0 .. n) \X S
      BY <1>1, <2>1, <2>2
    <3> QED BY <2>2, <3>1, <3>2
  <2> HIDE DEF step
  <2> QED BY <2>1, <2>2
<1> DEFINE f == CHOOSE f : f = [i \in 0 .. Len(s) |-> IF i = 0 THEN s ELSE Pass(f[i - 1], i)]
<1>5. f = [i \in 0 .. n |-> IF i = 0 THEN s ELSE Pass(f[i - 1], i)]
  <2> HIDE DEF step, S
  <2> QED BY <1>4, Zenon
<1>6. sortResults(s) = f[n]
  BY Zenon DEF sortResults
<1> HIDE DEF step, S, f
<1> DEFINE T == {i \in 0 .. n : SortInv(E, s, i, f[i])}
<1>7. 0 \in T
  <2>1. f[0] = s /\ 0 \in 0 .. n
    BY <1>1, <1>5
  <2>2. SortInv(E, s, 0, s)
    BY DEF SortInv
  <2> QED BY <2>1, <2>2
<1>8. ASSUME NEW i \in 0 .. n, i # 0, i - 1 \in T PROVE i \in T
  <2>1. f[i] = Pass(f[i - 1], i) /\ i \in 1 .. n
    BY <1>1, <1>5, <1>8
  <2>2. SortInv(E, s, i - 1, f[i - 1])
    BY <1>8
  <2>3. SortInv(E, s, i, f[i])
    BY <2>1, <2>2, SortTurn
  <2> QED BY <2>3
<1>9. 0 .. n \subseteq T
  <2> HIDE DEF T, n
  <2> QED BY <1>1, <1>7, <1>8, LoopInduction, Zenon
<1>10. SortInv(E, s, n, f[n])
  <2>1. n \in 0 .. n
    BY <1>1
  <2> HIDE DEF n
  <2> QED BY <1>9, <2>1
<1> QED BY <1>1, <1>6, <1>10 DEF SortInv, IsSorted
=============================================================================
