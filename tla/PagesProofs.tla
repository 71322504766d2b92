----------------------------- MODULE PagesProofs -----------------------------
(***************************************************************************)
(* Proofs about the two stages of a run that work on the numbers of its    *)
(* pages: PageNumbers, for imports of any length and any numbers, and      *)
(* SourceMap, for any scan and any contents.                               *)
(***************************************************************************)
EXTENDS PageNumbers, SourceMap, Integers, WellFoundedInduction, TLAPS

\* f is a numbering of some of the pages.
Numbering(f) ==
    /\ f = [p \in DOMAIN f |-> f[p]]
    /\ DOMAIN f \subseteq Pos
    /\ \A p \in DOMAIN f : f[p] \in Nat

\* f with its estimates.
Filled(f) == Over(f, Estimates(f))

LEMMA PosIsNat == \A p \in Pos : p \in Nat /\ p >= 1
BY PageNumbersAssumption DEF Pos

-----------------------------------------------------------------------------
(* Arithmetic                                                              *)

LEMMA Division ==
    ASSUME NEW x \in Nat, NEW s \in Nat, s > 0
    PROVE  /\ x \div s \in Nat
           /\ s * (x \div s) <= x
           /\ x < s * (x \div s) + s
BY Z3

\* A quotient is known by its bounds.
LEMMA Quotient ==
    ASSUME NEW x \in Nat, NEW s \in Nat, s > 0, NEW q \in Nat,
           s * q <= x, x < s * q + s
    PROVE  x \div s = q
<1>1. x \div s \in Nat /\ s * (x \div s) <= x /\ x < s * (x \div s) + s
  BY Division
<1>2. ASSUME NEW a \in Nat, NEW b \in Nat, s * a <= x, x < s * b + s
      PROVE  a <= b
  <2> SUFFICES ASSUME a >= b + 1 PROVE FALSE
    BY <1>2
  <2>1. s * a >= s * (b + 1)
    BY <1>2, SMT
  <2>2. s * (b + 1) = s * b + s
    BY SMT
  <2> QED
    BY <1>2, <2>1, <2>2
<1> QED
  BY <1>1, <1>2

\* A step adds at least a whole part of the distance, at most five.
LEMMA QuotientStep ==
    ASSUME NEW x \in Nat, NEW s \in Nat, s > 0, NEW d \in Nat, s <= d, d <= 4 * s
    PROVE  /\ x \div s < (x + d) \div s
           /\ (x + d) \div s <= x \div s + 5
<1> DEFINE q == x \div s
           r == (x + d) \div s
<1>1. q \in Nat /\ s * q <= x /\ x < s * q + s
  BY Division
<1>2. r \in Nat /\ s * r <= x + d /\ x + d < s * r + s
  BY Division
<1> HIDE DEF q, r
<1>3. s * (q + 1) = s * q + s /\ s * (q + 6) = s * q + 6 * s /\ s * (r + 1) = s * r + s
  BY <1>1, <1>2, SMT
<1>4. s * (q + 1) < s * (r + 1)
  BY <1>1, <1>2, <1>3
<1>5. s * r < s * (q + 6)
  <2>1. s * r <= x + 4 * s
    BY <1>1, <1>2
  <2> QED
    BY <1>1, <1>2, <1>3, <2>1
<1>6. q < r
  <2> SUFFICES ASSUME r + 1 <= q + 1 PROVE FALSE
    BY <1>1, <1>2
  <2>1. s * (r + 1) <= s * (q + 1)
    BY <1>1, <1>2, SMT
  <2> QED
    BY <1>1, <1>2, <1>4, <2>1
<1>7. r < q + 6
  <2> SUFFICES ASSUME q + 6 <= r PROVE FALSE
    BY <1>1, <1>2
  <2>1. s * (q + 6) <= s * r
    BY <1>1, <1>2, SMT
  <2> QED
    BY <1>1, <1>2, <1>5, <2>1
<1> QED
  BY <1>1, <1>2, <1>6, <1>7 DEF q, r

\* Estimates climb by one to five from page to page, from anchor to anchor.
LEMMA EstimateStep ==
    ASSUME NEW f, Numbering(f), NEW i, NEW j, Anchors(f, i, j), NEW p \in i .. j - 1
    PROVE  /\ Estimate(f, i, j, p) \in Nat
           /\ Estimate(f, i, j, p) < Estimate(f, i, j, p + 1)
           /\ Estimate(f, i, j, p + 1) <= Estimate(f, i, j, p) + 5
           /\ Estimate(f, i, j, i) = f[i]
           /\ Estimate(f, i, j, j) = f[j]
<1> DEFINE s == j - i
           d == f[j] - f[i]
           x == d * (p - i) + s \div 2
<1>1. /\ i \in Nat /\ j \in Nat /\ i < j
      /\ f[i] \in Nat /\ f[j] \in Nat /\ f[i] <= f[j]
      /\ s \in Nat /\ s > 0 /\ d \in Nat /\ s <= d /\ d <= 4 * s
  BY PosIsNat DEF Anchors, Follows, Numbering
<1>2. s \div 2 \in Nat /\ s \div 2 < s
  BY <1>1
<1>3. p \in Nat /\ p - i \in Nat
  BY <1>1
<1>4. x \in Nat /\ d * (p - i) \in Nat
  <2>1. d * (p - i) \in Nat
    BY <1>1, <1>3, SMT
  <2> QED
    BY <1>2, <2>1
<1>5. d * ((p + 1) - i) = d * (p - i) + d
  BY <1>1, <1>3, SMT
<1>6. Estimate(f, i, j, p) = f[i] + x \div s
  BY DEF Estimate
<1>7. Estimate(f, i, j, p + 1) = f[i] + (x + d) \div s
  <2>1. d * ((p + 1) - i) + s \div 2 = x + d
    BY <1>1, <1>2, <1>4, <1>5
  <2> QED
    BY <2>1 DEF Estimate
<1>8. Estimate(f, i, j, i) = f[i]
  <2>1. d * (i - i) + s \div 2 = s \div 2
    BY <1>1, <1>2
  <2>2. (s \div 2) \div s = 0
    BY <1>1, <1>2, Quotient
  <2>3. Estimate(f, i, j, i) = f[i] + (d * (i - i) + s \div 2) \div s
    BY DEF Estimate
  <2>4. Estimate(f, i, j, i) = f[i] + (s \div 2) \div s
    BY <2>1, <2>3, Zenon
  <2>5. Estimate(f, i, j, i) = f[i] + 0
    BY <2>2, <2>4, Zenon
  <2> QED
    BY <1>1, <2>5
<1>9. Estimate(f, i, j, j) = f[j]
  <2>1. s * d \in Nat /\ d * s = s * d
    BY <1>1, SMT
  <2>2. (d * s + s \div 2) \div s = d
    BY <1>1, <1>2, <2>1, Quotient
  <2>3. Estimate(f, i, j, j) = f[i] + (d * s + s \div 2) \div s
    BY DEF Estimate
  <2> QED
    BY <1>1, <2>2, <2>3
<1> HIDE DEF s, d, x
<1>10. x \div s \in Nat /\ x \div s < (x + d) \div s /\ (x + d) \div s <= x \div s + 5
       /\ (x + d) \div s \in Nat
  BY <1>1, <1>4, QuotientStep, Division
<1> QED
  BY <1>1, <1>6, <1>7, <1>8, <1>9, <1>10

-----------------------------------------------------------------------------
(* Gaps                                                                    *)

\* Two gaps that share a position are one gap.
LEMMA OneGap ==
    ASSUME NEW f, Numbering(f), NEW i, NEW j, NEW a, NEW b, NEW p \in Int,
           Follows(f, i, j), Follows(f, a, b), i < p, p < j, a < p, p < b
    PROVE  a = i /\ b = j
BY PosIsNat DEF Follows, Numbering

LEMMA GapEstimates ==
    ASSUME NEW f, Numbering(f), NEW i, NEW j, Anchors(f, i, j), NEW p \in i + 1 .. j - 1
    PROVE  /\ p \notin DOMAIN f
           /\ p \in DOMAIN Filled(f)
           /\ Filled(f)[p] = Estimate(f, i, j, p)
<1>1. i \in Pos /\ j \in Pos /\ i \in Nat /\ j \in Nat /\ i < j /\ i < p /\ p < j
  BY PosIsNat DEF Anchors, Follows, Numbering
<1>2. p \in Pos
  BY <1>1, PageNumbersAssumption DEF Pos
<1>3. p \notin DOMAIN f
  BY <1>1, PosIsNat DEF Anchors, Follows, Numbering
<1>4. Around(f, p) = {<<i, j>>}
  <2>1. <<i, j>> \in Around(f, p)
    BY <1>1 DEF Around, Anchors, Follows
  <2>2. ASSUME NEW a \in Around(f, p) PROVE a = <<i, j>>
    <3>1. a[1] < p /\ p < a[2] /\ Follows(f, a[1], a[2]) /\ a = <<a[1], a[2]>>
      BY <2>2 DEF Around, Anchors
    <3>2. a[1] = i /\ a[2] = j
      BY <1>1, <3>1, OneGap DEF Anchors
    <3> QED
      BY <3>1, <3>2
  <2> QED
    BY <2>1, <2>2
<1>5. p \in DOMAIN Estimates(f) /\ Estimates(f)[p] = Estimate(f, i, j, p)
  <2>1. (CHOOSE b \in Around(f, p) : TRUE) = <<i, j>>
    BY <1>4
  <2> QED
    BY <1>2, <1>4, <2>1 DEF Estimates
<1> QED
  BY <1>3, <1>5 DEF Filled, Over

\* Outside the gaps nothing changes.
LEMMA FilledKeeps ==
    ASSUME NEW f, Numbering(f)
    PROVE  /\ DOMAIN f \subseteq DOMAIN Filled(f)
           /\ \A p \in DOMAIN f : Filled(f)[p] = f[p]
           /\ \A p \in DOMAIN Filled(f) \ DOMAIN f :
                 \E i, j \in DOMAIN f : Anchors(f, i, j) /\ p \in i + 1 .. j - 1
<1>1. \A p \in DOMAIN Estimates(f) :
         \E i, j \in DOMAIN f : Anchors(f, i, j) /\ p \in i + 1 .. j - 1
  <2> TAKE p \in DOMAIN Estimates(f)
  <2>1. p \in Pos /\ Around(f, p) # {}
    BY DEF Estimates
  <2>2. PICK a \in Around(f, p) : TRUE
    BY <2>1
  <2>3. a[1] \in DOMAIN f /\ a[2] \in DOMAIN f /\ a[1] < p /\ p < a[2] /\ Anchors(f, a[1], a[2])
    BY <2>2 DEF Around
  <2>4. p \in a[1] + 1 .. a[2] - 1
    BY <2>1, <2>3, PosIsNat DEF Numbering
  <2> QED
    BY <2>3, <2>4
<1> QED
  BY <1>1 DEF Filled, Over

\* The numbers of a filled gap, its ends included, climb by one to five.
LEMMA GapClimbs ==
    ASSUME NEW f, Numbering(f), NEW i, NEW j, Anchors(f, i, j), NEW p \in i .. j - 1
    PROVE  /\ p \in DOMAIN Filled(f) /\ p + 1 \in DOMAIN Filled(f)
           /\ Filled(f)[p] \in Nat /\ Filled(f)[p + 1] \in Nat
           /\ Filled(f)[p] < Filled(f)[p + 1]
           /\ Filled(f)[p + 1] <= Filled(f)[p] + 5
<1>1. i \in DOMAIN f /\ j \in DOMAIN f /\ i \in Nat /\ j \in Nat /\ i < j /\ p \in Nat
  BY PosIsNat DEF Anchors, Follows, Numbering
<1>2. \A q \in i .. j : q \in DOMAIN Filled(f) /\ Filled(f)[q] = Estimate(f, i, j, q)
  <2> TAKE q \in i .. j
  <2>1. CASE q = i \/ q = j
    <3>1. i \in i .. j - 1
      BY <1>1
    <3>2. Estimate(f, i, j, i) = f[i] /\ Estimate(f, i, j, j) = f[j]
      BY <3>1, EstimateStep
    <3> QED
      BY <1>1, <2>1, <3>2, FilledKeeps
  <2>2. CASE q \in i + 1 .. j - 1
    BY <2>2, GapEstimates
  <2> QED
    BY <1>1, <2>1, <2>2
<1>3. p \in i .. j /\ p + 1 \in i .. j
  BY <1>1
<1>4. /\ Estimate(f, i, j, p) \in Nat
      /\ Estimate(f, i, j, p) < Estimate(f, i, j, p + 1)
      /\ Estimate(f, i, j, p + 1) <= Estimate(f, i, j, p) + 5
  BY EstimateStep
<1>5. Estimate(f, i, j, p + 1) \in Nat
  <2>1. CASE p + 1 = j
    <3>1. Estimate(f, i, j, j) = f[j]
      BY EstimateStep
    <3> QED
      BY <1>1, <2>1, <3>1 DEF Numbering
  <2>2. CASE p + 1 # j
    <3>1. p + 1 \in i .. j - 1
      BY <1>1, <2>2
    <3> QED
      BY <3>1, EstimateStep
  <2> QED
    BY <2>1, <2>2
<1> QED
  BY <1>2, <1>3, <1>4, <1>5

\* Estimates are rejected by nobody and get nobody rejected.
LEMMA EstimatesAreQuiet ==
    ASSUME NEW f, Numbering(f)
    PROVE  Rejected(Filled(f)) = Rejected(f)
<1> DEFINE v == Filled(f)
<1> HIDE DEF v
<1>0. /\ DOMAIN f \subseteq DOMAIN v /\ \A p \in DOMAIN f : v[p] = f[p]
      /\ \A p \in DOMAIN v \ DOMAIN f :
            \E i, j \in DOMAIN f : Anchors(f, i, j) /\ p \in i + 1 .. j - 1
      /\ DOMAIN f \subseteq Int
  BY FilledKeeps, PosIsNat DEF v, Numbering
<1>1. ASSUME NEW a, NEW b, Anchors(f, a, b), NEW p \in a .. b - 1
      PROVE  /\ p \in DOMAIN v /\ p + 1 \in DOMAIN v /\ v[p] \in Nat /\ v[p + 1] \in Nat
             /\ ~Implausible(v[p], v[p + 1], (p + 1) - p)
  BY <1>1, GapClimbs DEF v, Implausible
<1>2. ASSUME NEW i, NEW j, Follows(v, i, j), Implausible(v[i], v[j], j - i)
      PROVE  Follows(f, i, j) /\ Implausible(f[i], f[j], j - i)
  <2>1. ASSUME NEW a \in DOMAIN f, NEW b \in DOMAIN f, Anchors(f, a, b),
               i \in a .. b - 1 \/ j \in a + 1 .. b, i \in Int, j \in Int
        PROVE  FALSE
    <3>0. a \in Int /\ b \in Int
      BY <1>0
    <3>1. CASE i \in a .. b - 1
      <4>1. i + 1 \in DOMAIN v /\ ~Implausible(v[i], v[i + 1], (i + 1) - i)
        BY <1>1, <2>1, <3>1
      <4>2. j = i + 1
        BY <1>2, <2>1, <4>1 DEF Follows
      <4> QED
        BY <1>2, <4>1, <4>2
    <3>2. CASE j \in a + 1 .. b
      <4>1. j - 1 \in a .. b - 1 /\ (j - 1) + 1 = j
        BY <2>1, <3>0, <3>2
      <4>2. j - 1 \in DOMAIN v /\ ~Implausible(v[j - 1], v[j], j - (j - 1))
        BY <1>1, <2>1, <4>1
      <4>3. i = j - 1
        BY <1>2, <2>1, <4>2 DEF Follows
      <4> QED
        BY <1>2, <4>2, <4>3
    <3> QED
      BY <2>1, <3>1, <3>2
  <2>2. i \in DOMAIN v /\ j \in DOMAIN v
    BY <1>2 DEF Follows
  <2>3. i \in Int /\ j \in Int
    BY <1>0, <2>2
  <2>4. i \in DOMAIN f
    <3> SUFFICES ASSUME i \notin DOMAIN f PROVE FALSE
      OBVIOUS
    <3>1. PICK a, b \in DOMAIN f : Anchors(f, a, b) /\ i \in a + 1 .. b - 1
      BY <1>0, <2>2
    <3>2. i \in a .. b - 1
      BY <1>0, <3>1
    <3> QED
      BY <2>1, <2>3, <3>1, <3>2
  <2>5. j \in DOMAIN f
    <3> SUFFICES ASSUME j \notin DOMAIN f PROVE FALSE
      OBVIOUS
    <3>1. PICK a, b \in DOMAIN f : Anchors(f, a, b) /\ j \in a + 1 .. b - 1
      BY <1>0, <2>2
    <3>2. j \in a + 1 .. b
      BY <1>0, <3>1
    <3> QED
      BY <2>1, <2>3, <3>1, <3>2
  <2> QED
    BY <1>0, <1>2, <2>4, <2>5 DEF Follows
<1>3. ASSUME NEW i, NEW j, Follows(f, i, j), Implausible(f[i], f[j], j - i)
      PROVE  Follows(v, i, j) /\ Implausible(v[i], v[j], j - i)
  <2>0. i \in DOMAIN f /\ j \in DOMAIN f /\ i \in Int /\ j \in Int /\ i < j
    BY <1>0, <1>3 DEF Follows
  <2>1. ~Anchors(f, i, j)
    BY <1>3, PosIsNat DEF Anchors, Implausible, Follows, Numbering
  <2>2. ASSUME NEW k \in DOMAIN v, i < k, k < j PROVE FALSE
    <3>1. CASE k \in DOMAIN f
      BY <1>0, <1>3, <2>0, <2>2, <3>1 DEF Follows
    <3>2. CASE k \notin DOMAIN f
      <4>1. PICK a, b \in DOMAIN f : Anchors(f, a, b) /\ k \in a + 1 .. b - 1
        BY <1>0, <3>2
      <4>2. k \in Int /\ a < k /\ k < b /\ Follows(f, a, b)
        BY <1>0, <4>1 DEF Anchors
      <4>3. a = i /\ b = j
        BY <1>3, <2>2, <4>2, OneGap
      <4> QED
        BY <2>1, <4>1, <4>3
    <3> QED
      BY <3>1, <3>2
  <2>3. \A k \in DOMAIN v : k \in Int
    BY <1>0
  <2>4. Follows(v, i, j)
    BY <1>0, <2>0, <2>2, <2>3 DEF Follows
  <2> QED
    BY <1>0, <1>3, <2>0, <2>4
<1>4. Rejected(v) \subseteq Rejected(f)
  BY <1>2 DEF Rejected, Follows
<1>5. Rejected(f) \subseteq Rejected(v)
  BY <1>3 DEF Rejected, Follows
<1> QED
  BY <1>4, <1>5 DEF v

-----------------------------------------------------------------------------
(* What holds of every behaviour                                           *)

LEMMA KeptIsNumbering ==
    ASSUME TypeOK
    PROVE  Numbering(Kept(number)) /\ Validate(number) = Filled(Kept(number))
<1>1. DOMAIN Kept(number) = DOMAIN number \ Rejected(number)
  BY DEF Kept
<1>2. \A p \in DOMAIN Kept(number) : Kept(number)[p] = number[p]
  BY DEF Kept
<1>3. Kept(number) = [p \in DOMAIN Kept(number) |-> Kept(number)[p]]
  BY DEF Kept
<1> QED
  BY <1>1, <1>2, <1>3 DEF TypeOK, Numbering, Validate, Filled

\* Every number is a natural number of a page of the import: no estimate falls
\* off either end.
THEOREM TypeCorrect == Spec => []TypeOK
<1>1. Init => TypeOK
  BY DEF Init, TypeOK
<1>2. TypeOK /\ [Next]_vars => TypeOK'
  <2> SUFFICES ASSUME TypeOK, [Next]_vars PROVE TypeOK'
    OBVIOUS
  <2>1. ASSUME NEW found \in Partial(Pos, Readable), Scan(found) PROVE TypeOK'
    <3>1. DOMAIN found \subseteq Pos /\ \A p \in DOMAIN found : found[p] \in Nat
      BY PageNumbersAssumption DEF Partial
    <3> QED
      BY <2>1, <3>1 DEF Scan, TypeOK, Over
  <2>2. CASE Settle
    <3> DEFINE k == Kept(number)
               v == Filled(k)
    <3>1. Numbering(k) /\ number' = v /\ phase' = "stored"
      BY <2>2, KeptIsNumbering DEF Settle
    <3> HIDE DEF k, v
    <3>2. \A p \in DOMAIN v : p \in Pos /\ v[p] \in Nat
      <4> TAKE p \in DOMAIN v
      <4>1. CASE p \in DOMAIN k
        BY <3>1, <4>1, FilledKeeps DEF Numbering, v
      <4>2. CASE p \notin DOMAIN k
        <5>1. PICK i, j \in DOMAIN k : Anchors(k, i, j) /\ p \in i + 1 .. j - 1
          BY <3>1, <4>2, FilledKeeps DEF v
        <5>2. i \in Pos /\ j \in Pos /\ i \in Nat /\ j \in Nat
          BY <3>1, <5>1, PosIsNat DEF Numbering
        <5>3. p \in i .. j - 1 /\ p \in Pos
          BY <5>1, <5>2, PageNumbersAssumption DEF Pos
        <5> QED
          BY <3>1, <5>1, <5>3, GapClimbs DEF v
      <4> QED
        BY <4>1, <4>2
    <3> QED
      BY <3>1, <3>2 DEF TypeOK
  <2>3. CASE UNCHANGED vars
    BY <2>3 DEF vars, TypeOK
  <2> QED
    BY <2>1, <2>2, <2>3 DEF Next
<1> QED
  BY <1>1, <1>2, PTL DEF Spec

\* Between two anchors the numbers that a run stores rise strictly.
THEOREM Rise == Spec => []EstimatesRise
<1>1. TypeOK => EstimatesRise
  <2> SUFFICES ASSUME TypeOK PROVE EstimatesRise
    OBVIOUS
  <2> QED
    BY KeptIsNumbering, GapClimbs DEF EstimatesRise
<1> QED
  BY <1>1, TypeCorrect, PTL

\* No estimate is rejected by the next run, and none gets a number rejected.
THEOREM Fit == Spec => []EstimatesFit
<1>1. TypeOK => EstimatesFit
  BY KeptIsNumbering, EstimatesAreQuiet DEF EstimatesFit
<1> QED
  BY <1>1, TypeCorrect, PTL

\* Once the gaps are filled there are none to fill.
LEMMA NoGapsLeft ==
    ASSUME NEW f, Numbering(f), NEW i, NEW j
    PROVE  ~ Anchors(Filled(f), i, j)
<1> DEFINE v == Filled(f)
<1> HIDE DEF v
<1>1. /\ DOMAIN f \subseteq DOMAIN v /\ \A p \in DOMAIN f : v[p] = f[p]
      /\ \A p \in DOMAIN v \ DOMAIN f :
            \E a, b \in DOMAIN f : Anchors(f, a, b) /\ p \in a + 1 .. b - 1
      /\ DOMAIN f \subseteq Int
  BY FilledKeeps, PosIsNat DEF v, Numbering
<1>2. ASSUME NEW a, NEW b, Anchors(f, a, b), NEW p \in a .. b - 1
      PROVE  p \in DOMAIN v /\ p + 1 \in DOMAIN v
  BY <1>2, GapClimbs DEF v
<1>3. SUFFICES ASSUME Anchors(v, i, j) PROVE FALSE
  BY DEF v
<1>4. i \in DOMAIN v /\ j \in DOMAIN v /\ i < j /\ j - i > 1
  BY <1>3 DEF Anchors, Follows
<1>5. DOMAIN v \subseteq Int
  BY <1>1
<1>6. ASSUME NEW a \in DOMAIN f, NEW b \in DOMAIN f, Anchors(f, a, b)
      PROVE  ~ (i \in a .. b - 1) /\ ~ (j \in a + 1 .. b)
  <2>1. ~ (i \in a .. b - 1)
    BY <1>2, <1>3, <1>4, <1>5, <1>6 DEF Anchors, Follows
  <2>2. ASSUME j \in a + 1 .. b PROVE FALSE
    <3>1. j - 1 \in a .. b - 1
      BY <1>1, <1>4, <1>5, <2>2
    <3>2. j - 1 \in DOMAIN v
      BY <1>2, <1>6, <3>1
    <3> QED
      BY <1>3, <1>4, <1>5, <3>2 DEF Anchors, Follows
  <2> QED
    BY <2>1, <2>2
<1>7. i \in DOMAIN f /\ j \in DOMAIN f
  <2>1. ASSUME NEW p \in {i, j}, p \notin DOMAIN f PROVE FALSE
    <3>1. PICK a, b \in DOMAIN f : Anchors(f, a, b) /\ p \in a + 1 .. b - 1
      BY <1>1, <1>4, <2>1
    <3>2. p \in a .. b - 1 /\ p \in a + 1 .. b
      BY <1>1, <3>1
    <3> QED
      BY <1>6, <3>1, <3>2, <2>1
  <2> QED
    BY <2>1
<1>8. Anchors(f, i, j)
  BY <1>1, <1>3, <1>7 DEF Anchors, Follows
<1>9. i \in i .. j - 1
  BY <1>4, <1>5
<1> QED
  BY <1>6, <1>7, <1>8, <1>9

\* A numbering in which nothing is rejected any more is left as it is by
\* every further validation, estimates included: estimates are made once.
LEMMA ValidTwice ==
    ASSUME NEW k, Numbering(k), Rejected(k) = {}
    PROVE  Validate(Filled(k)) = Filled(k)
<1> DEFINE v == Filled(k)
<1>1. Rejected(v) = {}
  BY EstimatesAreQuiet
<1>2. v = [p \in DOMAIN v |-> v[p]]
  BY DEF Filled, Over
<1>3. \A p : Around(v, p) = {}
  BY NoGapsLeft DEF Around
<1> HIDE DEF v
<1>4. Kept(v) = v
  BY <1>1, <1>2 DEF Kept
<1>5. DOMAIN Estimates(v) = {}
  BY <1>3 DEF Estimates
<1>6. Over(v, Estimates(v)) = v
  BY <1>2, <1>5 DEF Over
<1> QED
  BY <1>4, <1>6 DEF Validate, v

\* What a run stores is a fixed point of the validation, unless a number was
\* rejected that others were judged by: a run that reads nothing new (every
\* page has its text, or OCR finds no number) then changes no number.
THEOREM NumbersSettle ==
    Spec => [](Rejected(Kept(number)) = {} => Validate(Validate(number)) = Validate(number))
<1>1. TypeOK => (Rejected(Kept(number)) = {} => Validate(Validate(number)) = Validate(number))
  BY KeptIsNumbering, ValidTwice
<1> QED
  BY <1>1, TypeCorrect, PTL

-----------------------------------------------------------------------------
(* SourceMap: least and greatest numbers                                   *)

Less == {p \in Nat \X Nat : p[1] < p[2]}

LEMMA LessIsWellFounded == IsWellFoundedOn(Less, Nat)
<1> SUFFICES ASSUME NEW f \in [Nat -> Nat], \A n \in Nat : <<f[n + 1], f[n]>> \in Less
             PROVE  FALSE
  BY DEF IsWellFoundedOn
<1>1. \A n \in Nat : <<f[n + 1], f[n]>> \in OpToRel(<, Nat)
  BY DEF OpToRel, Less
<1> QED
  BY <1>1, NatLessThanWellFounded DEF IsWellFoundedOn

\* A set of natural numbers has a smallest element.
LEMMA SmallestIs ==
    ASSUME NEW S, S \subseteq Nat, S # {}
    PROVE  Smallest(S) \in S /\ \A y \in S : Smallest(S) <= y
<1>1. PICK x \in S : \A y \in S : ~(<<y, x>> \in Less)
  BY LessIsWellFounded, WFMin
<1>2. \A a, b \in Nat : a < b => <<a, b>> \in Less
  BY DEF Less
<1>3. ASSUME NEW y \in S PROVE x <= y
  <2>1. x \in Nat /\ y \in Nat
    OBVIOUS
  <2>2. ~(y < x)
    BY <1>1, <1>2, <2>1
  <2> QED
    BY <2>1, <2>2
<1> QED
  BY <1>3 DEF Smallest

\* A bounded one has a largest.
LEMMA LargestIs ==
    ASSUME NEW S, S \subseteq Nat, S # {}, NEW b \in Nat, \A y \in S : y <= b
    PROVE  Largest(S) \in S /\ \A y \in S : y <= Largest(S)
<1> DEFINE T == {b - y : y \in S}
<1>1. T \subseteq Nat /\ T # {}
  <2>1. ASSUME NEW y \in S PROVE b - y \in Nat
    BY y \in Nat, y <= b
  <2>2. T # {}
    OBVIOUS
  <2> QED
    BY <2>1, <2>2
<1>2. Smallest(T) \in T /\ \A z \in T : Smallest(T) <= z
  BY <1>1, SmallestIs
<1>3. PICK x \in S : Smallest(T) = b - x
  BY <1>2
<1>4. ASSUME NEW y \in S PROVE y <= x
  <2>1. b - y \in T /\ x \in Nat /\ y \in Nat
    BY x \in Nat, y \in Nat
  <2>2. b - x <= b - y
    BY <1>2, <1>3, <2>1
  <2> QED
    BY <2>1, <2>2
<1> QED
  BY <1>4 DEF Largest

-----------------------------------------------------------------------------
(* The scan                                                                *)

ScanTyped ==
    /\ printed \in [Places -> Numbers \cup {Blank}]
    /\ listed \in UNION {[D -> Numbers] : D \in SUBSET Titles}

LEMMA PageNumberIsNat == ASSUME ScanTyped PROVE \A p \in Places : PageNumber(p) \in Nat
<1> SUFFICES ASSUME ScanTyped, NEW p \in Places PROVE PageNumber(p) \in Nat
  OBVIOUS
<1>1. p \in Nat
  BY SourceMapAssumption DEF Places
<1>2. printed[p] \in Numbers \cup {Blank}
  BY DEF ScanTyped
<1>3. printed[p] # Blank => printed[p] \in Nat
  BY <1>2, SourceMapAssumption
<1> QED
  BY <1>1, <1>3 DEF PageNumber

\* The pages' numbers are bounded: of the scans of the first pages, the
\* shortest whose numbers are not would be bounded without its last page.
LEMMA PageNumbersBounded ==
    ASSUME ScanTyped
    PROVE  \E b \in Nat : \A p \in Places : PageNumber(p) <= b
<1> DEFINE Bounded(n) == \E b \in Nat : \A p \in 1 .. n : PageNumber(p) <= b
           T == {n \in 0 .. PageCount : ~Bounded(n)}
<1>0. PageCount \in Nat
  BY SourceMapAssumption
<1>1. SUFFICES ASSUME T # {} PROVE FALSE
  <2>1. PageCount \in 0 .. PageCount
    BY <1>0
  <2>2. Bounded(PageCount) => \E b \in Nat : \A p \in Places : PageNumber(p) <= b
    BY DEF Places
  <2>3. Bounded(PageCount) \/ PageCount \in T
    BY <2>1
  <2> HIDE DEF Bounded, T
  <2> QED
    BY <2>2, <2>3
<1> DEFINE n == Smallest(T)
<1>2. n \in T /\ \A m \in T : n <= m
  <2>1. T \subseteq 0 .. PageCount /\ 0 .. PageCount \subseteq Nat
    BY <1>0
  <2> HIDE DEF T
  <2> QED
    BY <1>1, <2>1, SmallestIs
<1> HIDE DEF n
<1>3. n \in 0 .. PageCount /\ ~Bounded(n)
  BY <1>2
<1>4. n # 0
  <2>1. \A p \in 1 .. 0 : PageNumber(p) <= 0
    OBVIOUS
  <2> QED
    BY <1>3, <2>1
<1>5. n - 1 \in 0 .. PageCount /\ ~(n <= n - 1)
  BY <1>0, <1>3, <1>4
<1>6. Bounded(n - 1)
  <2>1. n - 1 \notin T
    BY <1>2, <1>5
  <2> QED
    BY <1>5, <2>1
<1>6a. PICK b \in Nat : \A p \in 1 .. n - 1 : PageNumber(p) <= b
  BY <1>6
<1>7. PageNumber(n) \in Nat /\ \A p \in 1 .. n - 1 : PageNumber(p) \in Nat
  BY <1>0, <1>3, <1>4, PageNumberIsNat DEF Places
<1>8. LargerOf(b, PageNumber(n)) \in Nat /\ b <= LargerOf(b, PageNumber(n))
      /\ PageNumber(n) <= LargerOf(b, PageNumber(n))
  BY <1>7 DEF LargerOf
<1>9. \A p \in 1 .. n : p = n \/ p \in 1 .. n - 1
  BY <1>0, <1>3
<1>10. \A p \in 1 .. n : PageNumber(p) <= LargerOf(b, PageNumber(n))
  BY <1>6a, <1>7, <1>8, <1>9
<1> QED
  BY <1>3, <1>8, <1>10

LEMMA FirstAndLast ==
    ASSUME ScanTyped
    PROVE  /\ First \in Nat /\ Last \in Nat
           /\ \A p \in Places : PageNumber(p) \in First .. Last
<1> DEFINE S == {PageNumber(p) : p \in Places}
<1>1. S \in SUBSET Nat /\ S # {}
  BY PageNumberIsNat, SourceMapAssumption DEF Places
<1>2. PICK b \in Nat : \A y \in S : y <= b
  BY PageNumbersBounded
<1>3. First \in S /\ \A y \in S : First <= y
  BY <1>1, SmallestIs DEF First
<1>4. Last \in S /\ \A y \in S : y <= Last
  BY <1>1, <1>2, LargestIs DEF Last
<1> QED
  BY <1>1, <1>3, <1>4

LEMMA StartsAreNat == ASSUME ScanTyped PROVE Starts \in SUBSET Nat
<1>1. \A t \in Entries : listed[t] \in Nat
  <2>1. PICK D \in SUBSET Titles : listed \in [D -> Numbers]
    BY DEF ScanTyped
  <2>2. \A t \in DOMAIN listed : listed[t] \in Nat
    BY <2>1, SourceMapAssumption
  <2> QED
    BY <2>2 DEF Entries
<1>2. \A t \in Entries : StartOf(t) \in Nat
  <2> TAKE t \in Entries
  <2>1. CASE Found(t) = {}
    BY <1>1, <2>1 DEF StartOf
  <2>2. CASE Found(t) # {}
    <3>1. Found(t) \in SUBSET Places /\ Places \in SUBSET Nat
      BY SourceMapAssumption DEF Found, Places
    <3>2. Smallest(Found(t)) \in Places
      BY <2>2, <3>1, SmallestIs
    <3> QED
      BY <2>2, <3>2, PageNumberIsNat DEF StartOf
  <2> QED
    BY <2>1, <2>2
<1> QED
  BY <1>2, PageNumberIsNat DEF Starts

-----------------------------------------------------------------------------
(* The sections                                                            *)

\* Where the section of a start ends.
LEMMA EndIs ==
    ASSUME NEW S \in SUBSET Nat, NEW s \in S, NEW last \in Nat
    PROVE  \/ EndOf(S, s, last) = last /\ \A t \in S : t <= s
           \/ \E m \in S : /\ s < m /\ EndOf(S, s, last) = m - 1
                           /\ \A t \in S : t <= s \/ m <= t
<1> DEFINE after == {t \in S : t > s}
<1>2. CASE after # {}
  <2>1. Smallest(after) \in after /\ \A y \in after : Smallest(after) <= y
    BY <1>2, SmallestIs
  <2>2. EndOf(S, s, last) = Smallest(after) - 1
    BY <1>2 DEF EndOf
  <2> DEFINE m == Smallest(after)
  <2> HIDE DEF m
  <2>3. m \in S /\ m > s /\ m \in Nat /\ s \in Nat
    BY <2>1 DEF m
  <2>4. ASSUME NEW t \in S PROVE t <= s \/ m <= t
    <3>1. t \in Nat
      BY S \subseteq Nat
    <3>2. t > s => m <= t
      BY <2>1 DEF m
    <3> QED
      BY <2>3, <3>1, <3>2
  <2>5. s < m /\ EndOf(S, s, last) = m - 1
    BY <2>2, <2>3 DEF m
  <2> QED
    BY <2>3, <2>4, <2>5
<1>3. after = {} => \A t \in S : t <= s
  <2> SUFFICES ASSUME after = {}, NEW t \in S PROVE t <= s
    OBVIOUS
  <2>1. ~(t > s) /\ t \in Nat /\ s \in Nat
    OBVIOUS
  <2> QED
    BY <2>1
<1>4. after = {} => EndOf(S, s, last) = last
  BY DEF EndOf
<1> QED
  BY <1>2, <1>3, <1>4

\* Whatever number lies between the first and the last is in a section.
LEMMA Covered ==
    ASSUME NEW S \in SUBSET Nat, NEW first \in Nat, NEW last \in Nat,
           NEW n \in first .. last
    PROVE  \E x \in SectionsOf(S, first, last) : n \in x.from .. x.to
<1>1. CASE S = {}
  BY <1>1 DEF SectionsOf, Section
<1>2. CASE S # {} /\ n < Smallest(S)
  <2>1. Smallest(S) \in Nat
    BY <1>2, SmallestIs
  <2>2. Section(first, first, Smallest(S) - 1) \in SectionsOf(S, first, last)
    BY <1>2, <2>1 DEF SectionsOf, FrontMatter
  <2>3. n \in first .. Smallest(S) - 1
    BY <1>2, <2>1
  <2> QED
    BY <2>2, <2>3 DEF Section
<1>3. CASE S # {} /\ Smallest(S) <= n
  <2> DEFINE B == {t \in S : t <= n}
             s == Largest(B)
  <2>1. s \in B /\ \A t \in B : t <= s
    <3>1. Smallest(S) \in B
      BY <1>3, SmallestIs
    <3>2. B \subseteq S /\ \A t \in B : t <= n
      OBVIOUS
    <3>3. S \subseteq Nat
      OBVIOUS
    <3>4. B \subseteq Nat
      BY <3>2, <3>3, Zenon
    <3>5. n \in Nat
      OBVIOUS
    <3> HIDE DEF B
    <3> QED
      BY <3>1, <3>2, <3>4, <3>5, LargestIs
  <2> HIDE DEF s
  <2>2. s \in S /\ s \in Nat /\ s <= n /\ \A t \in S : t <= n => t <= s
    BY <2>1
  <2> DEFINE to == SmallerOf(LargerOf(EndOf(S, s, last), s), last)
             x == Section(s, SmallerOf(s, last), to)
  <2>3. x \in SectionsOf(S, first, last)
    BY <1>3, <2>2 DEF SectionsOf
  <2>4. EndOf(S, s, last) \in Nat /\ n <= EndOf(S, s, last)
    BY <2>2, EndIs
  <2>5. to \in Nat /\ n <= to
    BY <2>2, <2>4 DEF SmallerOf, LargerOf
  <2>6. SmallerOf(s, last) \in Nat /\ SmallerOf(s, last) <= n
    BY <2>2 DEF SmallerOf
  <2>7. x.from = SmallerOf(s, last) /\ x.to = to
    BY DEF Section
  <2> HIDE DEF x, to
  <2>8. n \in x.from .. x.to
    BY <2>5, <2>6, <2>7
  <2> QED
    BY <2>3, <2>8
<1>4. S # {} => Smallest(S) \in Nat
  BY SmallestIs
<1> QED
  BY <1>1, <1>2, <1>3, <1>4

\* Sections whose starts are not beyond the last page follow one another.
LEMMA InOrder ==
    ASSUME NEW S \in SUBSET Nat, NEW first \in Nat, NEW last \in Nat,
           \A s \in S : s <= last,
           NEW x \in SectionsOf(S, first, last), NEW y \in SectionsOf(S, first, last),
           x.start < y.start
    PROVE  x.to < y.from
<1>1. CASE S = {}
  <2>1. x = y /\ x.start = first
    BY <1>1 DEF SectionsOf, Section
  <2> QED
    BY <2>1
<1>2. CASE S # {}
  <2>0. Smallest(S) \in S /\ (\A s \in S : Smallest(S) <= s) /\ \A s \in S : s \in Nat
    BY <1>2, SmallestIs
  <2>1. ASSUME NEW z \in SectionsOf(S, first, last)
        PROVE  \/ /\ first < Smallest(S) /\ z.start = first /\ z.from = first
                  /\ z.to = Smallest(S) - 1
               \/ /\ z.start \in S /\ z.from = z.start
                  /\ z.to = SmallerOf(LargerOf(EndOf(S, z.start, last), z.start), last)
    <3>1. CASE z \in FrontMatter(S, first)
      BY <3>1 DEF FrontMatter, Section
    <3>2. ASSUME NEW s \in S,
                 z = Section(s, SmallerOf(s, last),
                             SmallerOf(LargerOf(EndOf(S, s, last), s), last))
          PROVE  /\ z.start \in S /\ z.from = z.start
                 /\ z.to = SmallerOf(LargerOf(EndOf(S, z.start, last), z.start), last)
      <4>1. /\ z.start = s /\ z.from = SmallerOf(s, last)
            /\ z.to = SmallerOf(LargerOf(EndOf(S, s, last), s), last)
        BY <3>2 DEF Section
      <4>2. SmallerOf(s, last) = s
        BY DEF SmallerOf
      <4> QED
        BY <4>1, <4>2
    <3> QED
      BY <1>2, <2>1, <3>1, <3>2 DEF SectionsOf
  <2>2. CASE x.start = first /\ x.to = Smallest(S) - 1 /\ first < Smallest(S)
    <3>1. y.start \in S /\ y.from = y.start
      BY <2>1, <2>2
    <3>2. Smallest(S) <= y.start /\ y.start \in Nat /\ Smallest(S) \in Nat
      BY <2>0, <3>1
    <3> QED
      BY <2>2, <3>1, <3>2
  <2>3. CASE /\ x.start \in S
             /\ x.to = SmallerOf(LargerOf(EndOf(S, x.start, last), x.start), last)
    <3>0. x.start \in Nat /\ Smallest(S) \in Nat /\ Smallest(S) <= x.start
      BY <2>0, <2>3
    <3>1. y.start \in S /\ y.from = y.start
      <4>1. ~(y.start = first /\ first < Smallest(S))
        BY <3>0
      <4> QED
        BY <2>1, <4>1
    <3>1a. ~(y.start <= x.start)
      <4>1. y.start \in Nat
        BY <2>0, <3>1
      <4> QED
        BY <3>0, <4>1
    <3>2. PICK m \in S : /\ x.start < m /\ EndOf(S, x.start, last) = m - 1
                         /\ \A t \in S : t <= x.start \/ m <= t
      BY <2>3, <3>1, <3>1a, EndIs
    <3>3. m <= y.start /\ m \in Nat /\ x.start \in Nat /\ y.start \in Nat
      BY <2>0, <3>0, <3>1, <3>1a, <3>2
    <3>4. LargerOf(EndOf(S, x.start, last), x.start) = m - 1
      BY <3>2, <3>3 DEF LargerOf
    <3>5. x.to <= m - 1 /\ x.to \in Int
      BY <2>3, <3>3, <3>4 DEF SmallerOf
    <3> QED
      BY <3>1, <3>3, <3>5
  <2> QED
    BY <2>1, <2>2, <2>3
<1> QED
  BY <1>1, <1>2

-----------------------------------------------------------------------------
(* What holds of the map                                                   *)

Inv == ScanTyped /\ (built => sections = SectionsOf(Starts, First, Last))

LEMMA Invariance == MapSpec => []Inv
<1>1. MapInit => Inv
  BY DEF MapInit, Inv, ScanTyped
<1>2. Inv /\ [MapNext]_mapVars => Inv'
  <2> SUFFICES ASSUME Inv, [MapNext]_mapVars PROVE Inv'
    OBVIOUS
  <2>1. UNCHANGED <<printed, kind, heading, listed>>
    BY DEF MapNext, Build, mapVars
  <2>2. Starts' = Starts /\ First' = First /\ Last' = Last /\ ScanTyped'
    BY <2>1 DEF Inv, Starts, First, Last, ScanTyped, Entries, StartOf, Found, PageNumber
  <2>3. built' => sections' = SectionsOf(Starts, First, Last)
    BY DEF MapNext, Build, mapVars, Inv
  <2> QED
    BY <2>2, <2>3 DEF Inv, SectionsOf, FrontMatter
<1> QED
  BY <1>1, <1>2, PTL DEF MapSpec

\* Every scanned page lies in a section.
THEOREM EveryPage == MapSpec => []EveryPageHasASection
<1>1. Inv => EveryPageHasASection
  BY StartsAreNat, FirstAndLast, Covered DEF Inv, EveryPageHasASection
<1> QED
  BY <1>1, Invariance, PTL

\* Where the contents stay within the scan, sections do not overlap.
THEOREM SectionsApart == MapSpec => []ScannedSectionsApart
<1>1. Inv => ScannedSectionsApart
  BY StartsAreNat, FirstAndLast, InOrder DEF Inv, ScannedSectionsApart, Apart
<1> QED
  BY <1>1, Invariance, PTL

=============================================================================
