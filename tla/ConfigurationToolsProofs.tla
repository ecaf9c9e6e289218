----------------------- MODULE ConfigurationToolsProofs -----------------------
(***************************************************************************)
(* Four of the tools: the deskew of a pad trigger, for every set of inputs *)
(* and every skew; the configuration of a VMM, for every number of         *)
(* channels and all calls; the access to the registers of the chips, for   *)
(* all values and sub-registers, all numbers and all calls; and the        *)
(* reading of the configuration, for all hierarchies of resources.         *)
(***************************************************************************)
EXTENDS VmmConfig, Deskew, RegisterAccess, ConfigReader,
        FiniteSetTheorems, SequenceTheorems, WellFoundedInduction, TLAPS

\* Least numbers, which stand for induction.
LEMMA LeastNumber ==
  ASSUME NEW S \in SUBSET Nat, S # {}
  PROVE  \E m \in S : \A k \in S : m <= k
<1> DEFINE R == OpToRel(<, Nat)
<1>1. IsWellFoundedOn(R, Nat)
  BY NatLessThanWellFounded
<1>2. \A x, y \in Nat : <<x, y>> \in R <=> x < y
  BY DEF OpToRel
<1> HIDE DEF R
<1>3. PICK m \in S : \A k \in S : ~(<<k, m>> \in R)
  BY <1>1, WFMin
<1>5. ASSUME NEW k \in S
      PROVE  m <= k
  <2>1. k \in Nat /\ m \in Nat
    OBVIOUS
  <2>2. ~(k < m)
    BY <1>2, <1>3, <2>1
  <2> QED
    BY <2>1, <2>2
<1> QED
  BY <1>3, <1>5

-----------------------------------------------------------------------------
(***************************************************************************)
(* The deskew of a pad trigger.                                            *)
(***************************************************************************)

LEMMA MinOfNumbers ==
  ASSUME NEW S \in SUBSET Nat, S # {}
  PROVE  Min(S) \in S /\ \A k \in S : Min(S) <= k
BY LeastNumber DEF Min

LEMMA MinOfOne ==
  ASSUME NEW n \in Nat
  PROVE  Min({n}) = n
BY MinOfNumbers

-----------------------------------------------------------------------------
(***************************************************************************)
(* The BCIDs of an input as a staircase.                                   *)
(***************************************************************************)
\* The BCID k bunch crossings before x.
Before(x, k) == IF x >= k THEN x - k ELSE x - k + 16

LEMMA Constants ==
  /\ NUM_INPUT_DELAYS = 16 /\ NUM_INPUT_DELAYS_PER_BC = 6 /\ NUM_INPUT_DELAYS_MARGIN = 2
  /\ PFEB_BCID_RANGE = 16 /\ PFEB_BCID_DISCONNECTED = 5 /\ TARGETPOS = 3
  /\ DelayRange = 0..15 /\ PFEB_BCID_RANGE \div 2 = 8
  /\ NUM_INPUT_DELAYS_PER_BC - NUM_INPUT_DELAYS_MARGIN = 4
BY DEF NUM_INPUT_DELAYS, NUM_INPUT_DELAYS_PER_BC, NUM_INPUT_DELAYS_MARGIN, PFEB_BCID_RANGE,
       PFEB_BCID_DISCONNECTED, TARGETPOS, DelayRange

LEMMA Modulo ==
  ASSUME NEW x \in 0..15, NEW k \in 0..3
  PROVE  (x - k) % 16 = Before(x, k)
BY DEF Before

LEMMA BcidBefore ==
  ASSUME NEW x \in 0..15, NEW f \in 0..5, NEW d \in Int, NEW k \in 0..3,
         6 * k <= d + f, d + f < 6 * k + 6
  PROVE  Bcid(<<x, f>>, d) = Before(x, k)
<1>1. (d + f) \div 6 = k
  OBVIOUS
<1>2. Bcid(<<x, f>>, d) = (x - (d + f) \div 6) % 16
  BY DEF Bcid, NUM_INPUT_DELAYS_PER_BC, PFEB_BCID_RANGE
<1> QED
  BY <1>1, <1>2, Modulo

\* What one delay of the scan may read.
LEMMA ReadsAt ==
  ASSUME NEW x \in 0..15, NEW f \in 0..5, NEW i \in 1..16, NEW k \in 0..3,
         6 * k <= i - 1 + f, i - 1 + f < 6 * k + 6,
         NEW b \in Medians(<<x, f>>, i - 1)
  PROVE  IF i - 1 + f = 6 * k /\ k > 0 THEN b \in {Before(x, k), Before(x, k - 1)}
         ELSE b = Before(x, k)
<1>1. Bcid(<<x, f>>, i - 1) = Before(x, k)
  <2>1. i - 1 \in Int /\ 6 * k <= (i - 1) + f /\ (i - 1) + f < 6 * k + 6
    OBVIOUS
  <2> QED
    BY <2>1, BcidBefore
<1>2. <<x, f>> # <<>> /\ <<x, f>>[2] = f
  OBVIOUS
<1>3. CASE i - 1 + f = 6 * k /\ k > 0
  <2>1. Bcid(<<x, f>>, i - 1 - 1) = Before(x, k - 1)
    <3>1. /\ i - 1 - 1 \in Int /\ k - 1 \in 0..3
          /\ 6 * (k - 1) <= (i - 1 - 1) + f /\ (i - 1 - 1) + f < 6 * (k - 1) + 6
      BY <1>3
    <3> QED
      BY <3>1, BcidBefore
  <2> QED
    BY <1>1, <1>2, <1>3, <2>1 DEF Medians
<1>4. CASE ~(i - 1 + f = 6 * k /\ k > 0)
  <2>1. ~((i - 1 + f) % 6 = 0 /\ i - 1 > 0)
    BY <1>4
  <2> QED
    BY <1>1, <1>2, <1>4, <2>1 DEF Medians, NUM_INPUT_DELAYS_PER_BC
<1> QED
  BY <1>3, <1>4
-----------------------------------------------------------------------------
\* The reads of a PFEB with skew <<x, f>>, of all delays.
ReadsOf(s, x, f) ==
  /\ s \in Seq(0..15) /\ Len(s) = 16 /\ DOMAIN s = 1..16
  /\ \A i \in 1..16 : s[i] \in Medians(<<x, f>>, i - 1)

\* The BC of element i when the BC changes at the elements a, b and c.
Step(i, a, b, c) == IF i < a THEN 0 ELSE IF i < b THEN 1 ELSE IF i < c THEN 2 ELSE 3
Stair(s, x, f, a, b, c) ==
  /\ x \in 0..15 /\ f \in 0..5 /\ a \in 1..17 /\ b \in 1..17 /\ c \in 1..17
  /\ a \in {7 - f, 8 - f} /\ b \in {13 - f, 14 - f}
  /\ c \in IF f < 3 THEN {17} ELSE {19 - f, 20 - f}
  /\ s \in Seq(0..15) /\ Len(s) = 16 /\ DOMAIN s = 1..16
  /\ \A i \in 1..16 : s[i] = Before(x, Step(i, a, b, c))

LEMMA StairExists ==
  ASSUME NEW x \in 0..15, NEW f \in 0..5, NEW s, ReadsOf(s, x, f)
  PROVE  \E a, b, c \in 1..17 : Stair(s, x, f, a, b, c)
<1>1. ASSUME NEW i \in 1..16, NEW k \in 0..3,
             6 * k <= i - 1 + f, i - 1 + f < 6 * k + 6
      PROVE  IF i - 1 + f = 6 * k /\ k > 0 THEN s[i] \in {Before(x, k), Before(x, k - 1)}
             ELSE s[i] = Before(x, k)
  <2>1. s[i] \in Medians(<<x, f>>, i - 1)
    BY DEF ReadsOf
  <2> QED
    BY <1>1, <2>1, ReadsAt
<1>2. s[7 - f] \in {Before(x, 1), Before(x, 0)}
  <2>1. 7 - f \in 1..16 /\ 1 \in 0..3 /\ (7 - f) - 1 + f = 6 * 1 /\ 1 > 0 /\ 1 - 1 = 0
    OBVIOUS
  <2> QED
    BY <1>1, <2>1
<1>3. s[13 - f] \in {Before(x, 2), Before(x, 1)}
  <2>1. 13 - f \in 1..16 /\ 2 \in 0..3 /\ (13 - f) - 1 + f = 6 * 2 /\ 2 > 0 /\ 2 - 1 = 1
    OBVIOUS
  <2> QED
    BY <1>1, <2>1
<1>4. f >= 3 => s[19 - f] \in {Before(x, 3), Before(x, 2)}
  <2>1. f >= 3 => /\ 19 - f \in 1..16 /\ 3 \in 0..3 /\ (19 - f) - 1 + f = 6 * 3
                  /\ 3 > 0 /\ 3 - 1 = 2
    OBVIOUS
  <2> QED
    BY <1>1, <2>1
<1>5. PICK a \in 1..17 : \/ a = 7 - f /\ s[7 - f] = Before(x, 1)
                         \/ a = 8 - f /\ s[7 - f] = Before(x, 0)
  <2>1. 7 - f \in 1..17 /\ 8 - f \in 1..17
    OBVIOUS
  <2>2. CASE s[7 - f] = Before(x, 1)
    BY <2>1, <2>2
  <2>3. CASE s[7 - f] = Before(x, 0)
    BY <2>1, <2>3
  <2> QED
    BY <1>2, <2>2, <2>3
<1>6. PICK b \in 1..17 : \/ b = 13 - f /\ s[13 - f] = Before(x, 2)
                         \/ b = 14 - f /\ s[13 - f] = Before(x, 1)
  <2>1. 13 - f \in 1..17 /\ 14 - f \in 1..17
    OBVIOUS
  <2>2. CASE s[13 - f] = Before(x, 2)
    BY <2>1, <2>2
  <2>3. CASE s[13 - f] = Before(x, 1)
    BY <2>1, <2>3
  <2> QED
    BY <1>3, <2>2, <2>3
<1>7. PICK c \in 1..17 : \/ f < 3 /\ c = 17
                         \/ f >= 3 /\ c = 19 - f /\ s[19 - f] = Before(x, 3)
                         \/ f >= 3 /\ c = 20 - f /\ s[19 - f] = Before(x, 2)
  <2>1. 17 \in 1..17 /\ (f >= 3 => 19 - f \in 1..17 /\ 20 - f \in 1..17)
    OBVIOUS
  <2>2. CASE f < 3
    BY <2>1, <2>2
  <2>3. CASE f >= 3 /\ s[19 - f] = Before(x, 3)
    BY <2>1, <2>3
  <2>4. CASE f >= 3 /\ s[19 - f] = Before(x, 2)
    BY <2>1, <2>4
  <2> QED
    BY <1>4, <2>2, <2>3, <2>4
<1>8. ASSUME NEW i \in 1..16
      PROVE  s[i] = Before(x, Step(i, a, b, c))
  <2>1. CASE i - 1 + f < 6
    <3>1. s[i] = Before(x, 0)
      BY <1>1, <2>1
    <3>2. Step(i, a, b, c) = 0
      BY <1>5, <2>1 DEF Step
    <3> QED
      BY <3>1, <3>2
  <2>2. CASE i = 7 - f
    BY <1>5, <1>6, <2>2 DEF Step
  <2>3. CASE 6 < i - 1 + f /\ i - 1 + f < 12
    <3>1. s[i] = Before(x, 1)
      BY <1>1, <2>3
    <3>2. Step(i, a, b, c) = 1
      BY <1>5, <1>6, <2>3 DEF Step
    <3> QED
      BY <3>1, <3>2
  <2>4. CASE i = 13 - f
    BY <1>5, <1>6, <1>7, <2>4 DEF Step
  <2>5. CASE 12 < i - 1 + f /\ i - 1 + f < 18
    <3>1. s[i] = Before(x, 2)
      BY <1>1, <2>5
    <3>2. Step(i, a, b, c) = 2
      BY <1>5, <1>6, <1>7, <2>5 DEF Step
    <3> QED
      BY <3>1, <3>2
  <2>6. CASE i = 19 - f
    BY <1>5, <1>6, <1>7, <2>6 DEF Step
  <2>7. CASE 18 < i - 1 + f
    <3>1. s[i] = Before(x, 3)
      BY <1>1, <2>7
    <3>2. Step(i, a, b, c) = 3
      BY <1>5, <1>6, <1>7, <2>7 DEF Step
    <3> QED
      BY <3>1, <3>2
  <2>8. \/ i - 1 + f < 6 \/ i = 7 - f \/ (6 < i - 1 + f /\ i - 1 + f < 12) \/ i = 13 - f
        \/ (12 < i - 1 + f /\ i - 1 + f < 18) \/ i = 19 - f \/ 18 < i - 1 + f
    OBVIOUS
  <2> QED
    BY <2>1, <2>2, <2>3, <2>4, <2>5, <2>6, <2>7, <2>8
<1>9. /\ a \in {7 - f, 8 - f} /\ b \in {13 - f, 14 - f}
      /\ c \in IF f < 3 THEN {17} ELSE {19 - f, 20 - f}
  BY <1>5, <1>6, <1>7
<1>10. Stair(s, x, f, a, b, c)
  BY <1>5, <1>6, <1>7, <1>8, <1>9 DEF Stair, ReadsOf
<1> QED
  BY <1>10

-----------------------------------------------------------------------------
(* What the deskew makes of a staircase. *)

\* Different BCs of a scan have different BCIDs.
LEMMA BeforeInjective ==
  ASSUME NEW x \in 0..15, NEW j \in 0..3, NEW k \in 0..3, Before(x, j) = Before(x, k)
  PROVE  j = k
BY DEF Before

LEMMA BeforeType ==
  ASSUME NEW x \in 0..15, NEW k \in 0..3
  PROVE  Before(x, k) \in 0..15
BY DEF Before

LEMMA StepType ==
  ASSUME NEW i \in Int, NEW a \in Int, NEW b \in Int, NEW c \in Int
  PROVE  Step(i, a, b, c) \in 0..3
BY DEF Step

\* The BCIDs of a connected PFEB are accepted.
LEMMA StairChecked ==
  ASSUME NEW x, NEW f, NEW s, NEW a, NEW b, NEW c, Stair(s, x, f, a, b, c)
  PROVE  checkPFEBBCIDs(s)
<1> DEFINE t(i) == Step(i, a, b, c)
<1>1. /\ x \in 0..15 /\ f \in 0..5 /\ a \in 1..17 /\ b \in 1..17 /\ c \in 1..17
      /\ a \in {7 - f, 8 - f} /\ b \in {13 - f, 14 - f}
      /\ c \in IF f < 3 THEN {17} ELSE {19 - f, 20 - f}
      /\ Len(s) = 16 /\ DOMAIN s = 1..16
      /\ \A i \in 1..16 : s[i] = Before(x, t(i))
  BY DEF Stair
<1>2. ASSUME NEW i \in 1..16
      PROVE  t(i) \in 0..3
  <2>1. i \in Int /\ a \in Int /\ b \in Int /\ c \in Int
    BY <1>1
  <2> QED
    BY ONLY <2>1, StepType
<1>3. \A i \in 1..15 : t(i) <= t(i + 1)
  BY <1>1 DEF Step
<1>4. \E i \in DOMAIN s : s[i] # s[1]
  <2>1. a \in 1..16 /\ t(a) = 1 /\ t(1) = 0
    BY <1>1 DEF Step
  <2>2. s[a] # s[1]
    <3>1. s[a] = Before(x, 1) /\ s[1] = Before(x, 0)
      BY <1>1, <2>1
    <3> QED
      BY <1>1, <3>1, BeforeInjective
  <2> QED
    BY <1>1, <2>1, <2>2
<1> HIDE DEF t
<1>5. CASE x >= 3
  <2>1. \A i \in 1..16 : s[i] = x - t(i)
    BY <1>1, <1>2, <1>5 DEF Before
  <2>2. NonIncreasing(s)
    BY <1>1, <1>2, <1>3, <2>1 DEF NonIncreasing
  <2> QED
    BY <1>4, <2>2 DEF checkPFEBBCIDs
<1>6. CASE x < 3
  <2> DEFINE r == rotatePFEBBCIDs(s)
  <2>1. DOMAIN r = 1..16 /\ Len(r) = 16
    <3>1. r = [i \in 1..16 |-> IF s[i] < 8 THEN s[i] + 16 ELSE s[i]]
      BY <1>1 DEF rotatePFEBBCIDs, PFEB_BCID_RANGE
    <3>2. r \in Seq(Int)
      BY <1>1, <1>2, <3>1 DEF Before
    <3> QED
      BY <3>1, <3>2
  <2>2. ASSUME NEW i \in 1..16
        PROVE  r[i] = x - t(i) + 16
    <3>1. r[i] = IF s[i] < 8 THEN s[i] + 16 ELSE s[i]
      BY <1>1, Constants DEF rotatePFEBBCIDs, PFEB_BCID_RANGE
    <3>2. s[i] = Before(x, t(i)) /\ t(i) \in 0..3
      BY <1>1, <1>2
    <3>3. x \in 0..15
      BY <1>1
    <3> QED
      BY <1>6, <3>1, <3>2, <3>3 DEF Before
  <2> HIDE DEF r
  <2>3. NonIncreasing(r)
    <3>1. ASSUME NEW i \in 1..15
          PROVE  r[i] >= r[i + 1]
      <4>1. r[i] = x - t(i) + 16 /\ r[i + 1] = x - t(i + 1) + 16
        BY <2>2
      <4>2. t(i) \in 0..3 /\ t(i + 1) \in 0..3 /\ t(i) <= t(i + 1) /\ x \in 0..15
        BY <1>1, <1>2, <1>3
      <4> QED
        BY <4>1, <4>2
    <3> QED
      BY <2>1, <3>1 DEF NonIncreasing
  <2> QED
    BY <1>4, <2>3 DEF checkPFEBBCIDs, r
<1>7. x \in 0..15
  BY <1>1
<1> QED
  BY <1>5, <1>6, <1>7

\* The elements of BC k are those from From(k) up to To(k), exclusively.
From(k, a, b, c) == IF k = 0 THEN 1 ELSE IF k = 1 THEN a ELSE IF k = 2 THEN b ELSE c
To(k, a, b, c)   == IF k = 0 THEN a ELSE IF k = 1 THEN b ELSE IF k = 2 THEN c ELSE 17

LEMMA StepFromTo ==
  ASSUME NEW x, NEW f, NEW s, NEW a, NEW b, NEW c, Stair(s, x, f, a, b, c),
         NEW i \in 1..16, NEW k \in 0..3
  PROVE  s[i] = Before(x, k) <=> (From(k, a, b, c) <= i /\ i < To(k, a, b, c))
<1>1. /\ x \in 0..15 /\ f \in 0..5 /\ a \in 1..17 /\ b \in 1..17 /\ c \in 1..17
      /\ a \in {7 - f, 8 - f} /\ b \in {13 - f, 14 - f}
      /\ c \in IF f < 3 THEN {17} ELSE {19 - f, 20 - f}
      /\ s[i] = Before(x, Step(i, a, b, c))
  BY DEF Stair
<1>2. Step(i, a, b, c) = k <=> (From(k, a, b, c) <= i /\ i < To(k, a, b, c))
  BY <1>1 DEF Step, From, To
<1>3. s[i] = Before(x, k) <=> Step(i, a, b, c) = k
  <2>1. Step(i, a, b, c) \in 0..3
    BY <1>1, StepType
  <2> QED
    BY <1>1, <2>1, BeforeInjective
<1> QED
  BY <1>2, <1>3

\* How often v is among the first m BCIDs.
Occurrences(s, m, v) == Cardinality({i \in 1..m : s[i] = v})

LEMMA PrefixCount ==
  ASSUME NEW x, NEW f, NEW s, NEW a, NEW b, NEW c, Stair(s, x, f, a, b, c),
         NEW m \in 0..16, NEW k \in 0..3, NEW v, v = Before(x, k)
  PROVE  Occurrences(s, m, v) =
           IF m < From(k, a, b, c) THEN 0
           ELSE IF m < To(k, a, b, c) THEN m - From(k, a, b, c) + 1
           ELSE To(k, a, b, c) - From(k, a, b, c)
<1>1. /\ x \in 0..15 /\ f \in 0..5 /\ a \in 1..17 /\ b \in 1..17 /\ c \in 1..17
      /\ a \in {7 - f, 8 - f} /\ b \in {13 - f, 14 - f}
      /\ c \in IF f < 3 THEN {17} ELSE {19 - f, 20 - f}
  BY DEF Stair
<1> DEFINE from == From(k, a, b, c)
           to == To(k, a, b, c)
           last == IF m < to THEN m ELSE to - 1
<1>2. from \in 1..17 /\ to \in 1..17 /\ from <= to
  BY <1>1 DEF From, To
<1>3. ASSUME NEW i \in 1..16
      PROVE  s[i] = v <=> (from <= i /\ i < to)
  <2>1. s[i] = Before(x, k) <=> (From(k, a, b, c) <= i /\ i < To(k, a, b, c))
    BY StepFromTo
  <2> QED
    BY <2>1
<1> HIDE DEF from, to
<1>4. last \in Int
  BY <1>2
<1>5. {i \in 1..m : s[i] = v} = from..last
  BY <1>2, <1>3
<1>6. Cardinality(from..last) = IF from > last THEN 0 ELSE last - from + 1
  <2> HIDE DEF last
  <2> QED
    BY <1>2, <1>4, FS_Interval
<1>7. (IF from > last THEN 0 ELSE last - from + 1) =
        IF m < from THEN 0 ELSE IF m < to THEN m - from + 1 ELSE to - from
  BY <1>2
<1>8. Cardinality({i \in 1..m : s[i] = v}) =
        IF m < from THEN 0 ELSE IF m < to THEN m - from + 1 ELSE to - from
  <2> HIDE DEF last
  <2> QED
    BY <1>5, <1>6, <1>7
<1> QED
  BY <1>8 DEF from, to, Occurrences

LEMMA StairCount ==
  ASSUME NEW x, NEW f, NEW s, NEW a, NEW b, NEW c, Stair(s, x, f, a, b, c),
         NEW k \in 0..3
  PROVE  Count(s, Before(x, k)) = To(k, a, b, c) - From(k, a, b, c)
<1>1. /\ x \in 0..15 /\ f \in 0..5 /\ a \in 1..17 /\ b \in 1..17 /\ c \in 1..17
      /\ a \in {7 - f, 8 - f} /\ b \in {13 - f, 14 - f}
      /\ c \in IF f < 3 THEN {17} ELSE {19 - f, 20 - f}
      /\ DOMAIN s = 1..16
  BY DEF Stair
<1>2. Count(s, Before(x, k)) =
        IF 16 < From(k, a, b, c) THEN 0
        ELSE IF 16 < To(k, a, b, c) THEN 16 - From(k, a, b, c) + 1
        ELSE To(k, a, b, c) - From(k, a, b, c)
  <2>1. 16 \in 0..16 /\ Before(x, k) = Before(x, k)
    OBVIOUS
  <2>2. Count(s, Before(x, k)) = Occurrences(s, 16, Before(x, k))
    BY <1>1 DEF Count, Occurrences
  <2> QED
    BY <2>1, <2>2, PrefixCount
<1>3. /\ To(k, a, b, c) \in 1..17 /\ From(k, a, b, c) \in 1..17
      /\ (From(k, a, b, c) = 17 => To(k, a, b, c) = 17)
  BY <1>1 DEF From, To
<1> QED
  BY <1>2, <1>3

LEMMA StairPrefixCount ==
  ASSUME NEW x, NEW f, NEW s, NEW a, NEW b, NEW c, Stair(s, x, f, a, b, c),
         NEW k \in 0..3, NEW d \in 0..15, NEW v, v = Before(x, k)
  PROVE  Count(SubSeq(s, 1, d), v) =
           IF d < From(k, a, b, c) THEN 0
           ELSE IF d < To(k, a, b, c) THEN d - From(k, a, b, c) + 1
           ELSE To(k, a, b, c) - From(k, a, b, c)
<1> DEFINE p == SubSeq(s, 1, d)
<1>1. s \in Seq(0..15) /\ Len(s) = 16 /\ DOMAIN s = 1..16
  BY DEF Stair
<1>2. DOMAIN p = 1..d /\ \A i \in 1..d : p[i] = s[i]
  <2>1. d \in Int /\ \A i \in 1..d : s[i] \in 0..15
    <3>1. \A i \in 1..16 : s[i] \in 0..15
      BY <1>1, ElementOfSeq
    <3> QED
      BY <3>1
  <2>2. /\ p \in Seq(0..15) /\ Len(p) = IF 1 <= d THEN d - 1 + 1 ELSE 0
        /\ \A i \in 1..d - 1 + 1 : p[i] = s[1 + i - 1]
    BY <2>1, SubSeqProperties
  <2> HIDE DEF p
  <2>3. Len(p) = d /\ DOMAIN p = 1..Len(p)
    BY <2>2
  <2> QED
    BY <2>2, <2>3
<1> HIDE DEF p
<1>3. {i \in DOMAIN p : p[i] = v} = {i \in 1..d : s[i] = v}
  BY <1>2
<1>4. Count(p, v) = Occurrences(s, d, v)
  BY <1>3 DEF Count, Occurrences
<1>5. d \in 0..16
  OBVIOUS
<1>6. Count(p, v) =
           IF d < From(k, a, b, c) THEN 0
           ELSE IF d < To(k, a, b, c) THEN d - From(k, a, b, c) + 1
           ELSE To(k, a, b, c) - From(k, a, b, c)
  BY <1>4, <1>5, PrefixCount
<1> QED
  BY <1>6 DEF p

\* What is viable for a connected PFEB: one of the first three BCs, at least the
\* second.
LEMMA StairViable ==
  ASSUME NEW x, NEW f, NEW s, NEW a, NEW b, NEW c, Stair(s, x, f, a, b, c),
         NEW v \in 0..15
  PROVE  v \in ViableOf(s) <=>
           \E k \in 0..2 : v = Before(x, k) /\ To(k, a, b, c) - From(k, a, b, c) >= 4
<1>1. /\ x \in 0..15 /\ f \in 0..5 /\ a \in 1..17 /\ b \in 1..17 /\ c \in 1..17
      /\ a \in {7 - f, 8 - f} /\ b \in {13 - f, 14 - f}
      /\ c \in IF f < 3 THEN {17} ELSE {19 - f, 20 - f}
      /\ DOMAIN s = 1..16
      /\ \A i \in 1..16 : s[i] = Before(x, Step(i, a, b, c))
  BY DEF Stair
<1>2. v \in ViableOf(s) <=> Count(s, v) >= 4
  <2>1. checkPFEBBCIDs(s)
    BY StairChecked
  <2>2. v \in 0..PFEB_BCID_RANGE - 1
    BY Constants
  <2> QED
    BY <2>1, <2>2, Constants DEF ViableOf
<1>3. ASSUME NEW k \in 0..3, v = Before(x, k)
      PROVE  Count(s, v) = To(k, a, b, c) - From(k, a, b, c)
  <2>1. Count(s, Before(x, k)) = To(k, a, b, c) - From(k, a, b, c)
    BY StairCount
  <2> QED
    BY <1>3, <2>1
<1>4. To(3, a, b, c) - From(3, a, b, c) <= 3
  BY <1>1 DEF To, From
<1>5. ASSUME \A k \in 0..3 : v # Before(x, k)
      PROVE  Count(s, v) = 0
  <2>1. {i \in DOMAIN s : s[i] = v} = {}
    <3>1. ASSUME NEW i \in 1..16
          PROVE  s[i] # v
      <4>1. Step(i, a, b, c) \in 0..3
        <5>1. i \in Int /\ a \in Int /\ b \in Int /\ c \in Int
          BY <1>1
        <5> QED
          BY <5>1, StepType
      <4> QED
        BY <1>1, <1>5, <4>1
    <3> QED
      BY <1>1, <3>1
  <2> QED
    BY <2>1, FS_EmptySet DEF Count
<1>6. ASSUME NEW k \in 0..3
      PROVE  From(k, a, b, c) \in Int /\ To(k, a, b, c) \in Int
  BY <1>1 DEF From, To
<1>7. CASE \A k \in 0..3 : v # Before(x, k)
  BY <1>2, <1>5, <1>7
<1>8. ASSUME NEW k \in 0..3, v = Before(x, k)
      PROVE  v \in ViableOf(s) <=>
           \E j \in 0..2 : v = Before(x, j) /\ To(j, a, b, c) - From(j, a, b, c) >= 4
  <2>1. v \in ViableOf(s) <=> To(k, a, b, c) - From(k, a, b, c) >= 4
    BY <1>2, <1>3, <1>8
  <2>2. \A j \in 0..2 : v = Before(x, j) => j = k
    <3>1. ASSUME NEW j \in 0..2, v = Before(x, j)
          PROVE  j = k
      <4>1. j \in 0..3 /\ Before(x, j) = Before(x, k)
        BY <1>8, <3>1
      <4> QED
        BY <1>1, <4>1, BeforeInjective
    <3> QED
      BY <3>1
  <2>3. CASE k = 3
    <3>1. ~(To(k, a, b, c) - From(k, a, b, c) >= 4)
      BY <1>4, <1>6, <2>3
    <3> QED
      BY <2>1, <2>2, <2>3, <3>1
  <2>4. CASE k # 3
    <3>1. k \in 0..2
      BY <2>4
    <3> QED
      BY <1>8, <2>1, <2>2, <3>1
  <2> QED
    BY <2>3, <2>4
<1> QED
  BY <1>7, <1>8

\* The delays with which a PFEB is in BC k.
LEMMA BcidInverse ==
  ASSUME NEW x \in 0..15, NEW f \in 0..5, NEW d \in 0..15, NEW k \in 0..3,
         Bcid(<<x, f>>, d) = Before(x, k)
  PROVE  6 * k <= d + f /\ d + f < 6 * k + 6
<1>1. PICK j \in 0..3 : 6 * j <= d + f /\ d + f < 6 * j + 6
  <2>1. CASE d + f < 6
    BY <2>1
  <2>2. CASE 6 <= d + f /\ d + f < 12
    BY <2>2
  <2>3. CASE 12 <= d + f /\ d + f < 18
    BY <2>3
  <2>4. CASE 18 <= d + f
    BY <2>4
  <2> QED
    BY <2>1, <2>2, <2>3, <2>4
<1>2. Bcid(<<x, f>>, d) = Before(x, j)
  <2>1. d \in Int
    OBVIOUS
  <2> QED
    BY <1>1, <2>1, BcidBefore
<1>3. j = k
  BY <1>2, BeforeInjective
<1> QED
  BY <1>1, <1>3

LEMMA BcidOneOfFour ==
  ASSUME NEW x \in 0..15, NEW f \in 0..5, NEW d \in 0..15
  PROVE  \E k \in 0..3 : Bcid(<<x, f>>, d) = Before(x, k)
<1>1. d \in Int
  OBVIOUS
<1>2. CASE d + f < 6
  <2>1. 0 \in 0..3 /\ 6 * 0 <= d + f /\ d + f < 6 * 0 + 6
    BY <1>2
  <2> QED
    BY <1>1, <2>1, BcidBefore
<1>3. CASE 6 <= d + f /\ d + f < 12
  <2>1. 1 \in 0..3 /\ 6 * 1 <= d + f /\ d + f < 6 * 1 + 6
    BY <1>3
  <2> QED
    BY <1>1, <2>1, BcidBefore
<1>4. CASE 12 <= d + f /\ d + f < 18
  <2>1. 2 \in 0..3 /\ 6 * 2 <= d + f /\ d + f < 6 * 2 + 6
    BY <1>4
  <2> QED
    BY <1>1, <2>1, BcidBefore
<1>5. CASE 18 <= d + f
  <2>1. 3 \in 0..3 /\ 6 * 3 <= d + f /\ d + f < 6 * 3 + 6
    BY <1>5
  <2> QED
    BY <1>1, <2>1, BcidBefore
<1> QED
  BY <1>2, <1>3, <1>4, <1>5

\* The delays with which a PFEB with skew is in v.
DelaysIn(skew, v) == {d \in DelayRange : Bcid(skew, d) = v}

LEMMA DelaysInCount ==
  ASSUME NEW x \in 0..15, NEW f \in 0..5, NEW k \in 0..3, NEW v, v = Before(x, k),
         NEW lo \in 0..16, NEW hi \in 0..15, lo <= hi + 1,
         lo <= 6 * k - f \/ lo = 0, 6 * k + 5 - f <= hi \/ hi = 15
  PROVE  Cardinality(DelaysIn(<<x, f>>, v)) <= hi - lo + 1
<1> DEFINE D == DelaysIn(<<x, f>>, v)
<1>1. ASSUME NEW d \in D
      PROVE  d \in lo..hi
  <2>1. d \in 0..15 /\ Bcid(<<x, f>>, d) = Before(x, k)
    BY Constants DEF DelaysIn
  <2>2. 6 * k <= d + f /\ d + f < 6 * k + 6
    BY <2>1, BcidInverse
  <2> QED
    BY <2>1, <2>2
<1>2. IsFiniteSet(lo..hi) /\ Cardinality(lo..hi) = hi - lo + 1
  <2>1. lo \in Int /\ hi \in Int
    OBVIOUS
  <2>2. Cardinality(lo..hi) = IF lo > hi THEN 0 ELSE hi - lo + 1
    BY <2>1, FS_Interval
  <2> QED
    BY <2>1, <2>2, FS_Interval
<1>3. D \in SUBSET (lo..hi)
  BY <1>1
<1> HIDE DEF D
<1>4. Cardinality(D) <= Cardinality(lo..hi)
  BY <1>2, <1>3, FS_Subset
<1> QED
  BY <1>2, <1>4 DEF D

\* A BCID a PFEB has with at least five delays is viable for it.
LEMMA StairWide ==
  ASSUME NEW x, NEW f, NEW s, NEW a, NEW b, NEW c, Stair(s, x, f, a, b, c),
         NEW v \in 0..15, Cardinality(DelaysIn(<<x, f>>, v)) >= 5
  PROVE  v \in ViableOf(s)
<1>1. /\ x \in 0..15 /\ f \in 0..5 /\ a \in 1..17 /\ b \in 1..17 /\ c \in 1..17
      /\ a \in {7 - f, 8 - f} /\ b \in {13 - f, 14 - f}
      /\ c \in IF f < 3 THEN {17} ELSE {19 - f, 20 - f}
  BY DEF Stair
<1> DEFINE n == Cardinality(DelaysIn(<<x, f>>, v))
<1>2. n \in Nat /\ DelaysIn(<<x, f>>, v) # {}
  <2>1. IsFiniteSet(0..15)
    <3>1. 0 \in Int /\ 15 \in Int
      OBVIOUS
    <3> QED
      BY <3>1, FS_Interval
  <2>2. DelaysIn(<<x, f>>, v) \in SUBSET (0..15)
    BY Constants DEF DelaysIn
  <2>3. IsFiniteSet(DelaysIn(<<x, f>>, v))
    BY <2>1, <2>2, FS_Subset
  <2>4. n \in Nat
    BY <2>3, FS_CardinalityType
  <2>5. n # 0
    BY <2>4
  <2> QED
    BY <2>3, <2>4, <2>5, FS_EmptySet
<1>3. PICK k \in 0..3 : v = Before(x, k)
  <2>1. PICK d \in 0..15 : Bcid(<<x, f>>, d) = v
    BY <1>2, Constants DEF DelaysIn
  <2> QED
    BY <1>1, <2>1, BcidOneOfFour
<1> HIDE DEF n
<1>4. n >= 5
  BY DEF n
<1>5. CASE k = 0
  <2>1. /\ 0 \in 0..16 /\ 5 - f \in 0..15 /\ 0 <= (5 - f) + 1
        /\ 6 * k + 5 - f <= 5 - f
    BY <1>1, <1>5
  <2>2. n <= (5 - f) - 0 + 1
    BY <1>1, <1>3, <2>1, DelaysInCount DEF n
  <2>3. To(0, a, b, c) - From(0, a, b, c) >= 4
    BY <1>1, <1>2, <1>4, <2>2 DEF To, From
  <2> QED
    BY <1>3, <1>5, <2>3, StairViable
<1>6. CASE k = 1
  <2>1. To(1, a, b, c) - From(1, a, b, c) >= 4
    BY <1>1 DEF To, From
  <2> QED
    BY <1>3, <1>6, <2>1, StairViable
<1>7. CASE k = 2
  <2>1. /\ 12 - f \in 0..16 /\ 15 \in 0..15 /\ 12 - f <= 15 + 1
        /\ 12 - f <= 6 * k - f
    BY <1>1, <1>7
  <2>2. n <= 15 - (12 - f) + 1
    BY <1>1, <1>3, <2>1, DelaysInCount DEF n
  <2>3. To(2, a, b, c) - From(2, a, b, c) >= 4
    BY <1>1, <1>2, <1>4, <2>2 DEF To, From
  <2> QED
    BY <1>3, <1>7, <2>3, StairViable
<1>8. CASE k = 3
  <2>1. /\ 13 \in 0..16 /\ 15 \in 0..15 /\ 13 <= 15 + 1
        /\ 13 <= 6 * k - f
    BY <1>1, <1>8
  <2>2. n <= 15 - 13 + 1
    BY <1>1, <1>3, <2>1, DelaysInCount DEF n
  <2> QED
    BY <1>2, <1>4, <2>2
<1> QED
  BY <1>3, <1>5, <1>6, <1>7, <1>8

\* With the delay chosen for a viable BCID the PFEB is in it, and still is one
\* delay earlier or later.
LEMMA StairTarget ==
  ASSUME NEW x, NEW f, NEW s, NEW a, NEW b, NEW c, Stair(s, x, f, a, b, c),
         NEW v \in 0..15, v \in ViableOf(s), NEW e \in {-1, 0, 1}
  PROVE  Bcid(<<x, f>>, getTargetDelay(v, s) + e) = v
<1>1. /\ x \in 0..15 /\ f \in 0..5 /\ a \in 1..17 /\ b \in 1..17 /\ c \in 1..17
      /\ a \in {7 - f, 8 - f} /\ b \in {13 - f, 14 - f}
      /\ c \in IF f < 3 THEN {17} ELSE {19 - f, 20 - f}
      /\ s[1] = Before(x, Step(1, a, b, c))
  BY DEF Stair
<1>2. PICK k \in 0..2 : v = Before(x, k) /\ To(k, a, b, c) - From(k, a, b, c) >= 4
  BY StairViable
<1> DEFINE from == From(k, a, b, c)
           to == To(k, a, b, c)
           before == IF s[1] = v THEN 6 - Count(s, v) ELSE 0
           D == IF k = 0 THEN a - 4 ELSE from + 2
           centred == {d \in DelayRange : before + Count(SubSeq(s, 1, d), v) = 3}
<1>3. s[1] = v <=> k = 0
  <2>1. Step(1, a, b, c) = 0
    BY <1>1 DEF Step
  <2> QED
    BY <1>1, <1>2, <2>1, BeforeInjective
<1>4. from \in 1..17 /\ to \in 1..17 /\ (k = 0 => from = 1 /\ to = a)
  BY <1>1 DEF From, To
<1>5. Count(s, v) = to - from
  BY <1>2, StairCount
<1>6. before = IF k = 0 THEN 7 - a ELSE 0
  BY <1>1, <1>3, <1>4, <1>5
<1>7. \A d \in 0..15 : Count(SubSeq(s, 1, d), v) =
        IF d < from THEN 0 ELSE IF d < to THEN d - from + 1 ELSE to - from
  BY <1>2, StairPrefixCount
<1>8. to - from >= 4
  BY <1>2
<1> HIDE DEF from, to, before
<1>9. D \in 0..15
  BY <1>1, <1>4, <1>8
<1>10. \A d \in 0..15 : before + Count(SubSeq(s, 1, d), v) = 3 <=> d = D
  BY <1>1, <1>4, <1>6, <1>7, <1>8
<1>11. centred = {D}
  BY <1>9, <1>10, Constants
<1>12. getTargetDelay(v, s) = D
  <2>1. getTargetDelay(v, s) = IF centred # {} THEN Min(centred) ELSE 0
    BY StairChecked, Constants DEF getTargetDelay, before
  <2>2. D \in Nat
    BY <1>9
  <2> HIDE DEF D, centred
  <2> QED
    BY <1>11, <2>1, <2>2, MinOfOne
<1>13. 6 * k <= D + e + f /\ D + e + f < 6 * k + 6
  <2>1. k = 1 => from \in {7 - f, 8 - f}
    BY <1>1 DEF from, From
  <2>2. k = 2 => from \in {13 - f, 14 - f}
    BY <1>1 DEF from, From
  <2> QED
    BY <1>1, <1>4, <1>8, <2>1, <2>2
<1>14. D + e \in Int /\ k \in 0..3
  BY <1>9
<1> HIDE DEF D
<1>15. Bcid(<<x, f>>, D + e) = Before(x, k)
  BY <1>1, <1>13, <1>14, BcidBefore
<1> QED
  BY <1>2, <1>12, <1>15

-----------------------------------------------------------------------------
(* A scan of all delays. *)

\* n delays have been scanned.
ScanOf(B, n) ==
  /\ B \in [PFEBs -> Seq(0..15)]
  /\ \A p \in PFEBs : /\ Len(B[p]) = n
                      /\ \A i \in 1..n : B[p][i] \in Medians(skews[p], CommonDelay(i - 1)[p])

Connected(p) == skews[p] # <<>> /\ Moved(p)

LEMMA SkewParts ==
  ASSUME NEW skew \in Skews, skew # <<>>
  PROVE  \E x \in 0..15, f \in 0..5 : skew = <<x, f>>
<1>1. skew \in (0..PFEB_BCID_RANGE - 1) \X (0..5)
  BY DeskewAssumption
<1>2. PFEB_BCID_RANGE - 1 = 15
  BY Constants
<1> QED
  BY <1>1, <1>2

LEMMA CommonDelayOf ==
  ASSUME NEW p \in PFEBs, NEW d
  PROVE  CommonDelay(d)[p] = IF Moved(p) THEN d ELSE 0
BY DEF CommonDelay, Moved

\* A PFEB that is connected and moved shows a staircase, ...
LEMMA ConnectedStair ==
  ASSUME skews \in [PFEBs -> Skews], NEW B, ScanOf(B, 16), NEW p \in PFEBs, Connected(p)
  PROVE  \E x, f, a, b, c : skews[p] = <<x, f>> /\ Stair(B[p], x, f, a, b, c)
<1>1. skews[p] \in Skews /\ skews[p] # <<>> /\ Moved(p)
  BY DEF Connected
<1>2. PICK x \in 0..15, f \in 0..5 : skews[p] = <<x, f>>
  BY <1>1, SkewParts
<1>3. \A i \in 1..16 : CommonDelay(i - 1)[p] = i - 1
  BY <1>1, CommonDelayOf
<1>4. /\ B[p] \in Seq(0..15) /\ Len(B[p]) = 16
      /\ \A i \in 1..16 : B[p][i] \in Medians(skews[p], CommonDelay(i - 1)[p])
  BY DEF ScanOf
<1>5. DOMAIN B[p] = 1..16
  BY <1>4, LenProperties
<1>6. \A i \in 1..16 : B[p][i] \in Medians(<<x, f>>, i - 1)
  BY <1>2, <1>3, <1>4
<1>7. ReadsOf(B[p], x, f)
  BY <1>4, <1>5, <1>6 DEF ReadsOf
<1>8. \E a, b, c \in 1..17 : Stair(B[p], x, f, a, b, c)
  BY <1>7, StairExists
<1> QED
  BY <1>2, <1>8

\* ... every other one the same BCID for all delays.
LEMMA OtherConstant ==
  ASSUME skews \in [PFEBs -> Skews], NEW B, ScanOf(B, 16), NEW p \in PFEBs, ~Connected(p)
  PROVE  ViableOf(B[p]) = {}
<1>1. /\ B[p] \in Seq(0..15) /\ Len(B[p]) = 16
      /\ \A i \in 1..16 : B[p][i] \in Medians(skews[p], CommonDelay(i - 1)[p])
  BY DEF ScanOf
<1>2. DOMAIN B[p] = 1..16
  BY <1>1, LenProperties
<1>3. CASE skews[p] = <<>>
  <2>1. \A i \in 1..16 : B[p][i] = PFEB_BCID_DISCONNECTED
    BY <1>1, <1>3 DEF Medians
  <2> QED
    BY <1>2, <2>1 DEF ViableOf, checkPFEBBCIDs
<1>4. CASE skews[p] # <<>>
  <2>1. ~Moved(p)
    BY <1>4 DEF Connected
  <2>2. \A i \in 1..16 : CommonDelay(i - 1)[p] = 0
    BY <2>1, CommonDelayOf
  <2>3. \A i \in 1..16 : B[p][i] \in Medians(skews[p], 0)
    BY <1>1, <2>2
  <2>4. Medians(skews[p], 0) = {Bcid(skews[p], 0)}
    BY <1>4 DEF Medians
  <2>5. \A i \in 1..16 : B[p][i] = Bcid(skews[p], 0)
    BY <2>3, <2>4
  <2> QED
    BY <1>2, <2>5 DEF ViableOf, checkPFEBBCIDs
<1> QED
  BY <1>3, <1>4

\* What ViableOf contains.
LEMMA ViableNumbers ==
  ASSUME NEW s
  PROVE  ViableOf(s) \in SUBSET (0..15)
BY Constants DEF ViableOf

LEMMA ConnectedViable ==
  ASSUME skews \in [PFEBs -> Skews], NEW B, ScanOf(B, 16), NEW p \in PFEBs, Connected(p)
  PROVE  /\ ViableOf(B[p]) # {}
         /\ IsFiniteSet(ViableOf(B[p])) /\ Cardinality(ViableOf(B[p])) <= 3
         /\ \A v \in 0..15 : Cardinality(DelaysIn(skews[p], v)) >= 5 => v \in ViableOf(B[p])
         /\ \A v \in ViableOf(B[p]) : \A e \in {-1, 0, 1} :
              Bcid(skews[p], getTargetDelay(v, B[p]) + e) = v
<1>1. PICK x, f, a, b, c : skews[p] = <<x, f>> /\ Stair(B[p], x, f, a, b, c)
  BY ConnectedStair
<1> DEFINE V == ViableOf(B[p])
           s == B[p]
<1>2. Stair(s, x, f, a, b, c) /\ skews[p] = <<x, f>>
  BY <1>1
<1>3. x \in 0..15 /\ To(1, a, b, c) - From(1, a, b, c) >= 4
  <2>1. x \in 0..15 /\ f \in 0..5 /\ a \in {7 - f, 8 - f} /\ b \in {13 - f, 14 - f}
    BY <1>2 DEF Stair
  <2> QED
    BY <2>1 DEF To, From
<1>4. V \in SUBSET (0..15)
  BY ViableNumbers
<1> HIDE DEF s
<1>5. Before(x, 1) \in ViableOf(s)
  <2>1. Before(x, 1) \in 0..15 /\ 1 \in 0..2
    BY <1>3, BeforeType
  <2> QED
    BY <1>2, <1>3, <2>1, StairViable
<1>6. \A v \in 0..15 : v \in ViableOf(s) => v \in {Before(x, 0), Before(x, 1), Before(x, 2)}
  BY <1>2, StairViable
<1>7. \A v \in 0..15 : Cardinality(DelaysIn(skews[p], v)) >= 5 => v \in ViableOf(s)
  BY <1>2, StairWide
<1>8. ASSUME NEW v \in ViableOf(s), NEW e \in {-1, 0, 1}
      PROVE  Bcid(skews[p], getTargetDelay(v, s) + e) = v
  <2>1. v \in 0..15
    BY ViableNumbers
  <2> QED
    BY <1>2, <2>1, StairTarget
<1>9. V = ViableOf(s)
  BY DEF s
<1> HIDE DEF V
<1>10. V \subseteq {Before(x, 0), Before(x, 1), Before(x, 2)}
  BY <1>4, <1>6, <1>9
<1> DEFINE T == (({} \cup {Before(x, 0)}) \cup {Before(x, 1)}) \cup {Before(x, 2)}
<1>11. IsFiniteSet(T) /\ Cardinality(T) <= 3
  <2>1. IsFiniteSet({}) /\ Cardinality({}) = 0
    BY FS_EmptySet
  <2>2. IsFiniteSet({} \cup {Before(x, 0)}) /\ Cardinality({} \cup {Before(x, 0)}) \in 0..1
    BY <2>1, FS_AddElement
  <2> DEFINE T1 == {} \cup {Before(x, 0)}
             T2 == T1 \cup {Before(x, 1)}
  <2> HIDE DEF T1
  <2>3. IsFiniteSet(T2) /\ Cardinality(T2) \in 0..2
    BY <2>2, FS_AddElement DEF T1
  <2>4. T = T2 \cup {Before(x, 2)}
    BY DEF T1
  <2> HIDE DEF T2, T
  <2> QED
    BY <2>3, <2>4, FS_AddElement
<1>12. V \in SUBSET T
  BY <1>10
<1> HIDE DEF T
<1>13. IsFiniteSet(V) /\ Cardinality(V) <= 3
  <2>1. IsFiniteSet(V) /\ Cardinality(V) <= Cardinality(T)
    BY <1>11, <1>12, FS_Subset
  <2>2. Cardinality(V) \in Nat /\ Cardinality(T) \in Nat
    BY <1>11, <2>1, FS_CardinalityType
  <2> QED
    BY <1>11, <2>1, <2>2
<1> QED
  BY <1>5, <1>7, <1>8, <1>9, <1>13 DEF V, s

-----------------------------------------------------------------------------
(* The target. *)

LEMMA PFEBsFinite == IsFiniteSet(PFEBs) /\ PFEBs \in SUBSET (0..23) /\ PFEBs # {}
<1>1. PFEBs \in SUBSET (0..23) /\ PFEBs # {}
  BY DeskewAssumption
<1>2. 0 \in Int /\ 23 \in Int
  OBVIOUS
<1>3. IsFiniteSet(0..23)
  BY <1>2, FS_Interval
<1> QED
  BY <1>1, <1>3, FS_Subset

\* The least element of a set of delays that is more than half of a set.
LEMMA MedianIsDelay ==
  ASSUME NEW b, NEW B, DOMAIN B = PFEBs
  PROVE  getMedianDelay(b, B) \in Nat
<1> DEFINE checked == {p \in DOMAIN B : checkPFEBBCIDs(B[p])}
           found   == {at \in checked \X DelayRange : B[at[1]][at[2] + 1] = b}
           upTo(d) == Cardinality({at \in found : at[2] <= d})
           half    == {d \in DelayRange : upTo(d) > Cardinality(found) \div 2}
<1>1. getMedianDelay(b, B) = IF found = {} THEN 0 ELSE Min(half)
  BY DEF getMedianDelay
<1>2. IsFiniteSet(found)
  <2>1. checked \in SUBSET PFEBs
    OBVIOUS
  <2>2. IsFiniteSet(checked)
    BY <2>1, PFEBsFinite, FS_Subset
  <2>3. IsFiniteSet(DelayRange)
    <3>1. 0 \in Int /\ 15 \in Int
      OBVIOUS
    <3> QED
      BY <3>1, FS_Interval, Constants
  <2> HIDE DEF checked
  <2>4. IsFiniteSet(checked \X DelayRange)
    BY <2>2, <2>3, FS_Product
  <2>5. found \in SUBSET (checked \X DelayRange)
    OBVIOUS
  <2> HIDE DEF found
  <2> QED
    BY <2>4, <2>5, FS_Subset
<1>3. \A at \in found : at[2] \in 0..15
  BY Constants
<1>4. {at \in found : at[2] <= 15} = found
  <2> HIDE DEF found
  <2> QED
    BY <1>3
<1>5. upTo(15) = Cardinality(found)
  BY <1>4
<1> HIDE DEF found
<1>6. Cardinality(found) \in Nat /\ (found # {} => Cardinality(found) # 0)
  BY <1>2, FS_CardinalityType, FS_EmptySet
<1>7. CASE found = {}
  BY <1>1, <1>7
<1>8. CASE found # {}
  <2>1. Cardinality(found) > Cardinality(found) \div 2
    <3> DEFINE n == Cardinality(found)
    <3>1. n \in Nat /\ n # 0
      BY <1>6, <1>8
    <3> HIDE DEF n
    <3>2. n > n \div 2
      BY <3>1
    <3> QED
      BY <3>2 DEF n
  <2>2. 15 \in half
    BY <1>5, <2>1, Constants
  <2>3. half \in SUBSET Nat
    BY Constants
  <2> HIDE DEF half
  <2>4. Min(half) \in half
    BY <2>2, <2>3, MinOfNumbers
  <2> QED
    BY <1>1, <1>8, <2>3, <2>4
<1> QED
  BY <1>7, <1>8

LEMMA TargetViable ==
  ASSUME NEW B, DOMAIN B = PFEBs
  PROVE  /\ getViableBcids(B) \in SUBSET (0..15)
         /\ IF Cardinality(getViableBcids(B)) \in 1..3
              THEN getTargetBcid(B) \in getViableBcids(B)
              ELSE getTargetBcid(B) = NoTarget
<1> DEFINE V      == getViableBcids(B)
           median == [b \in V |-> getMedianDelay(b, B)]
           first  == {b \in V : \A c \in V : median[b] <= median[c]}
<1>1. V \in SUBSET (0..15)
  BY Constants DEF getViableBcids
<1>2. getTargetBcid(B) = IF Cardinality(V) \in 1..3 THEN Min(first) ELSE NoTarget
  BY DEF getTargetBcid
<1>3. \A b \in V : median[b] \in Nat
  BY MedianIsDelay
<1> HIDE DEF V, median
<1>4. CASE Cardinality(V) \in 1..3
  <2>1. V # {}
    BY <1>4, FS_EmptySet
  <2> DEFINE M == {median[b] : b \in V}
  <2>2. M \in SUBSET Nat /\ M # {}
    BY <1>3, <2>1
  <2>3. PICK m \in M : \A k \in M : m <= k
    <3> HIDE DEF M
    <3> QED
      BY <2>2, LeastNumber
  <2>4. PICK b \in V : m = median[b]
    OBVIOUS
  <2>5. b \in first
    BY <2>3, <2>4
  <2>6. first \in SUBSET Nat /\ first \subseteq V
    <3>1. V \subseteq Nat
      BY <1>1
    <3>2. first \subseteq V
      OBVIOUS
    <3> HIDE DEF first
    <3> QED
      BY <3>1, <3>2
  <2> HIDE DEF first
  <2>7. Min(first) \in first
    BY <2>5, <2>6, MinOfNumbers
  <2> QED
    BY <1>1, <1>2, <1>4, <2>6, <2>7 DEF V
<1>5. CASE ~(Cardinality(V) \in 1..3)
  BY <1>1, <1>2, <1>5 DEF V
<1> QED
  BY <1>4, <1>5

\* A BCID of getViableBcids is viable for every PFEB that has a viable one.
LEMMA ViableForAll ==
  ASSUME NEW B, DOMAIN B = PFEBs, NEW v
  PROVE  v \in getViableBcids(B) <=>
           /\ v \in 0..15
           /\ \E p \in PFEBs : ViableOf(B[p]) # {}
           /\ \A p \in PFEBs : ViableOf(B[p]) # {} => v \in ViableOf(B[p])
<1> DEFINE all == {ViableOf(B[p]) : p \in DOMAIN B} \ {{}}
<1>1. getViableBcids(B) =
        IF all = {} THEN {} ELSE {b \in 0..15 : \A viable \in all : b \in viable}
  BY Constants DEF getViableBcids
<1>2. all # {} <=> \E p \in PFEBs : ViableOf(B[p]) # {}
  OBVIOUS
<1>3. (\A viable \in all : v \in viable)
        <=> \A p \in PFEBs : ViableOf(B[p]) # {} => v \in ViableOf(B[p])
  OBVIOUS
<1> HIDE DEF all
<1> QED
  BY <1>1, <1>2, <1>3

-----------------------------------------------------------------------------
(* The inductive invariant. *)

\* n delays have been scanned; with all of them the delays are chosen.
DeskewInv ==
  /\ scanOnly \in BOOLEAN /\ folded \in BOOLEAN
  /\ skews \in [PFEBs -> Skews]
  /\ stage \in {"scan", "apply", "done", "failed"}
  /\ delays \in [PFEBs -> DelayRange] /\ existingDelays \in [PFEBs -> DelayRange]
  /\ \E n \in 0..16 : /\ ScanOf(bcidPerPfebPerDelay, n)
                      /\ stage = "scan" => n < 16
                      /\ stage \in {"apply", "done"} => n = 16
  /\ stage = "done" => /\ targetBcid = getTargetBcid(bcidPerPfebPerDelay)
                       /\ delays = chosenDelays(targetBcid)

LEMMA ScannedNumber ==
  ASSUME NEW n, ScanOf(bcidPerPfebPerDelay, n)
  PROVE  scanned = n
<1>1. (CHOOSE p \in PFEBs : TRUE) \in PFEBs
  BY PFEBsFinite
<1> QED
  BY <1>1 DEF ScanOf, scanned

LEMMA InvImpliesType == DeskewInv => DeskewTypeOK
<1> SUFFICES ASSUME DeskewInv PROVE DeskewTypeOK
  OBVIOUS
<1>1. PICK n \in 0..16 : /\ ScanOf(bcidPerPfebPerDelay, n)
                         /\ stage \in {"apply", "done"} => n = 16
  BY DEF DeskewInv
<1>2. scanned = n
  BY <1>1, ScannedNumber
<1>3. \A p \in PFEBs : Len(bcidPerPfebPerDelay[p]) <= NUM_INPUT_DELAYS
  BY <1>1, Constants DEF ScanOf
<1> QED
  BY <1>1, <1>2, <1>3, Constants DEF DeskewInv, DeskewTypeOK

LEMMA InvImpliesAligns == DeskewInv => DeskewAligns
<1> SUFFICES ASSUME DeskewInv, stage = "done", ~scanOnly
             PROVE  DeskewAligns
  BY DEF DeskewInv, DeskewAligns, chosenDelays
<1> DEFINE B == bcidPerPfebPerDelay
           connected == {p \in PFEBs : skews[p] # <<>> /\ Moved(p)}
           wide(p) == {b \in 0..PFEB_BCID_RANGE - 1 :
                         Cardinality({d \in DelayRange : Bcid(skews[p], d) = b}) >= 5}
<1>1. ScanOf(B, 16) /\ skews \in [PFEBs -> Skews]
  BY DEF DeskewInv
<1>2. DOMAIN B = PFEBs
  BY <1>1 DEF ScanOf
<1>3. targetBcid = getTargetBcid(B) /\ delays = getTargetDelays(targetBcid, B)
  BY DEF DeskewInv, chosenDelays
<1> HIDE DEF B
<1>4. \A p \in connected : p \in PFEBs /\ Connected(p)
  BY DEF Connected
<1>5. \A p \in PFEBs : p \notin connected => ViableOf(B[p]) = {}
  <2>1. \A p \in PFEBs : p \notin connected => ~Connected(p)
    BY DEF Connected
  <2> QED
    BY <1>1, <2>1, OtherConstant
<1>6. \A p \in PFEBs : \A b \in wide(p) : b \in 0..15 /\ Cardinality(DelaysIn(skews[p], b)) >= 5
  BY Constants DEF DelaysIn
<1> HIDE DEF connected, wide
<1>7. ASSUME NEW b \in 0..PFEB_BCID_RANGE - 1, \A p \in connected : b \in wide(p),
             connected # {}
      PROVE  targetBcid # NoTarget
  <2>1. PICK q \in connected : q \in PFEBs /\ Connected(q)
    BY <1>4, <1>7
  <2> DEFINE V == getViableBcids(B)
             Vq == ViableOf(B[q])
  <2>2. IsFiniteSet(Vq) /\ Cardinality(Vq) <= 3 /\ Vq # {}
    BY <1>1, <2>1, ConnectedViable
  <2>3. b \in 0..15
    BY Constants
  <2>4. ASSUME NEW p \in PFEBs, ViableOf(B[p]) # {}
        PROVE  b \in ViableOf(B[p])
    <3>1. p \in connected
      BY <1>5, <2>4
    <3>2. b \in wide(p) /\ Connected(p)
      BY <1>4, <1>7, <3>1
    <3>3. Cardinality(DelaysIn(skews[p], b)) >= 5
      BY <1>6, <3>2
    <3> QED
      BY <1>1, <2>3, <3>2, <3>3, ConnectedViable
  <2>5. b \in V
    BY <1>2, <2>1, <2>2, <2>3, <2>4, ViableForAll
  <2>6. V \in SUBSET Vq
    BY <1>2, <2>1, <2>2, ViableForAll
  <2> HIDE DEF V, Vq
  <2>7. IsFiniteSet(V) /\ Cardinality(V) <= Cardinality(Vq)
    BY <2>2, <2>6, FS_Subset
  <2>8. Cardinality(V) \in Nat /\ Cardinality(V) # 0 /\ Cardinality(Vq) \in Nat
    BY <2>2, <2>5, <2>7, FS_CardinalityType, FS_EmptySet
  <2>9. Cardinality(V) \in 1..3
    BY <2>2, <2>7, <2>8
  <2>10. targetBcid \in V /\ V \in SUBSET (0..15)
    BY <1>2, <1>3, <2>9, TargetViable DEF V
  <2> QED
    BY <2>10 DEF NoTarget
<1>8. ASSUME targetBcid # NoTarget, NEW p \in connected, NEW e \in {-1, 0, 1}
      PROVE  Bcid(skews[p], delays[p] + e) = targetBcid
  <2>1. p \in PFEBs /\ Connected(p)
    BY <1>4
  <2>2. targetBcid \in getViableBcids(B)
    BY <1>2, <1>3, <1>8, TargetViable
  <2>3. ViableOf(B[p]) # {}
    BY <1>1, <2>1, ConnectedViable
  <2>4. targetBcid \in ViableOf(B[p])
    BY <1>2, <2>1, <2>2, <2>3, ViableForAll
  <2>5. delays[p] = getTargetDelay(targetBcid, B[p])
    BY <1>2, <1>3, <2>1 DEF getTargetDelays
  <2>6. Bcid(skews[p], getTargetDelay(targetBcid, B[p]) + e) = targetBcid
    BY <1>1, <2>1, <2>4, ConnectedViable
  <2> QED
    BY <2>5, <2>6
<1>9. ASSUME targetBcid # NoTarget, NEW p \in connected,
             NEW d \in {delays[p] - 1, delays[p], delays[p] + 1}
      PROVE  Bcid(skews[p], d) = targetBcid
  <2>1. p \in PFEBs
    BY <1>4
  <2>2. delays[p] \in Int
    BY <2>1, Constants DEF DeskewInv
  <2>3. \E e \in {-1, 0, 1} : d = delays[p] + e
    BY <2>2
  <2> QED
    BY <1>8, <1>9, <2>3
<1> QED
  BY <1>7, <1>9 DEF DeskewAligns, connected, wide

LEMMA InvInit == DeskewInit => DeskewInv
<1> SUFFICES ASSUME DeskewInit PROVE DeskewInv
  OBVIOUS
<1>1. Existing \in [PFEBs -> DelayRange]
  BY DeskewAssumption
<1>2. ScanOf(bcidPerPfebPerDelay, 0)
  <2>1. bcidPerPfebPerDelay = [p \in PFEBs |-> <<>>]
    BY DEF DeskewInit
  <2>2. <<>> \in Seq(0..15) /\ Len(<<>>) = 0
    OBVIOUS
  <2> QED
    BY <2>1, <2>2 DEF ScanOf
<1> QED
  BY <1>1, <1>2 DEF DeskewInit, DeskewInv

LEMMA CommonDelayType ==
  ASSUME NEW n \in 0..15
  PROVE  CommonDelay(n) \in [PFEBs -> DelayRange]
BY Constants DEF CommonDelay

LEMMA ChosenDelaysType ==
  ASSUME DeskewInv, NEW v
  PROVE  chosenDelays(v) \in [PFEBs -> DelayRange]
<1> DEFINE B == bcidPerPfebPerDelay
<1>1. DOMAIN B = PFEBs
  BY DEF DeskewInv, ScanOf
<1>2. ASSUME NEW p \in PFEBs
      PROVE  getTargetDelay(v, B[p]) \in DelayRange
  <2> DEFINE before  == IF B[p][1] = v THEN NUM_INPUT_DELAYS_PER_BC - Count(B[p], v) ELSE 0
             centred == {d \in DelayRange : before + Count(SubSeq(B[p], 1, d), v) = TARGETPOS}
  <2>1. getTargetDelay(v, B[p]) =
          IF checkPFEBBCIDs(B[p]) /\ centred # {} THEN Min(centred) ELSE 0
    BY DEF getTargetDelay
  <2>2. centred \in SUBSET (0..15) /\ centred \in SUBSET Nat
    BY Constants
  <2> HIDE DEF centred
  <2>3. centred # {} => Min(centred) \in 0..15
    BY <2>2, MinOfNumbers
  <2> QED
    BY <2>1, <2>3, Constants
<1>3. getTargetDelays(v, B) \in [PFEBs -> DelayRange]
  BY <1>1, <1>2 DEF getTargetDelays
<1> QED
  BY <1>3 DEF chosenDelays, DeskewInv

LEMMA InvStep == DeskewInv /\ [DeskewNext]_deskewVars => DeskewInv'
<1> SUFFICES ASSUME DeskewInv, [DeskewNext]_deskewVars
             PROVE  DeskewInv'
  OBVIOUS
<1>1. PICK n \in 0..16 : /\ ScanOf(bcidPerPfebPerDelay, n)
                         /\ stage = "scan" => n < 16
                         /\ stage \in {"apply", "done"} => n = 16
  BY DEF DeskewInv
<1>2. scanned = n
  BY <1>1, ScannedNumber
<1>3. CASE ScanDelay
  <2>1. n \in 0..15 /\ stage = "scan" /\ delays' = CommonDelay(n)
    BY <1>2, <1>3, Constants DEF ScanDelay
  <2>2. UNCHANGED settled
    BY <1>3 DEF ScanDelay
  <2>3. PICK column \in [PFEBs -> 0..15] :
          /\ \A p \in PFEBs : column[p] \in Medians(skews[p], delays'[p])
          /\ bcidPerPfebPerDelay' =
               [p \in PFEBs |-> Append(bcidPerPfebPerDelay[p], column[p])]
    <3>1. PFEB_BCID_RANGE - 1 = 15
      BY Constants
    <3>2. PICK column \in {c \in [PFEBs -> 0..PFEB_BCID_RANGE - 1] :
                             \A p \in PFEBs : c[p] \in Medians(skews[p], delays'[p])} :
            bcidPerPfebPerDelay' = [p \in PFEBs |-> Append(bcidPerPfebPerDelay[p], column[p])]
      BY ONLY <1>3 DEF ScanDelay
    <3> QED
      BY ONLY <3>1, <3>2
  <2>4. ScanOf(bcidPerPfebPerDelay, n + 1)'
    <3> DEFINE B == bcidPerPfebPerDelay
    <3>1. ASSUME NEW p \in PFEBs
          PROVE  /\ B'[p] \in Seq(0..15) /\ Len(B'[p]) = n + 1
                 /\ \A i \in 1..n + 1 : B'[p][i] \in Medians(skews[p], CommonDelay(i - 1)[p])
      <4> DEFINE s == B[p]
      <4>1. /\ s \in Seq(0..15) /\ Len(s) = n
            /\ \A i \in 1..n : s[i] \in Medians(skews[p], CommonDelay(i - 1)[p])
        BY <1>1 DEF ScanOf
      <4>2. B'[p] = Append(s, column[p]) /\ column[p] \in 0..15
        BY <2>3
      <4>3. column[p] \in Medians(skews[p], CommonDelay(n)[p])
        BY <2>1, <2>3
      <4> HIDE DEF s
      <4>4. /\ Append(s, column[p]) \in Seq(0..15) /\ Len(Append(s, column[p])) = n + 1
            /\ \A i \in 1..n : Append(s, column[p])[i] = s[i]
            /\ Append(s, column[p])[n + 1] = column[p]
        BY <4>1, <4>2, AppendProperties
      <4>5. ASSUME NEW i \in 1..n + 1
            PROVE  Append(s, column[p])[i] \in Medians(skews[p], CommonDelay(i - 1)[p])
        <5>1. CASE i \in 1..n
          BY <4>1, <4>4, <5>1
        <5>2. CASE i = n + 1
          <6>1. i - 1 = n
            BY <1>1, <5>2
          <6> QED
            BY <4>3, <4>4, <5>2, <6>1
        <5>3. i \in 1..n \/ i = n + 1
          BY <1>1
        <5> QED
          BY <5>1, <5>2, <5>3
      <4> QED
        BY <4>2, <4>4, <4>5
    <3>2. B' \in [PFEBs -> Seq(0..15)]
      BY <2>3, <3>1
    <3>3. skews' = skews /\ folded' = folded
      BY <2>2 DEF settled
    <3>4. \A d : CommonDelay(d)' = CommonDelay(d)
      BY <3>3 DEF CommonDelay
    <3> QED
      BY <3>1, <3>2, <3>3, <3>4 DEF ScanOf
  <2>5. delays' \in [PFEBs -> DelayRange]
    BY <2>1, CommonDelayType
  <2>6. stage' = IF n + 1 = 16 THEN "apply" ELSE "scan"
    BY <1>2, <1>3, Constants DEF ScanDelay
  <2>7. n + 1 \in 0..16
    BY <2>1
  <2>8. /\ ScanOf(bcidPerPfebPerDelay, n + 1)'
        /\ stage' = "scan" => n + 1 < 16
        /\ stage' \in {"apply", "done"} => n + 1 = 16
    BY <2>1, <2>4, <2>6
  <2> QED
    BY <2>2, <2>5, <2>6, <2>7, <2>8 DEF DeskewInv, settled
<1>4. ASSUME UNCHANGED <<settled, bcidPerPfebPerDelay>>, stage' \in {"done", "failed"},
             stage \in {"scan", "apply"}, stage' = "done" => stage = "apply",
             delays' \in [PFEBs -> DelayRange],
             stage' = "done" => /\ targetBcid' = getTargetBcid(bcidPerPfebPerDelay)
                                /\ delays' = chosenDelays(targetBcid')
      PROVE  DeskewInv'
  <2>1. /\ scanOnly' = scanOnly /\ skews' = skews /\ folded' = folded
        /\ existingDelays' = existingDelays /\ bcidPerPfebPerDelay' = bcidPerPfebPerDelay
    BY <1>4 DEF settled
  <2>2. \A d : CommonDelay(d)' = CommonDelay(d)
    BY <2>1 DEF CommonDelay
  <2>3. ScanOf(bcidPerPfebPerDelay, n)'
    BY <1>1, <2>1, <2>2 DEF ScanOf
  <2>4. stage' # "scan" /\ (stage' \in {"apply", "done"} => n = 16)
    BY <1>1, <1>4
  <2>5. chosenDelays(targetBcid)' = chosenDelays(targetBcid')
    BY <2>1 DEF chosenDelays
  <2>6. getTargetBcid(bcidPerPfebPerDelay)' = getTargetBcid(bcidPerPfebPerDelay)
    BY <2>1
  <2> QED
    BY <1>4, <2>1, <2>3, <2>4, <2>5, <2>6 DEF DeskewInv
<1>5. CASE Apply
  <2>1. chosenDelays(targetBcid') \in [PFEBs -> DelayRange]
    BY ChosenDelaysType
  <2> QED
    BY <1>4, <1>5, <2>1 DEF Apply
<1>6. CASE Interrupt
  <2> DEFINE new == IF stage = "scan" THEN CommonDelay(scanned) ELSE chosenDelays(targetBcid')
  <2>1. new \in [PFEBs -> DelayRange]
    <3>1. stage = "scan" => CommonDelay(scanned) \in [PFEBs -> DelayRange]
      BY <1>1, <1>2, CommonDelayType
    <3>2. chosenDelays(targetBcid') \in [PFEBs -> DelayRange]
      BY ChosenDelaysType
    <3> QED
      BY <3>1, <3>2
  <2>2. PICK sent \in {{}, 16..23, 8..23, 0..23} :
          delays' = [p \in PFEBs |-> IF p \in sent THEN new[p] ELSE delays[p]]
    BY <1>6 DEF Interrupt
  <2> HIDE DEF new
  <2>3. delays' \in [PFEBs -> DelayRange]
    BY <2>1, <2>2 DEF DeskewInv
  <2> QED
    BY <1>4, <1>6, <2>3 DEF Interrupt
<1>7. CASE UNCHANGED deskewVars
  <2>1. \A d : CommonDelay(d)' = CommonDelay(d)
    BY <1>7 DEF CommonDelay, deskewVars
  <2>2. ScanOf(bcidPerPfebPerDelay, n)'
    BY <1>1, <1>7, <2>1 DEF ScanOf, deskewVars
  <2>3. chosenDelays(targetBcid)' = chosenDelays(targetBcid)
    BY <1>7 DEF chosenDelays, deskewVars
  <2> QED
    BY <1>1, <1>7, <2>2, <2>3 DEF DeskewInv, deskewVars
<1> QED
  BY <1>3, <1>5, <1>6, <1>7 DEF DeskewNext

\* The registers hold delays, and a scan that is over has all delays.
THEOREM DeskewTypeCorrect == DeskewSpec => []DeskewTypeOK
<1>1. DeskewInit => DeskewInv
  BY InvInit
<1>2. DeskewInv /\ [DeskewNext]_deskewVars => DeskewInv'
  BY InvStep
<1>3. DeskewInv => DeskewTypeOK
  BY InvImpliesType
<1> QED
  BY <1>1, <1>2, <1>3, PTL DEF DeskewSpec

\* For every set of inputs, every skew of each and every reading at the edge of
\* a BC: a BCID all PFEBs could have is found, and every PFEB is in the middle
\* of it (PadTrigger.cpp:571-749).
THEOREM DeskewIsRight == DeskewSpec => []DeskewAligns
<1>1. DeskewInit => DeskewInv
  BY InvInit
<1>2. DeskewInv /\ [DeskewNext]_deskewVars => DeskewInv'
  BY InvStep
<1>3. DeskewInv => DeskewAligns
  BY InvImpliesAligns
<1> QED
  BY <1>1, <1>2, <1>3, PTL DEF DeskewSpec

-----------------------------------------------------------------------------
(***************************************************************************)
(* The configuration of a VMM.                                             *)
(***************************************************************************)

-----------------------------------------------------------------------------
(* Sequences one after the other. *)

\* f[i] is the first i sequences together.
Flattens(f, ps, n) == f = [i \in 1..n |-> IF i = 1 THEN ps[i] ELSE f[i-1] \o ps[i]]

LEMMA SomeFlattens ==
  ASSUME NEW ps, NEW n \in Nat
  PROVE  \E f : Flattens(f, ps, n)
<1> SUFFICES ASSUME ~ \E f : Flattens(f, ps, n)
             PROVE  FALSE
  OBVIOUS
<1> DEFINE bad == {m \in Nat : ~ \E f : Flattens(f, ps, m)}
<1>1. bad \in SUBSET Nat /\ n \in bad
  OBVIOUS
<1>2. PICK m \in bad : \A k \in bad : m <= k
  BY <1>1, LeastNumber
<1>3. m \in Nat /\ ~ \E f : Flattens(f, ps, m)
  BY <1>1, <1>2
<1>4. CASE m = 0
  <2> DEFINE f == [i \in 1..0 |-> ps[i]]
  <2>1. f = [i \in 1..0 |-> IF i = 1 THEN ps[i] ELSE f[i-1] \o ps[i]]
    OBVIOUS
  <2> HIDE DEF f
  <2> QED
    BY <1>3, <1>4, <2>1 DEF Flattens
<1>5. CASE m # 0
  <2>1. m - 1 \in Nat /\ ~(m <= m - 1)
    BY <1>3, <1>5
  <2>2. PICK g : Flattens(g, ps, m - 1)
    BY <1>2, <2>1
  <2> DEFINE last == IF m = 1 THEN ps[m] ELSE g[m-1] \o ps[m]
             f == [i \in 1..m |-> IF i = m THEN last ELSE g[i]]
  <2>3. ASSUME NEW i \in 1..m
        PROVE  f[i] = IF i = 1 THEN ps[i] ELSE f[i-1] \o ps[i]
    <3> HIDE DEF last
    <3>1. CASE i = m
      <4>1. i # 1 => i - 1 \in 1..m /\ i - 1 # m
        BY <1>3, <3>1
      <4>2. f[i] = last /\ (i # 1 => f[i-1] = g[i-1])
        BY <3>1, <4>1
      <4> QED
        BY <3>1, <4>2 DEF last
    <3>2. CASE i # m
      <4>1. i \in 1..m-1 /\ (i # 1 => i - 1 \in 1..m /\ i - 1 # m)
        BY <1>3, <3>2
      <4>2. f[i] = g[i] /\ (i # 1 => f[i-1] = g[i-1])
        BY <3>2, <4>1
      <4>3. g[i] = IF i = 1 THEN ps[i] ELSE g[i-1] \o ps[i]
        BY <2>2, <4>1 DEF Flattens
      <4> QED
        BY <4>2, <4>3
    <3> QED
      BY <3>1, <3>2
  <2>4. f = [i \in 1..m |-> f[i]]
    OBVIOUS
  <2> HIDE DEF f
  <2>5. f = [i \in 1..m |-> IF i = 1 THEN ps[i] ELSE f[i-1] \o ps[i]]
    BY <2>3, <2>4
  <2> QED
    BY <1>3, <2>5 DEF Flattens
<1> QED
  BY <1>4, <1>5



\* off[i] elements are before the i-th sequence.
Offsets(off, ps, n, V) ==
  /\ n \in Nat \ {0} /\ Len(ps) = n /\ off \in [1..n + 1 -> Nat] /\ off[1] = 0
  /\ \A i \in 1..n : ps[i] \in Seq(V) /\ off[i + 1] = off[i] + Len(ps[i])

LEMMA FlattenPlaces ==
  ASSUME NEW V, NEW ps, NEW n, NEW off, Offsets(off, ps, n, V)
  PROVE  /\ FlattenSeq(ps) \in Seq(V) /\ Len(FlattenSeq(ps)) = off[n + 1]
         /\ \A i \in 1..n : \A t \in 1..Len(ps[i]) : FlattenSeq(ps)[off[i] + t] = ps[i][t]
<1> SUFFICES ASSUME n \in Nat \ {0}, Len(ps) = n, off \in [1..n + 1 -> Nat], off[1] = 0,
                    \A i \in 1..n : ps[i] \in Seq(V) /\ off[i + 1] = off[i] + Len(ps[i])
             PROVE  /\ FlattenSeq(ps) \in Seq(V) /\ Len(FlattenSeq(ps)) = off[n + 1]
                    /\ \A i \in 1..n : \A t \in 1..Len(ps[i]) :
                         FlattenSeq(ps)[off[i] + t] = ps[i][t]
  BY DEF Offsets
<1> DEFINE f == CHOOSE g : g = [i \in 1..n |-> IF i = 1 THEN ps[i] ELSE g[i-1] \o ps[i]]
<1>1. FlattenSeq(ps) = f[n]
  BY DEF FlattenSeq
<1>2. \A i \in 1..n : f[i] = IF i = 1 THEN ps[i] ELSE f[i-1] \o ps[i]
  <2>1. \E g : g = [i \in 1..n |-> IF i = 1 THEN ps[i] ELSE g[i-1] \o ps[i]]
    BY SomeFlattens DEF Flattens
  <2>2. f = [i \in 1..n |-> IF i = 1 THEN ps[i] ELSE f[i-1] \o ps[i]]
    BY <2>1
  <2> HIDE DEF f
  <2> QED
    BY <2>2
<1> HIDE DEF f
<1> DEFINE Good(m) == /\ f[m] \in Seq(V) /\ Len(f[m]) = off[m + 1]
                      /\ \A i \in 1..m : /\ off[i] + Len(ps[i]) <= off[m + 1]
                                         /\ \A t \in 1..Len(ps[i]) : f[m][off[i] + t] = ps[i][t]
           bad == {m \in 1..n : ~Good(m)}
<1>3. ASSUME NEW m \in 1..n, m = 1
      PROVE  Good(m)
  <2>1. f[1] = ps[1] /\ off[2] = Len(ps[1]) /\ ps[1] \in Seq(V)
    <3>1. 1 \in 1..n /\ 1 + 1 = 2
      OBVIOUS
    <3>2. Len(ps[1]) \in Nat
      BY <3>1, LenProperties
    <3>3. f[1] = ps[1]
      BY <1>2, <3>1
    <3>4. ps[1] \in Seq(V) /\ off[1 + 1] = 0 + Len(ps[1])
      BY <3>1
    <3> QED
      BY ONLY <3>1, <3>2, <3>3, <3>4
  <2>2. \A i \in 1..m : i = 1
    BY <1>3
  <2>3. \A t \in 1..Len(ps[1]) : 0 + t = t
    OBVIOUS
  <2> QED
    BY <1>3, <2>1, <2>2, <2>3
<1>4. ASSUME NEW m \in 1..n, m # 1, Good(m - 1)
      PROVE  Good(m)
  <2>0. m - 1 \in 1..n /\ (m - 1) + 1 = m
    <3>1. n \in Nat /\ m \in 1..n /\ m # 1
      BY <1>4
    <3> QED
      BY ONLY <3>1
  <2>1. m - 1 \in 1..n /\ (m - 1) + 1 = m /\ f[m] = f[m-1] \o ps[m]
    BY <1>2, <1>4, <2>0
  <2>2. /\ f[m-1] \in Seq(V) /\ Len(f[m-1]) = off[m] /\ ps[m] \in Seq(V)
        /\ off[m + 1] = off[m] + Len(ps[m])
    BY <1>4, <2>1
  <2>3. Len(ps[m]) \in Nat /\ off[m] \in Nat
    BY <2>1, <2>2, LenProperties
  <2>4. /\ f[m] \in Seq(V) /\ Len(f[m]) = off[m] + Len(ps[m])
        /\ \A i \in 1..off[m] + Len(ps[m]) :
             f[m][i] = IF i <= off[m] THEN f[m-1][i] ELSE ps[m][i - off[m]]
    <3> DEFINE s1 == f[m-1]
               s2 == ps[m]
    <3>1. s1 \in Seq(V) /\ s2 \in Seq(V) /\ Len(s1) = off[m] /\ f[m] = s1 \o s2
      BY <2>1, <2>2
    <3> HIDE DEF s1, s2
    <3>2. s1 \o s2 \in Seq(V) /\ Len(s1 \o s2) = Len(s1) + Len(s2)
      <4>1. s1 \in Seq(V) /\ s2 \in Seq(V)
        BY <3>1
      <4> QED
        BY ONLY <4>1, ConcatProperties
    <3>3. ASSUME NEW i \in 1..off[m] + Len(s2)
          PROVE  f[m][i] = IF i <= off[m] THEN s1[i] ELSE s2[i - off[m]]
      <4>1. i \in 1..Len(s1) + Len(s2)
        BY <3>1
      <4>2. (s1 \o s2)[i] = IF i <= Len(s1) THEN s1[i] ELSE s2[i - Len(s1)]
        <5>1. s1 \in Seq(V) /\ s2 \in Seq(V)
          BY <3>1
        <5> QED
          BY ONLY <4>1, <5>1
      <4> QED
        BY <3>1, <4>2
    <3> QED
      BY <3>1, <3>2, <3>3 DEF s1, s2
  <2>5. ASSUME NEW i \in 1..m
        PROVE  /\ off[i] + Len(ps[i]) <= off[m + 1]
               /\ \A t \in 1..Len(ps[i]) : f[m][off[i] + t] = ps[i][t]
    <3>1. i \in 1..n /\ off[i] \in Nat /\ Len(ps[i]) \in Nat
      BY LenProperties
    <3>2. CASE i = m
      <4>1. off[m] + Len(ps[m]) <= off[m + 1]
        BY <2>2, <2>3
      <4>2. ASSUME NEW t \in 1..Len(ps[m])
            PROVE  f[m][off[m] + t] = ps[m][t]
        <5> DEFINE o == off[m]
                   l == Len(ps[m])
        <5>1. o \in Nat /\ l \in Nat /\ t \in 1..l
          BY <2>3
        <5>2. \A q \in 1..o + l : f[m][q] = IF q <= o THEN f[m-1][q] ELSE ps[m][q - o]
          BY <2>4
        <5> HIDE DEF o, l
        <5>3. o + t \in 1..o + l /\ ~(o + t <= o) /\ (o + t) - o = t
          BY <5>1
        <5>4. f[m][o + t] = ps[m][t]
          BY <5>2, <5>3
        <5> QED
          BY <5>4 DEF o
      <4> QED
        BY <3>2, <4>1, <4>2
    <3>3. CASE i # m
      <4>1. i \in 1..m - 1
        BY <3>3
      <4>2. /\ off[i] + Len(ps[i]) <= off[m]
            /\ \A t \in 1..Len(ps[i]) : f[m-1][off[i] + t] = ps[i][t]
        BY <1>4, <2>1, <4>1
      <4>3. ASSUME NEW t \in 1..Len(ps[i])
            PROVE  f[m][off[i] + t] = ps[i][t]
        <5> DEFINE o == off[m]
                   l == Len(ps[m])
                   e == off[i]
                   k == Len(ps[i])
        <5>1. o \in Nat /\ l \in Nat /\ e \in Nat /\ k \in Nat /\ t \in 1..k /\ e + k <= o
          BY <2>3, <3>1, <4>2
        <5>2. \A q \in 1..o + l : f[m][q] = IF q <= o THEN f[m-1][q] ELSE ps[m][q - o]
          BY <2>4
        <5>3. f[m-1][e + t] = ps[i][t]
          BY <4>2
        <5> HIDE DEF o, l, e, k
        <5>4. e + t \in 1..o + l /\ e + t <= o
          BY <5>1
        <5>5. f[m][e + t] = ps[i][t]
          BY <5>2, <5>3, <5>4
        <5> QED
          BY <5>5 DEF e
      <4>4. off[i] + Len(ps[i]) <= off[m + 1]
        <5> DEFINE o == off[m]
                   l == Len(ps[m])
                   e == off[i]
                   k == Len(ps[i])
        <5>1. /\ o \in Nat /\ l \in Nat /\ e \in Nat /\ k \in Nat /\ e + k <= o
              /\ off[m + 1] = o + l
          BY <2>2, <2>3, <3>1, <4>2
        <5> HIDE DEF o, l, e, k
        <5>2. e + k <= off[m + 1]
          BY <5>1
        <5> QED
          BY <5>2 DEF e, k
      <4> QED
        BY <4>3, <4>4
    <3> QED
      BY <3>2, <3>3
  <2> QED
    BY <2>2, <2>4, <2>5
<1>5. bad = {}
  <2> SUFFICES ASSUME bad # {} PROVE FALSE
    OBVIOUS
  <2>1. bad \in SUBSET Nat
    OBVIOUS
  <2> HIDE DEF Good
  <2>2. PICK m \in bad : \A k \in bad : m <= k
    <3> HIDE DEF bad
    <3> QED
      BY <2>1, LeastNumber
  <2>3. m \in 1..n /\ ~Good(m)
    BY <2>2
  <2>4. m # 1 => m - 1 \in 1..n /\ ~(m <= m - 1)
    BY <2>3
  <2>5. m # 1 => Good(m - 1)
    BY <2>2, <2>4
  <2> QED
    BY <1>3, <1>4, <2>3, <2>5
<1>6. Good(n)
  <2>1. n \in 1..n
    OBVIOUS
  <2> HIDE DEF Good
  <2> QED
    BY <1>5, <2>1
<1> QED
  BY <1>1, <1>6

-----------------------------------------------------------------------------
(* Strings of bits. *)

LEMMA BitStringPlaces ==
  ASSUME NEW value, NEW size \in Nat
  PROVE  /\ bitString(value, size) \in Seq(BOOLEAN) /\ Len(bitString(value, size)) = size
         /\ \A t \in 1..size : bitString(value, size)[t] = TRUE <=> size - t \in value
<1> DEFINE s == bitString(value, size)
<1>1. s = [t \in 1..size |-> size - t \in value]
  BY DEF bitString
<1>2. s \in [1..size -> BOOLEAN]
  <2>1. \A t \in 1..size : (size - t \in value) \in BOOLEAN
    OBVIOUS
  <2> QED
    BY <1>1, <2>1
<1>3. \A t \in 1..size : s[t] = (size - t \in value)
  BY <1>1, Zenon
<1>4. \A t \in 1..size : s[t] = TRUE <=> size - t \in value
  BY <1>3, Zenon
<1> HIDE DEF s
<1>5. s \in Seq(BOOLEAN) /\ Len(s) = size
  BY <1>2
<1> QED
  BY <1>4, <1>5 DEF s

LEMMA ReversePlaces ==
  ASSUME NEW V, NEW s \in Seq(V)
  PROVE  /\ Reverse(s) \in Seq(V) /\ Len(Reverse(s)) = Len(s)
         /\ \A t \in 1..Len(s) : Reverse(s)[t] = s[Len(s) - t + 1]
<1> DEFINE n == Len(s)
<1>1. n \in Nat /\ \A t \in 1..n : s[t] \in V
  BY LenProperties, ElementOfSeq
<1>2. Reverse(s) = [t \in 1..n |-> s[(n - t) + 1]]
  BY DEF Reverse
<1> HIDE DEF n
<1>3. \A t \in 1..n : (n - t) + 1 \in 1..n
  BY <1>1
<1>4. Reverse(s) \in [1..n -> V]
  BY <1>1, <1>2, <1>3
<1>5. Reverse(s) \in Seq(V) /\ Len(Reverse(s)) = n
  BY <1>1, <1>4
<1> QED
  BY <1>2, <1>5 DEF n

LEMMA ReversedBitStringPlaces ==
  ASSUME NEW value, NEW size \in Nat
  PROVE  /\ reversedBitString(value, size) \in Seq(BOOLEAN)
         /\ Len(reversedBitString(value, size)) = size
         /\ \A t \in 1..size : reversedBitString(value, size)[t] = TRUE <=> t - 1 \in value
<1> DEFINE s == bitString(value, size)
<1>1. /\ s \in Seq(BOOLEAN) /\ Len(s) = size
      /\ \A t \in 1..size : s[t] = TRUE <=> size - t \in value
  BY BitStringPlaces
<1> HIDE DEF s
<1>2. /\ Reverse(s) \in Seq(BOOLEAN) /\ Len(Reverse(s)) = size
      /\ \A t \in 1..size : Reverse(s)[t] = s[size - t + 1]
  BY <1>1, ReversePlaces
<1>3. ASSUME NEW t \in 1..size
      PROVE  Reverse(s)[t] = TRUE <=> t - 1 \in value
  <2>1. size - t + 1 \in 1..size /\ size - (size - t + 1) = t - 1
    OBVIOUS
  <2>2. s[size - t + 1] = TRUE <=> t - 1 \in value
    BY <1>1, <2>1
  <2> QED
    BY <1>2, <2>2
<1> QED
  BY <1>2, <1>3 DEF reversedBitString, s

-----------------------------------------------------------------------------
(* Tables of registers. *)

\* The bits of the first k sub-registers.
Cells(l, k) == UNION {{i} \X (1..l[i].size) : i \in 1..k}

LEMMA LayoutElement ==
  ASSUME NEW l, IsLayout(l), NEW i \in 1..Len(l)
  PROVE  l[i].size \in Nat /\ l[i].size # 0 /\ DOMAIN l = 1..Len(l) /\ Len(l) \in Nat
BY DEF IsLayout

LEMMA CellsStep ==
  ASSUME NEW l, IsLayout(l), NEW k \in 1..Len(l), IsFiniteSet(Cells(l, k - 1))
  PROVE  /\ IsFiniteSet(Cells(l, k))
         /\ Cardinality(Cells(l, k)) = Cardinality(Cells(l, k - 1)) + l[k].size
<1> DEFINE A == Cells(l, k - 1)
           B == {k} \X (1..l[k].size)
<1>1. l[k].size \in Nat /\ k \in Nat
  BY LayoutElement DEF IsLayout
<1>2. Cells(l, k) = A \cup B
  <2>1. \A i : i \in 1..k <=> (i \in 1..k - 1 \/ i = k)
    BY <1>1
  <2> QED
    BY <2>1 DEF Cells
<1>3. A \cap B = {}
  <2>1. ~(k \in 1..k - 1)
    BY <1>1
  <2> QED
    BY <2>1 DEF Cells
<1>4. IsFiniteSet(B) /\ Cardinality(B) = l[k].size
  <2>1. IsFiniteSet({k}) /\ Cardinality({k}) = 1
    BY FS_Singleton
  <2>2. IsFiniteSet(1..l[k].size) /\ Cardinality(1..l[k].size) = l[k].size
    <3> SUFFICES ASSUME NEW n \in Nat
                 PROVE  IsFiniteSet(1..n) /\ Cardinality(1..n) = n
      BY <1>1
    <3>1. 1 \in Int /\ n \in Int
      OBVIOUS
    <3>2. IsFiniteSet(1..n) /\ Cardinality(1..n) = IF 1 > n THEN 0 ELSE n - 1 + 1
      BY <3>1, FS_Interval
    <3> QED
      BY <3>2
  <2>3. IsFiniteSet(B) /\ Cardinality(B) = 1 * l[k].size
    BY <2>1, <2>2, FS_Product
  <2> QED
    BY <1>1, <2>3
<1> HIDE DEF A, B
<1>5. IsFiniteSet(A)
  BY DEF A
<1>6. IsFiniteSet(A \cup B)
  BY <1>4, <1>5, FS_Union
<1>7. Cardinality(A \cup B) = Cardinality(A) + Cardinality(B) - Cardinality(A \cap B)
  BY <1>4, <1>5, FS_Union
<1>8. Cardinality(A) \in Nat /\ Cardinality(A \cap B) = 0
  BY <1>3, <1>5, FS_CardinalityType, FS_EmptySet
<1>9. Cardinality(A \cup B) = Cardinality(A) + l[k].size
  BY <1>1, <1>4, <1>7, <1>8
<1> QED
  BY <1>2, <1>6, <1>9 DEF A

LEMMA CellsFinite ==
  ASSUME NEW l, IsLayout(l), NEW k \in 0..Len(l)
  PROVE  IsFiniteSet(Cells(l, k)) /\ Cardinality(Cells(l, k)) \in Nat
<1> DEFINE bad == {m \in 0..Len(l) : ~IsFiniteSet(Cells(l, m))}
<1>1. Len(l) \in Nat
  BY DEF IsLayout
<1>2. bad = {}
  <2> SUFFICES ASSUME bad # {} PROVE FALSE
    OBVIOUS
  <2>1. bad \in SUBSET Nat
    BY <1>1
  <2>2. PICK m \in bad : \A j \in bad : m <= j
    <3> HIDE DEF bad
    <3> QED
      BY <2>1, LeastNumber
  <2>3. m \in 0..Len(l) /\ ~IsFiniteSet(Cells(l, m))
    OBVIOUS
  <2>4. CASE m = 0
    <3>1. Cells(l, m) = {}
      BY <2>4 DEF Cells
    <3> QED
      BY <2>3, <3>1, FS_EmptySet
  <2>5. CASE m # 0
    <3>1. m \in 1..Len(l) /\ m - 1 \in 0..Len(l) /\ ~(m <= m - 1)
      BY <1>1, <2>3, <2>5
    <3>2. IsFiniteSet(Cells(l, m - 1))
      BY <2>2, <3>1
    <3> QED
      BY <2>3, <3>1, <3>2, CellsStep
  <2> QED
    BY <2>4, <2>5
<1> QED
  BY <1>2, FS_CardinalityType

\* How many bits are before sub-register k.
BitsBefore(l, k) == Width(l, 1, k - 1)

LEMMA WidthIsCells ==
  ASSUME NEW l, NEW k
  PROVE  Width(l, 1, k) = Cardinality(Cells(l, k))
BY DEF Width, Cells

LEMMA BitsBeforeStep ==
  ASSUME NEW l, IsLayout(l)
  PROVE  /\ BitsBefore(l, 1) = 0 /\ BitsBefore(l, Len(l) + 1) = Size(l)
         /\ \A k \in 1..Len(l) + 1 : BitsBefore(l, k) \in Nat
         /\ \A k \in 1..Len(l) : BitsBefore(l, k + 1) = BitsBefore(l, k) + l[k].size
<1>1. Len(l) \in Nat /\ DOMAIN l = 1..Len(l)
  BY DEF IsLayout
<1>2. ASSUME NEW k \in 1..Len(l) + 1
      PROVE  BitsBefore(l, k) = Cardinality(Cells(l, k - 1)) /\ BitsBefore(l, k) \in Nat
  <2>1. k - 1 \in 0..Len(l)
    BY <1>1
  <2> QED
    BY <2>1, WidthIsCells, CellsFinite DEF BitsBefore
<1>3. BitsBefore(l, 1) = 0
  <2>1. 1 \in 1..Len(l) + 1 /\ Cells(l, 1 - 1) = {}
    BY <1>1 DEF Cells
  <2> QED
    BY <1>2, <2>1, FS_EmptySet
<1>4. BitsBefore(l, Len(l) + 1) = Size(l)
  <2>1. (Len(l) + 1) - 1 = Len(l)
    BY <1>1
  <2> QED
    BY <2>1 DEF BitsBefore, Size
<1>5. ASSUME NEW k \in 1..Len(l)
      PROVE  BitsBefore(l, k + 1) = BitsBefore(l, k) + l[k].size
  <2>1. /\ k \in 1..Len(l) + 1 /\ k + 1 \in 1..Len(l) + 1 /\ (k + 1) - 1 = k
        /\ k - 1 \in 0..Len(l)
    BY <1>1
  <2>2. IsFiniteSet(Cells(l, k - 1))
    BY <2>1, CellsFinite
  <2>3. Cardinality(Cells(l, k)) = Cardinality(Cells(l, k - 1)) + l[k].size
    BY <2>2, CellsStep
  <2> QED
    BY <1>2, <2>1, <2>3
<1> QED
  BY <1>2, <1>3, <1>4, <1>5

\* The bits of a sub-register are among those of the table.
LEMMA SizeAfter ==
  ASSUME NEW l, IsLayout(l), NEW k \in 1..Len(l)
  PROVE  /\ BitsBefore(l, k) \in Nat /\ Size(l) \in Nat
         /\ BitsBefore(l, k) + l[k].size <= Size(l)
<1> DEFINE n == Len(l)
           B(m) == BitsBefore(l, m)
<1>1. n \in Nat
  BY DEF IsLayout
<1>2. /\ B(n + 1) = Size(l) /\ \A m \in 1..n + 1 : B(m) \in Nat
      /\ \A m \in 1..n : B(m + 1) = B(m) + l[m].size
  BY BitsBeforeStep
<1>3. \A m \in 1..n : l[m].size \in Nat
  BY LayoutElement
<1> HIDE DEF n, B
<1>4. k \in 1..n /\ n + 1 \in 1..n + 1 /\ k \in 1..n + 1
  BY <1>1 DEF n
<1> DEFINE bad == {m \in k..n : ~(B(k + 1) <= B(m + 1))}
<1>5. bad = {}
  <2> SUFFICES ASSUME bad # {} PROVE FALSE
    OBVIOUS
  <2>1. bad \in SUBSET Nat
    BY <1>1, <1>4
  <2>2. PICK m \in bad : \A j \in bad : m <= j
    <3> HIDE DEF bad
    <3> QED
      BY <2>1, LeastNumber
  <2>3. m \in k..n /\ ~(B(k + 1) <= B(m + 1))
    OBVIOUS
  <2>3a. m + 1 \in 1..n + 1 /\ k + 1 \in 1..n + 1
    BY <1>1, <1>4, <2>3
  <2>4. B(m + 1) \in Nat /\ B(k + 1) \in Nat
    BY <1>2, <2>3a
  <2>5. m # k
    BY <2>3, <2>4
  <2>6. m - 1 \in k..n /\ ~(m <= m - 1) /\ (m - 1) + 1 = m /\ m \in 1..n /\ m \in 1..n + 1
    BY <1>1, <1>4, <2>3, <2>5
  <2>7. B(k + 1) <= B(m)
    BY <2>2, <2>6
  <2>8. B(m + 1) = B(m) + l[m].size /\ l[m].size \in Nat /\ B(m) \in Nat
    BY <1>2, <1>3, <2>6
  <2>9. B(k + 1) <= B(m + 1)
    BY <2>4, <2>7, <2>8
  <2> QED
    BY <2>3, <2>9
<1>6. B(k + 1) <= B(n + 1)
  <2>1. n \in k..n
    BY <1>1, <1>4
  <2> QED
    BY <1>5, <2>1
<1>7. B(k + 1) = B(k) + l[k].size /\ B(k) \in Nat /\ B(n + 1) \in Nat
  BY <1>2, <1>4
<1> QED
  BY <1>2, <1>6, <1>7 DEF B

(* The pieces of a string of global registers, and of the string of a channel. *)
GlobalPiece(tree, f) ==
  IF f.name = NOT_USED THEN bitString({}, f.size)
  ELSE IF f.name \in m_bitreversed_registers THEN reversedBitString(tree[f.name][1], f.size)
  ELSE bitString(tree[f.name][1], f.size)
ChannelPiece(tree, ch, f) ==
  reversedBitString(IF f.name = NOT_USED THEN {} ELSE InChannel(tree[f.name], ch), f.size)

\* Pieces of the sizes a table gives follow each other where the table says.
LEMMA PiecesPlaces ==
  ASSUME NEW l, IsLayout(l), Len(l) # 0, NEW ps, Len(ps) = Len(l),
         \A k \in 1..Len(l) : ps[k] \in Seq(BOOLEAN) /\ Len(ps[k]) = l[k].size
  PROVE  /\ FlattenSeq(ps) \in Seq(BOOLEAN) /\ Len(FlattenSeq(ps)) = Size(l)
         /\ \A k \in 1..Len(l) : \A t \in 1..l[k].size :
              FlattenSeq(ps)[BitsBefore(l, k) + t] = ps[k][t]
<1> DEFINE n == Len(l)
           off == [k \in 1..n + 1 |-> BitsBefore(l, k)]
<1>1. n \in Nat \ {0} /\ Len(ps) = n
  BY DEF IsLayout
<1>2. \A k \in 1..n + 1 : BitsBefore(l, k) \in Nat
  BY BitsBeforeStep
<1>3. off \in [1..n + 1 -> Nat] /\ \A k \in 1..n + 1 : off[k] = BitsBefore(l, k)
  BY <1>2
<1>4. /\ BitsBefore(l, 1) = 0 /\ BitsBefore(l, n + 1) = Size(l)
      /\ \A k \in 1..n : BitsBefore(l, k + 1) = BitsBefore(l, k) + l[k].size
  BY BitsBeforeStep
<1> HIDE DEF n, off
<1>5. off[1] = 0 /\ off[n + 1] = Size(l)
  <2>1. 1 \in 1..n + 1 /\ n + 1 \in 1..n + 1
    BY <1>1
  <2> QED
    BY <1>3, <1>4, <2>1
<1>6. ASSUME NEW k \in 1..n
      PROVE  ps[k] \in Seq(BOOLEAN) /\ off[k + 1] = off[k] + Len(ps[k])
  <2>1. k \in 1..n + 1 /\ k + 1 \in 1..n + 1
    BY <1>1
  <2>2. ps[k] \in Seq(BOOLEAN) /\ Len(ps[k]) = l[k].size
    BY DEF n
  <2> QED
    BY <1>3, <1>4, <2>1, <2>2
<1>7. /\ FlattenSeq(ps) \in Seq(BOOLEAN) /\ Len(FlattenSeq(ps)) = off[n + 1]
      /\ \A k \in 1..n : \A t \in 1..Len(ps[k]) : FlattenSeq(ps)[off[k] + t] = ps[k][t]
  <2>1. n \in Nat \ {0} /\ Len(ps) = n /\ off \in [1..n + 1 -> Nat] /\ off[1] = 0
    BY <1>1, <1>3, <1>5
  <2>2. \A i \in 1..n : ps[i] \in Seq(BOOLEAN) /\ off[i + 1] = off[i] + Len(ps[i])
    BY <1>6
  <2>3. Offsets(off, ps, n, BOOLEAN)
    BY ONLY <2>1, <2>2 DEF Offsets
  <2> QED
    BY <2>3, FlattenPlaces
<1>8. ASSUME NEW k \in 1..n, NEW t \in 1..l[k].size
      PROVE  FlattenSeq(ps)[BitsBefore(l, k) + t] = ps[k][t]
  <2>1. k \in 1..n + 1 /\ Len(ps[k]) = l[k].size
    BY <1>1 DEF n
  <2> QED
    BY <1>3, <1>7, <2>1
<1> QED
  BY <1>5, <1>7, <1>8 DEF n

LEMMA GlobalPlaces ==
  ASSUME NEW tree, NEW l, IsLayout(l), Len(l) # 0
  PROVE  /\ buildGlobalConfig(tree, l) \in Seq(BOOLEAN)
         /\ Len(buildGlobalConfig(tree, l)) = Size(l)
         /\ \A k \in 1..Len(l) : l[k].name # NOT_USED => \A b \in 0..l[k].size - 1 :
              buildGlobalConfig(tree, l)
                [BitsBefore(l, k) + (IF l[k].name \in m_bitreversed_registers
                                     THEN b + 1 ELSE l[k].size - b)] = TRUE
              <=> b \in tree[l[k].name][1]
<1> DEFINE ps == [k \in DOMAIN l |-> GlobalPiece(tree, l[k])]
           s == buildGlobalConfig(tree, l)
<1>1. s = FlattenSeq(ps)
  BY Zenon DEF buildGlobalConfig, GlobalPiece
<1>2. Len(l) \in Nat /\ DOMAIN l = 1..Len(l)
  BY DEF IsLayout
<1>3. Len(ps) = Len(l) /\ \A k \in 1..Len(l) : ps[k] = GlobalPiece(tree, l[k])
  BY <1>2
<1> HIDE DEF ps, s
<1>4. ASSUME NEW k \in 1..Len(l)
      PROVE  /\ ps[k] \in Seq(BOOLEAN) /\ Len(ps[k]) = l[k].size
             /\ l[k].name # NOT_USED => \A b \in 0..l[k].size - 1 :
                  ps[k][IF l[k].name \in m_bitreversed_registers THEN b + 1
                        ELSE l[k].size - b] = TRUE <=> b \in tree[l[k].name][1]
  <2> DEFINE size == l[k].size
             value == tree[l[k].name][1]
  <2>1. size \in Nat /\ ps[k] = GlobalPiece(tree, l[k])
    BY <1>3, LayoutElement
  <2> HIDE DEF size, value
  <2>2. CASE l[k].name = NOT_USED
    <3> DEFINE none == {}
    <3>1. ps[k] = bitString(none, size)
      BY <2>1, <2>2 DEF GlobalPiece, size
    <3> HIDE DEF none
    <3>2. ps[k] \in Seq(BOOLEAN) /\ Len(ps[k]) = size
      BY <2>1, <3>1, BitStringPlaces
    <3> QED
      BY <2>2, <3>2 DEF size
  <2>3. CASE l[k].name # NOT_USED /\ l[k].name \in m_bitreversed_registers
    <3>1. ps[k] = reversedBitString(value, size)
      BY <2>1, <2>3 DEF GlobalPiece, size, value
    <3>2. /\ ps[k] \in Seq(BOOLEAN) /\ Len(ps[k]) = size
          /\ \A t \in 1..size : ps[k][t] = TRUE <=> t - 1 \in value
      BY <2>1, <3>1, ReversedBitStringPlaces
    <3>3. ASSUME NEW b \in 0..size - 1
          PROVE  ps[k][b + 1] = TRUE <=> b \in value
      <4>1. b + 1 \in 1..size /\ (b + 1) - 1 = b
        BY <2>1
      <4> QED
        BY <3>2, <4>1
    <3> QED
      BY <2>3, <3>2, <3>3 DEF size, value
  <2>4. CASE l[k].name # NOT_USED /\ l[k].name \notin m_bitreversed_registers
    <3>1. ps[k] = bitString(value, size)
      BY <2>1, <2>4 DEF GlobalPiece, size, value
    <3>2. /\ ps[k] \in Seq(BOOLEAN) /\ Len(ps[k]) = size
          /\ \A t \in 1..size : ps[k][t] = TRUE <=> size - t \in value
      BY <2>1, <3>1, BitStringPlaces
    <3>3. ASSUME NEW b \in 0..size - 1
          PROVE  ps[k][size - b] = TRUE <=> b \in value
      <4>1. size - b \in 1..size /\ size - (size - b) = b
        BY <2>1
      <4> QED
        BY <3>2, <4>1
    <3> QED
      BY <2>4, <3>2, <3>3 DEF size, value
  <2> QED
    BY <2>2, <2>3, <2>4
<1>5. /\ s \in Seq(BOOLEAN) /\ Len(s) = Size(l)
      /\ \A k \in 1..Len(l) : \A t \in 1..l[k].size : s[BitsBefore(l, k) + t] = ps[k][t]
  <2>1. IsLayout(l) /\ Len(l) # 0 /\ Len(ps) = Len(l)
    BY <1>3
  <2>2. \A k \in 1..Len(l) : ps[k] \in Seq(BOOLEAN) /\ Len(ps[k]) = l[k].size
    BY <1>4
  <2> QED
    BY <1>1, <2>1, <2>2, PiecesPlaces
<1>6. ASSUME NEW k \in 1..Len(l), l[k].name # NOT_USED, NEW b \in 0..l[k].size - 1
      PROVE  s[BitsBefore(l, k) + (IF l[k].name \in m_bitreversed_registers
                                   THEN b + 1 ELSE l[k].size - b)] = TRUE
             <=> b \in tree[l[k].name][1]
  <2> DEFINE t == IF l[k].name \in m_bitreversed_registers THEN b + 1 ELSE l[k].size - b
  <2>1. l[k].size \in Nat
    BY LayoutElement
  <2>2. t \in 1..l[k].size
    BY <2>1
  <2>3. ps[k][t] = TRUE <=> b \in tree[l[k].name][1]
    BY <1>4, <1>6
  <2> HIDE DEF t
  <2>4. s[BitsBefore(l, k) + t] = ps[k][t]
    BY <1>5, <2>2
  <2>5. s[BitsBefore(l, k) + t] = TRUE <=> b \in tree[l[k].name][1]
    BY <2>3, <2>4
  <2> QED
    BY <2>5 DEF t
<1> QED
  BY <1>5, <1>6 DEF s

ChannelString(l, tree, ch) ==
  Reverse(FlattenSeq([k \in DOMAIN l |-> ChannelPiece(tree, ch, l[k])]))

LEMMA ChannelPlaces ==
  ASSUME NEW tree, NEW ch, NEW l, IsLayout(l), Len(l) # 0, Size(l) \in Nat
  PROVE  /\ ChannelString(l, tree, ch) \in Seq(BOOLEAN)
         /\ Len(ChannelString(l, tree, ch)) = Size(l)
         /\ \A k \in 1..Len(l) : l[k].name # NOT_USED => \A b \in 0..l[k].size - 1 :
              /\ Size(l) - BitsBefore(l, k) - b \in 1..Size(l)
              /\ ChannelString(l, tree, ch)[Size(l) - BitsBefore(l, k) - b] = TRUE
                 <=> b \in InChannel(tree[l[k].name], ch)
<1> DEFINE ps == [k \in DOMAIN l |-> ChannelPiece(tree, ch, l[k])]
           s == FlattenSeq(ps)
<1>1. ChannelString(l, tree, ch) = Reverse(s)
  BY DEF ChannelString
<1>2. Len(l) \in Nat /\ DOMAIN l = 1..Len(l)
  BY DEF IsLayout
<1>3. Len(ps) = Len(l) /\ \A k \in 1..Len(l) : ps[k] = ChannelPiece(tree, ch, l[k])
  BY <1>2
<1> HIDE DEF ps
<1>4. ASSUME NEW k \in 1..Len(l)
      PROVE  /\ ps[k] \in Seq(BOOLEAN) /\ Len(ps[k]) = l[k].size
             /\ l[k].name # NOT_USED => \A b \in 0..l[k].size - 1 :
                  ps[k][b + 1] = TRUE <=> b \in InChannel(tree[l[k].name], ch)
  <2> DEFINE size == l[k].size
             value == IF l[k].name = NOT_USED THEN {} ELSE InChannel(tree[l[k].name], ch)
  <2>1. size \in Nat /\ ps[k] = reversedBitString(value, size)
    BY <1>3, LayoutElement DEF ChannelPiece
  <2> HIDE DEF size, value
  <2>2. /\ ps[k] \in Seq(BOOLEAN) /\ Len(ps[k]) = size
        /\ \A t \in 1..size : ps[k][t] = TRUE <=> t - 1 \in value
    BY <2>1, ReversedBitStringPlaces
  <2>3. ASSUME NEW b \in 0..size - 1
        PROVE  ps[k][b + 1] = TRUE <=> b \in value
    <3>1. b + 1 \in 1..size /\ (b + 1) - 1 = b
      BY <2>1
    <3> QED
      BY <2>2, <3>1
  <2> QED
    BY <2>2, <2>3 DEF size, value
<1>5. /\ s \in Seq(BOOLEAN) /\ Len(s) = Size(l)
      /\ \A k \in 1..Len(l) : \A t \in 1..l[k].size : s[BitsBefore(l, k) + t] = ps[k][t]
  <2>1. IsLayout(l) /\ Len(l) # 0 /\ Len(ps) = Len(l)
    BY <1>3
  <2>2. \A k \in 1..Len(l) : ps[k] \in Seq(BOOLEAN) /\ Len(ps[k]) = l[k].size
    BY <1>4
  <2> QED
    BY <2>1, <2>2, PiecesPlaces
<1> HIDE DEF s
<1>6. /\ Reverse(s) \in Seq(BOOLEAN) /\ Len(Reverse(s)) = Size(l)
      /\ \A t \in 1..Size(l) : Reverse(s)[t] = s[Size(l) - t + 1]
  BY <1>5, ReversePlaces
<1>7. ASSUME NEW k \in 1..Len(l), l[k].name # NOT_USED, NEW b \in 0..l[k].size - 1
      PROVE  /\ Size(l) - BitsBefore(l, k) - b \in 1..Size(l)
             /\ Reverse(s)[Size(l) - BitsBefore(l, k) - b] = TRUE
                <=> b \in InChannel(tree[l[k].name], ch)
  <2> DEFINE before == BitsBefore(l, k)
             size == l[k].size
             all == Size(l)
  <2>1. before \in Nat /\ size \in Nat /\ all \in Nat /\ before + size <= all
    BY LayoutElement, SizeAfter
  <2>2. b \in 0..size - 1
    OBVIOUS
  <2>3. s[before + (b + 1)] = ps[k][b + 1]
    <3>1. b + 1 \in 1..size
      BY <2>1, <2>2
    <3> QED
      BY <1>5, <3>1
  <2>4. ps[k][b + 1] = TRUE <=> b \in InChannel(tree[l[k].name], ch)
    BY <1>4, <1>7
  <2>5. \A t \in 1..all : Reverse(s)[t] = s[all - t + 1]
    BY <1>6
  <2> HIDE DEF before, size, all
  <2>6. all - before - b \in 1..all /\ all - (all - before - b) + 1 = before + (b + 1)
    BY <2>1, <2>2
  <2>7. Reverse(s)[all - before - b] = s[before + (b + 1)]
    BY <2>5, <2>6
  <2> QED
    BY <2>3, <2>4, <2>6, <2>7 DEF before, all
<1> QED
  BY <1>1, <1>6, <1>7

LEMMA SomeFields ==
  ASSUME NEW l, IsLayout(l), Size(l) # 0
  PROVE  Len(l) # 0
BY BitsBeforeStep

\* The strings of the channels, the last one first.
LEMMA ChannelsPlaces ==
  ASSUME NEW tree
  PROVE  /\ buildChannelConfig(tree) \in Seq(BOOLEAN)
         /\ Len(buildChannelConfig(tree)) = 24 * NCHANNELS
         /\ \A k \in 1..NCHANNELS : \A t \in 1..24 :
              buildChannelConfig(tree)[24 * (k - 1) + t]
              = ChannelString(m_channel_name_size, tree, NCHANNELS - k)[t]
<1> DEFINE ps == [k \in 1..NCHANNELS |-> ChannelString(m_channel_name_size, tree, NCHANNELS - k)]
           off == [k \in 1..NCHANNELS + 1 |-> 24 * (k - 1)]
           s == buildChannelConfig(tree)
<1>1. s = FlattenSeq(ps)
  BY Zenon DEF buildChannelConfig, ChannelString, ChannelPiece
<1>2. NCHANNELS \in Nat \ {0}
  BY VmmAssumption
<1>3. Len(ps) = NCHANNELS
  BY <1>2
<1>4. IsLayout(m_channel_name_size) /\ Size(m_channel_name_size) = 24
      /\ Len(m_channel_name_size) # 0
  BY VmmTables, SomeFields
<1>5. ASSUME NEW k \in 1..NCHANNELS
      PROVE  /\ ps[k] = ChannelString(m_channel_name_size, tree, NCHANNELS - k)
             /\ ps[k] \in Seq(BOOLEAN) /\ Len(ps[k]) = 24
  <2> DEFINE ch == NCHANNELS - k
             l == m_channel_name_size
  <2>1. ps[k] = ChannelString(l, tree, ch)
    OBVIOUS
  <2>2. IsLayout(l) /\ Size(l) = 24 /\ Len(l) # 0 /\ Size(l) \in Nat
    BY <1>4
  <2> HIDE DEF ch, l
  <2>3. ChannelString(l, tree, ch) \in Seq(BOOLEAN) /\ Len(ChannelString(l, tree, ch)) = Size(l)
    BY <2>2, ChannelPlaces
  <2> QED
    BY <2>1, <2>2, <2>3 DEF ch, l
<1> HIDE DEF ps
<1>6. /\ off \in [1..NCHANNELS + 1 -> Nat]
      /\ \A k \in 1..NCHANNELS + 1 : off[k] = 24 * (k - 1)
  BY <1>2
<1> HIDE DEF off
<1>7. off[1] = 0 /\ off[NCHANNELS + 1] = 24 * NCHANNELS
  BY <1>2, <1>6
<1>8. ASSUME NEW k \in 1..NCHANNELS
      PROVE  ps[k] \in Seq(BOOLEAN) /\ off[k + 1] = off[k] + Len(ps[k])
  <2>1. k \in 1..NCHANNELS + 1 /\ k + 1 \in 1..NCHANNELS + 1
    BY <1>2
  <2>2. off[k] = 24 * (k - 1) /\ off[k + 1] = 24 * ((k + 1) - 1)
    BY <1>6, <2>1
  <2>3. ps[k] \in Seq(BOOLEAN) /\ Len(ps[k]) = 24
    BY <1>5
  <2> QED
    BY <1>2, <2>2, <2>3
<1>9. Offsets(off, ps, NCHANNELS, BOOLEAN)
  <2>1. \A k \in 1..NCHANNELS : ps[k] \in Seq(BOOLEAN) /\ off[k + 1] = off[k] + Len(ps[k])
    BY <1>8
  <2> QED
    BY ONLY <1>2, <1>3, <1>6, <1>7, <2>1 DEF Offsets
<1>10. /\ FlattenSeq(ps) \in Seq(BOOLEAN) /\ Len(FlattenSeq(ps)) = off[NCHANNELS + 1]
       /\ \A k \in 1..NCHANNELS : \A t \in 1..Len(ps[k]) : FlattenSeq(ps)[off[k] + t] = ps[k][t]
  BY <1>9, FlattenPlaces
<1>11. ASSUME NEW k \in 1..NCHANNELS, NEW t \in 1..24
       PROVE  s[24 * (k - 1) + t] = ChannelString(m_channel_name_size, tree, NCHANNELS - k)[t]
  <2>1. k \in 1..NCHANNELS + 1 /\ Len(ps[k]) = 24
    BY <1>2, <1>5
  <2>2. off[k] = 24 * (k - 1)
    BY <1>6, <2>1
  <2>3. FlattenSeq(ps)[off[k] + t] = ps[k][t]
    BY <1>10, <2>1
  <2> QED
    BY <1>1, <1>5, <2>2, <2>3
<1> HIDE DEF s
<1> QED
  BY <1>1, <1>7, <1>10, <1>11 DEF s

\* Three strings one after the other.
Joined(V, s1, s2, s3) ==
  /\ s1 \o s2 \o s3 \in Seq(V) /\ Len(s1 \o s2 \o s3) = Len(s1) + Len(s2) + Len(s3)
  /\ \A t \in 1..Len(s1) : (s1 \o s2 \o s3)[t] = s1[t]
  /\ \A t \in 1..Len(s2) : (s1 \o s2 \o s3)[Len(s1) + t] = s2[t]
  /\ \A t \in 1..Len(s3) : (s1 \o s2 \o s3)[Len(s1) + Len(s2) + t] = s3[t]

LEMMA ThreeStrings ==
  ASSUME NEW V, NEW s1 \in Seq(V), NEW s2 \in Seq(V), NEW s3 \in Seq(V)
  PROVE  Joined(V, s1, s2, s3)
<1> DEFINE s == s1 \o s2
           l1 == Len(s1)
           l2 == Len(s2)
           l3 == Len(s3)
<1>1. l1 \in Nat /\ l2 \in Nat /\ l3 \in Nat
  BY LenProperties
<1>2. s \in Seq(V) /\ Len(s) = l1 + l2
  BY ConcatProperties
<1>3. ASSUME NEW i \in 1..Len(s1) + Len(s2)
      PROVE  s[i] = IF i <= Len(s1) THEN s1[i] ELSE s2[i - Len(s1)]
  OBVIOUS
<1> HIDE DEF s
<1>4. s \o s3 \in Seq(V) /\ Len(s \o s3) = Len(s) + l3
  BY <1>2, ConcatProperties
<1>5. ASSUME NEW i \in 1..Len(s) + Len(s3)
      PROVE  (s \o s3)[i] = IF i <= Len(s) THEN s[i] ELSE s3[i - Len(s)]
  <2>1. s \in Seq(V) /\ s3 \in Seq(V)
    BY <1>2
  <2> QED
    BY ONLY <2>1, <1>5
<1>6. /\ \A i \in 1..l1 + l2 : s[i] = IF i <= l1 THEN s1[i] ELSE s2[i - l1]
      /\ \A i \in 1..(l1 + l2) + l3 :
           (s \o s3)[i] = IF i <= l1 + l2 THEN s[i] ELSE s3[i - (l1 + l2)]
  BY <1>2, <1>3, <1>5
<1> HIDE DEF l1, l2, l3
<1>7. ASSUME NEW t \in 1..l1
      PROVE  (s \o s3)[t] = s1[t]
  <2>1. t \in 1..l1 + l2 /\ t \in 1..(l1 + l2) + l3 /\ t <= l1 /\ t <= l1 + l2
    BY <1>1
  <2> QED
    BY <1>6, <2>1
<1>8. ASSUME NEW t \in 1..l2
      PROVE  (s \o s3)[l1 + t] = s2[t]
  <2>1. /\ l1 + t \in 1..l1 + l2 /\ l1 + t \in 1..(l1 + l2) + l3
        /\ ~(l1 + t <= l1) /\ l1 + t <= l1 + l2 /\ (l1 + t) - l1 = t
    BY <1>1
  <2> QED
    BY <1>6, <2>1
<1>9. ASSUME NEW t \in 1..l3
      PROVE  (s \o s3)[l1 + l2 + t] = s3[t]
  <2>1. /\ l1 + l2 + t \in 1..(l1 + l2) + l3
        /\ ~(l1 + l2 + t <= l1 + l2) /\ (l1 + l2 + t) - (l1 + l2) = t
    BY <1>1
  <2> QED
    BY <1>6, <2>1
<1> QED
  BY <1>1, <1>2, <1>4, <1>7, <1>8, <1>9 DEF Joined, s, l1, l2, l3

-----------------------------------------------------------------------------
(* Where the registers are. *)

LEMMA GlobalString ==
  ASSUME NEW tree, NEW l, IsLayout(l), Size(l) = 96
  PROVE  buildGlobalConfig(tree, l) \in Seq(BOOLEAN) /\ Len(buildGlobalConfig(tree, l)) = 96
<1>1. Size(l) # 0
  OBVIOUS
<1>2. Len(l) # 0
  BY <1>1, SomeFields
<1>3. buildGlobalConfig(tree, l) \in Seq(BOOLEAN)
  BY <1>2, GlobalPlaces
<1>4. Len(buildGlobalConfig(tree, l)) = Size(l)
  BY <1>2, GlobalPlaces
<1> QED
  BY <1>3, <1>4

LEMMA GlobalPlace ==
  ASSUME NEW tree, NEW l, IsLayout(l), NEW k \in 1..Len(l), l[k].name # NOT_USED,
         NEW b \in 0..l[k].size - 1, NEW t,
         t = IF l[k].name \in m_bitreversed_registers THEN b + 1 ELSE l[k].size - b
  PROVE  buildGlobalConfig(tree, l)[BitsBefore(l, k) + t] = TRUE <=> b \in tree[l[k].name][1]
<1>1. Len(l) # 0
  BY DEF IsLayout
<1> QED
  BY <1>1, GlobalPlaces

LEMMA ChannelPlace ==
  ASSUME NEW tree, NEW ch, NEW l, IsLayout(l), Size(l) \in Nat,
         NEW k \in 1..Len(l), l[k].name # NOT_USED,
         NEW b \in 0..l[k].size - 1, NEW c, c = Size(l) - BitsBefore(l, k) - b
  PROVE  /\ c \in 1..Size(l)
         /\ ChannelString(l, tree, ch)[c] = TRUE <=> b \in InChannel(tree[l[k].name], ch)
<1>1. Len(l) # 0
  BY DEF IsLayout
<1> QED
  BY <1>1, ChannelPlaces

LEMMA FieldAt ==
  ASSUME NEW l, IsLayout(l), NEW name \in Fields(l)
  PROVE  \E k \in 1..Len(l) :
           /\ l[k].name = name /\ name # NOT_USED
           /\ FieldsBefore(l, name) = BitsBefore(l, k)
           /\ \A j \in 1..Len(l) : l[j].name = name => j = k
<1>1. Len(l) \in Nat /\ DOMAIN l = 1..Len(l)
  BY DEF IsLayout
<1>2. PICK k \in 1..Len(l) : l[k].name = name /\ name # NOT_USED
  BY <1>1 DEF Fields
<1>3. ASSUME NEW j \in 1..Len(l), l[j].name = name
      PROVE  j = k
  <2>1. j < k => j \in 1..k - 1
    BY <1>1
  <2>2. k < j => k \in 1..j - 1
    BY <1>1
  <2>3. ~(j < k) /\ ~(k < j)
    BY <1>2, <1>3, <2>1, <2>2 DEF IsLayout
  <2> QED
    BY <1>1, <2>3
<1>4. (CHOOSE i \in DOMAIN l : l[i].name = name) = k
  BY <1>1, <1>2, <1>3
<1>5. FieldsBefore(l, name) = BitsBefore(l, k)
  BY <1>4 DEF FieldsBefore, BitsBefore
<1> QED
  BY <1>2, <1>3, <1>5

VmmLayouts == {m_global_name_size0, m_global_name_size1, m_channel_name_size}

LEMMA LayoutIsSequence ==
  ASSUME NEW l, IsLayout(l), NEW V, \A i \in 1..Len(l) : l[i] \in V
  PROVE  l \in Seq(V)
<1> DEFINE n == Len(l)
<1>1. n \in Nat /\ l = [i \in 1..n |-> l[i]]
  BY DEF IsLayout
<1>2. \A i \in 1..n : l[i] \in V
  OBVIOUS
<1> HIDE DEF n
<1>3. l \in [1..n -> V]
  BY <1>1, <1>2
<1> QED
  BY <1>1, <1>3

\* The rows of the three tables.
LEMMA RowsOfAll ==
  ASSUME NEW f
  PROVE  f \in Range(m_global_name_size0 \o m_global_name_size1 \o m_channel_name_size)
         <=> \E l \in VmmLayouts : \E i \in 1..Len(l) : f = l[i]
<1> DEFINE l1 == m_global_name_size0
           l2 == m_global_name_size1
           l3 == m_channel_name_size
           s == l1 \o l2 \o l3
           V == UNION {{l[i] : i \in 1..Len(l)} : l \in VmmLayouts}
<1>1. VmmLayouts = {l1, l2, l3} /\ \A l \in VmmLayouts : IsLayout(l)
  BY VmmTables DEF VmmLayouts
<1>2. \A l \in VmmLayouts : \A i \in 1..Len(l) : l[i] \in V
  OBVIOUS
<1> HIDE DEF l1, l2, l3, V
<1>3. l1 \in Seq(V) /\ l2 \in Seq(V) /\ l3 \in Seq(V)
  BY <1>1, <1>2, LayoutIsSequence
<1>4. Len(l1) \in Nat /\ Len(l2) \in Nat /\ Len(l3) \in Nat
  BY <1>3, LenProperties
<1>5. /\ s \in Seq(V) /\ Len(s) = Len(l1) + Len(l2) + Len(l3)
      /\ \A t \in 1..Len(l1) : s[t] = l1[t]
      /\ \A t \in 1..Len(l2) : s[Len(l1) + t] = l2[t]
      /\ \A t \in 1..Len(l3) : s[Len(l1) + Len(l2) + t] = l3[t]
  <2>1. Joined(V, l1, l2, l3)
    BY ONLY <1>3, ThreeStrings
  <2> QED
    BY ONLY <2>1 DEF Joined
<1> HIDE DEF s
<1>6. DOMAIN s = 1..Len(l1) + Len(l2) + Len(l3)
  BY <1>5, LenProperties
<1>7. f \in Range(s) <=> \E i \in DOMAIN s : f = s[i]
  BY DEF Range
<1>8. ASSUME NEW i \in DOMAIN s, f = s[i]
      PROVE  \E l \in VmmLayouts : \E j \in 1..Len(l) : f = l[j]
  <2>1. CASE i <= Len(l1)
    <3>1. i \in 1..Len(l1)
      BY <1>4, <1>6, <2>1
    <3> QED
      BY <1>1, <1>5, <1>8, <3>1
  <2>2. CASE Len(l1) < i /\ i <= Len(l1) + Len(l2)
    <3>1. i - Len(l1) \in 1..Len(l2) /\ Len(l1) + (i - Len(l1)) = i
      BY <1>4, <1>6, <2>2
    <3> QED
      BY <1>1, <1>5, <1>8, <3>1
  <2>3. CASE Len(l1) + Len(l2) < i
    <3>1. /\ i - (Len(l1) + Len(l2)) \in 1..Len(l3)
          /\ Len(l1) + Len(l2) + (i - (Len(l1) + Len(l2))) = i
      BY <1>4, <1>6, <2>3
    <3> QED
      BY <1>1, <1>5, <1>8, <3>1
  <2>4. i \in Int
    BY <1>4, <1>6
  <2> QED
    BY <1>4, <2>1, <2>2, <2>3, <2>4
<1>9. ASSUME NEW l \in VmmLayouts, NEW j \in 1..Len(l), f = l[j]
      PROVE  \E i \in DOMAIN s : f = s[i]
  <2>1. CASE l = l1
    <3>1. j \in DOMAIN s
      BY <1>4, <1>6, <2>1
    <3> QED
      BY <1>5, <1>9, <2>1, <3>1
  <2>2. CASE l = l2
    <3>1. Len(l1) + j \in DOMAIN s
      BY <1>4, <1>6, <2>2
    <3> QED
      BY <1>5, <1>9, <2>2, <3>1
  <2>3. CASE l = l3
    <3>1. Len(l1) + Len(l2) + j \in DOMAIN s
      BY <1>4, <1>6, <2>3
    <3> QED
      BY <1>5, <1>9, <2>3, <3>1
  <2> QED
    BY <1>1, <2>1, <2>2, <2>3
<1> QED
  BY <1>7, <1>8, <1>9 DEF s, l1, l2, l3

LEMMA TableOfName ==
  ASSUME NEW l \in VmmLayouts, NEW m \in VmmLayouts, NEW name \in Fields(l), name \in Fields(m)
  PROVE  l = m
BY VmmTables DEF VmmLayouts, Globals, Channels

LEMMA SizeIs ==
  ASSUME NEW l \in VmmLayouts, NEW k \in 1..Len(l), l[k].name # NOT_USED
  PROVE  /\ IsLayout(l) /\ l[k].name \in Fields(l) /\ l[k].name \in Globals \cup Channels
         /\ SizeOf[l[k].name] = l[k].size
         /\ FieldsBefore(l, l[k].name) = BitsBefore(l, k)
<1> DEFINE name == l[k].name
           Rows == Range(m_global_name_size0 \o m_global_name_size1 \o m_channel_name_size)
           f == CHOOSE g \in Rows : g.name = name
<1>1. IsLayout(l) /\ \A m \in VmmLayouts : IsLayout(m) /\ DOMAIN m = 1..Len(m)
  <2>1. \A m \in VmmLayouts : IsLayout(m)
    BY VmmTables DEF VmmLayouts
  <2>2. \A m : IsLayout(m) => DOMAIN m = 1..Len(m)
    BY DEF IsLayout
  <2> QED
    BY <2>1, <2>2
<1>2. name \in Fields(l)
  BY <1>1 DEF Fields
<1>3. name \in Globals \cup Channels
  BY <1>2 DEF VmmLayouts, Globals, Channels
<1>4. SizeOf[name] = f.size
  BY <1>3 DEF SizeOf
<1>5. PICK j \in 1..Len(l) : /\ FieldsBefore(l, name) = BitsBefore(l, j)
                             /\ \A i \in 1..Len(l) : l[i].name = name => i = j
  BY <1>1, <1>2, FieldAt
<1>6. j = k
  BY <1>5
<1>7. \A g : g \in Rows <=> \E m \in VmmLayouts : \E i \in 1..Len(m) : g = m[i]
  BY RowsOfAll
<1> HIDE DEF Rows
<1>8. f \in Rows /\ f.name = name
  <2>1. l[k] \in Rows
    BY <1>7
  <2> QED
    BY <2>1
<1> HIDE DEF f
<1>9. PICK m \in VmmLayouts : \E i \in 1..Len(m) : f = m[i]
  BY <1>7, <1>8
<1>10. PICK i \in 1..Len(m) : f = m[i]
  BY <1>9
<1>11. name \in Fields(m)
  BY <1>1, <1>8, <1>10 DEF Fields
<1>12. m = l
  BY <1>2, <1>11, TableOfName
<1>13. i = k
  BY <1>5, <1>6, <1>8, <1>10, <1>12
<1>14. f = l[k]
  BY <1>10, <1>12, <1>13
<1> QED
  BY <1>1, <1>2, <1>3, <1>4, <1>5, <1>6, <1>14

LEMMA PlaceParts ==
  ASSUME NEW p
  PROVE  p \in AllPlaces
         <=> /\ p = <<p[1], p[2]>> /\ p[1] \in Globals \cup Channels
             /\ p[2] \in IF p[1] \in Channels THEN 0..NCHANNELS - 1 ELSE {0}
<1>1. p \in AllPlaces <=> \E name \in Globals \cup Channels : p \in Places(name)
  BY DEF AllPlaces
<1>2. ASSUME NEW name \in Globals \cup Channels, p \in Places(name)
      PROVE  /\ p = <<p[1], p[2]>> /\ p[1] \in Globals \cup Channels
             /\ p[2] \in IF p[1] \in Channels THEN 0..NCHANNELS - 1 ELSE {0}
  <2> DEFINE S == IF name \in Channels THEN 0..NCHANNELS - 1 ELSE {0}
  <2>1. p \in {name} \X S
    BY <1>2 DEF Places
  <2> HIDE DEF S
  <2>2. p = <<p[1], p[2]>> /\ p[1] = name /\ p[2] \in S
    BY <2>1
  <2> QED
    BY <2>2 DEF S
<1>3. ASSUME p = <<p[1], p[2]>>, p[1] \in Globals \cup Channels,
             p[2] \in IF p[1] \in Channels THEN 0..NCHANNELS - 1 ELSE {0}
      PROVE  \E name \in Globals \cup Channels : p \in Places(name)
  <2> DEFINE S == IF p[1] \in Channels THEN 0..NCHANNELS - 1 ELSE {0}
  <2>1. p[2] \in S
    BY <1>3
  <2>2. Places(p[1]) = {p[1]} \X S
    BY DEF Places
  <2> HIDE DEF S
  <2>3. p \in {p[1]} \X S
    BY <1>3, <2>1
  <2> QED
    BY <1>3, <2>2, <2>3
<1> QED
  BY <1>1, <1>2, <1>3

LEMMA RegisterNamed ==
  ASSUME NEW name \in Globals \cup Channels
  PROVE  \E l \in VmmLayouts : /\ name \in Fields(l)
                               /\ \E k \in 1..Len(l) : l[k].name = name /\ name # NOT_USED
<1>1. PICK l \in VmmLayouts : name \in Fields(l)
  BY DEF VmmLayouts, Globals, Channels
<1>2. IsLayout(l)
  BY VmmTables DEF VmmLayouts
<1>3. DOMAIN l = 1..Len(l)
  BY <1>2 DEF IsLayout
<1>4. \E k \in 1..Len(l) : l[k].name = name /\ name # NOT_USED
  BY <1>1, <1>3 DEF Fields
<1> QED
  BY <1>1, <1>4

ValueAt(tree, p) ==
  IF p[1] \in Channels THEN InChannel(tree[p[1]], p[2]) ELSE tree[p[1]][1]

LEMMA BehindChannels == \A x \in Nat : \A y \in 1..96 : 96 + x + y \in 1..192 + x
OBVIOUS

\* The string that is built has every bit of every value at its place.
LEMMA ConfigPlaces ==
  ASSUME NEW tree, NEW p \in AllPlaces, NEW b \in 0..SizeOf[p[1]] - 1
  PROVE  PlaceOf(p, b) \in buildConfig(tree) <=> b \in ValueAt(tree, p)
<1> DEFINE s1 == buildGlobalConfig(tree, m_global_name_size1)
           s2 == buildChannelConfig(tree)
           s3 == buildGlobalConfig(tree, m_global_name_size0)
           s == s1 \o s2 \o s3
           name == p[1]
           N == NCHANNELS
<1>1. N \in Nat \ {0}
  BY VmmAssumption
<1>2. /\ IsLayout(m_global_name_size1) /\ Len(m_global_name_size1) # 0
      /\ Size(m_global_name_size1) = 96
      /\ IsLayout(m_global_name_size0) /\ Len(m_global_name_size0) # 0
      /\ Size(m_global_name_size0) = 96
      /\ IsLayout(m_channel_name_size) /\ Len(m_channel_name_size) # 0
      /\ Size(m_channel_name_size) = 24
  BY VmmTables, SomeFields
<1>3. /\ s1 \in Seq(BOOLEAN) /\ Len(s1) = 96
      /\ s3 \in Seq(BOOLEAN) /\ Len(s3) = 96
      /\ s2 \in Seq(BOOLEAN) /\ Len(s2) = 24 * N
  <2>1. s1 \in Seq(BOOLEAN) /\ Len(s1) = 96
    BY <1>2, GlobalString
  <2>2. s3 \in Seq(BOOLEAN) /\ Len(s3) = 96
    BY <1>2, GlobalString
  <2>3. s2 \in Seq(BOOLEAN) /\ Len(s2) = 24 * N
    BY ChannelsPlaces
  <2> QED
    BY <2>1, <2>2, <2>3
<1>4. buildConfig(tree) = {i \in DOMAIN s : s[i]}
  BY DEF buildConfig
<1> HIDE DEF s1, s2, s3
<1>5. /\ s \in Seq(BOOLEAN) /\ Len(s) = 192 + 24 * N
      /\ \A t \in 1..96 : s[t] = s1[t]
      /\ \A t \in 1..24 * N : s[96 + t] = s2[t]
      /\ \A t \in 1..96 : s[96 + 24 * N + t] = s3[t]
  <2>1. /\ s \in Seq(BOOLEAN) /\ Len(s) = Len(s1) + Len(s2) + Len(s3)
        /\ \A t \in 1..Len(s1) : s[t] = s1[t]
        /\ \A t \in 1..Len(s2) : s[Len(s1) + t] = s2[t]
        /\ \A t \in 1..Len(s3) : s[Len(s1) + Len(s2) + t] = s3[t]
    <3> DEFINE V == BOOLEAN
    <3>1. s1 \in Seq(V) /\ s2 \in Seq(V) /\ s3 \in Seq(V)
      BY <1>3
    <3> HIDE DEF V
    <3>2. /\ s \in Seq(V) /\ Len(s) = Len(s1) + Len(s2) + Len(s3)
          /\ \A t \in 1..Len(s1) : s[t] = s1[t]
          /\ \A t \in 1..Len(s2) : s[Len(s1) + t] = s2[t]
          /\ \A t \in 1..Len(s3) : s[Len(s1) + Len(s2) + t] = s3[t]
      <4>1. Joined(V, s1, s2, s3)
        BY ONLY <3>1, ThreeStrings
      <4> QED
        BY ONLY <4>1 DEF Joined
    <3> QED
      BY <3>2 DEF V
  <2> HIDE DEF s
  <2>2. 96 + 24 * N + 96 = 192 + 24 * N
    BY <1>1
  <2> QED
    BY <1>3, <2>1, <2>2
<1> HIDE DEF s
<1>6. ASSUME NEW i \in 1..192 + 24 * N
      PROVE  i \in buildConfig(tree) <=> s[i] = TRUE
  <2>1. s \in Seq(BOOLEAN) /\ DOMAIN s = 1..192 + 24 * N
    BY <1>5, LenProperties
  <2>2. s[i] \in BOOLEAN
    BY <2>1, <1>5, ElementOfSeq
  <2>3. i \in {j \in DOMAIN s : s[j]} <=> s[i]
    BY <2>1
  <2> QED
    BY <1>4, <2>2, <2>3
<1>7. PICK l \in VmmLayouts : /\ name \in Fields(l)
                              /\ \E k \in 1..Len(l) : l[k].name = name /\ name # NOT_USED
  BY PlaceParts, RegisterNamed
<1>8. PICK k \in 1..Len(l) : l[k].name = name /\ name # NOT_USED
  BY <1>7
<1> DEFINE size == l[k].size
           before == BitsBefore(l, k)
           rev == name \in m_bitreversed_registers
<1>9. IsLayout(l) /\ SizeOf[name] = size /\ FieldsBefore(l, name) = before
  BY <1>8, SizeIs
<1>10. /\ size \in Nat /\ before \in Nat /\ Size(l) \in Nat /\ before + size <= Size(l)
       /\ b \in 0..size - 1
  BY <1>9, LayoutElement, SizeAfter
<1> DEFINE t == IF rev THEN b + 1 ELSE size - b
           first == PlaceOfRegister[name]
<1>11. t \in 1..size
  <2> HIDE DEF size, rev
  <2> QED
    BY <1>10
<1>12. name \in Globals \cup Channels
  BY PlaceParts
<1>13. PlaceOf(p, b) = first + t + (IF name \in Channels THEN 96 + 24 * (N - 1 - p[2]) ELSE 0)
  BY <1>9 DEF PlaceOf
<1>14. CASE l = m_global_name_size1
  <2>1. name \in Fields(m_global_name_size1) /\ name \notin Channels
    BY <1>7, <1>14, VmmTables DEF Globals
  <2>2. first = before
    BY <1>9, <1>12, <1>14, <2>1 DEF PlaceOfRegister
  <2>3. s1[before + t] = TRUE <=> b \in tree[name][1]
    <3>1. /\ IsLayout(l) /\ k \in 1..Len(l) /\ l[k].name # NOT_USED /\ b \in 0..l[k].size - 1
          /\ t = IF l[k].name \in m_bitreversed_registers THEN b + 1 ELSE l[k].size - b
      BY <1>8, <1>9, <1>10
    <3> HIDE DEF t
    <3>2. buildGlobalConfig(tree, l)[BitsBefore(l, k) + t] = TRUE <=> b \in tree[l[k].name][1]
      BY ONLY <3>1, GlobalPlace
    <3> QED
      BY <1>8, <1>14, <3>2 DEF s1
  <2>4. PlaceOf(p, b) = first + t + 0
    BY <1>13, <2>1
  <2> HIDE DEF size, before, t, first
  <2>5. PlaceOf(p, b) = before + t /\ before + t \in 1..96 /\ before + t \in 1..192 + 24 * N
    <3>1. /\ N \in Nat /\ before \in Nat /\ size \in Nat /\ t \in 1..size
          /\ before + size <= 96
      BY <1>1, <1>2, <1>10, <1>11, <1>14
    <3>2. PlaceOf(p, b) = before + t
      BY ONLY <2>2, <2>4, <3>1
    <3> QED
      BY ONLY <3>1, <3>2
  <2>6. before + t \in buildConfig(tree) <=> b \in tree[name][1]
    BY <1>5, <1>6, <2>3, <2>5
  <2> QED
    BY <2>1, <2>5, <2>6 DEF ValueAt
<1>15. CASE l = m_global_name_size0
  <2>1. name \notin Fields(m_global_name_size1) /\ name \notin Channels
    BY <1>7, <1>15, VmmTables DEF Globals
  <2>2. first = 96 + 24 * N + before
    BY <1>9, <1>12, <1>15, <2>1 DEF PlaceOfRegister
  <2>3. s3[before + t] = TRUE <=> b \in tree[name][1]
    <3>1. /\ IsLayout(l) /\ k \in 1..Len(l) /\ l[k].name # NOT_USED /\ b \in 0..l[k].size - 1
          /\ t = IF l[k].name \in m_bitreversed_registers THEN b + 1 ELSE l[k].size - b
      BY <1>8, <1>9, <1>10
    <3> HIDE DEF t
    <3>2. buildGlobalConfig(tree, l)[BitsBefore(l, k) + t] = TRUE <=> b \in tree[l[k].name][1]
      BY ONLY <3>1, GlobalPlace
    <3> QED
      BY <1>8, <1>15, <3>2 DEF s3
  <2>4. PlaceOf(p, b) = first + t + 0
    BY <1>13, <2>1
  <2> HIDE DEF size, before, t, first
  <2>5. /\ PlaceOf(p, b) = 96 + 24 * N + (before + t) /\ before + t \in 1..96
        /\ 96 + 24 * N + (before + t) \in 1..192 + 24 * N
    <3>1. /\ N \in Nat /\ before \in Nat /\ size \in Nat /\ t \in 1..size
          /\ before + size <= 96
      BY <1>1, <1>2, <1>10, <1>11, <1>15
    <3>2. PlaceOf(p, b) = 96 + 24 * N + (before + t)
      BY ONLY <2>2, <2>4, <3>1
    <3>3. before + t \in 1..96
      BY ONLY <3>1
    <3>4. 24 * N \in Nat
      BY ONLY <3>1
    <3>5. 96 + 24 * N + (before + t) \in 1..192 + 24 * N
      BY ONLY <3>3, <3>4, BehindChannels
    <3> QED
      BY ONLY <3>2, <3>3, <3>5
  <2>6. 96 + 24 * N + (before + t) \in buildConfig(tree) <=> b \in tree[name][1]
    <3>1. s[96 + 24 * N + (before + t)] = s3[before + t]
      BY <1>5, <2>5
    <3> QED
      BY <1>6, <2>3, <2>5, <3>1
  <2> QED
    BY <2>1, <2>5, <2>6 DEF ValueAt
<1>16. CASE l = m_channel_name_size
  <2>1. name \in Channels /\ name \notin Fields(m_global_name_size1) /\ ~rev
    BY <1>7, <1>16, VmmTables DEF Globals, Channels
  <2>2. first = 24 - before - size
    BY <1>9, <1>12, <1>16, <2>1 DEF PlaceOfRegister
  <2>3. p[2] \in 0..N - 1
    BY <2>1, PlaceParts
  <2> DEFINE ch == p[2]
             c == 24 - before - b
  <2>4. /\ c \in 1..24
        /\ ChannelString(m_channel_name_size, tree, ch)[c] = TRUE
           <=> b \in InChannel(tree[name], ch)
    <3>1. c = Size(l) - BitsBefore(l, k) - b /\ Size(l) = 24 /\ l[k].name = name
      BY <1>2, <1>8, <1>16
    <3> HIDE DEF c, ch
    <3> QED
      <4>1. /\ IsLayout(l) /\ Size(l) \in Nat /\ k \in 1..Len(l) /\ l[k].name # NOT_USED
            /\ b \in 0..l[k].size - 1 /\ c = Size(l) - BitsBefore(l, k) - b
        BY <1>8, <1>9, <1>10, <3>1
      <4>2. /\ c \in 1..Size(l)
            /\ ChannelString(l, tree, ch)[c] = TRUE <=> b \in InChannel(tree[l[k].name], ch)
        BY ONLY <4>1, ChannelPlace
      <4> QED
        BY <1>16, <3>1, <4>2
  <2>5. PlaceOf(p, b) = first + t + (96 + 24 * (N - 1 - ch)) /\ t = size - b
    BY <1>13, <2>1
  <2> HIDE DEF size, before, t, first, ch
  <2>6. ch \in Nat /\ ch <= N - 1
    BY <1>1, <2>3 DEF ch
  <2>7. /\ N - ch \in 1..N /\ N - (N - ch) = ch
        /\ PlaceOf(p, b) = 96 + (24 * ((N - ch) - 1) + c)
        /\ 24 * ((N - ch) - 1) + c \in 1..24 * N
        /\ 96 + (24 * ((N - ch) - 1) + c) \in 1..192 + 24 * N
    <3> DEFINE m == N - ch
    <3>1. m \in 1..N /\ N - m = ch /\ m \in Int
      BY <1>1, <2>6
    <3>2. PlaceOf(p, b) = 96 + (24 * (m - 1) + c)
      <4>1. N \in Nat /\ ch \in Nat /\ size \in Nat /\ before \in Nat /\ b \in Nat
        BY <1>1, <1>10, <2>6
      <4>2. first + t = 24 - before - b
        BY ONLY <2>2, <2>5, <4>1
      <4>3. first \in Int /\ t \in Int
        BY ONLY <2>2, <2>5, <4>1
      <4> QED
        BY ONLY <2>5, <4>1, <4>2, <4>3
    <3> HIDE DEF m, c
    <3>3. 24 * (m - 1) + c \in 1..24 * N
      BY <1>1, <2>4, <3>1
    <3>4. 96 + (24 * (m - 1) + c) \in 1..192 + 24 * N
      BY <1>1, <3>3
    <3> QED
      BY <3>1, <3>2, <3>3, <3>4 DEF m
  <2> HIDE DEF c
  <2>8. s2[24 * ((N - ch) - 1) + c] = ChannelString(m_channel_name_size, tree, N - (N - ch))[c]
    BY <2>4, <2>7, ChannelsPlaces DEF s2
  <2>9. s[96 + (24 * ((N - ch) - 1) + c)] = TRUE <=> b \in InChannel(tree[name], ch)
    BY <1>5, <2>4, <2>7, <2>8
  <2>10. PlaceOf(p, b) \in buildConfig(tree) <=> b \in InChannel(tree[name], ch)
    BY <1>6, <2>7, <2>9
  <2> QED
    BY <2>1, <2>10 DEF ValueAt, ch
<1> QED
  BY <1>7, <1>14, <1>15, <1>16 DEF VmmLayouts

-----------------------------------------------------------------------------
(* The setters. *)

\* One value for all channels, and one for each.
OneValue   == {<<v>> : v \in SUBSET Nat}
EachValue  == [1..NCHANNELS -> SUBSET Nat]
Tree(tree) ==
  /\ DOMAIN tree = Globals \cup Channels
  /\ \A name \in Globals \cup Channels :
       tree[name] \in OneValue \/ (name \in Channels /\ tree[name] \in EachValue)
ValuesOf(tree) == [p \in AllPlaces |-> ValueAt(tree, p)]

LEMMA OneValueLen ==
  ASSUME NEW v \in OneValue
  PROVE  Len(v) = 1 /\ DOMAIN v = 1..1 /\ v[1] \in SUBSET Nat
<1>1. PICK x \in SUBSET Nat : v = <<x>>
  BY DEF OneValue
<1> DEFINE V == SUBSET Nat
<1>2. x \in V
  OBVIOUS
<1> HIDE DEF V
<1>3. v \in Seq(V) /\ Len(v) = 1 /\ v[1] = x
  BY <1>1, <1>2
<1>4. DOMAIN v = 1..1
  BY <1>3, LenProperties
<1> QED
  BY <1>2, <1>3, <1>4 DEF V

LEMMA EachValueLen ==
  ASSUME NEW v \in EachValue
  PROVE  Len(v) = NCHANNELS /\ DOMAIN v = 1..NCHANNELS
         /\ \A i \in 1..NCHANNELS : v[i] \in SUBSET Nat
BY VmmAssumption DEF EachValue

LEMMA SingleValue ==
  ASSUME NEW value \in SUBSET Nat
  PROVE  <<value>> \in OneValue /\ <<value>>[1] = value
BY DEF OneValue

LEMMA InChannelValue ==
  ASSUME NEW v, v \in OneValue \/ v \in EachValue, NEW ch \in 0..NCHANNELS - 1
  PROVE  /\ InChannel(v, ch) \in SUBSET Nat
         /\ InChannel(v, ch) = IF Len(v) = 1 THEN v[1] ELSE v[ch + 1]
         /\ \E i \in DOMAIN v : InChannel(v, ch) = v[i]
<1>1. NCHANNELS \in Nat \ {0} /\ ch + 1 \in 1..NCHANNELS /\ 1 \in 1..NCHANNELS
  BY VmmAssumption
<1>2. CASE v \in OneValue
  <2>1. Len(v) = 1 /\ 1 \in DOMAIN v /\ v[1] \in SUBSET Nat
    BY <1>2, OneValueLen
  <2> QED
    BY <2>1 DEF InChannel
<1>3. CASE v \in EachValue
  <2>1. /\ DOMAIN v = 1..NCHANNELS /\ \A i \in 1..NCHANNELS : v[i] \in SUBSET Nat
    BY <1>3, EachValueLen
  <2> QED
    BY <1>1, <2>1 DEF InChannel
<1> QED
  BY <1>2, <1>3

\* All values of some registers fit, and what the code asks.
LEMMA FitIsNoOverflow ==
  ASSUME NEW tree, Tree(tree), NEW called \in SUBSET (Globals \cup Channels)
  PROVE  NoOverflow(tree, called)
         <=> \A p \in AllPlaces : p[1] \in called => Fits(ValuesOf(tree)[p], SizeOf[p[1]])
<1> DEFINE F1(v, name) == Fits(v, SizeOf[name])
<1>0. NCHANNELS \in Nat \ {0}
  BY VmmAssumption
<1>1. NoOverflow(tree, called) <=> \A name \in called : \A i \in DOMAIN tree[name] : F1(tree[name][i], name)
  BY DEF NoOverflow
<1>2. \A p \in AllPlaces : ValuesOf(tree)[p] = ValueAt(tree, p)
  BY DEF ValuesOf
<1> HIDE DEF F1
<1>3. ASSUME NoOverflow(tree, called), NEW p \in AllPlaces, p[1] \in called
      PROVE  F1(ValueAt(tree, p), p[1])
  <2>1. \E i \in DOMAIN tree[p[1]] : ValueAt(tree, p) = tree[p[1]][i]
    <3>1. CASE p[1] \in Channels
      <4>1. p[2] \in 0..NCHANNELS - 1 /\ (tree[p[1]] \in OneValue \/ tree[p[1]] \in EachValue)
        BY <3>1, PlaceParts DEF Tree
      <4> QED
        BY <3>1, <4>1, InChannelValue DEF ValueAt
    <3>2. CASE p[1] \notin Channels
      <4>1. tree[p[1]] \in OneValue
        BY <3>2, PlaceParts DEF Tree
      <4>2. 1 \in DOMAIN tree[p[1]]
        BY <4>1, OneValueLen
      <4> QED
        BY <3>2, <4>2 DEF ValueAt
    <3> QED
      BY <3>1, <3>2
  <2> QED
    BY <1>1, <1>3, <2>1
<1>4. ASSUME \A p \in AllPlaces : p[1] \in called => F1(ValueAt(tree, p), p[1]),
             NEW name \in called, NEW i \in DOMAIN tree[name]
      PROVE  F1(tree[name][i], name)
  <2>0. name \in Globals \cup Channels
    OBVIOUS
  <2>1. CASE name \notin Channels
    <3>1. tree[name] \in OneValue
      BY <2>0, <2>1 DEF Tree
    <3>2. i = 1
      BY <3>1, OneValueLen
    <3>3. <<name, 0>> \in AllPlaces
      BY <2>0, <2>1, PlaceParts
    <3>4. ValueAt(tree, <<name, 0>>) = tree[name][1]
      BY <2>1 DEF ValueAt
    <3> QED
      BY <1>4, <3>2, <3>3, <3>4
  <2>2. CASE name \in Channels
    <3>1. tree[name] \in OneValue \/ tree[name] \in EachValue
      BY <2>0, <2>2 DEF Tree
    <3>2. \A ch \in 0..NCHANNELS - 1 : <<name, ch>> \in AllPlaces
      BY <2>0, <2>2, PlaceParts
    <3>3. PICK ch \in 0..NCHANNELS - 1 : InChannel(tree[name], ch) = tree[name][i]
      <4>1. CASE Len(tree[name]) = 1
        <5>1. i = 1
          BY <1>0, <3>1, <4>1, OneValueLen, EachValueLen
        <5>2. 0 \in 0..NCHANNELS - 1
          BY <1>0
        <5> QED
          BY <4>1, <5>1, <5>2 DEF InChannel
      <4>2. CASE Len(tree[name]) # 1
        <5>1. i \in 1..NCHANNELS
          BY <3>1, <4>2, OneValueLen, EachValueLen
        <5>2. i - 1 \in 0..NCHANNELS - 1 /\ (i - 1) + 1 = i
          BY <1>0, <5>1
        <5>3. InChannel(tree[name], i - 1) = tree[name][i]
          BY <4>2, <5>2 DEF InChannel
        <5> QED
          BY <5>2, <5>3
      <4> QED
        BY <4>1, <4>2
    <3>4. ValueAt(tree, <<name, ch>>) = InChannel(tree[name], ch)
      BY <2>2 DEF ValueAt
    <3>5. <<name, ch>> \in AllPlaces /\ <<name, ch>>[1] = name
      BY <3>2
    <3> QED
      BY <1>4, <3>3, <3>4, <3>5
  <2> QED
    BY <2>1, <2>2
<1> QED
  BY <1>1, <1>2, <1>3, <1>4 DEF F1

LEMMA PlacesOfName ==
  ASSUME NEW p \in AllPlaces, NEW name
  PROVE  p \in Places(name) <=> p[1] = name
<1> DEFINE S == IF name \in Channels THEN 0..NCHANNELS - 1 ELSE {0}
<1>1. /\ p = <<p[1], p[2]>>
      /\ p[2] \in IF p[1] \in Channels THEN 0..NCHANNELS - 1 ELSE {0}
  BY PlaceParts
<1>2. Places(name) = {name} \X S
  BY DEF Places
<1>3. p[1] = name => p[2] \in S
  BY <1>1
<1> HIDE DEF S
<1> QED
  BY <1>1, <1>2, <1>3

LEMMA PutValue ==
  ASSUME NEW tree, Tree(tree), NEW name \in Globals \cup Channels, NEW value \in SUBSET Nat
  PROVE  /\ Tree(Put(tree, name, <<value>>))
         /\ ValuesOf(Put(tree, name, <<value>>))
            = [p \in AllPlaces |-> IF p \in Places(name) THEN value ELSE ValuesOf(tree)[p]]
<1> DEFINE one == <<value>>
           new == Put(tree, name, one)
<1>1. one \in OneValue /\ one[1] = value /\ Len(one) = 1
  BY SingleValue, OneValueLen
<1> HIDE DEF one
<1>2. /\ DOMAIN new = Globals \cup Channels /\ new[name] = one
      /\ \A n \in Globals \cup Channels : n # name => new[n] = tree[n]
  BY DEF Put, Tree
<1> HIDE DEF new
<1>3. Tree(new)
  <2>1. ASSUME NEW n \in Globals \cup Channels
        PROVE  new[n] \in OneValue \/ (n \in Channels /\ new[n] \in EachValue)
    BY <1>1, <1>2 DEF Tree
  <2> QED
    BY <1>2, <2>1 DEF Tree
<1>4. ASSUME NEW p \in AllPlaces
      PROVE  ValueAt(new, p) = IF p \in Places(name) THEN value ELSE ValueAt(tree, p)
  <2>1. p[1] \in Globals \cup Channels /\ (p \in Places(name) <=> p[1] = name)
    BY PlaceParts, PlacesOfName
  <2> QED
    BY <1>1, <1>2, <2>1 DEF ValueAt, InChannel
<1>5. ValuesOf(new)
      = [p \in AllPlaces |-> IF p \in Places(name) THEN value ELSE ValuesOf(tree)[p]]
  BY <1>4 DEF ValuesOf
<1> QED
  BY <1>3, <1>5 DEF new, one

\* The values of all channels, one of them changed.
WithOne(tree, name, value, ch) ==
  [i \in 1..NCHANNELS |-> IF i = ch + 1 THEN value ELSE InChannel(tree[name], i - 1)]

LEMMA PutOne ==
  ASSUME NEW tree, Tree(tree), NEW name \in Channels, NEW value \in SUBSET Nat,
         NEW ch \in 0..NCHANNELS - 1, NEW values, values = WithOne(tree, name, value, ch)
  PROVE  /\ Tree(Put(tree, name, values))
         /\ ValuesOf(Put(tree, name, values))
            = [p \in AllPlaces |-> IF p \in {<<name, ch>>} THEN value ELSE ValuesOf(tree)[p]]
<1> DEFINE new == Put(tree, name, values)
<1>0. NCHANNELS \in Nat \ {0}
  BY VmmAssumption
<1>1. name \in Globals \cup Channels /\ (tree[name] \in OneValue \/ tree[name] \in EachValue)
  BY DEF Tree
<1>2. values \in EachValue /\ Len(values) = NCHANNELS
  <2>1. ASSUME NEW i \in 1..NCHANNELS
        PROVE  (IF i = ch + 1 THEN value ELSE InChannel(tree[name], i - 1)) \in SUBSET Nat
    <3>1. i - 1 \in 0..NCHANNELS - 1
      BY <1>0
    <3>2. InChannel(tree[name], i - 1) \in SUBSET Nat
      BY <1>1, <3>1, InChannelValue
    <3> QED
      BY <3>2
  <2>2. values \in EachValue
    BY <2>1 DEF EachValue, WithOne
  <2> QED
    BY <2>2, EachValueLen
<1>3. ASSUME NEW c \in 0..NCHANNELS - 1
      PROVE  InChannel(values, c) = IF c = ch THEN value ELSE InChannel(tree[name], c)
  <2>1. c + 1 \in 1..NCHANNELS /\ (c + 1) - 1 = c /\ (c + 1 = ch + 1 <=> c = ch)
    BY <1>0
  <2>2. values[c + 1] = IF c + 1 = ch + 1 THEN value ELSE InChannel(tree[name], (c + 1) - 1)
    BY <2>1 DEF WithOne
  <2>3. InChannel(values, c) = values[c + 1]
    <3>1. NCHANNELS = 1 => c + 1 = 1
      BY <1>0
    <3>2. InChannel(values, c) = IF Len(values) = 1 THEN values[1] ELSE values[c + 1]
      BY Zenon DEF InChannel
    <3> QED
      BY <1>2, <3>1, <3>2, Zenon
  <2> QED
    BY <2>1, <2>2, <2>3
<1>4. /\ DOMAIN new = Globals \cup Channels /\ new[name] = values
      /\ \A n \in Globals \cup Channels : n # name => new[n] = tree[n]
  BY <1>1 DEF Put, Tree
<1> HIDE DEF new
<1>5. Tree(new)
  <2>1. ASSUME NEW n \in Globals \cup Channels
        PROVE  new[n] \in OneValue \/ (n \in Channels /\ new[n] \in EachValue)
    BY <1>2, <1>4 DEF Tree
  <2> QED
    BY <1>4, <2>1 DEF Tree
<1>6. ASSUME NEW p \in AllPlaces
      PROVE  ValueAt(new, p) = IF p \in {<<name, ch>>} THEN value ELSE ValueAt(tree, p)
  <2>1. /\ p = <<p[1], p[2]>> /\ p[1] \in Globals \cup Channels
        /\ p[1] \in Channels => p[2] \in 0..NCHANNELS - 1
    BY PlaceParts
  <2>2. CASE p[1] = name
    <3>1. p \in {<<name, ch>>} <=> p[2] = ch
      BY <2>1, <2>2
    <3> QED
      BY <1>3, <1>4, <2>1, <2>2, <3>1 DEF ValueAt
  <2>3. CASE p[1] # name
    BY <1>4, <2>1, <2>3 DEF ValueAt
  <2> QED
    BY <2>2, <2>3
<1>7. ValuesOf(new)
      = [p \in AllPlaces |-> IF p \in {<<name, ch>>} THEN value ELSE ValuesOf(tree)[p]]
  BY <1>6 DEF ValuesOf
<1> QED
  BY <1>5, <1>7 DEF new

-----------------------------------------------------------------------------
(* What the string shows. *)

\* The string is always one that was built of some tree: the tree itself, when
\* the last setter returned.
Built(string, values) ==
  \E tree : Tree(tree) /\ string = buildConfig(tree) /\ values = ValuesOf(tree)
VmmInv ==
  /\ Tree(config) /\ asked = ValuesOf(config)
  /\ outcome \in {"ok", "thrown"}
  /\ Built(bits, shown)

\* A setter leaves what the invariant says.
Leaves(result, values, string) ==
  /\ Tree(result.config) /\ values = ValuesOf(result.config)
  /\ result.outcome \in {"ok", "thrown"}
  /\ Built(result.bits, string)

LEMMA AllNames ==
  ASSUME NEW tree, Tree(tree)
  PROVE  NoOverflow(tree, Globals \cup Channels) <=> AllFit(ValuesOf(tree))
<1>1. \A p \in AllPlaces : p[1] \in Globals \cup Channels
  BY PlaceParts
<1> QED
  BY <1>1, FitIsNoOverflow DEF AllFit

LEMMA RebuiltIs ==
  ASSUME NEW tree, Tree(tree)
  PROVE  /\ Rebuilt(tree).config = tree
         /\ AllFit(ValuesOf(tree)) => /\ Rebuilt(tree).outcome = "ok"
                                      /\ Rebuilt(tree).bits = buildConfig(tree)
         /\ ~AllFit(ValuesOf(tree)) => /\ Rebuilt(tree).outcome = "thrown"
                                       /\ Rebuilt(tree).bits = bits
BY AllNames DEF Rebuilt

LEMMA RebuiltLeaves ==
  ASSUME VmmInv, NEW tree, Tree(tree)
  PROVE  Leaves(Rebuilt(tree), ValuesOf(tree),
                IF Rebuilt(tree).outcome = "ok" THEN ValuesOf(tree) ELSE shown)
<1>1. CASE AllFit(ValuesOf(tree))
  <2>1. Built(buildConfig(tree), ValuesOf(tree))
    BY DEF Built
  <2> QED
    BY <1>1, <2>1, RebuiltIs DEF Leaves
<1>2. CASE ~AllFit(ValuesOf(tree))
  BY <1>2, RebuiltIs DEF Leaves, VmmInv
<1> QED
  BY <1>1, <1>2

\* What one call leaves is what its history says.
CallLeaves(call) ==
  Leaves(Returned(call), AskedFor(call), ShownBy(call, Returned(call).outcome))

\* The two setters of setMonitorOutput.
LEMMA MonitorLeaves ==
  ASSUME VmmInv, NEW call \in Calls, call.set = "monitor"
  PROVE  CallLeaves(call)
<1> DEFINE tree1 == Put(config, <<"scmx">>, <<call.value>>)
           tree2 == Put(tree1, <<"sm">>, << {call.channel} >>)
           first == setGlobalRegister(config, <<"scmx">>, call.value)
           second == setGlobalRegister(first.config, <<"sm">>, {call.channel})
           values1 == MonitorMode(call)
           values2 == [values1 EXCEPT ![<< <<"sm">>, 0>>] = {call.channel}]
<1>1. /\ <<"scmx">> \in Globals /\ <<"sm">> \in Globals /\ <<"sm">> \notin Channels
      /\ call.value \in SUBSET Nat /\ {call.channel} \in SUBSET Nat
  BY VmmTables, VmmAssumption
<1>2. Tree(tree1) /\ ValuesOf(tree1) = values1
  <2>1. /\ Tree(config) /\ asked = ValuesOf(config)
    BY DEF VmmInv
  <2> QED
    BY <1>1, <2>1, PutValue DEF MonitorMode, Asking
<1>3. Tree(tree2) /\ ValuesOf(tree2) = values2
  <2> DEFINE n == <<"sm">>
             v == {call.channel}
  <2>0. n \in Globals \cup Channels /\ v \in SUBSET Nat
    BY <1>1
  <2> HIDE DEF v, tree1
  <2>1. /\ Tree(Put(tree1, n, <<v>>))
        /\ ValuesOf(Put(tree1, n, <<v>>))
           = [p \in AllPlaces |-> IF p \in Places(n) THEN v ELSE ValuesOf(tree1)[p]]
    BY <1>2, <2>0, PutValue
  <2>2. Places(n) = {<<n, 0>>}
    BY <1>1 DEF Places
  <2>3. values1 = [p \in AllPlaces |-> values1[p]]
    BY DEF MonitorMode, Asking
  <2> HIDE DEF n, values1
  <2>4. [values1 EXCEPT ![<<n, 0>>] = v]
        = [p \in AllPlaces |-> IF p \in {<<n, 0>>} THEN v ELSE values1[p]]
    BY <2>3
  <2> QED
    BY <1>2, <2>1, <2>2, <2>4 DEF n, v
<1>4. first = Rebuilt(tree1)
  BY <1>1 DEF setGlobalRegister
<1> HIDE DEF first
<1>5. first.config = tree1
  BY <1>2, <1>4, RebuiltIs
<1>6. second = Rebuilt(tree2)
  BY <1>1, <1>5 DEF setGlobalRegister
<1> HIDE DEF tree1, tree2, second, values1, values2
<1>7. Returned(call) = IF first.outcome = "thrown" THEN first
                       ELSE [second EXCEPT !.bits = IF second.outcome = "ok" THEN second.bits
                                                    ELSE first.bits]
  BY <1>1 DEF Returned, setMonitorOutput, first, second
<1>8. AskedFor(call) = IF AllFit(values1) THEN values2 ELSE values1
  BY DEF AskedFor, values1, values2
<1>9. \A result : ShownBy(call, result) = IF result = "ok" THEN AskedFor(call)
                                          ELSE IF AllFit(values1) THEN values1 ELSE shown
  BY DEF ShownBy, values1
<1>10. CASE ~AllFit(values1)
  <2>1. first.outcome = "thrown" /\ first.bits = bits /\ first.config = tree1
    BY <1>2, <1>4, <1>10, RebuiltIs
  <2>2. Returned(call) = first
    BY <1>7, <2>1
  <2>3. AskedFor(call) = values1 /\ ShownBy(call, first.outcome) = shown
    BY <1>8, <1>9, <1>10, <2>1
  <2>4. Built(bits, shown)
    BY DEF VmmInv
  <2> QED
    BY <1>2, <2>1, <2>2, <2>3, <2>4 DEF CallLeaves, Leaves
<1>11. CASE AllFit(values1) /\ AllFit(values2)
  <2>1. first.outcome = "ok"
    BY <1>2, <1>4, <1>11, RebuiltIs
  <2>2. second.outcome = "ok" /\ second.bits = buildConfig(tree2) /\ second.config = tree2
    BY <1>3, <1>6, <1>11, RebuiltIs
  <2>3. Returned(call) = [second EXCEPT !.bits = second.bits]
    BY <1>7, <2>1, <2>2
  <2>4. /\ Returned(call).outcome = "ok" /\ Returned(call).bits = buildConfig(tree2)
        /\ Returned(call).config = tree2
    <3>1. second = [config |-> tree2, bits |-> buildConfig(tree2), outcome |-> "ok"]
      BY <1>3, <1>6, <1>11, AllNames DEF Rebuilt
    <3> QED
      BY <2>3, <3>1
  <2>5. AskedFor(call) = values2 /\ ShownBy(call, "ok") = values2
    BY <1>8, <1>9, <1>11
  <2>6. Built(buildConfig(tree2), values2)
    BY <1>3 DEF Built
  <2> QED
    BY <1>3, <2>4, <2>5, <2>6 DEF CallLeaves, Leaves
<1>12. CASE AllFit(values1) /\ ~AllFit(values2)
  <2>1. first.outcome = "ok" /\ first.bits = buildConfig(tree1)
    BY <1>2, <1>4, <1>12, RebuiltIs
  <2>2. second.outcome = "thrown"
    BY <1>3, <1>6, <1>12, RebuiltIs
  <2>3. Returned(call) = [second EXCEPT !.bits = first.bits]
    BY <1>7, <2>1, <2>2
  <2>4. /\ Returned(call).outcome = "thrown" /\ Returned(call).bits = buildConfig(tree1)
        /\ Returned(call).config = tree2
    <3>1. second = [config |-> tree2, bits |-> bits, outcome |-> "thrown"]
      BY <1>3, <1>6, <1>12, AllNames DEF Rebuilt
    <3> QED
      BY <2>1, <2>3, <3>1
  <2>5. AskedFor(call) = values2 /\ ShownBy(call, "thrown") = values1
    BY <1>8, <1>9, <1>12
  <2>6. Built(buildConfig(tree1), values1)
    BY <1>2 DEF Built
  <2> QED
    BY <1>3, <2>4, <2>5, <2>6 DEF CallLeaves, Leaves
<1> QED
  BY <1>10, <1>11, <1>12

LEMMA GlobalLeaves ==
  ASSUME VmmInv, NEW call \in Calls, call.set = "global"
  PROVE  CallLeaves(call)
<1>1. /\ Returned(call) = setGlobalRegister(config, call.name, call.value)
      /\ \A result : ShownBy(call, result) = IF result = "ok" THEN AskedFor(call) ELSE shown
  BY DEF Returned, ShownBy
<1>2. CASE call.name \in Globals
  <2> DEFINE tree == Put(config, call.name, <<call.value>>)
  <2>1. Tree(tree) /\ ValuesOf(tree) = AskedFor(call)
    <3>1. /\ Tree(config) /\ asked = ValuesOf(config) /\ call.value \in SUBSET Nat
          /\ call.name \in Globals \cup Channels
      BY <1>2, VmmAssumption DEF VmmInv
    <3>2. AskedFor(call) = Asking(Places(call.name), call.value)
      BY <1>2 DEF AskedFor
    <3> QED
      BY <3>1, <3>2, PutValue DEF Asking
  <2>2. Returned(call) = Rebuilt(tree)
    BY <1>1, <1>2 DEF setGlobalRegister
  <2> HIDE DEF tree
  <2>3. Leaves(Rebuilt(tree), ValuesOf(tree),
               IF Rebuilt(tree).outcome = "ok" THEN ValuesOf(tree) ELSE shown)
    BY <2>1, RebuiltLeaves
  <2> QED
    BY <1>1, <2>1, <2>2, <2>3 DEF CallLeaves
<1>3. CASE call.name \notin Globals
  <2>1. Returned(call) = [config |-> config, bits |-> bits, outcome |-> "thrown"]
    BY <1>1, <1>3 DEF setGlobalRegister, NoSuchRegister
  <2>2. AskedFor(call) = asked
    BY <1>3 DEF AskedFor
  <2>3. ShownBy(call, "thrown") = shown
    BY <1>1
  <2> QED
    BY <2>1, <2>2, <2>3 DEF CallLeaves, Leaves, VmmInv
<1> QED
  BY <1>2, <1>3

LEMMA AllChannelsLeaves ==
  ASSUME VmmInv, NEW call \in Calls, call.set = "all"
  PROVE  CallLeaves(call)
<1> DEFINE tree == Put(config, call.name, <<call.value>>)
<1>1. /\ Returned(call) = Rebuilt(tree)
      /\ \A result : ShownBy(call, result) = IF result = "ok" THEN AskedFor(call) ELSE shown
  BY DEF Returned, setChannelRegisterAllChannels, ShownBy
<1>2. Tree(config) /\ asked = ValuesOf(config) /\ call.value \in SUBSET Nat
  BY VmmAssumption DEF VmmInv
<1>3. Tree(tree) /\ ValuesOf(tree) = AskedFor(call)
  <2>1. CASE call.name \in Globals \cup Channels
    <3>1. AskedFor(call) = Asking(Places(call.name), call.value)
      BY <2>1 DEF AskedFor
    <3> QED
      BY <1>2, <2>1, <3>1, PutValue DEF Asking
  <2>2. CASE call.name \notin Globals \cup Channels
    <3>1. AskedFor(call) = asked
      BY <2>2 DEF AskedFor
    <3>2. tree = config
      BY <1>2, <2>2 DEF Put, Tree
    <3> QED
      BY <1>2, <3>1, <3>2
  <2> QED
    BY <2>1, <2>2
<1> HIDE DEF tree
<1>4. Leaves(Rebuilt(tree), ValuesOf(tree),
             IF Rebuilt(tree).outcome = "ok" THEN ValuesOf(tree) ELSE shown)
  BY <1>3, RebuiltLeaves
<1> QED
  BY <1>1, <1>3, <1>4 DEF CallLeaves

LEMMA OneChannelLeaves ==
  ASSUME VmmInv, NEW call \in Calls, call.set = "one"
  PROVE  CallLeaves(call)
<1>1. /\ Returned(call) = setChannelRegisterOneChannel(config, call.name, call.value, call.channel)
      /\ \A result : ShownBy(call, result) = IF result = "ok" THEN AskedFor(call) ELSE shown
  BY DEF Returned, ShownBy
<1>2. /\ Tree(config) /\ asked = ValuesOf(config) /\ call.value \in SUBSET Nat
      /\ call.channel \in Nat /\ NCHANNELS \in Nat
  BY VmmAssumption DEF VmmInv
<1>3. NoOverflow(config, Channels)
      <=> \A p \in AllPlaces : p[1] \in Channels => Fits(asked[p], SizeOf[p[1]])
  BY <1>2, FitIsNoOverflow
<1>4. CASE call.name \in Channels /\ call.channel < NCHANNELS /\ NoOverflow(config, Channels)
  <2> DEFINE values == [i \in 1..NCHANNELS |->
                          IF i = call.channel + 1 THEN call.value
                          ELSE InChannel(config[call.name], i - 1)]
             tree == Put(config, call.name, values)
  <2>1. call.channel \in 0..NCHANNELS - 1 /\ ~(call.channel >= NCHANNELS)
    BY <1>2, <1>4
  <2>2. Returned(call) = Rebuilt(tree)
    BY <1>1, <1>4, <2>1 DEF setChannelRegisterOneChannel
  <2>3. AskedFor(call) = Asking({<<call.name, call.channel>>}, call.value)
    BY <1>3, <1>4 DEF AskedFor
  <2>4. Tree(tree) /\ ValuesOf(tree) = AskedFor(call)
    <3> DEFINE name == call.name
               v == call.value
               ch == call.channel
    <3>1. values = WithOne(config, name, v, ch)
      BY DEF WithOne
    <3>2. Tree(config) /\ name \in Channels /\ v \in SUBSET Nat /\ ch \in 0..NCHANNELS - 1
      BY <1>2, <1>4, <2>1
    <3> HIDE DEF values, name, v, ch
    <3>3. /\ Tree(Put(config, name, values))
          /\ ValuesOf(Put(config, name, values))
             = [p \in AllPlaces |-> IF p \in {<<name, ch>>} THEN v ELSE ValuesOf(config)[p]]
      BY ONLY <3>1, <3>2, PutOne
    <3> QED
      BY <1>2, <2>3, <3>3 DEF Asking, name, v, ch
  <2> HIDE DEF tree
  <2>5. Leaves(Rebuilt(tree), ValuesOf(tree),
               IF Rebuilt(tree).outcome = "ok" THEN ValuesOf(tree) ELSE shown)
    BY <2>4, RebuiltLeaves
  <2> QED
    BY <1>1, <2>2, <2>4, <2>5 DEF CallLeaves
<1>5. CASE ~(call.name \in Channels /\ call.channel < NCHANNELS /\ NoOverflow(config, Channels))
  <2>1. call.name \notin Channels \/ call.channel >= NCHANNELS \/ ~NoOverflow(config, Channels)
    BY <1>2, <1>5
  <2>2. Returned(call) = [config |-> config, bits |-> bits, outcome |-> "thrown"]
    BY <1>1, <2>1 DEF setChannelRegisterOneChannel, NoSuchRegister
  <2>3. AskedFor(call) = asked
    <3>1. CASE call.name \in Channels /\ call.channel < NCHANNELS
      <4>1. ~ \A p \in AllPlaces : p[1] \in Channels => Fits(asked[p], SizeOf[p[1]])
        BY <1>3, <1>5, <3>1
      <4> QED
        BY <3>1, <4>1 DEF AskedFor
    <3>2. CASE ~(call.name \in Channels /\ call.channel < NCHANNELS)
      BY <3>2 DEF AskedFor
    <3> QED
      BY <3>1, <3>2
  <2>4. ShownBy(call, "thrown") = shown
    BY <1>1
  <2> QED
    BY <2>2, <2>3, <2>4 DEF CallLeaves, Leaves, VmmInv
<1> QED
  BY <1>4, <1>5

LEMMA VmmInvInit ==
  ASSUME VmmInit
  PROVE  VmmInv
<1> DEFINE value(name) == IF name \in DOMAIN Initial THEN Initial[name] ELSE {}
<1>1. \A name : value(name) \in SUBSET Nat
  BY VmmAssumption
<1>2. config = [name \in Globals \cup Channels |-> <<value(name)>>]
  BY Zenon DEF VmmInit
<1> HIDE DEF value
<1>3. /\ DOMAIN config = Globals \cup Channels
      /\ \A name \in Globals \cup Channels : config[name] \in OneValue
  BY <1>1, <1>2 DEF OneValue
<1>4. Tree(config)
  BY <1>3 DEF Tree
<1>5. ASSUME NEW p \in AllPlaces
      PROVE  ValueAt(config, p) = config[p[1]][1]
  <2>1. Len(config[p[1]]) = 1
    BY <1>3, PlaceParts, OneValueLen
  <2> QED
    BY <2>1 DEF ValueAt, InChannel
<1>6. asked = ValuesOf(config)
  BY <1>5 DEF VmmInit, ValuesOf
<1> QED
  BY <1>4, <1>6 DEF VmmInit, VmmInv, Built

LEMMA VmmInvNext ==
  ASSUME VmmInv, [VmmNext]_vmmVars
  PROVE  VmmInv'
<1>1. CASE UNCHANGED vmmVars
  BY <1>1 DEF vmmVars, VmmInv, Tree, Built
<1>2. ASSUME NEW call \in Calls, Call(call)
      PROVE  VmmInv'
  <2>1. call.set \in {"global", "all", "one", "monitor"}
    BY VmmAssumption
  <2>2. CallLeaves(call)
    BY <2>1, GlobalLeaves, AllChannelsLeaves, OneChannelLeaves, MonitorLeaves
  <2> DEFINE after == Returned(call)
  <2>3. /\ config' = after.config /\ bits' = after.bits /\ outcome' = after.outcome
        /\ asked' = AskedFor(call) /\ shown' = ShownBy(call, after.outcome)
    BY <1>2 DEF Call
  <2> HIDE DEF after
  <2>4. Leaves(after, AskedFor(call), ShownBy(call, after.outcome))
    BY <2>2 DEF CallLeaves, after
  <2>5. /\ Tree(after.config) /\ AskedFor(call) = ValuesOf(after.config)
        /\ after.outcome \in {"ok", "thrown"}
        /\ Built(after.bits, ShownBy(call, after.outcome))
    BY <2>4 DEF Leaves
  <2> QED
    BY <2>3, <2>5 DEF VmmInv
<1> QED
  BY <1>1, <1>2 DEF VmmNext

LEMMA BuiltShows ==
  ASSUME VmmInv
  PROVE  BitsShowSettings
<1>1. PICK tree : Tree(tree) /\ bits = buildConfig(tree) /\ shown = ValuesOf(tree)
  BY DEF VmmInv, Built
<1>2. DOMAIN shown = AllPlaces /\ \A p \in AllPlaces : shown[p] = ValueAt(tree, p)
  BY <1>1 DEF ValuesOf
<1>3. ASSUME NEW p \in AllPlaces, NEW b \in 0..SizeOf[p[1]] - 1
      PROVE  PlaceOf(p, b) \in bits <=> b \in shown[p]
  BY <1>1, <1>2, ConfigPlaces
<1> QED
  BY <1>2, <1>3 DEF BitsShowSettings

LEMMA BuiltHasType ==
  ASSUME NEW tree
  PROVE  buildConfig(tree) \subseteq 1..(2 * 96 + 24 * NCHANNELS)
<1> DEFINE s1 == buildGlobalConfig(tree, m_global_name_size1)
           s2 == buildChannelConfig(tree)
           s3 == buildGlobalConfig(tree, m_global_name_size0)
           V == BOOLEAN
<1>1. /\ s1 \in Seq(V) /\ Len(s1) = 96 /\ s2 \in Seq(V) /\ Len(s2) = 24 * NCHANNELS
      /\ s3 \in Seq(V) /\ Len(s3) = 96
  <2>1. s1 \in Seq(V) /\ Len(s1) = 96
    BY GlobalString, VmmTables
  <2>2. s3 \in Seq(V) /\ Len(s3) = 96
    BY GlobalString, VmmTables
  <2>3. s2 \in Seq(V) /\ Len(s2) = 24 * NCHANNELS
    BY ChannelsPlaces
  <2> QED
    BY <2>1, <2>2, <2>3
<1>2. buildConfig(tree) \subseteq DOMAIN (s1 \o s2 \o s3)
  BY DEF buildConfig
<1> HIDE DEF s1, s2, s3, V
<1>3. s1 \o s2 \o s3 \in Seq(V) /\ Len(s1 \o s2 \o s3) = Len(s1) + Len(s2) + Len(s3)
  <2>1. s1 \in Seq(V) /\ s2 \in Seq(V) /\ s3 \in Seq(V)
    BY <1>1
  <2>2. Joined(V, s1, s2, s3)
    BY ONLY <2>1, ThreeStrings
  <2> QED
    BY ONLY <2>2 DEF Joined
<1> DEFINE s == s1 \o s2 \o s3
<1>4. s \in Seq(V) /\ Len(s) = 96 + 24 * NCHANNELS + 96
  BY <1>1, <1>3
<1> HIDE DEF s
<1>5. DOMAIN s = 1..Len(s)
  BY <1>4, LenProperties
<1>6. DOMAIN s = 1..(2 * 96 + 24 * NCHANNELS)
  BY <1>4, <1>5, VmmAssumption
<1> QED
  BY <1>2, <1>6 DEF s

LEMMA InvHasType ==
  ASSUME VmmInv
  PROVE  VmmTypeOK
<1>1. /\ DOMAIN config = Globals \cup Channels
      /\ \A name \in Globals \cup Channels :
           config[name] \in OneValue \/ (name \in Channels /\ config[name] \in EachValue)
  BY DEF VmmInv, Tree
<1>2. \A name \in Globals : Len(config[name]) = 1
  BY <1>1, OneValueLen, VmmTables
<1>3. \A name \in Channels : Len(config[name]) \in {1, NCHANNELS}
  BY <1>1, OneValueLen, EachValueLen
<1>4. bits \subseteq 1..(2 * 96 + 24 * NCHANNELS)
  BY BuiltHasType DEF VmmInv, Built
<1> QED
  BY <1>1, <1>2, <1>3, <1>4 DEF VmmTypeOK, VmmInv

\* The invariant holds: after every call the tree is one of a VMM, and the string
\* was built of a tree with the settings that are to be shown, whether the call
\* returned or threw (VMMConfig.cpp:61-150).
THEOREM VmmInvHolds == VmmSpec => []VmmInv
<1>1. VmmInit => VmmInv
  BY VmmInvInit
<1>2. VmmInv /\ [VmmNext]_vmmVars => VmmInv'
  BY VmmInvNext
<1> QED
  BY <1>1, <1>2, PTL DEF VmmSpec

\* Type correctness: the tree keeps its registers, with one value or one for
\* each channel, and the string its length, for any number of channels
\* (VMMConfig.cpp:61-150).
THEOREM VmmTypeCorrect == VmmSpec => []VmmTypeOK
<1>1. VmmInv => VmmTypeOK
  BY InvHasType
<1> QED
  BY <1>1, VmmInvHolds, PTL

\* The string that is sent to a VMM shows, register by register and channel by
\* channel, what the setters were asked for when one last returned, also when
\* calls in between threw and left their values in the tree, for any number of
\* channels, any configuration and all calls (VMMConfig.cpp:61-150,
\* VMMCodec.cpp:46-158).
THEOREM VmmShowsSettings == VmmSpec => []BitsShowSettings
<1>1. VmmInv => BitsShowSettings
  BY BuiltShows
<1> QED
  BY <1>1, VmmInvHolds, PTL
-----------------------------------------------------------------------------
(***************************************************************************)
(* Access to registers.                                                    *)
(***************************************************************************)
\* The bits of some sub-registers.
CellsOf(l, I) == UNION {{i} \X (1..l[i].size) : i \in I}

LEMMA CellsOfSome ==
  ASSUME NEW l, IsLayout(l), NEW I \in SUBSET (1..Len(l))
  PROVE  /\ IsFiniteSet(CellsOf(l, I)) /\ Cardinality(CellsOf(l, I)) \in Nat
         /\ \A J \in SUBSET I : Cardinality(CellsOf(l, J)) <= Cardinality(CellsOf(l, I))
<1>1. Len(l) \in Nat /\ Len(l) \in 0..Len(l)
  BY DEF IsLayout
<1>2. IsFiniteSet(Cells(l, Len(l)))
  BY <1>1, CellsFinite
<1>3. CellsOf(l, I) \in SUBSET Cells(l, Len(l))
  BY DEF CellsOf, Cells
<1>4. IsFiniteSet(CellsOf(l, I))
  BY <1>2, <1>3, FS_Subset
<1>5. ASSUME NEW J \in SUBSET I
      PROVE  Cardinality(CellsOf(l, J)) <= Cardinality(CellsOf(l, I))
  <2>1. CellsOf(l, J) \in SUBSET CellsOf(l, I)
    BY DEF CellsOf
  <2> QED
    BY <1>4, <2>1, FS_Subset
<1> QED
  BY <1>4, <1>5, FS_CardinalityType

LEMMA CellsOfOneMore ==
  ASSUME NEW l, IsLayout(l), NEW I \in SUBSET (1..Len(l)), NEW j \in 1..Len(l), j \notin I
  PROVE  Cardinality(CellsOf(l, I \cup {j})) = Cardinality(CellsOf(l, I)) + l[j].size
<1> DEFINE A == CellsOf(l, I)
           B == {j} \X (1..l[j].size)
<1>1. l[j].size \in Nat /\ j \in Nat
  BY LayoutElement DEF IsLayout
<1>2. CellsOf(l, I \cup {j}) = A \cup B
  BY DEF CellsOf
<1>3. A \cap B = {}
  BY DEF CellsOf
<1>4. IsFiniteSet(B) /\ Cardinality(B) = l[j].size
  <2>1. IsFiniteSet({j}) /\ Cardinality({j}) = 1
    BY FS_Singleton
  <2>2. IsFiniteSet(1..l[j].size) /\ Cardinality(1..l[j].size) = l[j].size
    <3> SUFFICES ASSUME NEW n \in Nat
                 PROVE  IsFiniteSet(1..n) /\ Cardinality(1..n) = n
      BY <1>1
    <3>1. 1 \in Int /\ n \in Int
      OBVIOUS
    <3>2. IsFiniteSet(1..n) /\ Cardinality(1..n) = IF 1 > n THEN 0 ELSE n - 1 + 1
      BY <3>1, FS_Interval
    <3> QED
      BY <3>2
  <2>3. IsFiniteSet(B) /\ Cardinality(B) = 1 * l[j].size
    BY <2>1, <2>2, FS_Product
  <2> QED
    BY <1>1, <2>3
<1>5. IsFiniteSet(A)
  BY CellsOfSome
<1> HIDE DEF A, B
<1>6. Cardinality(A \cup B) = Cardinality(A) + Cardinality(B) - Cardinality(A \cap B)
  BY <1>4, <1>5, FS_Union
<1>7. Cardinality(A) \in Nat /\ Cardinality(A \cap B) = 0
  BY <1>3, <1>5, FS_CardinalityType, FS_EmptySet
<1>8. Cardinality(A \cup B) = Cardinality(A) + l[j].size
  BY <1>1, <1>4, <1>6, <1>7
<1> QED
  BY <1>2, <1>8 DEF A

\* How many bits are behind sub-register i: it has the next ones, and those before
\* it are further up.
BitsBehind(l, i) == Width(l, i + 1, Len(l))

LEMMA BitsBehindOrder ==
  ASSUME NEW l, IsLayout(l), NEW i \in 1..Len(l)
  PROVE  /\ BitsBehind(l, i) \in Nat /\ Size(l) \in Nat /\ l[i].size \in Nat \ {0}
         /\ BitsBehind(l, i) + l[i].size <= Size(l)
         /\ \A j \in 1..i - 1 : BitsBehind(l, i) + l[i].size <= BitsBehind(l, j)
<1> DEFINE n == Len(l)
           C(I) == Cardinality(CellsOf(l, I))
<1>1. n \in Nat /\ i \in 1..n /\ l[i].size \in Nat \ {0}
  BY LayoutElement DEF IsLayout
<1>2. \A j : BitsBehind(l, j) = C(j + 1..n)
  BY DEF BitsBehind, Width, CellsOf
<1>3. Size(l) = C(1..n)
  BY DEF Size, Width, CellsOf
<1>4. /\ i + 1..n \in SUBSET (1..n) /\ i \notin i + 1..n
      /\ (i + 1..n) \cup {i} = i..n /\ i..n \in SUBSET (1..n)
  BY <1>1
<1>5. C(i..n) = C(i + 1..n) + l[i].size
  BY <1>4, CellsOfOneMore
<1>6. C(i + 1..n) \in Nat /\ C(1..n) \in Nat /\ C(i..n) <= C(1..n)
  BY <1>4, CellsOfSome
<1>7. ASSUME NEW j \in 1..i - 1
      PROVE  C(i..n) <= C(j + 1..n)
  <2>1. i..n \in SUBSET (j + 1..n) /\ j + 1..n \in SUBSET (1..n)
    BY <1>1
  <2> QED
    BY <2>1, CellsOfSome
<1> HIDE DEF C
<1> QED
  BY <1>1, <1>2, <1>3, <1>5, <1>6, <1>7

\* The sub-registers of a register are intervals of its bits that do not overlap.
IsRange(place, size) == \E lo, hi \in Nat : lo <= hi /\ hi < size /\ place = lo..hi

LEMMA PlaceOfField ==
  ASSUME NEW l, IsLayout(l), NEW f \in DOMAIN Positions(l)
  PROVE  \E i \in 1..Len(l) :
           /\ l[i].name = f
           /\ Positions(l)[f] = BitsBehind(l, i)..BitsBehind(l, i) + l[i].size - 1
<1> DEFINE i == CHOOSE k \in DOMAIN l : l[k].name = f
<1>1. f \in Fields(l) /\ DOMAIN l = 1..Len(l)
  BY DEF Positions, IsLayout
<1>2. i \in 1..Len(l) /\ l[i].name = f
  BY <1>1 DEF Fields
<1>3. Positions(l)[f] = BitsBehind(l, i)..BitsBehind(l, i) + l[i].size - 1
  BY <1>1 DEF Positions, Bits, BitsBehind
<1> QED
  BY <1>2, <1>3

LEMMA FieldsAreRanges ==
  ASSUME NEW l, IsLayout(l)
  PROVE  /\ Size(l) \in Nat
         /\ \A f \in DOMAIN Positions(l) : IsRange(Positions(l)[f], Size(l))
         /\ \A f, g \in DOMAIN Positions(l) :
              f # g => Positions(l)[f] \cap Positions(l)[g] = {}
<1>1. Size(l) \in Nat
  <2>1. Size(l) = Cardinality(CellsOf(l, 1..Len(l)))
    BY DEF Size, Width, CellsOf
  <2> QED
    BY <2>1, CellsOfSome
<1>2. ASSUME NEW f \in DOMAIN Positions(l)
      PROVE  IsRange(Positions(l)[f], Size(l))
  <2>1. PICK i \in 1..Len(l) :
          Positions(l)[f] = BitsBehind(l, i)..BitsBehind(l, i) + l[i].size - 1
    BY PlaceOfField
  <2>2. /\ BitsBehind(l, i) \in Nat /\ l[i].size \in Nat \ {0}
        /\ BitsBehind(l, i) + l[i].size <= Size(l)
    BY BitsBehindOrder
  <2>3. /\ BitsBehind(l, i) + l[i].size - 1 \in Nat
        /\ BitsBehind(l, i) <= BitsBehind(l, i) + l[i].size - 1
        /\ BitsBehind(l, i) + l[i].size - 1 < Size(l)
    BY <1>1, <2>2
  <2> QED
    BY <2>1, <2>2, <2>3 DEF IsRange
<1>3. ASSUME NEW f \in DOMAIN Positions(l), NEW g \in DOMAIN Positions(l), f # g
      PROVE  Positions(l)[f] \cap Positions(l)[g] = {}
  <2>1. PICK i \in 1..Len(l) :
          /\ l[i].name = f
          /\ Positions(l)[f] = BitsBehind(l, i)..BitsBehind(l, i) + l[i].size - 1
    BY PlaceOfField
  <2>2. PICK j \in 1..Len(l) :
          /\ l[j].name = g
          /\ Positions(l)[g] = BitsBehind(l, j)..BitsBehind(l, j) + l[j].size - 1
    BY PlaceOfField
  <2>3. Len(l) \in Nat /\ (j \in 1..i - 1 \/ i \in 1..j - 1)
    BY <1>3, <2>1, <2>2 DEF IsLayout
  <2>4. /\ BitsBehind(l, i) \in Nat /\ l[i].size \in Nat
        /\ BitsBehind(l, j) \in Nat /\ l[j].size \in Nat
        /\ \/ BitsBehind(l, i) + l[i].size <= BitsBehind(l, j)
           \/ BitsBehind(l, j) + l[j].size <= BitsBehind(l, i)
    BY <2>3, BitsBehindOrder
  <2> QED
    BY <2>1, <2>2, <2>4
<1> QED
  BY <1>1, <1>2, <1>3
-----------------------------------------------------------------------------
(* Bits of a register. *)

LEMMA MinOfRange ==
  ASSUME NEW lo \in Nat, NEW hi \in Nat, lo <= hi
  PROVE  Min(lo..hi) = lo
<1>1. lo..hi \in SUBSET Nat /\ lo..hi # {} /\ lo \in lo..hi
  OBVIOUS
<1>2. Min(lo..hi) \in lo..hi /\ \A k \in lo..hi : Min(lo..hi) <= k
  BY <1>1, MinOfNumbers
<1> QED
  BY <1>1, <1>2

LEMMA RangeSize ==
  ASSUME NEW lo \in Nat, NEW hi \in Nat, lo <= hi
  PROVE  Cardinality(lo..hi) = hi - lo + 1
<1>1. lo \in Int /\ hi \in Int
  OBVIOUS
<1>2. Cardinality(lo..hi) = IF lo > hi THEN 0 ELSE hi - lo + 1
  BY <1>1, FS_Interval
<1> QED
  BY <1>2

\* A field is set to what fits in it: only its own bits change.
LEMMA FieldSet ==
  ASSUME NEW place, NEW size \in Nat, IsRange(place, size),
         NEW content, NEW value \in SUBSET (0..Cardinality(place) - 1)
  PROVE  /\ SetField(content, place, value) \ place = content \ place
         /\ SetField(content, place, value) \subseteq content \cup place
<1>1. PICK lo \in Nat, hi \in Nat : lo <= hi /\ place = lo..hi
  BY DEF IsRange
<1>2. Min(place) = lo /\ Cardinality(place) = hi - lo + 1
  BY <1>1, MinOfRange, RangeSize
<1>3. ShiftLeft(value, lo) \subseteq place
  <2>1. ASSUME NEW b \in value
        PROVE  b + lo \in lo..hi
    <3>1. b \in 0..(hi - lo + 1) - 1
      BY <1>2
    <3> QED
      BY <1>1, <3>1
  <2> QED
    BY <1>1, <2>1 DEF ShiftLeft
<1> QED
  BY <1>2, <1>3 DEF SetField

-----------------------------------------------------------------------------
(* Sums of numbers that have no bits in common. *)

Join(c, s) == UNION {c[u] : u \in s}

LEMMA JoinOne ==
  ASSUME NEW c, NEW s, NEW x \in s
  PROVE  Join(c, s) = Join(c, s \ {x}) \cup c[x]
BY DEF Join

LEMMA JoinApart ==
  ASSUME NEW c, NEW s, NEW x \in s, \A u \in s \ {x} : c[u] \cap c[x] = {}
  PROVE  Join(c, s \ {x}) \cap c[x] = {}
BY DEF Join

LEMMA JoinPlus ==
  ASSUME NEW c, NEW s, NEW x \in s, \A u \in s \ {x} : c[u] \cap c[x] = {}
  PROVE  Plus(Join(c, s \ {x}), c[x]) = Join(c, s) /\ Plus(c[x], Join(c, s \ {x})) = Join(c, s)
<1> DEFINE A == Join(c, s \ {x})
           B == c[x]
<1>1. A \cap B = {} /\ B \cap A = {}
  BY JoinApart
<1>2. Join(c, s) = A \cup B
  BY JoinOne
<1> HIDE DEF A, B
<1>3. Plus(A, B) = A \cup B
  BY <1>1, Zenon DEF Plus
<1>4. Plus(B, A) = B \cup A
  BY <1>1, Zenon DEF Plus
<1>5. B \cup A = A \cup B
  OBVIOUS
<1> QED
  BY <1>2, <1>3, <1>4, <1>5 DEF A, B

\* A set of subsets that has the empty one, and with it every one that is one
\* element larger than a member.
LEMMA AllSubsets ==
  ASSUME NEW t, IsFiniteSet(t), NEW J, {} \in J,
         \A s \in SUBSET t : s # {} => \E x \in s : s \ {x} \in J => s \in J
  PROVE  SUBSET t \subseteq J
<1> DEFINE outside == {Cardinality(s) : s \in (SUBSET t) \ J}
<1>1. \A s \in SUBSET t : IsFiniteSet(s) /\ Cardinality(s) \in Nat
  BY FS_Subset, FS_CardinalityType
<1>2. outside \in SUBSET Nat
  BY <1>1
<1> SUFFICES ASSUME NEW r \in SUBSET t, r \notin J PROVE FALSE
  OBVIOUS
<1>2a. outside # {}
  OBVIOUS
<1>3. PICK m \in outside : \A k \in outside : m <= k
  <2> HIDE DEF outside
  <2> QED
    BY <1>2, <1>2a, LeastNumber
<1>4. PICK s \in (SUBSET t) \ J : Cardinality(s) = m
  BY <1>3
<1>4a. s \in SUBSET t /\ s # {} /\ s \notin J
  <2>1. s \in SUBSET t /\ s \notin J
    BY <1>4, Zenon
  <2>2. ASSUME s = {} PROVE FALSE
    <3>1. s \in J
      BY <2>2, Zenon
    <3> QED
      BY <2>1, <3>1
  <2> QED
    BY <2>1, <2>2
<1>5. PICK x \in s : s \ {x} \in J => s \in J
  BY <1>4a, Zenon
<1>6. s \ {x} \in (SUBSET t) \ J
  BY <1>4a, <1>5
<1>7. Cardinality(s \ {x}) = Cardinality(s) - 1
  BY <1>1, <1>4, FS_RemoveElement
<1>8. m \in Nat /\ m <= m - 1
  BY <1>2, <1>3, <1>4, <1>6, <1>7
<1> QED
  BY <1>8
-----------------------------------------------------------------------------
(* convertSubRegisterToValue as a sum of parts without common bits. *)

Chosen(s) == CHOOSE u \in s : TRUE

IsValueSum(iter, us, sub) ==
  iter = [s \in SUBSET us |->
            IF s = {} THEN {}
            ELSE Plus(ShiftLeft(sub[<<Chosen(s).reg, Chosen(s).field>>], Min(Chosen(s).part)),
                      iter[s \ {Chosen(s)}])]

LEMMA ToValueIsSum ==
  ASSUME NEW us, NEW sub
  PROVE  ToValue(us, sub) = (CHOOSE iter : IsValueSum(iter, us, sub))[us]
BY DEF ToValue, MapThenFoldSet, IsValueSum, Chosen

LEMMA ChosenIsOne ==
  ASSUME NEW s, s # {}
  PROVE  Chosen(s) \in s
BY DEF Chosen

Apart(c, s) == \A u, w \in s : u # w => c[u] \cap c[w] = {}

LEMMA ToValueJoins ==
  ASSUME NEW us, IsFiniteSet(us), NEW sub, NEW c, Apart(c, us),
         \A u \in us : ShiftLeft(sub[<<u.reg, u.field>>], Min(u.part)) = c[u]
  PROVE  ToValue(us, sub) = Join(c, us)
<1> DEFINE iter == CHOOSE f : IsValueSum(f, us, sub)
           joined == [s \in SUBSET us |-> Join(c, s)]
<1>1. ASSUME NEW s \in SUBSET us, s # {}
      PROVE  /\ Chosen(s) \in s /\ Chosen(s) \in us /\ s \ {Chosen(s)} \in SUBSET us
             /\ Plus(c[Chosen(s)], Join(c, s \ {Chosen(s)})) = Join(c, s)
  <2>1. Chosen(s) \in s
    BY <1>1, ChosenIsOne
  <2> DEFINE x == Chosen(s)
  <2> HIDE DEF x
  <2>2. x \in s
    BY <2>1 DEF x
  <2>3. \A u \in s \ {x} : c[u] \cap c[x] = {}
    BY <2>2 DEF Apart
  <2>4. Plus(c[x], Join(c, s \ {x})) = Join(c, s)
    BY <2>2, <2>3, JoinPlus
  <2> QED
    BY <2>1, <2>4 DEF x
<1>2. Join(c, {}) = {}
  BY DEF Join
<1>3. IsValueSum(joined, us, sub)
  <2>1. ASSUME NEW s \in SUBSET us
        PROVE  joined[s] =
                 IF s = {} THEN {}
                 ELSE Plus(ShiftLeft(sub[<<Chosen(s).reg, Chosen(s).field>>], Min(Chosen(s).part)),
                           joined[s \ {Chosen(s)}])
    <3>1. CASE s = {}
      BY <1>2, <3>1
    <3>2. CASE s # {}
      <4>1. joined[s \ {Chosen(s)}] = Join(c, s \ {Chosen(s)}) /\ joined[s] = Join(c, s)
        BY <1>1, <3>2
      <4> HIDE DEF joined
      <4> QED
        BY <1>1, <3>2, <4>1, Zenon
    <3> QED
      BY <3>1, <3>2
  <2>2. joined = [s \in SUBSET us |-> joined[s]]
    OBVIOUS
  <2> HIDE DEF joined
  <2> QED
    BY <2>1, <2>2, Zenon DEF IsValueSum
<1> HIDE DEF joined
<1>4. IsValueSum(iter, us, sub)
  BY <1>3, Zenon
<1> HIDE DEF iter
<1> DEFINE J == {s \in SUBSET us : iter[s] = Join(c, s)}
<1>5. {} \in J
  BY <1>2, <1>4 DEF IsValueSum
<1>6. ASSUME NEW s \in SUBSET us, s # {}
      PROVE  s \ {Chosen(s)} \in J => s \in J
  <2>1. iter[s] = Plus(c[Chosen(s)], iter[s \ {Chosen(s)}])
    BY <1>1, <1>4, <1>6 DEF IsValueSum
  <2> QED
    BY <1>1, <1>6, <2>1
<1>7. \A s \in SUBSET us : s # {} => \E x \in s : s \ {x} \in J => s \in J
  BY <1>1, <1>6, Zenon
<1> HIDE DEF J
<1>8. SUBSET us \subseteq J
  BY <1>5, <1>7, AllSubsets
<1>9. iter[us] = Join(c, us)
  BY <1>8 DEF J
<1> QED
  BY <1>9, ToValueIsSum DEF iter

(* convertValueToFlatRegister as such a sum. *)

Highest(s) == CHOOSE u \in s : \A w \in s : Min(w.mask) <= Min(u.mask)

LEMMA HighestIsOne ==
  ASSUME NEW s, s # {}, \A u \in s : Min(u.mask) \in 0..31
  PROVE  Highest(s) \in s
<1> DEFINE S == {31 - Min(u.mask) : u \in s}
<1>1. S \in SUBSET Nat /\ S # {}
  OBVIOUS
<1>2. PICK m \in S : \A k \in S : m <= k
  <2> HIDE DEF S
  <2> QED
    BY <1>1, LeastNumber
<1>3. PICK u \in s : m = 31 - Min(u.mask)
  OBVIOUS
<1>4. ASSUME NEW w \in s
      PROVE  Min(w.mask) <= Min(u.mask)
  <2>1. 31 - Min(w.mask) \in S
    OBVIOUS
  <2>2. 31 - Min(u.mask) <= 31 - Min(w.mask)
    BY <1>2, <1>3, <2>1
  <2>3. Min(u.mask) \in 0..31 /\ Min(w.mask) \in 0..31
    OBVIOUS
  <2> QED
    BY <2>2, <2>3
<1> QED
  BY <1>3, <1>4, Zenon DEF Highest

IsRegisterSum(sum, touching, values, width, short) ==
  sum = [s \in SUBSET touching |->
           IF s = {} THEN {}
           ELSE Low(Plus(IF Fits(sum[s \ {Highest(s)}], 32) THEN sum[s \ {Highest(s)}] ELSE {},
                         Contribution(Highest(s), values[Highest(s).value], short)), width)]

LEMMA FlatSumIsSum ==
  ASSUME NEW touching, NEW values, NEW width, NEW short
  PROVE  FlatSum(touching, values, width, short)
           = (CHOOSE sum : IsRegisterSum(sum, touching, values, width, short))[touching]
BY DEF FlatSum, IsRegisterSum, Highest

LEMMA LowOfAll ==
  ASSUME NEW place \in SUBSET (0..31), NEW width \in Nat, 32 <= width
  PROVE  Low(place, width) = place /\ Fits(place, 32)
<1>1. \A b \in place : b < 32 /\ b \in 0..width - 1
  OBVIOUS
<1>2. place \cap (0..width - 1) = place
  BY <1>1
<1> QED
  BY <1>1, <1>2 DEF Low, Fits

LEMMA FlatSumJoins ==
  ASSUME NEW us, IsFiniteSet(us), NEW values, NEW width \in Nat, 32 <= width, NEW short,
         NEW c, Apart(c, us), \A u \in us : Min(u.mask) \in 0..31,
         \A u \in us : c[u] \in SUBSET (0..31) /\ Contribution(u, values[u.value], short) = c[u]
  PROVE  FlatSum(us, values, width, short) = Join(c, us)
<1> DEFINE sum == CHOOSE f : IsRegisterSum(f, us, values, width, short)
           joined == [s \in SUBSET us |-> Join(c, s)]
<1>0. \A s \in SUBSET us : Join(c, s) \in SUBSET (0..31)
  BY DEF Join
<1>1. ASSUME NEW s \in SUBSET us, s # {}
      PROVE  /\ Highest(s) \in s /\ Highest(s) \in us /\ s \ {Highest(s)} \in SUBSET us
             /\ Low(Plus(IF Fits(Join(c, s \ {Highest(s)}), 32) THEN Join(c, s \ {Highest(s)})
                         ELSE {}, c[Highest(s)]), width) = Join(c, s)
  <2>1. Highest(s) \in s
    BY <1>1, HighestIsOne
  <2> DEFINE x == Highest(s)
  <2> HIDE DEF x
  <2>2. x \in s
    BY <2>1 DEF x
  <2>3. \A u \in s \ {x} : c[u] \cap c[x] = {}
    BY <2>2 DEF Apart
  <2>4. Plus(Join(c, s \ {x}), c[x]) = Join(c, s)
    BY <2>2, <2>3, JoinPlus
  <2>5. s \ {x} \in SUBSET us
    OBVIOUS
  <2>6. Fits(Join(c, s \ {x}), 32) /\ Low(Join(c, s), width) = Join(c, s)
    BY <1>0, <2>5, LowOfAll
  <2>7. Low(Plus(IF Fits(Join(c, s \ {x}), 32) THEN Join(c, s \ {x})
                 ELSE {}, c[x]), width) = Join(c, s)
    BY <2>4, <2>6, Zenon
  <2> QED
    BY <2>1, <2>7 DEF x
<1>2. Join(c, {}) = {}
  BY DEF Join
<1>3. IsRegisterSum(joined, us, values, width, short)
  <2>1. ASSUME NEW s \in SUBSET us
        PROVE  joined[s] =
                 IF s = {} THEN {}
                 ELSE Low(Plus(IF Fits(joined[s \ {Highest(s)}], 32) THEN joined[s \ {Highest(s)}]
                               ELSE {},
                               Contribution(Highest(s), values[Highest(s).value], short)), width)
    <3>1. CASE s = {}
      BY <1>2, <3>1
    <3>2. CASE s # {}
      <4>1. joined[s \ {Highest(s)}] = Join(c, s \ {Highest(s)}) /\ joined[s] = Join(c, s)
        BY <1>1, <3>2
      <4> HIDE DEF joined
      <4> QED
        BY <1>1, <3>2, <4>1, Zenon
    <3> QED
      BY <3>1, <3>2
  <2>2. joined = [s \in SUBSET us |-> joined[s]]
    OBVIOUS
  <2> HIDE DEF joined
  <2> QED
    BY <2>1, <2>2, Zenon DEF IsRegisterSum
<1> HIDE DEF joined
<1>4. IsRegisterSum(sum, us, values, width, short)
  BY <1>3, Zenon
<1> HIDE DEF sum
<1> DEFINE J == {s \in SUBSET us : sum[s] = Join(c, s)}
<1>5. {} \in J
  BY <1>2, <1>4 DEF IsRegisterSum
<1>6. ASSUME NEW s \in SUBSET us, s # {}
      PROVE  s \ {Highest(s)} \in J => s \in J
  <2>1. sum[s] = Low(Plus(IF Fits(sum[s \ {Highest(s)}], 32) THEN sum[s \ {Highest(s)}] ELSE {},
                          c[Highest(s)]), width)
    BY <1>1, <1>4, <1>6 DEF IsRegisterSum
  <2> QED
    BY <1>1, <1>6, <2>1
<1>7. \A s \in SUBSET us : s # {} => \E x \in s : s \ {x} \in J => s \in J
  BY <1>1, <1>6, Zenon
<1> HIDE DEF J
<1>8. SUBSET us \subseteq J
  BY <1>5, <1>7, AllSubsets
<1>9. sum[us] = Join(c, us)
  BY <1>8 DEF J
<1> QED
  BY <1>9, FlatSumIsSum DEF sum
-----------------------------------------------------------------------------
(* Units that are translated rightly. *)

LEMMA MinIs ==
  ASSUME NEW S \in SUBSET Nat, NEW m \in S, \A k \in S : m <= k
  PROVE  Min(S) = m
<1>1. Min(S) \in S /\ Min(S) <= m
  BY MinOfNumbers
<1>2. m <= Min(S) /\ Min(S) \in Nat /\ m \in Nat
  BY <1>1
<1> QED
  BY <1>1, <1>2

LEMMA IntervalParts ==
  ASSUME NEW place, Interval(place)
  PROVE  place \in SUBSET (0..31) /\ Min(place) \in place /\ \A k \in place : Min(place) <= k
<1>1. place \in SUBSET (0..31) /\ place # {} /\ place \in SUBSET Nat
  BY DEF Interval
<1> QED
  BY <1>1, MinOfNumbers

LEMMA CtzOfInterval ==
  ASSUME NEW place, Interval(place), NEW short
  PROVE  Ctz(place, short) = Min(place)
<1>1. place \in SUBSET (0..31) /\ place # {}
  BY IntervalParts
<1>2. Low(place, 64) = place
  <2>1. \A b \in place : b \in 0..64 - 1
    BY <1>1
  <2> QED
    BY <2>1 DEF Low
<1> QED
  BY <1>1, <1>2, Zenon DEF Ctz

Shifted(u, p) == p - Min(u.part) + Min(u.mask)

LEMMA ContributionIs ==
  ASSUME NEW b, NEW u, RightUnit(b, u), NEW value, NEW short
  PROVE  Contribution(u, value, short) = {Shifted(u, p) : p \in value \cap u.part}
<1>1. Ctz(u.mask, short) = Min(u.mask)
  BY CtzOfInterval DEF RightUnit
<1>2. u.part \in SUBSET (0..31) /\ \A k \in u.part : k >= Min(u.part)
  <2>1. u.part \in SUBSET (0..31) /\ Min(u.part) \in u.part /\ \A k \in u.part : Min(u.part) <= k
    BY IntervalParts DEF RightUnit
  <2> QED
    BY <2>1
<1>3. ShiftRight(value \cap u.part, Min(u.part)) = {p - Min(u.part) : p \in value \cap u.part}
  BY <1>2 DEF ShiftRight
<1> QED
  BY <1>1, <1>3 DEF Contribution, ShiftLeft, Shifted

LEMMA ContributionInMask ==
  ASSUME NEW b, NEW u, RightUnit(b, u), NEW short,
         NEW value, value \in SUBSET (0..ValueSize(b, u.value) - 1)
  PROVE  Contribution(u, value, short) \in SUBSET u.mask
<1>1. Contribution(u, value, short) = {Shifted(u, p) : p \in value \cap u.part}
  BY ContributionIs
<1>2. ASSUME NEW p \in value \cap u.part
      PROVE  Shifted(u, p) \in u.mask
  <2>1. p \in u.part \cap (0..ValueSize(b, u.value) - 1)
    BY <1>2
  <2> QED
    BY <2>1 DEF RightUnit, Shifted
<1> QED
  BY <1>1, <1>2

\* What a register holds of a value is read back, as far as it has room.
LEMMA UnitReadsBack ==
  ASSUME NEW b, NEW u, RightUnit(b, u), b.size[u.reg] \in Nat, NEW value, NEW content, NEW short,
         value \in SUBSET (0..ValueSize(b, u.value) - 1),
         content \cap u.mask = Low(Contribution(u, value, short), b.size[u.reg])
  PROVE  ShiftLeft(SubRegister(u, content, short), Min(u.part)) = value \cap Held(b, u)
<1> DEFINE lm == Min(u.mask)
           lp == Min(u.part)
           size == b.size[u.reg]
           A == content \cap u.mask
<1>1. Ctz(u.mask, short) = lm
  BY CtzOfInterval DEF RightUnit
<1>2. /\ u.part \in SUBSET (0..31) /\ lp \in u.part /\ \A k \in u.part : lp <= k
      /\ u.mask \in SUBSET (0..31) /\ lm \in u.mask /\ \A k \in u.mask : lm <= k
  BY IntervalParts DEF RightUnit
<1>3. A = {i \in {Shifted(u, p) : p \in value \cap u.part} : i < size}
  <2>1. \A p \in u.part : Shifted(u, p) \in Nat
    BY <1>2 DEF Shifted
  <2>2. A = {Shifted(u, p) : p \in value \cap u.part} \cap (0..size - 1)
    BY ContributionIs DEF Low
  <2> HIDE DEF A
  <2> QED
    BY <2>1, <2>2
<1>4. ShiftLeft(SubRegister(u, content, short), lp) = {i - lm + lp : i \in A}
  <2>1. SubRegister(u, content, short) = {i - lm : i \in {c \in A : c >= lm}}
    BY <1>1 DEF SubRegister, ShiftRight
  <2>2. {c \in A : c >= lm} = A
    BY <1>2
  <2> QED
    BY <2>1, <2>2 DEF ShiftLeft
<1>5. Held(b, u) = {p \in u.part : Shifted(u, p) < size}
  BY DEF Held, Shifted
<1>6. \A p \in u.part : Shifted(u, p) - lm + lp = p
  BY <1>2 DEF Shifted
<1> HIDE DEF A, lm, lp, size
<1>7. {i - lm + lp : i \in A} = value \cap Held(b, u)
  <2>1. ASSUME NEW p \in value \cap Held(b, u)
        PROVE  p \in {i - lm + lp : i \in A}
    <3>1. p \in u.part /\ p \in value /\ Shifted(u, p) < size
      BY <1>5
    <3>2. Shifted(u, p) \in A
      BY <1>3, <3>1
    <3> QED
      BY <1>6, <3>1, <3>2
  <2>2. ASSUME NEW i \in A
        PROVE  i - lm + lp \in value \cap Held(b, u)
    <3>1. PICK p \in value \cap u.part : i = Shifted(u, p) /\ i < size
      BY <1>3
    <3>2. i - lm + lp = p
      BY <1>6, <3>1
    <3> QED
      BY <1>5, <3>1, <3>2
  <2> QED
    BY <2>1, <2>2
<1> QED
  BY <1>4, <1>7 DEF lp

\* Units of one register, and what they contribute to it.
RightUnits(b, us, r) ==
  /\ IsFiniteSet(us)
  /\ \A u \in us : RightUnit(b, u) /\ u.reg = r
  /\ \A u, w \in us : u # w => u.mask \cap w.mask = {}

LEMMA FlatSumIs ==
  ASSUME NEW b, NEW us, NEW r, RightUnits(b, us, r), NEW values, NEW width \in Nat, 32 <= width,
         NEW short,
         \A u \in us : values[u.value] \in SUBSET (0..ValueSize(b, u.value) - 1)
  PROVE  LET c == [u \in us |-> Contribution(u, values[u.value], short)]
         IN /\ FlatSum(us, values, width, short) = Join(c, us)
            /\ \A u \in us : c[u] \in SUBSET u.mask
<1> DEFINE c == [u \in us |-> Contribution(u, values[u.value], short)]
<1>1. \A u \in us : c[u] = Contribution(u, values[u.value], short)
  OBVIOUS
<1>2. \A u \in us : c[u] \in SUBSET u.mask
  <2> TAKE u \in us
  <2>1. RightUnit(b, u) /\ values[u.value] \in SUBSET (0..ValueSize(b, u.value) - 1)
    BY DEF RightUnits
  <2>2. Contribution(u, values[u.value], short) \in SUBSET u.mask
    BY <2>1, ContributionInMask
  <2> QED
    BY <1>1, <2>2
<1> HIDE DEF c
<1>3. \A u \in us : u.mask \in SUBSET (0..31) /\ Min(u.mask) \in 0..31
  <2> TAKE u \in us
  <2>1. u.mask \in SUBSET (0..31) /\ Min(u.mask) \in u.mask
    BY IntervalParts DEF RightUnits, RightUnit
  <2> QED
    BY <2>1
<1>4. Apart(c, us)
  BY <1>2 DEF Apart, RightUnits
<1>5. \A u \in us : c[u] \in SUBSET (0..31) /\ Contribution(u, values[u.value], short) = c[u]
  <2> TAKE u \in us
  <2>1. c[u] \in SUBSET u.mask /\ u.mask \in SUBSET (0..31)
    BY <1>2, <1>3
  <2>2. c[u] \in SUBSET (0..31)
    BY <2>1
  <2> QED
    BY <1>1, <2>2
<1>6. \A u \in us : Min(u.mask) \in 0..31
  BY <1>3
<1>7. IsFiniteSet(us)
  BY DEF RightUnits
<1>8. FlatSum(us, values, width, short) = Join(c, us)
  BY <1>4, <1>5, <1>6, <1>7, FlatSumJoins
<1> QED
  BY <1>2, <1>8 DEF c

\* A register is written with the value of each unit in its mask, and as the
\* reference has it outside of all masks.
LEMMA FlatRegisterIs ==
  ASSUME NEW b, NEW us, NEW r, RightUnits(b, us, r), NEW values, NEW width \in Nat, 32 <= width,
         NEW short, NEW reference, NEW size \in Nat, b.size[r] = size,
         \A u \in us : values[u.value] \in SUBSET (0..ValueSize(b, u.value) - 1)
  PROVE  LET flat == FlatRegister(us, values, reference, size, width, short)
         IN /\ \A u \in us : flat \cap u.mask = Contribution(u, values[u.value], short)
            /\ \A i \in 0..size - 1 : i \notin Mask(us) => (i \in flat <=> i \in reference)
<1> DEFINE flat == FlatRegister(us, values, reference, size, width, short)
           c == [u \in us |-> Contribution(u, values[u.value], short)]
           sum == FlatSum(us, values, width, short)
<1>1. sum = Join(c, us) /\ \A u \in us : c[u] \in SUBSET u.mask
  BY FlatSumIs
<1>2. \A u \in us : c[u] = Contribution(u, values[u.value], short)
  OBVIOUS
<1> HIDE DEF c
<1>3. flat = IF Cardinality(Mask(us)) = size THEN sum ELSE sum \cup (reference \ Mask(us))
  BY DEF FlatRegister
<1>4. sum \in SUBSET Mask(us) /\ \A u \in us : u.mask \in SUBSET Mask(us)
  BY <1>1 DEF Join, Mask
<1>5. \A u \in us : sum \cap u.mask = c[u]
  <2> TAKE u \in us
  <2>1. c[u] \subseteq sum \cap u.mask
    BY <1>1 DEF Join
  <2>2. ASSUME NEW i \in sum \cap u.mask
        PROVE  i \in c[u]
    <3>1. PICK w \in us : i \in c[w]
      BY <1>1 DEF Join
    <3>2. w = u
      BY <1>1, <3>1 DEF RightUnits
    <3> QED
      BY <3>1, <3>2
  <2> HIDE DEF sum
  <2> QED
    BY <2>1, <2>2
<1>6. Cardinality(Mask(us)) = size => 0..size - 1 \in SUBSET Mask(us)
  <2> SUFFICES ASSUME Cardinality(Mask(us)) = size
               PROVE  0..size - 1 \in SUBSET Mask(us)
    OBVIOUS
  <2>1. \A u \in us : /\ u.mask \in SUBSET (0..31)
                      /\ u.mask = 0..31 \/ u.mask \in SUBSET (0..size - 1)
    <3> TAKE u \in us
    <3>1. u.mask \in SUBSET (0..31)
      BY IntervalParts DEF RightUnits, RightUnit
    <3>2. u.mask = 0..31 \/ u.mask \subseteq 0..b.size[r] - 1
      BY DEF RightUnits, RightUnit, ALL, Bits
    <3> QED
      BY <3>1, <3>2
  <2>2. CASE \E u \in us : u.mask = 0..31
    <3>1. Mask(us) = 0..31
      BY <2>1, <2>2 DEF Mask
    <3>2. 0 \in Nat /\ 31 \in Nat /\ 0 <= 31
      OBVIOUS
    <3>3. Cardinality(0..31) = 31 - 0 + 1
      BY <3>2, RangeSize
    <3>4. size = 32
      BY <3>1, <3>3
    <3> QED
      BY <3>1, <3>4
  <2>3. CASE ~ \E u \in us : u.mask = 0..31
    <3>1. Mask(us) \in SUBSET (0..size - 1)
      BY <2>1, <2>3 DEF Mask
    <3>2. CASE size = 0
      BY <3>2
    <3>3. CASE size # 0
      <4>1. 0 \in Int /\ size - 1 \in Int /\ ~(0 > size - 1) /\ size - 1 - 0 + 1 = size
        BY <3>3
      <4>2. IsFiniteSet(0..size - 1) /\ Cardinality(0..size - 1) = size
        BY <4>1, FS_Interval
      <4>3. Mask(us) = 0..size - 1
        BY <3>1, <4>2, FS_Subset
      <4> QED
        BY <4>3
    <3> QED
      BY <3>2, <3>3
  <2> QED
    BY <2>2, <2>3
<1> HIDE DEF flat, sum
<1>7. ASSUME NEW u \in us
      PROVE  flat \cap u.mask = c[u]
  BY <1>3, <1>4, <1>5
<1>8. ASSUME NEW i \in 0..size - 1, i \notin Mask(us)
      PROVE  i \in flat <=> i \in reference
  BY <1>3, <1>4, <1>6, <1>8
<1> QED
  BY <1>2, <1>7, <1>8 DEF flat
-----------------------------------------------------------------------------
(* The chips. *)

LEMMA BankParts ==
  ASSUME NEW chip \in DOMAIN BANKS, NEW b, b = BANKS[chip]
  PROVE  /\ b.width \in Nat /\ 32 <= b.width
         /\ \A r \in Registers(b) :
              b.bits[r] = Positions(b.registers[r]) /\ b.size[r] = Size(b.registers[r])
BY DEF BANKS, Bank, Registers

LEMMA BankFields ==
  ASSUME NEW chip \in DOMAIN BANKS, NEW b, b = BANKS[chip], NEW r \in Registers(b)
  PROVE  /\ b.size[r] \in Nat /\ RegisterBits(b, r) \in SUBSET (0..b.size[r] - 1)
         /\ \A f \in DOMAIN b.bits[r] :
              IsRange(b.bits[r][f], b.size[r]) /\ b.bits[r][f] \in SUBSET RegisterBits(b, r)
         /\ \A f, g \in DOMAIN b.bits[r] : f # g => b.bits[r][f] \cap b.bits[r][g] = {}
<1>1. IsLayout(b.registers[r])
  BY RegisterTables, Zenon
<1>2. b.bits[r] = Positions(b.registers[r]) /\ b.size[r] = Size(b.registers[r])
  BY BankParts
<1>3. /\ b.size[r] \in Nat
      /\ \A f \in DOMAIN b.bits[r] : IsRange(b.bits[r][f], b.size[r])
      /\ \A f, g \in DOMAIN b.bits[r] : f # g => b.bits[r][f] \cap b.bits[r][g] = {}
  BY <1>1, <1>2, FieldsAreRanges, Zenon
<1>4. \A f \in DOMAIN b.bits[r] : b.bits[r][f] \in SUBSET (0..b.size[r] - 1)
  <2> TAKE f \in DOMAIN b.bits[r]
  <2>1. PICK lo \in Nat, hi \in Nat : lo <= hi /\ hi < b.size[r] /\ b.bits[r][f] = lo..hi
    BY <1>3 DEF IsRange
  <2> QED
    BY <1>3, <2>1
<1>5. RegisterBits(b, r) \in SUBSET (0..b.size[r] - 1)
  BY <1>4 DEF RegisterBits
<1> QED
  BY <1>3, <1>5 DEF RegisterBits

LEMMA UnitsAreRight ==
  ASSUME NEW chip \in DOMAIN BANKS, NEW b, b = BANKS[chip]
  PROVE  LET right == {u \in b.units : ~Wrong(chip, u.value)}
         IN /\ IsFiniteSet(b.units)
            /\ \A u \in right :
                 /\ RightUnit(b, u)
                 /\ 0..ValueSize(b, u.value) - 1
                      \subseteq UNION {Held(b, w) : w \in UnitsOf(b.units, u.value)}
                 /\ \A w \in right \ {u} :
                      /\ u.reg = w.reg => u.mask \cap w.mask = {}
                      /\ u.value = w.value => u.reg # w.reg /\ Held(b, u) \cap Held(b, w) = {}
<1> DEFINE right == {u \in b.units : ~Wrong(chip, u.value)}
<1>1. /\ \A r \in Registers(b) : IsLayout(b.registers[r])
      /\ IsFiniteSet(b.units)
      /\ \A u \in right :
           /\ RightUnit(b, u)
           /\ 0..ValueSize(b, u.value) - 1
                \subseteq UNION {Held(b, w) : w \in UnitsOf(b.units, u.value)}
           /\ \A w \in right \ {u} :
                /\ u.reg = w.reg => u.mask \cap w.mask = {}
                /\ u.value = w.value => u.reg # w.reg /\ Held(b, u) \cap Held(b, w) = {}
  BY RegisterTables
<1> QED
  BY <1>1, Zenon

\* The units some values have in a register.
UnitsIn(b, values, r) == {u \in b.units : u.reg = r /\ u.value \in values}

LEMMA UnitsInAreRight ==
  ASSUME NEW chip \in DOMAIN BANKS, NEW b, b = BANKS[chip],
         NEW values, \A v \in values : ~Wrong(chip, v), NEW r
  PROVE  RightUnits(b, UnitsIn(b, values, r), r)
<1> DEFINE us == UnitsIn(b, values, r)
           right == {u \in b.units : ~Wrong(chip, u.value)}
<1>1. us \subseteq right /\ us \subseteq b.units
  BY DEF UnitsIn
<1>2. IsFiniteSet(us)
  BY <1>1, UnitsAreRight, FS_Subset
<1>3. \A u \in us : RightUnit(b, u) /\ u.reg = r
  BY <1>1, UnitsAreRight DEF UnitsIn
<1>4. \A u, w \in us : u # w => u.mask \cap w.mask = {}
  <2>1. \A u \in right : \A w \in right \ {u} : u.reg = w.reg => u.mask \cap w.mask = {}
    BY UnitsAreRight, Zenon
  <2>2. \A u \in us : u.reg = r
    BY <1>3
  <2> HIDE DEF us, right
  <2> QED
    BY <1>1, <2>1, <2>2
<1> QED
  BY <1>2, <1>3, <1>4 DEF RightUnits
-----------------------------------------------------------------------------
(* The invariant: the registers and the configuration have only bits that  *)
(* the tables know, and unless a value is translated wrongly the masks of  *)
(* what was written last hold it.                                          *)

StoreOK(b, st) ==
  /\ st = [r \in Writable(b) |-> st[r]]
  /\ \A r \in Writable(b) : st[r] \in SUBSET RegisterBits(b, r)
ChipOK(b, h) ==
  /\ h = [r \in Registers(b) |-> h[r]]
  /\ \A r \in Registers(b) : h[r] \in SUBSET (0..b.size[r] - 1)
NumbersOK(b, w) == \A v \in DOMAIN w : w[v] \in SUBSET (0..ValueSize(b, v) - 1)
Translated(chip, w) == \A v \in DOMAIN w : ~Wrong(chip, v)
HoldsAll(b, w, h, short) ==
  \A u \in b.units : u.value \in DOMAIN w =>
    h[u.reg] \cap u.mask = Low(Contribution(u, w[u.value], short), b.size[u.reg])

AccessInv ==
  /\ focus \in Focuses /\ shortened \in BOOLEAN /\ accesses \in 0..MaxAccesses
  /\ StoreOK(bank, stored)
  /\ ChipOK(bank, hw)
  /\ DOMAIN written \in SUBSET focus.values /\ NumbersOK(bank, written)
  /\ ~WritesValues => DOMAIN written = {}
  /\ Translated(focus.chip, written) => HoldsAll(bank, written, hw, shortened)

\* What no call changes.
LEMMA FocusKept ==
  ASSUME AccessInv, Next \/ UNCHANGED vars
  PROVE  /\ focus' = focus /\ shortened' = shortened /\ accesses' \in 0..MaxAccesses
         /\ bank' = bank /\ bank = BANKS[focus.chip]
         /\ focus \in Focuses /\ focus.chip \in DOMAIN BANKS /\ shortened \in BOOLEAN
<1>1. focus' = focus /\ shortened' = shortened
  BY DEF Next, vars, Access, WriteConfiguration, SetRegisterValue, WriteValues, WriteSubRegister,
         RefusedCall, WriteRegister, Done
<1>2. accesses' = accesses \/ (accesses < MaxAccesses /\ accesses' = accesses + 1)
  BY DEF Next, vars, Access, WriteConfiguration, SetRegisterValue, WriteValues, WriteSubRegister,
         RefusedCall, WriteRegister, Done
<1>3. focus \in Focuses /\ shortened \in BOOLEAN /\ accesses \in 0..MaxAccesses
  BY DEF AccessInv
<1>4. MaxAccesses \in Nat /\ focus.chip \in DOMAIN BANKS
  BY <1>3, RegisterAssumption
<1>5. accesses' \in 0..MaxAccesses
  BY <1>2, <1>3, <1>4
<1> QED
  BY <1>1, <1>3, <1>4, <1>5 DEF bank

LEMMA ContentOfRegister ==
  ASSUME NEW b, NEW r, NEW content
  PROVE  Content(b, r, content) \in SUBSET RegisterBits(b, r)
BY DEF Content

\* Sub-registers of a focus.
LEMMA FocusField ==
  ASSUME NEW f \in Focuses, NEW b, b = BANKS[f.chip], NEW p \in f.fields,
         NEW value \in Numbers(Cardinality(b.bits[p[1]][p[2]]))
  PROVE  /\ f.chip \in DOMAIN BANKS
         /\ p[1] \in Registers(b) /\ p[2] \in DOMAIN b.bits[p[1]]
         /\ value \in SUBSET (0..Cardinality(b.bits[p[1]][p[2]]) - 1)
BY RegisterAssumption

\* What is written of a focus.
LEMMA RequestNumbers ==
  ASSUME focus \in Focuses, NEW values \in Requests
  PROVE  DOMAIN values \in SUBSET focus.values /\ NumbersOK(bank, values)
<1>1. PICK vs \in {focus.values} \cup {{v} : v \in focus.values}, number \in focus.numbers :
        values = [v \in vs |-> number[v]]
  BY DEF Requests
<1>2. vs \in SUBSET focus.values /\ DOMAIN values = vs
  BY <1>1
<1>3. \A v \in vs : number[v] \in SUBSET (0..ValueSize(bank, v) - 1)
  BY <1>1, <1>2, RegisterAssumption DEF bank
<1> QED
  BY <1>1, <1>2, <1>3 DEF NumbersOK

\* A sub-register that is set: the register has the bits it had or its own.
LEMMA FieldWritten ==
  ASSUME NEW f \in Focuses, NEW b, b = BANKS[f.chip], NEW p \in f.fields, NEW content,
         NEW value \in Numbers(Cardinality(b.bits[p[1]][p[2]]))
  PROVE  LET place == b.bits[p[1]][p[2]]
             after == SetField(content, place, value)
         IN /\ after \ place = content \ place
            /\ after \subseteq content \cup RegisterBits(b, p[1])
<1> DEFINE place == b.bits[p[1]][p[2]]
<1>1. /\ f.chip \in DOMAIN BANKS
      /\ p[1] \in Registers(b) /\ p[2] \in DOMAIN b.bits[p[1]]
      /\ value \in SUBSET (0..Cardinality(place) - 1)
  BY FocusField
<1>2. /\ b.size[p[1]] \in Nat /\ IsRange(place, b.size[p[1]])
      /\ place \in SUBSET RegisterBits(b, p[1])
  BY <1>1, BankFields
<1> HIDE DEF place
<1>3. /\ SetField(content, place, value) \ place = content \ place
      /\ SetField(content, place, value) \subseteq content \cup place
  BY <1>1, <1>2, FieldSet
<1>4. SetField(content, place, value) \subseteq content \cup RegisterBits(b, p[1])
  BY <1>2, <1>3
<1> QED
  BY <1>3, <1>4 DEF place
-----------------------------------------------------------------------------
(* Each call keeps the invariant. *)

\* What is to be shown of a call.
AfterCall ==
  /\ StoreOK(bank, stored') /\ ChipOK(bank, hw')
  /\ DOMAIN written' \in SUBSET focus.values /\ NumbersOK(bank, written')
  /\ ~WritesValues => DOMAIN written' = {}
  /\ Translated(focus.chip, written') => HoldsAll(bank, written', hw', shortened)

LEMMA NothingHolds ==
  /\ DOMAIN NOTHING \in SUBSET focus.values /\ NumbersOK(bank, NOTHING)
  /\ ~WritesValues => DOMAIN NOTHING = {}
  /\ \A h : HoldsAll(bank, NOTHING, h, shortened)
<1>1. DOMAIN NOTHING = {}
  BY DEF NOTHING
<1> QED
  BY <1>1 DEF NumbersOK, HoldsAll

LEMMA ChipWritten ==
  ASSUME NEW chip \in DOMAIN BANKS, NEW b, b = BANKS[chip], NEW h, ChipOK(b, h),
         NEW r \in Registers(b), NEW content, content \subseteq h[r] \cup RegisterBits(b, r)
  PROVE  ChipOK(b, [h EXCEPT ![r] = content])
<1>1. RegisterBits(b, r) \in SUBSET (0..b.size[r] - 1)
  BY BankFields
<1>2. content \in SUBSET (0..b.size[r] - 1)
  BY <1>1 DEF ChipOK
<1> QED
  BY <1>2 DEF ChipOK

LEMMA ConfigurationSent ==
  ASSUME AccessInv, WriteConfiguration
  PROVE  AfterCall
<1>1. focus.chip \in DOMAIN BANKS /\ bank = BANKS[focus.chip]
  BY FocusKept DEF Next
<1>2. StoreOK(bank, stored) /\ ChipOK(bank, hw)
  BY DEF AccessInv
<1>3. PICK resetTds \in BOOLEAN :
        hw' = [r \in Registers(bank) |->
                 IF r \notin Writable(bank) THEN hw[r]
                 ELSE IF resetTds /\ r = 12 THEN SetField(stored[r], bank.bits[r][<<"resets">>], {})
                 ELSE stored[r]]
  BY DEF WriteConfiguration
<1>4. ASSUME NEW r \in Registers(bank)
      PROVE  hw'[r] \in SUBSET (0..bank.size[r] - 1)
  <2>1. CASE r \notin Writable(bank)
    <3>1. hw'[r] = hw[r]
      BY <1>3, <2>1
    <3> QED
      BY <1>2, <3>1 DEF ChipOK
  <2>2. CASE r \in Writable(bank)
    <3>1. hw'[r] = stored[r] \/ hw'[r] = SetField(stored[r], bank.bits[r][<<"resets">>], {})
      BY <1>3, <2>2
    <3>2. \A place : SetField(stored[r], place, {}) \in SUBSET stored[r]
      BY DEF SetField, ShiftLeft
    <3>3. hw'[r] \in SUBSET stored[r]
      BY <3>1, <3>2
    <3>4. stored[r] \in SUBSET RegisterBits(bank, r)
      BY <1>2, <2>2 DEF StoreOK
    <3>5. RegisterBits(bank, r) \in SUBSET (0..bank.size[r] - 1)
      BY <1>1, BankFields
    <3> QED
      BY <3>3, <3>4, <3>5
  <2> QED
    BY <2>1, <2>2
<1>5. hw' = [r \in Registers(bank) |-> hw'[r]]
  BY <1>3
<1>6. stored' = stored /\ written' = NOTHING
  BY DEF WriteConfiguration
<1> QED
  BY <1>2, <1>4, <1>5, <1>6, NothingHolds DEF AfterCall, ChipOK

LEMMA SubRegisterSet ==
  ASSUME AccessInv, SetRegisterValue
  PROVE  AfterCall
<1>1. focus.chip \in DOMAIN BANKS /\ bank = BANKS[focus.chip] /\ focus \in Focuses
  BY FocusKept DEF Next
<1>2. StoreOK(bank, stored)
  BY DEF AccessInv
<1>3a. PICK p \in focus.fields :
         /\ p[1] \in Writable(bank)
         /\ \E value \in Numbers(Cardinality(bank.bits[p[1]][p[2]])) :
              stored' = [stored EXCEPT ![p[1]] = SetField(@, bank.bits[p[1]][p[2]], value)]
  BY DEF SetRegisterValue
<1>3. PICK value \in Numbers(Cardinality(bank.bits[p[1]][p[2]])) :
        stored' = [stored EXCEPT ![p[1]] = SetField(@, bank.bits[p[1]][p[2]], value)]
  BY <1>3a
<1>4. SetField(stored[p[1]], bank.bits[p[1]][p[2]], value)
        \subseteq stored[p[1]] \cup RegisterBits(bank, p[1])
  BY <1>1, FieldWritten
<1>5. stored[p[1]] \in SUBSET RegisterBits(bank, p[1])
  BY <1>2, <1>3a DEF StoreOK
<1>6. StoreOK(bank, stored')
  BY <1>2, <1>3, <1>3a, <1>4, <1>5 DEF StoreOK
<1>7. hw' = hw /\ written' = written
  BY DEF SetRegisterValue
<1> QED
  BY <1>6, <1>7 DEF AfterCall, AccessInv

LEMMA SubRegisterWritten ==
  ASSUME AccessInv, WriteSubRegister
  PROVE  AfterCall
<1>1. focus.chip \in DOMAIN BANKS /\ bank = BANKS[focus.chip] /\ focus \in Focuses
  BY FocusKept DEF Next
<1>2a. PICK p \in focus.fields :
         /\ p[1] \in Writable(bank)
         /\ \E value \in Numbers(Cardinality(bank.bits[p[1]][p[2]])) :
              hw' = [hw EXCEPT ![p[1]] = SetField(@, bank.bits[p[1]][p[2]], value)]
  BY DEF WriteSubRegister
<1>2. PICK value \in Numbers(Cardinality(bank.bits[p[1]][p[2]])) :
        hw' = [hw EXCEPT ![p[1]] = SetField(@, bank.bits[p[1]][p[2]], value)]
  BY <1>2a
<1>3. SetField(hw[p[1]], bank.bits[p[1]][p[2]], value)
        \subseteq hw[p[1]] \cup RegisterBits(bank, p[1])
  BY <1>1, FieldWritten
<1>4. p[1] \in Registers(bank) /\ ChipOK(bank, hw)
  BY <1>2a DEF Writable, AccessInv
<1>5. ChipOK(bank, hw')
  BY <1>1, <1>2, <1>3, <1>4, ChipWritten
<1>6. stored' = stored /\ written' = written /\ focus.chip = "padTrigger"
  BY DEF WriteSubRegister
<1>7. DOMAIN written = {}
  BY <1>6 DEF AccessInv, WritesValues
<1>8. HoldsAll(bank, written', hw', shortened)
  BY <1>6, <1>7 DEF HoldsAll
<1> QED
  BY <1>5, <1>6, <1>8 DEF AfterCall, AccessInv

LEMMA RegisterWritten ==
  ASSUME AccessInv, WriteRegister
  PROVE  AfterCall
<1>1. focus.chip \in DOMAIN BANKS /\ bank = BANKS[focus.chip]
  BY FocusKept DEF Next
<1>2. PICK p \in focus.fields, content \in Contents :
        p[1] \in Writable(bank) /\ hw' = [hw EXCEPT ![p[1]] = Content(bank, p[1], content)]
  BY DEF WriteRegister
<1>3. p[1] \in Registers(bank) /\ ChipOK(bank, hw)
  BY <1>2 DEF Writable, AccessInv
<1>4. Content(bank, p[1], content) \subseteq hw[p[1]] \cup RegisterBits(bank, p[1])
  BY ContentOfRegister
<1>5. ChipOK(bank, hw')
  BY <1>1, <1>2, <1>3, <1>4, ChipWritten
<1>6. stored' = stored /\ written' = NOTHING
  BY DEF WriteRegister
<1> QED
  BY <1>5, <1>6, NothingHolds DEF AfterCall, AccessInv

\* What writeValues does to a register.
LEMMA RegisterOfValues ==
  ASSUME AccessInv, NEW values \in Requests, Translated(focus.chip, values),
         NEW r \in Registers(bank)
  PROVE  /\ \A u \in Touching(values, r) :
              Flat(values, r) \cap u.mask = Contribution(u, values[u.value], shortened)
         /\ \A i \in 0..bank.size[r] - 1 :
              i \notin Mask(Touching(values, r)) => (i \in Flat(values, r) <=> i \in stored[r])
         /\ BuildPartial(bank.registers[r], Flat(values, r))
              = Flat(values, r) \cap (0..bank.size[r] - 1)
<1> DEFINE us == Touching(values, r)
           width == bank.width
           size == bank.size[r]
<1>1. focus.chip \in DOMAIN BANKS /\ bank = BANKS[focus.chip] /\ focus \in Focuses
  BY RegisterAssumption DEF AccessInv, bank
<1>2. us = UnitsIn(bank, DOMAIN values, r)
  BY DEF Touching, UnitsIn
<1>3. RightUnits(bank, us, r)
  BY <1>1, <1>2, UnitsInAreRight DEF Translated
<1>4. width \in Nat /\ 32 <= width /\ size \in Nat /\ size = Size(bank.registers[r])
  BY <1>1, BankParts, BankFields
<1>5. \A u \in us : values[u.value] \in SUBSET (0..ValueSize(bank, u.value) - 1)
  BY <1>1, RequestNumbers DEF NumbersOK, Touching
<1>6. Flat(values, r) = FlatRegister(us, values, stored[r], size, width, shortened)
  BY DEF Flat
<1>7. BuildPartial(bank.registers[r], Flat(values, r)) = Flat(values, r) \cap (0..size - 1)
  BY <1>4 DEF BuildPartial, Low
<1>8. size = bank.size[r]
  OBVIOUS
<1> HIDE DEF us, width, size
<1>9. LET flat == FlatRegister(us, values, stored[r], size, width, shortened)
      IN /\ \A u \in us : flat \cap u.mask = Contribution(u, values[u.value], shortened)
         /\ \A i \in 0..size - 1 : i \notin Mask(us) => (i \in flat <=> i \in stored[r])
  BY <1>3, <1>4, <1>5, <1>8, FlatRegisterIs
<1> QED
  BY <1>6, <1>7, <1>8, <1>9 DEF us

LEMMA ValuesWritten ==
  ASSUME AccessInv, WriteValues
  PROVE  AfterCall
<1>1. focus.chip \in DOMAIN BANKS /\ bank = BANKS[focus.chip] /\ focus \in Focuses
  BY FocusKept DEF Next
<1>2. PICK values \in Requests :
        /\ hw' = [r \in Registers(bank) |->
                    IF r \in TouchedBy(values)
                      THEN BuildPartial(bank.registers[r], Flat(values, r)) ELSE hw[r]]
        /\ written' = values
  BY DEF WriteValues
<1>3. ChipOK(bank, hw) /\ StoreOK(bank, stored)
  BY DEF AccessInv
<1>4. ASSUME NEW r \in Registers(bank)
      PROVE  hw'[r] \in SUBSET (0..bank.size[r] - 1)
  <2>1. CASE r \in TouchedBy(values)
    <3>1. hw'[r] = Low(Flat(values, r), Size(bank.registers[r]))
      BY <1>2, <2>1 DEF BuildPartial
    <3>2. bank.size[r] = Size(bank.registers[r])
      BY <1>1, BankParts
    <3> QED
      BY <3>1, <3>2 DEF Low
  <2>2. CASE r \notin TouchedBy(values)
    <3>1. hw'[r] = hw[r]
      BY <1>2, <2>2
    <3> QED
      BY <1>3, <3>1 DEF ChipOK
  <2> QED
    BY <2>1, <2>2
<1>5. hw' = [r \in Registers(bank) |-> hw'[r]]
  BY <1>2
<1>6. DOMAIN values \in SUBSET focus.values /\ NumbersOK(bank, values)
  BY <1>1, RequestNumbers
<1>7. ASSUME Translated(focus.chip, values), NEW u \in bank.units, u.value \in DOMAIN values
      PROVE  hw'[u.reg] \cap u.mask
               = Low(Contribution(u, values[u.value], shortened), bank.size[u.reg])
  <2>1. RightUnit(bank, u)
    BY <1>1, <1>7, UnitsAreRight DEF Translated
  <2>2. u.reg \in Registers(bank) /\ u.reg \in TouchedBy(values) /\ u \in Touching(values, u.reg)
    BY <1>7, <2>1 DEF RightUnit, TouchedBy, GetRegsForValue, UnitsOf, Touching
  <2>3. /\ Flat(values, u.reg) \cap u.mask = Contribution(u, values[u.value], shortened)
        /\ BuildPartial(bank.registers[u.reg], Flat(values, u.reg))
             = Flat(values, u.reg) \cap (0..bank.size[u.reg] - 1)
    BY <1>7, <2>2, RegisterOfValues
  <2>4. hw'[u.reg] = BuildPartial(bank.registers[u.reg], Flat(values, u.reg))
    BY <1>2, <2>2
  <2> QED
    BY <2>3, <2>4 DEF Low
<1>8. Translated(focus.chip, written') => HoldsAll(bank, written', hw', shortened)
  BY <1>2, <1>7 DEF HoldsAll
<1>9. stored' = stored /\ WritesValues
  BY DEF WriteValues
<1> QED
  BY <1>2, <1>3, <1>4, <1>5, <1>6, <1>8, <1>9 DEF AfterCall, ChipOK
-----------------------------------------------------------------------------
LEMMA AccessInit ==
  ASSUME Init
  PROVE  AccessInv
<1>1. focus \in Focuses /\ shortened \in BOOLEAN /\ accesses = 0 /\ written = NOTHING
  BY DEF Init
<1>2. focus.chip \in DOMAIN BANKS /\ bank = BANKS[focus.chip] /\ MaxAccesses \in Nat
  BY <1>1, RegisterAssumption DEF bank
<1>3. PICK content \in Contents :
        /\ stored = [r \in Writable(bank) |-> Content(bank, r, content)]
        /\ hw = [r \in Registers(bank) |->
                   IF r \in bank.readonly THEN Content(bank, r, content) ELSE {}]
  BY DEF Init
<1>4. StoreOK(bank, stored)
  BY <1>3, ContentOfRegister DEF StoreOK
<1>5. ASSUME NEW r \in Registers(bank)
      PROVE  hw[r] \in SUBSET (0..bank.size[r] - 1)
  <2>1. hw[r] \in SUBSET RegisterBits(bank, r)
    BY <1>3, ContentOfRegister
  <2>2. RegisterBits(bank, r) \in SUBSET (0..bank.size[r] - 1)
    BY <1>2, BankFields
  <2> QED
    BY <2>1, <2>2
<1>6. ChipOK(bank, hw)
  BY <1>3, <1>5 DEF ChipOK
<1> QED
  BY <1>1, <1>2, <1>4, <1>6, NothingHolds DEF AccessInv

LEMMA AccessStep ==
  ASSUME AccessInv, Next \/ UNCHANGED vars
  PROVE  AccessInv'
<1>1. /\ focus' = focus /\ shortened' = shortened /\ accesses' \in 0..MaxAccesses
      /\ bank' = bank /\ focus \in Focuses /\ shortened \in BOOLEAN
  BY FocusKept
<1>2. AfterCall
  <2>1. CASE WriteConfiguration
    BY <2>1, ConfigurationSent
  <2>2. CASE SetRegisterValue
    BY <2>2, SubRegisterSet
  <2>3. CASE WriteValues
    BY <2>3, ValuesWritten
  <2>4. CASE WriteSubRegister
    BY <2>4, SubRegisterWritten
  <2>5. CASE WriteRegister
    BY <2>5, RegisterWritten
  <2>6. CASE RefusedCall \/ Done \/ UNCHANGED vars
    <3>1. stored' = stored /\ hw' = hw /\ written' = written
      BY <2>6 DEF RefusedCall, Done, vars
    <3> QED
      BY <3>1 DEF AfterCall, AccessInv
  <2> QED
    BY <2>1, <2>2, <2>3, <2>4, <2>5, <2>6 DEF Next
<1>3. WritesValues' = WritesValues
  BY <1>1 DEF WritesValues
<1> QED
  BY <1>1, <1>2, <1>3 DEF AfterCall, AccessInv

LEMMA AccessInvHolds == Spec => []AccessInv
<1>1. Init => AccessInv
  BY AccessInit
<1>2. AccessInv /\ [Next]_vars => AccessInv'
  BY AccessStep
<1> QED
  BY <1>1, <1>2, PTL DEF Spec

LEMMA AccessTypes ==
  ASSUME AccessInv
  PROVE  TypeOK
<1>1. focus.chip \in DOMAIN BANKS
  BY RegisterAssumption DEF AccessInv
<1>2. DOMAIN stored = Writable(bank) /\ DOMAIN hw = Registers(bank)
  BY DEF AccessInv, StoreOK, ChipOK
<1> QED
  BY <1>1, <1>2 DEF AccessInv, StoreOK, ChipOK, TypeOK

\* Registers and configuration have only bits of their registers, and what is
\* noted as written are values of the chip.
THEOREM RegisterTypeCorrect == Spec => []TypeOK
BY AccessInvHolds, AccessTypes, PTL
-----------------------------------------------------------------------------
(* What is written is read. *)

\* One value of which all units hold its bits.
LEMMA ValueReadsBack ==
  ASSUME AccessInv, Translated(focus.chip, written), NEW v \in DOMAIN written
  PROVE  ReadValue(v) = written[v]
<1> DEFINE us == UnitsOf(bank.units, v)
           content(p) == LET u == CHOOSE u \in us : p = <<u.reg, u.field>>
                         IN SubRegister(u, hw[u.reg], shortened)
           sub == [p \in Pairs(us) |-> content(p)]
           c == [u \in us |-> written[v] \cap Held(bank, u)]
<1>1. /\ focus.chip \in DOMAIN BANKS /\ bank = BANKS[focus.chip] /\ focus \in Focuses
      /\ v \in focus.values /\ written[v] \in SUBSET (0..ValueSize(bank, v) - 1)
      /\ HoldsAll(bank, written, hw, shortened)
  BY RegisterAssumption DEF AccessInv, bank, NumbersOK
<1>2. us # {} /\ us \in SUBSET bank.units /\ \A u \in us : u.value = v /\ ~Wrong(focus.chip, u.value)
  <2>1. us # {}
    BY <1>1, RegisterAssumption
  <2> QED
    BY <2>1 DEF UnitsOf, Translated
<1>3. IsFiniteSet(us)
  BY <1>1, <1>2, UnitsAreRight, FS_Subset
<1>4. /\ \A u \in us : RightUnit(bank, u)
      /\ 0..ValueSize(bank, v) - 1 \subseteq UNION {Held(bank, w) : w \in us}
      /\ \A u \in us : \A w \in us \ {u} : u.reg # w.reg /\ Held(bank, u) \cap Held(bank, w) = {}
  BY <1>1, <1>2, UnitsAreRight
<1>5. ASSUME NEW u \in us
      PROVE  sub[<<u.reg, u.field>>] = SubRegister(u, hw[u.reg], shortened)
  <2>1. <<u.reg, u.field>> \in Pairs(us)
    BY DEF Pairs
  <2>2. (CHOOSE w \in us : <<u.reg, u.field>> = <<w.reg, w.field>>) = u
    <3>1. \A w \in us : <<u.reg, u.field>> = <<w.reg, w.field>> => w = u
      BY <1>4
    <3> HIDE DEF us
    <3> QED
      BY <3>1
  <2> HIDE DEF us
  <2> QED
    BY <2>1, <2>2
<1>6. ASSUME NEW u \in us
      PROVE  ShiftLeft(sub[<<u.reg, u.field>>], Min(u.part)) = c[u]
  <2>1. RightUnit(bank, u) /\ u.value = v /\ u.reg \in Registers(bank)
    BY <1>2, <1>4 DEF RightUnit
  <2>2. bank.size[u.reg] \in Nat
    BY <1>1, <2>1, BankFields
  <2>3. hw[u.reg] \cap u.mask = Low(Contribution(u, written[v], shortened), bank.size[u.reg])
    BY <1>1, <1>2, <2>1 DEF HoldsAll
  <2>4. written[v] \in SUBSET (0..ValueSize(bank, u.value) - 1)
    BY <1>1, <2>1
  <2> HIDE DEF us, sub, content
  <2>5. ShiftLeft(SubRegister(u, hw[u.reg], shortened), Min(u.part)) = written[v] \cap Held(bank, u)
    BY <2>1, <2>2, <2>3, <2>4, UnitReadsBack
  <2> QED
    BY <1>5, <2>5
<1>7. Apart(c, us)
  BY <1>4 DEF Apart
<1>8. Join(c, us) = written[v]
  <2>1. Join(c, us) = UNION {written[v] \cap Held(bank, u) : u \in us}
    BY DEF Join
  <2> HIDE DEF us, c, sub, content
  <2>2. written[v] \subseteq UNION {Held(bank, w) : w \in us}
    <3>1. written[v] \subseteq 0..ValueSize(bank, v) - 1
      BY <1>1, Zenon
    <3> QED
      BY <1>4, <3>1, Zenon
  <2>3. UNION {written[v] \cap Held(bank, u) : u \in us} = written[v]
    BY <2>2
  <2> QED
    BY <2>1, <2>3
<1> HIDE DEF c
<1>9. ReadValue(v) = ToValue(us, sub)
  BY DEF ReadValue
<1> HIDE DEF us, sub, content
<1>10. ToValue(us, sub) = Join(c, us)
  BY <1>3, <1>6, <1>7, ToValueJoins
<1> QED
  BY <1>8, <1>9, <1>10

\* A value that was written reads as it was written: of several registers, next
\* to other values, and whatever the registers held before.
THEOREM ValuesReadBack == Spec => []ReadsWhatWasWritten
<1>1. AccessInv => ReadsWhatWasWritten
  <2> SUFFICES ASSUME AccessInv, \A v \in DOMAIN written : ~Mistranslated(v),
                      NEW v \in DOMAIN written
               PROVE  ReadValue(v) = written[v]
    BY DEF ReadsWhatWasWritten
  <2>1. Translated(focus.chip, written)
    BY DEF Translated, Mistranslated
  <2> QED
    BY <2>1, ValueReadsBack
<1> QED
  BY <1>1, AccessInvHolds, PTL

-----------------------------------------------------------------------------
(* The masks are the sub-registers. *)

LEMMA UnitIsField ==
  ASSUME NEW chip \in DOMAIN BANKS, NEW b, b = BANKS[chip], NEW u, RightUnit(b, u),
         u.field \in DOMAIN b.bits[u.reg],
         NEW content \in SUBSET (0..b.size[u.reg] - 1), NEW short
  PROVE  SubRegister(u, content, short) = GetField(content, b.bits[u.reg][u.field])
<1> DEFINE place == b.bits[u.reg][u.field]
           size == b.size[u.reg]
<1>1. /\ u.reg \in Registers(b) /\ u.mask \cap (0..size - 1) = place
      /\ u.mask \in SUBSET (0..31) /\ Min(u.mask) \in u.mask /\ \A k \in u.mask : Min(u.mask) <= k
  BY IntervalParts DEF RightUnit
<1>2. size \in Nat /\ IsRange(place, size)
  BY <1>1, BankFields
<1> HIDE DEF place, size
<1>3. PICK lo \in Nat, hi \in Nat : lo <= hi /\ hi < size /\ place = lo..hi
  BY <1>2 DEF IsRange
<1>4. lo \in place /\ lo \in u.mask
  <2>1. lo \in place
    BY <1>3
  <2> QED
    BY <1>1, <2>1
<1>5. Min(u.mask) \in place
  <2>1. Min(u.mask) \in Nat /\ Min(u.mask) <= lo
    BY <1>1, <1>4
  <2>2. Min(u.mask) \in 0..size - 1
    BY <1>2, <1>3, <2>1
  <2> QED
    BY <1>1, <2>2
<1>6. Min(place) = Min(u.mask)
  <2>1. place \in SUBSET Nat /\ \A k \in place : Min(u.mask) <= k
    BY <1>1
  <2> QED
    BY <1>5, <2>1, MinIs
<1>7. content \cap u.mask = content \cap place
  BY <1>1 DEF size
<1>8. Ctz(u.mask, short) = Min(u.mask)
  BY CtzOfInterval DEF RightUnit
<1> QED
  BY <1>6, <1>7, <1>8 DEF SubRegister, GetField, place

\* Reading a value gives what is in the sub-registers the tables say it has,
\* whatever the registers hold.
THEOREM ValuesAgreeWithLayout == Spec => []AgreesWithLayout
<1>1. AccessInv => AgreesWithLayout
  <2> SUFFICES ASSUME AccessInv, NEW v \in focus.values, ~Mistranslated(v),
                      \A u \in UnitsOf(bank.units, v) : u.field \in DOMAIN bank.bits[u.reg]
               PROVE  ReadValue(v)
                        = ToValue(UnitsOf(bank.units, v),
                                  [p \in Pairs(UnitsOf(bank.units, v)) |->
                                     GetField(hw[p[1]], bank.bits[p[1]][p[2]])])
    BY DEF AgreesWithLayout
  <2> DEFINE us == UnitsOf(bank.units, v)
             content(p) == LET u == CHOOSE u \in us : p = <<u.reg, u.field>>
                           IN SubRegister(u, hw[u.reg], shortened)
  <2>1. focus.chip \in DOMAIN BANKS /\ bank = BANKS[focus.chip] /\ ChipOK(bank, hw)
    BY RegisterAssumption DEF AccessInv, bank
  <2>2. ASSUME NEW u \in us
        PROVE  RightUnit(bank, u) /\ u.field \in DOMAIN bank.bits[u.reg]
    BY <2>1, UnitsAreRight DEF UnitsOf, Mistranslated
  <2>3. ASSUME NEW p \in Pairs(us)
        PROVE  content(p) = GetField(hw[p[1]], bank.bits[p[1]][p[2]])
    <3> DEFINE u == CHOOSE u \in us : p = <<u.reg, u.field>>
    <3>1. \E w \in us : p = <<w.reg, w.field>>
      BY DEF Pairs
    <3>2. u \in us /\ p = <<u.reg, u.field>>
      <4> HIDE DEF us
      <4> QED
        BY <3>1, Zenon
    <3> HIDE DEF u, us
    <3>3. RightUnit(bank, u) /\ u.field \in DOMAIN bank.bits[u.reg] /\ u.reg \in Registers(bank)
      BY <2>2, <3>2 DEF RightUnit
    <3>4. hw[u.reg] \in SUBSET (0..bank.size[u.reg] - 1)
      BY <2>1, <3>3 DEF ChipOK
    <3>5. SubRegister(u, hw[u.reg], shortened) = GetField(hw[u.reg], bank.bits[u.reg][u.field])
      BY <2>1, <3>3, <3>4, UnitIsField
    <3>6. content(p) = SubRegister(u, hw[u.reg], shortened)
      BY DEF u
    <3>7. p[1] = u.reg /\ p[2] = u.field
      BY <3>2
    <3> QED
      BY <3>5, <3>6, <3>7
  <2>4. ReadValue(v) = ToValue(us, [p \in Pairs(us) |-> content(p)])
    BY DEF ReadValue
  <2> HIDE DEF us, content
  <2>5. [p \in Pairs(us) |-> content(p)]
          = [p \in Pairs(us) |-> GetField(hw[p[1]], bank.bits[p[1]][p[2]])]
    BY <2>3
  <2> QED
    BY <2>4, <2>5 DEF us
<1> QED
  BY <1>1, AccessInvHolds, PTL
-----------------------------------------------------------------------------
(* What a call leaves alone. *)

LEMMA OthersKept ==
  ASSUME AccessInv, Next, written' # written, \A v \in DOMAIN written' : ~Mistranslated(v),
         NEW r \in Registers(bank)
  PROVE  LET own == UNION {OwnBits(u) : u \in Touching(written', r)}
         IN \/ written' = NOTHING
            \/ hw'[r] = hw[r]
            \/ \A i \in RegisterBits(bank, r) \ own : (i \in hw'[r] <=> i \in stored[r])
<1> DEFINE own == UNION {OwnBits(u) : u \in Touching(written', r)}
<1>1. /\ focus.chip \in DOMAIN BANKS /\ bank = BANKS[focus.chip]
  BY FocusKept
<1>2. CASE WriteConfiguration \/ WriteRegister
  BY <1>2 DEF WriteConfiguration, WriteRegister
<1>3. CASE WriteValues
  <2>1. PICK values \in Requests :
          /\ hw' = [q \in Registers(bank) |->
                      IF q \in TouchedBy(values)
                        THEN BuildPartial(bank.registers[q], Flat(values, q)) ELSE hw[q]]
          /\ written' = values
    BY <1>3 DEF WriteValues
  <2>2. Translated(focus.chip, values)
    BY <2>1 DEF Translated, Mistranslated
  <2>3. CASE r \notin TouchedBy(values)
    BY <2>1, <2>3
  <2>4. CASE r \in TouchedBy(values)
    <3>1. hw'[r] = Flat(values, r) \cap (0..bank.size[r] - 1)
      BY <2>1, <2>2, <2>4, RegisterOfValues
    <3>2. \A i \in 0..bank.size[r] - 1 :
            i \notin Mask(Touching(values, r)) => (i \in Flat(values, r) <=> i \in stored[r])
      BY <2>2, RegisterOfValues
    <3>3. ASSUME NEW i \in RegisterBits(bank, r), i \notin own
          PROVE  i \in 0..bank.size[r] - 1 /\ i \notin Mask(Touching(values, r))
      <4>1. i \in 0..bank.size[r] - 1
        BY <1>1, BankFields
      <4>2. ASSUME NEW u \in Touching(values, r), i \in u.mask
            PROVE  FALSE
        <5>1. RightUnit(bank, u) /\ u.reg = r
          BY <1>1, <2>2, UnitsAreRight DEF Touching, Translated
        <5>2. u.field \in DOMAIN bank.bits[r] => i \in bank.bits[r][u.field]
          BY <4>1, <4>2, <5>1 DEF RightUnit
        <5>3. i \in OwnBits(u)
          BY <4>2, <5>1, <5>2, Zenon DEF OwnBits
        <5> QED
          BY <2>1, <3>3, <5>3
      <4> QED
        BY <4>1, <4>2 DEF Mask
    <3>4. \A i \in RegisterBits(bank, r) \ own : i \in hw'[r] <=> i \in stored[r]
      <4> HIDE DEF own
      <4> QED
        BY <3>1, <3>2, <3>3
    <3> QED
      BY <3>4
  <2> QED
    BY <2>3, <2>4
<1>4. CASE SetRegisterValue \/ WriteSubRegister \/ RefusedCall \/ Done
  BY <1>4 DEF SetRegisterValue, WriteSubRegister, RefusedCall, Done, vars
<1> QED
  BY <1>2, <1>3, <1>4 DEF Next

\* Writing values gives the other sub-registers of the chip what they had or what
\* the configuration says.
THEOREM OthersLeftAlone == Spec => LeavesOthersAlone
<1>1. AccessInv /\ [Next]_vars =>
        [written' # written /\ (\A v \in DOMAIN written' : ~Mistranslated(v)) =>
           \A r \in Registers(bank) :
             LET own == UNION {OwnBits(u) : u \in Touching(written', r)}
             IN \/ written' = NOTHING
                \/ hw'[r] = hw[r]
                \/ \A i \in RegisterBits(bank, r) \ own : (i \in hw'[r] <=> i \in stored[r])]_vars
  BY OthersKept
<1> QED
  BY <1>1, AccessInvHolds, PTL DEF Spec, LeavesOthersAlone

-----------------------------------------------------------------------------
(* Setting a sub-register. *)

LEMMA AtMostOne ==
  ASSUME NEW S, NEW p, S \subseteq {p}
  PROVE  Cardinality(S) <= 1
<1>1. IsFiniteSet({p}) /\ Cardinality({p}) = 1
  BY FS_Singleton
<1> QED
  BY <1>1, FS_Subset

LEMMA OneChanges ==
  ASSUME focus \in Focuses, NEW p \in focus.fields, NEW before, NEW D, p[1] \in D,
         before = [r \in D |-> before[r]],
         NEW value \in Numbers(Cardinality(bank.bits[p[1]][p[2]]))
  PROVE  Changed(before, [before EXCEPT ![p[1]] = SetField(@, bank.bits[p[1]][p[2]], value)])
           \subseteq {<<p[1], p[2]>>}
<1> DEFINE place == bank.bits[p[1]][p[2]]
           after == [before EXCEPT ![p[1]] = SetField(@, place, value)]
<1>1. focus.chip \in DOMAIN BANKS /\ bank = BANKS[focus.chip]
  BY RegisterAssumption DEF bank
<1>2. SetField(before[p[1]], place, value) \ place = before[p[1]] \ place
  BY <1>1, FieldWritten
<1>3. p[1] \in Registers(bank) /\ p[2] \in DOMAIN bank.bits[p[1]]
  BY <1>1, FocusField
<1>4. ASSUME NEW r \in Writable(bank), NEW f \in DOMAIN bank.bits[r],
             ~(r = p[1] /\ f = p[2])
      PROVE  GetField(before[r], bank.bits[r][f]) = GetField(after[r], bank.bits[r][f])
  <2>1. CASE r # p[1]
    <3>1. after[r] = before[r]
      BY <2>1
    <3> QED
      BY <3>1
  <2>2. CASE r = p[1]
    <3>1. place \cap bank.bits[r][f] = {}
      BY <1>1, <1>3, <1>4, <2>2, BankFields
    <3>2. after[r] = SetField(before[r], place, value)
      BY <2>2
    <3> DEFINE other == bank.bits[r][f]
               new   == after[r]
               old   == before[r]
    <3>3. place \cap other = {}
      BY <3>1
    <3>4. new \ place = old \ place
      BY <1>2, <2>2, <3>2
    <3> HIDE DEF place, after, other, new, old
    <3>5. GetField(new, other) = GetField(old, other)
      <4>1. new \cap other = old \cap other
        BY <3>3, <3>4
      <4> QED
        BY <4>1, Zenon DEF GetField
    <3> QED
      BY <3>5 DEF new, old, other
  <2> QED
    BY <2>1, <2>2
<1> HIDE DEF place, after
<1>5. ASSUME NEW q \in Changed(before, after)
      PROVE  q = <<p[1], p[2]>>
  <2>1. PICK r \in Writable(bank) : q \in {r} \X DOMAIN bank.bits[r]
    BY DEF Changed
  <2>2. q = <<r, q[2]>> /\ q[1] = r /\ q[2] \in DOMAIN bank.bits[r]
    BY <2>1
  <2>3. GetField(before[r], bank.bits[r][q[2]]) # GetField(after[r], bank.bits[r][q[2]])
    BY <2>2 DEF Changed
  <2> QED
    BY <1>4, <2>2, <2>3
<1> QED
  BY <1>5 DEF after, place

LEMMA OneFieldSet ==
  ASSUME AccessInv, Next \/ UNCHANGED vars
  PROVE  /\ Cardinality(Changed(stored, stored')) <= 1
         /\ WriteSubRegister => Cardinality(Changed(hw, hw')) <= 1
<1>1. focus \in Focuses /\ StoreOK(bank, stored) /\ ChipOK(bank, hw)
  BY DEF AccessInv
<1>2. Cardinality(Changed(stored, stored')) <= 1
  <2>1. CASE SetRegisterValue
    <3>1. PICK p \in focus.fields :
            /\ p[1] \in Writable(bank)
            /\ \E value \in Numbers(Cardinality(bank.bits[p[1]][p[2]])) :
                 stored' = [stored EXCEPT ![p[1]] = SetField(@, bank.bits[p[1]][p[2]], value)]
      BY <2>1 DEF SetRegisterValue
    <3>2. PICK value \in Numbers(Cardinality(bank.bits[p[1]][p[2]])) :
            stored' = [stored EXCEPT ![p[1]] = SetField(@, bank.bits[p[1]][p[2]], value)]
      BY <3>1
    <3>3. stored = [r \in Writable(bank) |-> stored[r]]
      BY <1>1 DEF StoreOK
    <3>4. Changed(stored, stored') \subseteq {<<p[1], p[2]>>}
      BY <1>1, <3>1, <3>2, <3>3, OneChanges
    <3> QED
      BY <3>4, AtMostOne
  <2>2. CASE ~SetRegisterValue
    <3>1. stored' = stored
      BY <2>2 DEF Next, vars, WriteConfiguration, WriteValues, WriteSubRegister, WriteRegister,
                  RefusedCall, Done
    <3>2. Changed(stored, stored') \subseteq {<<>>}
      BY <3>1 DEF Changed
    <3> QED
      BY <3>2, AtMostOne
  <2> QED
    BY <2>1, <2>2
<1>3. ASSUME WriteSubRegister
      PROVE  Cardinality(Changed(hw, hw')) <= 1
  <2>1. PICK p \in focus.fields :
          /\ p[1] \in Writable(bank)
          /\ \E value \in Numbers(Cardinality(bank.bits[p[1]][p[2]])) :
               hw' = [hw EXCEPT ![p[1]] = SetField(@, bank.bits[p[1]][p[2]], value)]
    BY <1>3 DEF WriteSubRegister
  <2>2. PICK value \in Numbers(Cardinality(bank.bits[p[1]][p[2]])) :
          hw' = [hw EXCEPT ![p[1]] = SetField(@, bank.bits[p[1]][p[2]], value)]
    BY <2>1
  <2>3. hw = [r \in Registers(bank) |-> hw[r]] /\ p[1] \in Registers(bank)
    BY <1>1, <2>1 DEF ChipOK, Writable
  <2>4. Changed(hw, hw') \subseteq {<<p[1], p[2]>>}
    BY <1>1, <2>2, <2>3, OneChanges
  <2> QED
    BY <2>4, AtMostOne
<1> QED
  BY <1>2, <1>3

\* A call that sets a sub-register, in the configuration or in the FPGA of the pad
\* trigger, changes no other.
THEOREM OneFieldAtATime == Spec => SetsOneField
<1>1. AccessInv /\ [Next]_vars =>
        [/\ Cardinality(Changed(stored, stored')) <= 1
         /\ WriteSubRegister => Cardinality(Changed(hw, hw')) <= 1]_vars
  BY OneFieldSet
<1> QED
  BY <1>1, AccessInvHolds, PTL DEF Spec, SetsOneField
-----------------------------------------------------------------------------
(***************************************************************************)
(* The reading of the configuration: the settings of an element, then the  *)
(* hierarchy of resources.                                                 *)
(***************************************************************************)

\* The settings keep to what they are: none is off but those adjustRocConfig
\* writes, and an element's own are not those in common.
OwnSettingsWin(element, parts, used) ==
  \A part \in DOMAIN parts : \A register \in DOMAIN parts[part] :
    /\ parts[part][register] = "off" =>
         used /\ part[1] = "rocCoreDigital" /\ register[1] \in {"vmmEnable", "connection"}
    /\ part \in DOMAIN element.specific /\ register \in element.specific[part] =>
         parts[part][register] \in {"specific", "off"}

LEMMA MergeKeeps ==
  ASSUME NEW element, NEW part, NEW register \in DOMAIN Merge(element, part)
  PROVE  /\ Merge(element, part)[register] \in {"specific", "common"}
         /\ part \in DOMAIN element.specific /\ register \in element.specific[part] =>
              Merge(element, part)[register] = "specific"
BY DEF Merge, Specific

LEMMA MergeAnyKeeps ==
  ASSUME NEW element, NEW part, NEW register \in DOMAIN MergeAny(element, part)
  PROVE  /\ MergeAny(element, part)[register] \in {"specific", "common"}
         /\ part \in DOMAIN element.specific /\ register \in element.specific[part] =>
              MergeAny(element, part)[register] = "specific"
BY DEF MergeAny, Specific

LEMMA MergedKeeps ==
  ASSUME NEW element, NEW parts, NEW used \in BOOLEAN, ~Merged(element, parts).thrown
  PROVE  /\ DOMAIN Merged(element, parts).parts = parts
         /\ \A part \in parts : /\ Merged(element, parts).parts[part] = Merge(element, part)
                                /\ Mergeable(element, part)
         /\ OwnSettingsWin(element, Merged(element, parts).parts, used)
<1>1. \A part \in parts : Mergeable(element, part)
  BY DEF Merged, Thrown
<1>2. Merged(element, parts).parts = [part \in parts |-> Merge(element, part)]
  BY <1>1 DEF Merged
<1>3. \A part \in parts : Merged(element, parts).parts[part] = Merge(element, part)
  BY <1>2
<1> QED
  BY <1>1, <1>2, <1>3, MergeKeeps DEF OwnSettingsWin

\* The registers adjustRocConfig turns off.
TurnedOff(type, devices) ==
  {<<"vmmEnable", getRocVmmId(type, v)>> : v \in {w \in 0..7 : ~HasVmm(devices, w)}}
  \cup {<<"connection", s, getRocVmmId(type, v)>> :
          s \in 0..3, v \in {w \in 0..7 : ~HasVmm(devices, w)}}
  \cup {<<"connection", s, v>> : s \in {t \in 0..3 : <<"sROC", t>> \notin devices}, v \in 0..7}

LEMMA OffAreInputs ==
  ASSUME NEW type, NEW devices, NEW register \in TurnedOff(type, devices)
  PROVE  register[1] \in {"vmmEnable", "connection"}
<1> DEFINE without == {w \in 0..7 : ~HasVmm(devices, w)}
           loose   == {t \in 0..3 : <<"sROC", t>> \notin devices}
<1>1. \/ register \in {<<"vmmEnable", getRocVmmId(type, v)>> : v \in without}
      \/ register \in {<<"connection", s, getRocVmmId(type, v)>> : s \in 0..3, v \in without}
      \/ register \in {<<"connection", s, v>> : s \in loose, v \in 0..7}
  BY DEF TurnedOff
<1> HIDE DEF without, loose
<1> QED
  BY <1>1

LEMMA AdjustIs ==
  ASSUME NEW digital, NEW type, NEW devices
  PROVE  adjustRocConfig(digital, type, devices) =
           [register \in DOMAIN digital \cup TurnedOff(type, devices) |->
              IF register \in TurnedOff(type, devices) THEN "off" ELSE digital[register]]
BY DEF adjustRocConfig, TurnedOff, MAX_NUMBER_OF_VMM, NUM_SROCS

Numbered == {"MMFE8", "PFEB", "SFEB6", "SFEB8"}

LEMMA Wiring ==
  ASSUME NEW type \in Numbered, NEW v \in 0..7
  PROVE  /\ getRocVmmId(type, v) = Wire(type, v)
         /\ Wire(type, v) \in 0..7
         /\ \A w \in 0..7 : Wire(type, v) = Wire(type, w) => v = w
<1>1. v \in {0, 1, 2, 3, 4, 5, 6, 7}
  OBVIOUS
<1> DEFINE order == <<2, 3, 0, 1, 5, 4, 6, 7>>
<1>2. \A w \in 0..7 : /\ order[w + 1] \in 0..7
                      /\ order[w + 1] = order[v + 1] => v = w
  <2>1. \A w \in 0..7 : w \in {0, 1, 2, 3, 4, 5, 6, 7}
    OBVIOUS
  <2>2. /\ order[0 + 1] = 2 /\ order[1 + 1] = 3 /\ order[2 + 1] = 0 /\ order[3 + 1] = 1
        /\ order[4 + 1] = 5 /\ order[5 + 1] = 4 /\ order[6 + 1] = 6 /\ order[7 + 1] = 7
    OBVIOUS
  <2> QED
    BY <1>1, <2>1, <2>2
<1>3. CASE type = "MMFE8"
  BY <1>3 DEF Wire, getRocVmmId
<1>4. CASE type \in {"PFEB", "SFEB6", "SFEB8"}
  <2>1. \A w \in 0..7 : Wire(type, w) = order[w + 1]
    BY <1>4 DEF Wire
  <2>2. getRocVmmId(type, v) = order[v + 1]
    BY <1>1, <1>4 DEF getRocVmmId
  <2> QED
    BY <1>2, <2>1, <2>2
<1> QED
  BY <1>3, <1>4 DEF Numbered

LEMMA ConnectionIn ==
  ASSUME NEW A, NEW B, NEW a, NEW b \in B
  PROVE  <<"connection", a, b>> \in {<<"connection", t, w>> : t \in A, w \in B} <=> a \in A
OBVIOUS

LEMMA OffOnes ==
  ASSUME NEW type \in Numbered, NEW devices, NEW v \in 0..7
  PROVE  /\ <<"vmmEnable", Wire(type, v)>> \in TurnedOff(type, devices)
              <=> <<"VMM", v>> \notin devices
         /\ \A s \in 0..3 :
              <<"connection", s, Wire(type, v)>> \in TurnedOff(type, devices)
                <=> <<"VMM", v>> \notin devices \/ <<"sROC", s>> \notin devices
<1> DEFINE without == {w \in 0..7 : ~HasVmm(devices, w)}
           loose   == {u \in 0..3 : <<"sROC", u>> \notin devices}
<1>1. \A w \in 0..7 : w \in without <=> <<"VMM", w>> \notin devices
  BY DEF HasVmm
<1>2. \A w \in 0..7 : getRocVmmId(type, w) = Wire(type, w)
  BY Wiring
<1>3. \A w \in 0..7 : Wire(type, v) = Wire(type, w) => v = w
  BY Wiring
<1>4. Wire(type, v) \in 0..7
  BY Wiring
<1>5. without \subseteq 0..7
  OBVIOUS
<1>6. TurnedOff(type, devices) =
        {<<"vmmEnable", getRocVmmId(type, w)>> : w \in without}
        \cup {<<"connection", s, getRocVmmId(type, w)>> : s \in 0..3, w \in without}
        \cup {<<"connection", s, w>> : s \in loose, w \in 0..7}
  BY DEF TurnedOff
<1> HIDE DEF without, loose
<1>7. <<"vmmEnable", Wire(type, v)>> \in TurnedOff(type, devices)
        <=> \E w \in without : Wire(type, v) = getRocVmmId(type, w)
  BY <1>6
<1>8. ASSUME NEW s \in 0..3
      PROVE  <<"connection", s, Wire(type, v)>> \in TurnedOff(type, devices)
               <=> (\E w \in without : Wire(type, v) = getRocVmmId(type, w))
                     \/ <<"sROC", s>> \notin devices
  <2> DEFINE it == <<"connection", s, Wire(type, v)>>
  <2>1. it \notin {<<"vmmEnable", getRocVmmId(type, w)>> : w \in without}
    OBVIOUS
  <2>2. it \in {<<"connection", t, getRocVmmId(type, w)>> : t \in 0..3, w \in without}
          <=> \E w \in without : Wire(type, v) = getRocVmmId(type, w)
    OBVIOUS
  <2>3. it \in {<<"connection", t, w>> : t \in loose, w \in 0..7}
          <=> s \in loose
    BY <1>4, ConnectionIn
  <2>4. it \in TurnedOff(type, devices) <=>
          \/ it \in {<<"vmmEnable", getRocVmmId(type, w)>> : w \in without}
          \/ it \in {<<"connection", t, getRocVmmId(type, w)>> : t \in 0..3, w \in without}
          \/ it \in {<<"connection", t, w>> : t \in loose, w \in 0..7}
    BY <1>6
  <2> HIDE DEF it
  <2>5. it \in TurnedOff(type, devices) <=>
          (\E w \in without : Wire(type, v) = getRocVmmId(type, w)) \/ <<"sROC", s>> \notin devices
    BY <2>1, <2>2, <2>3, <2>4 DEF loose
  <2> QED
    BY <2>5 DEF it
<1>9. (\E w \in without : Wire(type, v) = getRocVmmId(type, w)) <=> v \in without
  BY <1>2, <1>3, <1>5
<1> QED
  BY <1>1, <1>7, <1>8, <1>9
LEMMA SetupFacts ==
  ASSUME setup \in Setups
  PROVE  /\ setup.json \in BOOLEAN /\ setup.contains \in Seq(DOMAIN setup.resources)
         /\ \A i \in DOMAIN setup.resources :
              /\ setup.resources[i].off \in BOOLEAN /\ setup.resources[i].prefixed \in BOOLEAN
              /\ setup.resources[i].matched \in BOOLEAN
              /\ setup.resources[i].contains \in Seq(DOMAIN setup.resources)
              /\ setup.resources[i].name \in DOMAIN setup.file
                   /\ setup.file[setup.resources[i].name].type \in FebTypes =>
                   \A v \in 0..7 : <<"VMM", v>> \in setup.resources[i].devices =>
                                     v \in VmmsOf(setup.file[setup.resources[i].name].type)
         /\ "unknown" \notin DOMAIN setup.file
         /\ \A name \in DOMAIN setup.file :
              setup.file[name].type \in FebTypes => setup.file[name].opcType \in Numbered
         /\ "rocCoreDigital" \in DOMAIN setup.common =>
              DigitalRegisters \subseteq setup.common["rocCoreDigital"]
BY ReaderInputs DEF ReaderAssumption, Numbered

\* A board as it is read agrees with its sub-devices.
LEMMA BoardAgrees ==
  ASSUME setup \in Setups, NEW element, element.opcType \in Numbered,
         NEW used \in BOOLEAN, NEW devices,
         used => \A v \in 0..7 : <<"VMM", v>> \in devices => v \in VmmsOf(element.type),
         ~readFEB(element, used, devices).thrown
  PROVE  /\ OwnSettingsWin(element, readFEB(element, used, devices).parts, used)
         /\ used => VmmsAgree(readFEB(element, used, devices).parts, element.opcType, devices)
<1> DEFINE vmms   == {v \in VmmsOf(element.type) : used => HasVmm(devices, v)}
           tdss   == {t \in Tdss(element.type) : used => HasTds(devices, t, TdsEnd(element.type))}
           parts  == RocParts \cup ({"vmm"} \X vmms) \cup ({"tds"} \X tdss)
           board  == Merged(element, parts)
           roc    == <<"rocCoreDigital", 0>>
           got    == readFEB(element, used, devices)
           adjust == adjustRocConfig(board.parts[roc], element.opcType, devices)
<1>1. got = IF used /\ <<"ROC", 0>> \notin devices THEN Thrown
            ELSE IF ~used \/ board.thrown THEN board
            ELSE [board EXCEPT !.parts = [board.parts EXCEPT ![roc] = adjust]]
  BY DEF readFEB
<1>2. roc \in parts
  BY DEF RocParts
<1>3. \A v : <<"vmm", v>> \in parts <=> v \in vmms
  BY DEF RocParts
<1> HIDE DEF vmms, tdss, parts, board, got, adjust
<1>4. Thrown.thrown
  BY DEF Thrown
<1>5. ~board.thrown
  <2>1. board.thrown => got.thrown
    BY <1>1, <1>4
  <2> QED
    BY <2>1 DEF got
<1>6. /\ DOMAIN board.parts = parts
      /\ \A part \in parts : board.parts[part] = Merge(element, part) /\ Mergeable(element, part)
      /\ OwnSettingsWin(element, board.parts, used)
  BY <1>5, MergedKeeps DEF board
<1>7. CASE ~used
  BY <1>1, <1>6, <1>7 DEF got
<1>8. CASE used
  <2>1. got = [board EXCEPT !.parts = [board.parts EXCEPT ![roc] = adjust]]
    BY <1>1, <1>4, <1>5, <1>8 DEF got
  <2>2. board = [thrown |-> FALSE, parts |-> [part \in parts |-> Merge(element, part)]]
    BY <1>5 DEF board, Merged, Thrown
  <2>3. got.parts = [board.parts EXCEPT ![roc] = adjust]
    BY <2>1, <2>2
  <2>4. DOMAIN got.parts = parts /\ got.parts[roc] = adjust
    BY <1>2, <1>6, <2>3
  <2>5. \A part \in parts \ {roc} : got.parts[part] = board.parts[part]
    BY <1>6, <2>3
  <2>6. adjust = [register \in DOMAIN board.parts[roc] \cup TurnedOff(element.opcType, devices) |->
                    IF register \in TurnedOff(element.opcType, devices) THEN "off"
                    ELSE board.parts[roc][register]]
    BY AdjustIs DEF adjust
  <2>7. OwnSettingsWin(element, got.parts, used)
    <3> SUFFICES ASSUME NEW part \in parts, NEW register \in DOMAIN got.parts[part]
                 PROVE  /\ got.parts[part][register] = "off" =>
                             /\ used /\ part[1] = "rocCoreDigital"
                             /\ register[1] \in {"vmmEnable", "connection"}
                        /\ part \in DOMAIN element.specific /\ register \in element.specific[part] =>
                             got.parts[part][register] \in {"specific", "off"}
      BY <2>4 DEF OwnSettingsWin
    <3>1. CASE part # roc
      BY <1>6, <2>5, <3>1 DEF OwnSettingsWin
    <3>2. CASE part = roc /\ register \notin TurnedOff(element.opcType, devices)
      <4>1. register \in DOMAIN board.parts[roc]
            /\ got.parts[roc][register] = board.parts[roc][register]
        BY <2>4, <2>6, <3>2
      <4> QED
        BY <1>2, <1>6, <3>2, <4>1 DEF OwnSettingsWin
    <3>3. CASE part = roc /\ register \in TurnedOff(element.opcType, devices)
      <4>1. got.parts[roc][register] = "off"
        BY <2>4, <2>6, <3>3
      <4>2. register[1] \in {"vmmEnable", "connection"}
        BY <3>3, OffAreInputs
      <4> QED
        BY <1>8, <3>3, <4>1, <4>2
    <3> QED
      BY <3>1, <3>2, <3>3
  <2>8. VmmsAgree(got.parts, element.opcType, devices)
    <3>1. board.parts[roc] = [register \in setup.common["rocCoreDigital"] |->
                                IF register \in Specific(element, roc) THEN "specific" ELSE "common"]
          /\ "rocCoreDigital" \in DOMAIN setup.common
      BY <1>2, <1>6 DEF Merge, Mergeable, Section
    <3>2. ASSUME NEW register \in DigitalRegisters
          PROVE  adjust[register] # "off" <=> register \notin TurnedOff(element.opcType, devices)
      <4>1. register \in setup.common["rocCoreDigital"]
        BY <3>1, SetupFacts
      <4> QED
        BY <2>6, <3>1, <4>1
    <3> SUFFICES ASSUME NEW v \in 0..7
                 PROVE  /\ <<"VMM", v>> \in devices <=> <<"vmm", v>> \in DOMAIN got.parts
                        /\ <<"VMM", v>> \in devices
                             <=> adjust[<<"vmmEnable", Wire(element.opcType, v)>>] # "off"
                        /\ \A s \in 0..3 :
                             <<"VMM", v>> \in devices /\ <<"sROC", s>> \in devices
                               <=> adjust[<<"connection", s, Wire(element.opcType, v)>>] # "off"
      BY <2>4 DEF VmmsAgree
    <3>3. <<"VMM", v>> \in devices <=> v \in vmms
      BY <1>8 DEF vmms, HasVmm
    <3>4. Wire(element.opcType, v) \in 0..7
      BY Wiring
    <3>5. <<"vmmEnable", Wire(element.opcType, v)>> \in DigitalRegisters
      BY <3>4 DEF DigitalRegisters
    <3>6. \A s \in 0..3 : <<"connection", s, Wire(element.opcType, v)>> \in DigitalRegisters
      BY <3>4 DEF DigitalRegisters
    <3>7. /\ <<"vmmEnable", Wire(element.opcType, v)>> \in TurnedOff(element.opcType, devices)
               <=> <<"VMM", v>> \notin devices
          /\ \A s \in 0..3 :
               <<"connection", s, Wire(element.opcType, v)>> \in TurnedOff(element.opcType, devices)
                 <=> <<"VMM", v>> \notin devices \/ <<"sROC", s>> \notin devices
      BY OffOnes
    <3>8. <<"VMM", v>> \in devices <=> <<"vmm", v>> \in DOMAIN got.parts
      BY <1>3, <2>4, <3>3
    <3>9. <<"VMM", v>> \in devices
            <=> adjust[<<"vmmEnable", Wire(element.opcType, v)>>] # "off"
      BY <3>2, <3>5, <3>7
    <3>10. ASSUME NEW s \in 0..3
           PROVE  <<"VMM", v>> \in devices /\ <<"sROC", s>> \in devices
                    <=> adjust[<<"connection", s, Wire(element.opcType, v)>>] # "off"
      BY <3>2, <3>6, <3>7
    <3> QED
      BY <3>8, <3>9, <3>10
  <2> QED
    BY <2>7, <2>8 DEF got
<1> QED
  BY <1>7, <1>8

LEMMA AddcIs ==
  ASSUME NEW element, NEW used, NEW devices
  PROVE  \/ readADDC(element, used, devices) = Thrown
         \/ \A part \in DOMAIN readADDC(element, used, devices).parts :
              readADDC(element, used, devices).parts[part] = MergeAny(element, part)
<1> DEFINE arts   == {"art"} \X {a \in 0..1 : used => <<"ART", a>> \in devices}
           core(part) == {register \in Specific(element, part) : register[1] # "top"}
           fails  == arts # {} /\ ("art" \in DOMAIN setup.common =>
                        \E part \in arts : ~(core(part) \subseteq setup.common["art"]))
<1>1. readADDC(element, used, devices) =
        IF fails THEN Thrown
        ELSE [thrown |-> FALSE, parts |-> [part \in arts |-> MergeAny(element, part)]]
  BY DEF readADDC
<1> HIDE DEF arts, core, fails
<1> QED
  BY <1>1

\* What is read without an exception.
LEMMA ReadAgrees ==
  ASSUME setup \in Setups, NEW name \in DOMAIN setup.file, NEW used \in BOOLEAN, NEW found,
         used /\ name \in DOMAIN found /\ setup.file[name].type \in FebTypes =>
           \A v \in 0..7 : <<"VMM", v>> \in found[name] => v \in VmmsOf(setup.file[name].type),
         ~read(name, used, found).thrown
  PROVE  /\ OwnSettingsWin(setup.file[name], read(name, used, found).parts, used)
         /\ used /\ setup.file[name].type \in FebTypes =>
              VmmsAgree(read(name, used, found).parts, setup.file[name].opcType, found[name])
<1> DEFINE element == setup.file[name]
           mapped  == ~used \/ name \in DOMAIN found
           devices == IF used /\ mapped THEN found[name] ELSE {}
           got     == read(name, used, found)
<1>0. Thrown.thrown
  BY DEF Thrown
<1>1. CASE element.type \in FebTypes
  <2>1. got = IF mapped THEN readFEB(element, used, devices) ELSE Thrown
    BY <1>1 DEF read, FebTypes
  <2>2. mapped /\ got = readFEB(element, used, devices)
    BY <1>0, <2>1
  <2>3. element.opcType \in Numbered
    BY <1>1, SetupFacts
  <2>4. used => devices = found[name]
    BY <2>2
  <2>5. used => \A v \in 0..7 : <<"VMM", v>> \in devices => v \in VmmsOf(element.type)
    BY <1>1, <2>2, <2>4
  <2>6. ~readFEB(element, used, devices).thrown
    BY <2>2
  <2> HIDE DEF element, mapped, devices, got
  <2>7. /\ OwnSettingsWin(element, readFEB(element, used, devices).parts, used)
        /\ used => VmmsAgree(readFEB(element, used, devices).parts, element.opcType, devices)
    BY <2>3, <2>5, <2>6, BoardAgrees
  <2> QED
    BY <2>2, <2>4, <2>7 DEF got, element
<1>2. CASE element.type \notin FebTypes
  <2>1. CASE element.type = "ADDC"
    <3>1. got = IF mapped THEN readADDC(element, used, devices) ELSE Thrown
      BY <1>2, <2>1 DEF read, FebTypes
    <3>2. got = readADDC(element, used, devices)
      BY <1>0, <3>1
    <3>3. \A part \in DOMAIN got.parts : got.parts[part] = MergeAny(element, part)
      BY <1>0, <3>2, AddcIs
    <3> QED
      BY <1>2, <3>3, MergeAnyKeeps DEF OwnSettingsWin
  <2>2. CASE element.type \in {"L1DDC", "RimL1DDC"}
    <3>1. got = readL1DDC(element)
      BY <1>2, <2>2 DEF read, FebTypes
    <3>2. \A part \in DOMAIN got.parts : got.parts[part] = MergeAny(element, part)
      BY <1>0, <3>1 DEF readL1DDC
    <3> QED
      BY <1>2, <3>2, MergeAnyKeeps DEF OwnSettingsWin
  <2>3. CASE element.type = "PadTrigger"
    <3>1. got = Merged(element, {<<"padtriggerfpga", 0>>})
      BY <1>2, <2>3 DEF read, readPadTrigger, FebTypes
    <3> QED
      BY <1>2, <3>1, MergedKeeps
  <2>4. CASE element.type \in {"TPCarrier", "STGCTP", "TP", "Router"}
    <3>1. got = AsItIs(element)
      BY <1>2, <2>4 DEF read, FebTypes
    <3> QED
      BY <1>2, <3>1 DEF AsItIs, OwnSettingsWin
  <2>5. CASE element.type \notin {"ADDC", "L1DDC", "RimL1DDC", "PadTrigger", "TPCarrier", "STGCTP",
                                  "TP", "Router"}
    <3>1. got = Thrown
      BY <1>2, <2>5 DEF read, FebTypes
    <3> QED
      BY <1>0, <3>1
  <2> QED
    BY <2>1, <2>2, <2>3, <2>4, <2>5
<1> QED
  BY <1>1, <1>2
Of(i) == setup.resources[i]
Name(i) == NameOf(Of(i), setup.json)
IsDevice(i) == ~Of(i).off /\ Of(i).class # ""

\* Resources to be looked at, and those to be added when a call returns.
Met(i)  == [resource |-> i, back |-> FALSE] \in Range(ahead)
Open(i) == [resource |-> i, back |-> TRUE] \in Range(ahead)

\* What is ahead is enabled with all that contain it, and so is what was found.
OnEnabledPaths ==
  /\ \A i \in DOMAIN setup.resources :
       /\ Met(i) => i \in Reached
       /\ Open(i) => i \in Reached /\ ~Of(i).off
  /\ \A name \in DOMAIN deviceMap.found :
       \E i \in Reached : /\ IsDevice(i) /\ name = Name(i)
                          /\ deviceMap.found[name] = SubDevices(Of(i))

\* Nothing is lost: beyond the resources looked at are only those ahead, and of
\* the devices among them only those whose calls are open are not in the map.
AllSeen(seen) ==
  /\ \A i \in Range(setup.contains) : i \in seen \/ Met(i)
  /\ \A i \in seen :
       /\ ~Of(i).off => \A k \in Range(Of(i).contains) : k \in seen \/ Met(k)
       /\ IsDevice(i) => Name(i) \in DOMAIN deviceMap.found \/ Open(i)
NothingLost ==
  ~deviceMap.thrown =>
    /\ progress = "parsing" => \E seen \in SUBSET DOMAIN setup.resources : AllSeen(seen)
    /\ progress \in {"reading", "read"} =>
         \A i \in Reached : IsDevice(i) => Name(i) \in DOMAIN deviceMap.found

\* A configuration as it is read with the map.
Agrees(element, parts, found, name) ==
  /\ OwnSettingsWin(element, parts, WithMap)
  /\ WithMap /\ element.type \in FebTypes => VmmsAgree(parts, element.opcType, found[name])

\* Each element of the map is still to be read, or has been read with it.
ReadSoFar ==
  /\ progress # "parsing" => ahead = << >>
  /\ progress \notin {"reading", "read"} => names = {} /\ added = NoElements /\ fatals = {}
  /\ progress \in {"reading", "read"} /\ WithMap =>
       /\ names \cup DOMAIN added \cup fatals \subseteq DOMAIN deviceMap.found
       /\ \A name \in DOMAIN deviceMap.found :
            \/ name \in names \cup DOMAIN added \cup fatals
            \/ name \in DOMAIN setup.file /\ setup.file[name].type \in {"L1DDC", "RimL1DDC"}
  /\ \A name \in DOMAIN added :
       Agrees(setup.file[name], added[name], deviceMap.found, name)

ReaderInv ==
  /\ setup \in Setups /\ ReaderTypeOK
  /\ deviceMap = [thrown |-> deviceMap.thrown, found |-> deviceMap.found]
  /\ deviceMap.thrown \in BOOLEAN
  /\ OnEnabledPaths /\ NothingLost /\ ReadSoFar

LEMMA FirstAndRest ==
  ASSUME NEW S, NEW s \in Seq(S), s # << >>
  PROVE  /\ Head(s) \in S /\ Tail(s) \in Seq(S)
         /\ Range(s) = {Head(s)} \cup Range(Tail(s))
<1>1. Len(s) \in Nat /\ Len(s) > 0 /\ DOMAIN s = 1..Len(s)
  BY EmptySeq
<1>2. Head(s) = s[1] /\ Head(s) \in S
  BY <1>1
<1>3. /\ Tail(s) \in Seq(S) /\ Len(Tail(s)) = Len(s) - 1
      /\ \A k \in 1..Len(s) - 1 : Tail(s)[k] = s[k + 1]
  BY <1>1, HeadTailProperties
<1>4. DOMAIN Tail(s) = 1..Len(s) - 1
  BY <1>3
<1>5. ASSUME NEW k \in 1..Len(s)
      PROVE  s[k] \in {Head(s)} \cup Range(Tail(s))
  <2>1. CASE k = 1
    BY <1>2, <2>1
  <2>2. CASE k # 1
    <3>1. k - 1 \in 1..Len(s) - 1 /\ s[k] = Tail(s)[k - 1]
      BY <1>1, <1>3, <2>2
    <3> QED
      BY <1>4, <3>1 DEF Range
  <2> QED
    BY <2>1, <2>2
<1>6. ASSUME NEW k \in 1..Len(s) - 1
      PROVE  Tail(s)[k] \in Range(s)
  BY <1>1, <1>3 DEF Range
<1>7. Head(s) \in Range(s)
  BY <1>1, <1>2 DEF Range
<1>8. Range(s) \subseteq {Head(s)} \cup Range(Tail(s))
  BY <1>1, <1>5 DEF Range
<1>9. Range(Tail(s)) \subseteq Range(s)
  BY <1>4, <1>6 DEF Range
<1> QED
  BY <1>2, <1>3, <1>7, <1>8, <1>9

LEMMA Between ==
  ASSUME NEW S, NEW s \in Seq(S), NEW x \in S, NEW t \in Seq(S)
  PROVE  /\ s \o <<x>> \o t \in Seq(S)
         /\ Range(s \o <<x>> \o t) = Range(s) \cup {x} \cup Range(t)
<1> DEFINE one == <<x>>
<1>1. one \in Seq(S) /\ Range(one) = {x}
  BY DEF Range
<1> HIDE DEF one
<1> DEFINE both == s \o one
<1>2. both \in Seq(S) /\ Range(both) = Range(s) \cup {x}
  BY <1>1, RangeConcatenation, ConcatProperties
<1> HIDE DEF both
<1>3. both \o t \in Seq(S) /\ Range(both \o t) = Range(both) \cup Range(t)
  BY <1>2, RangeConcatenation, ConcatProperties
<1> QED
  BY <1>2, <1>3 DEF both, one

\* A call of parseDeviceMap has the resources before it, and nothing open.
Items == [resource : DOMAIN setup.resources, back : BOOLEAN]
LEMMA CallIs ==
  ASSUME NEW R, NEW contains \in Seq(R)
  PROVE  /\ parseDeviceMap(contains) \in Seq([resource : R, back : BOOLEAN])
         /\ Range(parseDeviceMap(contains)) =
              {[resource |-> i, back |-> FALSE] : i \in Range(contains)}
<1>1. /\ Len(contains) \in Nat /\ DOMAIN contains = 1..Len(contains)
      /\ \A k \in 1..Len(contains) : contains[k] \in R
  OBVIOUS
<1>2. \A k \in 1..Len(contains) :
        [resource |-> contains[k], back |-> FALSE] \in [resource : R, back : BOOLEAN]
  BY <1>1
<1>3. parseDeviceMap(contains) = [k \in 1..Len(contains) |-> [resource |-> contains[k], back |-> FALSE]]
  BY DEF parseDeviceMap
<1>4. parseDeviceMap(contains) \in [1..Len(contains) -> [resource : R, back : BOOLEAN]]
  BY <1>2, <1>3
<1>5. parseDeviceMap(contains) \in Seq([resource : R, back : BOOLEAN])
  <2> DEFINE T == [resource : R, back : BOOLEAN]
  <2> HIDE DEF T
  <2>1. [1..Len(contains) -> T] \subseteq Seq(T)
    BY <1>1, SeqDef
  <2> QED
    BY <1>4, <2>1 DEF T
<1>6. DOMAIN parseDeviceMap(contains) = 1..Len(contains)
  BY <1>3
<1>7. ASSUME NEW x
      PROVE  x \in Range(parseDeviceMap(contains))
               <=> \E i \in Range(contains) : x = [resource |-> i, back |-> FALSE]
  BY <1>1, <1>3, <1>6 DEF Range
<1> QED
  BY <1>5, <1>7

LEMMA ReachedCloses ==
  /\ Reached \subseteq DOMAIN setup.resources
  /\ Range(setup.contains) \cap DOMAIN setup.resources \subseteq Reached
  /\ \A i \in Reached : ~Of(i).off =>
       Range(Of(i).contains) \cap DOMAIN setup.resources \subseteq Reached
  /\ \A seen \in SUBSET DOMAIN setup.resources : Within(seen) => Reached \subseteq seen
BY DEF Reached, Within, Of

LEMMA ReaderInvInit == ReaderInit => ReaderInv
<1> SUFFICES ASSUME ReaderInit
             PROVE  ReaderInv
  OBVIOUS
<1> USE DEF ReaderInit
<1>1. DOMAIN NoElements = {} /\ deviceMap = [thrown |-> FALSE, found |-> NoElements]
  BY DEF NoElements, NoDevices
<1>2. Range(ahead) = {}
  BY DEF Range
<1>3. ReaderTypeOK
  BY <1>1, EmptySeq DEF ReaderTypeOK
<1>4. OnEnabledPaths
  BY <1>1, <1>2 DEF OnEnabledPaths, Met, Open
<1>5. NothingLost /\ ReadSoFar
  BY <1>1 DEF NothingLost, ReadSoFar
<1> QED
  BY <1>1, <1>3, <1>4, <1>5 DEF ReaderInv

\* With the same setup resources are the same.
LEMMA SameSetup ==
  ASSUME setup' = setup
  PROVE  /\ Reached' = Reached /\ WithMap' = WithMap
         /\ \A i : Of(i)' = Of(i) /\ Name(i)' = Name(i) /\ IsDevice(i)' = IsDevice(i)
<1>1. Reached' = Reached
  BY DEF Reached, Within
<1> QED
  BY <1>1 DEF WithMap, Of, Name, IsDevice, NameOf

\* The first of what is ahead, and the rest.
LEMMA FirstAhead ==
  ASSUME ReaderInv, ahead # << >>
  PROVE  /\ Head(ahead).resource \in DOMAIN setup.resources /\ Head(ahead).back \in BOOLEAN
         /\ Head(ahead) = [resource |-> Head(ahead).resource, back |-> Head(ahead).back]
         /\ Tail(ahead) \in Seq(Items)
         /\ \A x : x \in Range(ahead) <=> x = Head(ahead) \/ x \in Range(Tail(ahead))
         /\ Head(ahead).resource \in Reached
         /\ Head(ahead).back => ~Of(Head(ahead).resource).off
<1>1. ahead \in Seq(Items)
  BY DEF ReaderInv, ReaderTypeOK, Items
<1>2. Head(ahead) \in Items /\ Tail(ahead) \in Seq(Items)
      /\ Range(ahead) = {Head(ahead)} \cup Range(Tail(ahead))
  BY <1>1, FirstAndRest
<1>3. /\ Head(ahead).resource \in DOMAIN setup.resources /\ Head(ahead).back \in BOOLEAN
      /\ Head(ahead) = [resource |-> Head(ahead).resource, back |-> Head(ahead).back]
  BY <1>2 DEF Items
<1>4. Head(ahead).back => Open(Head(ahead).resource)
  BY <1>2, <1>3 DEF Open
<1>5. ~Head(ahead).back => Met(Head(ahead).resource)
  BY <1>2, <1>3 DEF Met
<1> QED
  BY <1>2, <1>3, <1>4, <1>5 DEF ReaderInv, OnEnabledPaths

LEMMA SameItem ==
  \A j, k : \A a, b \in BOOLEAN :
    [resource |-> j, back |-> a] = [resource |-> k, back |-> b] <=> j = k /\ a = b
<1> SUFFICES ASSUME NEW j, NEW k, NEW a \in BOOLEAN, NEW b \in BOOLEAN,
                    [resource |-> j, back |-> a] = [resource |-> k, back |-> b]
             PROVE  j = k /\ a = b
  OBVIOUS
<1>1. [resource |-> j, back |-> a].resource = [resource |-> k, back |-> b].resource
      /\ [resource |-> j, back |-> a].back = [resource |-> k, back |-> b].back
  OBVIOUS
<1> QED
  BY <1>1

LEMMA StepStart == ReaderInv /\ readConf => ReaderInv'
<1> SUFFICES ASSUME ReaderInv, readConf
             PROVE  ReaderInv'
  OBVIOUS
<1> USE DEF readConf
<1>1. setup \in Setups /\ setup' = setup /\ deviceMap' = deviceMap
  BY DEF ReaderInv
<1>2. setup.contains \in Seq(DOMAIN setup.resources)
  BY <1>1, SetupFacts
<1>3. /\ ahead' \in Seq(Items)
      /\ Range(ahead') = {[resource |-> i, back |-> FALSE] : i \in Range(setup.contains)}
  BY <1>2, CallIs DEF Items
<1>4. Range(setup.contains) \subseteq DOMAIN setup.resources
  BY <1>2, RangeOfSeq
<1>5. \A i : (Met(i)' <=> i \in Range(setup.contains)) /\ ~Open(i)'
  BY <1>3 DEF Met, Open
<1>6. ReaderTypeOK'
  BY <1>1, <1>3 DEF ReaderInv, ReaderTypeOK, Items
<1>7. OnEnabledPaths'
  <2>1. Range(setup.contains) \subseteq Reached
    BY <1>4, ReachedCloses
  <2>2. \A i \in DOMAIN setup.resources : Met(i)' => i \in Reached
    BY <1>5, <2>1
  <2> QED
    BY <1>1, <1>5, <2>2, SameSetup DEF OnEnabledPaths, ReaderInv
<1>8. NothingLost'
  <2>1. AllSeen({})'
    BY <1>1, <1>5 DEF AllSeen
  <2> QED
    BY <1>1, <2>1 DEF NothingLost
<1>9. ReadSoFar'
  <2>1. names' = {} /\ added' = NoElements /\ fatals' = {} /\ progress' = "parsing"
    BY DEF ReaderInv, ReadSoFar
  <2> QED
    BY <2>1 DEF ReadSoFar, NoElements
<1> QED
  BY <1>1, <1>6, <1>7, <1>8, <1>9 DEF ReaderInv

\* While the hierarchy is read nothing else is.
LEMMA NothingReadYet ==
  ASSUME ReaderInv, progress = "parsing", UNCHANGED <<setup, progress, names, added, fatals>>,
         ahead' \in Seq(Items)
  PROVE  ReaderTypeOK' /\ ReadSoFar' /\ setup' \in Setups
<1>1. names = {} /\ added = NoElements /\ fatals = {} /\ setup \in Setups
  BY DEF ReaderInv, ReadSoFar
<1>2. ReaderTypeOK'
  BY DEF ReaderInv, ReaderTypeOK, Items
<1> QED
  BY <1>1, <1>2 DEF ReadSoFar, NoElements

LEMMA StepLook == ReaderInv /\ LookAtResource => ReaderInv'
<1> SUFFICES ASSUME ReaderInv, LookAtResource
             PROVE  ReaderInv'
  OBVIOUS
<1>1. /\ progress = "parsing" /\ ahead # << >> /\ ~Head(ahead).back
      /\ UNCHANGED <<setup, progress, names, added, fatals>>
  BY DEF LookAtResource
<1>4. PICK i \in DOMAIN setup.resources :
        /\ i \in Reached /\ i = Head(ahead).resource
        /\ Head(ahead) = [resource |-> i, back |-> FALSE]
        /\ Tail(ahead) \in Seq(Items)
        /\ \A x : x \in Range(ahead) <=> x = Head(ahead) \/ x \in Range(Tail(ahead))
  <2>1. Head(ahead).back = FALSE
    BY <1>1, FirstAhead
  <2> QED
    BY <1>1, <2>1, FirstAhead
<1>2. Resource = Of(i)
  BY <1>4 DEF Resource, Of
<1>3. \/ /\ Of(i).off /\ ahead' = Tail(ahead) /\ deviceMap' = deviceMap
      \/ /\ ~Of(i).off /\ ahead' = << >>
         /\ deviceMap' = [deviceMap EXCEPT !.thrown = TRUE]
      \/ /\ ~Of(i).off /\ deviceMap' = deviceMap
         /\ ahead' = parseDeviceMap(Of(i).contains)
                       \o <<[resource |-> Head(ahead).resource, back |-> TRUE]>> \o Tail(ahead)
  BY <1>2 DEF LookAtResource
<1>5. /\ deviceMap = [thrown |-> deviceMap.thrown, found |-> deviceMap.found]
      /\ deviceMap.thrown \in BOOLEAN /\ setup \in Setups
  BY DEF ReaderInv
<1>6. Reached \subseteq DOMAIN setup.resources
  BY ReachedCloses
<1>7. CASE Of(i).off /\ ahead' = Tail(ahead) /\ deviceMap' = deviceMap
  <2>1. ReaderTypeOK' /\ ReadSoFar' /\ setup' \in Setups
    BY <1>1, <1>4, <1>7, NothingReadYet
  <2>2. /\ \A k : Met(k) <=> k = i \/ Met(k)'
        /\ \A k : Open(k) <=> Open(k)'
    BY <1>4, <1>7, SameItem DEF Met, Open
  <2>3. OnEnabledPaths'
    BY <1>1, <1>7, <2>2, SameSetup DEF OnEnabledPaths, ReaderInv
  <2>4. NothingLost'
    <3>1. ASSUME ~deviceMap.thrown
          PROVE  \E seen \in SUBSET DOMAIN setup.resources : AllSeen(seen)'
      <4>1. PICK seen \in SUBSET DOMAIN setup.resources : AllSeen(seen)
        BY <1>1, <3>1 DEF ReaderInv, NothingLost
      <4>2. AllSeen(seen \cup {i})'
        <5>1. \A k \in Range(setup.contains) : k \in seen \cup {i} \/ Met(k)'
          BY <2>2, <4>1 DEF AllSeen
        <5>2. \A j \in seen : ~Of(j).off => \A k \in Range(Of(j).contains) :
                                              k \in seen \cup {i} \/ Met(k)'
          BY <2>2, <4>1 DEF AllSeen
        <5>3. \A j \in seen : IsDevice(j) => Name(j) \in DOMAIN deviceMap'.found \/ Open(j)'
          BY <1>7, <2>2, <4>1 DEF AllSeen
        <5>4. ~IsDevice(i)
          BY <1>7 DEF IsDevice
        <5> QED
          BY <1>1, <1>7, <5>1, <5>2, <5>3, <5>4, SameSetup DEF AllSeen
      <4> QED
        BY <1>4, <4>2
    <3> QED
      BY <1>1, <1>7, <3>1 DEF NothingLost
  <2> QED
    BY <1>5, <1>7, <2>1, <2>3, <2>4 DEF ReaderInv
<1>8. CASE ~Of(i).off /\ ahead' = << >> /\ deviceMap' = [deviceMap EXCEPT !.thrown = TRUE]
  <2>1. deviceMap' = [thrown |-> TRUE, found |-> deviceMap.found]
    BY <1>5, <1>8
  <2>2. ReaderTypeOK' /\ ReadSoFar' /\ setup' \in Setups
    BY <1>1, <1>8, NothingReadYet, EmptySeq
  <2>3. Range(ahead') = {}
    BY <1>8 DEF Range
  <2>4. OnEnabledPaths'
    BY <1>1, <2>1, <2>3, SameSetup DEF OnEnabledPaths, ReaderInv, Met, Open
  <2>5. NothingLost'
    BY <2>1 DEF NothingLost
  <2> QED
    BY <2>1, <2>2, <2>4, <2>5 DEF ReaderInv
<1>9. CASE /\ ~Of(i).off /\ deviceMap' = deviceMap
           /\ ahead' = parseDeviceMap(Of(i).contains)
                         \o <<[resource |-> Head(ahead).resource, back |-> TRUE]>> \o Tail(ahead)
  <2> DEFINE call == parseDeviceMap(Of(i).contains)
             item == [resource |-> i, back |-> TRUE]
  <2>1. Of(i).contains \in Seq(DOMAIN setup.resources)
    BY <1>4, <1>5, SetupFacts DEF Of
  <2>2. /\ call \in Seq(Items)
        /\ Range(call) = {[resource |-> k, back |-> FALSE] : k \in Range(Of(i).contains)}
    BY <2>1, CallIs DEF Items
  <2>3. [resource |-> Head(ahead).resource, back |-> TRUE] = item
    BY <1>4
  <2>4. item \in Items
    BY DEF Items
  <2> HIDE DEF call, item
  <2>5. ahead' = call \o <<item>> \o Tail(ahead)
    BY <1>9, <2>3 DEF call
  <2> DEFINE rest == Tail(ahead)
  <2>6. rest \in Seq(Items)
    BY <1>4
  <2> HIDE DEF rest
  <2>7. /\ call \o <<item>> \o rest \in Seq(Items)
        /\ Range(call \o <<item>> \o rest) = Range(call) \cup {item} \cup Range(rest)
    BY <2>2, <2>4, <2>6, Between
  <2>8. /\ ahead' \in Seq(Items)
        /\ Range(ahead') = Range(call) \cup {item} \cup Range(Tail(ahead))
    BY <2>5, <2>7 DEF rest
  <2>9. ReaderTypeOK' /\ ReadSoFar' /\ setup' \in Setups
    BY <1>1, <2>8, NothingReadYet
  <2>10. \A k : Met(k)' <=> k \in Range(Of(i).contains)
                              \/ [resource |-> k, back |-> FALSE] \in Range(Tail(ahead))
    <3>1. \A k : [resource |-> k, back |-> FALSE] \in Range(call) <=> k \in Range(Of(i).contains)
      BY <2>2, SameItem
    <3>2. \A k : [resource |-> k, back |-> FALSE] # item
      BY SameItem DEF item
    <3> QED
      BY <2>8, <3>1, <3>2 DEF Met
  <2>11. \A k : Met(k) <=> k = i \/ [resource |-> k, back |-> FALSE] \in Range(Tail(ahead))
    BY <1>4, SameItem DEF Met
  <2>12. \A k : Open(k)' <=> k = i \/ [resource |-> k, back |-> TRUE] \in Range(Tail(ahead))
    <3>1. \A k : [resource |-> k, back |-> TRUE] \notin Range(call)
      BY <2>2, SameItem
    <3>2. \A k : [resource |-> k, back |-> TRUE] = item <=> k = i
      BY SameItem DEF item
    <3> QED
      BY <2>8, <3>1, <3>2 DEF Open
  <2>13. \A k : Open(k) <=> [resource |-> k, back |-> TRUE] \in Range(Tail(ahead))
    BY <1>4, SameItem DEF Open
  <2>14. OnEnabledPaths'
    <3>1. Range(Of(i).contains) \subseteq DOMAIN setup.resources
      BY <2>1, RangeOfSeq
    <3>2. Range(Of(i).contains) \subseteq Reached
      BY <1>4, <1>9, <3>1, ReachedCloses
    <3>3. ASSUME NEW k \in DOMAIN setup.resources
          PROVE  /\ Met(k)' => k \in Reached
                 /\ Open(k)' => k \in Reached /\ ~Of(k).off
      BY <1>4, <1>9, <2>10, <2>11, <2>12, <2>13, <3>2 DEF OnEnabledPaths, ReaderInv
    <3> QED
      BY <1>1, <1>9, <3>3, SameSetup DEF OnEnabledPaths, ReaderInv
  <2>15. NothingLost'
    <3>1. ASSUME ~deviceMap.thrown
          PROVE  \E seen \in SUBSET DOMAIN setup.resources : AllSeen(seen)'
      <4>1. PICK seen \in SUBSET DOMAIN setup.resources : AllSeen(seen)
        BY <1>1, <3>1 DEF ReaderInv, NothingLost
      <4>2. AllSeen(seen \cup {i})'
        <5>1. \A k \in Range(setup.contains) : k \in seen \cup {i} \/ Met(k)'
          BY <2>10, <2>11, <4>1 DEF AllSeen
        <5>2. \A j \in seen : ~Of(j).off => \A k \in Range(Of(j).contains) :
                                              k \in seen \cup {i} \/ Met(k)'
          BY <2>10, <2>11, <4>1 DEF AllSeen
        <5>3. \A k \in Range(Of(i).contains) : Met(k)'
          BY <2>10
        <5>4. \A j \in seen \cup {i} :
                IsDevice(j) => Name(j) \in DOMAIN deviceMap'.found \/ Open(j)'
          BY <1>9, <2>12, <2>13, <4>1 DEF AllSeen
        <5> QED
          BY <1>1, <5>1, <5>2, <5>3, <5>4, SameSetup DEF AllSeen
      <4> QED
        BY <1>4, <4>2
    <3> QED
      BY <1>1, <1>9, <3>1 DEF NothingLost
  <2> QED
    BY <1>5, <1>9, <2>9, <2>14, <2>15 DEF ReaderInv
<1> QED
  BY <1>3, <1>7, <1>8, <1>9

LEMMA StepAdd == ReaderInv /\ AddResource => ReaderInv'
<1> SUFFICES ASSUME ReaderInv, AddResource
             PROVE  ReaderInv'
  OBVIOUS
<1> DEFINE known == DOMAIN deviceMap.found
<1>1. /\ progress = "parsing" /\ ahead # << >> /\ Head(ahead).back /\ ahead' = Tail(ahead)
      /\ UNCHANGED <<setup, progress, names, added, fatals>>
  BY DEF AddResource
<1>4. PICK i \in DOMAIN setup.resources :
        /\ i \in Reached /\ i = Head(ahead).resource /\ ~Of(i).off
        /\ Head(ahead) = [resource |-> i, back |-> TRUE]
        /\ Tail(ahead) \in Seq(Items)
        /\ \A x : x \in Range(ahead) <=> x = Head(ahead) \/ x \in Range(Tail(ahead))
  <2>1. Head(ahead).back = TRUE
    BY <1>1, FirstAhead
  <2> QED
    BY <1>1, <2>1, FirstAhead
<1>2. Resource = Of(i) /\ NameOf(Resource, setup.json) = Name(i)
  BY <1>4 DEF Resource, Of, Name
<1>3. IF Of(i).class = "" \/ Name(i) \in known THEN deviceMap' = deviceMap
      ELSE deviceMap' = [deviceMap EXCEPT !.found =
             [n \in known \cup {Name(i)} |->
                IF n = Name(i) THEN SubDevices(Of(i)) ELSE deviceMap.found[n]]]
  BY <1>2 DEF AddResource
<1>5. /\ deviceMap = [thrown |-> deviceMap.thrown, found |-> deviceMap.found]
      /\ deviceMap.thrown \in BOOLEAN /\ setup \in Setups
  BY DEF ReaderInv
<1>6. ReaderTypeOK' /\ ReadSoFar' /\ setup' \in Setups
  BY <1>1, <1>4, NothingReadYet
<1>7. /\ \A k : Met(k) <=> Met(k)'
      /\ \A k : Open(k) <=> k = i \/ Open(k)'
  BY <1>1, <1>4, SameItem DEF Met, Open
<1>8. /\ deviceMap' = [thrown |-> deviceMap.thrown, found |-> deviceMap'.found]
      /\ \A n \in known : n \in DOMAIN deviceMap'.found
                            /\ deviceMap'.found[n] = deviceMap.found[n]
      /\ \A n \in DOMAIN deviceMap'.found :
           \/ n \in known
           \/ IsDevice(i) /\ n = Name(i) /\ deviceMap'.found[n] = SubDevices(Of(i))
      /\ IsDevice(i) => Name(i) \in DOMAIN deviceMap'.found
  <2>1. CASE Of(i).class = "" \/ Name(i) \in known
    BY <1>3, <1>5, <2>1 DEF IsDevice
  <2>2. CASE ~(Of(i).class = "" \/ Name(i) \in known)
    <3>1. deviceMap' = [thrown |-> deviceMap.thrown,
                        found |-> [n \in known \cup {Name(i)} |->
                          IF n = Name(i) THEN SubDevices(Of(i)) ELSE deviceMap.found[n]]]
      BY <1>3, <1>5, <2>2
    <3> QED
      BY <1>4, <2>2, <3>1 DEF IsDevice
  <2> QED
    BY <2>1, <2>2
<1>9. OnEnabledPaths'
  <2>1. ASSUME NEW name \in DOMAIN deviceMap'.found
        PROVE  \E k \in Reached : /\ IsDevice(k) /\ name = Name(k)
                                  /\ deviceMap'.found[name] = SubDevices(Of(k))
    BY <1>4, <1>8 DEF OnEnabledPaths, ReaderInv
  <2>2. \A k \in DOMAIN setup.resources :
          /\ Met(k)' => k \in Reached
          /\ Open(k)' => k \in Reached /\ ~Of(k).off
    BY <1>7 DEF OnEnabledPaths, ReaderInv
  <2> QED
    BY <1>1, <2>1, <2>2, SameSetup DEF OnEnabledPaths
<1>10. NothingLost'
  <2>1. ASSUME ~deviceMap.thrown
        PROVE  \E seen \in SUBSET DOMAIN setup.resources : AllSeen(seen)'
    <3>1. PICK seen \in SUBSET DOMAIN setup.resources : AllSeen(seen)
      BY <1>1, <2>1 DEF ReaderInv, NothingLost
    <3>2. \A j \in seen : IsDevice(j) => Name(j) \in DOMAIN deviceMap'.found \/ Open(j)'
      BY <1>7, <1>8, <3>1 DEF AllSeen
    <3>3. AllSeen(seen)'
      BY <1>1, <1>7, <3>1, <3>2, SameSetup DEF AllSeen
    <3> QED
      BY <3>3
  <2> QED
    BY <1>1, <1>8, <2>1 DEF NothingLost
<1> QED
  BY <1>5, <1>6, <1>8, <1>9, <1>10 DEF ReaderInv

\* When nothing is ahead, all that is enabled with what contains it has been seen.
LEMMA AllFound ==
  ASSUME ReaderInv, progress = "parsing", ahead = << >>, ~deviceMap.thrown
  PROVE  \A i \in Reached : IsDevice(i) => Name(i) \in DOMAIN deviceMap.found
<1>1. PICK seen \in SUBSET DOMAIN setup.resources : AllSeen(seen)
  BY DEF ReaderInv, NothingLost
<1>2. \A i : ~Met(i) /\ ~Open(i)
  BY DEF Met, Open, Range
<1>3. Within(seen)
  BY <1>1, <1>2 DEF AllSeen, Within, Of
<1>4. Reached \subseteq seen
  BY <1>3, ReachedCloses
<1> QED
  BY <1>1, <1>2, <1>4 DEF AllSeen

LEMMA StepValidate == ReaderInv /\ validateDeviceMap => ReaderInv'
<1> SUFFICES ASSUME ReaderInv, validateDeviceMap
             PROVE  ReaderInv'
  OBVIOUS
<1> DEFINE all == IF WithMap THEN DOMAIN deviceMap.found ELSE DOMAIN setup.file
<1>1. /\ progress = "parsing" /\ ahead = << >> /\ ahead' = ahead
      /\ UNCHANGED <<setup, deviceMap, added, fatals>>
      /\ \/ all \subseteq DOMAIN setup.file /\ progress' = "reading" /\ names' = all
         \/ progress' = "thrown" /\ names' = {}
  BY DEF validateDeviceMap
<1>2. names = {} /\ added = NoElements /\ fatals = {} /\ DOMAIN added = {}
  BY <1>1 DEF ReaderInv, ReadSoFar, NoElements
<1>3. ReaderTypeOK'
  BY <1>1, <1>2 DEF ReaderInv, ReaderTypeOK
<1>4. OnEnabledPaths'
  BY <1>1, SameSetup DEF ReaderInv, OnEnabledPaths, Met, Open
<1>5. NothingLost'
  BY <1>1, AllFound, SameSetup DEF NothingLost
<1>6. ReadSoFar'
  BY <1>1, <1>2, SameSetup DEF ReadSoFar, NoElements
<1> QED
  BY <1>1, <1>3, <1>4, <1>5, <1>6 DEF ReaderInv

\* Once the map is complete it and what it says stay.
LEMMA SameMap ==
  ASSUME ReaderInv, progress \in {"reading", "read"}, progress' \in {"reading", "read"},
         UNCHANGED <<setup, ahead, deviceMap>>
  PROVE  OnEnabledPaths' /\ NothingLost'
<1>1. OnEnabledPaths'
  BY SameSetup DEF ReaderInv, OnEnabledPaths, Met, Open
<1>2. NothingLost'
  BY SameSetup DEF ReaderInv, NothingLost
<1> QED
  BY <1>1, <1>2

LEMMA StepRead == ReaderInv /\ readConfigurationResource => ReaderInv'
<1> SUFFICES ASSUME ReaderInv, readConfigurationResource
             PROVE  ReaderInv'
  OBVIOUS
<1> DEFINE choice == CHOOSE n \in names : TRUE
<1>1. choice \in names
  BY DEF readConfigurationResource
<1>2. /\ progress = "reading" /\ names' = names \ {choice}
      /\ UNCHANGED <<setup, progress, ahead, deviceMap>>
      /\ IF setup.file[choice].type \in {"L1DDC", "RimL1DDC"} THEN UNCHANGED <<added, fatals>>
         ELSE IF read(choice, WithMap, deviceMap.found).thrown
         THEN fatals' = fatals \cup {choice} /\ added' = added
         ELSE /\ fatals' = fatals
              /\ added' = [n \in DOMAIN added \cup {choice} |->
                   IF n = choice THEN read(choice, WithMap, deviceMap.found).parts ELSE added[n]]
  BY DEF readConfigurationResource
<1> HIDE DEF choice
<1>3. PICK name \in names : name = choice
  BY <1>1
<1>4. WithMap' = WithMap /\ WithMap \in BOOLEAN
  BY <1>2 DEF WithMap
<1>5. \A n \in DOMAIN added :
         Agrees(setup.file[n], added[n], deviceMap.found, n)
  BY DEF ReaderInv, ReadSoFar
<1>6. name \in DOMAIN setup.file
  BY DEF ReaderInv, ReaderTypeOK
<1>7. ~read(name, WithMap, deviceMap.found).thrown =>
         Agrees(setup.file[name], read(name, WithMap, deviceMap.found).parts, deviceMap.found, name)
  <2>1. ASSUME WithMap, name \in DOMAIN deviceMap.found, setup.file[name].type \in FebTypes,
               NEW v \in 0..7, <<"VMM", v>> \in deviceMap.found[name]
        PROVE  v \in VmmsOf(setup.file[name].type)
    <3>1. PICK i \in Reached : /\ IsDevice(i) /\ name = Name(i)
                               /\ deviceMap.found[name] = SubDevices(Of(i))
      BY <2>1 DEF ReaderInv, OnEnabledPaths
    <3>2. i \in DOMAIN setup.resources
      BY ReachedCloses
    <3>3. name = Of(i).name
      BY <1>6, <3>1, SetupFacts DEF ReaderInv, Name, NameOf
    <3>4. <<"VMM", v>> \in Of(i).devices
      BY <2>1, <3>1 DEF SubDevices, PseudoDevices
    <3> QED
      BY <1>6, <2>1, <3>2, <3>3, <3>4, SetupFacts DEF ReaderInv, Of
  <2> QED
    BY <1>4, <1>6, <2>1, ReadAgrees DEF ReaderInv, Agrees
<1>8. ReaderTypeOK' /\ ReadSoFar'
  <2>1. /\ names \cup DOMAIN added \cup fatals \subseteq DOMAIN setup.file
        /\ fatals \cap DOMAIN added = {} /\ names \cap (DOMAIN added \cup fatals) = {}
    BY DEF ReaderInv, ReaderTypeOK
  <2>2. CASE setup.file[name].type \in {"L1DDC", "RimL1DDC"}
    <3>1. UNCHANGED <<added, fatals>>
      BY <1>2, <1>3, <2>2
    <3>2. ReaderTypeOK'
      BY <1>2, <1>3, <2>1, <3>1 DEF ReaderInv, ReaderTypeOK
    <3>3. ReadSoFar'
      BY <1>2, <1>3, <1>4, <1>5, <1>6, <2>1, <2>2, <3>1 DEF ReaderInv, ReadSoFar, Agrees
    <3> QED
      BY <3>2, <3>3
  <2>3. CASE /\ setup.file[name].type \notin {"L1DDC", "RimL1DDC"}
             /\ read(name, WithMap, deviceMap.found).thrown
    <3>1. fatals' = fatals \cup {name} /\ added' = added
      BY <1>2, <1>3, <2>3
    <3>2. ReaderTypeOK'
      BY <1>2, <1>3, <2>1, <3>1 DEF ReaderInv, ReaderTypeOK
    <3>3. ReadSoFar'
      BY <1>2, <1>3, <1>4, <1>5, <2>1, <3>1 DEF ReaderInv, ReadSoFar, Agrees
    <3> QED
      BY <3>2, <3>3
  <2>4. CASE /\ setup.file[name].type \notin {"L1DDC", "RimL1DDC"}
             /\ ~read(name, WithMap, deviceMap.found).thrown
    <3>1. /\ fatals' = fatals
          /\ added' = [n \in DOMAIN added \cup {name} |->
               IF n = name THEN read(name, WithMap, deviceMap.found).parts ELSE added[n]]
      BY <1>2, <1>3, <2>4
    <3>2. /\ DOMAIN added' = DOMAIN added \cup {name}
          /\ added'[name] = read(name, WithMap, deviceMap.found).parts
          /\ \A n \in DOMAIN added : n # name => added'[n] = added[n]
      BY <3>1
    <3>3. ReaderTypeOK'
      BY <1>2, <1>3, <2>1, <3>1, <3>2 DEF ReaderInv, ReaderTypeOK
    <3>4. ReadSoFar'
      BY <1>2, <1>3, <1>4, <1>5, <1>7, <2>1, <2>4, <3>1, <3>2 DEF ReaderInv, ReadSoFar, Agrees
    <3> QED
      BY <3>3, <3>4
  <2> QED
    BY <2>2, <2>3, <2>4
<1>9. OnEnabledPaths' /\ NothingLost'
  BY <1>2, SameMap
<1> QED
  BY <1>2, <1>8, <1>9 DEF ReaderInv

LEMMA StepEnd == ReaderInv /\ EndReading => ReaderInv'
<1> SUFFICES ASSUME ReaderInv, EndReading
             PROVE  ReaderInv'
  OBVIOUS
<1>1. /\ progress = "reading" /\ names = {} /\ progress' = "read"
      /\ UNCHANGED <<setup, ahead, deviceMap, names, added, fatals>>
  BY DEF EndReading
<1>2. OnEnabledPaths' /\ NothingLost'
  BY <1>1, SameMap
<1>3. ReaderTypeOK'
  BY <1>1 DEF ReaderInv, ReaderTypeOK
<1>5. ReadSoFar'
  BY <1>1, SameSetup DEF ReaderInv, ReadSoFar, Agrees
<1> QED
  BY <1>1, <1>2, <1>3, <1>5 DEF ReaderInv

LEMMA ReaderInvStep == ReaderInv /\ [ReaderNext]_readerVars => ReaderInv'
<1> SUFFICES ASSUME ReaderInv, [ReaderNext]_readerVars
             PROVE  ReaderInv'
  OBVIOUS
<1>1. CASE readConf
  BY <1>1, StepStart
<1>2. CASE LookAtResource
  BY <1>2, StepLook
<1>3. CASE AddResource
  BY <1>3, StepAdd
<1>4. CASE validateDeviceMap
  BY <1>4, StepValidate
<1>5. CASE readConfigurationResource
  BY <1>5, StepRead
<1>6. CASE EndReading
  BY <1>6, StepEnd
<1>7. CASE UNCHANGED readerVars
  <2>1. UNCHANGED <<setup, progress, ahead, deviceMap, names, added, fatals>>
    BY <1>7 DEF readerVars
  <2>2. ReaderTypeOK' /\ setup' \in Setups
    BY <2>1 DEF ReaderInv, ReaderTypeOK
  <2>3. OnEnabledPaths'
    BY <2>1, SameSetup DEF ReaderInv, OnEnabledPaths, Met, Open
  <2>4. NothingLost'
    <3>1. \A seen : AllSeen(seen) => AllSeen(seen)'
      BY <2>1, SameSetup DEF AllSeen, Met, Open
    <3> QED
      BY <2>1, <3>1, SameSetup DEF ReaderInv, NothingLost
  <2>5. ReadSoFar'
    BY <2>1, SameSetup DEF ReaderInv, ReadSoFar, Agrees
  <2> QED
    BY <2>1, <2>2, <2>3, <2>4, <2>5 DEF ReaderInv
<1> QED
  BY <1>1, <1>2, <1>3, <1>4, <1>5, <1>6, <1>7 DEF ReaderNext

LEMMA ReaderInvAgrees == ReaderInv => ReaderAgrees
<1> SUFFICES ASSUME ReaderInv
             PROVE  ReaderAgrees
  OBVIOUS
<1>1. /\ names \cup DOMAIN added \cup fatals \subseteq DOMAIN setup.file
      /\ progress = "read" => names = {}
      /\ setup \in Setups
  BY DEF ReaderInv, ReaderTypeOK
<1>2. \A i \in Reached : IsDevice(i) => Of(i).name \in Enabled
  BY DEF Enabled, IsDevice, Of
<1>3. \A i \in Reached : Name(i) \in DOMAIN setup.file => Name(i) = Of(i).name
  BY <1>1, SetupFacts DEF Name, NameOf
<1>4. ASSUME NEW name \in DOMAIN added
      PROVE  /\ WithMap => name \in Enabled
             /\ Agrees(setup.file[name], added[name], deviceMap.found, name)
  <2>1. Agrees(setup.file[name], added[name], deviceMap.found, name)
    BY DEF ReaderInv, ReadSoFar
  <2>2. progress \in {"reading", "read"}
    BY DEF ReaderInv, ReadSoFar, NoElements
  <2>3. ASSUME WithMap
        PROVE  name \in Enabled
    <3>1. name \in DOMAIN deviceMap.found
      BY <2>2, <2>3 DEF ReaderInv, ReadSoFar
    <3>2. PICK i \in Reached : IsDevice(i) /\ name = Name(i)
      BY <3>1 DEF ReaderInv, OnEnabledPaths
    <3> QED
      BY <1>1, <1>2, <1>3, <3>2
  <2> QED
    BY <2>1, <2>3
<1>5. ASSUME progress = "read", WithMap, ~deviceMap.thrown,
             NEW name \in Enabled \cap DOMAIN setup.file
      PROVE  \/ name \in DOMAIN added \cup fatals
             \/ setup.file[name].type \in {"L1DDC", "RimL1DDC"}
  <2>1. PICK i \in Reached : IsDevice(i) /\ name = Of(i).name
    BY DEF Enabled, IsDevice, Of
  <2>2. Name(i) \in DOMAIN deviceMap.found
    BY <1>5, <2>1 DEF ReaderInv, NothingLost
  <2>3. DOMAIN deviceMap.found \subseteq DOMAIN setup.file
    BY <1>1, <1>5 DEF ReaderInv, ReadSoFar
  <2>4. name \in DOMAIN deviceMap.found
    BY <1>3, <2>1, <2>2, <2>3
  <2> QED
    BY <1>1, <1>5, <2>4 DEF ReaderInv, ReadSoFar
<1> QED
  BY <1>4, <1>5 DEF ReaderAgrees, Agrees, OwnSettingsWin

\* The elements to be read, the configurations and the reports are of elements
\* of the file, and of each only one (NSWConfig.cpp:38-69).
THEOREM ReaderTypeCorrect == ReaderSpec => []ReaderTypeOK
<1>1. ReaderInv => ReaderTypeOK
  BY DEF ReaderInv
<1> QED
  BY <1>1, ReaderInvInit, ReaderInvStep, PTL DEF ReaderSpec

\* For every hierarchy of resources, also with what it contains in several
\* places, all files and all sub-devices: only what is enabled is configured,
\* the inputs of a ROC are those of the sub-devices, an element's own settings
\* win, and no enabled element is forgotten without a report
\* (OKSDeviceHierarchy.cpp:29-205, ConfigReaderApi.cpp:63-110,
\* ConfigReaderJsonApi.cpp:53-418, NSWConfig.cpp:38-69).
THEOREM ReadsWhatIsEnabled == ReaderSpec => []ReaderAgrees
BY ReaderInvInit, ReaderInvStep, ReaderInvAgrees, PTL DEF ReaderSpec
=============================================================================
