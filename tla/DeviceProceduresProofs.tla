------------------------ MODULE DeviceProceduresProofs ------------------------
(***************************************************************************)
(* What the procedures of the devices do, whatever faults they meet: the   *)
(* facts they leave if they end, and the lines that are changed only while *)
(* another one holds them.                                                 *)
(*                                                                         *)
(* It begins with a logic for these procedures.  A triple says of a        *)
(* procedure and a set of states it may begin in: however it goes on, with *)
(* whatever faults, it ends in a given set or throws in another, and on    *)
(* the way it changes its device only in ways that are allowed.  There is  *)
(* one rule for each construct of DeviceAccess.                            *)
(***************************************************************************)
EXTENDS FrontEnd, ArtAddc, PadTrigger, FiniteSetTheorems, SequenceTheorems,
        WellFoundedInduction, TLAPS

-----------------------------------------------------------------------------
(* Least numbers, which stand for induction.                               *)

LEMMA LeastNumber ==
  ASSUME NEW S \in SUBSET Nat, S # {}
  PROVE  \E m \in S : \A k \in S : m <= k
<1> DEFINE R == OpToRel(<, Nat)
<1>1. IsWellFoundedOn(R, Nat)
  BY NatLessThanWellFounded
<1>2. \A x, y \in Nat : <<x, y>> \in R <=> x < y
  BY DEF OpToRel
<1> HIDE DEF R
<1>3. PICK m \in S : \A k \in S : ~(<<k, m>> \in R)
  BY <1>1, WFMin
<1>5. ASSUME NEW k \in S
      PROVE  m <= k
  <2>1. k \in Nat /\ m \in Nat
    OBVIOUS
  <2>2. ~(k < m)
    BY <1>2, <1>3, <2>1
  <2> QED
    BY <2>1, <2>2
<1> QED
  BY <1>3, <1>5

-----------------------------------------------------------------------------
(* Programs: sequences of steps in which every try block that is begun     *)
(* ends; complete ones also begin all that end.                            *)

IsSeq(t) == \E X : t \in Seq(X)

Program(t) ==
  /\ IsSeq(t)
  /\ \A i \in 1..Len(t) :
       /\ \A way \in t[i].ways : IsSeq(way)
       /\ t[i].do = "catch" => t[i].ways # {}
  /\ \A i \in 0..Len(t) : Closed(t, i) <= Closed(t, Len(t))

Complete(t) == Program(t) /\ \A i \in 0..Len(t) : Closed(t, i) <= 0

\* The steps of a kind among the first i.
Kind(t, i, do) == {j \in 1..i : t[j].do = do}

LEMMA KindFinite ==
  ASSUME NEW t, NEW i \in Nat, NEW do
  PROVE  IsFiniteSet(Kind(t, i, do)) /\ Cardinality(Kind(t, i, do)) \in Nat
<1>1. IsFiniteSet(1..i)
  BY FS_Interval
<1>2. Kind(t, i, do) \in SUBSET (1..i)
  BY DEF Kind
<1>3. IsFiniteSet(Kind(t, i, do))
  BY <1>1, <1>2, FS_Subset
<1> QED
  BY <1>3, FS_CardinalityType

LEMMA ClosedKinds ==
  ASSUME NEW t, NEW i \in Nat
  PROVE  /\ Closed(t, i) = Cardinality(Kind(t, i, "catch")) - Cardinality(Kind(t, i, "try"))
         /\ Closed(t, i) \in Int
<1>1. Closed(t, i) = Cardinality(Kind(t, i, "catch")) - Cardinality(Kind(t, i, "try"))
  BY DEF Closed, Kind
<1>2. Cardinality(Kind(t, i, "catch")) \in Nat /\ Cardinality(Kind(t, i, "try")) \in Nat
  BY KindFinite
<1> QED
  BY <1>1, <1>2

\* Concatenation, of anything that is a sequence.
LEMMA Concat ==
  ASSUME NEW s, NEW t, IsSeq(s), IsSeq(t)
  PROVE  /\ IsSeq(s \o t)
         /\ Len(s) \in Nat /\ Len(t) \in Nat
         /\ Len(s \o t) = Len(s) + Len(t)
         /\ \A i \in 1..Len(s) : (s \o t)[i] = s[i]
         /\ \A i \in 1..Len(t) : (s \o t)[Len(s) + i] = t[i]
         /\ s \o <<>> = s /\ <<>> \o s = s
         /\ s # <<>> => /\ s \o t # <<>> /\ Head(s \o t) = Head(s)
                        /\ Tail(s \o t) = Tail(s) \o t /\ IsSeq(Tail(s))
                        /\ Head(s) = s[1] /\ Len(s) > 0
<1>1. PICK X : s \in Seq(X)
  BY DEF IsSeq
<1>2. PICK Y : t \in Seq(Y)
  BY DEF IsSeq
<1> DEFINE Z == X \cup Y
<1>3. s \in Seq(Z) /\ t \in Seq(Z)
  BY <1>1, <1>2, SeqMonotonic
<1> HIDE DEF Z
<1>4. /\ s \o t \in Seq(Z) /\ Len(s) \in Nat /\ Len(t) \in Nat
      /\ Len(s \o t) = Len(s) + Len(t)
      /\ \A i \in 1 .. Len(s) + Len(t) : (s \o t)[i] = IF i <= Len(s) THEN s[i] ELSE t[i - Len(s)]
  BY <1>3, ConcatProperties, LenProperties
<1>5. \A i \in 1..Len(s) : (s \o t)[i] = s[i]
  BY <1>4
<1>6. \A i \in 1..Len(t) : (s \o t)[Len(s) + i] = t[i]
  BY <1>4
<1>7. s \o <<>> = s /\ <<>> \o s = s
  BY <1>3, ConcatEmptySeq
<1>8. ASSUME s # <<>>
      PROVE  /\ s \o t # <<>> /\ Head(s \o t) = Head(s)
             /\ Tail(s \o t) = Tail(s) \o t /\ IsSeq(Tail(s))
             /\ Head(s) = s[1] /\ Len(s) > 0
  <2>1. Len(s) > 0 /\ Head(s) = s[1] /\ Tail(s) \in Seq(Z) /\ Len(Tail(s)) = Len(s) - 1
        /\ \A i \in 1..Len(Tail(s)) : Tail(s)[i] = s[i + 1]
    BY <1>3, <1>8, HeadTailProperties, EmptySeq
  <2>2. s \o t # <<>> /\ Head(s \o t) = s[1]
    BY <1>4, <2>1
  <2>3. Tail(s \o t) \in Seq(Z) /\ Len(Tail(s \o t)) = Len(s) + Len(t) - 1
        /\ \A i \in 1..Len(s) + Len(t) - 1 : Tail(s \o t)[i] = (s \o t)[i + 1]
    BY <1>4, <2>2, HeadTailProperties
  <2>4. Tail(s) \o t \in Seq(Z) /\ Len(Tail(s) \o t) = Len(s) + Len(t) - 1
        /\ \A i \in 1..Len(s) + Len(t) - 1 :
             (Tail(s) \o t)[i] = IF i <= Len(s) - 1 THEN Tail(s)[i] ELSE t[i - (Len(s) - 1)]
    BY <1>3, <1>4, <2>1, ConcatProperties
  <2>5. \A i \in 1..Len(s) + Len(t) - 1 : Tail(s \o t)[i] = (Tail(s) \o t)[i]
    BY <1>4, <2>1, <2>3, <2>4
  <2>6. Tail(s \o t) = Tail(s) \o t
    BY <2>3, <2>4, <2>5, SeqEqual
  <2> QED
    BY <2>1, <2>2, <2>6 DEF IsSeq
<1> QED
  BY <1>4, <1>5, <1>6, <1>7, <1>8 DEF IsSeq

LEMMA Associative ==
  ASSUME NEW s, NEW t, NEW u, IsSeq(s), IsSeq(t), IsSeq(u)
  PROVE  (s \o t) \o u = s \o (t \o u)
<1>1. PICK X : s \in Seq(X)
  BY DEF IsSeq
<1>2. PICK Y : t \in Seq(Y)
  BY DEF IsSeq
<1>3. PICK Z : u \in Seq(Z)
  BY DEF IsSeq
<1> DEFINE A == X \cup Y \cup Z
<1>4. s \in Seq(A) /\ t \in Seq(A) /\ u \in Seq(A)
  BY <1>1, <1>2, <1>3, SeqMonotonic
<1> HIDE DEF A
<1> QED
  BY <1>4, ConcatAssociative

\* The balance of try and catch in a concatenation.
LEMMA KindConcat ==
  ASSUME NEW s, NEW t, IsSeq(s), IsSeq(t), NEW do, NEW i \in 0..Len(t)
  PROVE  Cardinality(Kind(s \o t, Len(s) + i, do)) =
           Cardinality(Kind(s, Len(s), do)) + Cardinality(Kind(t, i, do))
<1> DEFINE a == Kind(s, Len(s), do)
           b == Kind(t, i, do)
           c == {j \in Len(s) + 1 .. Len(s) + i : (s \o t)[j].do = do}
           shift == [j \in b |-> Len(s) + j]
<1>1. Len(s) \in Nat /\ Len(t) \in Nat /\ i \in Nat
  BY Concat
<1>2. /\ \A j \in 1..Len(s) : (s \o t)[j] = s[j]
      /\ \A j \in 1..Len(t) : (s \o t)[Len(s) + j] = t[j]
  BY Concat
<1>3. Kind(s \o t, Len(s) + i, do) = a \cup c
  <2>1. \A j \in 1..Len(s) + i : (s \o t)[j].do = do <=> j \in a \cup c
    BY <1>1, <1>2 DEF Kind
  <2>2. a \cup c \subseteq 1..Len(s) + i
    BY <1>1 DEF Kind
  <2> QED
    BY <2>1, <2>2 DEF Kind
<1>4. a \cap c = {}
  BY <1>1 DEF Kind
<1>5. shift \in Bijection(b, c)
  <2>1. shift \in [b -> c]
    BY <1>1, <1>2 DEF Kind
  <2>2. \A j, k \in b : shift[j] = shift[k] => j = k
    BY <1>1 DEF Kind
  <2>3. \A k \in c : k - Len(s) \in b /\ shift[k - Len(s)] = k
    <3> SUFFICES ASSUME NEW k \in c PROVE k - Len(s) \in b /\ shift[k - Len(s)] = k
      OBVIOUS
    <3>1. k - Len(s) \in 1..i /\ k = Len(s) + (k - Len(s))
      BY <1>1
    <3>2. t[k - Len(s)] = (s \o t)[k]
      BY <1>1, <1>2, <3>1
    <3> QED
      BY <1>1, <3>1, <3>2 DEF Kind
  <2> HIDE DEF shift, b, c
  <2>4. \A k \in c : \E j \in b : shift[j] = k
    BY <2>3
  <2> QED
    BY <2>1, <2>2, <2>4 DEF Bijection, Injection, Surjection, IsInjective
<1>6. IsFiniteSet(a) /\ IsFiniteSet(b)
  BY <1>1, KindFinite
<1>7. IsFiniteSet(c) /\ Cardinality(c) = Cardinality(b)
  BY <1>5, <1>6, FS_Bijection DEF ExistsBijection
<1>8. Cardinality(a \cup c) = Cardinality(a) + Cardinality(c)
  <2> HIDE DEF a, b, c, shift
  <2>1. Cardinality(a \cup c) = Cardinality(a) + Cardinality(c) - Cardinality(a \cap c)
    BY <1>6, <1>7, FS_Union
  <2>2. Cardinality(a \cap c) = 0
    BY <1>4, FS_EmptySet
  <2>3. Cardinality(a) \in Nat /\ Cardinality(c) \in Nat
    BY <1>6, <1>7, FS_CardinalityType
  <2> QED
    BY <2>1, <2>2, <2>3
<1> QED
  BY <1>3, <1>7, <1>8

LEMMA ClosedBeyond ==
  ASSUME NEW s, NEW t, IsSeq(s), IsSeq(t), NEW i \in 0..Len(t)
  PROVE  Closed(s \o t, Len(s) + i) = Closed(s, Len(s)) + Closed(t, i)
<1>1. Len(s) \in Nat /\ Len(t) \in Nat /\ i \in Nat /\ Len(s) + i \in Nat
  BY Concat
<1>2. \A do : Cardinality(Kind(s \o t, Len(s) + i, do)) =
                Cardinality(Kind(s, Len(s), do)) + Cardinality(Kind(t, i, do))
  BY KindConcat
<1>3. \A do : /\ Cardinality(Kind(s, Len(s), do)) \in Nat
              /\ Cardinality(Kind(t, i, do)) \in Nat
  BY <1>1, KindFinite
<1>4. /\ Closed(s \o t, Len(s) + i) = Cardinality(Kind(s \o t, Len(s) + i, "catch"))
                                        - Cardinality(Kind(s \o t, Len(s) + i, "try"))
      /\ Closed(s, Len(s)) = Cardinality(Kind(s, Len(s), "catch"))
                               - Cardinality(Kind(s, Len(s), "try"))
      /\ Closed(t, i) = Cardinality(Kind(t, i, "catch")) - Cardinality(Kind(t, i, "try"))
  BY <1>1, ClosedKinds
<1> QED
  BY <1>2, <1>3, <1>4

LEMMA ClosedBefore ==
  ASSUME NEW s, NEW t, IsSeq(s), IsSeq(t), NEW i \in 0..Len(s)
  PROVE  Closed(s \o t, i) = Closed(s, i)
<1>1. Len(s) \in Nat /\ i \in Nat /\ \A j \in 1..Len(s) : (s \o t)[j] = s[j]
  BY Concat
<1>2. \A do : Kind(s \o t, i, do) = Kind(s, i, do)
  BY <1>1 DEF Kind
<1> QED
  BY <1>1, <1>2, ClosedKinds

LEMMA ClosedNothing == ASSUME NEW t PROVE Closed(t, 0) = 0
<1>1. \A do : Kind(t, 0, do) = {}
  BY DEF Kind
<1>2. \A do : Cardinality(Kind(t, 0, do)) = 0
  BY <1>1, FS_EmptySet
<1> QED
  BY <1>2, ClosedKinds

\* Any position of a concatenation is in one part or the other.
LEMMA Positions ==
  ASSUME NEW s, NEW t, IsSeq(s), IsSeq(t), NEW i \in 0..Len(s \o t)
  PROVE  i \in 0..Len(s) \/ \E j \in 1..Len(t) : i = Len(s) + j
<1>1. Len(s) \in Nat /\ Len(t) \in Nat /\ Len(s \o t) = Len(s) + Len(t)
  BY Concat
<1>2. CASE i > Len(s)
  <2>1. i - Len(s) \in 1..Len(t) /\ i = Len(s) + (i - Len(s))
    BY <1>1, <1>2
  <2> QED
    BY <2>1
<1> QED
  BY <1>1, <1>2

LEMMA ProgramConcat ==
  ASSUME NEW s, NEW t, Program(s), Program(t)
  PROVE  Program(s \o t)
<1>1. IsSeq(s) /\ IsSeq(t)
  BY DEF Program
<1>2. /\ IsSeq(s \o t) /\ Len(s) \in Nat /\ Len(t) \in Nat /\ Len(s \o t) = Len(s) + Len(t)
      /\ \A i \in 1..Len(s) : (s \o t)[i] = s[i]
      /\ \A i \in 1..Len(t) : (s \o t)[Len(s) + i] = t[i]
  BY <1>1, Concat
<1>3. ASSUME NEW i \in 1..Len(s \o t)
      PROVE  /\ \A way \in (s \o t)[i].ways : IsSeq(way)
             /\ (s \o t)[i].do = "catch" => (s \o t)[i].ways # {}
  <2>1. i \in 1..Len(s) \/ \E j \in 1..Len(t) : i = Len(s) + j
    BY <1>1, <1>2, Positions
  <2>2. \/ \E j \in 1..Len(s) : (s \o t)[i] = s[j]
        \/ \E j \in 1..Len(t) : (s \o t)[i] = t[j]
    BY <1>2, <2>1
  <2> QED
    BY <2>2 DEF Program
<1>4. ASSUME NEW i \in 0..Len(s \o t)
      PROVE  Closed(s \o t, i) <= Closed(s \o t, Len(s \o t))
  <2>1. Closed(s \o t, Len(s \o t)) = Closed(s, Len(s)) + Closed(t, Len(t))
    BY <1>1, <1>2, ClosedBeyond
  <2>2. Closed(s, Len(s)) \in Int /\ Closed(t, Len(t)) \in Int
    BY <1>2, ClosedKinds
  <2>3. CASE i \in 0..Len(s)
    <3>1. Closed(s \o t, i) = Closed(s, i) /\ Closed(s, i) <= Closed(s, Len(s))
      BY <1>1, <2>3, ClosedBefore DEF Program
    <3>2. Closed(t, 0) <= Closed(t, Len(t)) /\ Closed(t, 0) = 0
      BY <1>2, ClosedNothing DEF Program
    <3>3. Closed(s, i) \in Int
      BY <1>2, <2>3, ClosedKinds
    <3> QED
      BY <2>1, <2>2, <3>1, <3>2, <3>3
  <2>4. ASSUME NEW j \in 1..Len(t), i = Len(s) + j
        PROVE  Closed(s \o t, i) <= Closed(s \o t, Len(s \o t))
    <3>1. Closed(s \o t, i) = Closed(s, Len(s)) + Closed(t, j)
      BY <1>1, <1>2, <2>4, ClosedBeyond
    <3>2. Closed(t, j) <= Closed(t, Len(t)) /\ Closed(t, j) \in Int
      BY <1>2, ClosedKinds DEF Program
    <3> QED
      BY <2>1, <2>2, <3>1, <3>2
  <2> QED
    BY <1>1, <2>3, <2>4, Positions
<1> QED
  BY <1>2, <1>3, <1>4 DEF Program

LEMMA CompleteConcat ==
  ASSUME NEW s, NEW t, Complete(s), Complete(t)
  PROVE  Complete(s \o t)
<1>1. IsSeq(s) /\ IsSeq(t) /\ Program(s \o t)
  BY ProgramConcat DEF Complete, Program
<1>2. Len(s) \in Nat /\ Len(t) \in Nat /\ Len(s \o t) = Len(s) + Len(t)
  BY <1>1, Concat
<1>3. ASSUME NEW i \in 0..Len(s \o t)
      PROVE  Closed(s \o t, i) <= 0
  <2>1. CASE i \in 0..Len(s)
    BY <1>1, <2>1, ClosedBefore DEF Complete
  <2>2. ASSUME NEW j \in 1..Len(t), i = Len(s) + j
        PROVE  Closed(s \o t, i) <= 0
    <3>1. Closed(s \o t, i) = Closed(s, Len(s)) + Closed(t, j)
      BY <1>1, <1>2, <2>2, ClosedBeyond
    <3>2. Closed(s, Len(s)) <= 0 /\ Closed(t, j) <= 0
      BY <1>2 DEF Complete
    <3>3. Closed(s, Len(s)) \in Int /\ Closed(t, j) \in Int
      BY <1>2, ClosedKinds
    <3> QED
      BY <3>1, <3>2, <3>3
  <2> QED
    BY <1>1, <2>1, <2>2, Positions
<1> QED
  BY <1>1, <1>3 DEF Complete

\* What one more step counts.
LEMMA ClosedStep ==
  ASSUME NEW t, NEW i \in Nat \ {0}
  PROVE  Closed(t, i) > Closed(t, i - 1) => t[i].do = "catch"
<1>1. i \in Nat /\ i - 1 \in Nat /\ ~(i \in 1..(i - 1)) /\ 1..i = (1..(i - 1)) \cup {i}
  OBVIOUS
<1>2. \A do : Kind(t, i, do) = IF t[i].do = do THEN Kind(t, i - 1, do) \cup {i}
                                               ELSE Kind(t, i - 1, do)
  BY <1>1 DEF Kind
<1>3. \A do : /\ IsFiniteSet(Kind(t, i - 1, do)) /\ ~(i \in Kind(t, i - 1, do))
              /\ Cardinality(Kind(t, i - 1, do)) \in Nat
  <2>1. \A do : ~(i \in Kind(t, i - 1, do))
    BY <1>1 DEF Kind
  <2> QED
    BY <1>1, <2>1, KindFinite
<1>4. \A do : Cardinality(Kind(t, i, do)) =
                IF t[i].do = do THEN Cardinality(Kind(t, i - 1, do)) + 1
                                ELSE Cardinality(Kind(t, i - 1, do))
  BY <1>2, <1>3, FS_AddElement
<1>5. /\ Closed(t, i) = Cardinality(Kind(t, i, "catch")) - Cardinality(Kind(t, i, "try"))
      /\ Closed(t, i - 1) = Cardinality(Kind(t, i - 1, "catch"))
                              - Cardinality(Kind(t, i - 1, "try"))
  BY <1>1, ClosedKinds
<1> QED
  BY <1>3, <1>4, <1>5

\* The handler an exception goes to: the first step that closes more try blocks
\* than were begun.
LEMMA FirstHandler ==
  ASSUME NEW t, Program(t), NEW m \in 1..Len(t), Closed(t, m) > 0,
         \A i \in 1..Len(t) : Closed(t, i) > 0 => m <= i
  PROVE  /\ IsCaught(t) /\ t[m].ways # {} /\ \A way \in t[m].ways : IsSeq(way)
         /\ AfterThrow(t) = (CHOOSE way \in t[m].ways : TRUE) \o SubSeq(t, m + 1, Len(t))
<1>1. Len(t) \in Nat /\ DOMAIN t = 1..Len(t)
  BY LenProperties DEF Program, IsSeq
<1>2. m \in Handlers(t) /\ \A i \in Handlers(t) : m <= i /\ i \in Nat
  BY <1>1 DEF Handlers
<1>3. Min(Handlers(t)) = m
  <2>1. \A x \in Handlers(t) : (\A y \in Handlers(t) : x <= y) => x = m
    BY <1>2
  <2> QED
    BY <1>2, <2>1 DEF Min
<1>4. t[m].do = "catch"
  <2>1. m \in Nat \ {0} /\ m - 1 \in Nat /\ Closed(t, m) \in Int /\ Closed(t, m - 1) \in Int
    BY <1>1, ClosedKinds
  <2>2. CASE m = 1
    BY <2>1, <2>2, ClosedNothing, ClosedStep
  <2>3. CASE m # 1
    <3>1. m - 1 \in 1..Len(t) /\ ~(m <= m - 1)
      BY <1>1, <2>3
    <3>2. ~(Closed(t, m - 1) > 0)
      BY <3>1
    <3>3. Closed(t, m) > Closed(t, m - 1)
      BY <2>1, <3>2
    <3> QED
      BY <2>1, <3>3, ClosedStep
  <2> QED
    BY <2>2, <2>3
<1> QED
  BY <1>2, <1>3, <1>4 DEF IsCaught, AfterThrow, Program

\* There is one whenever an exception is caught.
LEMMA SomeHandler ==
  ASSUME NEW t, Program(t), IsCaught(t)
  PROVE  \E m \in 1..Len(t) : /\ Closed(t, m) > 0
                              /\ \A i \in 1..Len(t) : Closed(t, i) > 0 => m <= i
<1>1. Len(t) \in Nat /\ DOMAIN t = 1..Len(t)
  BY LenProperties DEF Program, IsSeq
<1>2. Handlers(t) \in SUBSET Nat /\ Handlers(t) # {}
  BY <1>1 DEF Handlers, IsCaught
<1>3. PICK m \in Handlers(t) : \A k \in Handlers(t) : m <= k
  BY <1>2, LeastNumber
<1> QED
  BY <1>1, <1>3 DEF Handlers

LEMMA SubSeqConcat ==
  ASSUME NEW s, NEW t, IsSeq(s), IsSeq(t), NEW m \in 1..Len(s)
  PROVE  /\ SubSeq(s \o t, m + 1, Len(s \o t)) = SubSeq(s, m + 1, Len(s)) \o t
         /\ IsSeq(SubSeq(s, m + 1, Len(s)))
<1>1. PICK X : s \in Seq(X)
  BY DEF IsSeq
<1>2. PICK Y : t \in Seq(Y)
  BY DEF IsSeq
<1> DEFINE Z == X \cup Y
           a == SubSeq(s \o t, m + 1, Len(s \o t))
           b == SubSeq(s, m + 1, Len(s))
<1>3. s \in Seq(Z) /\ t \in Seq(Z)
  BY <1>1, <1>2, SeqMonotonic
<1> HIDE DEF Z
<1>4. /\ Len(s) \in Nat /\ Len(t) \in Nat /\ Len(s \o t) = Len(s) + Len(t)
      /\ s \o t \in Seq(Z) /\ m \in Nat /\ m <= Len(s)
      /\ \A i \in 1 .. Len(s) + Len(t) : (s \o t)[i] = IF i <= Len(s) THEN s[i] ELSE t[i - Len(s)]
  BY <1>3, ConcatProperties, LenProperties
<1>5. /\ \A i \in 1..Len(s) : s[i] \in Z
      /\ \A i \in 1..Len(t) : t[i] \in Z
      /\ \A i \in 1..Len(s \o t) : (s \o t)[i] \in Z
  BY <1>3, <1>4, ElementOfSeq
<1>6. /\ a \in Seq(Z) /\ Len(a) = Len(s) + Len(t) - m
      /\ \A i \in 1 .. Len(s) + Len(t) - m : a[i] = (s \o t)[m + i]
  <2>1. m + 1 \in Int /\ Len(s \o t) \in Int /\ \A i \in m + 1 .. Len(s \o t) : i \in 1..Len(s \o t)
    BY <1>4
  <2>2. \A i \in m + 1 .. Len(s \o t) : (s \o t)[i] \in Z
    BY <1>5, <2>1
  <2>3. /\ a \in Seq(Z)
        /\ Len(a) = IF m + 1 <= Len(s \o t) THEN Len(s \o t) - (m + 1) + 1 ELSE 0
        /\ \A i \in 1 .. Len(s \o t) - (m + 1) + 1 : a[i] = (s \o t)[(m + 1) + i - 1]
    BY <2>1, <2>2, SubSeqProperties
  <2>4. Len(s \o t) - (m + 1) + 1 = Len(s) + Len(t) - m
    BY <1>4
  <2>5. Len(a) = Len(s) + Len(t) - m
    BY <1>4, <2>3
  <2>6. \A i \in 1 .. Len(s) + Len(t) - m : a[i] = (s \o t)[m + i]
    <3> HIDE DEF a
    <3> SUFFICES ASSUME NEW i \in 1 .. Len(s) + Len(t) - m PROVE a[i] = (s \o t)[m + i]
      OBVIOUS
    <3>1. a[i] = (s \o t)[(m + 1) + i - 1]
      BY <2>3, <2>4
    <3>2. (m + 1) + i - 1 = m + i
      BY <1>4
    <3> QED
      BY <3>1, <3>2
  <2> QED
    BY <2>3, <2>5, <2>6
<1>7. /\ b \in Seq(Z) /\ Len(b) = Len(s) - m
      /\ \A i \in 1 .. Len(s) - m : b[i] = s[m + i]
  <2>1. m + 1 \in Int /\ Len(s) \in Int /\ \A i \in m + 1 .. Len(s) : i \in 1..Len(s)
    BY <1>4
  <2>2. \A i \in m + 1 .. Len(s) : s[i] \in Z
    BY <1>5, <2>1
  <2>3. /\ b \in Seq(Z)
        /\ Len(b) = IF m + 1 <= Len(s) THEN Len(s) - (m + 1) + 1 ELSE 0
        /\ \A i \in 1 .. Len(s) - (m + 1) + 1 : b[i] = s[(m + 1) + i - 1]
    BY <2>1, <2>2, SubSeqProperties
  <2>4. Len(s) - (m + 1) + 1 = Len(s) - m
    BY <1>4
  <2>5. Len(b) = Len(s) - m
    BY <1>4, <2>3
  <2>6. \A i \in 1 .. Len(s) - m : b[i] = s[m + i]
    <3> HIDE DEF b
    <3> SUFFICES ASSUME NEW i \in 1 .. Len(s) - m PROVE b[i] = s[m + i]
      OBVIOUS
    <3>1. b[i] = s[(m + 1) + i - 1]
      BY <2>3, <2>4
    <3>2. (m + 1) + i - 1 = m + i
      BY <1>4
    <3> QED
      BY <3>1, <3>2
  <2> QED
    BY <2>3, <2>5, <2>6
<1> HIDE DEF a, b
<1>8. /\ b \o t \in Seq(Z) /\ Len(b \o t) = (Len(s) - m) + Len(t)
      /\ \A i \in 1 .. (Len(s) - m) + Len(t) :
           (b \o t)[i] = IF i <= Len(s) - m THEN b[i] ELSE t[i - (Len(s) - m)]
  <2>1. /\ b \o t \in Seq(Z) /\ Len(b \o t) = Len(b) + Len(t)
        /\ \A i \in 1 .. Len(b) + Len(t) :
             (b \o t)[i] = IF i <= Len(b) THEN b[i] ELSE t[i - Len(b)]
    BY <1>3, <1>7, ConcatProperties
  <2>2. Len(b) = Len(s) - m
    BY <1>7
  <2> QED
    BY <2>1, <2>2
<1>9. ASSUME NEW i \in 1..Len(a)
      PROVE  a[i] = (b \o t)[i]
  <2>1. i \in 1 .. Len(s) + Len(t) - m /\ m + i \in 1 .. Len(s) + Len(t)
    BY <1>4, <1>6
  <2>2. a[i] = IF m + i <= Len(s) THEN s[m + i] ELSE t[(m + i) - Len(s)]
    BY <1>4, <1>6, <2>1
  <2>3. (b \o t)[i] = IF i <= Len(s) - m THEN b[i] ELSE t[i - (Len(s) - m)]
    BY <1>4, <1>8, <2>1
  <2>4. (m + i) - Len(s) = i - (Len(s) - m) /\ (m + i <= Len(s) <=> i <= Len(s) - m)
    BY <1>4, <2>1
  <2>5. i <= Len(s) - m => b[i] = s[m + i]
    BY <1>4, <1>7, <2>1
  <2> QED
    BY <2>2, <2>3, <2>4, <2>5
<1>10. a = b \o t
  <2>1. Len(a) = Len(b \o t)
    BY <1>4, <1>6, <1>8
  <2> QED
    BY <1>6, <1>8, <1>9, <2>1, SeqEqual
<1> QED
  BY <1>7, <1>10 DEF a, b, IsSeq

\* What follows a program does not change where its exceptions go, ...
LEMMA ThrowInside ==
  ASSUME NEW s, NEW q, Program(s), Program(q), IsCaught(s)
  PROVE  /\ IsCaught(s \o q)
         /\ AfterThrow(s \o q) = AfterThrow(s) \o q
         /\ IsSeq(AfterThrow(s))
<1>1. Program(s \o q) /\ IsSeq(s) /\ IsSeq(q)
  BY ProgramConcat DEF Program
<1>2. /\ Len(s) \in Nat /\ Len(q) \in Nat /\ Len(s \o q) = Len(s) + Len(q)
      /\ \A i \in 1..Len(s) : (s \o q)[i] = s[i]
  BY <1>1, Concat
<1>3. \A i \in 1..Len(s) : Closed(s \o q, i) = Closed(s, i) /\ Closed(s, i) \in Int
  BY <1>1, <1>2, ClosedBefore, ClosedKinds
<1>4. PICK m \in 1..Len(s) : /\ Closed(s, m) > 0
                             /\ \A i \in 1..Len(s) : Closed(s, i) > 0 => m <= i
  BY SomeHandler
<1>5. /\ s[m].ways # {} /\ \A way \in s[m].ways : IsSeq(way)
      /\ AfterThrow(s) = (CHOOSE way \in s[m].ways : TRUE) \o SubSeq(s, m + 1, Len(s))
  BY <1>4, FirstHandler
<1>6. m \in 1..Len(s \o q) /\ Closed(s \o q, m) > 0 /\ (s \o q)[m] = s[m]
  BY <1>2, <1>3, <1>4
<1>7. \A i \in 1..Len(s \o q) : Closed(s \o q, i) > 0 => m <= i
  <2> SUFFICES ASSUME NEW i \in 1..Len(s \o q), Closed(s \o q, i) > 0, ~(m <= i)
               PROVE  FALSE
    OBVIOUS
  <2>1. i \in 1..Len(s)
    BY <1>2
  <2> QED
    BY <1>3, <1>4, <2>1
<1>8. /\ IsCaught(s \o q)
      /\ AfterThrow(s \o q) = (CHOOSE way \in (s \o q)[m].ways : TRUE)
                                \o SubSeq(s \o q, m + 1, Len(s \o q))
  BY <1>1, <1>6, <1>7, FirstHandler
<1>9. /\ SubSeq(s \o q, m + 1, Len(s \o q)) = SubSeq(s, m + 1, Len(s)) \o q
      /\ IsSeq(SubSeq(s, m + 1, Len(s)))
  BY <1>1, SubSeqConcat
<1> DEFINE way == CHOOSE w \in s[m].ways : TRUE
<1>10. IsSeq(way)
  BY <1>5
<1>11. /\ AfterThrow(s) = way \o SubSeq(s, m + 1, Len(s))
       /\ AfterThrow(s \o q) = way \o (SubSeq(s, m + 1, Len(s)) \o q)
  BY <1>5, <1>6, <1>8, <1>9
<1> HIDE DEF way
<1>12. AfterThrow(s) \o q = way \o (SubSeq(s, m + 1, Len(s)) \o q)
  <2> DEFINE rest == SubSeq(s, m + 1, Len(s))
  <2>1. IsSeq(rest) /\ AfterThrow(s) = way \o rest
    BY <1>9, <1>11
  <2> HIDE DEF rest
  <2>2. (way \o rest) \o q = way \o (rest \o q)
    <3>1. IsSeq(way) /\ IsSeq(rest) /\ IsSeq(q)
      BY <1>1, <1>10, <2>1
    <3> QED
      BY ONLY <3>1, Associative, SMTT(30)
  <2> QED
    BY <2>1, <2>2 DEF rest
<1>13. IsSeq(AfterThrow(s))
  BY <1>9, <1>10, <1>11, Concat
<1> QED
  BY <1>8, <1>11, <1>12, <1>13

\* ... if it ends no try block but its own.
LEMMA ThrowConcat ==
  ASSUME NEW s, NEW q, Program(s), Complete(q)
  PROVE  /\ IsCaught(s \o q) <=> IsCaught(s)
         /\ IsCaught(s) => /\ AfterThrow(s \o q) = AfterThrow(s) \o q
                           /\ IsSeq(AfterThrow(s))
<1>1. /\ Program(q) /\ Program(s \o q) /\ IsSeq(s) /\ IsSeq(q)
      /\ \A i \in 0..Len(q) : Closed(q, i) <= 0
  BY ProgramConcat DEF Complete, Program
<1>2. /\ Len(s) \in Nat /\ Len(q) \in Nat /\ Len(s \o q) = Len(s) + Len(q)
      /\ \A i \in 1..Len(s) : (s \o q)[i] = s[i]
  BY <1>1, Concat
<1>3. \A i \in 1..Len(s) : Closed(s \o q, i) = Closed(s, i) /\ Closed(s, i) \in Int
  BY <1>1, <1>2, ClosedBefore, ClosedKinds
<1>4. ASSUME IsCaught(s \o q)
      PROVE  IsCaught(s)
  <2>1. PICK i \in 1..Len(s \o q) : Closed(s \o q, i) > 0
    BY <1>1, <1>4, SomeHandler
  <2>2. DOMAIN s = 1..Len(s)
    BY <1>1, LenProperties DEF IsSeq
  <2>3. CASE i \in 1..Len(s)
    BY <1>3, <2>1, <2>2, <2>3 DEF IsCaught, Handlers
  <2>4. ASSUME NEW j \in 1..Len(q), i = Len(s) + j
        PROVE  IsCaught(s)
    <3>1. j \in 0..Len(q) /\ j \in Nat
      BY <1>2
    <3>2. Closed(s \o q, i) = Closed(s, Len(s)) + Closed(q, j)
      BY <1>1, <2>4, <3>1, ClosedBeyond
    <3>3. /\ Closed(s, Len(s)) \in Int /\ Closed(q, j) \in Int /\ Closed(q, j) <= 0
      BY <1>1, <1>2, <3>1, ClosedKinds
    <3>4. Closed(s, Len(s)) > 0
      BY <2>1, <3>2, <3>3
    <3>5. Closed(s, 0) = 0
      BY ClosedNothing
    <3>6. Len(s) \in 1..Len(s)
      BY <1>2, <3>4, <3>5
    <3> QED
      BY <2>2, <3>4, <3>6 DEF IsCaught, Handlers
  <2>5. i \in 0..Len(s \o q)
    BY <1>2
  <2>6. i \in 0..Len(s) => i \in 1..Len(s)
    BY <1>2
  <2> QED
    BY <1>1, <2>3, <2>4, <2>5, <2>6, Positions
<1> QED
  BY <1>1, <1>4, ThrowInside

Catch(handler) == SingleStep("catch", "none", "none", {handler})

\* p is the step alone.
Alone(p, step) ==
  /\ IsSeq(p) /\ Len(p) = 1 /\ p # <<>> /\ p[1] = step /\ Head(p) = step /\ Tail(p) = <<>>
  /\ Closed(p, 1) = (IF step.do = "catch" THEN 1 ELSE 0) - (IF step.do = "try" THEN 1 ELSE 0)

LEMMA OneStep ==
  ASSUME NEW do, NEW line, NEW value, NEW ways
  PROVE  Alone(SingleStep(do, line, value, ways),
               [do |-> do, line |-> line, value |-> value, ways |-> ways])
<1> DEFINE step == [do |-> do, line |-> line, value |-> value, ways |-> ways]
           p == SingleStep(do, line, value, ways)
<1>1. p = <<step>>
  BY DEF SingleStep
<1>2. step.do = do
  OBVIOUS
<1> HIDE DEF step, p
<1>3. p \in Seq({step}) /\ Len(p) = 1 /\ p # <<>> /\ Head(p) = p[1] /\ Tail(p) = <<>> /\ p[1] = step
  BY <1>1
<1>4. \A kind : Kind(p, 1, kind) = IF do = kind THEN {1} ELSE {}
  BY <1>2, <1>3 DEF Kind
<1>5. \A kind : Cardinality(Kind(p, 1, kind)) = IF do = kind THEN 1 ELSE 0
  BY <1>4, FS_EmptySet, FS_Singleton
<1>6. Closed(p, 1) = (IF do = "catch" THEN 1 ELSE 0) - (IF do = "try" THEN 1 ELSE 0)
  BY <1>5, ClosedKinds
<1> QED
  BY <1>2, <1>3, <1>6 DEF step, p, IsSeq, Alone

\* An exception the body of a try block does not catch goes to its handler.
LEMMA ThrowOut ==
  ASSUME NEW s, NEW handler, Program(s), IsSeq(handler), ~IsCaught(s)
  PROVE  IsCaught(s \o Catch(handler)) /\ AfterThrow(s \o Catch(handler)) = handler
<1> SUFFICES ASSUME NEW c, c = Catch(handler), NEW t, t = s \o c
             PROVE  IsCaught(t) /\ AfterThrow(t) = handler
  OBVIOUS
<1>1. /\ IsSeq(c) /\ Len(c) = 1 /\ c[1].do = "catch" /\ c[1].ways = {handler}
      /\ Closed(c, 1) = 1
  <2>1. c = SingleStep("catch", "none", "none", {handler})
    BY DEF Catch
  <2>2. Alone(c, [do |-> "catch", line |-> "none", value |-> "none", ways |-> {handler}])
    BY <2>1, OneStep
  <2> QED
    BY <2>2 DEF Alone
<1>2. /\ IsSeq(s) /\ IsSeq(t) /\ Len(s) \in Nat /\ Len(t) = Len(s) + 1
      /\ t[Len(s) + 1] = c[1]
      /\ \A i \in 1..Len(s) : t[i] = s[i]
  <2>1. IsSeq(s)
    BY DEF Program
  <2>2. /\ IsSeq(t) /\ Len(s) \in Nat /\ Len(t) = Len(s) + Len(c)
        /\ \A i \in 1..Len(s) : t[i] = s[i]
        /\ \A i \in 1..Len(c) : t[Len(s) + i] = c[i]
    BY <1>1, <2>1, Concat
  <2>3. 1 \in 1..Len(c)
    BY <1>1
  <2> QED
    BY <1>1, <2>1, <2>2, <2>3
<1>3. \A i \in 1..Len(s) : Closed(t, i) = Closed(s, i) /\ ~(Closed(s, i) > 0)
  <2>1. DOMAIN s = 1..Len(s)
    BY <1>2, LenProperties DEF IsSeq
  <2> QED
    BY <1>1, <1>2, <2>1, ClosedBefore DEF IsCaught, Handlers
<1>4. Closed(t, Len(s) + 1) > 0
  <2>1. Closed(t, Len(s) + 1) = Closed(s, Len(s)) + Closed(c, 1)
    BY <1>1, <1>2, ClosedBeyond
  <2>2. Closed(s, Len(s)) \in Int /\ 0 <= Closed(s, Len(s))
    BY <1>2, ClosedKinds, ClosedNothing DEF Program
  <2> QED
    BY <1>1, <2>1, <2>2
<1>5. Program(t)
  <2>1. Program(c)
    <3>1. Closed(c, 0) = 0
      BY ClosedNothing
    <3>2. \A i \in 1..Len(c) : c[i].ways = {handler}
      BY <1>1
    <3>3. \A i \in 0..Len(c) : i = 0 \/ i = 1
      BY <1>1
    <3>4. \A i \in 0..Len(c) : Closed(c, i) <= Closed(c, Len(c))
      BY <1>1, <3>1, <3>3
    <3>5. \A i \in 1..Len(c) : /\ \A way \in c[i].ways : IsSeq(way)
                               /\ c[i].ways # {}
      BY <3>2
    <3> QED
      BY <1>1, <3>4, <3>5 DEF Program
  <2> QED
    BY <2>1, ProgramConcat
<1>6. /\ IsCaught(t)
      /\ AfterThrow(t) = (CHOOSE way \in t[Len(s) + 1].ways : TRUE)
                           \o SubSeq(t, Len(s) + 2, Len(t))
  <2>1. \A i \in 1..Len(t) : Closed(t, i) > 0 => Len(s) + 1 <= i
    BY <1>2, <1>3
  <2>2. Len(s) + 1 \in 1..Len(t) /\ (Len(s) + 1) + 1 = Len(s) + 2
    BY <1>2
  <2>3. PICK m : m = Len(s) + 1
    OBVIOUS
  <2>4. /\ m \in 1..Len(t) /\ Closed(t, m) > 0
        /\ \A i \in 1..Len(t) : Closed(t, i) > 0 => m <= i
    BY <1>4, <2>1, <2>2, <2>3
  <2>5. /\ IsCaught(t)
        /\ AfterThrow(t) = (CHOOSE way \in t[m].ways : TRUE) \o SubSeq(t, m + 1, Len(t))
    BY <1>5, <2>4, FirstHandler
  <2>6. m + 1 = Len(s) + 2
    BY <1>2, <2>3
  <2> QED
    BY <2>3, <2>5, <2>6
<1>7. SubSeq(t, Len(s) + 2, Len(t)) = <<>>
  BY <1>2, SubSeqEmpty
<1>8. (CHOOSE way \in t[Len(s) + 1].ways : TRUE) = handler
  BY <1>1, <1>2
<1> QED
  BY <1>1, <1>6, <1>7, <1>8, Concat

-----------------------------------------------------------------------------
(* Worlds: the lines of a device and their values, pairs of a line and a   *)
(* value it never has, ties (a line has one of some values only while      *)
(* another one has one of others), whether the device has PLLs, what holds *)
(* a line while another one is written (guards), but for the values it may *)
(* take at any time (free), whether issues are raised at all (warnings),   *)
(* and whether nothing is promised any more once one was (forgives).       *)

World(W) ==
  /\ W.plls \in BOOLEAN /\ W.forgives \in BOOLEAN
  /\ W.plls => /\ "pllReset" \in W.lines /\ "pllLocked" \in W.lines
               /\ "yes" \in W.values /\ "no" \in W.values
               /\ <<"pllLocked", "yes">> \notin W.never
               /\ <<"pllLocked", "no">> \notin W.never
  /\ \A g \in W.guards : /\ g.line \in W.lines /\ g.by # g.line
                         /\ W.plls => g.line # "pllLocked"
  /\ \A h \in W.ties : /\ h.line \in W.lines /\ h.by \in W.lines /\ h.by # h.line
                       /\ W.plls => h.line # "pllLocked" /\ h.by # "pllLocked"
  /\ W.warnings \subseteq BOOLEAN
  /\ W.forgives => W.guards = {} /\ W.ties = {}

Tied(W, lines) == \A h \in W.ties : lines[h.line] \in h.values => lines[h.by] \in h.ats

States(W) == {s \in [lines : [W.lines -> W.values], warned : W.warnings] :
                /\ \A l \in W.lines : <<l, s.lines[l]>> \notin W.never
                /\ Tied(W, s.lines)}

\* A line changes only while another one holds it.
Kept(W, old, new) ==
  \A g \in W.guards :
    new[g.line] # old[g.line] => new[g.line] \in g.free \/ old[g.by] = g.at

After(W, s, step) ==
  IF step.do \in Changes
    THEN [s EXCEPT !.lines = Effect(@, step, W.plls)]
    ELSE IF step.do = "warn" THEN [s EXCEPT !.warned = TRUE] ELSE s

CanLock(W, s) == W.plls /\ s.lines["pllReset"] = "inactive"
Locked(s)     == [s EXCEPT !.lines = [@ EXCEPT !["pllLocked"] = "yes"]]

Lockable(W, S) == S \in SUBSET States(W) /\ \A s \in S : CanLock(W, s) => Locked(s) \in S

-----------------------------------------------------------------------------
(* Sound sets of configurations (a program and a state): whatever happens  *)
(* next leads to another one of the set, to the end in T, or to an         *)
(* exception in E.                                                         *)

Goes(step, s) ==
  step.do # "raise" /\ (step.do = "await" => s.lines[step.line] = step.value)

GoesOn(W, K, t, s) ==
  Goes(Head(t), s) =>
    /\ Kept(W, s.lines, After(W, s, Head(t)).lines)
    /\ \A way \in (IF Head(t).do = "choose" THEN Head(t).ways ELSE {<<>>}) :
         <<way \o Tail(t), After(W, s, Head(t))>> \in K

Throwing == {"write", "read", "tell", "await", "connect", "raise"}

\* The states an exception may leave: with the effect of a write or without.
Thrown(W, s, step) == {s} \cup (IF step.do = "write" THEN {After(W, s, step)} ELSE {})

Breaks(W, K, E, t, s) ==
  Head(t).do \in Throwing =>
    \A r \in Thrown(W, s, Head(t)) :
      IF IsCaught(t) THEN <<AfterThrow(t), r>> \in K ELSE r \in E

SoundAt(W, K, T, E, t, s) ==
  /\ Program(t) /\ s \in States(W)
  /\ IF t = <<>> THEN s \in T ELSE GoesOn(W, K, t, s) /\ Breaks(W, K, E, t, s)
  /\ CanLock(W, s) => <<t, Locked(s)>> \in K

Sound(W, K, T, E) == \A c \in K : \E t, s : c = <<t, s>> /\ SoundAt(W, K, T, E, t, s)

\* From S the procedure ends in T or throws in E.
Triple(W, S, p, T, E) ==
  Complete(p) /\ \E K : Sound(W, K, T, E) /\ \A s \in S : <<p, s>> \in K

LEMMA CompleteNothing == Complete(<<>>)
<1>1. IsSeq(<<>>) /\ Len(<<>>) = 0
  BY EmptySeq DEF IsSeq
<1>2. \A i \in 0..0 : i = 0
  OBVIOUS
<1> QED
  BY <1>1, <1>2, ClosedNothing DEF Complete, Program

LEMMA SkipRule ==
  ASSUME NEW W, NEW S, NEW T, NEW E, Lockable(W, S), S \subseteq T
  PROVE  Triple(W, S, <<>>, T, E)
<1> DEFINE K == {<<<<>>, s>> : s \in S}
<1>1. ASSUME NEW s \in S
      PROVE  SoundAt(W, K, T, E, <<>>, s)
  BY <1>1, CompleteNothing DEF SoundAt, Lockable, Complete
<1>2. Sound(W, K, T, E)
  <2> SUFFICES ASSUME NEW c \in K
               PROVE  \E t, s : c = <<t, s>> /\ SoundAt(W, K, T, E, t, s)
    BY DEF Sound
  <2>1. PICK s \in S : c = <<<<>>, s>>
    OBVIOUS
  <2> HIDE DEF K
  <2> QED
    BY <1>1, <2>1
<1> QED
  BY <1>2, CompleteNothing DEF Triple

\* Steps other than those that begin or end a try block, or choose.
LEMMA CompleteStep ==
  ASSUME NEW do, NEW line, NEW value, NEW ways, do \notin {"try", "catch"},
         \A way \in ways : IsSeq(way)
  PROVE  Complete(SingleStep(do, line, value, ways))
<1> SUFFICES ASSUME NEW p, p = SingleStep(do, line, value, ways)
             PROVE  Complete(p)
  OBVIOUS
<1>1. Alone(p, [do |-> do, line |-> line, value |-> value, ways |-> ways])
  BY OneStep
<1>2. IsSeq(p) /\ Len(p) = 1 /\ p[1].do = do /\ p[1].ways = ways /\ Closed(p, 1) = 0
  BY <1>1 DEF Alone
<1>3. \A i \in 0..Len(p) : Closed(p, i) = 0
  <2>1. \A i \in 0..Len(p) : i = 0 \/ i = 1
    BY <1>2
  <2> QED
    BY <1>2, <2>1, ClosedNothing
<1>4. \A i \in 0..Len(p) : Closed(p, i) <= 0 /\ Closed(p, i) <= Closed(p, Len(p))
  <2>1. Len(p) \in 0..Len(p)
    BY <1>2
  <2> QED
    BY <1>3, <2>1
<1>5. \A i \in 1..Len(p) : /\ \A way \in p[i].ways : IsSeq(way)
                           /\ ~(p[i].do = "catch")
  BY <1>2
<1> QED
  BY <1>2, <1>4, <1>5 DEF Complete, Program

\* Nothing catches what a step alone throws.
LEMMA StepUncaught ==
  ASSUME NEW p, Complete(p)
  PROVE  ~IsCaught(p)
<1>1. Program(p) /\ IsSeq(p) /\ \A i \in 0..Len(p) : Closed(p, i) <= 0
  BY DEF Complete, Program
<1>2. Len(p) \in Nat /\ \A i \in 0..Len(p) : Closed(p, i) \in Int
  BY <1>1, Concat, ClosedKinds
<1> SUFFICES ASSUME IsCaught(p) PROVE FALSE
  OBVIOUS
<1>3. PICK m \in 1..Len(p) : Closed(p, m) > 0
  BY <1>1, SomeHandler
<1>4. m \in 0..Len(p)
  BY <1>2
<1> QED
  BY <1>1, <1>2, <1>3, <1>4

LEMMA StepRule ==
  ASSUME NEW W, NEW S, NEW T, NEW E, NEW do, NEW line, NEW value, NEW step,
         do \notin {"try", "catch", "choose"},
         step = [do |-> do, line |-> line, value |-> value, ways |-> {}],
         Lockable(W, S), Lockable(W, T),
         \A s \in S : Goes(step, s) => /\ Kept(W, s.lines, After(W, s, step).lines)
                                       /\ After(W, s, step) \in T,
         do \in Throwing => \A s \in S : Thrown(W, s, step) \subseteq E
  PROVE  Triple(W, S, SingleStep(do, line, value, {}), T, E)
<1> SUFFICES ASSUME NEW p, p = SingleStep(do, line, value, {})
             PROVE  Triple(W, S, p, T, E)
  OBVIOUS
<1>1. Alone(p, step)
  BY OneStep
<1>2. IsSeq(p) /\ p # <<>> /\ Head(p) = step /\ Tail(p) = <<>>
  BY <1>1 DEF Alone
<1>3. Complete(p) /\ Program(p) /\ Program(<<>>)
  BY CompleteStep, CompleteNothing DEF Complete
<1>4. step.do = do
  OBVIOUS
<1> DEFINE K == {<<p, s>> : s \in S} \cup {<<<<>>, s>> : s \in T}
<1>5. ASSUME NEW s \in S
      PROVE  SoundAt(W, K, T, E, p, s)
  <2>1. s \in States(W) /\ (CanLock(W, s) => <<p, Locked(s)>> \in K)
    BY DEF Lockable
  <2>2. <<>> \o <<>> = <<>>
    BY <1>2, Concat
  <2>3. GoesOn(W, K, p, s)
    BY <1>2, <1>4, <2>2 DEF GoesOn
  <2>4. ~IsCaught(p)
    BY <1>3, StepUncaught
  <2>5. Breaks(W, K, E, p, s)
    BY <1>2, <1>4, <2>4 DEF Breaks
  <2> QED
    BY <1>2, <1>3, <2>1, <2>3, <2>5 DEF SoundAt
<1>6. ASSUME NEW s \in T
      PROVE  SoundAt(W, K, T, E, <<>>, s)
  BY <1>3 DEF SoundAt, Lockable
<1>7. Sound(W, K, T, E)
  <2> SUFFICES ASSUME NEW c \in K
               PROVE  \E t, s : c = <<t, s>> /\ SoundAt(W, K, T, E, t, s)
    BY DEF Sound
  <2>1. (\E s \in S : c = <<p, s>>) \/ (\E s \in T : c = <<<<>>, s>>)
    OBVIOUS
  <2> HIDE DEF K
  <2> QED
    BY <1>5, <1>6, <2>1
<1> QED
  BY <1>3, <1>7 DEF Triple

LEMMA Weaken ==
  ASSUME NEW W, NEW S, NEW T, NEW E, NEW A, NEW B, NEW C, NEW p,
         Triple(W, S, p, T, E), A \subseteq S, T \subseteq B, E \subseteq C
  PROVE  Triple(W, A, p, B, C)
<1>1. PICK K : Sound(W, K, T, E) /\ \A s \in S : <<p, s>> \in K
  BY DEF Triple
<1>2. ASSUME NEW t, NEW s, SoundAt(W, K, T, E, t, s)
      PROVE  SoundAt(W, K, B, C, t, s)
  <2>1. Breaks(W, K, E, t, s) => Breaks(W, K, C, t, s)
    BY DEF Breaks
  <2> QED
    BY <1>2, <2>1 DEF SoundAt
<1>3. Sound(W, K, B, C)
  BY <1>1, <1>2 DEF Sound
<1> QED
  BY <1>1, <1>3 DEF Triple

LEMMA ChooseRule ==
  ASSUME NEW W, NEW S, NEW T, NEW E, NEW p, NEW q, Lockable(W, S),
         Triple(W, S, p, T, E), Triple(W, S, q, T, E)
  PROVE  Triple(W, S, Choose({p, q}), T, E)
<1> SUFFICES ASSUME NEW c, c = SingleStep("choose", "none", "none", {p, q})
             PROVE  Triple(W, S, c, T, E)
  BY DEF Choose
<1> DEFINE step == [do |-> "choose", line |-> "none", value |-> "none", ways |-> {p, q}]
<1>1. Alone(c, step)
  BY OneStep
<1>2. step.do = "choose" /\ step.ways = {p, q}
  OBVIOUS
<1> HIDE DEF step
<1>3. IsSeq(c) /\ c # <<>> /\ Head(c) = step /\ Tail(c) = <<>>
  BY <1>1 DEF Alone
<1>4. IsSeq(p) /\ IsSeq(q) /\ IsSeq(<<>>)
  BY CompleteNothing DEF Triple, Complete, Program
<1>5. Complete(c)
  <2>1. \A way \in {p, q} : IsSeq(way)
    BY <1>4
  <2> QED
    BY <2>1, CompleteStep
<1>6. PICK K1 : Sound(W, K1, T, E) /\ \A s \in S : <<p, s>> \in K1
  BY DEF Triple
<1>7. PICK K2 : Sound(W, K2, T, E) /\ \A s \in S : <<q, s>> \in K2
  BY DEF Triple
<1> DEFINE K == {<<c, s>> : s \in S} \cup K1 \cup K2
<1>8. K1 \subseteq K /\ K2 \subseteq K /\ \A s \in S : <<c, s>> \in K
  OBVIOUS
<1>9. \A x \in K : x \in K1 \/ x \in K2 \/ \E s \in S : x = <<c, s>>
  OBVIOUS
<1> HIDE DEF K
<1>10. ASSUME NEW s \in S
       PROVE  SoundAt(W, K, T, E, c, s)
  <2>1. s \in States(W) /\ (CanLock(W, s) => <<c, Locked(s)>> \in K)
    BY <1>8 DEF Lockable
  <2>2. p \o <<>> = p /\ q \o <<>> = q /\ After(W, s, step) = s
    BY <1>2, <1>4, Concat DEF After, Changes
  <2>3. <<p, s>> \in K /\ <<q, s>> \in K
    BY <1>6, <1>7, <1>8
  <2>4. GoesOn(W, K, c, s)
    BY <1>2, <1>3, <2>2, <2>3 DEF GoesOn, Kept
  <2>5. Breaks(W, K, E, c, s)
    BY <1>2, <1>3 DEF Breaks, Throwing
  <2> QED
    BY <1>3, <1>5, <2>1, <2>4, <2>5 DEF SoundAt, Complete
<1>11. ASSUME NEW t, NEW s, NEW J, J \subseteq K, SoundAt(W, J, T, E, t, s)
       PROVE  SoundAt(W, K, T, E, t, s)
  <2>1. GoesOn(W, J, t, s) => GoesOn(W, K, t, s)
    BY <1>11 DEF GoesOn
  <2>2. Breaks(W, J, E, t, s) => Breaks(W, K, E, t, s)
    BY <1>11 DEF Breaks
  <2> QED
    BY <1>11, <2>1, <2>2 DEF SoundAt
<1>12. Sound(W, K, T, E)
  <2> SUFFICES ASSUME NEW x \in K
               PROVE  \E t, s : x = <<t, s>> /\ SoundAt(W, K, T, E, t, s)
    BY DEF Sound
  <2>1. CASE x \in K1
    BY <1>6, <1>8, <1>11, <2>1 DEF Sound
  <2>2. CASE x \in K2
    BY <1>7, <1>8, <1>11, <2>2 DEF Sound
  <2>3. CASE \E s \in S : x = <<c, s>>
    BY <1>10, <2>3
  <2> QED
    BY <1>9, <2>1, <2>2, <2>3
<1> QED
  BY <1>5, <1>8, <1>12 DEF Triple

LEMMA SequenceRule ==
  ASSUME NEW W, NEW S, NEW R, NEW T, NEW E, NEW p, NEW q,
         Triple(W, S, p, R, E), Triple(W, R, q, T, E)
  PROVE  Triple(W, S, p \o q, T, E)
<1>1. PICK K1 : Sound(W, K1, R, E) /\ \A s \in S : <<p, s>> \in K1
  BY DEF Triple
<1>2. PICK K2 : Sound(W, K2, T, E) /\ \A s \in R : <<q, s>> \in K2
  BY DEF Triple
<1>3. Complete(p) /\ Complete(q) /\ Complete(p \o q) /\ IsSeq(q)
  BY CompleteConcat DEF Triple, Complete, Program
<1> DEFINE K == {<<c[1] \o q, c[2]>> : c \in {d \in K1 : d[1] # <<>>}} \cup K2
<1>4. K2 \subseteq K /\ \A d \in K1 : d[1] # <<>> => <<d[1] \o q, d[2]>> \in K
  OBVIOUS
<1>5. \A x \in K : x \in K2 \/ \E d \in K1 : d[1] # <<>> /\ x = <<d[1] \o q, d[2]>>
  OBVIOUS
<1> HIDE DEF K
\* A configuration of p, with q behind it.
<1>6. ASSUME NEW t, NEW s, <<t, s>> \in K1
      PROVE  <<t \o q, s>> \in K /\ IsSeq(t) /\ SoundAt(W, K1, R, E, t, s)
  <2>1. SoundAt(W, K1, R, E, t, s)
    BY <1>1, <1>6 DEF Sound
  <2>2. CASE t = <<>>
    <3>1. <<>> \o q = q /\ IsSeq(<<>>)
      BY <1>3, CompleteNothing, Concat DEF Complete, Program
    <3> QED
      BY <1>2, <1>4, <2>1, <2>2, <3>1 DEF SoundAt
  <2>3. CASE t # <<>>
    <3>1. <<t, s>>[1] = t /\ <<t, s>>[2] = s
      OBVIOUS
    <3> QED
      BY <1>4, <1>6, <2>1, <2>3, <3>1 DEF SoundAt, Program
  <2> QED
    BY <2>2, <2>3
<1>7. ASSUME NEW t, NEW s, <<t, s>> \in K1, t # <<>>
      PROVE  SoundAt(W, K, T, E, t \o q, s)
  <2>1. SoundAt(W, K1, R, E, t, s) /\ IsSeq(t) /\ Program(t)
    BY <1>6, <1>7 DEF SoundAt
  <2>2. /\ t \o q # <<>> /\ Head(t \o q) = Head(t) /\ Tail(t \o q) = Tail(t) \o q
        /\ IsSeq(Tail(t)) /\ Head(t) = t[1] /\ Len(t) > 0 /\ Len(t) \in Nat
    BY <1>3, <1>7, <2>1, Concat
  <2>3. \A way \in Head(t).ways : IsSeq(way)
    <3>1. 1 \in 1..Len(t)
      BY <2>2
    <3> QED
      BY <2>1, <2>2, <3>1 DEF Program
  <2>4. GoesOn(W, K, t \o q, s)
    <3> SUFFICES ASSUME Goes(Head(t), s),
                        NEW way \in (IF Head(t).do = "choose" THEN Head(t).ways ELSE {<<>>})
                 PROVE  <<way \o (Tail(t) \o q), After(W, s, Head(t))>> \in K
      BY <1>7, <2>1, <2>2 DEF GoesOn, SoundAt
    <3>1. <<way \o Tail(t), After(W, s, Head(t))>> \in K1
      BY <1>7, <2>1 DEF GoesOn, SoundAt
    <3>2. IsSeq(way)
      BY <2>3, CompleteNothing DEF Complete, Program
    <3>3. \A rest : IsSeq(rest) => (way \o rest) \o q = way \o (rest \o q)
      BY <1>3, <3>2, Associative
    <3>4. (way \o Tail(t)) \o q = way \o (Tail(t) \o q)
      BY <2>2, <3>3
    <3> QED
      BY <1>6, <3>1, <3>4
  <2>5. Breaks(W, K, E, t \o q, s)
    <3> SUFFICES ASSUME Head(t).do \in Throwing, NEW r \in Thrown(W, s, Head(t))
                 PROVE  IF IsCaught(t \o q) THEN <<AfterThrow(t \o q), r>> \in K ELSE r \in E
      BY <2>2 DEF Breaks
    <3>1. IF IsCaught(t) THEN <<AfterThrow(t), r>> \in K1 ELSE r \in E
      BY <1>7, <2>1 DEF Breaks, SoundAt
    <3>2. /\ IsCaught(t \o q) <=> IsCaught(t)
          /\ IsCaught(t) => AfterThrow(t \o q) = AfterThrow(t) \o q
      BY <1>3, <2>1, ThrowConcat
    <3> QED
      BY <1>6, <3>1, <3>2
  <2>6. CanLock(W, s) => <<t \o q, Locked(s)>> \in K
    BY <1>6, <2>1 DEF SoundAt
  <2>7. Program(t \o q) /\ s \in States(W)
    BY <1>3, <2>1, ProgramConcat DEF SoundAt, Complete
  <2> QED
    BY <2>2, <2>4, <2>5, <2>6, <2>7 DEF SoundAt
<1>8. ASSUME NEW t, NEW s, SoundAt(W, K2, T, E, t, s)
      PROVE  SoundAt(W, K, T, E, t, s)
  <2>1. GoesOn(W, K2, t, s) => GoesOn(W, K, t, s)
    BY <1>4 DEF GoesOn
  <2>2. Breaks(W, K2, E, t, s) => Breaks(W, K, E, t, s)
    BY <1>4 DEF Breaks
  <2> QED
    BY <1>4, <1>8, <2>1, <2>2 DEF SoundAt
<1>9. Sound(W, K, T, E)
  <2> SUFFICES ASSUME NEW x \in K
               PROVE  \E t, s : x = <<t, s>> /\ SoundAt(W, K, T, E, t, s)
    BY DEF Sound
  <2>1. CASE x \in K2
    BY <1>2, <1>8, <2>1 DEF Sound
  <2>2. ASSUME NEW d \in K1, d[1] # <<>>, x = <<d[1] \o q, d[2]>>
        PROVE  \E t, s : x = <<t, s>> /\ SoundAt(W, K, T, E, t, s)
    <3>1. PICK t, s : d = <<t, s>>
      BY <1>1, <2>2 DEF Sound
    <3> QED
      BY <1>7, <2>2, <3>1
  <2> QED
    BY <1>5, <2>1, <2>2
<1> QED
  BY <1>1, <1>3, <1>6, <1>9 DEF Triple

\* The handler goes on from wherever the body may throw.
LEMMA AttemptRule ==
  ASSUME NEW W, NEW S, NEW T, NEW E, NEW X, NEW body, NEW handler,
         Lockable(W, S), Lockable(W, T),
         Triple(W, S, body, T, X), Triple(W, X, handler, T, E)
  PROVE  Triple(W, S, Attempt(body, handler), T, E)
<1> SUFFICES ASSUME NEW b, b = SingleStep("try", "none", "none", {}),
                    NEW c, c = Catch(handler),
                    NEW p, p = b \o body \o c
             PROVE  Triple(W, S, p, T, E)
  BY DEF Attempt, Catch
<1> DEFINE try   == [do |-> "try", line |-> "none", value |-> "none", ways |-> {}]
           catch == [do |-> "catch", line |-> "none", value |-> "none", ways |-> {handler}]
<1>1. Alone(b, try) /\ Alone(c, catch)
  BY OneStep DEF Catch
<1>2. try.do = "try" /\ try.ways = {} /\ catch.do = "catch" /\ catch.ways = {handler}
  OBVIOUS
<1> HIDE DEF try, catch
<1>3. /\ IsSeq(b) /\ Len(b) = 1 /\ b # <<>> /\ b[1] = try /\ Head(b) = try /\ Tail(b) = <<>>
      /\ IsSeq(c) /\ Len(c) = 1 /\ c # <<>> /\ c[1] = catch /\ Head(c) = catch /\ Tail(c) = <<>>
      /\ Closed(b, 1) = 0 - 1 /\ Closed(c, 1) = 1
  BY <1>1, <1>2 DEF Alone
<1>4. /\ Complete(body) /\ Program(body) /\ IsSeq(body) /\ IsSeq(handler) /\ Program(handler)
      /\ Program(<<>>) /\ IsSeq(<<>>)
  BY CompleteNothing DEF Triple, Complete, Program
<1>5. Program(c)
  <2>1. Closed(c, 0) = 0
    BY ClosedNothing
  <2>2. \A i \in 1..Len(c) : c[i].ways = {handler}
    BY <1>2, <1>3
  <2>3. \A i \in 0..Len(c) : i = 0 \/ i = 1
    BY <1>3
  <2>4. \A i \in 0..Len(c) : Closed(c, i) <= Closed(c, Len(c))
    BY <1>3, <2>1, <2>3
  <2>5. \A i \in 1..Len(c) : /\ \A way \in c[i].ways : IsSeq(way)
                             /\ c[i].ways # {}
    BY <1>4, <2>2
  <2> QED
    BY <1>3, <2>4, <2>5 DEF Program
<1> DEFINE u == body \o c
<1>6. /\ Program(u) /\ IsSeq(u) /\ Len(u) = Len(body) + 1 /\ Len(body) \in Nat /\ Len(u) \in Nat
      /\ (b \o body) \o c = b \o u
  <2>1. Len(u) = Len(body) + Len(c) /\ Len(u) \in Nat
    BY <1>3, <1>4, <1>5, Concat
  <2>2. \A x : IsSeq(x) => (b \o x) \o c = b \o (x \o c)
    BY <1>3, Associative
  <2>3. (b \o body) \o c = b \o u
    BY <1>4, <2>2
  <2>4. Program(u) /\ IsSeq(u)
    BY <1>4, <1>5, ProgramConcat DEF Program
  <2>5. Len(body) \in Nat /\ Len(c) = 1
    BY <1>3, <1>4, Concat
  <2> QED
    BY <2>1, <2>3, <2>4, <2>5
<1>7. \A i \in 0..Len(u) : Closed(u, i) <= 1 /\ Closed(u, i) \in Int
  <2> SUFFICES ASSUME NEW i \in 0..Len(u) PROVE Closed(u, i) <= 1 /\ Closed(u, i) \in Int
    OBVIOUS
  <2>1. Closed(u, i) \in Int
    BY <1>6, ClosedKinds
  <2>2. CASE i \in 0..Len(body)
    <3>1. Closed(u, i) = Closed(body, i) /\ Closed(body, i) <= 0
      BY <1>3, <1>4, <2>2, ClosedBefore DEF Complete
    <3> QED
      BY <2>1, <3>1
  <2>3. CASE ~(i \in 0..Len(body))
    <3>1. i = Len(body) + 1
      BY <1>6, <2>3
    <3>2. 1 \in 0..Len(c) /\ Len(body) \in 0..Len(body)
      BY <1>3, <1>6
    <3>3. Closed(u, i) = Closed(body, Len(body)) + 1 /\ Closed(body, Len(body)) <= 0
      BY <1>3, <1>4, <3>1, <3>2, ClosedBeyond DEF Complete
    <3>4. Closed(body, Len(body)) \in Int
      BY <1>6, ClosedKinds
    <3> QED
      BY <2>1, <3>3, <3>4
  <2> QED
    BY <2>2, <2>3
<1>8. Closed(u, Len(u)) = 1
  <2>1. 1 \in 0..Len(c) /\ Len(body) \in 0..Len(body) /\ 0 \in 0..Len(body)
    BY <1>3, <1>6
  <2>2. Closed(u, Len(u)) = Closed(body, Len(body)) + 1
    BY <1>3, <1>4, <1>6, <2>1, ClosedBeyond
  <2>3. Closed(body, Len(body)) <= 0 /\ Closed(body, 0) <= Closed(body, Len(body))
    BY <1>4, <2>1 DEF Complete, Program
  <2>4. Closed(body, 0) = 0 /\ Closed(body, Len(body)) \in Int
    BY <1>6, ClosedNothing, ClosedKinds
  <2> QED
    BY <2>2, <2>3, <2>4
<1> HIDE DEF u
<1>9. /\ IsSeq(p) /\ p # <<>> /\ Head(p) = try /\ Tail(p) = u /\ Len(p) = 1 + Len(u)
      /\ p = b \o u
  <2>1. p = b \o u
    BY <1>6
  <2>2. /\ IsSeq(b \o u) /\ b \o u # <<>> /\ Head(b \o u) = Head(b) /\ Tail(b \o u) = Tail(b) \o u
        /\ Len(b \o u) = Len(b) + Len(u) /\ <<>> \o u = u
    BY <1>3, <1>6, Concat, SMTT(30)
  <2> QED
    BY <1>3, <2>1, <2>2
<1>10. Complete(p)
  <2>1. Closed(p, 0) = 0
    BY ClosedNothing
  <2>2. \A i \in 0..Len(u) : Closed(p, 1 + i) = (0 - 1) + Closed(u, i)
    <3>1. \A i \in 0..Len(u) : Closed(b \o u, Len(b) + i) = Closed(b, Len(b)) + Closed(u, i)
      BY <1>3, <1>6, ClosedBeyond
    <3>2. \A i \in 0..Len(u) : Closed(p, Len(b) + i) = Closed(b, Len(b)) + Closed(u, i)
      <4>1. p = b \o u
        BY <1>9
      <4> QED
        BY ONLY <3>1, <4>1
    <3>3. Len(b) = 1 /\ Closed(b, Len(b)) = 0 - 1
      BY <1>3
    <3> QED
      BY <3>2, <3>3
  <2>3. ASSUME NEW i \in 0..Len(p) PROVE Closed(p, i) <= 0
    <3>1. CASE i = 0
      BY <2>1, <3>1
    <3>2. CASE i # 0
      <4>1. i - 1 \in 0..Len(u) /\ 1 + (i - 1) = i
        BY <1>6, <1>9, <3>2
      <4>2. Closed(p, i) = (0 - 1) + Closed(u, i - 1)
        BY <2>2, <4>1
      <4> QED
        BY <1>7, <4>1, <4>2
    <3> QED
      BY <3>1, <3>2
  <2>4. Closed(p, Len(p)) = 0
    <3>1. Len(u) \in 0..Len(u)
      BY <1>6
    <3> QED
      BY <1>8, <1>9, <2>2, <3>1
  <2>5. ASSUME NEW i \in 1..Len(p)
        PROVE  /\ \A way \in p[i].ways : IsSeq(way)
               /\ p[i].do = "catch" => p[i].ways # {}
    <3>1. CASE i = 1
      <4>1. p[1] = try
        BY <1>3, <1>6, <1>9, Concat
      <4> QED
        BY <1>2, <3>1, <4>1
    <3>2. CASE i # 1
      <4>1. i - 1 \in 1..Len(u) /\ 1 + (i - 1) = i
        BY <1>6, <1>9, <3>2
      <4>2. \A j \in 1..Len(u) : p[1 + j] = u[j]
        BY <1>3, <1>6, <1>9, Concat
      <4>3. p[i] = u[i - 1]
        BY <4>1, <4>2
      <4> QED
        BY <1>6, <4>1, <4>3 DEF Program
    <3> QED
      BY <3>1, <3>2
  <2> QED
    BY <1>9, <2>3, <2>4, <2>5 DEF Complete, Program
<1>11. PICK K1 : Sound(W, K1, T, X) /\ \A s \in S : <<body, s>> \in K1
  BY DEF Triple
<1>12. PICK K2 : Sound(W, K2, T, E) /\ \A s \in X : <<handler, s>> \in K2
  BY DEF Triple
<1> DEFINE K == {<<p, s>> : s \in S} \cup {<<d[1] \o c, d[2]>> : d \in K1} \cup K2
                  \cup {<<<<>>, s>> : s \in T}
<1>13. /\ K2 \subseteq K /\ \A d \in K1 : <<d[1] \o c, d[2]>> \in K
       /\ \A s \in S : <<p, s>> \in K
       /\ \A s \in T : <<<<>>, s>> \in K
  OBVIOUS
<1>14. \A x \in K : \/ x \in K2
                    \/ \E d \in K1 : x = <<d[1] \o c, d[2]>>
                    \/ \E s \in S : x = <<p, s>>
                    \/ \E s \in T : x = <<<<>>, s>>
  OBVIOUS
<1> HIDE DEF K
<1>15. ASSUME NEW t, NEW s, <<t, s>> \in K1
       PROVE  <<t \o c, s>> \in K /\ IsSeq(t) /\ Program(t) /\ SoundAt(W, K1, T, X, t, s)
  <2>1. SoundAt(W, K1, T, X, t, s)
    BY <1>11, <1>15 DEF Sound
  <2>2. <<t, s>>[1] = t /\ <<t, s>>[2] = s
    OBVIOUS
  <2> QED
    BY <1>13, <1>15, <2>1, <2>2 DEF SoundAt, Program
\* The body in progress, and the end of its block.
<1>16. ASSUME NEW t, NEW s, <<t, s>> \in K1
       PROVE  SoundAt(W, K, T, E, t \o c, s)
  <2>1. SoundAt(W, K1, T, X, t, s) /\ IsSeq(t) /\ Program(t)
    BY <1>15, <1>16
  <2>2. Program(t \o c) /\ s \in States(W) /\ (CanLock(W, s) => <<t \o c, Locked(s)>> \in K)
    BY <1>5, <1>15, <2>1, ProgramConcat DEF SoundAt
  <2>3. CASE t = <<>>
    <3>1. t \o c = c /\ <<>> \o <<>> = <<>>
      BY <1>3, <1>4, <2>3, Concat
    <3>2. s \in T
      BY <2>1, <2>3 DEF SoundAt
    <3>3. After(W, s, catch) = s
      BY <1>2 DEF After, Changes
    <3>4. <<<<>>, s>> \in K
      BY <1>13, <3>2
    <3>5. GoesOn(W, K, c, s)
      BY <1>2, <1>3, <3>1, <3>3, <3>4 DEF GoesOn, Kept
    <3>6. Breaks(W, K, E, c, s)
      BY <1>2, <1>3 DEF Breaks, Throwing
    <3> QED
      BY <1>3, <2>2, <3>1, <3>5, <3>6 DEF SoundAt
  <2>4. CASE t # <<>>
    <3>1. /\ t \o c # <<>> /\ Head(t \o c) = Head(t) /\ Tail(t \o c) = Tail(t) \o c
          /\ IsSeq(Tail(t)) /\ Head(t) = t[1] /\ Len(t) > 0 /\ Len(t) \in Nat
      BY <1>3, <2>1, <2>4, Concat
    <3>2. \A way \in Head(t).ways : IsSeq(way)
      <4>1. 1 \in 1..Len(t)
        BY <3>1
      <4> QED
        BY <2>1, <3>1, <4>1 DEF Program
    <3>3. GoesOn(W, K, t \o c, s)
      <4> SUFFICES ASSUME Goes(Head(t), s),
                          NEW way \in (IF Head(t).do = "choose" THEN Head(t).ways ELSE {<<>>})
                   PROVE  <<way \o (Tail(t) \o c), After(W, s, Head(t))>> \in K
        BY <2>1, <2>4, <3>1 DEF GoesOn, SoundAt
      <4>1. <<way \o Tail(t), After(W, s, Head(t))>> \in K1
        BY <2>1, <2>4 DEF GoesOn, SoundAt
      <4>2. IsSeq(way)
        BY <1>4, <3>2
      <4>3. \A rest : IsSeq(rest) => (way \o rest) \o c = way \o (rest \o c)
        <5>1. IsSeq(c)
          BY <1>3
        <5> QED
          BY <4>2, <5>1, Associative, SMTT(30)
      <4>4. (way \o Tail(t)) \o c = way \o (Tail(t) \o c)
        BY <3>1, <4>3
      <4> QED
        BY <1>15, <4>1, <4>4
    <3>4. Breaks(W, K, E, t \o c, s)
      <4> SUFFICES ASSUME Head(t).do \in Throwing, NEW r \in Thrown(W, s, Head(t))
                   PROVE  IsCaught(t \o c) /\ <<AfterThrow(t \o c), r>> \in K
        BY <3>1 DEF Breaks
      <4>1. IF IsCaught(t) THEN <<AfterThrow(t), r>> \in K1 ELSE r \in X
        BY <2>1, <2>4 DEF Breaks, SoundAt
      <4>2. CASE ~IsCaught(t)
        <5>1. IsCaught(t \o c) /\ AfterThrow(t \o c) = handler
          BY <1>4, <2>1, <4>2, ThrowOut
        <5> QED
          BY <1>12, <1>13, <4>1, <4>2, <5>1
      <4>3. CASE IsCaught(t)
        <5>1. IsCaught(t \o c) /\ AfterThrow(t \o c) = AfterThrow(t) \o c
          BY <1>4, <1>5, <2>1, <4>3, ThrowInside
        <5> QED
          BY <1>15, <4>1, <4>3, <5>1
      <4> QED
        BY <4>2, <4>3
    <3> QED
      BY <2>2, <3>1, <3>3, <3>4 DEF SoundAt
  <2> QED
    BY <2>3, <2>4
<1>17. ASSUME NEW s \in S
       PROVE  SoundAt(W, K, T, E, p, s)
  <2>1. s \in States(W) /\ (CanLock(W, s) => <<p, Locked(s)>> \in K)
    BY <1>13 DEF Lockable
  <2>2. <<u, s>> \in K /\ <<>> \o u = u /\ After(W, s, try) = s
    BY <1>2, <1>6, <1>11, <1>15, <1>4, Concat DEF u, After, Changes
  <2>3. GoesOn(W, K, p, s)
    BY <1>2, <1>9, <2>2 DEF GoesOn, Kept
  <2>4. Breaks(W, K, E, p, s)
    BY <1>2, <1>9 DEF Breaks, Throwing
  <2> QED
    BY <1>9, <1>10, <2>1, <2>3, <2>4 DEF SoundAt, Complete
<1>18. ASSUME NEW s \in T
       PROVE  SoundAt(W, K, T, E, <<>>, s)
  BY <1>4, <1>13 DEF SoundAt, Lockable
<1>19. ASSUME NEW t, NEW s, SoundAt(W, K2, T, E, t, s)
       PROVE  SoundAt(W, K, T, E, t, s)
  <2>1. GoesOn(W, K2, t, s) => GoesOn(W, K, t, s)
    BY <1>13 DEF GoesOn
  <2>2. Breaks(W, K2, E, t, s) => Breaks(W, K, E, t, s)
    BY <1>13 DEF Breaks
  <2> QED
    BY <1>13, <1>19, <2>1, <2>2 DEF SoundAt
<1>20. Sound(W, K, T, E)
  <2> SUFFICES ASSUME NEW x \in K
               PROVE  \E t, s : x = <<t, s>> /\ SoundAt(W, K, T, E, t, s)
    BY DEF Sound
  <2>1. CASE x \in K2
    BY <1>12, <1>19, <2>1 DEF Sound
  <2>2. ASSUME NEW d \in K1, x = <<d[1] \o c, d[2]>>
        PROVE  \E t, s : x = <<t, s>> /\ SoundAt(W, K, T, E, t, s)
    <3>1. PICK t, s : d = <<t, s>>
      BY <1>11, <2>2 DEF Sound
    <3> QED
      BY <1>16, <2>2, <3>1
  <2>3. CASE \E s \in S : x = <<p, s>>
    BY <1>17, <2>3
  <2>4. CASE \E s \in T : x = <<<<>>, s>>
    BY <1>18, <2>4
  <2> QED
    BY <1>14, <2>1, <2>2, <2>3, <2>4
<1> QED
  BY <1>10, <1>13, <1>20 DEF Triple

-----------------------------------------------------------------------------
(* Procedures one after the other.                                         *)

\* f[i] is the first i procedures together.
Flattens(f, ps, n) == f = [i \in 1..n |-> IF i = 1 THEN ps[i] ELSE f[i-1] \o ps[i]]

LEMMA SomeFlattens ==
  ASSUME NEW ps, NEW n \in Nat
  PROVE  \E f : Flattens(f, ps, n)
<1> SUFFICES ASSUME ~ \E f : Flattens(f, ps, n)
             PROVE  FALSE
  OBVIOUS
<1> DEFINE bad == {m \in Nat : ~ \E f : Flattens(f, ps, m)}
<1>1. bad \in SUBSET Nat /\ n \in bad
  OBVIOUS
<1>2. PICK m \in bad : \A k \in bad : m <= k
  BY <1>1, LeastNumber
<1>3. m \in Nat /\ ~ \E f : Flattens(f, ps, m)
  BY <1>1, <1>2
<1>4. CASE m = 0
  <2> DEFINE f == [i \in 1..0 |-> ps[i]]
  <2>1. f = [i \in 1..0 |-> IF i = 1 THEN ps[i] ELSE f[i-1] \o ps[i]]
    OBVIOUS
  <2> HIDE DEF f
  <2> QED
    BY <1>3, <1>4, <2>1 DEF Flattens
<1>5. CASE m # 0
  <2>1. m - 1 \in Nat /\ ~(m <= m - 1)
    BY <1>3, <1>5
  <2>2. PICK g : Flattens(g, ps, m - 1)
    BY <1>2, <2>1
  <2> DEFINE last == IF m = 1 THEN ps[m] ELSE g[m-1] \o ps[m]
             f == [i \in 1..m |-> IF i = m THEN last ELSE g[i]]
  <2>3. ASSUME NEW i \in 1..m
        PROVE  f[i] = IF i = 1 THEN ps[i] ELSE f[i-1] \o ps[i]
    <3> HIDE DEF last
    <3>1. CASE i = m
      <4>1. i # 1 => i - 1 \in 1..m /\ i - 1 # m
        BY <1>3, <3>1
      <4>2. f[i] = last /\ (i # 1 => f[i-1] = g[i-1])
        BY <3>1, <4>1
      <4> QED
        BY <3>1, <4>2 DEF last
    <3>2. CASE i # m
      <4>1. i \in 1..m-1 /\ (i # 1 => i - 1 \in 1..m /\ i - 1 # m)
        BY <1>3, <3>2
      <4>2. f[i] = g[i] /\ (i # 1 => f[i-1] = g[i-1])
        BY <3>2, <4>1
      <4>3. g[i] = IF i = 1 THEN ps[i] ELSE g[i-1] \o ps[i]
        BY <2>2, <4>1 DEF Flattens
      <4> QED
        BY <4>2, <4>3
    <3> QED
      BY <3>1, <3>2
  <2>4. f = [i \in 1..m |-> f[i]]
    OBVIOUS
  <2> HIDE DEF f
  <2>5. f = [i \in 1..m |-> IF i = 1 THEN ps[i] ELSE f[i-1] \o ps[i]]
    BY <2>3, <2>4
  <2> QED
    BY <1>3, <2>5 DEF Flattens
<1> QED
  BY <1>4, <1>5

LEMMA DoRule ==
  ASSUME NEW W, NEW E, NEW ps, NEW n \in Nat \ {0}, Len(ps) = n, NEW S,
         \A i \in 1..n : Triple(W, S[i], ps[i], S[i+1], E)
  PROVE  Triple(W, S[1], Do(ps), S[n+1], E)
<1> DEFINE f == CHOOSE g : g = [i \in 1..n |-> IF i = 1 THEN ps[i] ELSE g[i-1] \o ps[i]]
<1>1. Do(ps) = f[n]
  BY DEF Do, FlattenSeq
<1>2. Flattens(f, ps, n)
  <2>1. \E g : g = [i \in 1..n |-> IF i = 1 THEN ps[i] ELSE g[i-1] \o ps[i]]
    BY SomeFlattens DEF Flattens
  <2>2. f = [i \in 1..n |-> IF i = 1 THEN ps[i] ELSE f[i-1] \o ps[i]]
    BY <2>1
  <2> QED
    BY <2>2 DEF Flattens
<1> HIDE DEF f
<1>3. \A i \in 1..n : f[i] = IF i = 1 THEN ps[i] ELSE f[i-1] \o ps[i]
  BY <1>2 DEF Flattens
<1> DEFINE bad == {i \in Nat : i \in 1..n /\ ~Triple(W, S[1], f[i], S[i+1], E)}
<1>4. ASSUME bad # {}
      PROVE  FALSE
  <2>1. PICK m \in bad : \A k \in bad : m <= k
    BY <1>4, LeastNumber
  <2>2. m \in 1..n /\ m \in Nat /\ ~Triple(W, S[1], f[m], S[m+1], E)
    OBVIOUS
  <2>3. CASE m = 1
    BY <1>3, <2>2, <2>3
  <2>4. CASE m # 1
    <3>1. m - 1 \in Nat /\ m - 1 \in 1..n /\ ~(m <= m - 1) /\ (m - 1) + 1 = m
      BY <2>2, <2>4
    <3>2. Triple(W, S[1], f[m-1], S[m], E)
      BY <2>1, <3>1
    <3>3. Triple(W, S[m], ps[m], S[m+1], E)
      BY <2>2
    <3>4. Triple(W, S[1], f[m-1] \o ps[m], S[m+1], E)
      BY <3>2, <3>3, SequenceRule
    <3> QED
      BY <1>3, <2>2, <2>4, <3>4
  <2> QED
    BY <2>3, <2>4
<1>5. n \in 1..n
  OBVIOUS
<1> QED
  BY <1>1, <1>4, <1>5

-----------------------------------------------------------------------------
(* States described by facts: pairs of a line and its value.               *)

At(W, F) ==
  {s \in States(W) : (W.forgives /\ s.warned) \/ \A p \in F : s.lines[p[1]] = p[2]}

\* Facts that stay true when the PLLs lock.
Stable(W, F) ==
  /\ \A p \in F : p[1] \in W.lines
  /\ W.plls => \A p \in F : p[1] = "pllLocked" => p[2] = "yes"

Does(W, F, p, G) == Triple(W, At(W, F), p, At(W, G), States(W))

\* The states in which the facts of one of several sets hold.
AtOne(W, Gs) == UNION {At(W, G) : G \in Gs}

LEMMA LockStays ==
  ASSUME NEW W, World(W), NEW s \in States(W), CanLock(W, s)
  PROVE  /\ Locked(s) \in States(W) /\ Locked(s).warned = s.warned
         /\ Locked(s).lines["pllLocked"] = "yes"
         /\ \A l \in W.lines : l # "pllLocked" => Locked(s).lines[l] = s.lines[l]
<1>1. /\ "pllLocked" \in W.lines /\ "yes" \in W.values
      /\ <<"pllLocked", "yes">> \notin W.never
  BY DEF World, CanLock
<1>2. /\ s \in [lines : [W.lines -> W.values], warned : W.warnings]
      /\ s.lines \in [W.lines -> W.values]
      /\ \A l \in W.lines : <<l, s.lines[l]>> \notin W.never
      /\ Tied(W, s.lines)
  BY DEF States
<1> DEFINE new == [s.lines EXCEPT !["pllLocked"] = "yes"]
<1>3. /\ new \in [W.lines -> W.values] /\ new["pllLocked"] = "yes"
      /\ \A l \in W.lines : l # "pllLocked" => new[l] = s.lines[l]
  BY <1>1, <1>2
<1>4. Locked(s) = [s EXCEPT !.lines = new]
  BY DEF Locked
<1> HIDE DEF new
<1>5. /\ Locked(s) \in [lines : [W.lines -> W.values], warned : W.warnings]
      /\ Locked(s).lines = new /\ Locked(s).warned = s.warned
  BY <1>2, <1>3, <1>4
<1>6. \A l \in W.lines : <<l, new[l]>> \notin W.never
  BY <1>1, <1>2, <1>3
<1>7. Tied(W, new)
  <2>1. \A h \in W.ties : new[h.line] = s.lines[h.line] /\ new[h.by] = s.lines[h.by]
    BY <1>3 DEF World, CanLock
  <2> QED
    BY <1>2, <2>1 DEF Tied
<1> QED
  BY <1>3, <1>5, <1>6, <1>7 DEF States

LEMMA StatesLockable == ASSUME NEW W, World(W) PROVE Lockable(W, States(W))
BY LockStays DEF Lockable

LEMMA AtLockable ==
  ASSUME NEW W, World(W), NEW F, Stable(W, F)
  PROVE  Lockable(W, At(W, F)) /\ At(W, F) \subseteq States(W)
<1>1. At(W, F) \subseteq States(W)
  BY DEF At
<1>2. ASSUME NEW s \in At(W, F), CanLock(W, s)
      PROVE  Locked(s) \in At(W, F)
  <2>1. s \in States(W) /\ W.plls
    BY <1>2 DEF At, CanLock
  <2>2. /\ Locked(s) \in States(W) /\ Locked(s).warned = s.warned
        /\ Locked(s).lines["pllLocked"] = "yes"
        /\ \A l \in W.lines : l # "pllLocked" => Locked(s).lines[l] = s.lines[l]
    BY <1>2, <2>1, LockStays
  <2> QED
    BY <2>1, <2>2 DEF At, Stable
<1> QED
  BY <1>1, <1>2 DEF Lockable

\* What is known allows a line to have a value.
Permitted(W, F, line, value) ==
  /\ line \in W.lines /\ value \in W.values /\ <<line, value>> \notin W.never
  /\ \A h \in W.ties :
       /\ h.line = line /\ value \in h.values => \E p \in F : p[1] = h.by /\ p[2] \in h.ats
       /\ h.by = line /\ value \notin h.ats => \E p \in F : p[1] = h.line /\ p[2] \notin h.values

Guarded(W, F, line, value) ==
  \A g \in W.guards : g.line = line => value \in g.free \/ <<g.by, g.at>> \in F

\* What writing a value to a line needs, and leaves.
Writes(W, F, line, value, G) ==
  /\ Permitted(W, F, line, value)
  /\ Stable(W, F) /\ Stable(W, G)
  /\ \A p \in G : p = <<line, value>> \/ (p \in F /\ p[1] # line)
  /\ (W.plls /\ line = "pllReset" /\ value = "active") => \A p \in G : p[1] # "pllLocked"
  /\ Guarded(W, F, line, value)

LEMMA Effects ==
  ASSUME NEW W, World(W), NEW F, NEW G, NEW line, NEW value, Writes(W, F, line, value, G),
         NEW step, step.do \in {"write", "settle"}, step.line = line, step.value = value,
         NEW s \in At(W, F)
  PROVE  After(W, s, step) \in At(W, G) /\ Kept(W, s.lines, After(W, s, step).lines)
<1>1. /\ s \in [lines : [W.lines -> W.values], warned : W.warnings]
      /\ s.lines \in [W.lines -> W.values]
      /\ \A l \in W.lines : <<l, s.lines[l]>> \notin W.never
      /\ Tied(W, s.lines)
      /\ (W.forgives /\ s.warned) \/ \A p \in F : s.lines[p[1]] = p[2]
  BY DEF At, States
<1>2. line \in W.lines /\ value \in W.values /\ <<line, value>> \notin W.never
  BY DEF Writes, Permitted
<1> DEFINE resets == W.plls /\ line = "pllReset" /\ value = "active"
           written == [s.lines EXCEPT ![line] = value]
           new == IF resets THEN [written EXCEPT !["pllLocked"] = "no"] ELSE written
<1>3. new = Effect(s.lines, step, W.plls)
  BY DEF Effect
<1>4. After(W, s, step) = [s EXCEPT !.lines = new]
  BY <1>3 DEF After, Changes
<1>5. /\ written \in [W.lines -> W.values] /\ written[line] = value
      /\ \A l \in W.lines : l # line => written[l] = s.lines[l]
  BY <1>1, <1>2
<1> HIDE DEF written
<1>6. resets => /\ "pllLocked" \in W.lines /\ "no" \in W.values
                /\ <<"pllLocked", "no">> \notin W.never /\ line # "pllLocked"
  BY DEF World
<1>7. /\ new \in [W.lines -> W.values] /\ new[line] = value
      /\ \A l \in W.lines : \/ l = line
                            \/ new[l] = s.lines[l]
                            \/ resets /\ l = "pllLocked" /\ new[l] = "no"
  BY <1>2, <1>5, <1>6
<1> HIDE DEF new
<1>8. /\ After(W, s, step) \in [lines : [W.lines -> W.values], warned : W.warnings]
      /\ After(W, s, step).lines = new /\ After(W, s, step).warned = s.warned
  BY <1>1, <1>4, <1>7
<1>9. /\ \A l \in W.lines : <<l, new[l]>> \notin W.never
      /\ Tied(W, new)
  <2>1. \A l \in W.lines : <<l, new[l]>> \notin W.never
    BY <1>1, <1>2, <1>6, <1>7
  <2>2. ASSUME NEW h \in W.ties, new[h.line] \in h.values
        PROVE  new[h.by] \in h.ats
    <3>1. /\ h.line \in W.lines /\ h.by \in W.lines /\ h.by # h.line
          /\ ~(resets /\ (h.line = "pllLocked" \/ h.by = "pllLocked"))
          /\ ~W.forgives
      BY DEF World
    <3>2. (h.line # line => new[h.line] = s.lines[h.line])
          /\ (h.by # line => new[h.by] = s.lines[h.by])
      BY <1>7, <3>1
    <3>3. \A p \in F : s.lines[p[1]] = p[2]
      BY <1>1, <3>1
    <3>4. CASE h.line = line
      <4>1. PICK p \in F : p[1] = h.by /\ p[2] \in h.ats
        BY <1>7, <2>2, <3>4 DEF Writes, Permitted
      <4> QED
        BY <3>1, <3>2, <3>3, <3>4, <4>1
    <3>5. CASE h.by = line /\ value \notin h.ats
      <4>1. PICK p \in F : p[1] = h.line /\ p[2] \notin h.values
        BY <3>5 DEF Writes, Permitted
      <4> QED
        BY <2>2, <3>1, <3>2, <3>3, <3>5, <4>1
    <3>6. CASE h.by = line /\ value \in h.ats
      BY <1>7, <3>6
    <3>7. CASE h.line # line /\ h.by # line
      BY <1>1, <2>2, <3>2, <3>7 DEF Tied
    <3> QED
      BY <3>4, <3>5, <3>6, <3>7
  <2> QED
    BY <2>1, <2>2 DEF Tied
<1>10. After(W, s, step) \in At(W, G)
  <2>1. After(W, s, step) \in States(W)
    BY <1>8, <1>9 DEF States
  <2>2. ASSUME ~(W.forgives /\ s.warned), NEW p \in G
        PROVE  new[p[1]] = p[2]
    <3>1. p[1] \in W.lines /\ (p = <<line, value>> \/ (p \in F /\ p[1] # line))
      BY DEF Writes, Stable
    <3>2. resets => p[1] # "pllLocked"
      BY DEF Writes
    <3> QED
      BY <1>1, <1>7, <2>2, <3>1, <3>2
  <2> QED
    BY <1>8, <2>1, <2>2 DEF At
<1>11. Kept(W, s.lines, new)
  <2> SUFFICES ASSUME NEW g \in W.guards, new[g.line] # s.lines[g.line]
               PROVE  new[g.line] \in g.free \/ s.lines[g.by] = g.at
    BY DEF Kept
  <2>1. ~W.forgives /\ (resets => g.line # "pllLocked")
    BY DEF World
  <2>2. g.line \in W.lines
    BY DEF World
  <2>3. g.line = line
    BY <1>7, <2>1, <2>2
  <2>4. value \in g.free \/ <<g.by, g.at>> \in F
    BY <2>3 DEF Writes, Guarded
  <2>5. <<g.by, g.at>> \in F => s.lines[g.by] = g.at
    BY <1>1, <2>1
  <2> QED
    BY <1>7, <2>3, <2>4, <2>5
<1> QED
  BY <1>8, <1>10, <1>11

-----------------------------------------------------------------------------
(* The rules for facts.                                                    *)

LEMMA WriteInto ==
  ASSUME NEW W, World(W), NEW F, NEW G, NEW line, NEW value, Writes(W, F, line, value, G),
         NEW E, At(W, F) \subseteq E, At(W, G) \subseteq E
  PROVE  Triple(W, At(W, F), Write(line, value), At(W, G), E)
<1> DEFINE step == [do |-> "write", line |-> line, value |-> value, ways |-> {}]
<1>1. step.do = "write" /\ step.line = line /\ step.value = value
  OBVIOUS
<1>2. Lockable(W, At(W, F)) /\ Lockable(W, At(W, G))
  BY AtLockable DEF Writes
<1>3. \A s \in At(W, F) : /\ Kept(W, s.lines, After(W, s, step).lines)
                          /\ After(W, s, step) \in At(W, G)
  <2> HIDE DEF step
  <2> QED
    BY <1>1, Effects
<1>4. \A s \in At(W, F) : Thrown(W, s, step) \subseteq E
  <2> HIDE DEF step
  <2> QED
    BY <1>3 DEF Thrown
<1>5. Triple(W, At(W, F), SingleStep("write", line, value, {}), At(W, G), E)
  BY <1>2, <1>3, <1>4, StepRule
<1> QED
  BY <1>5 DEF Write

LEMMA DoesWrite ==
  ASSUME NEW W, World(W), NEW F, NEW G, NEW line, NEW value, Writes(W, F, line, value, G)
  PROVE  Does(W, F, Write(line, value), G)
BY WriteInto, AtLockable DEF Does, Writes

LEMMA DoesSettle ==
  ASSUME NEW W, World(W), NEW F, NEW G, NEW line, NEW value, Writes(W, F, line, value, G)
  PROVE  Does(W, F, Settle(line, value), G)
<1> DEFINE step == [do |-> "settle", line |-> line, value |-> value, ways |-> {}]
<1>1. step.do = "settle" /\ step.line = line /\ step.value = value
  OBVIOUS
<1>2. Lockable(W, At(W, F)) /\ Lockable(W, At(W, G))
  BY AtLockable DEF Writes
<1>3. \A s \in At(W, F) : /\ Kept(W, s.lines, After(W, s, step).lines)
                          /\ After(W, s, step) \in At(W, G)
  <2> HIDE DEF step
  <2> QED
    BY <1>1, Effects
<1>4. "settle" \notin Throwing
  BY DEF Throwing
<1>5. Triple(W, At(W, F), SingleStep("settle", line, value, {}), At(W, G), States(W))
  BY <1>2, <1>3, <1>4, StepRule
<1> QED
  BY <1>5 DEF Settle, Does

\* Accesses that change nothing.
LEMMA AccessInto ==
  ASSUME NEW W, World(W), NEW F, Stable(W, F), NEW line, NEW do \in {"read", "tell", "connect"}
  PROVE  Triple(W, At(W, F), SingleStep(do, line, "none", {}), At(W, F), At(W, F))
<1> DEFINE step == [do |-> do, line |-> line, value |-> "none", ways |-> {}]
<1>1. step.do = do
  OBVIOUS
<1>2. Lockable(W, At(W, F))
  BY AtLockable
<1>3. \A s \in At(W, F) : After(W, s, step) = s /\ Thrown(W, s, step) = {s}
  BY <1>1 DEF After, Thrown, Changes
<1> HIDE DEF step
<1>4. \A s \in At(W, F) : /\ Kept(W, s.lines, After(W, s, step).lines)
                          /\ After(W, s, step) \in At(W, F)
                          /\ Thrown(W, s, step) \subseteq At(W, F)
  BY <1>3 DEF Kept
<1> QED
  BY <1>2, <1>4, StepRule DEF step

LEMMA DoesRead ==
  ASSUME NEW W, World(W), NEW F, Stable(W, F), NEW line
  PROVE  Does(W, F, Read(line), F)
BY AccessInto, AtLockable, Weaken DEF Does, Read

LEMMA DoesAwait ==
  ASSUME NEW W, World(W), NEW F, NEW G, NEW line, NEW value, Stable(W, F), Stable(W, G),
         G \subseteq F \cup {<<line, value>>}
  PROVE  Does(W, F, Await(line, value), G)
<1> DEFINE step == [do |-> "await", line |-> line, value |-> value, ways |-> {}]
<1>1. step.do = "await" /\ step.line = line /\ step.value = value
  OBVIOUS
<1>2. Lockable(W, At(W, F)) /\ Lockable(W, At(W, G)) /\ At(W, F) \subseteq States(W)
  BY AtLockable
<1>3. \A s \in At(W, F) : After(W, s, step) = s /\ Thrown(W, s, step) = {s}
  BY <1>1 DEF After, Thrown, Changes
<1>4. \A s \in At(W, F) : Goes(step, s) => s.lines[line] = value
  BY <1>1 DEF Goes
<1> HIDE DEF step
<1>5. \A s \in At(W, F) : Goes(step, s) => s \in At(W, G)
  <2> SUFFICES ASSUME NEW s \in At(W, F), Goes(step, s) PROVE s \in At(W, G)
    OBVIOUS
  <2>1. \A p \in G : p \in F \/ (p[1] = line /\ p[2] = value)
    OBVIOUS
  <2> QED
    BY <1>4, <2>1 DEF At
<1>6. \A s \in At(W, F) : Goes(step, s) => /\ Kept(W, s.lines, After(W, s, step).lines)
                                           /\ After(W, s, step) \in At(W, G)
  BY <1>3, <1>5 DEF Kept
<1>7. \A s \in At(W, F) : Thrown(W, s, step) \subseteq States(W)
  BY <1>2, <1>3
<1>8. Triple(W, At(W, F), SingleStep("await", line, value, {}), At(W, G), States(W))
  BY <1>2, <1>6, <1>7, StepRule DEF step
<1> QED
  BY <1>8 DEF Await, Does

LEMMA DoesWarn ==
  ASSUME NEW W, World(W), TRUE \in W.warnings, NEW F, NEW G, Stable(W, F), Stable(W, G),
         W.forgives \/ G \subseteq F
  PROVE  Does(W, F, Warn, G)
<1> DEFINE step == [do |-> "warn", line |-> "none", value |-> "none", ways |-> {}]
<1>1. step.do = "warn"
  OBVIOUS
<1>2. Lockable(W, At(W, F)) /\ Lockable(W, At(W, G)) /\ At(W, F) \subseteq States(W)
  BY AtLockable
<1>3. ASSUME NEW s \in At(W, F)
      PROVE  /\ Kept(W, s.lines, After(W, s, step).lines)
             /\ After(W, s, step) \in At(W, G)
  <2>1. s \in [lines : [W.lines -> W.values], warned : W.warnings] /\ s \in States(W)
    BY DEF At, States
  <2>2. After(W, s, step) = [s EXCEPT !.warned = TRUE]
    BY <1>1 DEF After, Changes
  <2> HIDE DEF step
  <2>3. /\ After(W, s, step) \in [lines : [W.lines -> W.values], warned : W.warnings]
        /\ After(W, s, step).lines = s.lines /\ After(W, s, step).warned = TRUE
    BY <2>1, <2>2
  <2>4. After(W, s, step) \in States(W)
    BY <2>1, <2>3 DEF States
  <2>5. W.forgives \/ \A p \in G : s.lines[p[1]] = p[2] \/ W.forgives
    BY DEF At
  <2> QED
    BY <2>3, <2>4, <2>5 DEF At, Kept
<1>4. "warn" \notin Throwing
  BY DEF Throwing
<1>5. Triple(W, At(W, F), SingleStep("warn", "none", "none", {}), At(W, G), States(W))
  BY <1>2, <1>3, <1>4, StepRule
<1> QED
  BY <1>5 DEF Warn, Does

LEMMA DoesRaise ==
  ASSUME NEW W, World(W), NEW F, NEW G, Stable(W, F), Stable(W, G)
  PROVE  Does(W, F, Raise, G)
<1> DEFINE step == [do |-> "raise", line |-> "none", value |-> "none", ways |-> {}]
<1>1. step.do = "raise"
  OBVIOUS
<1>2. Lockable(W, At(W, F)) /\ Lockable(W, At(W, G)) /\ At(W, F) \subseteq States(W)
  BY AtLockable
<1>3. \A s \in At(W, F) : ~Goes(step, s) /\ Thrown(W, s, step) \subseteq States(W)
  BY <1>1, <1>2 DEF Goes, Thrown
<1>4. Triple(W, At(W, F), SingleStep("raise", "none", "none", {}), At(W, G), States(W))
  BY <1>2, <1>3, StepRule
<1> QED
  BY <1>4 DEF Raise, Does

LEMMA DoesNothing ==
  ASSUME NEW W, World(W), NEW F, NEW G, Stable(W, F), G \subseteq F
  PROVE  Does(W, F, Nothing, G)
<1>1. At(W, F) \subseteq At(W, G)
  BY DEF At
<1> QED
  BY <1>1, AtLockable, SkipRule DEF Does, Nothing

LEMMA DoesLess ==
  ASSUME NEW W, NEW F, NEW G, NEW H, NEW I, NEW p, Does(W, F, p, G), F \subseteq H, I \subseteq G
  PROVE  Does(W, H, p, I)
<1>1. At(W, H) \subseteq At(W, F) /\ At(W, G) \subseteq At(W, I)
  BY DEF At
<1> QED
  BY <1>1, Weaken DEF Does

LEMMA DoesIf ==
  ASSUME NEW W, World(W), NEW F, NEW G, NEW condition \in BOOLEAN, NEW p, Stable(W, F),
         condition => Does(W, F, p, G), ~condition => G \subseteq F
  PROVE  Does(W, F, If(condition, p), G)
BY DoesNothing DEF If, Nothing

LEMMA DoesSequence ==
  ASSUME NEW W, NEW F, NEW G, NEW H, NEW p, NEW q, Does(W, F, p, G), Does(W, G, q, H)
  PROVE  Does(W, F, p \o q, H)
BY SequenceRule DEF Does

\* The facts F[1], F[2], ... before each of the procedures and after the last.
Chain(W, F, ps, n) ==
  n \in Nat \ {0} /\ Len(ps) = n /\ \A i \in 1..n : Does(W, F[i], ps[i], F[i+1])

LEMMA DoesDo ==
  ASSUME NEW W, NEW ps, NEW n, NEW F, Chain(W, F, ps, n), NEW A, A = F[1], NEW G, G = F[n+1]
  PROVE  Does(W, A, Do(ps), G)
<1>1. n \in Nat \ {0} /\ Len(ps) = n /\ \A i \in 1..n : Does(W, F[i], ps[i], F[i+1])
  BY DEF Chain
<1> DEFINE S == [i \in 1..n+1 |-> At(W, F[i])]
<1>2. \A i \in 1..n : S[i] = At(W, F[i]) /\ S[i+1] = At(W, F[i+1])
  BY <1>1
<1>3. S[1] = At(W, A) /\ S[n+1] = At(W, G)
  BY <1>1
<1> HIDE DEF S
<1>4. \A i \in 1..n : Triple(W, S[i], ps[i], S[i+1], States(W))
  BY <1>1, <1>2 DEF Does
<1>5. Triple(W, S[1], Do(ps), S[n+1], States(W))
  BY <1>1, <1>4, DoRule
<1> QED
  BY <1>3, <1>5 DEF Does

LEMMA DoesChoose ==
  ASSUME NEW W, World(W), NEW F, NEW G, NEW p, NEW q, Stable(W, F),
         Does(W, F, p, G), Does(W, F, q, G)
  PROVE  Does(W, F, Choose({p, q}), G)
BY ChooseRule, AtLockable DEF Does

\* A handler that can cope with any state.
LEMMA DoesAttempt ==
  ASSUME NEW W, World(W), NEW F, NEW G, NEW p, NEW q, Stable(W, F), Stable(W, G),
         Does(W, F, p, G), Does(W, {}, q, G)
  PROVE  Does(W, F, Attempt(p, q), G)
<1>1. At(W, {}) = States(W)
  BY DEF At
<1> QED
  BY <1>1, AttemptRule, AtLockable DEF Does

\* A body that does not touch what is known, tolerated if it throws.
LEMMA DoesTolerate ==
  ASSUME NEW W, World(W), NEW F, NEW p, Stable(W, F),
         Triple(W, At(W, F), p, At(W, F), At(W, F))
  PROVE  Does(W, F, Attempt(p, Nothing), F)
<1>1. Triple(W, At(W, F), Nothing, At(W, F), States(W))
  BY DoesNothing DEF Does
<1> QED
  BY <1>1, AttemptRule, AtLockable DEF Does

\* WriteAll and Toggle.
LEMMA DoesTwice ==
  ASSUME NEW W, World(W), NEW F, NEW G, NEW line, NEW value, NEW first,
         Writes(W, F, line, value, G), Permitted(W, F, line, first), Guarded(W, F, line, first),
         ~(W.plls /\ line = "pllReset")
  PROVE  Does(W, F, Write(line, first) \o Write(line, value), G)
<1> DEFINE H == {p \in F : p[1] # line}
<1>1. Stable(W, H)
  BY DEF Stable, Writes
<1>2. Writes(W, F, line, first, H)
  BY <1>1 DEF Writes
<1>4. Permitted(W, H, line, value)
  <2>1. ASSUME NEW h \in W.ties
        PROVE  /\ h.line = line /\ value \in h.values =>
                    \E p \in H : p[1] = h.by /\ p[2] \in h.ats
               /\ h.by = line /\ value \notin h.ats =>
                    \E p \in H : p[1] = h.line /\ p[2] \notin h.values
    BY <2>1 DEF Writes, Permitted, World
  <2> QED
    BY <2>1 DEF Writes, Permitted
<1>3. Writes(W, H, line, value, G)
  <2>1. \A p \in G : p = <<line, value>> \/ (p \in H /\ p[1] # line)
    BY DEF Writes
  <2>2. Guarded(W, H, line, value)
    BY DEF Writes, Guarded, World
  <2> QED
    BY <1>1, <1>4, <2>1, <2>2 DEF Writes
<1> QED
  BY <1>2, <1>3, DoesWrite, DoesSequence

-----------------------------------------------------------------------------
(* Triples are about any part of a world that is closed.                   *)

\* Worlds with the same lines and PLLs, and no guards.
Smaller(V, W) == V.plls = W.plls /\ W.guards = {} /\ States(V) \subseteq States(W)

LEMMA InLarger ==
  ASSUME NEW V, NEW W, Smaller(V, W), NEW S, NEW p, NEW T, NEW E, Triple(V, S, p, T, E)
  PROVE  Triple(W, S, p, T, E)
<1>1. PICK K : Sound(V, K, T, E) /\ \A s \in S : <<p, s>> \in K
  BY DEF Triple
<1>2. /\ \A s, step : After(V, s, step) = After(W, s, step)
      /\ \A s, step : Thrown(V, s, step) = Thrown(W, s, step)
      /\ \A s : CanLock(V, s) <=> CanLock(W, s)
      /\ \A old, new : Kept(W, old, new)
  BY DEF Smaller, After, Thrown, CanLock, Kept
<1>3. ASSUME NEW t, NEW s, SoundAt(V, K, T, E, t, s)
      PROVE  SoundAt(W, K, T, E, t, s)
  <2>1. GoesOn(V, K, t, s) => GoesOn(W, K, t, s)
    BY <1>2 DEF GoesOn
  <2>2. Breaks(V, K, E, t, s) => Breaks(W, K, E, t, s)
    BY <1>2 DEF Breaks
  <2>3. s \in States(W)
    BY <1>3 DEF SoundAt, Smaller
  <2> QED
    BY <1>2, <1>3, <2>1, <2>2, <2>3 DEF SoundAt
<1>4. Sound(W, K, T, E)
  BY <1>1, <1>3 DEF Sound
<1> QED
  BY <1>1, <1>4 DEF Triple

\* More configurations make no promise of one false.
LEMMA SoundAtMore ==
  ASSUME NEW W, NEW J, NEW K, NEW T, NEW E, NEW t, NEW s, J \subseteq K, SoundAt(W, J, T, E, t, s)
  PROVE  SoundAt(W, K, T, E, t, s)
<1>1. GoesOn(W, J, t, s) => GoesOn(W, K, t, s)
  BY DEF GoesOn
<1>2. Breaks(W, J, E, t, s) => Breaks(W, K, E, t, s)
  BY DEF Breaks
<1> QED
  BY <1>1, <1>2 DEF SoundAt

LEMMA CasesRule ==
  ASSUME NEW W, NEW S, NEW R, NEW p, NEW T, NEW E, Triple(W, S, p, T, E), Triple(W, R, p, T, E)
  PROVE  Triple(W, S \cup R, p, T, E)
<1>1. PICK K1 : Sound(W, K1, T, E) /\ \A s \in S : <<p, s>> \in K1
  BY DEF Triple
<1>2. PICK K2 : Sound(W, K2, T, E) /\ \A s \in R : <<p, s>> \in K2
  BY DEF Triple
<1> DEFINE K == K1 \cup K2
<1>3. K1 \subseteq K /\ K2 \subseteq K
  OBVIOUS
<1>4. ASSUME NEW c \in K
      PROVE  \E t, s : c = <<t, s>> /\ SoundAt(W, K, T, E, t, s)
  <2>1. c \in K1 \/ c \in K2
    OBVIOUS
  <2> HIDE DEF K
  <2>2. \E t, s : c = <<t, s>> /\ (SoundAt(W, K1, T, E, t, s) \/ SoundAt(W, K2, T, E, t, s))
    BY <1>1, <1>2, <2>1 DEF Sound
  <2> QED
    BY <1>3, <2>2, SoundAtMore
<1>5. Sound(W, K, T, E) /\ \A s \in S \cup R : <<p, s>> \in K
  <2>1. Sound(W, K, T, E)
    BY <1>4 DEF Sound
  <2> QED
    BY <1>1, <1>2, <2>1
<1> QED
  BY <1>5 DEF Triple

\* From each of several sets.
LEMMA EachRule ==
  ASSUME NEW W, NEW V, V # {}, NEW A, NEW p, NEW T, NEW E,
         \A v \in V : Triple(W, A[v], p, T, E)
  PROVE  Triple(W, UNION {A[v] : v \in V}, p, T, E)
<1> DEFINE goes(v, K) == Sound(W, K, T, E) /\ \A s \in A[v] : <<p, s>> \in K
           of == [v \in V |-> CHOOSE K : goes(v, K)]
           all == UNION {of[v] : v \in V}
<1>1. ASSUME NEW v \in V
      PROVE  goes(v, of[v])
  <2>1. \E J : goes(v, J)
    BY DEF Triple
  <2>2. goes(v, CHOOSE J : goes(v, J))
    <3> HIDE DEF goes
    <3> QED
      BY <2>1
  <2>3. of[v] = CHOOSE J : goes(v, J)
    OBVIOUS
  <2> QED
    BY <2>2, <2>3
<1>2. Complete(p)
  BY DEF Triple
<1>3. /\ \A v \in V : of[v] \subseteq all
      /\ \A c \in all : \E v \in V : c \in of[v]
  <2> HIDE DEF of
  <2> QED
    OBVIOUS
<1> HIDE DEF all, of
<1>4. Sound(W, all, T, E)
  <2> SUFFICES ASSUME NEW c \in all
               PROVE  \E t, s : c = <<t, s>> /\ SoundAt(W, all, T, E, t, s)
    BY DEF Sound
  <2>1. PICK v \in V : c \in of[v]
    BY <1>3
  <2>2. Sound(W, of[v], T, E) /\ of[v] \subseteq all
    BY <1>1, <1>3
  <2>3. PICK t, s : c = <<t, s>> /\ SoundAt(W, of[v], T, E, t, s)
    BY <2>1, <2>2 DEF Sound
  <2> QED
    BY <2>2, <2>3, SoundAtMore
<1>5. \A s \in UNION {A[v] : v \in V} : <<p, s>> \in all
  BY <1>1, <1>3
<1> QED
  BY <1>2, <1>4, <1>5 DEF Triple

\* Whatever the device answers.
LEMMA ChooseAnyRule ==
  ASSUME NEW W, NEW S, NEW T, NEW E, NEW ways, Lockable(W, S),
         \A way \in ways : Triple(W, S, way, T, E)
  PROVE  Triple(W, S, Choose(ways), T, E)
<1> SUFFICES ASSUME NEW c, c = SingleStep("choose", "none", "none", ways)
             PROVE  Triple(W, S, c, T, E)
  BY DEF Choose
<1> DEFINE step == [do |-> "choose", line |-> "none", value |-> "none", ways |-> ways]
<1>1. Alone(c, step)
  BY OneStep
<1>2. step.do = "choose" /\ step.ways = ways
  OBVIOUS
<1> HIDE DEF step
<1>3. IsSeq(c) /\ c # <<>> /\ Head(c) = step /\ Tail(c) = <<>>
  BY <1>1 DEF Alone
<1>4. (\A way \in ways : IsSeq(way)) /\ IsSeq(<<>>)
  BY CompleteNothing DEF Triple, Complete, Program
<1>5. Complete(c)
  BY <1>4, CompleteStep
<1> DEFINE goes(way, K) == Sound(W, K, T, E) /\ \A s \in S : <<way, s>> \in K
           of == [way \in ways |-> CHOOSE K : goes(way, K)]
           all == UNION {of[way] : way \in ways}
           K == {<<c, s>> : s \in S} \cup all
<1>6. ASSUME NEW way \in ways
      PROVE  goes(way, of[way])
  <2>1. \E J : goes(way, J)
    BY DEF Triple
  <2>2. goes(way, CHOOSE J : goes(way, J))
    <3> HIDE DEF goes
    <3> QED
      BY <2>1
  <2>3. of[way] = CHOOSE J : goes(way, J)
    OBVIOUS
  <2> QED
    BY <2>2, <2>3
<1>7. /\ \A way \in ways : of[way] \subseteq K
      /\ \A s \in S : <<c, s>> \in K
      /\ \A x \in K : (\E way \in ways : x \in of[way]) \/ \E s \in S : x = <<c, s>>
  <2> HIDE DEF of
  <2> QED
    OBVIOUS
<1> HIDE DEF K, all, of
<1>8. ASSUME NEW s \in S
      PROVE  SoundAt(W, K, T, E, c, s)
  <2>1. s \in States(W) /\ (CanLock(W, s) => <<c, Locked(s)>> \in K)
    BY <1>7 DEF Lockable
  <2>2. (\A way \in ways : way \o <<>> = way) /\ After(W, s, step) = s
    BY <1>2, <1>4, Concat DEF After, Changes
  <2>3. \A way \in ways : <<way, s>> \in K
    BY <1>6, <1>7
  <2>4. GoesOn(W, K, c, s)
    BY <1>2, <1>3, <2>2, <2>3 DEF GoesOn, Kept
  <2>5. Breaks(W, K, E, c, s)
    BY <1>2, <1>3 DEF Breaks, Throwing
  <2> QED
    BY <1>3, <1>5, <2>1, <2>4, <2>5 DEF SoundAt, Complete
<1>9. Sound(W, K, T, E)
  <2> SUFFICES ASSUME NEW x \in K
               PROVE  \E t, s : x = <<t, s>> /\ SoundAt(W, K, T, E, t, s)
    BY DEF Sound
  <2>1. ASSUME NEW way \in ways, x \in of[way]
        PROVE  \E t, s : x = <<t, s>> /\ SoundAt(W, K, T, E, t, s)
    <3>1. Sound(W, of[way], T, E) /\ of[way] \subseteq K
      BY <1>6, <1>7
    <3>2. PICK t, s : x = <<t, s>> /\ SoundAt(W, of[way], T, E, t, s)
      BY <2>1, <3>1 DEF Sound
    <3> QED
      BY <3>1, <3>2, SoundAtMore
  <2>2. CASE \E s \in S : x = <<c, s>>
    BY <1>8, <2>2
  <2> QED
    BY <1>7, <2>1, <2>2
<1> QED
  BY <1>5, <1>7, <1>9 DEF Triple

\* A report, whatever the state.
LEMMA WarnRule ==
  ASSUME NEW W, World(W), TRUE \in W.warnings
  PROVE  Triple(W, States(W), Warn, {s \in States(W) : s.warned = TRUE}, States(W))
<1> DEFINE step == [do |-> "warn", line |-> "none", value |-> "none", ways |-> {}]
           T == {s \in States(W) : s.warned = TRUE}
<1>1. step.do = "warn"
  OBVIOUS
<1>2. Lockable(W, States(W)) /\ Lockable(W, T)
  BY StatesLockable, LockStays DEF Lockable
<1>3. ASSUME NEW s \in States(W)
      PROVE  Kept(W, s.lines, After(W, s, step).lines) /\ After(W, s, step) \in T
  <2>1. s \in [lines : [W.lines -> W.values], warned : W.warnings]
    BY DEF States
  <2>2. After(W, s, step) = [s EXCEPT !.warned = TRUE]
    BY <1>1 DEF After, Changes
  <2> HIDE DEF step
  <2>3. /\ After(W, s, step) \in [lines : [W.lines -> W.values], warned : W.warnings]
        /\ After(W, s, step).lines = s.lines /\ After(W, s, step).warned = TRUE
    BY <2>1, <2>2
  <2>4. After(W, s, step) \in States(W)
    BY <2>1, <2>3 DEF States
  <2> QED
    BY <2>3, <2>4 DEF Kept
<1>4. "warn" \notin Throwing
  BY DEF Throwing
<1>5. Triple(W, States(W), SingleStep("warn", "none", "none", {}), T, States(W))
  BY <1>2, <1>3, <1>4, StepRule
<1> QED
  BY <1>5 DEF Warn

\* An exception, whatever the state.
LEMMA RaiseRule ==
  ASSUME NEW W, World(W), NEW T, Lockable(W, T)
  PROVE  Triple(W, States(W), Raise, T, States(W))
<1> DEFINE step == [do |-> "raise", line |-> "none", value |-> "none", ways |-> {}]
<1>1. step.do = "raise"
  OBVIOUS
<1>2. \A s \in States(W) : ~Goes(step, s) /\ Thrown(W, s, step) \subseteq States(W)
  BY <1>1 DEF Goes, Thrown
<1>3. Triple(W, States(W), SingleStep("raise", "none", "none", {}), T, States(W))
  BY <1>2, StatesLockable, StepRule
<1> QED
  BY <1>3 DEF Raise

-----------------------------------------------------------------------------
(* Clients that repeat a write: one that had its effect may be done again. *)

Again(W, K) ==
  \A t, s : <<t, s>> \in K /\ t # <<>> /\ Head(t).do = "write" => <<t, After(W, s, Head(t))>> \in K

\* A second write has no effect, also when the PLLs have locked since.
LEMMA WrittenTwice ==
  ASSUME NEW W, World(W), NEW s \in States(W), NEW step, step.do = "write",
         NEW x, x = After(W, s, step), x \in States(W)
  PROVE  /\ After(W, x, step) = x
         /\ CanLock(W, x) => After(W, Locked(x), step) \in {x, Locked(x)}
<1> DEFINE line == step.line
           value == step.value
           resets == W.plls /\ line = "pllReset" /\ value = "active"
<1>1. /\ s.lines \in [W.lines -> W.values] /\ x.lines \in [W.lines -> W.values]
      /\ s \in [lines : [W.lines -> W.values], warned : W.warnings]
      /\ x \in [lines : [W.lines -> W.values], warned : W.warnings]
  BY DEF States
<1>2. \A y : After(W, y, step) = [y EXCEPT !.lines = Effect(y.lines, step, W.plls)]
  BY DEF After, Changes
<1>3. \A l : Effect(l, step, W.plls) =
               IF resets THEN [[l EXCEPT ![line] = value] EXCEPT !["pllLocked"] = "no"]
                         ELSE [l EXCEPT ![line] = value]
  BY DEF Effect
<1> HIDE DEF resets, line, value
<1>4. x.lines = Effect(s.lines, step, W.plls)
  BY <1>1, <1>2
<1>5. ASSUME NEW l \in [W.lines -> W.values], line \in W.lines => l[line] = value, ~resets
      PROVE  Effect(l, step, W.plls) = l
  BY <1>3, <1>5
<1>6. /\ line \in W.lines /\ ~resets => x.lines[line] = value
      /\ resets => /\ line = "pllReset" /\ value = "active"
                   /\ "pllReset" \in W.lines /\ "pllLocked" \in W.lines
                   /\ x.lines["pllReset"] = "active" /\ x.lines["pllLocked"] = "no"
  <2>1. ~resets => x.lines = [s.lines EXCEPT ![line] = value]
    BY <1>3, <1>4
  <2>2. ASSUME resets
        PROVE  /\ line = "pllReset" /\ value = "active"
               /\ "pllReset" \in W.lines /\ "pllLocked" \in W.lines
               /\ x.lines["pllReset"] = "active" /\ x.lines["pllLocked"] = "no"
    <3>1. line = "pllReset" /\ value = "active" /\ W.plls
      BY <2>2 DEF resets
    <3>2. "pllReset" \in W.lines /\ "pllLocked" \in W.lines
      BY <3>1 DEF World
    <3>3. x.lines = [[s.lines EXCEPT ![line] = value] EXCEPT !["pllLocked"] = "no"]
      BY <1>3, <1>4, <2>2
    <3> QED
      BY <1>1, <3>1, <3>2, <3>3
  <2> QED
    BY <1>1, <2>1, <2>2
<1>7. Effect(x.lines, step, W.plls) = x.lines
  BY <1>1, <1>3, <1>5, <1>6
<1>8. After(W, x, step) = x
  BY <1>1, <1>2, <1>7
<1>9. ASSUME CanLock(W, x)
      PROVE  After(W, Locked(x), step) \in {x, Locked(x)}
  <2>1. W.plls /\ "pllLocked" \in W.lines /\ x.lines["pllReset"] = "inactive" /\ "yes" \in W.values
    BY <1>9 DEF CanLock, World
  <2>2. ~resets
    BY <1>6, <2>1
  <2> DEFINE new == [x.lines EXCEPT !["pllLocked"] = "yes"]
  <2>3. new \in [W.lines -> W.values]
    BY <1>1, <2>1
  <2>4. Locked(x) = [x EXCEPT !.lines = new]
    BY DEF Locked
  <2>5. /\ After(W, Locked(x), step) =
             [Locked(x) EXCEPT !.lines = Effect(Locked(x).lines, step, W.plls)]
        /\ Locked(x).lines = new
    <3>1. After(W, Locked(x), step) =
            [Locked(x) EXCEPT !.lines = Effect(Locked(x).lines, step, W.plls)]
      BY <1>2
    <3> HIDE DEF new
    <3>2. Locked(x).lines = new
      BY <1>1, <2>4
    <3> QED
      BY <3>1, <3>2
  <2>6. CASE line = "pllLocked"
    <3>1. Effect(new, step, W.plls) = x.lines
      <4>1. Effect(new, step, W.plls) = [new EXCEPT !["pllLocked"] = value]
        BY <1>3, <2>2, <2>6
      <4>2. x.lines["pllLocked"] = value
        BY <1>6, <2>1, <2>2, <2>6
      <4> QED
        BY <1>1, <2>1, <4>1, <4>2
    <3> HIDE DEF new
    <3>2. [[x EXCEPT !.lines = new] EXCEPT !.lines = x.lines] = x
      BY <1>1
    <3>3. After(W, Locked(x), step) = [[x EXCEPT !.lines = new] EXCEPT !.lines = x.lines]
      BY <2>4, <2>5, <3>1
    <3> QED
      BY <3>2, <3>3
  <2>7. CASE line # "pllLocked"
    <3>1. line \in W.lines => new[line] = value
      BY <1>1, <1>6, <2>1, <2>2, <2>7
    <3>2. Effect(new, step, W.plls) = new
      BY <1>5, <2>2, <2>3, <3>1
    <3> HIDE DEF new
    <3>3. [[x EXCEPT !.lines = new] EXCEPT !.lines = new] = [x EXCEPT !.lines = new]
      BY <1>1
    <3>4. After(W, Locked(x), step) = [[x EXCEPT !.lines = new] EXCEPT !.lines = new]
      BY <2>4, <2>5, <3>2
    <3> QED
      BY <2>4, <3>3, <3>4
  <2> QED
    BY <2>6, <2>7
<1> QED
  BY <1>8, <1>9

\* What may follow a write.
Goodness(W, K, t, x) ==
  /\ x \in States(W) /\ <<Tail(t), x>> \in K
  /\ IsCaught(t) => <<AfterThrow(t), x>> \in K

LEMMA GoodLocked ==
  ASSUME NEW W, NEW K, NEW T, NEW E, Sound(W, K, T, E), World(W), NEW t, NEW x,
         Goodness(W, K, t, x), CanLock(W, x)
  PROVE  Goodness(W, K, t, Locked(x))
<1>1. \A u : <<u, x>> \in K => <<u, Locked(x)>> \in K
  BY DEF Sound, SoundAt
<1> QED
  BY <1>1, LockStays DEF Goodness

LEMMA GoodWritten ==
  ASSUME NEW W, NEW K, NEW T, Sound(W, K, T, States(W)), World(W), NEW t, NEW s,
         <<t, s>> \in K, t # <<>>, Head(t).do = "write"
  PROVE  Goodness(W, K, t, After(W, s, Head(t))) /\ Program(t) /\ s \in States(W)
<1> DEFINE step == Head(t)
           x == After(W, s, step)
<1>1. SoundAt(W, K, T, States(W), t, s)
  BY DEF Sound
<1>2. Goes(step, s) /\ step.do \in Throwing /\ step.do # "choose"
  BY DEF Goes, Throwing
<1>3. <<<<>> \o Tail(t), x>> \in K
  BY <1>1, <1>2 DEF SoundAt, GoesOn
<1>4. <<>> \o Tail(t) = Tail(t)
  BY <1>1, CompleteNothing, Concat DEF SoundAt, Program, Complete
<1>5. x \in States(W)
  <2> HIDE DEF x
  <2> QED
    BY <1>3 DEF Sound, SoundAt
<1>6. x \in Thrown(W, s, step)
  BY DEF Thrown
<1>7. IsCaught(t) => <<AfterThrow(t), x>> \in K
  BY <1>1, <1>2, <1>6 DEF SoundAt, Breaks
<1> QED
  BY <1>1, <1>3, <1>4, <1>5, <1>7 DEF Goodness, SoundAt

\* Configurations from which a write may be done again.
Repeats(W, K, t, x) ==
  /\ Program(t) /\ t # <<>> /\ Head(t).do = "write"
  /\ Goodness(W, K, t, x) /\ Goodness(W, K, t, After(W, x, Head(t)))
  /\ CanLock(W, x) => Goodness(W, K, t, After(W, Locked(x), Head(t)))

LEMMA RepeatsAfter ==
  ASSUME NEW W, NEW K, NEW T, Sound(W, K, T, States(W)), World(W), NEW t, NEW s,
         Program(t), t # <<>>, Head(t).do = "write", s \in States(W),
         NEW x, x = After(W, s, Head(t)), Goodness(W, K, t, x)
  PROVE  Repeats(W, K, t, x)
<1>1. x \in States(W)
  BY DEF Goodness
<1>2. /\ After(W, x, Head(t)) = x
      /\ CanLock(W, x) => After(W, Locked(x), Head(t)) \in {x, Locked(x)}
  BY <1>1, WrittenTwice
<1> QED
  BY <1>2, GoodLocked DEF Repeats

LEMMA RepeatsLocked ==
  ASSUME NEW W, NEW K, NEW T, Sound(W, K, T, States(W)), World(W), NEW t, NEW x,
         Repeats(W, K, t, x), CanLock(W, x)
  PROVE  Repeats(W, K, t, Locked(x))
<1>1. Locked(Locked(x)) = Locked(x)
  <2>1. x \in [lines : [W.lines -> W.values], warned : W.warnings]
    BY DEF Repeats, Goodness, States
  <2> DEFINE new == [x.lines EXCEPT !["pllLocked"] = "yes"]
  <2>2. Locked(x) = [x EXCEPT !.lines = new]
    BY DEF Locked
  <2>3. [new EXCEPT !["pllLocked"] = "yes"] = new
    BY <2>1
  <2> HIDE DEF new
  <2>4. Locked(x).lines = new /\ [[x EXCEPT !.lines = new] EXCEPT !.lines = new] = [x EXCEPT !.lines = new]
    BY <2>1, <2>2
  <2> QED
    BY <2>2, <2>3, <2>4 DEF Locked
<1> QED
  BY <1>1, GoodLocked DEF Repeats

LEMMA RepeatRule ==
  ASSUME NEW W, World(W), W.guards = {}, NEW S, NEW p, NEW T, Triple(W, S, p, T, States(W))
  PROVE  \E K : Sound(W, K, T, States(W)) /\ Again(W, K) /\ \A s \in S : <<p, s>> \in K
<1>1. PICK K : Sound(W, K, T, States(W)) /\ \A s \in S : <<p, s>> \in K
  BY DEF Triple
<1> DEFINE P == {d[1] : d \in K} \X States(W)
           L == K \cup {c \in P : Repeats(W, K, c[1], c[2])}
<1>2. /\ K \subseteq L
      /\ \A t, s : <<t, s>> \in L => <<t, s>> \in K \/ Repeats(W, K, t, s)
      /\ \A t, s, x : <<t, s>> \in L /\ Repeats(W, K, t, x) => <<t, x>> \in L
      /\ \A c \in L : \E t, s : c = <<t, s>>
  <2>1. \A c \in K : \E t, s : c = <<t, s>>
    BY <1>1 DEF Sound
  <2>2. \A t, s : <<t, s>> \in L => t \in {d[1] : d \in K}
    <3>1. \A t, s : <<t, s>> \in K => t \in {d[1] : d \in K}
      <4> SUFFICES ASSUME NEW t, NEW s, <<t, s>> \in K PROVE \E d \in K : t = d[1]
        OBVIOUS
      <4> WITNESS <<t, s>> \in K
      <4> QED
        OBVIOUS
    <3> QED
      BY <3>1
  <2>3. \A t, x : Repeats(W, K, t, x) => x \in States(W)
    BY DEF Repeats, Goodness
  <2>4. \A t, s, x : <<t, s>> \in L /\ Repeats(W, K, t, x) => <<t, x>> \in L
    <3> SUFFICES ASSUME NEW t, NEW s, NEW x, <<t, s>> \in L, Repeats(W, K, t, x)
                 PROVE  <<t, x>> \in L
      OBVIOUS
    <3>1. <<t, x>> \in P
      BY <2>2, <2>3
    <3> QED
      BY <3>1
  <2> QED
    BY <2>1, <2>4
<1> HIDE DEF L, P
<1>3. ASSUME NEW t, NEW s, <<t, s>> \in L, t # <<>>, Head(t).do = "write"
      PROVE  <<t, After(W, s, Head(t))>> \in L
  <2> DEFINE x == After(W, s, Head(t))
  <2>1. Goodness(W, K, t, x) /\ Program(t) /\ s \in States(W)
    <3>1. CASE <<t, s>> \in K
      BY <1>1, <1>3, <3>1, GoodWritten
    <3>2. CASE Repeats(W, K, t, s)
      BY <3>2 DEF Repeats, Goodness
    <3> QED
      BY <1>2, <1>3, <3>1, <3>2
  <2>2. Repeats(W, K, t, x)
    BY <1>1, <1>3, <2>1, RepeatsAfter
  <2> QED
    BY <1>2, <1>3, <2>2
<1>4. ASSUME NEW t, NEW s, <<t, s>> \in L, Repeats(W, K, t, s)
      PROVE  SoundAt(W, L, T, States(W), t, s)
  <2> DEFINE step == Head(t)
  <2>1. /\ Program(t) /\ t # <<>> /\ step.do = "write"
        /\ Goodness(W, K, t, s) /\ Goodness(W, K, t, After(W, s, step))
    BY <1>4 DEF Repeats
  <2>2. GoesOn(W, L, t, s)
    <3>1. <<>> \o Tail(t) = Tail(t)
      BY <2>1, CompleteNothing, Concat DEF Program, Complete
    <3>2. <<Tail(t), After(W, s, step)>> \in L
      BY <1>2, <2>1 DEF Goodness
    <3> QED
      BY <2>1, <3>1, <3>2 DEF GoesOn, Kept
  <2>3. Breaks(W, L, States(W), t, s)
    <3>1. \A r \in Thrown(W, s, step) : Goodness(W, K, t, r)
      BY <2>1 DEF Thrown
    <3> QED
      BY <1>2, <3>1 DEF Breaks, Goodness
  <2>4. CanLock(W, s) => <<t, Locked(s)>> \in L
    BY <1>1, <1>2, <1>4, RepeatsLocked
  <2> QED
    BY <2>1, <2>2, <2>3, <2>4 DEF SoundAt, Goodness
<1>5. Sound(W, L, T, States(W))
  <2> SUFFICES ASSUME NEW c \in L
               PROVE  \E t, s : c = <<t, s>> /\ SoundAt(W, L, T, States(W), t, s)
    BY DEF Sound
  <2>1. PICK t, s : c = <<t, s>>
    BY <1>2
  <2>2. CASE <<t, s>> \in K
    <3>1. SoundAt(W, K, T, States(W), t, s)
      BY <1>1, <2>2 DEF Sound
    <3> QED
      BY <1>2, <2>1, <3>1, SoundAtMore
  <2> QED
    BY <1>2, <1>4, <2>1, <2>2
<1>6. Again(W, L)
  BY <1>3 DEF Again
<1> QED
  BY <1>1, <1>2, <1>5, <1>6

-----------------------------------------------------------------------------
(***************************************************************************)
(* The procedures.                                                         *)
(***************************************************************************)
\* The values of lines.
Values ==
  {"unknown", "active", "inactive", "partial", "configured", "yes", "no", "on",
   "off", "told", "inReset", "pll", "logic", "serializer", "moved", "adjusted",
   "training", "all", "failsafe", "default", "loaded", "sca", "good", "bad",
   "written", "aligned", "high", "common", "deskewed", "zero"}

-----------------------------------------------------------------------------
(* Front-end boards.                                                       *)

FebWorld ==
  [lines |-> FebLines, values |-> Values, never |-> {}, ties |-> {}, plls |-> TRUE,
   forgives |-> FALSE, warnings |-> BOOLEAN,
   guards |-> {[line |-> "rocAnalog", by |-> "pllReset", at |-> "active", free |-> {}],
               [line |-> "acquisition", by |-> "pllReset", at |-> "active", free |-> {"off", "on"}],
               [line |-> "vmms", by |-> "acquisition", at |-> "off", free |-> {}]}]

FebFacts(F) == \A p \in F : p[1] \in FebLines /\ (p[1] = "pllLocked" => p[2] = "yes")

LEMMA FebIsWorld ==
  World(FebWorld) /\ \A F : FebFacts(F) => Stable(FebWorld, F)
<1>1. World(FebWorld)
  BY DEF World, FebWorld, FebLines, Values
<1>2. FebWorld.lines = FebLines
  BY DEF FebWorld
<1> QED
  BY <1>1, <1>2 DEF Stable, FebFacts

FebWriteOK(F, line, value, G) ==
  /\ FebFacts(F) /\ FebFacts(G) /\ line \in FebLines /\ value \in Values
  /\ \A p \in G : p = <<line, value>> \/ (p \in F /\ p[1] # line)
  /\ (line = "pllReset" /\ value = "active") => \A p \in G : p[1] # "pllLocked"
  /\ line = "rocAnalog" \/ (line = "acquisition" /\ value \notin {"off", "on"}) =>
       <<"pllReset", "active">> \in F
  /\ line = "vmms" => <<"acquisition", "off">> \in F

LEMMA FebWrites ==
  ASSUME NEW F, NEW G, NEW line, NEW value, FebWriteOK(F, line, value, G)
  PROVE  Writes(FebWorld, F, line, value, G)
<1>1. Stable(FebWorld, F) /\ Stable(FebWorld, G)
  BY FebIsWorld DEF FebWriteOK
<1>2. Guarded(FebWorld, F, line, value)
  BY DEF Guarded, FebWorld, FebWriteOK
<1>3. /\ FebWorld.lines = FebLines /\ FebWorld.values = Values /\ FebWorld.never = {}
      /\ FebWorld.ties = {}
  BY DEF FebWorld
<1> QED
  BY <1>1, <1>2, <1>3 DEF Writes, Permitted, FebWriteOK

LEMMA FebWrite ==
  ASSUME NEW F, NEW G, NEW line, NEW value, FebWriteOK(F, line, value, G)
  PROVE  Does(FebWorld, F, Write(line, value), G)
BY FebWrites, FebIsWorld, DoesWrite

LEMMA FebTwice ==
  ASSUME NEW F, NEW G, NEW line, NEW value, NEW first \in Values,
         line \notin {"pllReset", "acquisition"},
         FebWriteOK(F, line, value, G)
  PROVE  Does(FebWorld, F, Write(line, first) \o Write(line, value), G)
<1>1. /\ FebWorld.lines = FebLines /\ FebWorld.values = Values /\ FebWorld.never = {}
      /\ FebWorld.ties = {}
  BY DEF FebWorld
<1>2. Permitted(FebWorld, F, line, first)
  BY <1>1 DEF Permitted, FebWriteOK
<1>3. Guarded(FebWorld, F, line, first)
  BY DEF Guarded, FebWorld, FebWriteOK
<1> QED
  BY <1>2, <1>3, FebWrites, FebIsWorld, DoesTwice

RocDone == {<<"sReset", "inactive">>, <<"rocAnalog", "configured">>,
            <<"pllReset", "inactive">>, <<"pllLocked", "yes">>,
            <<"coreReset", "inactive">>, <<"rocDigital", "configured">>}

\* A bank of registers with one that has a line of its own.
LEMMA BankDoes ==
  ASSUME NEW bank, NEW own, NEW F, NEW G, bank # own,
         FebWriteOK(F, bank, "partial", F), FebWriteOK(F, own, "configured", F),
         FebWriteOK(F, bank, "configured", G)
  PROVE  Does(FebWorld, F, Do(<<Write(bank, "partial"), Write(own, "configured"),
                                Write(bank, "configured")>>), G)
<1> DEFINE ps == <<Write(bank, "partial"), Write(own, "configured"), Write(bank, "configured")>>
           f == <<F, F, F, G>>
<1>1. \A i \in 1..3 : Does(FebWorld, f[i], ps[i], f[i+1])
  BY FebWrite
<1>2. Len(ps) = 3 /\ f[1] = F /\ f[3+1] = G
  OBVIOUS
<1> HIDE DEF ps, f
<1>3. Chain(FebWorld, f, ps, 3)
  BY <1>1, <1>2 DEF Chain
<1>4. Does(FebWorld, F, Do(ps), G)
  BY <1>2, <1>3, DoesDo
<1> QED
  BY <1>4 DEF ps

LEMMA WriteRocDoes == Does(FebWorld, {}, WriteRoc, RocDone)
<1> DEFINE held  == {<<"pllReset", "active">>}
           reset == held \cup {<<"sReset", "inactive">>}
           done  == {<<"sReset", "inactive">>, <<"rocAnalog", "configured">>}
           free  == done \cup {<<"pllReset", "inactive">>, <<"pllLocked", "yes">>}
           core  == free \cup {<<"coreReset", "inactive">>}
           analog == reset \cup {<<"rocAnalog", "configured">>}
<1>1. Does(FebWorld, {}, Write("coreReset", "active"), {})
  <2>1. FebWriteOK({}, "coreReset", "active", {})
    BY DEF FebWriteOK, FebFacts, FebLines, Values
  <2> QED
    BY <2>1, FebWrite
<1>2. Does(FebWorld, {}, SetPllResetN("active"), held)
  <2>1. FebWriteOK({}, "pllReset", "active", held)
    BY DEF FebWriteOK, FebFacts, FebLines, Values
  <2>2. Does(FebWorld, {}, Write("pllReset", "active"), held)
    BY <2>1, FebWrite
  <2>3. Does(FebWorld, held, If("active" = "inactive", Await("pllLocked", "yes")), held)
    <3>1. If("active" = "inactive", Await("pllLocked", "yes")) = Nothing
      BY DEF If, Nothing
    <3>2. Does(FebWorld, held, Nothing, held)
      BY <2>1, FebIsWorld, DoesNothing DEF FebWriteOK
    <3> QED
      BY <3>1, <3>2
  <2> HIDE DEF held
  <2> QED
    BY <2>2, <2>3, DoesSequence DEF SetPllResetN
<1>3. Does(FebWorld, held, Toggle("sReset", "active", "inactive"), reset)
  <2>1. FebWriteOK(held, "sReset", "inactive", reset) /\ "active" \in Values
    BY DEF FebWriteOK, FebFacts, FebLines, Values
  <2> QED
    BY <2>1, FebTwice DEF Toggle
<1>4. Does(FebWorld, reset, ConfigureAnalog, analog)
  <2>1. /\ FebWriteOK(reset, "rocAnalog", "partial", reset)
        /\ FebWriteOK(reset, "acquisition", "configured", reset)
        /\ FebWriteOK(reset, "rocAnalog", "configured", analog)
    BY DEF FebWriteOK, FebFacts, FebLines, Values
  <2> HIDE DEF reset, analog
  <2> QED
    BY <2>1, BankDoes DEF ConfigureAnalog
<1>5. Does(FebWorld, analog, SetPllResetN("inactive"), free)
  <2> DEFINE some == done \cup {<<"pllReset", "inactive">>}
  <2>1. FebWriteOK(analog, "pllReset", "inactive", some)
    BY DEF FebWriteOK, FebFacts, FebLines, Values
  <2>2. Does(FebWorld, analog, Write("pllReset", "inactive"), some)
    BY <2>1, FebWrite
  <2>3. FebFacts(some) /\ FebFacts(free)
    BY DEF FebFacts, FebLines
  <2>4. free \subseteq some \cup {<<"pllLocked", "yes">>}
    OBVIOUS
  <2>5. Does(FebWorld, some, Await("pllLocked", "yes"), free)
    <3> HIDE DEF some, free
    <3> QED
      BY <2>3, <2>4, FebIsWorld, DoesAwait
  <2>6. If("inactive" = "inactive", Await("pllLocked", "yes")) = Await("pllLocked", "yes")
    BY DEF If
  <2> HIDE DEF some, free, analog
  <2>7. Does(FebWorld, analog, Write("pllReset", "inactive") \o Await("pllLocked", "yes"), free)
    BY <2>2, <2>5, DoesSequence
  <2> QED
    BY <2>6, <2>7 DEF SetPllResetN
<1>6. Does(FebWorld, free, Write("coreReset", "inactive"), core)
  <2>1. FebWriteOK(free, "coreReset", "inactive", core)
    BY DEF FebWriteOK, FebFacts, FebLines, Values
  <2> QED
    BY <2>1, FebWrite
<1>7. Does(FebWorld, core, ConfigureDigital, RocDone)
  <2>1. /\ FebWriteOK(core, "rocDigital", "partial", core)
        /\ FebWriteOK(core, "captures", "configured", core)
        /\ FebWriteOK(core, "rocDigital", "configured", RocDone)
    BY DEF FebWriteOK, FebFacts, FebLines, Values, RocDone
  <2> HIDE DEF core
  <2> QED
    BY <2>1, BankDoes DEF ConfigureDigital
<1> DEFINE ps == <<Write("coreReset", "active"), SetPllResetN("active"),
                   Toggle("sReset", "active", "inactive"), ConfigureAnalog,
                   SetPllResetN("inactive"), Write("coreReset", "inactive"),
                   ConfigureDigital>>
           F == <<{}, {}, held, reset, analog, free, core, RocDone>>
<1>8. \A i \in 1..7 : Does(FebWorld, F[i], ps[i], F[i+1])
  <2> HIDE DEF held, reset, analog, free, core
  <2> QED
    BY <1>1, <1>2, <1>3, <1>4, <1>5, <1>6, <1>7
<1>9. Len(ps) = 7 /\ F[1] = {} /\ F[7+1] = RocDone
  <2> HIDE DEF held, reset, analog, free, core
  <2> QED
    OBVIOUS
<1> HIDE DEF ps, F
<1>10. Chain(FebWorld, F, ps, 7)
  BY <1>8, <1>9 DEF Chain
<1>11. Does(FebWorld, {}, Do(ps), RocDone)
  BY <1>9, <1>10, DoesDo
<1> QED
  BY <1>11 DEF WriteRoc, ps

\* What is known of lines that a procedure does not touch stays known.
Apart(F, lines) == \A p \in F : p[1] \notin lines

LEMMA TellDcsDoes ==
  ASSUME NEW F, FebFacts(F), Apart(F, {"dcsStatus"})
  PROVE  Does(FebWorld, F, TellDcs, F)
<1>1. Writes(FebWorld, F, "dcsStatus", "told", F)
  <2>1. FebWriteOK(F, "dcsStatus", "told", F)
    BY DEF FebWriteOK, FebLines, Values, Apart
  <2> QED
    BY <2>1, FebWrites
<1>2. Triple(FebWorld, At(FebWorld, F), Write("dcsStatus", "told"), At(FebWorld, F),
             At(FebWorld, F))
  BY <1>1, FebIsWorld, WriteInto
<1> QED
  BY <1>2, FebIsWorld, DoesTolerate DEF TellDcs

VmmsDone == {<<"acquisition", "on">>, <<"vmms", "configured">>}

LEMMA WriteVmmDoes ==
  ASSUME NEW settings, NEW F, FebFacts(F), Apart(F, {"acquisition", "vmms", "dcsStatus"})
  PROVE  /\ Does(FebWorld, F, WriteVmm(settings), F \cup VmmsDone)
         /\ FebFacts(F \cup VmmsDone)
<1> DEFINE off  == F \cup {<<"acquisition", "off">>}
           done == off \cup {<<"vmms", "configured">>}
<1>1. /\ FebFacts(off) /\ FebFacts(done) /\ FebFacts(F \cup VmmsDone)
      /\ Apart(off, {"dcsStatus"}) /\ Apart(done, {"dcsStatus"})
      /\ Apart(off, {"vmms"}) /\ Apart(F, {"acquisition"})
      /\ Stable(FebWorld, off)
  <2>1. /\ FebFacts(off) /\ FebFacts(done) /\ FebFacts(F \cup VmmsDone)
        /\ Apart(off, {"dcsStatus"}) /\ Apart(done, {"dcsStatus"})
        /\ Apart(off, {"vmms"}) /\ Apart(F, {"acquisition"})
    BY DEF FebFacts, FebLines, Apart, VmmsDone
  <2> QED
    BY <2>1, FebIsWorld
<1>2. Does(FebWorld, F, Write("acquisition", "off"), off)
  <2>1. FebWriteOK(F, "acquisition", "off", off)
    BY <1>1 DEF FebWriteOK, FebLines, Values, Apart
  <2> QED
    BY <2>1, FebWrite
<1>3. Does(FebWorld, off, If("resetVmm" \in settings, TellDcs \o Write("vmms", "inReset")), off)
  <2>1. FebWriteOK(off, "vmms", "inReset", off)
    BY <1>1 DEF FebWriteOK, FebLines, Values, Apart
  <2> HIDE DEF off
  <2>2. Does(FebWorld, off, TellDcs \o Write("vmms", "inReset"), off)
    BY <1>1, <2>1, TellDcsDoes, FebWrite, DoesSequence
  <2> QED
    BY <1>1, <2>2, FebIsWorld, DoesNothing DEF If, Nothing
<1>4. Does(FebWorld, off, TellDcs, off)
  BY <1>1, TellDcsDoes
<1>5. Does(FebWorld, off, WriteAll("vmms", "configured"), done)
  <2>1. FebWriteOK(off, "vmms", "configured", done) /\ "partial" \in Values
    BY <1>1 DEF FebWriteOK, FebLines, Values, Apart
  <2> HIDE DEF off, done
  <2> QED
    BY <2>1, FebTwice DEF WriteAll
<1>6. Does(FebWorld, done, Write("acquisition", "on"), F \cup VmmsDone)
  <2>1. FebWriteOK(done, "acquisition", "on", F \cup VmmsDone)
    BY <1>1 DEF FebWriteOK, FebLines, Values, Apart, VmmsDone
  <2> QED
    BY <2>1, FebWrite
<1> DEFINE ps == <<Write("acquisition", "off"),
                   If("resetVmm" \in settings, TellDcs \o Write("vmms", "inReset")),
                   TellDcs, WriteAll("vmms", "configured"), Write("acquisition", "on")>>
<1>7. Chain(FebWorld, <<F, off, off, off, done, F \cup VmmsDone>>, ps, 5)
  <2> HIDE DEF off, done
  <2> QED
    BY <1>2, <1>3, <1>4, <1>5, <1>6 DEF Chain
<1>8. Does(FebWorld, F, Do(ps), F \cup VmmsDone)
  <2> HIDE DEF off, done, ps
  <2> QED
    BY <1>7, DoesDo
<1> QED
  BY <1>1, <1>8 DEF WriteVmm

TdsDone(settings) ==
  {<<"tdsPins", "inactive">>, <<"tdss", "configured">>}
    \cup (IF "resetTds" \in settings THEN {<<"tdsResets", "off">>} ELSE {})

LEMMA WriteTdsDoes ==
  ASSUME NEW settings, NEW F, FebFacts(F), Apart(F, {"tdsPins", "tdss", "tdsResets"})
  PROVE  Does(FebWorld, F, WriteTds(settings), F \cup TdsDone(settings))
<1> DEFINE pins == F \cup {<<"tdsPins", "inactive">>}
           tdss == pins \cup {<<"tdss", "configured">>}
           done == tdss \cup {<<"tdsResets", "off">>}
           all  == F \cup TdsDone(settings)
           resets == <<Toggle("tdsResets", "pll", "off"), Toggle("tdsResets", "logic", "off"),
                       Toggle("tdsResets", "serializer", "off"), Read("tdss"),
                       Choose({Nothing, Raise})>>
<1>1. FebFacts(pins) /\ FebFacts(tdss) /\ FebFacts(done)
  BY DEF FebFacts, FebLines
<1>2. all = IF "resetTds" \in settings THEN done ELSE tdss
  BY DEF TdsDone
<1>3. /\ FebWriteOK(F, "tdsPins", "inactive", pins)
      /\ FebWriteOK(pins, "tdss", "configured", tdss)
      /\ FebWriteOK(tdss, "tdsResets", "off", done)
      /\ FebWriteOK(done, "tdsResets", "off", done)
      /\ {"partial", "pll", "logic", "serializer"} \subseteq Values
  BY <1>1 DEF FebWriteOK, FebLines, Values, Apart
<1> HIDE DEF pins, tdss, done, all, resets
<1>4. Does(FebWorld, F, If("unknownTds" \in settings, Raise), F)
  BY FebIsWorld, DoesNothing, DoesRaise DEF If, Nothing
<1>5. Does(FebWorld, F, Write("tdsPins", "inactive"), pins)
  BY <1>3, FebWrite
<1>6. Does(FebWorld, pins, WriteAll("tdss", "configured"), tdss)
  BY <1>3, FebTwice DEF WriteAll
<1>7. Does(FebWorld, tdss, Do(resets), done)
  <2>1. /\ Does(FebWorld, tdss, Toggle("tdsResets", "pll", "off"), done)
        /\ Does(FebWorld, done, Toggle("tdsResets", "logic", "off"), done)
        /\ Does(FebWorld, done, Toggle("tdsResets", "serializer", "off"), done)
    BY <1>3, FebTwice DEF Toggle
  <2>2. Does(FebWorld, done, Read("tdss"), done)
    BY <1>1, FebIsWorld, DoesRead
  <2>3. Does(FebWorld, done, Choose({Nothing, Raise}), done)
    BY <1>1, FebIsWorld, DoesNothing, DoesRaise, DoesChoose
  <2>4. Chain(FebWorld, <<tdss, done, done, done, done, done>>, resets, 5)
    BY <2>1, <2>2, <2>3 DEF Chain, resets
  <2> QED
    BY <2>4, DoesDo
<1>8. Does(FebWorld, tdss, If("resetTds" \in settings, Do(resets)), all)
  BY <1>1, <1>2, <1>7, FebIsWorld, DoesNothing DEF If, Nothing
<1> DEFINE ps == <<If("unknownTds" \in settings, Raise), Write("tdsPins", "inactive"),
                   WriteAll("tdss", "configured"), If("resetTds" \in settings, Do(resets))>>
<1>9. Chain(FebWorld, <<F, F, pins, tdss, all>>, ps, 4)
  BY <1>4, <1>5, <1>6, <1>8 DEF Chain
<1> HIDE DEF ps
<1>10. Does(FebWorld, F, Do(ps), all)
  BY <1>9, DoesDo
<1> QED
  BY <1>10 DEF WriteTds, ps, resets, all

FebDone(settings) ==
  RocDone \cup VmmsDone \cup TdsDone(settings)
    \cup (IF "disableCaptures" \in settings THEN {<<"captures", "off">>} ELSE {})

LEMMA WriteFebDoes ==
  ASSUME NEW settings
  PROVE  Does(FebWorld, {}, WriteFeb(settings), FebDone(settings))
<1> DEFINE caps == RocDone \cup (IF "disableCaptures" \in settings THEN {<<"captures", "off">>}
                                                                  ELSE {})
           vmms == caps \cup VmmsDone
           ps == <<WriteRoc, If("disableCaptures" \in settings, DisableVmmCaptureInputs),
                   WriteVmm(settings), WriteTds(settings)>>
<1>1. /\ FebFacts(RocDone) /\ FebFacts(caps) /\ FebFacts(vmms)
      /\ Apart(caps, {"acquisition", "vmms", "dcsStatus"})
      /\ Apart(vmms, {"tdsPins", "tdss", "tdsResets"})
  BY DEF FebFacts, FebLines, RocDone, VmmsDone, Apart
<1>2. vmms \cup TdsDone(settings) = FebDone(settings)
  BY DEF FebDone
<1>3. Does(FebWorld, RocDone, If("disableCaptures" \in settings, DisableVmmCaptureInputs), caps)
  <2>1. CASE "disableCaptures" \in settings
    <3>1. FebWriteOK(RocDone, "captures", "off", caps)
      BY <1>1, <2>1 DEF FebWriteOK, FebLines, Values, RocDone
    <3> HIDE DEF caps
    <3> QED
      BY <2>1, <3>1, FebWrite DEF If, DisableVmmCaptureInputs
  <2>2. CASE "disableCaptures" \notin settings
    <3>1. caps \subseteq RocDone
      BY <2>2
    <3> HIDE DEF caps
    <3> QED
      BY <1>1, <2>2, <3>1, FebIsWorld, DoesNothing DEF If, Nothing
  <2> QED
    BY <2>1, <2>2
<1>4. Does(FebWorld, caps, WriteVmm(settings), vmms)
  <2> HIDE DEF caps
  <2> QED
    BY <1>1, WriteVmmDoes
<1>5. Does(FebWorld, vmms, WriteTds(settings), FebDone(settings))
  <2> HIDE DEF vmms
  <2> QED
    BY <1>1, <1>2, WriteTdsDoes
<1> HIDE DEF caps, vmms
<1>6. Chain(FebWorld, <<{}, RocDone, caps, vmms, FebDone(settings)>>, ps, 4)
  BY <1>3, <1>4, <1>5, WriteRocDoes DEF Chain
<1> HIDE DEF ps
<1>7. Does(FebWorld, {}, Do(ps), FebDone(settings))
  BY <1>6, DoesDo
<1> QED
  BY <1>7 DEF WriteFeb, ps

LEMMA CapturesDoes ==
  /\ Does(FebWorld, {}, EnableVmmCaptureInputs, {<<"captures", "configured">>})
  /\ Does(FebWorld, {}, DisableVmmCaptureInputs, {<<"captures", "off">>})
<1>1. /\ FebWriteOK({}, "captures", "configured", {<<"captures", "configured">>})
      /\ FebWriteOK({}, "captures", "off", {<<"captures", "off">>})
  BY DEF FebWriteOK, FebFacts, FebLines, Values
<1> QED
  BY <1>1, FebWrite DEF EnableVmmCaptureInputs, DisableVmmCaptureInputs

-----------------------------------------------------------------------------
(* ADDCs.  What is known of an ART are pairs K of a name and a value; F is *)
(* what is known of the other ART.                                         *)

\* The inputs of an ART are masked while its e-ports are in training or half
\* written, and neither it nor its GBTx is in reset then.
Unsettled == {"partial", "training"}
AddcGuards ==
  {[line |-> <<i, "eports">>, by |-> <<i, "mask">>, at |-> "all", free |-> {}] : i \in Arts}
AddcTies ==
  {[line |-> <<i, "eports">>, values |-> Unsettled, by |-> <<i, p[1]>>, ats |-> {p[2]}] :
     i \in Arts, p \in {<<"mask", "all">>, <<"artReset", "inactive">>, <<"gbtxReset", "inactive">>}}

\* Worlds of an ADDC in which everything may be written to ART i.
ArtWorld(W, i) ==
  /\ W.lines = AddcLines /\ W.values = Values /\ W.plls = FALSE /\ W.forgives = FALSE
  /\ W.warnings \subseteq BOOLEAN /\ W.guards \subseteq AddcGuards /\ W.ties \subseteq AddcTies
  /\ \A name, value : <<<<i, name>>, value>> \notin W.never

AddcWorld ==
  [lines |-> AddcLines, values |-> Values, never |-> {}, ties |-> {}, plls |-> FALSE,
   forgives |-> FALSE, warnings |-> BOOLEAN, guards |-> AddcGuards]

Known(F, i, K) == F \cup {<<<<i, p[1]>>, p[2]>> : p \in K}

Other(F, i) == \A p \in F : \E j \in Arts \ {i}, name \in ArtNames : p[1] = <<j, name>>

\* The e-ports are known to be settled, if that is asked for.
Settled(W, K) == W.ties = {} \/ \E p \in K : p[1] = "eports" /\ p[2] \notin Unsettled

ArtWriteOK(W, K, name, value, L) ==
  /\ name \in ArtNames /\ value \in Values
  /\ \A p \in K \cup L : p[1] \in ArtNames
  /\ \A p \in L : p = <<name, value>> \/ (p \in K /\ p[1] # name)
  /\ name = "eports" => <<"mask", "all">> \in K /\ <<"artReset", "inactive">> \in K
                       /\ <<"gbtxReset", "inactive">> \in K
  /\ name = "mask" /\ value # "all" => Settled(W, K)
  /\ name \in {"artReset", "gbtxReset"} /\ value # "inactive" => Settled(W, K)

LEMMA ArtIsWorld ==
  ASSUME NEW W, NEW i \in Arts, ArtWorld(W, i)
  PROVE  /\ World(W)
         /\ \A F : (\A p \in F : p[1] \in AddcLines) => Stable(W, F)
<1>1. W.lines = AddcLines /\ W.plls = FALSE /\ W.forgives = FALSE /\ W.warnings \subseteq BOOLEAN
  BY DEF ArtWorld
<1>2. ASSUME NEW g \in W.guards
      PROVE  g.line \in AddcLines /\ g.by # g.line
  <2>1. PICK j \in Arts :
          g = [line |-> <<j, "eports">>, by |-> <<j, "mask">>, at |-> "all", free |-> {}]
    BY DEF ArtWorld, AddcGuards
  <2>2. g.line = <<j, "eports">> /\ g.by = <<j, "mask">>
    BY <2>1
  <2>3. <<j, "eports">> # <<j, "mask">> /\ <<j, "eports">> \in AddcLines
    BY DEF AddcLines, ArtNames
  <2> QED
    BY <2>2, <2>3
<1>3. ASSUME NEW h \in W.ties
      PROVE  h.line \in AddcLines /\ h.by \in AddcLines /\ h.by # h.line
  <2>1. PICK j \in Arts, name \in {"mask", "artReset", "gbtxReset"} :
          h.line = <<j, "eports">> /\ h.by = <<j, name>>
    BY DEF ArtWorld, AddcTies
  <2>2. <<j, "eports">> # <<j, name>> /\ <<j, "eports">> \in AddcLines /\ <<j, name>> \in AddcLines
    BY DEF AddcLines, ArtNames
  <2> QED
    BY <2>1, <2>2
<1>4. World(W)
  BY <1>1, <1>2, <1>3 DEF World
<1> QED
  BY <1>1, <1>4 DEF Stable

LEMMA ArtPermitted ==
  ASSUME NEW W, NEW i \in Arts, ArtWorld(W, i), NEW F, NEW K, NEW L, NEW name, NEW value,
         ArtWriteOK(W, K, name, value, L)
  PROVE  Permitted(W, Known(F, i, K), <<i, name>>, value)
<1>1. W.lines = AddcLines /\ W.values = Values /\ <<<<i, name>>, value>> \notin W.never
  BY DEF ArtWorld
<1>2. <<i, name>> \in AddcLines /\ value \in Values
  BY DEF AddcLines, ArtWriteOK
<1>3. ASSUME NEW h \in W.ties
      PROVE  /\ h.line = <<i, name>> /\ value \in h.values =>
                  \E p \in Known(F, i, K) : p[1] = h.by /\ p[2] \in h.ats
             /\ h.by = <<i, name>> /\ value \notin h.ats =>
                  \E p \in Known(F, i, K) : p[1] = h.line /\ p[2] \notin h.values
  <2>1. PICK j \in Arts,
             q \in {<<"mask", "all">>, <<"artReset", "inactive">>, <<"gbtxReset", "inactive">>} :
          h = [line |-> <<j, "eports">>, values |-> Unsettled, by |-> <<j, q[1]>>, ats |-> {q[2]}]
    BY <1>3 DEF ArtWorld, AddcTies
  <2>2. /\ h.line = <<j, "eports">> /\ h.values = Unsettled
        /\ h.by = <<j, q[1]>> /\ h.ats = {q[2]}
    BY <2>1
  <2>3. CASE h.line = <<i, name>>
    <3>1. j = i /\ name = "eports"
      BY <2>2, <2>3
    <3>2. q \in K /\ q = <<q[1], q[2]>>
      BY <3>1 DEF ArtWriteOK
    <3>3. <<<<i, q[1]>>, q[2]>> \in Known(F, i, K)
      BY <3>2 DEF Known
    <3>4. h.by # <<i, name>>
      BY <2>2, <3>1
    <3> QED
      BY <2>2, <3>1, <3>3, <3>4
  <2>4. CASE h.by = <<i, name>> /\ value \notin h.ats
    <3>1. j = i /\ name = q[1] /\ value # q[2]
      BY <2>2, <2>4
    <3>2. Settled(W, K)
      BY <3>1 DEF ArtWriteOK
    <3>3. PICK p \in K : p[1] = "eports" /\ p[2] \notin Unsettled
      BY <1>3, <3>2 DEF Settled
    <3>4. <<<<i, p[1]>>, p[2]>> \in Known(F, i, K)
      BY DEF Known
    <3>5. h.line # <<i, name>>
      BY <2>2, <3>1
    <3> QED
      BY <2>2, <3>1, <3>3, <3>4, <3>5
  <2> QED
    BY <2>3, <2>4
<1> QED
  BY <1>1, <1>2, <1>3 DEF Permitted

LEMMA ArtWrites ==
  ASSUME NEW W, NEW i \in Arts, ArtWorld(W, i), NEW F, Other(F, i),
         NEW K, NEW L, NEW name, NEW value, ArtWriteOK(W, K, name, value, L)
  PROVE  /\ Writes(W, Known(F, i, K), <<i, name>>, value, Known(F, i, L))
         /\ Stable(W, Known(F, i, K)) /\ Stable(W, Known(F, i, L))
<1>1. W.plls = FALSE
  BY DEF ArtWorld
<1>2. Permitted(W, Known(F, i, K), <<i, name>>, value)
  BY ArtPermitted
<1>3. \A p \in F : p[1] \in AddcLines /\ p[1] # <<i, name>>
  BY DEF Other, AddcLines
<1>4. ASSUME NEW M, \A p \in M : p[1] \in ArtNames
      PROVE  Stable(W, Known(F, i, M))
  <2>1. \A p \in Known(F, i, M) : p[1] \in AddcLines
    BY <1>3, <1>4 DEF Known, AddcLines
  <2> QED
    BY <2>1, ArtIsWorld
<1>5. Stable(W, Known(F, i, K)) /\ Stable(W, Known(F, i, L))
  BY <1>4 DEF ArtWriteOK
<1>6. ASSUME NEW p \in Known(F, i, L)
      PROVE  p = <<<<i, name>>, value>> \/ (p \in Known(F, i, K) /\ p[1] # <<i, name>>)
  <2>1. CASE p \in F
    BY <1>3, <2>1 DEF Known
  <2>2. ASSUME NEW q \in L, p = <<<<i, q[1]>>, q[2]>>
        PROVE  p = <<<<i, name>>, value>> \/ (p \in Known(F, i, K) /\ p[1] # <<i, name>>)
    <3>1. CASE q = <<name, value>>
      BY <2>2, <3>1
    <3>2. CASE q \in K /\ q[1] # name
      BY <2>2, <3>2 DEF Known
    <3> QED
      BY <3>1, <3>2 DEF ArtWriteOK
  <2> QED
    BY <2>1, <2>2 DEF Known
<1>7. ASSUME NEW g \in W.guards, g.line = <<i, name>>
      PROVE  <<g.by, g.at>> \in Known(F, i, K)
  <2>1. PICK j \in Arts :
          g = [line |-> <<j, "eports">>, by |-> <<j, "mask">>, at |-> "all", free |-> {}]
    BY DEF ArtWorld, AddcGuards
  <2>2. g.line = <<j, "eports">> /\ g.by = <<j, "mask">> /\ g.at = "all"
    BY <2>1
  <2>3. j = i /\ name = "eports"
    BY <1>7, <2>2
  <2>4. <<"mask", "all">> \in K
    BY <2>3 DEF ArtWriteOK
  <2> QED
    BY <2>2, <2>3, <2>4 DEF Known
<1> QED
  BY <1>1, <1>2, <1>5, <1>6, <1>7 DEF Writes, Guarded

LEMMA ArtWrite ==
  ASSUME NEW W, NEW i \in Arts, ArtWorld(W, i), NEW F, Other(F, i),
         NEW K, NEW L, NEW name, NEW value, ArtWriteOK(W, K, name, value, L)
  PROVE  Does(W, Known(F, i, K), Write(<<i, name>>, value), Known(F, i, L))
BY ArtWrites, ArtIsWorld, DoesWrite

LEMMA ArtTwice ==
  ASSUME NEW W, NEW i \in Arts, ArtWorld(W, i), NEW F, Other(F, i),
         NEW K, NEW L, NEW name, NEW value, ArtWriteOK(W, K, name, value, L),
         NEW first, ArtWriteOK(W, K, name, first, {})
  PROVE  Does(W, Known(F, i, K), Write(<<i, name>>, first) \o Write(<<i, name>>, value),
              Known(F, i, L))
<1>1. W.plls = FALSE
  BY DEF ArtWorld
<1> QED
  BY <1>1, ArtWrites, ArtPermitted, ArtIsWorld, DoesTwice DEF Writes

FlagsOf(settings) == IF "failsafe" \in settings THEN "failsafe" ELSE "default"

\* What is known at the beginning: nothing, or that the e-ports are settled.
Fresh(W, X) == Settled(W, X) /\ X \subseteq {<<"eports", "unknown">>}

ArtOn(X)      == X \cup {<<"artReset", "inactive">>}
ArtClocked(X) == ArtOn(X) \cup {<<"gbtxReset", "inactive">>}
ArtSent(X)    == ArtClocked(X) \cup {<<"gbtx", "configured">>}
ArtSetUp(X)   == ArtSent(X) \cup {<<"registers", "configured">>}

ArtDone(settings) ==
  ArtSetUp({}) \cup {<<"patterns", "configured">>, <<"eports", "off">>,
                 <<"flags", FlagsOf(settings)>>, <<"mask", "configured">>,
                 <<"ttcPhase", "adjusted">>}

\* The writes up to the registers.
SetUpAllows(W, X) ==
  /\ ArtWriteOK(W, X, "artReset", "inactive", ArtOn(X))
  /\ ArtWriteOK(W, ArtOn(X), "gbtxReset", "active", {})
  /\ ArtWriteOK(W, ArtOn(X), "gbtxReset", "inactive", ArtClocked(X))
  /\ ArtWriteOK(W, ArtClocked(X), "ttcPhase", "moved", ArtClocked(X))
  /\ ArtWriteOK(W, ArtClocked(X), "gbtx", "partial", {})
  /\ ArtWriteOK(W, ArtClocked(X), "gbtx", "partial", ArtClocked(X))
  /\ ArtWriteOK(W, ArtClocked(X), "gbtx", "configured", ArtSent(X))
  /\ ArtWriteOK(W, ArtSent(X), "ttcPhase", "moved", ArtSent(X))
  /\ ArtWriteOK(W, ArtSent(X), "artReset", "active", {})
  /\ ArtWriteOK(W, ArtSent(X), "artReset", "inactive", ArtSent(X))
  /\ ArtWriteOK(W, ArtSent(X), "registers", "partial", ArtSent(X))
  /\ ArtWriteOK(W, ArtSent(X), "mask", "configured", ArtSent(X))
  /\ ArtWriteOK(W, ArtSent(X), "patterns", "configured", ArtSent(X))
  /\ ArtWriteOK(W, ArtSent(X), "registers", "configured", ArtSetUp(X))

LEMMA SetUpWrites ==
  ASSUME NEW W, NEW X, Fresh(W, X)
  PROVE  SetUpAllows(W, X)
<1>1. /\ ArtOn(X) = X \cup {<<"artReset", "inactive">>}
      /\ ArtClocked(X) = ArtOn(X) \cup {<<"gbtxReset", "inactive">>}
      /\ ArtSent(X) = ArtClocked(X) \cup {<<"gbtx", "configured">>}
      /\ ArtSetUp(X) = ArtSent(X) \cup {<<"registers", "configured">>}
  BY DEF ArtOn, ArtClocked, ArtSent, ArtSetUp
<1>2. /\ Settled(W, X) /\ Settled(W, ArtOn(X)) /\ Settled(W, ArtClocked(X))
      /\ Settled(W, ArtSent(X))
  <2>1. \A Y, Z : Settled(W, Y) /\ Y \subseteq Z => Settled(W, Z)
    BY DEF Settled
  <2> QED
    BY <1>1, <2>1 DEF Fresh
<1>3. \A p \in X : p[1] = "eports"
  BY DEF Fresh
<1>4. /\ \A p \in ArtOn(X) : p[1] \in {"eports", "artReset"}
      /\ \A p \in ArtClocked(X) : p[1] \in {"eports", "artReset", "gbtxReset"}
      /\ \A p \in ArtSent(X) : p[1] \in {"eports", "artReset", "gbtxReset", "gbtx"}
      /\ \A p \in ArtSetUp(X) : p[1] \in {"eports", "artReset", "gbtxReset", "gbtx", "registers"}
  BY <1>1, <1>3
<1>5. {"active", "inactive", "moved", "partial", "configured"} \subseteq Values
  BY DEF Values
<1> QED
  BY <1>1, <1>2, <1>3, <1>4, <1>5 DEF SetUpAllows, ArtWriteOK, ArtNames

\* Up to the registers.
LEMMA SetUpArtDoes ==
  ASSUME NEW W, NEW i \in Arts, ArtWorld(W, i), NEW F, Other(F, i), NEW X, Fresh(W, X)
  PROVE  /\ Does(W, Known(F, i, X), InitArt(i), Known(F, i, ArtOn(X)))
         /\ Does(W, Known(F, i, ArtOn(X)), ResetGbtx(i), Known(F, i, ArtClocked(X)))
         /\ Does(W, Known(F, i, ArtClocked(X)), ConfigGbtx(i), Known(F, i, ArtSent(X)))
         /\ Does(W, Known(F, i, ArtSent(X)), ResetArt(i), Known(F, i, ArtSent(X)))
         /\ Does(W, Known(F, i, ArtSent(X)), ConfigArt(i), Known(F, i, ArtSetUp(X)))
<1>1. SetUpAllows(W, X)
  BY SetUpWrites
<1> DEFINE k(K) == Known(F, i, K)
<1>3. Does(W, k(X), InitArt(i), k(ArtOn(X)))
  BY <1>1, ArtWrite DEF InitArt, SetUpAllows
<1>4. Does(W, k(ArtOn(X)), ResetGbtx(i), k(ArtClocked(X)))
  BY <1>1, ArtTwice DEF ResetGbtx, Toggle, SetUpAllows
<1>5. Does(W, k(ArtClocked(X)), ConfigGbtx(i), k(ArtSent(X)))
  <2> DEFINE ps == <<Write(<<i, "ttcPhase">>, "moved"), Write(<<i, "gbtx">>, "partial"),
                     Write(<<i, "ttcPhase">>, "moved"), Write(<<i, "gbtx">>, "configured"),
                     Write(<<i, "ttcPhase">>, "moved")>>
  <2>1. /\ Does(W, k(ArtClocked(X)), Write(<<i, "ttcPhase">>, "moved"), k(ArtClocked(X)))
        /\ Does(W, k(ArtClocked(X)), Write(<<i, "gbtx">>, "partial"), k(ArtClocked(X)))
        /\ Does(W, k(ArtClocked(X)), Write(<<i, "gbtx">>, "configured"), k(ArtSent(X)))
        /\ Does(W, k(ArtSent(X)), Write(<<i, "ttcPhase">>, "moved"), k(ArtSent(X)))
    BY <1>1, ArtWrite DEF SetUpAllows
  <2> HIDE DEF k
  <2>2. Chain(W, <<k(ArtClocked(X)), k(ArtClocked(X)), k(ArtClocked(X)), k(ArtClocked(X)),
                           k(ArtSent(X)), k(ArtSent(X))>>, ps, 5)
    BY <2>1 DEF Chain
  <2> HIDE DEF ps
  <2>3. Does(W, k(ArtClocked(X)), Do(ps), k(ArtSent(X)))
    BY <2>2, DoesDo
  <2> QED
    BY <2>3 DEF ConfigGbtx, ps
<1>6. Does(W, k(ArtSent(X)), ResetArt(i), k(ArtSent(X)))
  <2> DEFINE ps == [pin \in 1..3 |-> Toggle(<<i, "artReset">>, "active", "inactive")]
             f  == [j \in 1..4 |-> k(ArtSent(X))]
  <2>1. Does(W, k(ArtSent(X)), Toggle(<<i, "artReset">>, "active", "inactive"), k(ArtSent(X)))
    BY <1>1, ArtTwice DEF Toggle, SetUpAllows
  <2>2. Len(ps) = 3
    OBVIOUS
  <2> HIDE DEF k
  <2>3. \A j \in 1..3 : f[j] = k(ArtSent(X)) /\ f[j+1] = k(ArtSent(X))
                        /\ ps[j] = Toggle(<<i, "artReset">>, "active", "inactive")
    OBVIOUS
  <2>4. f[1] = k(ArtSent(X)) /\ f[3+1] = k(ArtSent(X))
    OBVIOUS
  <2> HIDE DEF ps, f
  <2>5. Chain(W, f, ps, 3)
    BY <2>1, <2>2, <2>3 DEF Chain
  <2>6. Does(W, k(ArtSent(X)), Do(ps), k(ArtSent(X)))
    BY <2>4, <2>5, DoesDo
  <2> QED
    BY <2>6 DEF ResetArt, ps
<1>7. Does(W, k(ArtSent(X)), ConfigArt(i), k(ArtSetUp(X)))
  <2> DEFINE ps == <<Write(<<i, "registers">>, "partial"), Write(<<i, "mask">>, "configured"),
                     Write(<<i, "patterns">>, "configured"),
                     Write(<<i, "registers">>, "configured")>>
  <2>1. /\ Does(W, k(ArtSent(X)), Write(<<i, "registers">>, "partial"), k(ArtSent(X)))
        /\ Does(W, k(ArtSent(X)), Write(<<i, "mask">>, "configured"), k(ArtSent(X)))
        /\ Does(W, k(ArtSent(X)), Write(<<i, "patterns">>, "configured"), k(ArtSent(X)))
        /\ Does(W, k(ArtSent(X)), Write(<<i, "registers">>, "configured"), k(ArtSetUp(X)))
    BY <1>1, ArtWrite DEF SetUpAllows
  <2> HIDE DEF k
  <2>2. Chain(W, <<k(ArtSent(X)), k(ArtSent(X)), k(ArtSent(X)), k(ArtSent(X)), k(ArtSetUp(X))>>, ps, 4)
    BY <2>1 DEF Chain
  <2> HIDE DEF ps
  <2>3. Does(W, k(ArtSent(X)), Do(ps), k(ArtSetUp(X)))
    BY <2>2, DoesDo
  <2> QED
    BY <2>3 DEF ConfigArt, ps
<1> QED
  BY <1>3, <1>4, <1>5, <1>6, <1>7

\* Training, while the inputs are masked, and what follows.
ArtMasked     == ArtSetUp({}) \cup {<<"mask", "all">>}
ArtTrained    == ArtMasked \cup {<<"patterns", "configured">>, <<"eports", "off">>}
ArtSafe(settings)   == ArtTrained \cup {<<"flags", FlagsOf(settings)>>}
ArtOpened(settings) ==
  ArtSetUp({}) \cup {<<"patterns", "configured">>, <<"eports", "off">>,
                 <<"flags", FlagsOf(settings)>>, <<"mask", "configured">>}

\* The writes up to the end of the training.
TrainAllows(W, X, off) ==
  /\ ArtWriteOK(W, ArtSetUp(X), "mask", "partial", {})
  /\ ArtWriteOK(W, ArtSetUp(X), "mask", "all", ArtMasked)
  /\ ArtWriteOK(W, ArtMasked, "patterns", "partial", {})
  /\ ArtWriteOK(W, ArtMasked, "patterns", "training", ArtMasked)
  /\ ArtWriteOK(W, ArtMasked, "trainMode", "training", ArtMasked)
  /\ ArtWriteOK(W, ArtMasked, "eports", "partial", {})
  /\ ArtWriteOK(W, ArtMasked, "eports", "training", ArtMasked)
  /\ ArtWriteOK(W, ArtMasked, "eports", "off", off)
  /\ ArtWriteOK(W, off, "patterns", "partial", {})
  /\ ArtWriteOK(W, off, "patterns", "configured", ArtTrained)

LEMMA TrainWrites ==
  ASSUME NEW W, NEW X, Fresh(W, X)
  PROVE  TrainAllows(W, X, ArtMasked \cup {<<"eports", "off">>})
<1> DEFINE off == ArtMasked \cup {<<"eports", "off">>}
<1>1. /\ ArtSetUp({}) \subseteq ArtSetUp(X) /\ X \subseteq ArtSetUp(X)
      /\ ArtSetUp({}) = {<<"artReset", "inactive">>, <<"gbtxReset", "inactive">>,
                         <<"gbtx", "configured">>, <<"registers", "configured">>}
      /\ ArtSetUp(X) = X \cup ArtSetUp({})
  BY DEF ArtSetUp, ArtSent, ArtClocked, ArtOn
<1>2. /\ ArtMasked = ArtSetUp({}) \cup {<<"mask", "all">>}
      /\ ArtTrained = ArtMasked \cup {<<"patterns", "configured">>, <<"eports", "off">>}
  BY DEF ArtMasked, ArtTrained
<1>3. /\ \A p \in ArtSetUp({}) : p[1] \in {"artReset", "gbtxReset", "gbtx", "registers"}
      /\ \A p \in X : p[1] = "eports"
  BY <1>1 DEF Fresh
<1>4. Settled(W, ArtSetUp(X))
  BY <1>1 DEF Fresh, Settled
<1>5. /\ \A p \in ArtSetUp(X) : p[1] \in {"artReset", "gbtxReset", "gbtx", "registers", "eports"}
      /\ \A p \in ArtMasked : p[1] \in {"artReset", "gbtxReset", "gbtx", "registers", "mask"}
      /\ \A p \in off : p[1] \in {"artReset", "gbtxReset", "gbtx", "registers", "mask", "eports"}
      /\ \A p \in ArtTrained :
           p[1] \in {"artReset", "gbtxReset", "gbtx", "registers", "mask", "eports", "patterns"}
  BY <1>1, <1>2, <1>3
<1>6. {"partial", "all", "training", "off", "configured"} \subseteq Values
  BY DEF Values
<1>7. /\ <<"mask", "all">> \in ArtMasked /\ <<"artReset", "inactive">> \in ArtMasked
      /\ <<"gbtxReset", "inactive">> \in ArtMasked
  BY <1>1, <1>2
<1>8. /\ ArtWriteOK(W, ArtSetUp(X), "mask", "partial", {})
      /\ ArtWriteOK(W, ArtSetUp(X), "mask", "all", ArtMasked)
  BY <1>1, <1>2, <1>3, <1>4, <1>5, <1>6 DEF ArtWriteOK, ArtNames
<1>9. /\ ArtWriteOK(W, ArtMasked, "patterns", "partial", {})
      /\ ArtWriteOK(W, ArtMasked, "patterns", "training", ArtMasked)
      /\ ArtWriteOK(W, ArtMasked, "trainMode", "training", ArtMasked)
      /\ ArtWriteOK(W, ArtMasked, "eports", "partial", {})
      /\ ArtWriteOK(W, ArtMasked, "eports", "training", ArtMasked)
      /\ ArtWriteOK(W, ArtMasked, "eports", "off", off)
  BY <1>5, <1>6, <1>7 DEF ArtWriteOK, ArtNames
<1>10. /\ ArtWriteOK(W, off, "patterns", "partial", {})
       /\ ArtWriteOK(W, off, "patterns", "configured", ArtTrained)
  BY <1>2, <1>5, <1>6 DEF ArtWriteOK, ArtNames
<1> QED
  BY <1>8, <1>9, <1>10 DEF TrainAllows

LEMMA TrainArtDoes ==
  ASSUME NEW W, NEW i \in Arts, ArtWorld(W, i), NEW F, Other(F, i), NEW X, Fresh(W, X)
  PROVE  /\ Does(W, Known(F, i, ArtSetUp(X)), MaskArt(i), Known(F, i, ArtMasked))
         /\ Does(W, Known(F, i, ArtMasked), TrainGbtx(i), Known(F, i, ArtTrained))
<1> DEFINE k(K) == Known(F, i, K)
           off == ArtMasked \cup {<<"eports", "off">>}
<1>1. TrainAllows(W, X, off)
  BY TrainWrites
<1> HIDE DEF off
<1>2. Does(W, k(ArtSetUp(X)), MaskArt(i), k(ArtMasked))
  BY <1>1, ArtTwice DEF MaskArt, WriteAll, TrainAllows
<1>3. /\ Does(W, k(ArtMasked), WriteAll(<<i, "patterns">>, "training"), k(ArtMasked))
      /\ Does(W, k(ArtMasked), WriteAll(<<i, "eports">>, "training"), k(ArtMasked))
      /\ Does(W, k(ArtMasked), WriteAll(<<i, "eports">>, "off"), k(off))
      /\ Does(W, k(off), WriteAll(<<i, "patterns">>, "configured"), k(ArtTrained))
  BY <1>1, ArtTwice DEF WriteAll, TrainAllows
<1>4. Does(W, k(ArtMasked), Write(<<i, "trainMode">>, "training"), k(ArtMasked))
  BY <1>1, ArtWrite DEF TrainAllows
<1> HIDE DEF k
<1> DEFINE ps == <<WriteAll(<<i, "patterns">>, "training"), Write(<<i, "trainMode">>, "training"),
                   WriteAll(<<i, "eports">>, "training"), WriteAll(<<i, "eports">>, "off"),
                   WriteAll(<<i, "patterns">>, "configured")>>
<1>5. Chain(W, <<k(ArtMasked), k(ArtMasked), k(ArtMasked), k(ArtMasked), k(off),
                         k(ArtTrained)>>, ps, 5)
  BY <1>3, <1>4 DEF Chain
<1> HIDE DEF ps
<1>6. Does(W, k(ArtMasked), Do(ps), k(ArtTrained))
  BY <1>5, DoesDo
<1> QED
  BY <1>2, <1>6 DEF TrainGbtx, ps, k

\* The writes after the training.
OpenAllows(W, settings) ==
  /\ ArtWriteOK(W, ArtTrained, "flags", "partial", {})
  /\ ArtWriteOK(W, ArtTrained, "flags", FlagsOf(settings), ArtSafe(settings))
  /\ ArtWriteOK(W, ArtSafe(settings), "mask", "partial", {})
  /\ ArtWriteOK(W, ArtSafe(settings), "mask", "configured", ArtOpened(settings))
  /\ ArtWriteOK(W, ArtOpened(settings), "ttcPhase", "moved", ArtOpened(settings))
  /\ ArtWriteOK(W, ArtOpened(settings), "ttcPhase", "adjusted", ArtDone(settings))

LEMMA OpenWrites ==
  ASSUME NEW W, NEW settings
  PROVE  OpenAllows(W, settings)
<1> SUFFICES ASSUME NEW flags, flags = FlagsOf(settings)
             PROVE  OpenAllows(W, settings)
  OBVIOUS
<1> DEFINE base == ArtSetUp({}) \cup {<<"patterns", "configured">>, <<"eports", "off">>}
<1>1. /\ ArtTrained = base \cup {<<"mask", "all">>}
      /\ ArtSafe(settings) = base \cup {<<"mask", "all">>, <<"flags", flags>>}
      /\ ArtOpened(settings) = base \cup {<<"flags", flags>>, <<"mask", "configured">>}
      /\ ArtDone(settings) = base \cup {<<"flags", flags>>, <<"mask", "configured">>,
                                        <<"ttcPhase", "adjusted">>}
  BY DEF ArtTrained, ArtMasked, ArtSafe, ArtOpened, ArtDone
<1>2. \A p \in base : p[1] \in {"artReset", "gbtxReset", "gbtx", "registers", "patterns", "eports"}
  BY DEF ArtSetUp, ArtSent, ArtClocked, ArtOn
<1>3. \E p \in base : p[1] = "eports" /\ p[2] \notin Unsettled
  <2>1. <<"eports", "off">> \in base /\ "off" \notin Unsettled
    BY DEF Unsettled
  <2> QED
    BY <2>1
<1>4. flags \in Values /\ {"partial", "configured", "moved", "adjusted"} \subseteq Values
  BY DEF Values, FlagsOf
<1> HIDE DEF base
<1>5. /\ ArtWriteOK(W, ArtTrained, "flags", "partial", {})
      /\ ArtWriteOK(W, ArtTrained, "flags", flags, ArtSafe(settings))
  BY <1>1, <1>2, <1>4 DEF ArtWriteOK, ArtNames
<1>6. /\ ArtWriteOK(W, ArtSafe(settings), "mask", "partial", {})
      /\ ArtWriteOK(W, ArtSafe(settings), "mask", "configured", ArtOpened(settings))
  <2>1. Settled(W, ArtSafe(settings))
    BY <1>1, <1>3 DEF Settled
  <2> QED
    BY <1>1, <1>2, <1>4, <2>1 DEF ArtWriteOK, ArtNames
<1>7. /\ ArtWriteOK(W, ArtOpened(settings), "ttcPhase", "moved", ArtOpened(settings))
      /\ ArtWriteOK(W, ArtOpened(settings), "ttcPhase", "adjusted", ArtDone(settings))
  BY <1>1, <1>2, <1>4 DEF ArtWriteOK, ArtNames
<1> QED
  BY <1>5, <1>6, <1>7 DEF OpenAllows

LEMMA OpenArtDoes ==
  ASSUME NEW W, NEW i \in Arts, ArtWorld(W, i), NEW F, Other(F, i), NEW X, Fresh(W, X), NEW settings
  PROVE  /\ Does(W, Known(F, i, ArtTrained), FailsafeMode(i, settings),
                 Known(F, i, ArtSafe(settings)))
         /\ Does(W, Known(F, i, ArtSafe(settings)), UnmaskArt(i),
                 Known(F, i, ArtOpened(settings)))
         /\ Does(W, Known(F, i, ArtOpened(settings)), AdjustPhase(i),
                 Known(F, i, ArtDone(settings)))
<1> DEFINE k(K) == Known(F, i, K)
           flags == FlagsOf(settings)
           open  == ArtOpened(settings)
           done  == ArtDone(settings)
<1>1. OpenAllows(W, settings)
  BY OpenWrites
<1>3. Does(W, k(ArtTrained), FailsafeMode(i, settings), k(ArtSafe(settings)))
  <2>1. FailsafeMode(i, settings) = Write(<<i, "flags">>, "partial") \o Write(<<i, "flags">>, flags)
    BY DEF FailsafeMode, FlagsOf, WriteAll
  <2> HIDE DEF flags
  <2> QED
    BY <1>1, <2>1, ArtTwice DEF OpenAllows, flags
<1>4. Does(W, k(ArtSafe(settings)), UnmaskArt(i), k(open))
  BY <1>1, ArtTwice DEF UnmaskArt, WriteAll, OpenAllows
<1>5. /\ Does(W, k(open), Write(<<i, "ttcPhase">>, "moved"), k(open))
      /\ Does(W, k(open), Write(<<i, "ttcPhase">>, "adjusted"), k(done))
  BY <1>1, ArtWrite DEF OpenAllows
<1> HIDE DEF k, open, done, flags
<1> DEFINE ps == [phase \in 1..5 |->
                    Write(<<i, "ttcPhase">>, IF phase = 5 THEN "adjusted" ELSE "moved")]
           f  == [j \in 1..6 |-> IF j = 6 THEN k(done) ELSE k(open)]
<1>6. \A j \in 1..5 : /\ ps[j] = Write(<<i, "ttcPhase">>, IF j = 5 THEN "adjusted" ELSE "moved")
                      /\ f[j] = k(open) /\ f[j+1] = IF j = 5 THEN k(done) ELSE k(open)
  OBVIOUS
<1>7. Len(ps) = 5 /\ f[1] = k(open) /\ f[5+1] = k(done)
  OBVIOUS
<1> HIDE DEF ps, f
<1>8. \A j \in 1..5 : Does(W, f[j], ps[j], f[j+1])
  <2> SUFFICES ASSUME NEW j \in 1..5 PROVE Does(W, f[j], ps[j], f[j+1])
    OBVIOUS
  <2> QED
    BY <1>5, <1>6
<1>9. Chain(W, f, ps, 5)
  BY <1>7, <1>8 DEF Chain
<1>10. Does(W, k(open), Do(ps), k(done))
  BY <1>7, <1>9, DoesDo
<1> QED
  BY <1>3, <1>4, <1>10 DEF AdjustPhase, ps, k, open, done

LEMMA WriteArtDoes ==
  ASSUME NEW W, NEW i \in Arts, ArtWorld(W, i), NEW F, Other(F, i), NEW X, Fresh(W, X), NEW settings
  PROVE  Does(W, Known(F, i, X), WriteArt(i, settings), Known(F, i, ArtDone(settings)))
<1> DEFINE k(K) == Known(F, i, K)
           ps == <<InitArt(i), ResetGbtx(i), ConfigGbtx(i), ResetArt(i), ConfigArt(i),
                   MaskArt(i), TrainGbtx(i), FailsafeMode(i, settings), UnmaskArt(i),
                   AdjustPhase(i)>>
           f  == <<k(X), k(ArtOn(X)), k(ArtClocked(X)), k(ArtSent(X)), k(ArtSent(X)), k(ArtSetUp(X)),
                   k(ArtMasked), k(ArtTrained), k(ArtSafe(settings)), k(ArtOpened(settings)),
                   k(ArtDone(settings))>>
<1>1. /\ Does(W, k(X), InitArt(i), k(ArtOn(X)))
      /\ Does(W, k(ArtOn(X)), ResetGbtx(i), k(ArtClocked(X)))
      /\ Does(W, k(ArtClocked(X)), ConfigGbtx(i), k(ArtSent(X)))
      /\ Does(W, k(ArtSent(X)), ResetArt(i), k(ArtSent(X)))
      /\ Does(W, k(ArtSent(X)), ConfigArt(i), k(ArtSetUp(X)))
  BY SetUpArtDoes
<1>2. /\ Does(W, k(ArtSetUp(X)), MaskArt(i), k(ArtMasked))
      /\ Does(W, k(ArtMasked), TrainGbtx(i), k(ArtTrained))
  BY TrainArtDoes
<1>3. /\ Does(W, k(ArtTrained), FailsafeMode(i, settings), k(ArtSafe(settings)))
      /\ Does(W, k(ArtSafe(settings)), UnmaskArt(i), k(ArtOpened(settings)))
      /\ Does(W, k(ArtOpened(settings)), AdjustPhase(i), k(ArtDone(settings)))
  BY OpenArtDoes
<1> HIDE DEF k
<1>4. Chain(W, f, ps, 10)
  <2>1. Len(ps) = 10 /\ 10 \in Nat \ {0}
    OBVIOUS
  <2>2. \A j \in 1..10 : Does(W, f[j], ps[j], f[j+1])
    BY <1>1, <1>2, <1>3
  <2> QED
    BY <2>1, <2>2 DEF Chain
<1>5. f[1] = k(X) /\ f[10+1] = k(ArtDone(settings))
  OBVIOUS
<1> HIDE DEF ps, f
<1>6. Does(W, k(X), Do(ps), k(ArtDone(settings)))
  BY <1>4, <1>5, DoesDo
<1> QED
  BY <1>6 DEF WriteArt, ps, k

AddcDone(settings) == Known(Known({}, 0, ArtDone(settings)), 1, ArtDone(settings))

LEMMA AddcIsWorld == World(AddcWorld) /\ ArtWorld(AddcWorld, 0) /\ ArtWorld(AddcWorld, 1)
<1>1. ArtWorld(AddcWorld, 0) /\ ArtWorld(AddcWorld, 1)
  BY DEF ArtWorld, AddcWorld
<1> QED
  BY <1>1, ArtIsWorld DEF Arts

LEMMA WriteAddcDoes ==
  ASSUME NEW settings
  PROVE  Does(AddcWorld, {}, WriteAddc(settings), AddcDone(settings))
<1> DEFINE first == Known({}, 0, ArtDone(settings))
<1>0. Fresh(AddcWorld, {}) /\ ArtWorld(AddcWorld, 0) /\ ArtWorld(AddcWorld, 1)
  BY AddcIsWorld DEF Fresh, Settled, AddcWorld
<1>1. Does(AddcWorld, Known({}, 0, {}), WriteArt(0, settings), first)
  BY <1>0, WriteArtDoes DEF Arts, Other
<1>2. Other(first, 1)
  <2>1. \A p \in ArtDone(settings) : p[1] \in ArtNames
    BY DEF ArtDone, ArtNames, ArtSetUp, ArtSent, ArtClocked, ArtOn
  <2> QED
    BY <2>1 DEF Other, Known, Arts
<1> HIDE DEF first
<1>3. Does(AddcWorld, Known(first, 1, {}), WriteArt(1, settings),
           Known(first, 1, ArtDone(settings)))
  BY <1>0, <1>2, WriteArtDoes DEF Arts
<1>4. Known({}, 0, {}) = {} /\ Known(first, 1, {}) = first
  BY DEF Known
<1> QED
  BY <1>1, <1>3, <1>4, DoesSequence DEF WriteAddc, AddcDone, first

-----------------------------------------------------------------------------
(* Devices that nothing is promised of once an issue was raised.           *)

Forgiving(lines, never) ==
  [lines |-> lines, values |-> Values, never |-> never, ties |-> {}, plls |-> FALSE,
   forgives |-> TRUE, warnings |-> BOOLEAN, guards |-> {}]

Easy(W) == \E lines, never : W = Forgiving(lines, never)

On(W, F) == \A p \in F : p[1] \in W.lines

MayWrite(W, F, line, value, G) ==
  /\ On(W, F) /\ On(W, G)
  /\ line \in W.lines /\ value \in Values /\ <<line, value>> \notin W.never
  /\ \A p \in G : p = <<line, value>> \/ (p \in F /\ p[1] # line)

LEMMA EasyIsWorld ==
  ASSUME NEW W, Easy(W)
  PROVE  /\ World(W) /\ W.forgives /\ ~W.plls /\ W.values = Values
         /\ W.ties = {} /\ W.warnings = BOOLEAN
         /\ \A F : On(W, F) => Stable(W, F)
         /\ \A F, line, value, G : MayWrite(W, F, line, value, G) => Writes(W, F, line, value, G)
<1>1. PICK lines, never : W = Forgiving(lines, never)
  BY DEF Easy
<1>2. /\ W.forgives = TRUE /\ W.plls = FALSE /\ W.values = Values /\ W.guards = {}
      /\ W.ties = {} /\ W.warnings = BOOLEAN
  BY <1>1 DEF Forgiving
<1>3. World(W)
  BY <1>2 DEF World
<1>4. \A F : On(W, F) => Stable(W, F)
  BY <1>2 DEF On, Stable
<1> QED
  BY <1>2, <1>3, <1>4 DEF MayWrite, Writes, Guarded, Permitted

LEMMA EasyWrite ==
  ASSUME NEW W, Easy(W), NEW F, NEW line, NEW value, NEW G, MayWrite(W, F, line, value, G)
  PROVE  Does(W, F, Write(line, value), G)
BY EasyIsWorld, DoesWrite

LEMMA EasySettle ==
  ASSUME NEW W, Easy(W), NEW F, NEW line, NEW value, NEW G, MayWrite(W, F, line, value, G)
  PROVE  Does(W, F, Settle(line, value), G)
BY EasyIsWorld, DoesSettle

\* A value of a line is kept in another one, or written from it.
LEMMA EasyCopy ==
  ASSUME NEW W, Easy(W), NEW F, NEW from, NEW to, NEW value, <<from, value>> \in F,
         NEW G, MayWrite(W, F, to, value, G), \A any : <<to, any>> \notin W.never
  PROVE  Does(W, F, Copy(from, to), G)
<1> DEFINE step == [do |-> "copy", line |-> to, value |-> from, ways |-> {}]
<1>1. step.do = "copy" /\ step.line = to /\ step.value = from
  OBVIOUS
<1> HIDE DEF step
<1>2. /\ World(W) /\ W.forgives /\ ~W.plls /\ W.ties = {} /\ W.guards = {}
      /\ Lockable(W, At(W, F)) /\ Lockable(W, At(W, G))
  BY EasyIsWorld, AtLockable DEF MayWrite, World
<1>3. from \in W.lines /\ to \in W.lines
  BY DEF MayWrite, On
<1>4. ASSUME NEW s \in At(W, F)
      PROVE  After(W, s, step) \in At(W, G)
  <2>1. /\ s \in [lines : [W.lines -> W.values], warned : W.warnings]
        /\ \A l \in W.lines : <<l, s.lines[l]>> \notin W.never
        /\ s.warned \/ \A p \in F : s.lines[p[1]] = p[2]
    BY <1>4 DEF At, States
  <2> DEFINE new == [s.lines EXCEPT ![to] = s.lines[from]]
  <2>2. new = Effect(s.lines, step, W.plls)
    BY <1>1, <1>2 DEF Effect
  <2>3. After(W, s, step) = [s EXCEPT !.lines = new]
    BY <1>1, <2>2 DEF After, Changes
  <2>4. /\ new \in [W.lines -> W.values] /\ new[to] = s.lines[from]
        /\ \A l \in W.lines : l # to => new[l] = s.lines[l]
    BY <1>3, <2>1
  <2> HIDE DEF new
  <2>5. /\ After(W, s, step) \in [lines : [W.lines -> W.values], warned : W.warnings]
        /\ After(W, s, step).lines = new /\ After(W, s, step).warned = s.warned
    BY <2>1, <2>3, <2>4
  <2>6. \A l \in W.lines : <<l, new[l]>> \notin W.never
    BY <2>1, <2>4
  <2>7. After(W, s, step) \in States(W)
    BY <1>2, <2>5, <2>6 DEF States, Tied
  <2>8. ASSUME ~s.warned, NEW p \in G
        PROVE  new[p[1]] = p[2]
    <3>1. s.lines[from] = value
      BY <2>1, <2>8
    <3>2. p[1] \in W.lines /\ (p = <<to, value>> \/ (p \in F /\ p[1] # to))
      BY DEF MayWrite, On
    <3> QED
      BY <2>1, <2>4, <2>8, <3>1, <3>2
  <2> QED
    BY <1>2, <2>5, <2>7, <2>8 DEF At
<1>5. \A s \in At(W, F) : Kept(W, s.lines, After(W, s, step).lines)
  BY <1>2 DEF Kept
<1>6. "copy" \notin Throwing
  BY DEF Throwing
<1>7. Triple(W, At(W, F), SingleStep("copy", to, from, {}), At(W, G), States(W))
  BY <1>1, <1>2, <1>4, <1>5, <1>6, StepRule DEF step
<1> QED
  BY <1>7 DEF Copy, Does

LEMMA EasyTwice ==
  ASSUME NEW W, Easy(W), NEW F, NEW line, NEW value, NEW G, MayWrite(W, F, line, value, G),
         NEW first \in Values, <<line, first>> \notin W.never
  PROVE  Does(W, F, Write(line, first) \o Write(line, value), G)
<1>1. Permitted(W, F, line, first)
  BY EasyIsWorld DEF Permitted, MayWrite
<1>2. Guarded(W, F, line, first)
  BY EasyIsWorld DEF Guarded, Easy, World
<1> QED
  BY <1>1, <1>2, EasyIsWorld, DoesTwice

LEMMA EasyRead ==
  ASSUME NEW W, Easy(W), NEW F, On(W, F), NEW line
  PROVE  Does(W, F, Read(line), F)
BY EasyIsWorld, DoesRead

LEMMA EasyNothing ==
  ASSUME NEW W, Easy(W), NEW F, On(W, F), NEW G, G \subseteq F
  PROVE  Does(W, F, Nothing, G)
BY EasyIsWorld, DoesNothing

\* After an issue was raised every fact may be claimed.
LEMMA EasyWarn ==
  ASSUME NEW W, Easy(W), NEW F, On(W, F), NEW G, On(W, G)
  PROVE  Does(W, F, Warn, G)
BY EasyIsWorld, DoesWarn

LEMMA EasyRaise ==
  ASSUME NEW W, Easy(W), NEW F, On(W, F), NEW G, On(W, G)
  PROVE  Does(W, F, Raise, G)
BY EasyIsWorld, DoesRaise

LEMMA EasyChoose ==
  ASSUME NEW W, Easy(W), NEW F, On(W, F), NEW G, NEW p, NEW q, Does(W, F, p, G), Does(W, F, q, G)
  PROVE  Does(W, F, Choose({p, q}), G)
BY EasyIsWorld, DoesChoose

LEMMA EasyAttempt ==
  ASSUME NEW W, Easy(W), NEW F, On(W, F), NEW G, On(W, G), NEW p, NEW q,
         Does(W, F, p, G), Does(W, {}, q, G)
  PROVE  Does(W, F, Attempt(p, q), G)
BY EasyIsWorld, DoesAttempt

LEMMA EasyIf ==
  ASSUME NEW W, Easy(W), NEW F, On(W, F), NEW G, NEW condition \in BOOLEAN, NEW p,
         condition => Does(W, F, p, G), ~condition => G \subseteq F
  PROVE  Does(W, F, If(condition, p), G)
BY EasyIsWorld, EasyNothing DEF If, Nothing

\* Whatever is read back, what was known stays known, or an issue is raised.
LEMMA EasyCheck ==
  ASSUME NEW W, Easy(W), NEW F, On(W, F), NEW line
  PROVE  Does(W, F, CheckReadback(line), F)
<1>1. Does(W, F, Choose({Nothing, Warn}), F)
  BY EasyNothing, EasyWarn, EasyChoose
<1> QED
  BY <1>1, EasyRead, DoesSequence DEF CheckReadback

LEMMA EasyWriteBack ==
  ASSUME NEW W, Easy(W), NEW F, NEW line, NEW value, NEW G, MayWrite(W, F, line, value, G)
  PROVE  Does(W, F, WriteAndReadback(line, value), G)
<1>1. On(W, G)
  BY DEF MayWrite
<1> QED
  BY <1>1, EasyWrite, EasyCheck, DoesSequence DEF WriteAndReadback

LEMMA EasyUpload ==
  ASSUME NEW W, Easy(W), NEW F, NEW G, MayWrite(W, F, "firmware", "loaded", G)
  PROVE  Does(W, F, UploadBitfile, G)
<1>1. On(W, F) /\ On(W, G) /\ On(W, {})
  BY DEF MayWrite, On
<1>2. Does(W, {}, Warn, G)
  BY <1>1, EasyWarn
<1> QED
  BY <1>1, <1>2, EasyWrite, EasyAttempt DEF UploadBitfile

-----------------------------------------------------------------------------
(* Trigger processors and carrier.                                         *)

StgctpWorld == Forgiving(StgctpLines, {})

ResetDone(settings) ==
  IF "doReset" \in settings THEN {<<"rxReset", "inactive">>, <<"txReset", "inactive">>} ELSE {}

LEMMA DoResetDoes ==
  ASSUME NEW settings
  PROVE  Does(StgctpWorld, {}, DoReset(settings), ResetDone(settings))
<1> DEFINE rx == {<<"rxReset", "inactive">>}
           both == rx \cup {<<"txReset", "inactive">>}
<1>1. Easy(StgctpWorld) /\ StgctpWorld.lines = StgctpLines /\ StgctpWorld.never = {}
  BY DEF StgctpWorld, Easy, Forgiving
<1>2. /\ MayWrite(StgctpWorld, {}, "rxReset", "inactive", rx)
      /\ MayWrite(StgctpWorld, rx, "txReset", "inactive", both)
      /\ On(StgctpWorld, {}) /\ "active" \in Values
  BY <1>1 DEF MayWrite, On, StgctpLines, Values
<1>3. both = ResetDone(settings) \/ ("doReset" \notin settings /\ ResetDone(settings) = {})
  BY DEF ResetDone
<1> HIDE DEF rx, both
<1>4. /\ Does(StgctpWorld, {}, Toggle("rxReset", "active", "inactive"), rx)
      /\ Does(StgctpWorld, rx, Toggle("txReset", "active", "inactive"), both)
  BY <1>1, <1>2, EasyTwice DEF Toggle
<1>5. Does(StgctpWorld, {}, Toggle("rxReset", "active", "inactive")
                              \o Toggle("txReset", "active", "inactive"), both)
  BY <1>4, DoesSequence
<1>6. CASE "doReset" \in settings
  BY <1>3, <1>5, <1>6 DEF DoReset, If
<1>7. CASE "doReset" \notin settings
  <2>1. ResetDone(settings) = {} /\ DoReset(settings) = Nothing
    BY <1>7 DEF ResetDone, DoReset, If, Nothing
  <2> QED
    BY <1>1, <1>2, <2>1, EasyNothing
<1> QED
  BY <1>6, <1>7

StgctpDone(settings) == ResetDone(settings) \cup {<<"registers", "configured">>}

LEMMA WriteStgctpDoes ==
  ASSUME NEW settings
  PROVE  Does(StgctpWorld, {}, WriteStgctp(settings), StgctpDone(settings))
<1> DEFINE reset == ResetDone(settings)
           done == StgctpDone(settings)
           ps == <<DoReset(settings), WriteAndReadback("registers", "partial"),
                   WriteAndReadback("registers", "configured"),
                   Attempt(Read("registers"), Nothing)>>
<1>1. Easy(StgctpWorld) /\ StgctpWorld.lines = StgctpLines /\ StgctpWorld.never = {}
  BY DEF StgctpWorld, Easy, Forgiving
<1>2. /\ MayWrite(StgctpWorld, reset, "registers", "partial", reset)
      /\ MayWrite(StgctpWorld, reset, "registers", "configured", done)
      /\ On(StgctpWorld, done)
  BY <1>1 DEF MayWrite, On, StgctpLines, Values, ResetDone, StgctpDone
<1>3. Does(StgctpWorld, done, Attempt(Read("registers"), Nothing), done)
  <2>1. World(StgctpWorld) /\ Stable(StgctpWorld, done)
    BY <1>1, <1>2, EasyIsWorld
  <2> HIDE DEF done
  <2> QED
    BY <2>1, AccessInto, DoesTolerate DEF Read
<1> HIDE DEF reset, done
<1>4. Chain(StgctpWorld, <<{}, reset, reset, done, done>>, ps, 4)
  BY <1>1, <1>2, <1>3, DoResetDoes, EasyWriteBack DEF Chain, reset
<1> HIDE DEF ps
<1>5. Does(StgctpWorld, {}, Do(ps), done)
  BY <1>4, DoesDo
<1> QED
  BY <1>5 DEF WriteStgctp, ps, done

CarrierWorld == Forgiving(CarrierLines, {})
CarrierDone  == {<<"rjOutSel", "configured">>}

LEMMA WriteCarrierDoes == Does(CarrierWorld, {}, WriteCarrier, CarrierDone)
<1>1. Easy(CarrierWorld) /\ CarrierWorld.lines = CarrierLines /\ CarrierWorld.never = {}
  BY DEF CarrierWorld, Easy, Forgiving
<1>2. MayWrite(CarrierWorld, {}, "rjOutSel", "configured", CarrierDone)
  BY <1>1 DEF MayWrite, On, CarrierLines, CarrierDone, Values
<1> QED
  BY <1>1, <1>2, EasyWrite DEF WriteCarrier

MmtpWorld == Forgiving(MmtpLines, {})

LEMMA MmtpIsEasy ==
  Easy(MmtpWorld) /\ MmtpWorld.lines = MmtpLines /\ MmtpWorld.never = {}
BY DEF MmtpWorld, Easy, Forgiving

AlignedAfter(p) ==
  Read("fibers") \o Choose({Settle("fibers", "aligned"),
                            Toggle("qpllReset", "active", "inactive") \o p})
NotAligned == Settle("fibers", "bad") \o Warn
Alignment(f) ==
  f = [resets \in 0..MMTP_FIBER_ALIGN_ATTEMPTS + 1 |->
         IF resets > MMTP_FIBER_ALIGN_ATTEMPTS THEN NotAligned ELSE AlignedAfter(f[resets + 1])]

LEMMA SomeAlignment == \E f : Alignment(f)
<1> DEFINE a11 == NotAligned
           a10 == AlignedAfter(a11)
           a9 == AlignedAfter(a10)
           a8 == AlignedAfter(a9)
           a7 == AlignedAfter(a8)
           a6 == AlignedAfter(a7)
           a5 == AlignedAfter(a6)
           a4 == AlignedAfter(a5)
           a3 == AlignedAfter(a4)
           a2 == AlignedAfter(a3)
           a1 == AlignedAfter(a2)
           a0 == AlignedAfter(a1)
           f == [r \in 0..11 |-> <<a0, a1, a2, a3, a4, a5, a6, a7, a8, a9, a10, a11>>[r + 1]]
<1>1. a11 = NotAligned
      /\ a0 = AlignedAfter(a1)
      /\ a1 = AlignedAfter(a2)
      /\ a2 = AlignedAfter(a3)
      /\ a3 = AlignedAfter(a4)
      /\ a4 = AlignedAfter(a5)
      /\ a5 = AlignedAfter(a6)
      /\ a6 = AlignedAfter(a7)
      /\ a7 = AlignedAfter(a8)
      /\ a8 = AlignedAfter(a9)
      /\ a9 = AlignedAfter(a10)
      /\ a10 = AlignedAfter(a11)
  OBVIOUS
<1> HIDE DEF a0, a1, a2, a3, a4, a5, a6, a7, a8, a9, a10, a11
<1>2. ASSUME NEW r \in 0..11
      PROVE  f[r] = IF r > 10 THEN NotAligned ELSE AlignedAfter(f[r + 1])
  <2>1. /\ f[0] = a0 /\ f[1] = a1 /\ f[2] = a2 /\ f[3] = a3 /\ f[4] = a4 /\ f[5] = a5
        /\ f[6] = a6 /\ f[7] = a7 /\ f[8] = a8 /\ f[9] = a9 /\ f[10] = a10 /\ f[11] = a11
    OBVIOUS
  <2> HIDE DEF f
  <2>2. \/ r = 11
        \/ r = 0 /\ r + 1 = 1
        \/ r = 1 /\ r + 1 = 2
        \/ r = 2 /\ r + 1 = 3
        \/ r = 3 /\ r + 1 = 4
        \/ r = 4 /\ r + 1 = 5
        \/ r = 5 /\ r + 1 = 6
        \/ r = 6 /\ r + 1 = 7
        \/ r = 7 /\ r + 1 = 8
        \/ r = 8 /\ r + 1 = 9
        \/ r = 9 /\ r + 1 = 10
        \/ r = 10 /\ r + 1 = 11
    OBVIOUS
  <2> QED
    BY <1>1, <2>1, <2>2
<1>3. f = [r \in 0..11 |-> f[r]]
  OBVIOUS
<1> HIDE DEF f
<1>4. f = [r \in 0..11 |-> IF r > 10 THEN NotAligned ELSE AlignedAfter(f[r + 1])]
  BY <1>2, <1>3
<1> QED
  BY <1>4 DEF Alignment, MMTP_FIBER_ALIGN_ATTEMPTS

LEMMA AlignArtGbtxDoes ==
  ASSUME NEW F, On(MmtpWorld, F), Apart(F, {"fibers", "qpllReset"})
  PROVE  Does(MmtpWorld, F, AlignArtGbtx, F \cup {<<"fibers", "aligned">>})
<1> DEFINE G == F \cup {<<"fibers", "aligned">>}
           f == CHOOSE g : g = [resets \in 0..MMTP_FIBER_ALIGN_ATTEMPTS + 1 |->
                  IF resets > MMTP_FIBER_ALIGN_ATTEMPTS THEN Settle("fibers", "bad") \o Warn
                  ELSE Read("fibers")
                         \o Choose({Settle("fibers", "aligned"),
                                    Toggle("qpllReset", "active", "inactive")
                                      \o g[resets + 1]})]
<1>1. AlignArtGbtx = f[0]
  BY DEF AlignArtGbtx
<1>2. Alignment(f)
  BY SomeAlignment DEF Alignment, NotAligned, AlignedAfter
<1> HIDE DEF f
<1>3. f[11] = NotAligned /\ \A r \in 0..10 : f[r] = AlignedAfter(f[r + 1])
  BY <1>2 DEF Alignment, MMTP_FIBER_ALIGN_ATTEMPTS
<1>4. /\ MayWrite(MmtpWorld, F, "fibers", "aligned", G)
      /\ MayWrite(MmtpWorld, F, "fibers", "bad", F)
      /\ MayWrite(MmtpWorld, F, "qpllReset", "inactive", F)
      /\ On(MmtpWorld, G) /\ "active" \in Values
  BY MmtpIsEasy DEF MayWrite, On, MmtpLines, Values, Apart
<1> HIDE DEF G
<1>5. Does(MmtpWorld, F, NotAligned, G)
  BY <1>4, MmtpIsEasy, EasySettle, EasyWarn, DoesSequence DEF NotAligned
<1>6. ASSUME NEW p, Does(MmtpWorld, F, p, G)
      PROVE  Does(MmtpWorld, F, AlignedAfter(p), G)
  <2>1. Does(MmtpWorld, F, Toggle("qpllReset", "active", "inactive"), F)
    BY <1>4, MmtpIsEasy, EasyTwice DEF Toggle
  <2>2. Does(MmtpWorld, F, Toggle("qpllReset", "active", "inactive") \o p, G)
    BY <1>6, <2>1, DoesSequence
  <2>3. Does(MmtpWorld, F, Settle("fibers", "aligned"), G)
    BY <1>4, MmtpIsEasy, EasySettle
  <2> QED
    BY <2>2, <2>3, MmtpIsEasy, EasyRead, EasyChoose, DoesSequence DEF AlignedAfter
<1>7. Does(MmtpWorld, F, f[11], G)
  BY <1>3, <1>5
<1>8. \A r \in 0..10 : Does(MmtpWorld, F, f[r + 1], G) => Does(MmtpWorld, F, f[r], G)
  BY <1>3, <1>6
<1>9. /\ Does(MmtpWorld, F, f[0+1], G) => Does(MmtpWorld, F, f[0], G)
      /\ Does(MmtpWorld, F, f[1+1], G) => Does(MmtpWorld, F, f[1], G)
      /\ Does(MmtpWorld, F, f[2+1], G) => Does(MmtpWorld, F, f[2], G)
      /\ Does(MmtpWorld, F, f[3+1], G) => Does(MmtpWorld, F, f[3], G)
      /\ Does(MmtpWorld, F, f[4+1], G) => Does(MmtpWorld, F, f[4], G)
      /\ Does(MmtpWorld, F, f[5+1], G) => Does(MmtpWorld, F, f[5], G)
      /\ Does(MmtpWorld, F, f[6+1], G) => Does(MmtpWorld, F, f[6], G)
      /\ Does(MmtpWorld, F, f[7+1], G) => Does(MmtpWorld, F, f[7], G)
      /\ Does(MmtpWorld, F, f[8+1], G) => Does(MmtpWorld, F, f[8], G)
      /\ Does(MmtpWorld, F, f[9+1], G) => Does(MmtpWorld, F, f[9], G)
      /\ Does(MmtpWorld, F, f[10+1], G) => Does(MmtpWorld, F, f[10], G)
  BY <1>8
<1>10. /\ 0+1 = 1 /\ 1+1 = 2 /\ 2+1 = 3 /\ 3+1 = 4 /\ 4+1 = 5 /\ 5+1 = 6
       /\ 6+1 = 7 /\ 7+1 = 8 /\ 8+1 = 9 /\ 9+1 = 10 /\ 10+1 = 11
  OBVIOUS
<1>11. Does(MmtpWorld, F, f[0], G)
  BY <1>7, <1>9, <1>10
<1> QED
  BY <1>1, <1>11 DEF G


MmtpDone(settings) ==
  {<<"l1aReset", "inactive">>, <<"idleState", "configured">>, <<"latTxIdle", "inactive">>,
   <<"registers", "configured">>}
    \cup (IF "fibers" \in settings THEN {<<"fibers", "aligned">>} ELSE {})

LEMMA WriteMmtpDoes ==
  ASSUME NEW settings
  PROVE  Does(MmtpWorld, {}, WriteMmtp(settings), MmtpDone(settings))
<1> DEFINE l1a   == {<<"l1aReset", "inactive">>}
           idle  == l1a \cup {<<"idleState", "configured">>}
           tx    == idle \cup {<<"latTxIdle", "inactive">>}
           set   == tx \cup {<<"registers", "configured">>}
           body  == <<Write("registers", "partial"), Toggle("l1aReset", "active", "inactive"),
                      Write("idleState", "configured"),
                      Toggle("latTxIdle", "active", "inactive"),
                      Write("registers", "configured")>>
           ps    == <<Attempt(Do(body), Warn \o Raise), If("fibers" \in settings, AlignArtGbtx)>>
<1>1. /\ MayWrite(MmtpWorld, {}, "registers", "partial", {})
      /\ MayWrite(MmtpWorld, {}, "l1aReset", "inactive", l1a)
      /\ MayWrite(MmtpWorld, l1a, "idleState", "configured", idle)
      /\ MayWrite(MmtpWorld, idle, "latTxIdle", "inactive", tx)
      /\ MayWrite(MmtpWorld, tx, "registers", "configured", set)
      /\ On(MmtpWorld, {}) /\ On(MmtpWorld, set) /\ "active" \in Values
      /\ Apart(set, {"fibers", "qpllReset"})
  BY MmtpIsEasy DEF MayWrite, On, MmtpLines, Values, Apart
<1>2. MmtpDone(settings) =
        IF "fibers" \in settings THEN set \cup {<<"fibers", "aligned">>} ELSE set
  BY DEF MmtpDone
<1> HIDE DEF l1a, idle, tx, set
<1>3. Does(MmtpWorld, {}, Do(body), set)
  <2>1. /\ Does(MmtpWorld, {}, Toggle("l1aReset", "active", "inactive"), l1a)
        /\ Does(MmtpWorld, idle, Toggle("latTxIdle", "active", "inactive"), tx)
    BY <1>1, MmtpIsEasy, EasyTwice DEF Toggle
  <2>2. Chain(MmtpWorld, <<{}, {}, l1a, idle, tx, set>>, body, 5)
    BY <1>1, <2>1, MmtpIsEasy, EasyWrite DEF Chain
  <2> HIDE DEF body
  <2> QED
    BY <2>2, DoesDo
<1> HIDE DEF body
<1>4. Does(MmtpWorld, {}, Warn \o Raise, set)
  BY <1>1, MmtpIsEasy, EasyWarn, EasyRaise, DoesSequence
<1>5. Does(MmtpWorld, {}, Attempt(Do(body), Warn \o Raise), set)
  BY <1>1, <1>3, <1>4, MmtpIsEasy, EasyAttempt
<1>6. Does(MmtpWorld, set, If("fibers" \in settings, AlignArtGbtx), MmtpDone(settings))
  <2>1. CASE "fibers" \in settings
    <3>1. If("fibers" \in settings, AlignArtGbtx) = AlignArtGbtx
      BY <2>1 DEF If
    <3> QED
      BY <1>1, <1>2, <2>1, <3>1, AlignArtGbtxDoes
  <2>2. CASE "fibers" \notin settings
    <3>1. If("fibers" \in settings, AlignArtGbtx) = Nothing
      BY <2>2 DEF If, Nothing
    <3> QED
      BY <1>1, <1>2, <2>2, <3>1, MmtpIsEasy, EasyNothing
  <2> QED
    BY <2>1, <2>2
<1>7. Chain(MmtpWorld, <<{}, set, MmtpDone(settings)>>, ps, 2)
  BY <1>5, <1>6 DEF Chain
<1> HIDE DEF ps
<1>8. Does(MmtpWorld, {}, Do(ps), MmtpDone(settings))
  BY <1>7, DoesDo
<1> QED
  BY <1>8 DEF WriteMmtp, ps, body

LEMMA ChannelRatesDo ==
  ASSUME NEW state \in {"on", "off"}
  PROVE  Does(MmtpWorld, {}, EnableChannelRates(state), {<<"channelRates", state>>})
<1>1. MayWrite(MmtpWorld, {}, "channelRates", state, {<<"channelRates", state>>})
  BY MmtpIsEasy DEF MayWrite, On, MmtpLines, Values
<1> QED
  BY <1>1, MmtpIsEasy, EasyWrite DEF EnableChannelRates

\* The end of a run leaves the channel rates as they were switched before.
LEMMA ToggleIdleStateHighDoes ==
  Does(MmtpWorld, {<<"channelRates", "off">>}, ToggleIdleStateHigh,
       {<<"channelRates", "off">>, <<"latTxIdle", "inactive">>})
<1> DEFINE rates == {<<"channelRates", "off">>}
           both  == {<<"channelRates", "off">>, <<"latTxIdle", "inactive">>}
<1>1. /\ MayWrite(MmtpWorld, rates, "idleState", "high", rates)
      /\ MayWrite(MmtpWorld, rates, "latTxIdle", "inactive", both)
      /\ "active" \in Values
  BY MmtpIsEasy DEF MayWrite, On, MmtpLines, Values
<1> HIDE DEF rates, both
<1>2. Does(MmtpWorld, rates, Toggle("latTxIdle", "active", "inactive"), both)
  BY <1>1, MmtpIsEasy, EasyTwice DEF Toggle
<1>3. Does(MmtpWorld, rates, ToggleIdleStateHigh, both)
  BY <1>1, <1>2, MmtpIsEasy, EasyWrite, DoesSequence DEF ToggleIdleStateHigh
<1> QED
  BY <1>3 DEF rates, both

-----------------------------------------------------------------------------
(* Router.                                                                 *)

RouterWorld == Forgiving(RouterLines, {})

LEMMA RouterIsEasy ==
  Easy(RouterWorld) /\ RouterWorld.lines = RouterLines /\ RouterWorld.never = {}
BY DEF RouterWorld, Easy, Forgiving

GoodAfter(good, p) == Read("gpios") \o Choose({Settle("gpios", "good") \o good, p})
Checks(f, good, bad) ==
  f = [n \in 0..MAX_GPIO_CHECKS |-> IF n = 0 THEN bad ELSE GoodAfter(good, f[n - 1])]

LEMMA SomeChecks ==
  ASSUME NEW good, NEW bad
  PROVE  \E f : Checks(f, good, bad)
<1> DEFINE c0 == bad
           c1 == GoodAfter(good, c0)
           c2 == GoodAfter(good, c1)
           c3 == GoodAfter(good, c2)
           c4 == GoodAfter(good, c3)
           c5 == GoodAfter(good, c4)
           f == [n \in 0..5 |-> <<c0, c1, c2, c3, c4, c5>>[n + 1]]
<1>1. /\ c0 = bad /\ c1 = GoodAfter(good, c0) /\ c2 = GoodAfter(good, c1)
      /\ c3 = GoodAfter(good, c2) /\ c4 = GoodAfter(good, c3) /\ c5 = GoodAfter(good, c4)
  OBVIOUS
<1> HIDE DEF c0, c1, c2, c3, c4, c5
<1>2. ASSUME NEW n \in 0..5
      PROVE  f[n] = IF n = 0 THEN bad ELSE GoodAfter(good, f[n - 1])
  <2>1. f[0] = c0 /\ f[1] = c1 /\ f[2] = c2 /\ f[3] = c3 /\ f[4] = c4 /\ f[5] = c5
    OBVIOUS
  <2> HIDE DEF f
  <2>2. \/ n = 0
        \/ n = 1 /\ n - 1 = 0
        \/ n = 2 /\ n - 1 = 1
        \/ n = 3 /\ n - 1 = 2
        \/ n = 4 /\ n - 1 = 3
        \/ n = 5 /\ n - 1 = 4
    OBVIOUS
  <2> QED
    BY <1>1, <2>1, <2>2
<1>3. f = [n \in 0..5 |-> f[n]]
  OBVIOUS
<1> HIDE DEF f
<1>4. f = [n \in 0..5 |-> IF n = 0 THEN bad ELSE GoodAfter(good, f[n - 1])]
  BY <1>2, <1>3
<1> QED
  BY <1>4 DEF Checks, MAX_GPIO_CHECKS

LEMMA CheckGPIOsDoes ==
  ASSUME NEW F, On(RouterWorld, F), Apart(F, {"gpios"}), NEW G, NEW good, NEW bad,
         Does(RouterWorld, F \cup {<<"gpios", "good">>}, good, G),
         Does(RouterWorld, F, bad, G)
  PROVE  Does(RouterWorld, F, CheckGPIOsAFewTimes(good, bad), G)
<1> DEFINE f == CHOOSE g : g = [n \in 0..MAX_GPIO_CHECKS |->
                  IF n = 0 THEN bad
                  ELSE Read("gpios") \o Choose({Settle("gpios", "good") \o good, g[n - 1]})]
<1>1. CheckGPIOsAFewTimes(good, bad) = f[5]
  BY DEF CheckGPIOsAFewTimes, MAX_GPIO_CHECKS
<1>2. Checks(f, good, bad)
  <2>1. \E g : Checks(g, good, bad)
    BY SomeChecks
  <2>2. \E g : g = [n \in 0..MAX_GPIO_CHECKS |->
                  IF n = 0 THEN bad
                  ELSE Read("gpios") \o Choose({Settle("gpios", "good") \o good, g[n - 1]})]
    BY <2>1 DEF Checks, GoodAfter
  <2>3. f = [n \in 0..MAX_GPIO_CHECKS |->
                  IF n = 0 THEN bad
                  ELSE Read("gpios") \o Choose({Settle("gpios", "good") \o good, f[n - 1]})]
    BY <2>2
  <2> QED
    BY <2>3 DEF Checks, GoodAfter
<1> HIDE DEF f
<1>3. f[0] = bad /\ \A n \in 1..5 : f[n] = GoodAfter(good, f[n - 1])
  BY <1>2 DEF Checks, MAX_GPIO_CHECKS
<1>4. MayWrite(RouterWorld, F, "gpios", "good", F \cup {<<"gpios", "good">>})
  BY RouterIsEasy DEF MayWrite, On, RouterLines, Values, Apart
<1>5. Does(RouterWorld, F, Settle("gpios", "good") \o good, G)
  BY <1>4, RouterIsEasy, EasySettle, DoesSequence
<1>6. ASSUME NEW p, Does(RouterWorld, F, p, G)
      PROVE  Does(RouterWorld, F, GoodAfter(good, p), G)
  BY <1>5, <1>6, RouterIsEasy, EasyRead, EasyChoose, DoesSequence DEF GoodAfter
<1>7. \A n \in 1..5 : Does(RouterWorld, F, f[n - 1], G) => Does(RouterWorld, F, f[n], G)
  BY <1>3, <1>6
<1>8. 1 - 1 = 0 /\ 2 - 1 = 1 /\ 3 - 1 = 2 /\ 4 - 1 = 3 /\ 5 - 1 = 4
  OBVIOUS
<1>9. Does(RouterWorld, F, f[5], G)
  BY <1>3, <1>7, <1>8
<1> QED
  BY <1>1, <1>9

LEMMA WriteSoftResetDoes ==
  ASSUME NEW F, On(RouterWorld, F), Apart(F, {"controlMode", "softReset"})
  PROVE  Does(RouterWorld, F, WriteSoftReset,
              F \cup {<<"controlMode", "sca">>, <<"softReset", "inactive">>})
<1> DEFINE sca == F \cup {<<"controlMode", "sca">>}
           done == F \cup {<<"controlMode", "sca">>, <<"softReset", "inactive">>}
           ps == <<WriteAndReadback("controlMode", "partial"),
                   WriteAndReadback("controlMode", "sca"),
                   WriteAndReadback("softReset", "active"),
                   WriteAndReadback("softReset", "inactive")>>
<1>1. /\ MayWrite(RouterWorld, F, "controlMode", "partial", F)
      /\ MayWrite(RouterWorld, F, "controlMode", "sca", sca)
      /\ MayWrite(RouterWorld, sca, "softReset", "active", sca)
      /\ MayWrite(RouterWorld, sca, "softReset", "inactive", done)
  BY RouterIsEasy DEF MayWrite, On, RouterLines, Values, Apart
<1> HIDE DEF sca, done
<1>2. Chain(RouterWorld, <<F, F, sca, sca, done>>, ps, 4)
  BY <1>1, RouterIsEasy, EasyWriteBack DEF Chain
<1> HIDE DEF ps
<1>3. Does(RouterWorld, F, Do(ps), done)
  BY <1>2, DoesDo
<1> QED
  BY <1>3 DEF WriteSoftReset, ps, done

Resetting(f, next) ==
  f = [n \in 0..MAX_RESETS |->
         IF n = 0 THEN Settle("gpios", "bad") \o Warn \o next
         ELSE WriteSoftReset \o CheckGPIOsAFewTimes(next, f[n - 1])]

LEMMA SomeResetting ==
  ASSUME NEW next
  PROVE  \E f : Resetting(f, next)
<1> DEFINE again(p) == WriteSoftReset \o CheckGPIOsAFewTimes(next, p)
           r0 == Settle("gpios", "bad") \o Warn \o next
           r1 == again(r0)
           r2 == again(r1)
           r3 == again(r2)
           f  == [n \in 0..3 |-> <<r0, r1, r2, r3>>[n + 1]]
<1>1. r1 = again(r0) /\ r2 = again(r1) /\ r3 = again(r2)
  OBVIOUS
<1>2. r0 = Settle("gpios", "bad") \o Warn \o next
  OBVIOUS
<1> HIDE DEF r0, r1, r2, r3, again
<1>3. ASSUME NEW n \in 0..3
      PROVE  f[n] = IF n = 0 THEN r0 ELSE again(f[n - 1])
  <2>1. f[0] = r0 /\ f[1] = r1 /\ f[2] = r2 /\ f[3] = r3
    OBVIOUS
  <2> HIDE DEF f
  <2>2. n = 0 \/ (n = 1 /\ n - 1 = 0) \/ (n = 2 /\ n - 1 = 1) \/ (n = 3 /\ n - 1 = 2)
    OBVIOUS
  <2> QED
    BY <1>1, <2>1, <2>2
<1>4. f = [n \in 0..3 |-> f[n]]
  OBVIOUS
<1> HIDE DEF f
<1>5. f = [n \in 0..3 |-> IF n = 0 THEN r0 ELSE again(f[n - 1])]
  BY <1>3, <1>4
<1> QED
  BY <1>2, <1>5 DEF Resetting, MAX_RESETS, again

LEMMA SoftResetAndCheckDoes ==
  ASSUME NEW F, On(RouterWorld, F), Apart(F, {"controlMode", "softReset", "gpios"}),
         NEW G, NEW next,
         Does(RouterWorld, F \cup {<<"controlMode", "sca">>, <<"softReset", "inactive">>,
                                   <<"gpios", "good">>}, next, G)
  PROVE  Does(RouterWorld, F, WriteSoftResetAndCheckGPIO(next), G)
<1> DEFINE S == F \cup {<<"controlMode", "sca">>, <<"softReset", "inactive">>}
           T == F \cup {<<"controlMode", "sca">>, <<"softReset", "inactive">>,
                        <<"gpios", "good">>}
           f == CHOOSE g : g = [n \in 0..MAX_RESETS |->
                  IF n = 0 THEN Settle("gpios", "bad") \o Warn \o next
                  ELSE WriteSoftReset \o CheckGPIOsAFewTimes(next, g[n - 1])]
<1>1. WriteSoftResetAndCheckGPIO(next) = f[3]
  BY DEF WriteSoftResetAndCheckGPIO, MAX_RESETS
<1>2. Resetting(f, next)
  <2>1. \E g : Resetting(g, next)
    BY SomeResetting
  <2> QED
    BY <2>1 DEF Resetting
<1> HIDE DEF f
<1>3. /\ f[0] = Settle("gpios", "bad") \o Warn \o next
      /\ \A n \in 1..3 : f[n] = WriteSoftReset \o CheckGPIOsAFewTimes(next, f[n - 1])
  <2> DEFINE again(p) == WriteSoftReset \o CheckGPIOsAFewTimes(next, p)
             last == Settle("gpios", "bad") \o Warn \o next
  <2>1. f = [n \in 0..3 |-> IF n = 0 THEN last ELSE again(f[n - 1])]
    BY <1>2 DEF Resetting, MAX_RESETS
  <2> HIDE DEF again, last
  <2>2. f[0] = last /\ \A n \in 1..3 : f[n] = again(f[n - 1])
    BY <2>1
  <2> QED
    BY <2>2 DEF again, last
<1>4. /\ On(RouterWorld, S) /\ On(RouterWorld, T) /\ Apart(S, {"gpios"})
      /\ S \cup {<<"gpios", "good">>} = T /\ F \subseteq S
      /\ MayWrite(RouterWorld, F, "gpios", "bad", F)
      /\ Apart(F, {"controlMode", "softReset"})
  BY RouterIsEasy DEF MayWrite, On, RouterLines, Values, Apart
<1>5. Does(RouterWorld, F, WriteSoftReset, S)
  BY <1>4, WriteSoftResetDoes
<1>6. Does(RouterWorld, T, next, G)
  OBVIOUS
<1> HIDE DEF S, T
<1>7. Does(RouterWorld, F, f[0], G)
  <2>1. Does(RouterWorld, F, Settle("gpios", "bad") \o Warn, T)
    BY <1>4, RouterIsEasy, EasySettle, EasyWarn, DoesSequence
  <2> QED
    BY <1>3, <1>6, <2>1, DoesSequence
<1>8. ASSUME NEW p, Does(RouterWorld, F, p, G)
      PROVE  Does(RouterWorld, F, WriteSoftReset \o CheckGPIOsAFewTimes(next, p), G)
  <2>1. Does(RouterWorld, S, p, G)
    BY <1>4, <1>8, DoesLess
  <2>2. Does(RouterWorld, S, CheckGPIOsAFewTimes(next, p), G)
    BY <1>4, <1>6, <2>1, CheckGPIOsDoes
  <2> QED
    BY <1>5, <2>2, DoesSequence
<1>9. \A n \in 1..3 : Does(RouterWorld, F, f[n - 1], G) => Does(RouterWorld, F, f[n], G)
  BY <1>3, <1>8
<1>10. 1 - 1 = 0 /\ 2 - 1 = 1 /\ 3 - 1 = 2
  OBVIOUS
<1>11. Does(RouterWorld, F, f[3], G)
  BY <1>7, <1>9, <1>10
<1> QED
  BY <1>1, <1>11

\* The facts that a part of a procedure adds, if the settings ask for it.
Asked(settings, name, D) == IF name \in settings THEN D ELSE {}

LEMMA EasyAsked ==
  ASSUME NEW W, Easy(W), NEW F, On(W, F), NEW settings, NEW name, NEW D, NEW p,
         Does(W, F, p, F \cup D)
  PROVE  Does(W, F, If(name \in settings, p), F \cup Asked(settings, name, D))
<1>1. CASE name \in settings
  BY <1>1 DEF If, Asked
<1>2. CASE name \notin settings
  <2>1. If(name \in settings, p) = Nothing /\ F \cup Asked(settings, name, D) = F
    BY <1>2 DEF If, Nothing, Asked
  <2> QED
    BY <2>1, EasyNothing
<1> QED
  BY <1>1, <1>2

\* An address of no known form always raises an issue: what holds otherwise is
\* impossible, two values of a line.
RouterDone(settings) ==
  Asked(settings, "bitfile", {<<"firmware", "loaded">>})
    \cup {<<"controlMode", "sca">>, <<"softReset", "inactive">>, <<"gpios", "good">>}
    \cup Asked(settings, "badId", {<<"gpios", "bad">>})
    \cup {<<"id", "written">>}

LEMMA WriteRouterDoes ==
  ASSUME NEW settings
  PROVE  Does(RouterWorld, {}, WriteRouter(settings), RouterDone(settings))
<1> DEFINE loaded == {} \cup Asked(settings, "bitfile", {<<"firmware", "loaded">>})
           ready  == loaded \cup {<<"controlMode", "sca">>, <<"softReset", "inactive">>,
                                  <<"gpios", "good">>}
           known  == ready \cup Asked(settings, "badId", {<<"gpios", "bad">>})
           done   == RouterDone(settings)
           ps     == <<If("badId" \in settings, Warn), WriteAndReadback("id", "partial"),
                       WriteAndReadback("id", "written")>>
<1>1. /\ On(RouterWorld, {}) /\ On(RouterWorld, loaded)
      /\ On(RouterWorld, ready) /\ On(RouterWorld, ready \cup {<<"gpios", "bad">>})
      /\ Apart(loaded, {"controlMode", "softReset", "gpios"})
      /\ MayWrite(RouterWorld, {}, "firmware", "loaded", {} \cup {<<"firmware", "loaded">>})
      /\ MayWrite(RouterWorld, known, "id", "partial", known)
      /\ MayWrite(RouterWorld, known, "id", "written", done)
  BY RouterIsEasy DEF MayWrite, On, RouterLines, Values, Apart, Asked, RouterDone
<1>2. Does(RouterWorld, {}, If("bitfile" \in settings, UploadBitfile), loaded)
  BY <1>1, RouterIsEasy, EasyUpload, EasyAsked
<1> HIDE DEF done
<1>3. Does(RouterWorld, ready, WriteScaId(settings), done)
  <2>1. Does(RouterWorld, ready, If("badId" \in settings, Warn), known)
    <3> HIDE DEF ready
    <3> QED
      BY <1>1, RouterIsEasy, EasyWarn, EasyAsked
  <2> HIDE DEF ready, known
  <2>2. Chain(RouterWorld, <<ready, known, known, done>>, ps, 3)
    BY <1>1, <2>1, RouterIsEasy, EasyWriteBack DEF Chain
  <2> HIDE DEF ps
  <2>3. Does(RouterWorld, ready, Do(ps), done)
    BY <2>2, DoesDo
  <2> QED
    BY <2>3 DEF WriteScaId, ps
<1>4. Does(RouterWorld, loaded, WriteSoftResetAndCheckGPIO(WriteScaId(settings)), done)
  <2> HIDE DEF loaded
  <2> QED
    BY <1>1, <1>3, SoftResetAndCheckDoes
<1> QED
  BY <1>2, <1>4, DoesSequence DEF WriteRouter, done

-----------------------------------------------------------------------------
(* Pad trigger.  A reset line that its settings do not toggle never is on. *)

Toggled(settings) ==
  {"readoutReset", "triggerReset"}
    \cup (settings \cap {"gtReset", "ocr", "bcidReset", "rxLolReset"})
    \cup Asked(settings, "toggle", {"idle"})

PadWorld(settings) ==
  Forgiving(PadTriggerLines, {<<line, "on">> : line \in Resets \ Toggled(settings)})

LEMMA PadIsEasy ==
  ASSUME NEW settings
  PROVE  /\ Easy(PadWorld(settings)) /\ PadWorld(settings).lines = PadTriggerLines
         /\ \A line, value : <<line, value>> \in PadWorld(settings).never =>
              value = "on" /\ line \in Resets \ Toggled(settings)
BY DEF PadWorld, Easy, Forgiving

\* A part of the procedure that touches some lines adds facts about them.
Facts(D, lines) == \A p \in D : p[1] \in lines
Part(settings, lines, p, D) ==
  /\ lines \subseteq PadTriggerLines /\ Facts(D, lines)
  /\ \A F : On(PadWorld(settings), F) /\ Apart(F, lines) =>
       Does(PadWorld(settings), F, p, F \cup D)

LEMMA PartAsked ==
  ASSUME NEW settings, NEW lines \in SUBSET PadTriggerLines, NEW p, NEW D, Facts(D, lines),
         NEW name, name \in settings => Part(settings, lines, p, D)
  PROVE  Part(settings, lines, If(name \in settings, p), Asked(settings, name, D))
<1>1. Facts(Asked(settings, name, D), lines)
  BY DEF Facts, Asked
<1>2. ASSUME NEW F, On(PadWorld(settings), F), Apart(F, lines)
      PROVE  Does(PadWorld(settings), F, If(name \in settings, p), F \cup Asked(settings, name, D))
  <2>1. CASE name \in settings
    BY <1>2, <2>1 DEF Part, If, Asked
  <2>2. CASE name \notin settings
    <3>1. If(name \in settings, p) = Nothing /\ F \cup Asked(settings, name, D) = F
      BY <2>2 DEF If, Nothing, Asked
    <3> QED
      BY <1>2, <3>1, PadIsEasy, EasyNothing
  <2> QED
    BY <2>1, <2>2
<1> QED
  BY <1>1, <1>2 DEF Part

\* A toggled reset is off, another fact of its line is forgotten.
LEMMA ToggleDoes ==
  ASSUME NEW settings, NEW line \in Toggled(settings), line \in Resets,
         NEW F, On(PadWorld(settings), F)
  PROVE  /\ Apart(F, {line}) =>
              Does(PadWorld(settings), F, ToggleReset(line), F \cup {<<line, "off">>})
         /\ <<line, "off">> \in F /\ Apart(F \ {<<line, "off">>}, {line}) =>
              Does(PadWorld(settings), F, ToggleReset(line), F)
<1> DEFINE W == PadWorld(settings)
           ps == <<WriteSubRegister(line, "off"), WriteSubRegister(line, "on"),
                   WriteSubRegister(line, "off")>>
<1>1. /\ Easy(W) /\ W.lines = PadTriggerLines
      /\ <<line, "on">> \notin W.never /\ <<line, "off">> \notin W.never
  BY PadIsEasy
<1>2. line \in W.lines /\ {"on", "off"} \subseteq Values
  BY <1>1 DEF Values, PadTriggerLines
<1> HIDE DEF W, ps
<1>3. ASSUME NEW R, On(W, R), Apart(R, {line}), NEW value \in {"on", "off"}, NEW A,
             A = R \/ A = R \cup {<<line, "off">>}
      PROVE  Does(W, A, WriteSubRegister(line, value), R \cup {<<line, value>>})
  <2>1. MayWrite(W, A, line, value, R \cup {<<line, value>>})
    BY <1>1, <1>2, <1>3 DEF MayWrite, On, Apart
  <2>2. On(W, A)
    BY <2>1 DEF MayWrite
  <2> QED
    BY <1>1, <2>1, <2>2, EasyRead, EasyWrite, DoesSequence DEF WriteSubRegister
<1>4. ASSUME NEW R, On(W, R), Apart(R, {line}), NEW A, A = R \/ A = R \cup {<<line, "off">>}
      PROVE  Does(W, A, ToggleReset(line), R \cup {<<line, "off">>})
  <2> DEFINE off == R \cup {<<line, "off">>}
  <2>1. Does(W, A, WriteSubRegister(line, "off"), off)
    BY <1>3, <1>4
  <2>2. Does(W, off, WriteSubRegister(line, "on"), R)
    <3>1. Does(W, off, WriteSubRegister(line, "on"), R \cup {<<line, "on">>})
      BY <1>3, <1>4
    <3> HIDE DEF off
    <3> QED
      BY <3>1, DoesLess
  <2>3. Does(W, R, WriteSubRegister(line, "off"), off)
    BY <1>3, <1>4
  <2> HIDE DEF off
  <2>4. Chain(W, <<A, off, R, off>>, ps, 3)
    BY <2>1, <2>2, <2>3 DEF Chain, ps
  <2>5. Does(W, A, Do(ps), off)
    BY <2>4, DoesDo
  <2> QED
    BY <2>5 DEF ToggleReset, ps, off
<1>5. ASSUME <<line, "off">> \in F, Apart(F \ {<<line, "off">>}, {line})
      PROVE  Does(W, F, ToggleReset(line), F)
  <2> DEFINE R == F \ {<<line, "off">>}
  <2>1. On(W, R) /\ Apart(R, {line}) /\ F = R \cup {<<line, "off">>}
    BY <1>5 DEF On, W
  <2> HIDE DEF R
  <2> QED
    BY <1>4, <2>1
<1>6. On(W, F)
  BY DEF W
<1>7. Apart(F, {line}) => Does(W, F, ToggleReset(line), F \cup {<<line, "off">>})
  BY <1>4, <1>6
<1> QED
  BY <1>5, <1>7 DEF W

LEMMA TogglePart ==
  ASSUME NEW settings, NEW line \in Toggled(settings), line \in Resets
  PROVE  Part(settings, {line}, ToggleReset(line), {<<line, "off">>})
<1>1. {line} \subseteq PadTriggerLines /\ Facts({<<line, "off">>}, {line})
  BY DEF PadTriggerLines, Facts
<1> QED
  BY <1>1, ToggleDoes DEF Part

RepeatersDone == {<<"repeaters", "configured">>, <<"repeaterPins", "off">>}

LEMMA RepeatersPart ==
  ASSUME NEW settings
  PROVE  Part(settings, {"repeaters", "repeaterPins"}, WriteRepeaters, RepeatersDone)
<1> DEFINE W == PadWorld(settings)
           command(value) ==
             Do(<<Write("repeaterPins", "on"), Write("repeaters", value),
                  CheckReadback("repeaters"), Write("repeaterPins", "off")>>)
<1>1. /\ Easy(W) /\ W.lines = PadTriggerLines
      /\ \A value : <<"repeaters", value>> \notin W.never /\ <<"repeaterPins", value>> \notin W.never
  BY PadIsEasy DEF Resets
<1> HIDE DEF W
<1>2. ASSUME NEW F, On(W, F), Apart(F, {"repeaters", "repeaterPins"}),
             NEW value \in {"partial", "configured"}
      PROVE  Does(W, F, command(value), F \cup {<<"repeaters", value>>, <<"repeaterPins", "off">>})
  <2> DEFINE G == F \cup {<<"repeaters", value>>}
             H == F \cup {<<"repeaters", value>>, <<"repeaterPins", "off">>}
             ps == <<Write("repeaterPins", "on"), Write("repeaters", value),
                     CheckReadback("repeaters"), Write("repeaterPins", "off")>>
  <2>1. /\ MayWrite(W, F, "repeaterPins", "on", F)
        /\ MayWrite(W, F, "repeaters", value, G)
        /\ MayWrite(W, G, "repeaterPins", "off", H)
        /\ On(W, G)
    <3>1. On(W, G) /\ On(W, H)
      BY <1>1, <1>2 DEF On, PadTriggerLines
    <3>2. MayWrite(W, F, "repeaterPins", "on", F)
      BY <1>1, <1>2 DEF MayWrite, Apart, Values, PadTriggerLines
    <3>3. MayWrite(W, F, "repeaters", value, G)
      BY <1>1, <1>2, <3>1 DEF MayWrite, Apart, Values, PadTriggerLines
    <3>4. MayWrite(W, G, "repeaterPins", "off", H)
      <4>1. \A p \in H : p = <<"repeaterPins", "off">> \/ (p \in G /\ p[1] # "repeaterPins")
        BY <1>2 DEF Apart
      <4>2. "repeaterPins" \in W.lines /\ "off" \in Values /\ <<"repeaterPins", "off">> \notin W.never
        BY <1>1 DEF PadTriggerLines, Values
      <4> HIDE DEF G, H
      <4> QED
        BY <3>1, <4>1, <4>2 DEF MayWrite
    <3> QED
      BY <3>1, <3>2, <3>3, <3>4
  <2> HIDE DEF G, H
  <2>2. Chain(W, <<F, F, G, G, H>>, ps, 4)
    BY <1>1, <2>1, EasyWrite, EasyCheck DEF Chain
  <2> HIDE DEF ps
  <2>3. Does(W, F, Do(ps), H)
    BY <2>2, DoesDo
  <2> QED
    BY <2>3 DEF ps, H
<1>3. ASSUME NEW F, On(W, F), Apart(F, {"repeaters", "repeaterPins"})
      PROVE  Does(W, F, WriteRepeaters, F \cup RepeatersDone)
  <2>1. Does(W, F, command("partial"), F)
    <3>1. Does(W, F, command("partial"), F \cup {<<"repeaters", "partial">>, <<"repeaterPins", "off">>})
      BY <1>2, <1>3
    <3> HIDE DEF command
    <3> QED
      BY <3>1, DoesLess
  <2>2. Does(W, F, command("configured"), F \cup RepeatersDone)
    BY <1>2, <1>3 DEF RepeatersDone
  <2>3. WriteRepeaters = command("partial") \o command("configured")
    BY DEF WriteRepeaters
  <2> HIDE DEF command
  <2> QED
    BY <2>1, <2>2, <2>3, DoesSequence
<1> QED
  BY <1>3 DEF Part, Facts, RepeatersDone, PadTriggerLines, W

LEMMA VttxPart ==
  ASSUME NEW settings
  PROVE  Part(settings, {"vttx"}, WriteVttx, {<<"vttx", "configured">>})
<1> DEFINE W == PadWorld(settings)
<1>1. /\ Easy(W) /\ W.lines = PadTriggerLines /\ \A value : <<"vttx", value>> \notin W.never
  BY PadIsEasy DEF Resets
<1> HIDE DEF W
<1>2. ASSUME NEW F, On(W, F), Apart(F, {"vttx"})
      PROVE  Does(W, F, WriteVttx, F \cup {<<"vttx", "configured">>})
  <2> DEFINE G == F \cup {<<"vttx", "configured">>}
  <2>1. MayWrite(W, F, "vttx", "partial", F) /\ MayWrite(W, F, "vttx", "configured", G)
    BY <1>1, <1>2 DEF MayWrite, On, Apart, Values, PadTriggerLines
  <2> HIDE DEF G
  <2>2. Does(W, F, WriteVttx, G)
    BY <1>1, <2>1, EasyWriteBack, DoesSequence DEF WriteVttx
  <2> QED
    BY <2>2 DEF G
<1> QED
  BY <1>2 DEF Part, Facts, PadTriggerLines, W

LEMMA BitfilePart ==
  ASSUME NEW settings
  PROVE  Part(settings, {"firmware"}, WriteBitfile(settings), {})
<1> DEFINE W == PadWorld(settings)
           check == Choose({Nothing, Raise})
           ps == <<UploadBitfile, Read("firmware"), check>>
           upload == Do(ps)
           some == IF "forceUpload" \in settings THEN upload ELSE Choose({Nothing, upload})
<1>1. /\ Easy(W) /\ W.lines = PadTriggerLines /\ \A value : <<"firmware", value>> \notin W.never
  BY PadIsEasy DEF Resets
<1> HIDE DEF W
<1>2. ASSUME NEW F, On(W, F), Apart(F, {"firmware"})
      PROVE  Does(W, F, WriteBitfile(settings), F)
  <2>1. MayWrite(W, F, "firmware", "loaded", F)
    BY <1>1, <1>2 DEF MayWrite, On, Apart, Values, PadTriggerLines
  <2>2. Does(W, F, check, F)
    BY <1>1, <1>2, EasyNothing, EasyRaise, EasyChoose
  <2> HIDE DEF check
  <2>3. Chain(W, <<F, F, F, F>>, ps, 3)
    BY <1>1, <1>2, <2>1, <2>2, EasyUpload, EasyRead DEF Chain
  <2> HIDE DEF ps
  <2>4. Does(W, F, upload, F)
    BY <2>3, DoesDo
  <2> HIDE DEF upload
  <2>5. Does(W, F, Choose({Nothing, upload}), F)
    BY <1>1, <1>2, <2>4, EasyNothing, EasyChoose
  <2>6. Does(W, F, some, F)
    BY <2>4, <2>5
  <2> HIDE DEF some
  <2>7. Does(W, F, Read("firmware") \o some, F)
    BY <1>1, <1>2, <2>6, EasyRead, DoesSequence
  <2> QED
    BY <2>7 DEF WriteBitfile, some, upload, ps, check
<1>3. \A F : On(W, F) /\ Apart(F, {"firmware"}) => Does(W, F, WriteBitfile(settings), F \cup {})
  <2> SUFFICES ASSUME NEW F, On(W, F), Apart(F, {"firmware"})
               PROVE  Does(W, F, WriteBitfile(settings), F \cup {})
    OBVIOUS
  <2>1. F \cup {} = F
    OBVIOUS
  <2> QED
    BY <1>2, <2>1
<1> QED
  BY <1>3 DEF Part, Facts, PadTriggerLines, W

FpgaDone == {<<"control", "configured">>, <<"fpga", "configured">>}
FpgaAll  == FpgaDone \cup {<<"delays", "configured">>}

LEMMA FpgaPart ==
  ASSUME NEW settings
  PROVE  Part(settings, {"control", "fpga", "delays"}, WriteFpga, FpgaAll)
<1> DEFINE W == PadWorld(settings)
           ps == <<WriteAndReadback("fpga", "partial"), WriteAndReadback("delays", "configured"),
                   WriteAndReadback("fpga", "configured")>>
<1>1. /\ Easy(W) /\ W.lines = PadTriggerLines
      /\ \A line \in {"control", "fpga", "delays"} : \A value : <<line, value>> \notin W.never
  BY PadIsEasy DEF Resets
<1> HIDE DEF W
<1>2. ASSUME NEW F, On(W, F), Apart(F, {"control", "fpga", "delays"})
      PROVE  Does(W, F, WriteFpga, F \cup FpgaAll)
  <2> DEFINE G == F \cup {<<"control", "configured">>}
             D == G \cup {<<"delays", "configured">>}
             H == F \cup FpgaAll
  <2>1. /\ MayWrite(W, F, "control", "configured", G)
        /\ MayWrite(W, G, "fpga", "partial", G)
        /\ MayWrite(W, G, "delays", "configured", D)
        /\ MayWrite(W, D, "fpga", "configured", H)
        /\ On(W, G) /\ On(W, H) /\ On(W, {})
    BY <1>1, <1>2 DEF MayWrite, On, Apart, Values, PadTriggerLines, FpgaDone, FpgaAll
  <2> HIDE DEF G, D, H
  <2>2. Chain(W, <<G, G, D, H>>, ps, 3)
    BY <1>1, <2>1, EasyWriteBack DEF Chain
  <2> HIDE DEF ps
  <2>3. Does(W, G, Do(ps), H)
    BY <2>2, DoesDo
  <2>4. Does(W, G, Attempt(Do(ps), Warn), H)
    BY <1>1, <2>1, <2>3, EasyWarn, EasyAttempt
  <2>5. Does(W, F, WriteAndReadback("control", "configured"), G)
    BY <1>1, <2>1, EasyWriteBack
  <2>6. WriteFpga = WriteAndReadback("control", "configured") \o Attempt(Do(ps), Warn)
    BY DEF WriteFpga, ps
  <2> QED
    BY <2>4, <2>5, <2>6, DoesSequence DEF H
<1> QED
  BY <1>2 DEF Part, Facts, PadTriggerLines, W, FpgaDone, FpgaAll

\* The delays the scan finds: configured by the part before, or anything.
DelaysFound(settings) == IF "fpga" \in settings THEN {"configured"} ELSE Values
FoundBefore(settings, found) ==
  IF "fpga" \in settings THEN {} ELSE {<<"delays", found>>}

DeskewDone(settings, found) ==
  IF "scanOnly" \in settings
    THEN {<<"delays", found>>, <<"existingDelays", found>>}
    ELSE {<<"delays", "deskewed">>}

\* The scan restores what it has found, or the delays are those of the target.
LEMMA DeskewDoes ==
  ASSUME NEW settings, NEW found \in Values,
         NEW A, On(PadWorld(settings), A), Apart(A, {"delays", "existingDelays"})
  PROVE  Does(PadWorld(settings), A \cup {<<"delays", found>>}, Deskew(settings),
              A \cup DeskewDone(settings, found))
<1> DEFINE W == PadWorld(settings)
           scan  == Do(<<WriteAll("delays", "common"), CheckReadback("delays"), Read("delays")>>)
           first == Write("delays", "partial") \o CheckReadback("delays")
           last  == CheckReadback("delays") \o Read("delays")
           apply(value) == Do(<<first, Write("delays", value), last>>)
           restore      == Do(<<first, Copy("existingDelays", "delays"), last>>)
           chosen == IF "scanOnly" \in settings
                       THEN Choose({Nothing, Warn}) \o restore
                       ELSE Choose({apply("deskewed"), Warn \o apply("zero")})
           B == A \cup {<<"delays", found>>}
           C == A \cup {<<"existingDelays", found>>}
<1>1. /\ Easy(W) /\ W.lines = PadTriggerLines
      /\ \A value : <<"delays", value>> \notin W.never /\ <<"existingDelays", value>> \notin W.never
  BY PadIsEasy DEF Resets
<1>2. /\ On(W, A) /\ On(W, B) /\ On(W, C) /\ Apart(C, {"delays"})
      /\ <<"delays", found>> \in B /\ <<"existingDelays", found>> \in C
      /\ MayWrite(W, B, "existingDelays", found, C)
      /\ \A p \in C : p \in A \/ p = <<"existingDelays", found>>
  <2>1. /\ \A p \in A : p[1] \in W.lines /\ p[1] # "delays" /\ p[1] # "existingDelays"
        /\ "delays" \in W.lines /\ "existingDelays" \in W.lines
    BY <1>1 DEF On, Apart, PadTriggerLines
  <2>2. \A p \in B : p \in A \/ p = <<"delays", found>>
    OBVIOUS
  <2>3. \A p \in C : p \in A \/ p = <<"existingDelays", found>>
    OBVIOUS
  <2>4. <<"delays", found>> \in B /\ <<"existingDelays", found>> \in C /\ A \subseteq B
    OBVIOUS
  <2> HIDE DEF W, B, C
  <2>5. On(W, A) /\ On(W, B) /\ On(W, C) /\ Apart(C, {"delays"})
    BY <2>1, <2>2, <2>3 DEF On, Apart
  <2>6. \A p \in C : p = <<"existingDelays", found>> \/ (p \in B /\ p[1] # "existingDelays")
    BY <2>1, <2>3, <2>4
  <2> QED
    BY <1>1, <2>1, <2>3, <2>4, <2>5, <2>6 DEF MayWrite
<1> HIDE DEF W
<1>3. ASSUME NEW F, On(W, F), Apart(F, {"delays"})
      PROVE  /\ Does(W, F, first, F) /\ Does(W, F, scan, F)
             /\ \A value \in Values :
                  /\ MayWrite(W, F, "delays", value, F \cup {<<"delays", value>>})
                  /\ Does(W, F \cup {<<"delays", value>>}, last, F \cup {<<"delays", value>>})
  <2>1. /\ MayWrite(W, F, "delays", "partial", F) /\ MayWrite(W, F, "delays", "common", F)
        /\ "partial" \in Values
    BY <1>1, <1>3 DEF MayWrite, Apart, Values, PadTriggerLines
  <2>2. Does(W, F, first, F)
    BY <1>1, <1>3, <2>1, EasyWrite, EasyCheck, DoesSequence
  <2>3. Does(W, F, scan, F)
    <3> DEFINE ps == <<WriteAll("delays", "common"), CheckReadback("delays"), Read("delays")>>
    <3>1. Does(W, F, WriteAll("delays", "common"), F)
      BY <1>1, <2>1, EasyTwice DEF WriteAll
    <3>2. Chain(W, <<F, F, F, F>>, ps, 3)
      BY <1>1, <1>3, <3>1, EasyCheck, EasyRead DEF Chain
    <3> HIDE DEF ps
    <3>3. Does(W, F, Do(ps), F)
      BY <3>2, DoesDo
    <3> QED
      BY <3>3 DEF ps
  <2>4. ASSUME NEW value \in Values
        PROVE  /\ MayWrite(W, F, "delays", value, F \cup {<<"delays", value>>})
               /\ Does(W, F \cup {<<"delays", value>>}, last, F \cup {<<"delays", value>>})
    <3> DEFINE G == F \cup {<<"delays", value>>}
    <3>1. MayWrite(W, F, "delays", value, G) /\ On(W, G)
      <4>1. \A p \in G : p = <<"delays", value>> \/ p \in F
        OBVIOUS
      <4>2. "delays" \in W.lines /\ \A p \in F : p[1] \in W.lines /\ p[1] # "delays"
        BY <1>1, <1>3 DEF On, Apart, PadTriggerLines
      <4> HIDE DEF G
      <4>3. On(W, G)
        BY <4>1, <4>2 DEF On
      <4> QED
        BY <1>1, <1>3, <4>1, <4>2, <4>3 DEF MayWrite
    <3> HIDE DEF G
    <3>2. Does(W, G, last, G)
      BY <1>1, <3>1, EasyCheck, EasyRead, DoesSequence
    <3> QED
      BY <3>1, <3>2 DEF G
  <2> QED
    BY <2>2, <2>3, <2>4
<1> HIDE DEF first, last, scan
<1>4. ASSUME NEW F, On(W, F), Apart(F, {"delays"}), NEW value \in Values
      PROVE  Does(W, F, apply(value), F \cup {<<"delays", value>>})
  <2> DEFINE G == F \cup {<<"delays", value>>}
             ps == <<first, Write("delays", value), last>>
  <2>1. Does(W, F, first, F) /\ MayWrite(W, F, "delays", value, G) /\ Does(W, G, last, G)
    BY <1>3, <1>4
  <2> HIDE DEF G
  <2>2. Chain(W, <<F, F, G, G>>, ps, 3)
    BY <1>1, <2>1, EasyWrite DEF Chain
  <2> HIDE DEF ps
  <2>3. Does(W, F, Do(ps), G)
    BY <2>2, DoesDo
  <2> QED
    BY <2>3 DEF ps, G
<1>5. Does(W, C, restore, A \cup {<<"delays", found>>, <<"existingDelays", found>>})
  <2> DEFINE G == C \cup {<<"delays", found>>}
             ps == <<first, Copy("existingDelays", "delays"), last>>
  <2>1. Does(W, C, first, C) /\ MayWrite(W, C, "delays", found, G) /\ Does(W, G, last, G)
    BY <1>2, <1>3
  <2>2. G = A \cup {<<"delays", found>>, <<"existingDelays", found>>}
    OBVIOUS
  <2> HIDE DEF G, C
  <2>3. Does(W, C, Copy("existingDelays", "delays"), G)
    BY <1>1, <1>2, <2>1, EasyCopy
  <2>4. Chain(W, <<C, C, G, G>>, ps, 3)
    BY <2>1, <2>3 DEF Chain
  <2> HIDE DEF ps
  <2>5. Does(W, C, Do(ps), G)
    BY <2>4, DoesDo
  <2> QED
    BY <2>2, <2>5 DEF ps
<1> HIDE DEF apply, restore
\* Without a target an issue was raised, so that "deskewed" may be claimed.
<1>6. ASSUME NEW F, On(W, F), Apart(F, {"delays"})
      PROVE  Does(W, F, Warn \o apply("zero"), F \cup {<<"delays", "deskewed">>})
  <2> DEFINE H == F \cup {<<"firmware", "yes">>, <<"firmware", "no">>}
             G == F \cup {<<"delays", "deskewed">>}
  <2>1. On(W, H) /\ Apart(H, {"delays"}) /\ "zero" \in Values
    BY <1>1, <1>6 DEF On, Apart, PadTriggerLines, Values
  <2>2. At(W, H \cup {<<"delays", "zero">>}) \subseteq At(W, G)
    <3> SUFFICES ASSUME NEW s \in At(W, H \cup {<<"delays", "zero">>})
                 PROVE  W.forgives /\ s.warned /\ s \in States(W)
      BY DEF At
    <3>1. <<"firmware", "yes">> \in H /\ <<"firmware", "no">> \in H
      OBVIOUS
    <3> HIDE DEF H
    <3>2. (\A p \in H : s.lines[p[1]] = p[2]) => FALSE
      <4> SUFFICES ASSUME \A p \in H : s.lines[p[1]] = p[2] PROVE FALSE
        OBVIOUS
      <4>1. s.lines["firmware"] = "yes" /\ s.lines["firmware"] = "no"
        BY <3>1
      <4> QED
        BY <4>1
    <3> QED
      BY <3>2 DEF At
  <2> HIDE DEF H, G
  <2>3. Does(W, F, Warn, H)
    BY <1>1, <1>6, <2>1, EasyWarn
  <2>4. Does(W, H, apply("zero"), H \cup {<<"delays", "zero">>})
    BY <1>4, <2>1
  <2>5. Does(W, F, Warn \o apply("zero"), H \cup {<<"delays", "zero">>})
    BY <2>3, <2>4, DoesSequence
  <2> QED
    BY <2>2, <2>5, Weaken DEF Does, G
<1> DEFINE done == A \cup DeskewDone(settings, found)
<1>7. Does(W, C, chosen, done)
  <2>1. CASE "scanOnly" \in settings
    <3>1. Does(W, C, Choose({Nothing, Warn}), C)
      BY <1>1, <1>2, EasyNothing, EasyWarn, EasyChoose
    <3>2. Does(W, C, restore, done)
      BY <1>5, <2>1 DEF DeskewDone
    <3> HIDE DEF C, done
    <3> QED
      BY <2>1, <3>1, <3>2, DoesSequence
  <2>2. CASE "scanOnly" \notin settings
    <3> DEFINE G == C \cup {<<"delays", "deskewed">>}
    <3>1. done \subseteq G
      BY <2>2 DEF DeskewDone
    <3>2. "deskewed" \in Values
      BY DEF Values
    <3> HIDE DEF C, done
    <3>3. Does(W, C, apply("deskewed"), G)
      BY <1>2, <1>4, <3>2
    <3>4. Does(W, C, Warn \o apply("zero"), G)
      BY <1>2, <1>6
    <3> HIDE DEF G
    <3>5. Does(W, C, Choose({apply("deskewed"), Warn \o apply("zero")}), G)
      BY <1>1, <1>2, <3>3, <3>4, EasyChoose
    <3> QED
      BY <2>2, <3>1, <3>5, DoesLess
  <2> QED
    BY <2>1, <2>2
<1>8. Deskew(settings) = Do(<<Read("delays"), Copy("delays", "existingDelays"), scan, chosen>>)
  BY DEF Deskew, chosen, scan, apply, restore, first, last
<1> HIDE DEF chosen
<1>9. Does(W, B, Deskew(settings), done)
  <2> DEFINE ps == <<Read("delays"), Copy("delays", "existingDelays"), scan, chosen>>
  <2> HIDE DEF B, C, done
  <2>1. Does(W, B, Copy("delays", "existingDelays"), C)
    BY <1>1, <1>2, EasyCopy
  <2>2. Does(W, C, scan, C)
    BY <1>2, <1>3
  <2>3. Chain(W, <<B, B, C, C, done>>, ps, 4)
    BY <1>1, <1>2, <1>7, <2>1, <2>2, EasyRead DEF Chain
  <2> HIDE DEF ps
  <2>4. Does(W, B, Do(ps), done)
    BY <2>3, DoesDo
  <2> QED
    BY <1>8, <2>4 DEF ps
<1> QED
  BY <1>9 DEF W

\* A reset and a read behind it.
LEMMA ToggleAndReadPart ==
  ASSUME NEW settings, NEW line \in Toggled(settings), line \in Resets
  PROVE  Part(settings, {line}, ToggleReset(line) \o Read(line), {<<line, "off">>})
<1>1. Part(settings, {line}, ToggleReset(line), {<<line, "off">>})
  BY TogglePart
<1>2. ASSUME NEW F, On(PadWorld(settings), F), Apart(F, {line})
      PROVE  Does(PadWorld(settings), F, ToggleReset(line) \o Read(line), F \cup {<<line, "off">>})
  <2>1. On(PadWorld(settings), F \cup {<<line, "off">>})
    BY <1>2, PadIsEasy DEF On, PadTriggerLines
  <2>2. Does(PadWorld(settings), F, ToggleReset(line), F \cup {<<line, "off">>})
    BY <1>1, <1>2 DEF Part
  <2> QED
    BY <2>1, <2>2, PadIsEasy, EasyRead, DoesSequence
<1> QED
  BY <1>1, <1>2 DEF Part

\* Parts one after the other, on lines that the earlier ones did not touch.
LEMMA PartNext ==
  ASSUME NEW settings, NEW lines, NEW p, NEW D, Part(settings, lines, p, D),
         NEW F, NEW before, Facts(F, before), before \subseteq PadTriggerLines,
         before \cap lines = {}, NEW touched, Facts(D, touched),
         NEW G, G = F \cup D, NEW after, after = before \cup touched
  PROVE  Does(PadWorld(settings), F, p, G) /\ Facts(G, after)
<1>1. On(PadWorld(settings), F) /\ Apart(F, lines)
  BY PadIsEasy DEF On, Apart, Facts
<1> QED
  BY <1>1 DEF Part, Facts

PadToggles(settings) ==
  Asked(settings, "gtReset", {<<"gtReset", "off">>})
    \cup Asked(settings, "toggle", {<<"idle", "off">>})
    \cup Asked(settings, "ocr", {<<"ocr", "off">>})
    \cup Asked(settings, "bcidReset", {<<"bcidReset", "off">>})
    \cup {<<"readoutReset", "off">>} \cup {<<"triggerReset", "off">>}
    \cup Asked(settings, "rxLolReset", {<<"rxLolReset", "off">>})

PadDone(settings, found) ==
  Asked(settings, "repeaters", RepeatersDone)
    \cup Asked(settings, "vttx", {<<"vttx", "configured">>})
    \cup Asked(settings, "fpga", FpgaDone)
    \cup Asked(settings, "deskew", DeskewDone(settings, found))
    \cup PadToggles(settings)

\* All parts of the procedure but the deskew and the last read and reset.
LEMMA PadParts ==
  ASSUME NEW settings
  PROVE  /\ Part(settings, {"repeaters", "repeaterPins"},
                 If("repeaters" \in settings, WriteRepeaters),
                 Asked(settings, "repeaters", RepeatersDone))
         /\ Part(settings, {"vttx"}, If("vttx" \in settings, WriteVttx),
                 Asked(settings, "vttx", {<<"vttx", "configured">>}))
         /\ Part(settings, {"firmware"}, If("bitfile" \in settings, WriteBitfile(settings)), {})
         /\ Part(settings, {"control", "fpga", "delays"}, If("fpga" \in settings, WriteFpga),
                 Asked(settings, "fpga", FpgaAll))
         /\ Part(settings, {"gtReset"}, If("gtReset" \in settings, ToggleReset("gtReset")),
                 Asked(settings, "gtReset", {<<"gtReset", "off">>}))
         /\ Part(settings, {"idle"}, ToggleIdleState(settings),
                 Asked(settings, "toggle", {<<"idle", "off">>}))
         /\ Part(settings, {"ocr"}, If("ocr" \in settings, ToggleReset("ocr")),
                 Asked(settings, "ocr", {<<"ocr", "off">>}))
         /\ Part(settings, {"bcidReset"},
                 If("bcidReset" \in settings, ToggleReset("bcidReset") \o Read("bcidReset")),
                 Asked(settings, "bcidReset", {<<"bcidReset", "off">>}))
         /\ Part(settings, {"readoutReset"}, ToggleReset("readoutReset"),
                 {<<"readoutReset", "off">>})
         /\ Part(settings, {"triggerReset"}, ToggleReset("triggerReset"),
                 {<<"triggerReset", "off">>})
         /\ Part(settings, {"rxLolReset"}, If("rxLolReset" \in settings, ToggleReset("rxLolReset")),
                 Asked(settings, "rxLolReset", {<<"rxLolReset", "off">>}))
<1>1. /\ {"repeaters", "repeaterPins"} \in SUBSET PadTriggerLines
      /\ {"vttx"} \in SUBSET PadTriggerLines /\ {"firmware"} \in SUBSET PadTriggerLines
      /\ {"control", "fpga", "delays"} \in SUBSET PadTriggerLines
      /\ \A line \in Resets : {line} \in SUBSET PadTriggerLines
  BY DEF PadTriggerLines
<1>2. /\ Facts(RepeatersDone, {"repeaters", "repeaterPins"})
      /\ Facts({<<"vttx", "configured">>}, {"vttx"})
      /\ Facts({}, {"firmware"}) /\ Facts(FpgaAll, {"control", "fpga", "delays"})
      /\ \A line : Facts({<<line, "off">>}, {line})
  BY DEF Facts, RepeatersDone, FpgaDone, FpgaAll
<1>3. /\ "gtReset" \in settings => "gtReset" \in Toggled(settings)
      /\ "toggle" \in settings => "idle" \in Toggled(settings)
      /\ "ocr" \in settings => "ocr" \in Toggled(settings)
      /\ "bcidReset" \in settings => "bcidReset" \in Toggled(settings)
      /\ "rxLolReset" \in settings => "rxLolReset" \in Toggled(settings)
      /\ "readoutReset" \in Toggled(settings) /\ "triggerReset" \in Toggled(settings)
  BY DEF Toggled, Asked
<1>4. {"gtReset", "idle", "ocr", "bcidReset", "readoutReset", "triggerReset", "rxLolReset"} = Resets
  BY DEF Resets
<1>5. /\ Part(settings, {"repeaters", "repeaterPins"},
              If("repeaters" \in settings, WriteRepeaters),
              Asked(settings, "repeaters", RepeatersDone))
      /\ Part(settings, {"vttx"}, If("vttx" \in settings, WriteVttx),
              Asked(settings, "vttx", {<<"vttx", "configured">>}))
  BY <1>1, <1>2, RepeatersPart, VttxPart, PartAsked
<1>6. Part(settings, {"firmware"}, If("bitfile" \in settings, WriteBitfile(settings)), {})
  <2>1. Asked(settings, "bitfile", {}) = {}
    BY DEF Asked
  <2>2. Part(settings, {"firmware"}, If("bitfile" \in settings, WriteBitfile(settings)),
             Asked(settings, "bitfile", {}))
    BY <1>1, <1>2, BitfilePart, PartAsked
  <2> QED
    BY <2>1, <2>2
<1>7. Part(settings, {"control", "fpga", "delays"}, If("fpga" \in settings, WriteFpga),
           Asked(settings, "fpga", FpgaAll))
  BY <1>1, <1>2, FpgaPart, PartAsked
<1>8. ASSUME NEW line \in Resets, NEW name, name \in settings => line \in Toggled(settings)
      PROVE  Part(settings, {line}, If(name \in settings, ToggleReset(line)),
                  Asked(settings, name, {<<line, "off">>}))
  BY <1>1, <1>2, <1>8, TogglePart, PartAsked
<1>9. Part(settings, {"bcidReset"},
           If("bcidReset" \in settings, ToggleReset("bcidReset") \o Read("bcidReset")),
           Asked(settings, "bcidReset", {<<"bcidReset", "off">>}))
  BY <1>1, <1>2, <1>3, <1>4, ToggleAndReadPart, PartAsked
<1>10. /\ Part(settings, {"gtReset"}, If("gtReset" \in settings, ToggleReset("gtReset")),
               Asked(settings, "gtReset", {<<"gtReset", "off">>}))
       /\ Part(settings, {"idle"}, If("toggle" \in settings, ToggleReset("idle")),
               Asked(settings, "toggle", {<<"idle", "off">>}))
       /\ Part(settings, {"ocr"}, If("ocr" \in settings, ToggleReset("ocr")),
               Asked(settings, "ocr", {<<"ocr", "off">>}))
       /\ Part(settings, {"rxLolReset"}, If("rxLolReset" \in settings, ToggleReset("rxLolReset")),
               Asked(settings, "rxLolReset", {<<"rxLolReset", "off">>}))
  BY <1>3, <1>4, <1>8
<1>11. /\ Part(settings, {"readoutReset"}, ToggleReset("readoutReset"), {<<"readoutReset", "off">>})
       /\ Part(settings, {"triggerReset"}, ToggleReset("triggerReset"), {<<"triggerReset", "off">>})
  BY <1>3, <1>4, TogglePart
<1> QED
  BY <1>5, <1>6, <1>7, <1>9, <1>10, <1>11 DEF ToggleIdleState

LEMMA WritePadTriggerDoes ==
  ASSUME NEW settings, NEW found \in DelaysFound(settings)
  PROVE  Does(PadWorld(settings), FoundBefore(settings, found), WritePadTrigger(settings),
              PadDone(settings, found))
<1> DEFINE W == PadWorld(settings)
           f0 == FoundBefore(settings, found)
           f1 == f0 \cup Asked(settings, "repeaters", RepeatersDone)
           f2 == f1 \cup Asked(settings, "vttx", {<<"vttx", "configured">>})
           f3 == f2 \cup {}
           f4 == f3 \cup Asked(settings, "fpga", FpgaAll)
           f5 == f4 \cup Asked(settings, "gtReset", {<<"gtReset", "off">>})
           e5 == Asked(settings, "repeaters", RepeatersDone)
                   \cup Asked(settings, "vttx", {<<"vttx", "configured">>})
                   \cup Asked(settings, "fpga", FpgaDone)
                   \cup Asked(settings, "gtReset", {<<"gtReset", "off">>})
           f6 == e5 \cup Asked(settings, "deskew", DeskewDone(settings, found))
           f7 == f6 \cup Asked(settings, "toggle", {<<"idle", "off">>})
           f8 == f7 \cup Asked(settings, "ocr", {<<"ocr", "off">>})
           f9 == f8 \cup Asked(settings, "bcidReset", {<<"bcidReset", "off">>})
           f10 == f9 \cup {<<"readoutReset", "off">>}
           f11 == f10 \cup {<<"triggerReset", "off">>}
           f12 == f11 \cup Asked(settings, "rxLolReset", {<<"rxLolReset", "off">>})
           m0 == IF "fpga" \in settings THEN {} ELSE {"delays"}
           m1 == m0 \cup {"repeaters", "repeaterPins"}
           m2 == m1 \cup {"vttx"}
           m3 == m2 \cup {}
           m4 == m3 \cup {"control", "fpga", "delays"}
           m5 == m4 \cup {"gtReset"}
           m6 == m5 \cup {"existingDelays"}
           m7 == m6 \cup {"idle"}
           m8 == m7 \cup {"ocr"}
           m9 == m8 \cup {"bcidReset"}
           m10 == m9 \cup {"readoutReset"}
           m11 == m10 \cup {"triggerReset"}
           m12 == m11 \cup {"rxLolReset"}
           ps == <<If("repeaters" \in settings, WriteRepeaters),
                   If("vttx" \in settings, WriteVttx),
                   If("bitfile" \in settings, WriteBitfile(settings)),
                   If("fpga" \in settings, WriteFpga),
                   If("gtReset" \in settings, ToggleReset("gtReset")),
                   If("deskew" \in settings, Deskew(settings)),
                   ToggleIdleState(settings),
                   If("ocr" \in settings, ToggleReset("ocr")),
                   If("bcidReset" \in settings, ToggleReset("bcidReset") \o Read("bcidReset")),
                   ToggleReset("readoutReset"),
                   ToggleReset("triggerReset"),
                   If("rxLolReset" \in settings, ToggleReset("rxLolReset")),
                   Read("readoutReset"),
                   ToggleReset("readoutReset")>>
<1>1. /\ Facts(Asked(settings, "repeaters", RepeatersDone), {"repeaters", "repeaterPins"})
      /\ Facts(Asked(settings, "vttx", {<<"vttx", "configured">>}), {"vttx"})
      /\ Facts({}, {})
      /\ Facts(Asked(settings, "fpga", FpgaAll), {"control", "fpga", "delays"})
      /\ Facts(Asked(settings, "deskew", DeskewDone(settings, found)), {"delays", "existingDelays"})
      /\ \A name, line : Facts(Asked(settings, name, {<<line, "off">>}), {line})
      /\ \A line : Facts({<<line, "off">>}, {line})
  BY DEF Facts, Asked, RepeatersDone, FpgaDone, FpgaAll, DeskewDone
\* Every part touches lines of its own.
<1>2. /\ m0 \subseteq PadTriggerLines /\ m0 \cap {"repeaters", "repeaterPins"} = {}
      /\ m1 \subseteq PadTriggerLines /\ m1 \cap {"vttx"} = {}
      /\ m2 \subseteq PadTriggerLines /\ m2 \cap {"firmware"} = {}
      /\ m3 \subseteq PadTriggerLines /\ ("fpga" \in settings => m3 \cap {"control", "fpga", "delays"} = {})
      /\ m4 \subseteq PadTriggerLines /\ m4 \cap {"gtReset"} = {}
      /\ m5 \subseteq PadTriggerLines
      /\ m6 \subseteq PadTriggerLines /\ m6 \cap {"idle"} = {}
      /\ m7 \subseteq PadTriggerLines /\ m7 \cap {"ocr"} = {}
      /\ m8 \subseteq PadTriggerLines /\ m8 \cap {"bcidReset"} = {}
      /\ m9 \subseteq PadTriggerLines /\ m9 \cap {"readoutReset"} = {}
      /\ m10 \subseteq PadTriggerLines /\ m10 \cap {"triggerReset"} = {}
      /\ m11 \subseteq PadTriggerLines /\ m11 \cap {"rxLolReset"} = {}
      /\ m12 \subseteq PadTriggerLines /\ "readoutReset" \notin m9
  BY DEF PadTriggerLines, Resets
<1>3. /\ f1 = f0 \cup Asked(settings, "repeaters", RepeatersDone)
      /\ m1 = m0 \cup {"repeaters", "repeaterPins"}
      /\ f2 = f1 \cup Asked(settings, "vttx", {<<"vttx", "configured">>}) /\ m2 = m1 \cup {"vttx"}
      /\ f3 = f2 \cup {} /\ m3 = m2 \cup {}
      /\ f4 = f3 \cup Asked(settings, "fpga", FpgaAll)
      /\ m4 = m3 \cup {"control", "fpga", "delays"}
      /\ f5 = f4 \cup Asked(settings, "gtReset", {<<"gtReset", "off">>}) /\ m5 = m4 \cup {"gtReset"}
      /\ f6 = e5 \cup Asked(settings, "deskew", DeskewDone(settings, found))
      /\ m6 = m5 \cup {"existingDelays"}
      /\ f7 = f6 \cup Asked(settings, "toggle", {<<"idle", "off">>}) /\ m7 = m6 \cup {"idle"}
      /\ f8 = f7 \cup Asked(settings, "ocr", {<<"ocr", "off">>}) /\ m8 = m7 \cup {"ocr"}
      /\ f9 = f8 \cup Asked(settings, "bcidReset", {<<"bcidReset", "off">>})
      /\ m9 = m8 \cup {"bcidReset"}
      /\ f10 = f9 \cup {<<"readoutReset", "off">>} /\ m10 = m9 \cup {"readoutReset"}
      /\ f11 = f10 \cup {<<"triggerReset", "off">>} /\ m11 = m10 \cup {"triggerReset"}
      /\ f12 = f11 \cup Asked(settings, "rxLolReset", {<<"rxLolReset", "off">>})
      /\ m12 = m11 \cup {"rxLolReset"}
  OBVIOUS
\* What the scan will find is known.
<1>4. /\ Facts(f0, m0)
      /\ f5 = e5 \cup {<<"delays", found>>}
      /\ Apart(e5, {"delays", "existingDelays"}) /\ found \in Values
      /\ {"delays", "existingDelays"} \subseteq m6 /\ e5 \subseteq f5
  <2>1. Facts(f0, m0) /\ {"delays", "existingDelays"} \subseteq m6
    BY DEF Facts, FoundBefore
  <2>2. f5 = e5 \cup {<<"delays", found>>}
    BY DEF FoundBefore, DelaysFound, FpgaAll, Asked
  <2>3. Apart(e5, {"delays", "existingDelays"})
    BY DEF Apart, Asked, RepeatersDone, FpgaDone
  <2>4. found \in Values
    BY DEF DelaysFound, Values
  <2> HIDE DEF f5, e5
  <2> QED
    BY <2>1, <2>2, <2>3, <2>4
<1>5. f12 = PadDone(settings, found) /\ <<"readoutReset", "off">> \in f12
  BY DEF PadDone, PadToggles
<1> HIDE DEF W, ps, f0, f1, f2, f3, f4, f5, e5, f6, f7, f8, f9, f10, f11, f12,
             m0, m1, m2, m3, m4, m5, m6, m7, m8, m9, m10, m11, m12
<1>6. Does(W, f0, If("repeaters" \in settings, WriteRepeaters), f1) /\ Facts(f1, m1)
  <2>1. Part(settings, {"repeaters", "repeaterPins"},
             If("repeaters" \in settings, WriteRepeaters),
             Asked(settings, "repeaters", RepeatersDone))
    BY PadParts
  <2>2. /\ Facts(f0, m0) /\ m0 \subseteq PadTriggerLines
        /\ m0 \cap {"repeaters", "repeaterPins"} = {}
        /\ f1 = f0 \cup Asked(settings, "repeaters", RepeatersDone)
        /\ m1 = m0 \cup {"repeaters", "repeaterPins"}
        /\ Facts(Asked(settings, "repeaters", RepeatersDone), {"repeaters", "repeaterPins"})
    BY <1>1, <1>2, <1>3, <1>4
  <2> QED
    BY <2>1, <2>2, PartNext DEF W
<1>7. Does(W, f1, If("vttx" \in settings, WriteVttx), f2) /\ Facts(f2, m2)
  <2>1. Part(settings, {"vttx"},
             If("vttx" \in settings, WriteVttx),
             Asked(settings, "vttx", {<<"vttx", "configured">>}))
    BY PadParts
  <2>2. /\ Facts(f1, m1) /\ m1 \subseteq PadTriggerLines /\ m1 \cap {"vttx"} = {}
        /\ f2 = f1 \cup Asked(settings, "vttx", {<<"vttx", "configured">>}) /\ m2 = m1 \cup {"vttx"}
        /\ Facts(Asked(settings, "vttx", {<<"vttx", "configured">>}), {"vttx"})
    BY <1>1, <1>2, <1>3, <1>6
  <2> QED
    BY <2>1, <2>2, PartNext DEF W
<1>8. Does(W, f2, If("bitfile" \in settings, WriteBitfile(settings)), f3) /\ Facts(f3, m3)
  <2>1. Part(settings, {"firmware"}, If("bitfile" \in settings, WriteBitfile(settings)), {})
    BY PadParts
  <2>2. /\ Facts(f2, m2) /\ m2 \subseteq PadTriggerLines /\ m2 \cap {"firmware"} = {}
        /\ f3 = f2 \cup {} /\ m3 = m2 \cup {}
        /\ Facts({}, {})
    BY <1>1, <1>2, <1>3, <1>7
  <2> QED
    BY <2>1, <2>2, PartNext DEF W
<1>9. Does(W, f3, If("fpga" \in settings, WriteFpga), f4) /\ Facts(f4, m4)
  <2>1. Part(settings, {"control", "fpga", "delays"},
             If("fpga" \in settings, WriteFpga),
             Asked(settings, "fpga", FpgaAll))
    BY PadParts
  <2>2. /\ Facts(f3, m3) /\ m3 \subseteq PadTriggerLines
        /\ f4 = f3 \cup Asked(settings, "fpga", FpgaAll)
        /\ m4 = m3 \cup {"control", "fpga", "delays"}
        /\ Facts(Asked(settings, "fpga", FpgaAll), {"control", "fpga", "delays"})
    BY <1>1, <1>2, <1>3, <1>8
  <2>3. CASE "fpga" \in settings
    <3>1. m3 \cap {"control", "fpga", "delays"} = {}
      BY <1>2, <2>3
    <3> QED
      BY <2>1, <2>2, <3>1, PartNext DEF W
  <2>4. CASE "fpga" \notin settings
    <3>1. If("fpga" \in settings, WriteFpga) = Nothing /\ f4 = f3
      BY <2>2, <2>4 DEF If, Nothing, Asked
    <3>2. On(W, f3) /\ Easy(W) /\ Facts(f4, m4)
      BY <2>2, <3>1, PadIsEasy DEF W, On, Facts
    <3> QED
      BY <3>1, <3>2, EasyNothing
  <2> QED
    BY <2>3, <2>4
<1>10. Does(W, f4, If("gtReset" \in settings, ToggleReset("gtReset")), f5) /\ Facts(f5, m5)
  <2>1. Part(settings, {"gtReset"},
             If("gtReset" \in settings, ToggleReset("gtReset")),
             Asked(settings, "gtReset", {<<"gtReset", "off">>}))
    BY PadParts
  <2>2. /\ Facts(f4, m4) /\ m4 \subseteq PadTriggerLines /\ m4 \cap {"gtReset"} = {}
        /\ f5 = f4 \cup Asked(settings, "gtReset", {<<"gtReset", "off">>})
        /\ m5 = m4 \cup {"gtReset"}
        /\ Facts(Asked(settings, "gtReset", {<<"gtReset", "off">>}), {"gtReset"})
    BY <1>1, <1>2, <1>3, <1>9
  <2> QED
    BY <2>1, <2>2, PartNext DEF W
<1>11. Does(W, f5, If("deskew" \in settings, Deskew(settings)), f6) /\ Facts(f6, m6)
  <2>1. Facts(f5, m5) /\ m5 \subseteq PadTriggerLines /\ m5 \subseteq m6
    BY <1>2, <1>3, <1>10
  <2>2. On(W, f5) /\ On(W, e5) /\ Easy(W) /\ Facts(e5, m6)
    BY <1>4, <2>1, PadIsEasy DEF W, On, Facts
  <2>3. Facts(f6, m6)
    <3>1. Facts(Asked(settings, "deskew", DeskewDone(settings, found)), {"delays", "existingDelays"})
      BY <1>1
    <3> QED
      BY <1>3, <1>4, <2>2, <3>1 DEF Facts
  <2>4. CASE "deskew" \in settings
    <3>1. /\ If("deskew" \in settings, Deskew(settings)) = Deskew(settings)
          /\ f6 = e5 \cup DeskewDone(settings, found)
      BY <1>3, <2>4 DEF If, Asked
    <3>2. Does(W, e5 \cup {<<"delays", found>>}, Deskew(settings),
               e5 \cup DeskewDone(settings, found))
      BY <1>4, <2>2, DeskewDoes DEF W
    <3> QED
      BY <1>4, <2>3, <3>1, <3>2
  <2>5. CASE "deskew" \notin settings
    <3>1. If("deskew" \in settings, Deskew(settings)) = Nothing /\ f6 = e5
      BY <1>3, <2>5 DEF If, Nothing, Asked
    <3> QED
      BY <1>4, <2>2, <2>3, <3>1, EasyNothing
  <2> QED
    BY <2>4, <2>5
<1>12. Does(W, f6, ToggleIdleState(settings), f7) /\ Facts(f7, m7)
  <2>1. Part(settings, {"idle"},
             ToggleIdleState(settings),
             Asked(settings, "toggle", {<<"idle", "off">>}))
    BY PadParts
  <2>2. /\ Facts(f6, m6) /\ m6 \subseteq PadTriggerLines /\ m6 \cap {"idle"} = {}
        /\ f7 = f6 \cup Asked(settings, "toggle", {<<"idle", "off">>}) /\ m7 = m6 \cup {"idle"}
        /\ Facts(Asked(settings, "toggle", {<<"idle", "off">>}), {"idle"})
    BY <1>1, <1>2, <1>3, <1>11
  <2> QED
    BY <2>1, <2>2, PartNext DEF W
<1>13. Does(W, f7, If("ocr" \in settings, ToggleReset("ocr")), f8) /\ Facts(f8, m8)
  <2>1. Part(settings, {"ocr"},
             If("ocr" \in settings, ToggleReset("ocr")),
             Asked(settings, "ocr", {<<"ocr", "off">>}))
    BY PadParts
  <2>2. /\ Facts(f7, m7) /\ m7 \subseteq PadTriggerLines /\ m7 \cap {"ocr"} = {}
        /\ f8 = f7 \cup Asked(settings, "ocr", {<<"ocr", "off">>}) /\ m8 = m7 \cup {"ocr"}
        /\ Facts(Asked(settings, "ocr", {<<"ocr", "off">>}), {"ocr"})
    BY <1>1, <1>2, <1>3, <1>12
  <2> QED
    BY <2>1, <2>2, PartNext DEF W
<1>14. /\ Does(W, f8, If("bcidReset" \in settings, ToggleReset("bcidReset") \o Read("bcidReset")), f9)
       /\ Facts(f9, m9)
  <2>1. Part(settings, {"bcidReset"},
             If("bcidReset" \in settings, ToggleReset("bcidReset") \o Read("bcidReset")),
             Asked(settings, "bcidReset", {<<"bcidReset", "off">>}))
    BY PadParts
  <2>2. /\ Facts(f8, m8) /\ m8 \subseteq PadTriggerLines /\ m8 \cap {"bcidReset"} = {}
        /\ f9 = f8 \cup Asked(settings, "bcidReset", {<<"bcidReset", "off">>})
        /\ m9 = m8 \cup {"bcidReset"}
        /\ Facts(Asked(settings, "bcidReset", {<<"bcidReset", "off">>}), {"bcidReset"})
    BY <1>1, <1>2, <1>3, <1>13
  <2> QED
    BY <2>1, <2>2, PartNext DEF W
<1>15. Does(W, f9, ToggleReset("readoutReset"), f10) /\ Facts(f10, m10)
  <2>1. Part(settings, {"readoutReset"}, ToggleReset("readoutReset"), {<<"readoutReset", "off">>})
    BY PadParts
  <2>2. /\ Facts(f9, m9) /\ m9 \subseteq PadTriggerLines /\ m9 \cap {"readoutReset"} = {}
        /\ f10 = f9 \cup {<<"readoutReset", "off">>} /\ m10 = m9 \cup {"readoutReset"}
        /\ Facts({<<"readoutReset", "off">>}, {"readoutReset"})
    BY <1>1, <1>2, <1>3, <1>14
  <2> QED
    BY <2>1, <2>2, PartNext DEF W
<1>16. Does(W, f10, ToggleReset("triggerReset"), f11) /\ Facts(f11, m11)
  <2>1. Part(settings, {"triggerReset"}, ToggleReset("triggerReset"), {<<"triggerReset", "off">>})
    BY PadParts
  <2>2. /\ Facts(f10, m10) /\ m10 \subseteq PadTriggerLines /\ m10 \cap {"triggerReset"} = {}
        /\ f11 = f10 \cup {<<"triggerReset", "off">>} /\ m11 = m10 \cup {"triggerReset"}
        /\ Facts({<<"triggerReset", "off">>}, {"triggerReset"})
    BY <1>1, <1>2, <1>3, <1>15
  <2> QED
    BY <2>1, <2>2, PartNext DEF W
<1>17. /\ Does(W, f11, If("rxLolReset" \in settings, ToggleReset("rxLolReset")), f12)
       /\ Facts(f12, m12)
  <2>1. Part(settings, {"rxLolReset"},
             If("rxLolReset" \in settings, ToggleReset("rxLolReset")),
             Asked(settings, "rxLolReset", {<<"rxLolReset", "off">>}))
    BY PadParts
  <2>2. /\ Facts(f11, m11) /\ m11 \subseteq PadTriggerLines /\ m11 \cap {"rxLolReset"} = {}
        /\ f12 = f11 \cup Asked(settings, "rxLolReset", {<<"rxLolReset", "off">>})
        /\ m12 = m11 \cup {"rxLolReset"}
        /\ Facts(Asked(settings, "rxLolReset", {<<"rxLolReset", "off">>}), {"rxLolReset"})
    BY <1>1, <1>2, <1>3, <1>16
  <2> QED
    BY <2>1, <2>2, PartNext DEF W
<1>18. Does(W, f12, Read("readoutReset"), f12) /\ Does(W, f12, ToggleReset("readoutReset"), f12)
  <2>1. On(W, f12) /\ Easy(W)
    BY <1>2, <1>17, PadIsEasy DEF W, On, Facts
  <2>2. \A p \in f12 : p[1] = "readoutReset" => p = <<"readoutReset", "off">>
    <3>1. f12 = f9 \cup {<<"readoutReset", "off">>} \cup {<<"triggerReset", "off">>}
                  \cup Asked(settings, "rxLolReset", {<<"rxLolReset", "off">>})
      BY <1>3
    <3> QED
      BY <1>2, <1>14, <3>1 DEF Facts, Asked
  <2>3. Apart(f12 \ {<<"readoutReset", "off">>}, {"readoutReset"})
    BY <2>2 DEF Apart
  <2>4. "readoutReset" \in Toggled(settings) /\ "readoutReset" \in Resets
    BY DEF Toggled, Resets
  <2> QED
    BY <1>5, <2>1, <2>3, <2>4, EasyRead, ToggleDoes DEF W
<1>19. Chain(W, <<f0, f1, f2, f3, f4, f5, f6, f7, f8, f9, f10, f11, f12, f12, f12>>, ps, 14)
  <2> DEFINE f == <<f0, f1, f2, f3, f4, f5, f6, f7, f8, f9, f10, f11, f12, f12, f12>>
  <2>1. Len(ps) = 14 /\ 14 \in Nat \ {0}
    BY DEF ps
  <2>2. \A i \in 1..14 : Does(W, f[i], ps[i], f[i+1])
    BY <1>6, <1>7, <1>8, <1>9, <1>10, <1>11, <1>12, <1>13, <1>14, <1>15, <1>16, <1>17, <1>18 DEF ps
  <2> QED
    BY <2>1, <2>2 DEF Chain
<1>20. Does(W, f0, Do(ps), f12)
  BY <1>19, DoesDo
<1> QED
  BY <1>5, <1>20 DEF WritePadTrigger, ps, W, f0

\* What a configuration may end with: one of the delays that the scan may find.
PadGoals(settings) == {PadDone(settings, found) : found \in DelaysFound(settings)}

LEMMA WritePadTriggerEnds ==
  ASSUME NEW settings
  PROVE  Triple(PadWorld(settings), At(PadWorld(settings), {}), WritePadTrigger(settings),
                AtOne(PadWorld(settings), PadGoals(settings)), States(PadWorld(settings)))
<1> DEFINE W == PadWorld(settings)
           V == DelaysFound(settings)
           A == [found \in V |-> At(W, FoundBefore(settings, found))]
           T == AtOne(W, PadGoals(settings))
<1>1. /\ V # {}
      /\ \A s \in States(W) : s.lines["delays"] \in Values
      /\ W.forgives
  <2>1. V # {}
    BY DEF DelaysFound, Values
  <2>2. W.lines = PadTriggerLines /\ W.values = Values /\ W.forgives
    BY DEF PadWorld, Forgiving
  <2> HIDE DEF W
  <2>3. \A s \in States(W) : s.lines["delays"] \in Values
    BY <2>2 DEF States, PadTriggerLines
  <2> QED
    BY <2>1, <2>2, <2>3
<1>2. At(W, {}) \subseteq UNION {A[found] : found \in V}
  <2> SUFFICES ASSUME NEW s \in At(W, {})
               PROVE  \E found \in V : s \in At(W, FoundBefore(settings, found))
    OBVIOUS
  <2>1. s \in States(W)
    BY DEF At
  <2>2. CASE "fpga" \in settings
    <3>1. "configured" \in V /\ FoundBefore(settings, "configured") = {}
      BY <2>2 DEF DelaysFound, FoundBefore
    <3> HIDE DEF W, V
    <3> QED
      BY <3>1
  <2>3. CASE "fpga" \notin settings
    <3>1. /\ s.lines["delays"] \in V
          /\ FoundBefore(settings, s.lines["delays"]) = {<<"delays", s.lines["delays"]>>}
      BY <1>1, <2>1, <2>3 DEF DelaysFound, FoundBefore
    <3> HIDE DEF W, V
    <3>2. s \in At(W, {<<"delays", s.lines["delays"]>>})
      BY <2>1 DEF At
    <3> QED
      BY <3>1, <3>2
  <2> QED
    BY <2>2, <2>3
<1>3. ASSUME NEW found \in V
      PROVE  Triple(W, A[found], WritePadTrigger(settings), T, States(W))
  <2>1. /\ A[found] = At(W, FoundBefore(settings, found))
        /\ Triple(W, At(W, FoundBefore(settings, found)), WritePadTrigger(settings),
                  At(W, PadDone(settings, found)), States(W))
    BY <1>3, WritePadTriggerDoes DEF Does
  <2>2. At(W, PadDone(settings, found)) \subseteq T
    BY <1>3 DEF AtOne, PadGoals
  <2> HIDE DEF A, T, W, V
  <2> QED
    BY <2>1, <2>2, Weaken
<1> HIDE DEF A, T, V, W
<1>4. Triple(W, UNION {A[found] : found \in V}, WritePadTrigger(settings), T, States(W))
  BY <1>1, <1>3, EachRule
<1>5. Triple(W, At(W, {}), WritePadTrigger(settings), T, States(W))
  BY <1>2, <1>4, Weaken
<1> QED
  BY <1>5 DEF W, T

\* At the end of a run.
LEMMA ToggleIdleStateDoes ==
  ASSUME NEW settings
  PROVE  Does(PadWorld(settings), {}, ToggleIdleState(settings),
              Asked(settings, "toggle", {<<"idle", "off">>}))
<1>1. Part(settings, {"idle"}, ToggleIdleState(settings),
           Asked(settings, "toggle", {<<"idle", "off">>}))
  BY PadParts
<1>2. On(PadWorld(settings), {}) /\ Apart({}, {"idle"})
  BY DEF On, Apart
<1>3. {} \cup Asked(settings, "toggle", {<<"idle", "off">>})
        = Asked(settings, "toggle", {<<"idle", "off">>})
  OBVIOUS
<1> QED
  BY <1>1, <1>2, <1>3 DEF Part

-----------------------------------------------------------------------------
(* What the facts say of a device that no issue was raised about.          *)

Holds(lines, F) == \A p \in F : lines[p[1]] = p[2]

LEMMA AtHolds ==
  ASSUME NEW W, NEW F, NEW s \in At(W, F), ~s.warned \/ ~W.forgives
  PROVE  Holds(s.lines, F) /\ s \in States(W)
BY DEF At, Holds

LEMMA HoldsFact ==
  ASSUME NEW lines, NEW F, NEW line, NEW value, Holds(lines, F), <<line, value>> \in F
  PROVE  lines[line] = value
<1> DEFINE p == <<line, value>>
<1>1. p \in F /\ p[1] = line /\ p[2] = value
  OBVIOUS
<1> HIDE DEF p
<1>2. lines[p[1]] = p[2]
  BY <1>1 DEF Holds
<1> QED
  BY <1>1, <1>2

LEMMA FebIsReady ==
  ASSUME NEW settings, NEW lines, Holds(lines, FebDone(settings))
  PROVE  /\ FebReady(lines, settings)
         /\ "disableCaptures" \in settings => lines["captures"] = "off"
<1>1. Holds(lines, RocDone) /\ Holds(lines, VmmsDone) /\ Holds(lines, TdsDone(settings))
  BY DEF Holds, FebDone
<1>2. /\ lines["sReset"] = "inactive" /\ lines["rocAnalog"] = "configured"
      /\ lines["pllReset"] = "inactive" /\ lines["pllLocked"] = "yes"
      /\ lines["coreReset"] = "inactive" /\ lines["rocDigital"] = "configured"
  BY <1>1 DEF Holds, RocDone
<1>3. lines["acquisition"] = "on" /\ lines["vmms"] = "configured"
  BY <1>1 DEF Holds, VmmsDone
<1>4. /\ lines["tdsPins"] = "inactive" /\ lines["tdss"] = "configured"
      /\ "resetTds" \in settings => lines["tdsResets"] = "off"
  <2>1. /\ <<"tdsPins", "inactive">> \in TdsDone(settings)
        /\ <<"tdss", "configured">> \in TdsDone(settings)
        /\ "resetTds" \in settings => <<"tdsResets", "off">> \in TdsDone(settings)
    BY DEF TdsDone
  <2> QED
    BY <1>1, <2>1, HoldsFact
<1>5. "disableCaptures" \in settings => lines["captures"] = "off"
  <2>1. "disableCaptures" \in settings => <<"captures", "off">> \in FebDone(settings)
    BY DEF FebDone
  <2> QED
    BY <2>1, HoldsFact
<1> QED
  BY <1>2, <1>3, <1>4, <1>5 DEF FebReady

LEMMA AddcIsReady ==
  ASSUME NEW settings, NEW lines, Holds(lines, AddcDone(settings))
  PROVE  AddcReady(lines, settings)
<1> SUFFICES ASSUME NEW i \in Arts
             PROVE  /\ lines[<<i, "artReset">>] = "inactive" /\ lines[<<i, "gbtxReset">>] = "inactive"
                    /\ lines[<<i, "gbtx">>] = "configured" /\ lines[<<i, "ttcPhase">>] = "adjusted"
                    /\ lines[<<i, "registers">>] = "configured" /\ lines[<<i, "mask">>] = "configured"
                    /\ lines[<<i, "patterns">>] = "configured" /\ lines[<<i, "eports">>] = "off"
                    /\ lines[<<i, "flags">>] = FlagsOf(settings)
  BY DEF AddcReady, FlagsOf
<1>1. \A p \in ArtDone(settings) : lines[<<i, p[1]>>] = p[2]
  <2> SUFFICES ASSUME NEW p \in ArtDone(settings) PROVE lines[<<i, p[1]>>] = p[2]
    OBVIOUS
  <2>1. <<<<i, p[1]>>, p[2]>> \in AddcDone(settings)
    BY DEF AddcDone, Known, Arts
  <2> DEFINE q == <<<<i, p[1]>>, p[2]>>
  <2>2. lines[q[1]] = q[2]
    <3> HIDE DEF q
    <3>1. q \in AddcDone(settings)
      BY <2>1 DEF q
    <3> QED
      BY <3>1 DEF Holds
  <2> QED
    BY <2>2
<1> QED
  BY <1>1 DEF ArtDone, ArtSetUp, ArtSent, ArtClocked, ArtOn

LEMMA MmtpIsReady ==
  ASSUME NEW settings, NEW lines, Holds(lines, MmtpDone(settings))
  PROVE  MmtpReady(lines, settings)
<1>1. /\ <<"registers", "configured">> \in MmtpDone(settings)
      /\ <<"l1aReset", "inactive">> \in MmtpDone(settings)
      /\ <<"idleState", "configured">> \in MmtpDone(settings)
      /\ <<"latTxIdle", "inactive">> \in MmtpDone(settings)
      /\ "fibers" \in settings => <<"fibers", "aligned">> \in MmtpDone(settings)
  BY DEF MmtpDone
<1> QED
  BY <1>1, HoldsFact DEF MmtpReady

LEMMA RouterIsReady ==
  ASSUME NEW settings, NEW lines, Holds(lines, RouterDone(settings))
  PROVE  RouterReady(lines, settings)
<1>1. /\ "bitfile" \in settings => <<"firmware", "loaded">> \in RouterDone(settings)
      /\ <<"controlMode", "sca">> \in RouterDone(settings)
      /\ <<"softReset", "inactive">> \in RouterDone(settings)
      /\ <<"gpios", "good">> \in RouterDone(settings)
      /\ <<"id", "written">> \in RouterDone(settings)
      /\ "badId" \in settings => <<"gpios", "bad">> \in RouterDone(settings)
  BY DEF RouterDone, Asked
<1>2. /\ "bitfile" \in settings => lines["firmware"] = "loaded"
      /\ lines["controlMode"] = "sca" /\ lines["softReset"] = "inactive"
      /\ lines["gpios"] = "good" /\ lines["id"] = "written"
      /\ "badId" \in settings => lines["gpios"] = "bad"
  BY <1>1, HoldsFact
<1> QED
  BY <1>2 DEF RouterReady

LEMMA StgctpIsReady ==
  ASSUME NEW settings, NEW lines, Holds(lines, StgctpDone(settings))
  PROVE  StgctpReady(lines, settings)
<1>1. /\ <<"registers", "configured">> \in StgctpDone(settings)
      /\ "doReset" \in settings => /\ <<"rxReset", "inactive">> \in StgctpDone(settings)
                                   /\ <<"txReset", "inactive">> \in StgctpDone(settings)
  BY DEF StgctpDone, ResetDone
<1> QED
  BY <1>1, HoldsFact DEF StgctpReady

LEMMA PadIsReady ==
  ASSUME NEW settings, NEW found \in DelaysFound(settings),
         NEW s \in States(PadWorld(settings)), Holds(s.lines, PadDone(settings, found))
  PROVE  PadTriggerReady(s.lines, settings)
<1> DEFINE lines == s.lines
<1>1. /\ Holds(lines, Asked(settings, "repeaters", RepeatersDone))
      /\ Holds(lines, Asked(settings, "vttx", {<<"vttx", "configured">>}))
      /\ Holds(lines, Asked(settings, "fpga", FpgaDone))
      /\ Holds(lines, Asked(settings, "deskew", DeskewDone(settings, found)))
      /\ Holds(lines, PadToggles(settings))
  BY DEF Holds, PadDone
<1>2. \A line \in Resets \ Toggled(settings) : lines[line] # "on"
  <2> SUFFICES ASSUME NEW line \in Resets, line \notin Toggled(settings) PROVE lines[line] # "on"
    OBVIOUS
  <2>1. <<line, "on">> \in PadWorld(settings).never /\ line \in PadWorld(settings).lines
    BY DEF PadWorld, Forgiving, PadTriggerLines
  <2> QED
    BY <2>1 DEF States
<1> HIDE DEF lines
<1>3. \A line \in Toggled(settings) : lines[line] = "off"
  <2>1. \A line \in Toggled(settings) : <<line, "off">> \in PadToggles(settings)
    BY DEF Toggled, Asked, PadToggles
  <2> QED
    BY <1>1, <2>1, HoldsFact
<1>4. \A line \in Resets : lines[line] # "on"
  BY <1>2, <1>3
<1>5. /\ "repeaters" \in settings => lines["repeaters"] = "configured" /\ lines["repeaterPins"] = "off"
      /\ "vttx" \in settings => lines["vttx"] = "configured"
      /\ "fpga" \in settings => lines["control"] = "configured" /\ lines["fpga"] = "configured"
  BY <1>1 DEF Holds, Asked, RepeatersDone, FpgaDone
<1>6. "deskew" \in settings => DelaysReady(lines, settings)
  <2> SUFFICES ASSUME "deskew" \in settings PROVE DelaysReady(lines, settings)
    OBVIOUS
  <2>1. \A p \in DeskewDone(settings, found) : lines[p[1]] = p[2]
    BY <1>1 DEF Holds, Asked
  <2>2. CASE "scanOnly" \in settings
    <3>1. lines["delays"] = found /\ lines["existingDelays"] = found
      BY <2>1, <2>2 DEF DeskewDone
    <3>2. "fpga" \in settings => found = "configured"
      BY DEF DelaysFound
    <3> QED
      BY <2>2, <3>1, <3>2 DEF DelaysReady
  <2>3. CASE "scanOnly" \notin settings
    BY <2>1, <2>3 DEF DeskewDone, DelaysReady
  <2> QED
    BY <2>2, <2>3
<1> QED
  BY <1>4, <1>5, <1>6 DEF PadTriggerReady, lines
=============================================================================
