-------------------------- MODULE DeviceTasksProofs --------------------------
(***************************************************************************)
(* The counters of DeviceTasks for every finite set of devices.  The type  *)
(* invariant is inductive, and so is the bound on the fraction with it: a  *)
(* device is counted as tried before its task runs, and leaves the tasks   *)
(* to be looked at when it is counted as failed.                           *)
(***************************************************************************)
EXTENDS DeviceTasks, FiniteSetTheorems, TLAPS

LEMMA TypeInit == Init => TypeOK
BY DEF Init, TypeOK

LEMMA TypeStep ==
  ASSUME IsFiniteSet(Devices), TypeOK, [Next]_vars
  PROVE  TypeOK'
<1>1. CASE Reset
  BY <1>1 DEF Reset, TypeOK
<1>2. CASE Begin
  <2>1. IsFiniteSet(running' \cup ended')
    BY <1>2, FS_Subset DEF Begin
  <2>2. Cardinality(running' \cup ended') \in Nat
    BY <2>1, FS_CardinalityType
  <2> QED
    BY <1>2, <2>2 DEF Begin, TypeOK
<1>3. ASSUME NEW d \in Devices, End(d)
      PROVE  TypeOK'
  BY <1>3 DEF End, TypeOK
<1>4. ASSUME NEW d \in Devices, Judge(d)
      PROVE  TypeOK'
  BY <1>4 DEF Judge, TypeOK
<1>5. CASE UNCHANGED vars
  BY <1>5 DEF vars, TypeOK
<1> QED
  BY <1>1, <1>2, <1>3, <1>4, <1>5 DEF Next

\* The variables of DeviceManager::applyFunc are of their types.
THEOREM TypeCorrect ==
  ASSUME IsFiniteSet(Devices)
  PROVE  Spec => []TypeOK
<1>1. Init => TypeOK
  BY TypeInit
<1>2. TypeOK /\ [Next]_vars => TypeOK'
  BY TypeStep
<1> QED
  BY <1>1, <1>2, PTL DEF Spec

-----------------------------------------------------------------------------
\* Tasks that are to be looked at, as a number.
LEMMA PendingFinite ==
  ASSUME IsFiniteSet(Devices), TypeOK
  PROVE  /\ IsFiniteSet(running \cup ended)
         /\ Cardinality(running \cup ended) \in Nat
<1>1. running \cup ended \in SUBSET Devices
  BY DEF TypeOK
<1>2. IsFiniteSet(running \cup ended)
  BY <1>1, FS_Subset
<1> QED
  BY <1>2, FS_CardinalityType

LEMMA FractionInit == Init => FractionBounded
<1> SUFFICES ASSUME Init PROVE FractionBounded
  OBVIOUS
<1>1. running \cup ended = {}
  BY DEF Init
<1> QED
  BY <1>1, FS_EmptySet DEF Init, FractionBounded

LEMMA FractionStep ==
  ASSUME IsFiniteSet(Devices), TypeOK, FractionBounded, [Next]_vars
  PROVE  FractionBounded'
<1> DEFINE pending == running \cup ended
<1>1. IsFiniteSet(pending) /\ Cardinality(pending) \in Nat
  BY PendingFinite
<1>2. failed \in Nat /\ tried \in Nat /\ failed + Cardinality(pending) <= tried
  BY DEF TypeOK, FractionBounded
<1>3. CASE Reset
  <2>1. pending' = {}
    BY <1>3 DEF Reset
  <2> QED
    BY <1>3, <2>1, FS_EmptySet DEF Reset, FractionBounded
<1>4. CASE Begin
  \* Nothing was pending; as many as begin are counted as tried.
  <2>1. pending = {}
    BY <1>4 DEF Begin
  <2>2. Cardinality(pending) = 0
    BY <2>1, FS_EmptySet
  <2>3. IsFiniteSet(pending')
    BY <1>4, FS_Subset DEF Begin
  <2>4. Cardinality(pending') \in Nat
    BY <2>3, FS_CardinalityType
  <2>5. failed' = failed /\ tried' = tried + Cardinality(pending')
    BY <1>4 DEF Begin
  <2> HIDE DEF pending
  <2>6. failed' + Cardinality(pending') <= tried'
    BY <1>2, <2>2, <2>4, <2>5
  <2> QED
    BY <2>6 DEF FractionBounded, pending
<1>5. ASSUME NEW d \in Devices, End(d)
      PROVE  FractionBounded'
  <2>1. pending' = pending /\ failed' = failed /\ tried' = tried
    BY <1>5 DEF End
  <2> QED
    BY <1>2, <2>1 DEF FractionBounded
<1>6. ASSUME NEW d \in Devices, Judge(d)
      PROVE  FractionBounded'
  \* One pending task less, at most one failure more.
  <2>1. d \in pending /\ pending' = pending \ {d}
    BY <1>6 DEF Judge, TypeOK
  <2>2. Cardinality(pending \ {d}) = Cardinality(pending) - 1
    BY <1>1, <2>1, FS_RemoveElement
  <2>3. failed' \in {failed, failed + 1} /\ tried' = tried
    BY <1>6 DEF Judge
  <2>4. Cardinality(pending') = Cardinality(pending) - 1
    BY <2>1, <2>2
  <2> HIDE DEF pending
  <2>5. failed' + Cardinality(pending') <= tried'
    BY <1>1, <1>2, <2>3, <2>4
  <2> QED
    BY <2>5 DEF FractionBounded, pending
<1>7. CASE UNCHANGED vars
  BY <1>7 DEF vars, FractionBounded
<1> QED
  BY <1>3, <1>4, <1>5, <1>6, <1>7 DEF Next

\* getFractionFailed (DeviceManager.h) is a fraction: the devices that failed,
\* and those that may still turn out to have, are never more than those tried,
\* so that the thresholds of checkErrorCounter compare what they mean to.
THEOREM FractionCorrect ==
  ASSUME IsFiniteSet(Devices)
  PROVE  Spec => []FractionBounded
<1>1. Init => TypeOK /\ FractionBounded
  BY TypeInit, FractionInit
<1>2. TypeOK /\ FractionBounded /\ [Next]_vars => (TypeOK /\ FractionBounded)'
  BY TypeStep, FractionStep
<1> QED
  BY <1>1, <1>2, PTL DEF Spec
=============================================================================
