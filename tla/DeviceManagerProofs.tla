-------------------------- MODULE DeviceManagerProofs --------------------------
(***************************************************************************)
(* DeviceManager implements DeviceTasks, for all sectors, configurations   *)
(* of the devices and faults: whatever the procedures do to the devices,   *)
(* applyFunc looks at every device once, after its task has ended.         *)
(*                                                                         *)
(* And with what is proved of the procedures (DeviceProceduresProofs): an  *)
(* operation that succeeds has done its work on a device, and registers    *)
(* are only written while what uses them is held.                          *)
(***************************************************************************)
EXTENDS DeviceManager, DeviceProceduresProofs, FiniteSetTheorems, SequenceTheorems, TLAPS

\* A task is under way only for a device whose result is still to be looked at,
\* and no device is to be looked at twice.
Awaited ==
  /\ IsInjective(batch)
  /\ \A d \in Devices : result[d] \in {"waiting", "running"} => d \in Range(batch)

IInv ==
  /\ TypeOK
  /\ DOMAIN todo = Devices /\ DOMAIN hw = Devices
  /\ Awaited

-----------------------------------------------------------------------------
(* Sequences of devices.                                                   *)

LEMMA RangeInside ==
  ASSUME NEW S, NEW s \in Seq(S)
  PROVE  Range(s) \subseteq S
BY DEF Range

LEMMA RangeOfNothing == Range(<<>>) = {}
BY DEF Range

\* As many devices as the list is long.
LEMMA RangeCounts ==
  ASSUME NEW S, NEW s \in Seq(S), IsInjective(s)
  PROVE  IsFiniteSet(Range(s)) /\ Cardinality(Range(s)) = Len(s)
<1>1. Len(s) \in Nat /\ DOMAIN s = 1..Len(s)
  BY LenProperties
<1>2. s \in Bijection(1..Len(s), Range(s))
  BY <1>1 DEF Bijection, Injection, Surjection, IsInjective, Range
<1> QED
  BY <1>1, <1>2, FS_CountingElements, FS_NatBijection DEF ExistsBijection

\* What is left of the list without its head.
LEMMA RangeOfTail ==
  ASSUME NEW S, NEW s \in Seq(S), IsInjective(s), s # <<>>
  PROVE  /\ Tail(s) \in Seq(S) /\ IsInjective(Tail(s))
         /\ Head(s) \in Range(s) /\ Head(s) \in S
         /\ Range(Tail(s)) = Range(s) \ {Head(s)}
<1>1. Len(s) \in Nat \ {0} /\ DOMAIN s = 1..Len(s)
  BY LenProperties, EmptySeq
<1>2. /\ Tail(s) \in Seq(S) /\ DOMAIN Tail(s) = 1..Len(s) - 1
      /\ \A i \in 1..Len(s) - 1 : Tail(s)[i] = s[i + 1]
      /\ Head(s) = s[1]
  BY <1>1, HeadTailProperties
<1>3. IsInjective(Tail(s))
  BY <1>1, <1>2 DEF IsInjective
<1>4. Range(Tail(s)) \subseteq Range(s) \ {Head(s)}
  BY <1>1, <1>2 DEF IsInjective, Range
<1>5. Range(s) \ {Head(s)} \subseteq Range(Tail(s))
  <2> SUFFICES ASSUME NEW i \in 1..Len(s), s[i] # s[1]
               PROVE  s[i] \in Range(Tail(s))
    BY <1>1, <1>2 DEF Range
  <2>1. i - 1 \in 1..Len(s) - 1 /\ Tail(s)[i - 1] = s[i]
    BY <1>1, <1>2
  <2> QED
    BY <1>2, <2>1 DEF Range
<1>6. Head(s) \in Range(s)
  BY <1>1, <1>2 DEF Range
<1>7. Head(s) \in S
  BY <1>6, RangeInside
<1> QED
  BY <1>2, <1>3, <1>4, <1>5, <1>6, <1>7

-----------------------------------------------------------------------------
(* What every step of a task has in common.                                *)

TaskMoves(d) ==
  /\ result[d] = "running"
  /\ \E rest, r :
       /\ todo' = [todo EXCEPT ![d] = rest]
       /\ result' = [result EXCEPT ![d] = r]
       /\ r \in {"running", "ok", "failed"} /\ (r = "running" <=> rest # <<>>)
  /\ UNCHANGED <<op, left, batch, errors, total, setup>>

LEMMA ContinueMoves ==
  ASSUME NEW d \in Devices, NEW rest, TypeOK, result[d] = "running", Continue(d, rest),
         UNCHANGED <<op, left, batch, errors, total, setup>>
  PROVE  TaskMoves(d)
<1> DEFINE r == IF rest = <<>> THEN "ok" ELSE "running"
<1>1. result' = [result EXCEPT ![d] = r] /\ todo' = [todo EXCEPT ![d] = rest]
  BY DEF Continue
<1>2. r \in {"running", "ok", "failed"} /\ (r = "running" <=> rest # <<>>)
  OBVIOUS
<1> HIDE DEF r
<1> QED
  BY <1>1, <1>2 DEF TaskMoves

LEMMA ThrowMoves ==
  ASSUME NEW d \in Devices, TypeOK, result[d] = "running", Throws(d),
         UNCHANGED <<op, left, batch, errors, total, setup>>
  PROVE  TaskMoves(d) /\ blamed' \in SUBSET Devices
<1>1. CASE IsCaught(todo[d])
  BY <1>1, ContinueMoves DEF Throws, TypeOK
<1>2. CASE ~IsCaught(todo[d])
  BY <1>2 DEF Throws, TaskMoves, TypeOK
<1> QED
  BY <1>1, <1>2

\* Writing to a line adds no line to the device.
LEMMA EffectKeepsLines ==
  ASSUME NEW d \in Devices, NEW step, DOMAIN hw = Devices, TypeOK,
         hw' = [hw EXCEPT ![d] = Written(d, step)]
  PROVE  DOMAIN hw' = Devices /\ \A e \in Devices : DOMAIN hw'[e] = Lines[e]
<1>1. DOMAIN Written(d, step) = Lines[d]
  BY DEF Written, Effect, TypeOK
<1> HIDE DEF Written
<1> QED
  BY <1>1 DEF TypeOK

LEMMA TaskStep ==
  ASSUME NEW d \in Devices, IInv, Step(d) \/ Fault(d) \/ RaiseStep(d)
  PROVE  /\ TaskMoves(d)
         /\ DOMAIN hw' = Devices /\ \A e \in Devices : DOMAIN hw'[e] = Lines[e]
         /\ blamed' \in SUBSET Devices
         /\ faults' \in 0..MaxFaults
<1>1. TypeOK /\ DOMAIN hw = Devices /\ blamed \in SUBSET Devices /\ faults \in 0..MaxFaults
      /\ MaxFaults \in Nat /\ \A e \in Devices : DOMAIN hw[e] = Lines[e]
  BY DeviceAssumption DEF IInv, TypeOK
<1>2. CASE Step(d)
  <2>1. PICK way : Continue(d, way \o Tail(todo[d]))
    BY <1>2 DEF Step
  <2>2. TaskMoves(d)
    BY <1>1, <1>2, <2>1, ContinueMoves DEF Step
  <2>3. hw' = hw \/ hw' = [hw EXCEPT ![d] = Written(d, Head(todo[d]))]
    BY <1>2 DEF Step
  <2>4. DOMAIN hw' = Devices /\ \A e \in Devices : DOMAIN hw'[e] = Lines[e]
    BY <1>1, <2>3, EffectKeepsLines
  <2>5. blamed' \in SUBSET Devices /\ faults' = faults
    BY <1>1, <1>2 DEF Step
  <2> QED
    BY <1>1, <2>2, <2>4, <2>5
<1>3. CASE Fault(d)
  <2>1. TaskMoves(d) /\ blamed' \in SUBSET Devices
    BY <1>1, <1>3, ThrowMoves DEF Fault
  <2>2. hw' = hw \/ hw' = [hw EXCEPT ![d] = Written(d, Head(todo[d]))]
    BY <1>3 DEF Fault
  <2>3. DOMAIN hw' = Devices /\ \A e \in Devices : DOMAIN hw'[e] = Lines[e]
    BY <1>1, <2>2, EffectKeepsLines
  <2>4. faults < MaxFaults /\ faults' = faults + 1
    BY <1>3 DEF Fault
  <2> QED
    BY <1>1, <2>1, <2>3, <2>4
<1>4. CASE RaiseStep(d)
  BY <1>1, <1>4, ThrowMoves DEF RaiseStep
<1> QED
  BY <1>2, <1>3, <1>4

-----------------------------------------------------------------------------
(* The invariant.                                                          *)

LEMMA StagesTyped ==
  ASSUME NEW o \in Operations
  PROVE  Stages(o) \in Seq(Kinds \X Procedures)
<1>1. CASE o = "CONFIGURE"
  <2> DEFINE kinds == <<"FEB", "ADDC", "MMTP", "Router", "PadTrigger", "STGCTP", "TPCarrier">>
             list == [i \in 1..7 |-> <<kinds[i], "writeConfiguration">>]
  <2>1. \A i \in 1..7 : kinds[i] \in Kinds
    BY DEF Kinds
  <2>2. Stages(o) = list
    BY <1>1 DEF Stages
  <2>3. "writeConfiguration" \in Procedures
    BY DEF Procedures
  <2> HIDE DEF kinds
  <2>4. list \in [1..7 -> Kinds \X Procedures]
    BY <2>1, <2>3
  <2> HIDE DEF list
  <2> QED
    BY <2>2, <2>4, SeqDef
<1>2. CASE o = "START"
  BY <1>2 DEF Stages, Kinds, Procedures
<1>3. CASE o = "STOP"
  BY <1>3 DEF Stages, Kinds, Procedures
<1>4. CASE o \in {"ENABLE_VMM", "RESET_STGCTP"}
  BY <1>4 DEF Stages, Kinds, Procedures
<1> QED
  BY <1>1, <1>2, <1>3, <1>4 DEF Operations

LEMMA InvInit == Init => IInv
<1> SUFFICES ASSUME Init PROVE IInv
  OBVIOUS
<1>1. TypeOK
  BY DeviceAssumption DEF Init, TypeOK, Results
<1>2. DOMAIN todo = Devices /\ DOMAIN hw = Devices
  BY DEF Init
<1>3. Awaited
  BY RangeOfNothing DEF Init, Awaited, IsInjective
<1> QED
  BY <1>1, <1>2, <1>3 DEF IInv

\* Between two stages no task is under way.
LEMMA NothingAwaited ==
  ASSUME IInv, batch = <<>>
  PROVE  \A d \in Devices : todo[d] = <<>> /\ result[d] \in {"none", "ok", "failed"}
BY RangeOfNothing DEF IInv, TypeOK, Awaited, Results

\* What the next stage starts.
LEMMA StageBegins ==
  ASSUME IInv, BeginStage
  PROVE  /\ batch' = boards[Head(left)[1]] /\ batch' \in Seq(Devices) /\ IsInjective(batch')
         /\ left' = Tail(left) /\ left' \in Seq(Kinds \X Procedures)
         /\ total' = total + Len(batch')
         /\ DOMAIN todo' = Devices
         /\ result' \in [Devices -> Results]
         /\ \A d \in Devices :
              /\ result'[d] \in {"waiting", "running"} <=> todo'[d] # <<>>
              /\ d \in Range(batch') => result'[d] \in {"waiting", "running", "ok"}
              /\ d \notin Range(batch') => result'[d] = result[d]
<1> DEFINE kind == Head(left)[1]
           devs == boards[kind]
           task == [d \in Range(devs) |-> Procedure(d, Head(left)[2])]
           first(d) == IF task[d] = <<>> THEN "ok"
                       ELSE IF multithreaded \/ d = devs[1] THEN "running"
                       ELSE "waiting"
<1>1. left \in Seq(Kinds \X Procedures) /\ left # <<>> /\ boards \in Sectors
  BY DEF IInv, TypeOK, BeginStage
<1>2. Head(left) \in Kinds \X Procedures /\ Tail(left) \in Seq(Kinds \X Procedures)
  BY <1>1, HeadTailProperties
<1>3. kind \in Kinds
  BY <1>2
<1> HIDE DEF kind
<1>4. devs \in Seq(Devices) /\ IsInjective(devs)
  BY <1>1, <1>3, DeviceAssumption
<1>5. /\ batch' = devs /\ left' = Tail(left) /\ total' = total + Len(devs)
      /\ todo' = [d \in Devices |-> IF d \in Range(devs) THEN task[d] ELSE todo[d]]
      /\ result' = [d \in Devices |-> IF d \in Range(devs) THEN first(d) ELSE result[d]]
  BY DEF BeginStage, kind
<1>6. \A d \in Devices : first(d) \in {"waiting", "running", "ok"}
                         /\ (first(d) = "ok" <=> task[d] = <<>>)
  OBVIOUS
<1>7. \A d \in Devices : todo[d] = <<>> /\ result[d] \in {"none", "ok", "failed"}
  BY NothingAwaited DEF BeginStage
<1> HIDE DEF devs, task, first
<1>8. \A d \in Devices :
        /\ result'[d] = IF d \in Range(devs) THEN first(d) ELSE result[d]
        /\ todo'[d] = IF d \in Range(devs) THEN task[d] ELSE todo[d]
  BY <1>5
<1>9. result' \in [Devices -> Results]
  BY <1>5, <1>6, <1>7 DEF Results
<1>10. \A d \in Devices : result'[d] \in {"waiting", "running"} <=> todo'[d] # <<>>
  BY <1>6, <1>7, <1>8
<1> QED
  BY <1>2, <1>4, <1>5, <1>6, <1>8, <1>9, <1>10 DEF kind, devs

LEMMA CollectKeepsInv ==
  ASSUME IInv, Collect
  PROVE  IInv'
<1>1. batch \in Seq(Devices) /\ batch # <<>> /\ IsInjective(batch)
  BY DEF IInv, TypeOK, Awaited, Collect
<1>2. /\ Tail(batch) \in Seq(Devices) /\ IsInjective(Tail(batch))
      /\ Head(batch) \in Range(batch) /\ Head(batch) \in Devices
      /\ Range(Tail(batch)) = Range(batch) \ {Head(batch)}
  BY <1>1, RangeOfTail
<1>3. batch' = Tail(batch)
  BY DEF Collect
<1>4. /\ result' \in [Devices -> Results]
      /\ \A d \in Devices : result'[d] = result[d]
                            \/ (result[d] = "waiting" /\ result'[d] = "running")
  <2>1. result \in [Devices -> Results] /\ "running" \in Results
    BY DEF IInv, TypeOK, Results
  <2>2. \/ result' = result
        \/ \E e : result[e] = "waiting" /\ result' = [result EXCEPT ![e] = "running"]
    BY DEF Collect
  <2> QED
    BY <2>1, <2>2
<1>5. errors' \in Nat
  BY DEF Collect, IInv, TypeOK
<1>6. UNCHANGED <<op, left, todo, blamed, hw, total, faults, multithreaded, boards>>
  BY DEF Collect, setup
<1>7. TypeOK'
  BY <1>2, <1>3, <1>4, <1>5, <1>6 DEF IInv, TypeOK
<1>8. Awaited'
  BY <1>2, <1>3, <1>4 DEF IInv, Awaited, Collect
<1> QED
  BY <1>6, <1>7, <1>8 DEF IInv

LEMMA TaskKeepsInv ==
  ASSUME IInv, NEW d \in Devices, Step(d) \/ Fault(d) \/ RaiseStep(d)
  PROVE  IInv'
<1>1. /\ TaskMoves(d)
      /\ DOMAIN hw' = Devices /\ \A e \in Devices : DOMAIN hw'[e] = Lines[e]
      /\ blamed' \in SUBSET Devices
      /\ faults' \in 0..MaxFaults
  BY TaskStep
<1>2. PICK rest, r :
        /\ todo' = [todo EXCEPT ![d] = rest]
        /\ result' = [result EXCEPT ![d] = r]
        /\ r \in {"running", "ok", "failed"} /\ (r = "running" <=> rest # <<>>)
  BY <1>1 DEF TaskMoves
<1>3. result[d] = "running" /\ UNCHANGED <<op, left, batch, errors, total, multithreaded, boards>>
  BY <1>1 DEF TaskMoves, setup
<1>4. result' \in [Devices -> Results] /\ DOMAIN todo' = Devices
  BY <1>2 DEF IInv, TypeOK, Results
<1>5. \A e \in Devices : result'[e] \in {"waiting", "running"} <=> todo'[e] # <<>>
  BY <1>2 DEF IInv, TypeOK
<1>6. TypeOK'
  BY <1>1, <1>3, <1>4, <1>5 DEF IInv, TypeOK
<1>7. Awaited'
  BY <1>2, <1>3 DEF IInv, TypeOK, Awaited
<1> QED
  BY <1>1, <1>4, <1>6, <1>7 DEF IInv

LEMMA InvStep ==
  ASSUME IInv, [Next]_vars
  PROVE  IInv'
<1>1. ASSUME NEW o \in Operations, Begin(o)
      PROVE  IInv'
  <2>1. batch = <<>> /\ UNCHANGED <<batch, todo, hw, faults, multithreaded, boards>>
    BY <1>1 DEF Begin, Busy, setup
  <2>2. \A d \in Devices : todo[d] = <<>>
    BY <2>1, NothingAwaited
  <2>3. op' = o /\ left' \in Seq(Kinds \X Procedures)
    BY <1>1, StagesTyped DEF Begin
  <2>4. errors' \in Nat /\ total' \in Nat /\ blamed' = {}
    BY <1>1 DEF Begin, IInv, TypeOK
  <2>5. result' = [d \in Devices |-> "none"]
    BY <1>1 DEF Begin
  <2>6. TypeOK'
    BY <2>1, <2>2, <2>3, <2>4, <2>5 DEF IInv, TypeOK, Results
  <2> QED
    BY <2>1, <2>5, <2>6 DEF IInv, Awaited
<1>2. CASE BeginStage
  <2>1. UNCHANGED <<op, blamed, hw, errors, faults, multithreaded, boards>>
    BY <1>2 DEF BeginStage, setup
  <2>2. Len(batch') \in Nat
    BY <1>2, StageBegins, LenProperties
  <2>3. total' \in Nat
    BY <1>2, <2>2, StageBegins DEF IInv, TypeOK
  <2>4. TypeOK'
    BY <1>2, <2>1, <2>3, StageBegins DEF IInv, TypeOK
  <2>5. \A d \in Devices : result[d] \notin {"waiting", "running"}
    BY <1>2, NothingAwaited DEF BeginStage
  <2>6. Awaited'
    BY <1>2, <2>5, StageBegins DEF Awaited
  <2> QED
    BY <1>2, <2>1, <2>4, <2>6, StageBegins DEF IInv
<1>3. CASE Collect
  BY <1>3, CollectKeepsInv
<1>4. ASSUME NEW d \in Devices, Step(d) \/ Fault(d) \/ RaiseStep(d)
      PROVE  IInv'
  BY <1>4, TaskKeepsInv
<1>5. ASSUME NEW d \in Devices, Lock(d)
      PROVE  IInv'
  <2>1. UNCHANGED <<op, left, batch, result, todo, blamed, errors, total, faults,
                    multithreaded, boards>>
    BY <1>5 DEF Lock, setup
  <2>2. DOMAIN hw' = Devices /\ \A e \in Devices : DOMAIN hw'[e] = Lines[e]
    BY <1>5 DEF Lock, IInv, TypeOK
  <2> QED
    BY <2>1, <2>2 DEF IInv, TypeOK, Awaited
<1>6. CASE UNCHANGED vars
  BY <1>6 DEF vars, setup, IInv, TypeOK, Awaited
<1> QED
  BY <1>1, <1>2, <1>3, <1>4, <1>5, <1>6 DEF Next

\* The variables of DeviceManager are of their types; in particular a task has
\* steps left as long as its future is not ready, and no longer.
THEOREM TypeCorrect == Spec => []TypeOK
<1>1. IInv /\ [Next]_vars => IInv'
  BY InvStep
<1>2. IInv => TypeOK
  BY DEF IInv
<1> QED
  BY InvInit, <1>1, <1>2, PTL DEF Spec

-----------------------------------------------------------------------------
(* Every step of DeviceManager is one of DeviceTasks, or none.             *)

LEMMA TasksInit == Init => Tasks!Init
BY RangeOfNothing DEF Init, Tasks!Init, Unended, Unseen, Broken

LEMMA BeginIsTasksStep ==
  ASSUME IInv, NEW o \in Operations, Begin(o)
  PROVE  [Tasks!Next]_(Tasks!vars)
<1>1. batch = <<>> /\ batch' = <<>>
  BY DEF Begin, Busy
<1>2. Unended = {} /\ Unseen = {} /\ Broken = {} /\ Unended' = {} /\ Unseen' = {} /\ Broken' = {}
  BY <1>1, RangeOfNothing DEF Unended, Unseen, Broken
<1>3. CASE ResetsCounters(o)
  <2>1. Tasks!Reset
    BY <1>2, <1>3 DEF Begin, Tasks!Reset
  <2> QED
    BY <2>1 DEF Tasks!Next
<1>4. CASE ~ResetsCounters(o)
  BY <1>2, <1>4 DEF Begin, Tasks!vars
<1> QED
  BY <1>3, <1>4

LEMMA SameCardinality == ASSUME NEW S PROVE Tasks!Cardinality(S) = Cardinality(S)
BY DEF Tasks!Cardinality, Cardinality

LEMMA BeginStageIsTasksStep ==
  ASSUME IInv, BeginStage
  PROVE  Tasks!Begin
<1>1. Unended = {} /\ Unseen = {} /\ Broken = {}
  BY RangeOfNothing DEF BeginStage, Unended, Unseen, Broken
<1>2. /\ batch' \in Seq(Devices) /\ IsInjective(batch') /\ total' = total + Len(batch')
      /\ \A d \in Range(batch') : result'[d] \in {"waiting", "running", "ok"}
      /\ Range(batch') \in SUBSET Devices
  BY StageBegins, RangeInside
<1>3. Unended' \cup Unseen' = Range(batch') /\ Unended' \cap Unseen' = {} /\ Broken' = {}
  BY <1>2 DEF Unended, Unseen, Broken
<1>4. total' = total + Cardinality(Unended' \cup Unseen')
  BY <1>2, <1>3, RangeCounts
<1>5. Unended' \in SUBSET Devices /\ Unseen' \in SUBSET (Devices \ Unended')
  BY <1>2, <1>3
<1>6. errors' = errors /\ Broken' = Broken
  BY <1>1, <1>3 DEF BeginStage
<1>7. /\ Unended = {} /\ Unseen = {} /\ Unended' \in SUBSET Devices
      /\ Unseen' \in SUBSET (Devices \ Unended')
      /\ total' = total + Cardinality(Unended' \cup Unseen')
      /\ Broken' = Broken /\ errors' = errors
  BY <1>1, <1>4, <1>5, <1>6
<1> QED
  BY <1>7, SameCardinality, Zenon DEF Tasks!Begin

LEMMA CollectIsTasksStep ==
  ASSUME IInv, Collect
  PROVE  \E d \in Devices : Tasks!Judge(d)
<1> SUFFICES ASSUME NEW d, d = Head(batch)
             PROVE  d \in Devices /\ Tasks!Judge(d)
  OBVIOUS
<1>1. batch \in Seq(Devices) /\ batch # <<>> /\ IsInjective(batch)
  BY DEF IInv, TypeOK, Awaited, Collect
<1>2. d \in Range(batch) /\ d \in Devices /\ Range(Tail(batch)) = Range(batch) \ {d}
  BY <1>1, RangeOfTail
<1>3. batch' = Tail(batch) /\ result[d] \in {"ok", "failed"} /\ total' = total
      /\ errors' = IF result[d] = "failed" THEN errors + 1 ELSE errors
  BY DEF Collect
<1>4. \/ result' = result
      \/ \E e : result[e] = "waiting" /\ result' = [result EXCEPT ![e] = "running"]
  BY DEF Collect
<1>5. DOMAIN result = Devices /\ Range(batch) \in SUBSET Devices
  BY <1>1, RangeInside DEF IInv, TypeOK
<1>6. \A e \in Devices :
        /\ result'[e] \in {"waiting", "running"} <=> result[e] \in {"waiting", "running"}
        /\ result'[e] \in {"ok", "failed"} <=> result[e] \in {"ok", "failed"}
        /\ result'[e] = "failed" <=> result[e] = "failed"
  BY <1>4, <1>5
<1>7. /\ Unended' = Unended /\ Unseen' = Unseen \ {d} /\ Broken' = Broken \ {d}
      /\ d \in Unseen /\ (d \in Broken <=> result[d] = "failed")
  BY <1>2, <1>3, <1>5, <1>6 DEF Unended, Unseen, Broken
<1>8. errors' = IF d \in Broken THEN errors + 1 ELSE errors
  BY <1>3, <1>7
<1>9. Tasks!Judge(d)
  BY <1>3, <1>7, <1>8 DEF Tasks!Judge
<1> QED
  BY <1>2, <1>9

LEMMA TaskIsTasksStep ==
  ASSUME IInv, NEW d \in Devices, TaskMoves(d)
  PROVE  Tasks!End(d) \/ UNCHANGED Tasks!vars
<1>1. PICK r : result' = [result EXCEPT ![d] = r] /\ r \in {"running", "ok", "failed"}
  BY DEF TaskMoves
<1>2. result[d] = "running" /\ batch' = batch /\ errors' = errors /\ total' = total
  BY DEF TaskMoves
<1>3. DOMAIN result = Devices /\ d \in Range(batch) /\ Range(batch) \in SUBSET Devices
  BY <1>2, RangeInside DEF IInv, TypeOK, Awaited
<1>4. \A e \in Range(batch) : result'[e] = IF e = d THEN r ELSE result[e]
  BY <1>1, <1>3
<1>5. CASE r = "running"
  <2>1. Unended' = Unended /\ Unseen' = Unseen /\ Broken' = Broken
    BY <1>2, <1>4, <1>5 DEF Unended, Unseen, Broken
  <2> QED
    BY <1>2, <2>1 DEF Tasks!vars
<1>6. CASE r \in {"ok", "failed"}
  <2>1. /\ Unended' = Unended \ {d} /\ Unseen' = Unseen \cup {d}
        /\ Broken' \in {Broken, Broken \cup {d}} /\ d \in Unended
    BY <1>2, <1>3, <1>4, <1>6 DEF Unended, Unseen, Broken
  <2> QED
    BY <1>2, <2>1 DEF Tasks!End
<1> QED
  BY <1>1, <1>5, <1>6

LEMMA TasksStep ==
  ASSUME IInv, [Next]_vars
  PROVE  [Tasks!Next]_(Tasks!vars)
<1>1. ASSUME NEW o \in Operations, Begin(o)
      PROVE  [Tasks!Next]_(Tasks!vars)
  BY <1>1, BeginIsTasksStep
<1>2. CASE BeginStage
  BY <1>2, BeginStageIsTasksStep DEF Tasks!Next
<1>3. CASE Collect
  BY <1>3, CollectIsTasksStep DEF Tasks!Next
<1>4. ASSUME NEW d \in Devices, Step(d) \/ Fault(d) \/ RaiseStep(d)
      PROVE  [Tasks!Next]_(Tasks!vars)
  BY <1>4, TaskStep, TaskIsTasksStep DEF Tasks!Next
<1>5. ASSUME NEW d \in Devices, Lock(d)
      PROVE  UNCHANGED Tasks!vars
  BY <1>5 DEF Lock, Tasks!vars, Unended, Unseen, Broken
<1>6. CASE UNCHANGED vars
  BY <1>6 DEF vars, Tasks!vars, Unended, Unseen, Broken
<1> QED
  BY <1>1, <1>2, <1>3, <1>4, <1>5, <1>6 DEF Next

\* applyFunc tries every device of a stage once and looks at it once, after its
\* task has ended; the error counter counts the tasks that threw, and neither
\* counter is reset while a task is under way.
THEOREM CountsCorrect == Spec => CountsEachDeviceOnce
<1>1. IInv /\ [Next]_vars => IInv'
  BY InvStep
<1>2. IInv /\ [Next]_vars => [Tasks!Next]_(Tasks!vars)
  BY TasksStep
<1> QED
  BY InvInit, TasksInit, <1>1, <1>2, PTL DEF Spec, CountsEachDeviceOnce, Tasks!Spec

\* What is proved of DeviceTasks holds of DeviceManager.
Counts == INSTANCE DeviceTasksProofs WITH
  running <- Unended, ended <- Unseen, broken <- Broken,
  failed <- errors, tried <- total

LEMMA CountsAreTasks ==
  /\ Counts!Init <=> Tasks!Init
  /\ [Counts!Next]_(Counts!vars) <=> [Tasks!Next]_(Tasks!vars)
  /\ Counts!FractionBounded <=> Tasks!FractionBounded
<1>1. \A S : Counts!Cardinality(S) = Tasks!Cardinality(S)
  BY DEF Tasks!Cardinality, Counts!Cardinality
<1>2. Counts!Init <=> Tasks!Init
  BY DEF Counts!Init, Tasks!Init
<1>3. Counts!Begin <=> Tasks!Begin
  BY <1>1, Zenon DEF Counts!Begin, Tasks!Begin
<1>4. [Counts!Next]_(Counts!vars) <=> [Tasks!Next]_(Tasks!vars)
  BY <1>3 DEF Counts!Next, Tasks!Next, Counts!Reset, Tasks!Reset, Counts!End, Tasks!End,
              Counts!Judge, Tasks!Judge, Counts!vars, Tasks!vars
<1>5. Counts!FractionBounded <=> Tasks!FractionBounded
  BY <1>1 DEF Counts!FractionBounded, Tasks!FractionBounded
<1> QED
  BY <1>2, <1>4, <1>5

\* getFractionFailed is a fraction at any time of any operation: the devices that
\* failed, and those that may still turn out to have, are never more than the
\* devices that were tried.
THEOREM FractionCorrect ==
  ASSUME IsFiniteSet(Devices)
  PROVE  Spec => []Tasks!FractionBounded
<1> DEFINE Inv == IInv /\ Counts!TypeOK /\ Counts!FractionBounded
<1>1. Counts!IsFiniteSet(Devices)
  BY DEF IsFiniteSet, Counts!IsFiniteSet
<1>2. Init => Inv
  BY InvInit, TasksInit, CountsAreTasks, Counts!TypeInit, Counts!FractionInit
<1>3. Inv /\ [Next]_vars => Inv'
  BY <1>1, InvStep, TasksStep, CountsAreTasks, Counts!TypeStep, Counts!FractionStep
<1>4. Inv => Tasks!FractionBounded
  BY CountsAreTasks
<1> QED
  BY <1>2, <1>3, <1>4, PTL DEF Spec

-----------------------------------------------------------------------------
(* What the devices are promised.  A task that is under way, or has ended  *)
(* without an exception, is in a sound set of configurations of the        *)
(* procedure it runs: the one of the last stage so far for its kind.       *)

WorldOf(d) ==
  CASE KindOf[d] = "FEB"        -> FebWorld
    [] KindOf[d] = "ADDC"       -> AddcWorld
    [] KindOf[d] = "MMTP"       -> MmtpWorld
    [] KindOf[d] = "Router"     -> RouterWorld
    [] KindOf[d] = "PadTrigger" -> PadWorld(Settings[d])
    [] KindOf[d] = "STGCTP"     -> StgctpWorld
    [] KindOf[d] = "TPCarrier"  -> CarrierWorld

\* What an operation has applied to a kind when n of its stages are left.
Func(o, k, n) ==
  CASE o = "CONFIGURE"                  -> "writeConfiguration"
    [] o = "START"                      -> "enableChannelRates"
    [] o = "STOP" /\ k = "FEB"          -> "disableVmmCaptureInputs"
    [] o = "STOP" /\ k = "MMTP"         -> IF n < 2 THEN "toggleIdleStateHigh"
                                                    ELSE "disableChannelRates"
    [] o = "STOP" /\ k = "PadTrigger"   -> "toggleIdleState"
    [] o = "STOP" /\ k = "STGCTP"       -> "doReset"
    [] o = "ENABLE_VMM"                 -> "enableVmmCaptureInputs"
    [] o = "RESET_STGCTP"               -> "doReset"

Involved(o, k) == \E i \in 1..Len(Stages(o)) : Stages(o)[i][1] = k

Rates(d) == IF "rates" \in Settings[d] THEN "on" ELSE "off"

\* The facts a function needs, and those it leaves.
Start(func) == IF func = "toggleIdleStateHigh" THEN {<<"channelRates", "off">>} ELSE {}

ConfigurationDone(d) ==
  LET s == Settings[d]
  IN CASE KindOf[d] = "FEB"        -> FebDone(s \cup Options)
       [] KindOf[d] = "ADDC"       -> AddcDone(s)
       [] KindOf[d] = "MMTP"       -> MmtpDone(s)
       [] KindOf[d] = "Router"     -> RouterDone(s)
       [] KindOf[d] = "STGCTP"     -> StgctpDone(s)
       [] KindOf[d] = "TPCarrier"  -> CarrierDone

Goal(d, func) ==
  CASE func = "writeConfiguration"      -> ConfigurationDone(d)
    [] func = "enableChannelRates"      -> {<<"channelRates", Rates(d)>>}
    [] func = "disableChannelRates"     -> {<<"channelRates", "off">>}
    [] func = "enableVmmCaptureInputs"  -> {<<"captures", "configured">>}
    [] func = "disableVmmCaptureInputs" -> {<<"captures", "off">>}
    [] func = "toggleIdleState"         -> Asked(Settings[d], "toggle", {<<"idle", "off">>})
    [] func = "toggleIdleStateHigh"     -> {<<"channelRates", "off">>, <<"latTxIdle", "inactive">>}
    [] func = "doReset"                 -> ResetDone(Settings[d])

\* The scan of a pad trigger may restore one of several delays.
IsScan(d, func) == KindOf[d] = "PadTrigger" /\ func = "writeConfiguration"

Goals(d, func) == IF IsScan(d, func) THEN PadGoals(Settings[d]) ELSE {Goal(d, func)}

DeviceState(d) == [lines |-> hw[d], warned |-> d \in blamed]

Aim(d) == AtOne(WorldOf(d), Goals(d, Func(op, KindOf[d], Len(left))))
Aims(d) ==
  \E K : /\ Sound(WorldOf(d), K, Aim(d), States(WorldOf(d)))
         /\ <<todo[d], DeviceState(d)>> \in K

Members == {d \in Devices : \E k \in Kinds : d \in Range(boards[k])}

\* What is left of an operation are its last stages.
LeftOver ==
  IF op \in Operations
    THEN \E n \in 0..Len(Stages(op)) :
           /\ Len(left) = Len(Stages(op)) - n
           /\ \A i \in 1..Len(left) : left[i] = Stages(op)[n + i]
    ELSE left = <<>>

PromiseInv ==
  /\ LeftOver
  /\ \A d \in Devices : result[d] # "none" =>
       d \in Members /\ op \in Operations /\ Involved(op, KindOf[d])
  /\ \A d \in Members : DeviceState(d) \in States(WorldOf(d))
  /\ \A d \in Devices : result[d] \in {"waiting", "running", "ok"} => Aims(d)
  /\ \A d \in Devices : result[d] = "failed" => d \in blamed
  /\ op = "STOP" /\ Len(left) <= 3 => \A d \in Range(boards["MMTP"]) : result[d] # "none"

-----------------------------------------------------------------------------
(* Devices and stages.                                                     *)

LEMMA KindOfMember ==
  ASSUME boards \in Sectors, NEW k \in Kinds, NEW d \in Devices, d \in Range(boards[k])
  PROVE  KindOf[d] = k
<1>1. PICK m \in Kinds : \A sector \in Sectors, l \in Kinds : d \in Range(sector[l]) => l = m
  BY DeviceAssumption
<1> DEFINE P(l) == l \in Kinds /\ \E sector \in Sectors : d \in Range(sector[l])
<1>2. KindOf[d] = CHOOSE l : P(l)
  BY DEF KindOf
<1>3. P(k)
  OBVIOUS
<1>4. P(CHOOSE l : P(l))
  BY <1>3
<1>5. \A l : P(l) => l = m
  BY <1>1
<1> QED
  BY <1>2, <1>3, <1>4, <1>5

LEMMA WorldFacts ==
  ASSUME NEW d \in Devices, KindOf[d] \in Kinds
  PROVE  /\ World(WorldOf(d)) /\ WorldOf(d).lines = Lines[d] /\ WorldOf(d).values = Values
         /\ WorldOf(d).plls = (KindOf[d] = "FEB")
         /\ \A line : <<line, "unknown">> \notin WorldOf(d).never
         /\ KindOf[d] = "MMTP" => WorldOf(d) = MmtpWorld
         /\ KindOf[d] = "FEB" => WorldOf(d) = FebWorld
         /\ KindOf[d] = "ADDC" => WorldOf(d) = AddcWorld
         /\ WorldOf(d).forgives \/ KindOf[d] \in {"FEB", "ADDC"}
         /\ WorldOf(d).ties = {} /\ WorldOf(d).warnings = BOOLEAN
<1>1. CASE KindOf[d] = "FEB"
  BY <1>1, FebIsWorld DEF WorldOf, Lines, FebWorld
<1>2. CASE KindOf[d] = "ADDC"
  BY <1>2, AddcIsWorld DEF WorldOf, Lines, AddcWorld
<1>3. ASSUME NEW lines, NEW never, \A line : <<line, "unknown">> \notin never,
             WorldOf(d) = Forgiving(lines, never), Lines[d] = lines,
             KindOf[d] \notin {"FEB", "ADDC"}, KindOf[d] = "MMTP" => WorldOf(d) = MmtpWorld
      PROVE  /\ World(WorldOf(d)) /\ WorldOf(d).lines = Lines[d] /\ WorldOf(d).values = Values
             /\ WorldOf(d).plls = (KindOf[d] = "FEB")
             /\ \A line : <<line, "unknown">> \notin WorldOf(d).never
             /\ KindOf[d] = "MMTP" => WorldOf(d) = MmtpWorld
             /\ KindOf[d] = "FEB" => WorldOf(d) = FebWorld
             /\ KindOf[d] = "ADDC" => WorldOf(d) = AddcWorld
             /\ WorldOf(d).forgives \/ KindOf[d] \in {"FEB", "ADDC"}
             /\ WorldOf(d).ties = {} /\ WorldOf(d).warnings = BOOLEAN
  <2>1. World(Forgiving(lines, never))
    BY EasyIsWorld DEF Easy
  <2>2. WorldOf(d).plls = FALSE /\ WorldOf(d).forgives = TRUE /\ WorldOf(d).values = Values
        /\ WorldOf(d).lines = lines /\ WorldOf(d).never = never
        /\ WorldOf(d).ties = {} /\ WorldOf(d).warnings = BOOLEAN
    BY <1>3 DEF Forgiving
  <2>3. (KindOf[d] = "FEB") = FALSE
    BY <1>3
  <2> QED
    BY <1>3, <2>1, <2>2, <2>3
<1>4. CASE KindOf[d] = "MMTP"
  BY <1>3, <1>4 DEF WorldOf, MmtpWorld, Lines
<1>5. CASE KindOf[d] = "Router"
  BY <1>3, <1>5 DEF WorldOf, RouterWorld, Lines
<1>6. CASE KindOf[d] = "PadTrigger"
  BY <1>3, <1>6 DEF WorldOf, PadWorld, Lines
<1>7. CASE KindOf[d] = "STGCTP"
  BY <1>3, <1>7 DEF WorldOf, StgctpWorld, Lines
<1>8. CASE KindOf[d] = "TPCarrier"
  BY <1>3, <1>8 DEF WorldOf, CarrierWorld, Lines
<1> QED
  BY <1>1, <1>2, <1>4, <1>5, <1>6, <1>7, <1>8 DEF Kinds

\* A stage, n stages before the last one.
StageFits(o, k, func, n) ==
  /\ k \in Kinds /\ func = Func(o, k, n)
  /\ \/ func = "writeConfiguration"
     \/ k = "FEB" /\ func \in {"enableVmmCaptureInputs", "disableVmmCaptureInputs"}
     \/ k = "MMTP" /\ func \in {"enableChannelRates", "disableChannelRates", "toggleIdleStateHigh"}
     \/ k = "PadTrigger" /\ func = "toggleIdleState"
     \/ k = "STGCTP" /\ func = "doReset"
  /\ func = "toggleIdleStateHigh" => o = "STOP" /\ n = 1
  /\ o = "STOP" /\ n = 3 => k = "MMTP"
  /\ \A l : l # k => Func(o, l, n) = Func(o, l, n + 1)

LEMMA StageTable ==
  ASSUME NEW o \in Operations
  PROVE  /\ Len(Stages(o)) \in Nat \ {0} /\ (o = "STOP" => Len(Stages(o)) = 5)
         /\ \A i \in 1..Len(Stages(o)) :
              StageFits(o, Stages(o)[i][1], Stages(o)[i][2], Len(Stages(o)) - i)
<1>1. CASE o = "CONFIGURE"
  <2> DEFINE kinds == <<"FEB", "ADDC", "MMTP", "Router", "PadTrigger", "STGCTP", "TPCarrier">>
  <2>1. \A i \in 1..7 : kinds[i] \in Kinds
    BY DEF Kinds
  <2> HIDE DEF kinds
  <2> DEFINE list == [i \in 1..7 |-> <<kinds[i], "writeConfiguration">>]
  <2>2. Stages(o) = list
    BY <1>1 DEF Stages, kinds
  <2>3. Len(list) = 7
    <3> DEFINE S == Kinds \X {"writeConfiguration"}
    <3>1. list \in [1..7 -> S]
      BY <2>1
    <3> HIDE DEF list, S
    <3>2. list \in Seq(S)
      BY <3>1, SeqDef
    <3>3. DOMAIN list = 1..7
      BY <3>1
    <3> QED
      BY <3>2, <3>3, LenProperties
  <2>4. \A i \in 1..7 : list[i][1] = kinds[i] /\ list[i][2] = "writeConfiguration"
    OBVIOUS
  <2>5. \A k \in Kinds : \A n : StageFits(o, k, "writeConfiguration", n)
    BY <1>1 DEF StageFits, Func
  <2> HIDE DEF list
  <2>6. \A i \in 1..7 : StageFits(o, list[i][1], list[i][2], 7 - i)
    BY <2>1, <2>4, <2>5
  <2>7. Len(Stages(o)) = 7 /\ o # "STOP"
    BY <1>1, <2>2, <2>3
  <2>8. \A i \in 1..7 : StageFits(o, Stages(o)[i][1], Stages(o)[i][2], 7 - i)
    BY <2>2, <2>6
  <2> QED
    BY <2>7, <2>8
<1>2. CASE o = "STOP"
  <2> DEFINE list == <<<<"FEB", "disableVmmCaptureInputs">>, <<"MMTP", "disableChannelRates">>,
                       <<"PadTrigger", "toggleIdleState">>, <<"MMTP", "toggleIdleStateHigh">>,
                       <<"STGCTP", "doReset">>>>
  <2>1. Stages(o) = list
    BY <1>2 DEF Stages
  <2>2. /\ list[1][1] = "FEB" /\ list[1][2] = "disableVmmCaptureInputs"
        /\ list[2][1] = "MMTP" /\ list[2][2] = "disableChannelRates"
        /\ list[3][1] = "PadTrigger" /\ list[3][2] = "toggleIdleState"
        /\ list[4][1] = "MMTP" /\ list[4][2] = "toggleIdleStateHigh"
        /\ list[5][1] = "STGCTP" /\ list[5][2] = "doReset"
        /\ Len(list) = 5
    OBVIOUS
  <2>3. /\ StageFits(o, "FEB", "disableVmmCaptureInputs", 4)
        /\ StageFits(o, "MMTP", "disableChannelRates", 3)
        /\ StageFits(o, "PadTrigger", "toggleIdleState", 2)
        /\ StageFits(o, "MMTP", "toggleIdleStateHigh", 1)
        /\ StageFits(o, "STGCTP", "doReset", 0)
    BY <1>2 DEF StageFits, Func, Kinds
  <2> HIDE DEF list
  <2>4. \A i \in 1..5 : StageFits(o, list[i][1], list[i][2], 5 - i)
    <3> SUFFICES ASSUME NEW i \in 1..5 PROVE StageFits(o, list[i][1], list[i][2], 5 - i)
      OBVIOUS
    <3>1. \/ i = 1 /\ 5 - i = 4
          \/ i = 2 /\ 5 - i = 3
          \/ i = 3 /\ 5 - i = 2
          \/ i = 4 /\ 5 - i = 1
          \/ i = 5 /\ 5 - i = 0
      OBVIOUS
    <3> QED
      BY <2>2, <2>3, <3>1
  <2> QED
    BY <2>1, <2>2, <2>4
<1>3. CASE o = "START"
  <2>1. Stages(o) = <<<<"MMTP", "enableChannelRates">>>>
    BY <1>3 DEF Stages
  <2>2. \A n : StageFits(o, "MMTP", "enableChannelRates", n)
    BY <1>3 DEF StageFits, Func, Kinds
  <2> QED
    BY <1>3, <2>1, <2>2
<1>4. CASE o = "ENABLE_VMM"
  <2>1. Stages(o) = <<<<"FEB", "enableVmmCaptureInputs">>>>
    BY <1>4 DEF Stages
  <2>2. \A n : StageFits(o, "FEB", "enableVmmCaptureInputs", n)
    BY <1>4 DEF StageFits, Func, Kinds
  <2> QED
    BY <1>4, <2>1, <2>2
<1>5. CASE o = "RESET_STGCTP"
  <2>1. Stages(o) = <<<<"STGCTP", "doReset">>>>
    BY <1>5 DEF Stages
  <2>2. \A n : StageFits(o, "STGCTP", "doReset", n)
    BY <1>5 DEF StageFits, Func, Kinds
  <2> QED
    BY <1>5, <2>1, <2>2
<1> QED
  BY <1>1, <1>2, <1>3, <1>4, <1>5 DEF Operations

LEMMA ProcedureDoes ==
  ASSUME NEW d \in Devices, NEW o, NEW func, NEW n, StageFits(o, KindOf[d], func, n),
         ~IsScan(d, func)
  PROVE  Does(WorldOf(d), Start(func), Procedure(d, func), Goal(d, func))
<1> DEFINE k == KindOf[d]
           s == Settings[d]
<1>1. CASE func = "writeConfiguration"
  <2>1. Start(func) = {} /\ Procedure(d, func) = WriteConfiguration(d)
        /\ Goal(d, func) = ConfigurationDone(d)
    BY <1>1 DEF Start, Procedure, Goal
  <2>2. CASE k = "FEB"
    BY <2>1, <2>2, WriteFebDoes DEF WorldOf, WriteConfiguration, ConfigurationDone
  <2>3. CASE k = "ADDC"
    BY <2>1, <2>3, WriteAddcDoes DEF WorldOf, WriteConfiguration, ConfigurationDone
  <2>4. CASE k = "MMTP"
    BY <2>1, <2>4, WriteMmtpDoes DEF WorldOf, WriteConfiguration, ConfigurationDone
  <2>5. CASE k = "Router"
    BY <2>1, <2>5, WriteRouterDoes DEF WorldOf, WriteConfiguration, ConfigurationDone
  <2>6. k # "PadTrigger"
    BY <1>1 DEF IsScan
  <2>7. CASE k = "STGCTP"
    BY <2>1, <2>7, WriteStgctpDoes DEF WorldOf, WriteConfiguration, ConfigurationDone
  <2>8. CASE k = "TPCarrier"
    BY <2>1, <2>8, WriteCarrierDoes DEF WorldOf, WriteConfiguration, ConfigurationDone
  <2> QED
    BY <2>2, <2>3, <2>4, <2>5, <2>6, <2>7, <2>8 DEF StageFits, Kinds
<1>2. CASE k = "FEB" /\ func = "enableVmmCaptureInputs"
  BY <1>2, CapturesDoes DEF Start, Procedure, Goal, WorldOf
<1>3. CASE k = "FEB" /\ func = "disableVmmCaptureInputs"
  BY <1>3, CapturesDoes DEF Start, Procedure, Goal, WorldOf
<1>4. CASE k = "MMTP" /\ func = "enableChannelRates"
  <2>1. Rates(d) \in {"on", "off"} /\ Procedure(d, func) = EnableChannelRates(Rates(d))
    BY <1>4 DEF Rates, Procedure
  <2> QED
    BY <1>4, <2>1, ChannelRatesDo DEF Start, Goal, WorldOf
<1>5. CASE k = "MMTP" /\ func = "disableChannelRates"
  BY <1>5, ChannelRatesDo DEF Start, Procedure, Goal, WorldOf
<1>6. CASE k = "MMTP" /\ func = "toggleIdleStateHigh"
  BY <1>6, ToggleIdleStateHighDoes DEF Start, Procedure, Goal, WorldOf
<1>7. CASE k = "PadTrigger" /\ func = "toggleIdleState"
  BY <1>7, ToggleIdleStateDoes DEF Start, Procedure, Goal, WorldOf
<1>8. CASE k = "STGCTP" /\ func = "doReset"
  BY <1>8, DoResetDoes DEF Start, Procedure, Goal, WorldOf
<1> QED
  BY <1>1, <1>2, <1>3, <1>4, <1>5, <1>6, <1>7, <1>8 DEF StageFits

LEMMA ProcedureEnds ==
  ASSUME NEW d \in Devices, NEW o, NEW func, NEW n, StageFits(o, KindOf[d], func, n)
  PROVE  Triple(WorldOf(d), At(WorldOf(d), Start(func)), Procedure(d, func),
                AtOne(WorldOf(d), Goals(d, func)), States(WorldOf(d)))
<1>1. CASE IsScan(d, func)
  <2>1. /\ Start(func) = {} /\ Procedure(d, func) = WritePadTrigger(Settings[d])
        /\ WorldOf(d) = PadWorld(Settings[d]) /\ Goals(d, func) = PadGoals(Settings[d])
    BY <1>1 DEF IsScan, Start, Procedure, WriteConfiguration, WorldOf, Goals
  <2> QED
    BY <2>1, WritePadTriggerEnds
<1>2. CASE ~IsScan(d, func)
  <2>1. Does(WorldOf(d), Start(func), Procedure(d, func), Goal(d, func))
    BY <1>2, ProcedureDoes
  <2>2. AtOne(WorldOf(d), Goals(d, func)) = At(WorldOf(d), Goal(d, func))
    BY <1>2 DEF AtOne, Goals
  <2> QED
    BY <2>1, <2>2 DEF Does
<1> QED
  BY <1>1, <1>2

-----------------------------------------------------------------------------
(* The promises are kept.                                                  *)

\* A step that touches one device.
Untouched(e) ==
  /\ result'[e] = result[e] /\ todo'[e] = todo[e] /\ hw'[e] = hw[e]
  /\ e \in blamed' <=> e \in blamed

OneDevice(d) ==
  /\ UNCHANGED <<op, left, boards>>
  /\ \A e \in Devices \ {d} : Untouched(e)
  /\ result'[d] # "none" <=> result[d] # "none"
  /\ result'[d] \in {"waiting", "running", "ok"} => Aims(d)'
  /\ result'[d] = "failed" => d \in blamed'
  /\ d \in Members => DeviceState(d)' \in States(WorldOf(d))

LEMMA UntouchedStays ==
  ASSUME NEW e \in Devices, Untouched(e), UNCHANGED <<op, left>>
  PROVE  DeviceState(e)' = DeviceState(e) /\ Aim(e)' = Aim(e) /\ (Aims(e) => Aims(e)')
<1>1. DeviceState(e)' = DeviceState(e)
  BY DEF Untouched, DeviceState
<1>2. Aim(e)' = Aim(e)
  BY DEF Aim
<1> QED
  BY <1>1, <1>2 DEF Aims, Untouched

LEMMA BoardDevices ==
  ASSUME IInv, NEW k \in Kinds
  PROVE  boards[k] \in Seq(Devices) /\ Range(boards[k]) \subseteq Devices
<1>1. boards[k] \in Seq(Devices)
  BY DeviceAssumption DEF IInv, TypeOK
<1> QED
  BY <1>1, RangeInside

LEMMA OneDeviceKeepsPromises ==
  ASSUME IInv, PromiseInv, NEW d \in Devices, OneDevice(d)
  PROVE  PromiseInv'
<1>1. LeftOver'
  BY DEF PromiseInv, OneDevice, LeftOver
<1>2. Members' = Members
  BY DEF OneDevice, Members
<1>3. \A e \in Devices : result'[e] # "none" <=> result[e] # "none"
  BY DEF OneDevice, Untouched
<1>4. \A e \in Devices : result'[e] # "none" => e \in Members' /\ op' \in Operations
                                                 /\ Involved(op', KindOf[e])
  BY <1>2, <1>3 DEF PromiseInv, OneDevice
<1>5. ASSUME NEW e \in Members' PROVE DeviceState(e)' \in States(WorldOf(e))
  <2>1. e \in Devices /\ e \in Members
    BY <1>2 DEF Members
  <2>2. CASE e = d
    BY <2>1, <2>2 DEF OneDevice
  <2>3. CASE e # d
    BY <2>1, <2>3, UntouchedStays DEF OneDevice, PromiseInv
  <2> QED
    BY <2>2, <2>3
<1>6. ASSUME NEW e \in Devices, result'[e] \in {"waiting", "running", "ok"} PROVE Aims(e)'
  <2>1. CASE e = d
    BY <1>6, <2>1 DEF OneDevice
  <2>2. CASE e # d
    BY <1>6, <2>2, UntouchedStays DEF OneDevice, PromiseInv, Untouched
  <2> QED
    BY <2>1, <2>2
<1>7. ASSUME NEW e \in Devices, result'[e] = "failed" PROVE e \in blamed'
  BY <1>7 DEF OneDevice, PromiseInv, Untouched
<1>8. op' = "STOP" /\ Len(left') <= 3 => \A e \in Range(boards'["MMTP"]) : result'[e] # "none"
  <2>1. boards' = boards /\ op' = op /\ left' = left
    BY DEF OneDevice
  <2> SUFFICES ASSUME op = "STOP", Len(left) <= 3, NEW e \in Range(boards["MMTP"])
               PROVE  result'[e] # "none"
    BY <2>1
  <2>2. result[e] # "none"
    BY DEF PromiseInv
  <2>3. e \in Devices
    BY BoardDevices DEF Kinds
  <2> QED
    BY <1>3, <2>2, <2>3
<1> QED
  BY <1>1, <1>4, <1>5, <1>6, <1>7, <1>8 DEF PromiseInv

LEMMA InSound ==
  ASSUME NEW W, NEW K, NEW T, NEW E, NEW t, NEW s, Sound(W, K, T, E), <<t, s>> \in K
  PROVE  SoundAt(W, K, T, E, t, s)
<1>1. PICK t2, s2 : <<t, s>> = <<t2, s2>> /\ SoundAt(W, K, T, E, t2, s2)
  BY DEF Sound
<1>2. t = t2 /\ s = s2
  BY <1>1
<1> QED
  BY <1>1, <1>2

\* A device in configuration c of a sound set.
SoundFor(d, K) == Sound(WorldOf(d), K, Aim(d), States(WorldOf(d)))

LEMMA SoundStates ==
  ASSUME NEW d, NEW K, NEW t, NEW s, SoundFor(d, K), <<t, s>> \in K
  PROVE  s \in States(WorldOf(d))
BY InSound DEF SoundFor, SoundAt

LEMMA StillAims ==
  ASSUME NEW d \in Devices, NEW K, SoundFor(d, K), UNCHANGED <<op, left>>,
         <<todo'[d], DeviceState(d)'>> \in K
  PROVE  Aims(d)' /\ DeviceState(d)' \in States(WorldOf(d))
<1>1. Aim(d)' = Aim(d)
  BY DEF Aim
<1>2. DeviceState(d)' \in States(WorldOf(d))
  BY SoundStates
<1> QED
  BY <1>1, <1>2 DEF Aims, SoundFor

LEMMA KnownKind ==
  ASSUME IInv, NEW d \in Members
  PROVE  KindOf[d] \in Kinds
BY KindOfMember DEF Members, IInv, TypeOK

\* A device whose task is under way, and what its next step is.
LEMMA UnderWay ==
  ASSUME IInv, PromiseInv, NEW d \in Devices, result[d] = "running"
  PROVE  /\ d \in Members /\ KindOf[d] \in Kinds /\ todo[d] # <<>>
         /\ \E K : /\ SoundFor(d, K) /\ <<todo[d], DeviceState(d)>> \in K
                   /\ Program(todo[d]) /\ DeviceState(d) \in States(WorldOf(d))
                   /\ GoesOn(WorldOf(d), K, todo[d], DeviceState(d))
                   /\ Breaks(WorldOf(d), K, States(WorldOf(d)), todo[d], DeviceState(d))
<1>1. d \in Members /\ Aims(d) /\ todo[d] # <<>>
  BY DEF PromiseInv, IInv, TypeOK
<1>2. KindOf[d] \in Kinds
  BY <1>1, KnownKind
<1>3. PICK K : SoundFor(d, K) /\ <<todo[d], DeviceState(d)>> \in K
  BY <1>1 DEF Aims, SoundFor
<1>4. SoundAt(WorldOf(d), K, Aim(d), States(WorldOf(d)), todo[d], DeviceState(d))
  BY <1>3, InSound DEF SoundFor
<1> QED
  BY <1>1, <1>2, <1>3, <1>4 DEF SoundAt

\* What a step does to the device is what the logic says.
LEMMA StepState ==
  ASSUME IInv, NEW d \in Devices, KindOf[d] \in Kinds, NEW step,
         hw' = IF step.do \in Changes
                 THEN [hw EXCEPT ![d] = Written(d, step)] ELSE hw,
         d \in blamed' <=> step.do = "warn" \/ d \in blamed
  PROVE  DeviceState(d)' = After(WorldOf(d), DeviceState(d), step)
<1>1. WorldOf(d).plls = (KindOf[d] = "FEB")
  BY WorldFacts
<1>2. DOMAIN hw = Devices
  BY DEF IInv
<1>3. CASE step.do \in Changes
  <2>1. hw'[d] = Effect(hw[d], step, WorldOf(d).plls)
    BY <1>1, <1>2, <1>3 DEF Written
  <2>2. (d \in blamed') = (d \in blamed)
    BY <1>3 DEF Changes
  <2>3. DeviceState(d)' = [lines |-> Effect(hw[d], step, WorldOf(d).plls), warned |-> d \in blamed]
    BY <2>1, <2>2 DEF DeviceState
  <2> QED
    BY <1>3, <2>3 DEF After, DeviceState
<1>4. CASE step.do = "warn"
  <2>1. hw'[d] = hw[d] /\ (d \in blamed') = TRUE
    BY <1>4 DEF Changes
  <2> QED
    BY <1>4, <2>1 DEF After, DeviceState, Changes
<1>5. CASE step.do \notin Changes \cup {"warn"}
  <2>1. hw'[d] = hw[d] /\ (d \in blamed') = (d \in blamed)
    BY <1>5
  <2> QED
    BY <1>5, <2>1 DEF After, DeviceState
<1> QED
  BY <1>3, <1>4, <1>5

LEMMA StepKeeps ==
  ASSUME IInv, PromiseInv, NEW d \in Devices, Step(d)
  PROVE  OneDevice(d) /\ Kept(WorldOf(d), hw[d], hw'[d])
<1> DEFINE step == Head(todo[d])
           rest == Tail(todo[d])
           W == WorldOf(d)
           s == DeviceState(d)
<1>1. /\ d \in Members /\ KindOf[d] \in Kinds /\ todo[d] # <<>> /\ result[d] = "running"
  BY UnderWay DEF Step
<1>2. PICK K : SoundFor(d, K) /\ GoesOn(W, K, todo[d], s)
  BY <1>1, UnderWay
<1>3. PICK way \in (IF step.do = "choose" THEN step.ways ELSE {<<>>}) : Continue(d, way \o rest)
  BY DEF Step
<1>4. /\ step.do # "raise"
      /\ step.do = "await" => hw[d][step.line] = step.value
      /\ hw' = IF step.do \in Changes
                 THEN [hw EXCEPT ![d] = Written(d, step)] ELSE hw
      /\ blamed' = IF step.do = "warn" THEN blamed \cup {d} ELSE blamed
      /\ UNCHANGED <<op, left, boards>>
  BY DEF Step, setup
<1> HIDE DEF step, rest
<1>5. DeviceState(d)' = After(W, s, step)
  BY <1>1, <1>4, StepState
<1>6. Goes(step, s)
  BY <1>4 DEF Goes, DeviceState
<1>7. Kept(W, s.lines, DeviceState(d)'.lines) /\ <<way \o rest, DeviceState(d)'>> \in K
  BY <1>2, <1>3, <1>5, <1>6 DEF GoesOn, step, rest
<1>8. todo'[d] = way \o rest /\ result'[d] \in {"running", "ok"}
  BY <1>1, <1>3 DEF Continue, IInv, TypeOK
<1>9. Aims(d)' /\ DeviceState(d)' \in States(W)
  BY <1>2, <1>4, <1>7, <1>8, StillAims
<1>10. \A e \in Devices \ {d} : Untouched(e)
  BY <1>3, <1>4 DEF Continue, Untouched, IInv, TypeOK
<1>11. Kept(W, hw[d], hw'[d])
  BY <1>7 DEF DeviceState
<1> QED
  BY <1>1, <1>4, <1>8, <1>9, <1>10, <1>11 DEF OneDevice

\* The state an exception leaves, apart from the blame.
LEMMA ThrownState ==
  ASSUME IInv, NEW d \in Devices, KindOf[d] \in Kinds, NEW step,
         \/ hw' = hw
         \/ step.do = "write" /\ hw' = [hw EXCEPT ![d] = Written(d, step)]
  PROVE  [lines |-> hw'[d], warned |-> d \in blamed] \in Thrown(WorldOf(d), DeviceState(d), step)
<1>1. WorldOf(d).plls = (KindOf[d] = "FEB")
  BY WorldFacts
<1>2. DOMAIN hw = Devices
  BY DEF IInv
<1>3. CASE hw' = hw
  BY <1>3 DEF Thrown, DeviceState
<1>4. CASE step.do = "write" /\ hw' = [hw EXCEPT ![d] = Written(d, step)]
  <2>1. hw'[d] = Effect(hw[d], step, WorldOf(d).plls)
    BY <1>1, <1>2, <1>4 DEF Written
  <2>2. After(WorldOf(d), DeviceState(d), step)
          = [lines |-> Effect(hw[d], step, WorldOf(d).plls), warned |-> d \in blamed]
    BY <1>4 DEF After, Changes, DeviceState
  <2> QED
    BY <1>4, <2>1, <2>2 DEF Thrown
<1> QED
  BY <1>3, <1>4

LEMMA ThrowKeeps ==
  ASSUME IInv, PromiseInv, NEW d \in Devices, result[d] = "running", Throws(d),
         UNCHANGED <<op, left, boards>>, Head(todo[d]).do \in Throwing,
         \/ hw' = hw
         \/ Head(todo[d]).do = "write" /\ hw' = [hw EXCEPT ![d] = Written(d, Head(todo[d]))]
  PROVE  OneDevice(d) /\ Kept(WorldOf(d), hw[d], hw'[d])
<1> DEFINE step == Head(todo[d])
           W == WorldOf(d)
           s == DeviceState(d)
           r == [lines |-> hw'[d], warned |-> d \in blamed]
<1>1. d \in Members /\ KindOf[d] \in Kinds /\ todo[d] # <<>>
  BY UnderWay
<1>2. PICK K : /\ SoundFor(d, K) /\ GoesOn(W, K, todo[d], s)
               /\ Breaks(W, K, States(W), todo[d], s)
  BY UnderWay
<1>3. r \in Thrown(W, s, step)
  BY <1>1, ThrownState
<1>4. Kept(W, hw[d], hw'[d])
  <2>1. CASE hw' = hw
    BY <2>1 DEF Kept
  <2>2. CASE step.do = "write" /\ hw' # hw
    <3>1. Goes(step, s)
      BY <2>2 DEF Goes
    <3>2. Kept(W, s.lines, After(W, s, step).lines)
      BY <1>2, <3>1 DEF GoesOn
    <3>3. hw'[d] = Effect(hw[d], step, W.plls)
      BY <1>1, <2>2, WorldFacts DEF IInv, Written
    <3>4. After(W, s, step).lines = Effect(hw[d], step, W.plls) /\ s.lines = hw[d]
      BY <2>2 DEF After, Changes, DeviceState
    <3> QED
      BY <3>2, <3>3, <3>4
  <2> QED
    BY <2>1, <2>2
<1>5. \A e \in Devices \ {d} : hw'[e] = hw[e]
  BY DEF IInv
<1> HIDE DEF step, r
<1>6. CASE IsCaught(todo[d])
  <2>1. <<AfterThrow(todo[d]), r>> \in K
    BY <1>2, <1>3, <1>6 DEF Breaks, step
  <2>2. /\ todo' = [todo EXCEPT ![d] = AfterThrow(todo[d])] /\ blamed' = blamed
        /\ result'[d] \in {"running", "ok"}
        /\ \A e \in Devices \ {d} : result'[e] = result[e] /\ todo'[e] = todo[e]
    BY <1>6 DEF Throws, Continue, IInv, TypeOK
  <2>3. todo'[d] = AfterThrow(todo[d]) /\ DeviceState(d)' = r
    BY <2>2 DEF IInv, DeviceState, r
  <2>4. Aims(d)' /\ DeviceState(d)' \in States(W)
    BY <1>2, <2>1, <2>3, StillAims
  <2>5. \A e \in Devices \ {d} : Untouched(e)
    BY <1>5, <2>2 DEF Untouched
  <2> QED
    BY <1>1, <1>4, <2>2, <2>4, <2>5 DEF OneDevice
<1>7. CASE ~IsCaught(todo[d])
  <2>1. r \in States(W)
    BY <1>2, <1>3, <1>7 DEF Breaks, step
  <2>2. /\ result'[d] = "failed" /\ blamed' = blamed \cup {d}
        /\ \A e \in Devices \ {d} : result'[e] = result[e] /\ todo'[e] = todo[e]
    BY <1>7 DEF Throws, IInv, TypeOK
  <2>3. DeviceState(d)' = [lines |-> hw'[d], warned |-> TRUE]
    <3>1. (d \in blamed') = TRUE
      BY <2>2
    <3> QED
      BY <3>1 DEF DeviceState
  <2>4. DeviceState(d)' \in States(W)
    <3>1. KindOf[d] \in Kinds /\ W.ties = {} /\ W.warnings = BOOLEAN
      BY <1>1, WorldFacts DEF IInv
    <3> QED
      BY <2>1, <2>3, <3>1 DEF States, Tied, r
  <2>5. \A e \in Devices \ {d} : Untouched(e)
    BY <1>5, <2>2 DEF Untouched
  <2> QED
    BY <1>4, <2>2, <2>4, <2>5 DEF OneDevice
<1> QED
  BY <1>6, <1>7

LEMMA FaultKeeps ==
  ASSUME IInv, PromiseInv, NEW d \in Devices, Fault(d) \/ RaiseStep(d)
  PROVE  OneDevice(d) /\ Kept(WorldOf(d), hw[d], hw'[d])
<1>1. /\ result[d] = "running" /\ Throws(d) /\ UNCHANGED <<op, left, boards>>
      /\ Head(todo[d]).do \in Throwing
      /\ \/ hw' = hw
         \/ Head(todo[d]).do = "write" /\ hw' = [hw EXCEPT ![d] = Written(d, Head(todo[d]))]
  BY DEF Fault, RaiseStep, setup, Throwing
<1> QED
  BY <1>1, ThrowKeeps

LEMMA LockKeeps ==
  ASSUME IInv, PromiseInv, NEW d \in Devices, Lock(d)
  PROVE  OneDevice(d)
<1> DEFINE W == WorldOf(d)
           s == DeviceState(d)
<1>1. /\ KindOf[d] = "FEB" /\ hw[d]["pllReset"] = "inactive"
      /\ hw' = [hw EXCEPT ![d]["pllLocked"] = "yes"]
      /\ UNCHANGED <<op, left, result, todo, blamed, boards>>
  BY DEF Lock, setup
<1>2. CanLock(W, s) /\ World(W)
  <2>1. KindOf[d] \in Kinds
    BY <1>1 DEF Kinds
  <2>2. W.plls = TRUE /\ World(W)
    BY <1>1, <2>1, WorldFacts
  <2> QED
    BY <1>1, <2>2 DEF CanLock, DeviceState
<1>3. hw'[d] = [hw[d] EXCEPT !["pllLocked"] = "yes"] /\ \A e \in Devices \ {d} : hw'[e] = hw[e]
  BY <1>1 DEF IInv
<1>4. DeviceState(d)' = Locked(s)
  BY <1>1, <1>3 DEF DeviceState, Locked
<1>5. d \in Members => DeviceState(d)' \in States(W)
  BY <1>2, <1>4, LockStays DEF PromiseInv
<1>6. Aims(d) => Aims(d)'
  <2> SUFFICES ASSUME NEW K, SoundFor(d, K), <<todo[d], s>> \in K
               PROVE  Aims(d)'
    BY DEF Aims, SoundFor
  <2>1. SoundAt(W, K, Aim(d), States(W), todo[d], s)
    BY InSound DEF SoundFor
  <2>2. <<todo'[d], DeviceState(d)'>> \in K
    BY <1>1, <1>2, <1>4, <2>1 DEF SoundAt
  <2> QED
    BY <1>1, <2>2, StillAims
<1>7. \A e \in Devices \ {d} : Untouched(e)
  BY <1>1, <1>3 DEF Untouched
<1> QED
  BY <1>1, <1>5, <1>6, <1>7 DEF OneDevice, PromiseInv

LEMMA InitPromises == Init => PromiseInv
<1> SUFFICES ASSUME Init PROVE PromiseInv
  OBVIOUS
<1>1. IInv
  BY InvInit
<1>2. LeftOver
  BY DEF Init, LeftOver, Operations
<1>3. \A d \in Devices : result[d] = "none"
  BY DEF Init
<1>4. ASSUME NEW d \in Members PROVE DeviceState(d) \in States(WorldOf(d))
  <2>1. KindOf[d] \in Kinds /\ d \in Devices
    BY <1>1, KnownKind DEF Members
  <2>2. hw[d] = [line \in Lines[d] |-> "unknown"] /\ "unknown" \in Values
    BY <2>1 DEF Init, Values
  <2>3. /\ WorldOf(d).lines = Lines[d] /\ WorldOf(d).values = Values
        /\ \A line : <<line, "unknown">> \notin WorldOf(d).never
        /\ WorldOf(d).ties = {} /\ WorldOf(d).warnings = BOOLEAN
    BY <2>1, WorldFacts
  <2>4. hw[d] \in [WorldOf(d).lines -> WorldOf(d).values]
    BY <2>2, <2>3
  <2>5. \A line \in WorldOf(d).lines : <<line, hw[d][line]>> \notin WorldOf(d).never
    BY <2>2, <2>3
  <2> QED
    BY <2>3, <2>4, <2>5 DEF States, Tied, DeviceState
<1>5. op = "none" /\ \A d \in Devices : result[d] = "none"
  BY DEF Init
<1> QED
  BY <1>2, <1>3, <1>4, <1>5 DEF PromiseInv

\* An operation begins: nothing is promised of its devices yet.
LEMMA BeginKeepsPromises ==
  ASSUME IInv, PromiseInv, NEW o \in Operations, Begin(o)
  PROVE  PromiseInv'
<1>1. /\ op' = o /\ left' = Stages(o) /\ blamed' = {} /\ UNCHANGED <<hw, boards>>
      /\ \A d \in Devices : result'[d] = "none"
  BY DEF Begin, setup
<1>2. Len(Stages(o)) \in Nat \ {0} /\ (o = "STOP" => Len(Stages(o)) = 5)
  BY StageTable
<1>3. LeftOver'
  <2>1. 0 \in 0..Len(Stages(o)) /\ Len(left') = Len(Stages(o)) - 0
    BY <1>1, <1>2
  <2>2. \A i \in 1..Len(left') : left'[i] = Stages(o)[0 + i]
    BY <1>1, <1>2
  <2> QED
    BY <1>1, <2>1, <2>2 DEF LeftOver
<1>4. Members' = Members
  BY <1>1 DEF Members
<1>5. ASSUME NEW d \in Members' PROVE DeviceState(d)' \in States(WorldOf(d))
  <2>1. DeviceState(d) \in States(WorldOf(d))
    BY <1>4 DEF PromiseInv
  <2>2. DeviceState(d)' = [lines |-> hw[d], warned |-> FALSE]
    <3>1. (d \in blamed') = FALSE
      BY <1>1
    <3> QED
      BY <1>1, <3>1 DEF DeviceState
  <2>3. WorldOf(d).ties = {} /\ WorldOf(d).warnings = BOOLEAN
    BY <1>1, <1>4, KnownKind, WorldFacts DEF Members
  <2> QED
    BY <2>1, <2>2, <2>3 DEF States, Tied, DeviceState
<1>6. ~(op' = "STOP" /\ Len(left') <= 3)
  <2>1. CASE o = "STOP"
    <3>1. Len(left') = 5
      BY <1>1, <1>2, <2>1
    <3> QED
      BY <3>1
  <2>2. CASE o # "STOP"
    BY <1>1, <2>2
  <2> QED
    BY <2>1, <2>2
<1> QED
  BY <1>1, <1>3, <1>5, <1>6 DEF PromiseInv

LEMMA CollectKeepsPromises ==
  ASSUME IInv, PromiseInv, Collect
  PROVE  PromiseInv'
<1>1. UNCHANGED <<op, left, todo, blamed, hw, boards>>
  BY DEF Collect, setup
<1>2. \A d \in Devices : result'[d] = result[d] \/ (result[d] = "waiting" /\ result'[d] = "running")
  <2>1. result \in [Devices -> Results]
    BY DEF IInv, TypeOK
  <2>2. \/ result' = result
        \/ \E e : result[e] = "waiting" /\ result' = [result EXCEPT ![e] = "running"]
    BY DEF Collect
  <2> QED
    BY <2>1, <2>2
<1>3. \A d \in Devices : Aims(d)' <=> Aims(d)
  BY <1>1 DEF Aims, Aim, DeviceState
<1>4. \A d : DeviceState(d)' = DeviceState(d)
  BY <1>1 DEF DeviceState
<1>5. LeftOver' /\ Members' = Members
  BY <1>1 DEF PromiseInv, LeftOver, Members
<1>6. \A d \in Devices : /\ result'[d] # "none" <=> result[d] # "none"
                         /\ result'[d] = "failed" => result[d] = "failed"
                         /\ result'[d] \in {"waiting", "running", "ok"} =>
                              result[d] \in {"waiting", "running", "ok"}
  BY <1>2
<1>7. boards["MMTP"] \in Seq(Devices) /\ Range(boards["MMTP"]) \subseteq Devices
  BY BoardDevices DEF Kinds
<1>8. /\ \A d \in Devices : result'[d] # "none" =>
           d \in Members' /\ op' \in Operations /\ Involved(op', KindOf[d])
      /\ \A d \in Devices : result'[d] = "failed" => d \in blamed'
      /\ op' = "STOP" /\ Len(left') <= 3 => \A d \in Range(boards'["MMTP"]) : result'[d] # "none"
  BY <1>1, <1>5, <1>6, <1>7 DEF PromiseInv
<1>9. \A d \in Members' : DeviceState(d)' \in States(WorldOf(d))
  BY <1>4, <1>5 DEF PromiseInv
<1>10. \A d \in Devices : result'[d] \in {"waiting", "running", "ok"} => Aims(d)'
  BY <1>3, <1>6 DEF PromiseInv
<1> QED
  BY <1>5, <1>8, <1>9, <1>10 DEF PromiseInv

\* The stage that begins.
LEMMA NextStage ==
  ASSUME IInv, PromiseInv, BeginStage,
         NEW kind, kind = Head(left)[1], NEW func, func = Head(left)[2]
  PROVE  /\ op \in Operations /\ op' = op /\ Len(left) \in Nat /\ Len(left') = Len(left) - 1
         /\ StageFits(op, kind, func, Len(left')) /\ Involved(op, kind)
         /\ LeftOver'
         /\ UNCHANGED <<blamed, hw, boards>>
         /\ batch' = boards[kind] /\ Range(batch') \subseteq Devices
         /\ \A d \in Devices :
              /\ todo[d] = <<>> /\ result[d] \in {"none", "ok", "failed"}
              /\ d \in Range(batch') => todo'[d] = Procedure(d, func)
              /\ d \notin Range(batch') => todo'[d] = todo[d]
<1>1. /\ batch = <<>> /\ left # <<>> /\ left' = Tail(left) /\ batch' = boards[kind]
      /\ UNCHANGED <<op, blamed, hw, boards>>
      /\ \A d \in Devices :
           todo'[d] = IF d \in Range(boards[kind]) THEN Procedure(d, func) ELSE todo[d]
  BY DEF BeginStage, setup
<1>2. left \in Seq(Kinds \X Procedures)
  BY DEF IInv, TypeOK
<1>3. /\ Len(left) \in Nat \ {0} /\ Len(left') = Len(left) - 1 /\ Head(left) = left[1]
      /\ \A i \in 1..Len(left) - 1 : left'[i] = left[i + 1]
  BY <1>1, <1>2, HeadTailProperties, EmptySeq, LenProperties
<1>4. op \in Operations
  BY <1>1 DEF PromiseInv, LeftOver
<1> DEFINE N == Len(Stages(op))
<1>5. N \in Nat \ {0}
  BY <1>4, StageTable
<1>6. PICK n \in 0..N : Len(left) = N - n /\ \A i \in 1..Len(left) : left[i] = Stages(op)[n + i]
  BY <1>4 DEF PromiseInv, LeftOver
<1> HIDE DEF N
<1>7. n + 1 \in 1..N /\ N - (n + 1) = Len(left') /\ Head(left) = Stages(op)[n + 1]
  BY <1>3, <1>5, <1>6
<1>8. StageFits(op, kind, func, Len(left')) /\ Involved(op, kind)
  <2>1. StageFits(op, Stages(op)[n + 1][1], Stages(op)[n + 1][2], N - (n + 1))
    BY <1>4, <1>7, StageTable DEF N
  <2> QED
    BY <1>7, <2>1 DEF Involved, N
<1>9. LeftOver'
  <2>1. n + 1 \in 0..N /\ Len(left') = N - (n + 1)
    BY <1>5, <1>7
  <2>2. \A i \in 1..Len(left') : left'[i] = Stages(op)[(n + 1) + i]
    <3> SUFFICES ASSUME NEW i \in 1..Len(left') PROVE left'[i] = Stages(op)[(n + 1) + i]
      OBVIOUS
    <3>1. i + 1 \in 1..Len(left) /\ n + (i + 1) = (n + 1) + i /\ i \in 1..Len(left) - 1
      BY <1>3, <1>6
    <3> QED
      BY <1>3, <1>6, <3>1
  <2> QED
    BY <1>1, <1>4, <2>1, <2>2 DEF LeftOver, N
<1>10. Range(boards[kind]) \subseteq Devices
  BY <1>8, BoardDevices DEF StageFits
<1> QED
  BY <1>1, <1>3, <1>4, <1>8, <1>9, <1>10, NothingAwaited

\* A device of the stage is in a state its procedure may begin in.
LEMMA MayStart ==
  ASSUME IInv, PromiseInv, BeginStage, NEW kind, kind = Head(left)[1],
         NEW func, func = Head(left)[2], NEW d \in Range(boards[kind])
  PROVE  d \in Members /\ KindOf[d] = kind /\ DeviceState(d) \in At(WorldOf(d), Start(func))
<1>1. /\ op \in Operations /\ StageFits(op, kind, func, Len(left'))
      /\ Len(left) \in Nat /\ Len(left') = Len(left) - 1 /\ d \in Devices
      /\ todo[d] = <<>> /\ result[d] \in {"none", "ok", "failed"}
  BY NextStage
<1>2. d \in Members /\ kind \in Kinds
  BY <1>1 DEF Members, StageFits
<1>3. KindOf[d] = kind
  BY <1>1, <1>2, KindOfMember DEF IInv, TypeOK
<1>4. DeviceState(d) \in States(WorldOf(d))
  BY <1>2 DEF PromiseInv
<1>5. CASE func # "toggleIdleStateHigh"
  BY <1>2, <1>3, <1>4, <1>5 DEF At, Start
<1>6. CASE func = "toggleIdleStateHigh"
  <2>1. op = "STOP" /\ Len(left) = 2 /\ kind = "MMTP"
    BY <1>1, <1>6 DEF StageFits
  <2>2. result[d] # "none"
    BY <2>1 DEF PromiseInv
  <2>3. WorldOf(d).forgives = TRUE
    BY <1>1, <1>2, <1>3, <2>1, WorldFacts DEF MmtpWorld, Forgiving
  <2>4. CASE result[d] = "failed"
    <3>1. DeviceState(d).warned = TRUE
      <4>1. (d \in blamed) = TRUE
        BY <1>1, <2>4 DEF PromiseInv
      <4> QED
        BY <4>1 DEF DeviceState
    <3> QED
      BY <1>2, <1>3, <1>4, <2>3, <3>1 DEF At
  <2>5. CASE result[d] = "ok"
    <3>1. PICK K : SoundFor(d, K) /\ <<todo[d], DeviceState(d)>> \in K
      BY <1>1, <2>5 DEF PromiseInv, Aims, SoundFor
    <3>2. SoundAt(WorldOf(d), K, Aim(d), States(WorldOf(d)), todo[d], DeviceState(d))
      BY <3>1, InSound DEF SoundFor
    <3>3. DeviceState(d) \in Aim(d)
      BY <1>1, <3>2 DEF SoundAt
    <3>4. Func(op, KindOf[d], Len(left)) = "disableChannelRates"
      BY <1>3, <2>1 DEF Func
    <3>5. Goals(d, "disableChannelRates") = {Start(func)}
      BY <1>6 DEF Goals, IsScan, Goal, Start
    <3>6. Aim(d) = At(WorldOf(d), Start(func))
      BY <3>4, <3>5 DEF Aim, AtOne
    <3> QED
      BY <1>2, <1>3, <3>3, <3>6
  <2> QED
    BY <1>1, <2>2, <2>4, <2>5
<1> QED
  BY <1>5, <1>6

LEMMA BeginStageKeepsPromises ==
  ASSUME IInv, PromiseInv, BeginStage
  PROVE  PromiseInv'
<1> DEFINE kind == Head(left)[1]
           func == Head(left)[2]
<1>1. /\ op \in Operations /\ op' = op /\ Len(left) \in Nat /\ Len(left') = Len(left) - 1
      /\ StageFits(op, kind, func, Len(left')) /\ Involved(op, kind)
      /\ LeftOver'
      /\ UNCHANGED <<blamed, hw, boards>>
      /\ batch' = boards[kind] /\ Range(batch') \subseteq Devices
      /\ \A d \in Devices :
           /\ todo[d] = <<>> /\ result[d] \in {"none", "ok", "failed"}
           /\ d \in Range(batch') => todo'[d] = Procedure(d, func)
           /\ d \notin Range(batch') => todo'[d] = todo[d]
  BY NextStage
<1>2. \A d \in Devices :
        /\ d \in Range(batch') => result'[d] \in {"waiting", "running", "ok"}
        /\ d \notin Range(batch') => result'[d] = result[d]
  BY StageBegins
<1>3. \A d \in Range(batch') :
        d \in Members /\ KindOf[d] = kind /\ DeviceState(d) \in At(WorldOf(d), Start(func))
  BY <1>1, MayStart
<1> HIDE DEF kind, func
<1>4. Members' = Members /\ \A d \in Devices : DeviceState(d)' = DeviceState(d)
  BY <1>1 DEF Members, DeviceState
<1>5. ASSUME NEW d \in Devices, result'[d] # "none"
      PROVE  d \in Members' /\ op' \in Operations /\ Involved(op', KindOf[d])
  BY <1>1, <1>2, <1>3, <1>4, <1>5 DEF PromiseInv
<1>6. ASSUME NEW d \in Devices, result'[d] \in {"waiting", "running", "ok"}
      PROVE  Aims(d)'
  <2>1. CASE d \in Range(batch')
    <3>1. Triple(WorldOf(d), At(WorldOf(d), Start(func)), Procedure(d, func),
                 AtOne(WorldOf(d), Goals(d, func)), States(WorldOf(d)))
      BY <1>1, <1>3, <2>1, ProcedureEnds
    <3>2. Func(op', KindOf[d], Len(left')) = func
      BY <1>1, <1>3, <2>1 DEF StageFits
    <3>3. Aim(d)' = AtOne(WorldOf(d), Goals(d, func))
      BY <3>2 DEF Aim
    <3>4. \E K : /\ Sound(WorldOf(d), K, AtOne(WorldOf(d), Goals(d, func)), States(WorldOf(d)))
                 /\ <<Procedure(d, func), DeviceState(d)>> \in K
      BY <1>3, <2>1, <3>1 DEF Triple
    <3> QED
      BY <1>1, <1>4, <2>1, <3>3, <3>4 DEF Aims
  <2>2. CASE d \notin Range(batch')
    <3>1. result[d] = "ok" /\ Aims(d) /\ d \in Members
      BY <1>1, <1>2, <1>6, <2>2 DEF PromiseInv
    <3>2. KindOf[d] # kind
      <4>1. PICK k \in Kinds : d \in Range(boards[k])
        BY <3>1 DEF Members
      <4>2. KindOf[d] = k
        BY <4>1, KindOfMember DEF IInv, TypeOK
      <4> QED
        BY <1>1, <2>2, <4>1, <4>2
    <3>3. Func(op', KindOf[d], Len(left')) = Func(op, KindOf[d], Len(left))
      BY <1>1, <3>2 DEF StageFits
    <3>4. Aim(d)' = Aim(d)
      BY <3>3 DEF Aim
    <3> QED
      BY <1>1, <1>4, <2>2, <3>1, <3>4 DEF Aims
  <2> QED
    BY <2>1, <2>2
<1>7. op' = "STOP" /\ Len(left') <= 3 => \A d \in Range(boards'["MMTP"]) : result'[d] # "none"
  <2> SUFFICES ASSUME op = "STOP", Len(left') <= 3, NEW d \in Range(boards["MMTP"])
               PROVE  result'[d] # "none"
    BY <1>1
  <2>1. d \in Devices
    BY BoardDevices DEF Kinds
  <2>2. CASE Len(left') = 3
    <3>1. kind = "MMTP"
      BY <1>1, <2>2 DEF StageFits
    <3> QED
      BY <1>1, <1>2, <2>1, <3>1
  <2>3. CASE Len(left') # 3
    <3>1. Len(left) <= 3
      BY <1>1, <2>3
    <3>2. result[d] # "none"
      BY <3>1 DEF PromiseInv
    <3> QED
      BY <1>2, <2>1, <3>2
  <2> QED
    BY <2>2, <2>3
<1>8. \A d \in Members' : DeviceState(d)' \in States(WorldOf(d))
  BY <1>4 DEF PromiseInv, Members
<1>9. \A d \in Devices : result'[d] = "failed" => d \in blamed'
  BY <1>1, <1>2 DEF PromiseInv
<1> QED
  BY <1>1, <1>5, <1>6, <1>7, <1>8, <1>9 DEF PromiseInv

LEMMA PromiseStep ==
  ASSUME IInv, PromiseInv, [Next]_vars
  PROVE  PromiseInv'
<1>1. ASSUME NEW o \in Operations, Begin(o)
      PROVE  PromiseInv'
  BY <1>1, BeginKeepsPromises
<1>2. CASE BeginStage
  BY <1>2, BeginStageKeepsPromises
<1>3. CASE Collect
  BY <1>3, CollectKeepsPromises
<1>4. ASSUME NEW d \in Devices, Step(d) \/ Fault(d) \/ RaiseStep(d) \/ Lock(d)
      PROVE  PromiseInv'
  BY <1>4, StepKeeps, FaultKeeps, LockKeeps, OneDeviceKeepsPromises
<1>5. CASE UNCHANGED vars
  <2>1. UNCHANGED <<op, left, result, todo, blamed, hw, boards>>
    BY <1>5 DEF vars, setup
  <2>2. \A d \in Devices : (Aims(d)' <=> Aims(d)) /\ DeviceState(d)' = DeviceState(d)
    BY <2>1 DEF Aims, Aim, DeviceState
  <2>3. LeftOver' /\ Members' = Members
    BY <2>1 DEF PromiseInv, LeftOver, Members
  <2>4. \A d \in Members' : DeviceState(d)' \in States(WorldOf(d))
    BY <2>2, <2>3 DEF PromiseInv, Members
  <2> QED
    BY <2>1, <2>2, <2>3, <2>4 DEF PromiseInv
<1> QED
  BY <1>1, <1>2, <1>3, <1>4, <1>5 DEF Next

-----------------------------------------------------------------------------
(* What the promises are worth when an operation has ended.                *)

\* The procedure that was the last one for a device has done its work.
LEMMA GoalReached ==
  ASSUME IInv, PromiseInv, ~Busy, NEW d \in Devices, result[d] # "none", d \notin blamed
  PROVE  /\ d \in Members /\ KindOf[d] \in Kinds /\ op \in Operations /\ Involved(op, KindOf[d])
         /\ \E G \in Goals(d, Func(op, KindOf[d], 0)) : Holds(hw[d], G)
         /\ DeviceState(d) \in States(WorldOf(d))
<1>1. batch = <<>> /\ left = <<>> /\ Len(left) = 0
  BY DEF Busy
<1>2. d \in Members /\ op \in Operations /\ Involved(op, KindOf[d]) /\ KindOf[d] \in Kinds
  BY KnownKind DEF PromiseInv
<1>3. todo[d] = <<>> /\ result[d] = "ok"
  BY <1>1, NothingAwaited DEF PromiseInv
<1>4. PICK K : SoundFor(d, K) /\ <<todo[d], DeviceState(d)>> \in K
  BY <1>3 DEF PromiseInv, Aims, SoundFor
<1>5. SoundAt(WorldOf(d), K, Aim(d), States(WorldOf(d)), todo[d], DeviceState(d))
  BY <1>4, InSound DEF SoundFor
<1>6. DeviceState(d) \in Aim(d)
  BY <1>3, <1>5 DEF SoundAt
<1>7. PICK G \in Goals(d, Func(op, KindOf[d], 0)) : DeviceState(d) \in At(WorldOf(d), G)
  BY <1>1, <1>6 DEF Aim, AtOne
<1>8. ~DeviceState(d).warned /\ DeviceState(d).lines = hw[d]
  <2>1. (d \in blamed) = FALSE
    OBVIOUS
  <2> QED
    BY <2>1 DEF DeviceState
<1> HIDE DEF DeviceState
<1>9. Holds(DeviceState(d).lines, G)
      /\ DeviceState(d) \in States(WorldOf(d))
  BY <1>7, <1>8, AtHolds
<1> QED
  BY <1>2, <1>7, <1>8, <1>9

\* The kinds of devices an operation works on.
LEMMA InvolvedKinds ==
  ASSUME NEW o \in Operations, NEW k, Involved(o, k)
  PROVE  /\ k \in Kinds
         /\ o = "START" => k = "MMTP"
         /\ o = "STOP" => k \in {"FEB", "MMTP", "PadTrigger", "STGCTP"}
         /\ o = "ENABLE_VMM" => k = "FEB"
         /\ o = "RESET_STGCTP" => k = "STGCTP"
<1>1. PICK i \in 1..Len(Stages(o)) : Stages(o)[i][1] = k
  BY DEF Involved
<1>2. StageFits(o, k, Stages(o)[i][2], Len(Stages(o)) - i)
  BY <1>1, StageTable
<1>3. k \in Kinds /\ Stages(o)[i][2] = Func(o, k, Len(Stages(o)) - i)
  BY <1>2 DEF StageFits
<1>4. CASE o \in {"START", "ENABLE_VMM", "RESET_STGCTP"}
  BY <1>2, <1>4 DEF StageFits, Func
<1>5. CASE o = "CONFIGURE"
  BY <1>3, <1>5
<1>6. CASE o = "STOP"
  <2>1. /\ Stages(o) = <<<<"FEB", "disableVmmCaptureInputs">>, <<"MMTP", "disableChannelRates">>,
                       <<"PadTrigger", "toggleIdleState">>, <<"MMTP", "toggleIdleStateHigh">>,
                       <<"STGCTP", "doReset">>>>
    BY <1>6 DEF Stages
  <2>2. i \in 1..5
    BY <1>6, StageTable
  <2>3. k \in {"FEB", "MMTP", "PadTrigger", "STGCTP"}
    BY <1>1, <2>1, <2>2
  <2> QED
    BY <1>6, <2>3, <1>3
<1> QED
  BY <1>4, <1>5, <1>6 DEF Operations

LEMMA AchievedAtEnd ==
  ASSUME IInv, PromiseInv, ~Busy, NEW d \in Devices, result[d] # "none", d \notin blamed
  PROVE  Achieved(op, d)
<1> DEFINE k == KindOf[d]
           s == Settings[d]
           func == Func(op, k, 0)
           g == Goal(d, func)
           h == hw[d]
<1>1. d \in Members /\ k \in Kinds /\ op \in Operations /\ Involved(op, k)
      /\ DeviceState(d) \in States(WorldOf(d))
      /\ \E G \in Goals(d, func) : Holds(h, G)
  BY GoalReached
<1>2. (op = "CONFIGURE" /\ k = "PadTrigger") \/ Holds(h, g)
  <2>1. func = "writeConfiguration" => op = "CONFIGURE"
    BY <1>1, InvolvedKinds DEF Func, Operations
  <2> QED
    BY <1>1, <2>1 DEF Goals, IsScan
<1>3. CASE op = "CONFIGURE"
  <2>1. func = "writeConfiguration" /\ g = ConfigurationDone(d)
    BY <1>3 DEF Func, Goal
  <2>2. k # "PadTrigger" => Holds(h, ConfigurationDone(d))
    BY <1>2, <2>1
  <2>3. CASE k = "FEB"
    <3>1. Holds(h, FebDone(s \cup Options))
      BY <2>2, <2>3 DEF ConfigurationDone
    <3>2. /\ FebReady(h, s \cup Options)
          /\ "disableCaptures" \in s \cup Options => h["captures"] = "off"
      BY <3>1, FebIsReady
    <3> QED
      BY <1>3, <2>3, <3>2 DEF Achieved
  <2>4. CASE k = "ADDC"
    BY <1>3, <2>2, <2>4, AddcIsReady DEF ConfigurationDone, Achieved
  <2>5. CASE k = "MMTP"
    BY <1>3, <2>2, <2>5, MmtpIsReady DEF ConfigurationDone, Achieved
  <2>6. CASE k = "Router"
    BY <1>3, <2>2, <2>6, RouterIsReady DEF ConfigurationDone, Achieved
  <2>7. CASE k = "PadTrigger"
    <3>1. DeviceState(d) \in States(PadWorld(s)) /\ DeviceState(d).lines = h
      BY <1>1, <2>7 DEF WorldOf, DeviceState
    <3>2. PICK found \in DelaysFound(s) : Holds(DeviceState(d).lines, PadDone(s, found))
      BY <1>1, <2>1, <2>7, <3>1 DEF Goals, IsScan, PadGoals
    <3> HIDE DEF h
    <3>3. PadTriggerReady(h, s)
      BY <3>1, <3>2, PadIsReady
    <3> QED
      BY <1>3, <2>7, <3>3 DEF Achieved, h
  <2>8. CASE k = "STGCTP"
    BY <1>3, <2>2, <2>8, StgctpIsReady DEF ConfigurationDone, Achieved
  <2>9. CASE k = "TPCarrier"
    BY <1>3, <2>2, <2>9, HoldsFact DEF ConfigurationDone, Achieved, CarrierDone, CarrierReady
  <2> QED
    BY <1>1, <2>3, <2>4, <2>5, <2>6, <2>7, <2>8, <2>9 DEF Kinds
<1>4. CASE op = "START"
  <2>1. g = {<<"channelRates", Rates(d)>>}
    BY <1>4 DEF Func, Goal
  <2>2. h["channelRates"] = Rates(d)
    BY <1>2, <1>4, <2>1, HoldsFact
  <2> QED
    BY <1>4, <2>2 DEF Achieved, Rates
<1>5. CASE op = "STOP"
  <2>1. k \in {"FEB", "MMTP", "PadTrigger", "STGCTP"}
    BY <1>1, <1>5, InvolvedKinds
  <2>2. CASE k = "FEB"
    <3>1. g = {<<"captures", "off">>}
      BY <1>5, <2>2 DEF Func, Goal
    <3>2. h["captures"] = "off"
      BY <1>2, <1>5, <3>1, HoldsFact
    <3> QED
      BY <1>5, <2>2, <3>2 DEF Achieved
  <2>3. CASE k = "MMTP"
    <3>1. g = {<<"channelRates", "off">>, <<"latTxIdle", "inactive">>}
      BY <1>5, <2>3 DEF Func, Goal
    <3>2. h["channelRates"] = "off" /\ h["latTxIdle"] = "inactive"
      BY <1>2, <1>5, <3>1, HoldsFact
    <3> QED
      BY <1>5, <2>3, <3>2 DEF Achieved
  <2>4. CASE k = "PadTrigger"
    <3>1. g = Asked(s, "toggle", {<<"idle", "off">>})
      BY <1>5, <2>4 DEF Func, Goal
    <3>2. "toggle" \in s => h["idle"] = "off"
      BY <1>2, <1>5, <3>1, HoldsFact DEF Asked
    <3> QED
      BY <1>5, <2>4, <3>2 DEF Achieved
  <2>5. CASE k = "STGCTP"
    <3>1. g = ResetDone(s)
      BY <1>5, <2>5 DEF Func, Goal
    <3>2. "doReset" \in s => h["rxReset"] = "inactive" /\ h["txReset"] = "inactive"
      BY <1>2, <1>5, <3>1, HoldsFact DEF ResetDone
    <3> QED
      BY <1>5, <2>5, <3>2 DEF Achieved
  <2> QED
    BY <2>1, <2>2, <2>3, <2>4, <2>5
<1>6. CASE op = "ENABLE_VMM"
  <2>1. g = {<<"captures", "configured">>}
    BY <1>6 DEF Func, Goal
  <2>2. h["captures"] = "configured"
    BY <1>2, <1>6, <2>1, HoldsFact
  <2> QED
    BY <1>6, <2>2 DEF Achieved
<1>7. CASE op = "RESET_STGCTP"
  <2>1. g = ResetDone(s)
    BY <1>7 DEF Func, Goal
  <2>2. "doReset" \in s => h["rxReset"] = "inactive" /\ h["txReset"] = "inactive"
    BY <1>2, <1>7, <2>1, HoldsFact DEF ResetDone
  <2> QED
    BY <1>7, <2>2 DEF Achieved
<1> QED
  BY <1>1, <1>3, <1>4, <1>5, <1>6, <1>7 DEF Operations

\* For any sector, any configuration of its devices and any faults: when an
\* operation has ended, every device it worked on is as the operation was to
\* leave it, or it was counted as failed or an issue was raised about it,
\* whatever an earlier failure had left behind.  A pad trigger that is to be
\* scanned only is to be left with the delays the scan has found, which without
\* its FPGA configured are those that an earlier scan may have left.
THEOREM SuccessAchieves == Spec => []SuccessMeansAchieved
<1>1. Init => IInv /\ PromiseInv
  BY InvInit, InitPromises
<1>2. IInv /\ PromiseInv /\ [Next]_vars => IInv' /\ PromiseInv'
  BY InvStep, PromiseStep
<1>3. IInv /\ PromiseInv => SuccessMeansAchieved
  BY AchievedAtEnd DEF SuccessMeansAchieved
<1> QED
  BY <1>1, <1>2, <1>3, PTL DEF Spec

-----------------------------------------------------------------------------
(* What a step may do to a device.                                         *)

Held(d) ==
  LET changes(line) == hw'[d][line] # hw[d][line]
  IN CASE KindOf[d] = "FEB" ->
            /\ changes("rocAnalog") => hw[d]["pllReset"] = "active"
            /\ changes("acquisition") =>
                 hw'[d]["acquisition"] \in {"off", "on"} \/ hw[d]["pllReset"] = "active"
            /\ changes("vmms") => hw[d]["acquisition"] = "off"
       [] KindOf[d] = "ADDC" -> \A i \in Arts :
            changes(<<i, "eports">>) => hw[d][<<i, "mask">>] = "all"
       [] OTHER -> TRUE

\* The guards of the logic are those of the property.
LEMMA KeptHolds ==
  ASSUME NEW d \in Devices, KindOf[d] \in Kinds, Kept(WorldOf(d), hw[d], hw'[d])
  PROVE  Held(d)
<1>1. CASE KindOf[d] = "FEB"
  <2> DEFINE roc == [line |-> "rocAnalog", by |-> "pllReset", at |-> "active", free |-> {}]
             acq == [line |-> "acquisition", by |-> "pllReset", at |-> "active",
                     free |-> {"off", "on"}]
             vmm == [line |-> "vmms", by |-> "acquisition", at |-> "off", free |-> {}]
  <2>1. roc \in WorldOf(d).guards /\ acq \in WorldOf(d).guards /\ vmm \in WorldOf(d).guards
    BY <1>1 DEF WorldOf, FebWorld
  <2>2. \A g \in WorldOf(d).guards :
          hw'[d][g.line] # hw[d][g.line] => hw'[d][g.line] \in g.free \/ hw[d][g.by] = g.at
    BY DEF Kept
  <2>3. /\ hw'[d]["rocAnalog"] # hw[d]["rocAnalog"] => hw[d]["pllReset"] = "active"
        /\ hw'[d]["acquisition"] # hw[d]["acquisition"] =>
             hw'[d]["acquisition"] \in {"off", "on"} \/ hw[d]["pllReset"] = "active"
        /\ hw'[d]["vmms"] # hw[d]["vmms"] => hw[d]["acquisition"] = "off"
    BY <2>1, <2>2
  <2> QED
    BY <1>1, <2>3 DEF Held
<1>2. CASE KindOf[d] = "ADDC"
  <2> SUFFICES ASSUME NEW i \in Arts, hw'[d][<<i, "eports">>] # hw[d][<<i, "eports">>]
               PROVE  hw[d][<<i, "mask">>] = "all"
    BY <1>2 DEF Held
  <2> DEFINE art == [line |-> <<i, "eports">>, by |-> <<i, "mask">>, at |-> "all", free |-> {}]
  <2>1. art \in WorldOf(d).guards
    BY <1>2 DEF WorldOf, AddcWorld, AddcGuards
  <2>2. hw'[d][art.line] # hw[d][art.line] =>
          hw'[d][art.line] \in art.free \/ hw[d][art.by] = art.at
    BY <2>1 DEF Kept
  <2> QED
    BY <2>2
<1>3. CASE KindOf[d] \notin {"FEB", "ADDC"}
  BY <1>3 DEF Held
<1> QED
  BY <1>1, <1>2, <1>3

LEMMA HeldStep ==
  ASSUME IInv, PromiseInv, [Next]_vars, NEW d \in Devices, hw'[d] # hw[d]
  PROVE  Held(d)
<1>1. ASSUME NEW o \in Operations, Begin(o) PROVE FALSE
  BY <1>1 DEF Begin
<1>2. CASE BeginStage \/ Collect
  BY <1>2 DEF BeginStage, Collect
<1>3. ASSUME NEW e \in Devices, Step(e) \/ Fault(e) \/ RaiseStep(e)
      PROVE  Held(d)
  <2>1. OneDevice(e) /\ Kept(WorldOf(e), hw[e], hw'[e]) /\ result[e] = "running"
    BY <1>3, StepKeeps, FaultKeeps DEF Step, Fault, RaiseStep
  <2>2. e = d
    BY <2>1 DEF OneDevice, Untouched
  <2>3. KindOf[d] \in Kinds
    BY <2>1, <2>2, UnderWay
  <2> QED
    BY <2>1, <2>2, <2>3, KeptHolds
<1>4. ASSUME NEW e \in Devices, Lock(e)
      PROVE  Held(d)
  <2>1. KindOf[e] = "FEB" /\ hw' = [hw EXCEPT ![e]["pllLocked"] = "yes"] /\ DOMAIN hw = Devices
    BY <1>4 DEF Lock, IInv
  <2>2. e = d /\ hw'[d] = [hw[d] EXCEPT !["pllLocked"] = "yes"]
    BY <2>1
  <2>3. /\ hw'[d]["rocAnalog"] = hw[d]["rocAnalog"] /\ hw'[d]["vmms"] = hw[d]["vmms"]
        /\ hw'[d]["acquisition"] = hw[d]["acquisition"]
    <3>1. DOMAIN hw[d] = FebLines
      BY <2>1, <2>2 DEF IInv, TypeOK, Lines
    <3> QED
      BY <2>2, <3>1 DEF FebLines
  <2> QED
    BY <2>1, <2>2, <2>3 DEF Held
<1>5. CASE UNCHANGED vars
  BY <1>5 DEF vars
<1> QED
  BY <1>1, <1>2, <1>3, <1>4, <1>5 DEF Next

\* For any sector, configuration and faults, and however the tasks of the
\* devices overlap: the analog registers of a ROC take their values only while
\* its PLLs are in reset, all but reg122vmmEnaInv, which VMM.cpp:36 and 62
\* switch off and on at any time; the registers of VMMs change only while their
\* acquisition is off, and the e-ports of an ART's GBTx only while its inputs
\* are masked.
THEOREM HeldCorrect == Spec => HeldWhileWritten
<1>1. Init => IInv /\ PromiseInv
  BY InvInit, InitPromises
<1>2. IInv /\ PromiseInv /\ [Next]_vars => IInv' /\ PromiseInv'
  BY InvStep, PromiseStep
<1>3. IInv /\ PromiseInv /\ [Next]_vars =>
        [\A d \in {e \in Devices : hw'[e] # hw[e]} :
           LET changes(line) == hw'[d][line] # hw[d][line]
           IN CASE KindOf[d] = "FEB" ->
                     /\ changes("rocAnalog") => hw[d]["pllReset"] = "active"
                     /\ changes("acquisition") =>
                          hw'[d]["acquisition"] \in {"off", "on"}
                            \/ hw[d]["pllReset"] = "active"
                     /\ changes("vmms") => hw[d]["acquisition"] = "off"
                [] KindOf[d] = "ADDC" -> \A i \in Arts :
                     changes(<<i, "eports">>) => hw[d][<<i, "mask">>] = "all"
                [] OTHER -> TRUE]_hw
  BY HeldStep DEF Held
<1> QED
  BY <1>1, <1>2, <1>3, PTL DEF Spec, HeldWhileWritten
=============================================================================
