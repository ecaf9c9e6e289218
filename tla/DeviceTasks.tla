----------------------------- MODULE DeviceTasks -----------------------------
(***************************************************************************)
(* What DeviceManager::applyFunc promises to those who read its counters:  *)
(* an operation runs a task on each of a set of devices, looks at each     *)
(* task once, after it has ended, and counts those that failed.  The       *)
(* fraction of failed devices is failed / tried.                           *)
(***************************************************************************)
EXTENDS Naturals, FiniteSets

CONSTANT Devices

VARIABLES
  running,  \* devices whose task has not ended
  ended,    \* devices whose task has ended and was not looked at yet
  broken,   \* those of them whose task failed
  failed,   \* m_configurationErrorCounter
  tried     \* m_configurationTotalCounter
vars == <<running, ended, broken, failed, tried>>

TypeOK ==
  /\ running \subseteq Devices
  /\ ended \subseteq Devices \ running
  /\ broken \subseteq ended
  /\ failed \in Nat
  /\ tried \in Nat

Init ==
  running = {} /\ ended = {} /\ broken = {} /\ failed = 0 /\ tried = 0

\* The counters may only be reset while nothing is under way.
Reset ==
  /\ running = {} /\ ended = {}
  /\ failed' = 0 /\ tried' = 0
  /\ UNCHANGED <<running, ended, broken>>

Begin ==
  /\ running = {} /\ ended = {}
  /\ running' \in SUBSET Devices
  /\ ended' \in SUBSET (Devices \ running')   \* tasks with nothing to do
  /\ tried' = tried + Cardinality(running' \cup ended')
  /\ UNCHANGED <<broken, failed>>

End(d) ==
  /\ d \in running
  /\ running' = running \ {d}
  /\ ended' = ended \cup {d}
  /\ broken' \in {broken, broken \cup {d}}
  /\ UNCHANGED <<failed, tried>>

Judge(d) ==
  /\ d \in ended
  /\ ended' = ended \ {d}
  /\ broken' = broken \ {d}
  /\ failed' = IF d \in broken THEN failed + 1 ELSE failed
  /\ UNCHANGED <<running, tried>>

Next == Reset \/ Begin \/ \E d \in Devices : End(d) \/ Judge(d)

Spec == Init /\ [][Next]_vars

\* The fraction stays below one, whatever is still to come.
FractionBounded == failed + Cardinality(running \cup ended) <= tried
=============================================================================
