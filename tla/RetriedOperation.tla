--------------------------- MODULE RetriedOperation ---------------------------
(***************************************************************************)
(* What the run control may rely on when it asks a sector controller for   *)
(* an operation that is retried (NSWSectorControllerRc::retryOpc): the     *)
(* operation is executed at most Limit times, it comes to an end, and it   *)
(* never ends with a failed last execution unless the operator was told    *)
(* that it is given up.  Verdicts are only those of the executions on the  *)
(* devices.                                                                *)
(***************************************************************************)
EXTENDS Naturals

CONSTANT Limit   \* the number of attempts

VARIABLES phase, verdict, told, attempts

vars == <<phase, verdict, told, attempts>>

TypeOK ==
  /\ phase \in {"idle", "running"}
  /\ verdict \in {"none", "ok", "failed"}
  /\ told \in BOOLEAN
  /\ attempts \in 0..Limit

Rest == phase = "idle" /\ verdict = "none" /\ told = FALSE /\ attempts = 0

Init == Rest

Begin == Rest /\ phase' = "running" /\ UNCHANGED <<verdict, told, attempts>>

\* An execution may give up itself.
Execute ==
  /\ phase = "running" /\ attempts < Limit
  /\ attempts' = attempts + 1
  /\ verdict' \in {"ok", "failed"}
  /\ told' \in {told, TRUE}
  /\ UNCHANGED phase

GiveUp ==
  /\ phase = "running" /\ ~told
  /\ told' = TRUE
  /\ UNCHANGED <<phase, verdict, attempts>>

End ==
  /\ phase = "running"
  /\ verdict = "ok" \/ (verdict = "failed" /\ told)
  /\ phase' = "idle" /\ verdict' = "none" /\ told' = FALSE /\ attempts' = 0

Next == Begin \/ Execute \/ GiveUp \/ End

\* The part of the promise that a finite prefix can break.
Safety == Init /\ [][Next]_vars

\* Every operation comes to an end.
Ends == phase = "running" ~> phase = "idle"

Spec == Safety /\ Ends
=============================================================================
