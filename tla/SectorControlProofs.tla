------------------------- MODULE SectorControlProofs -------------------------
(***************************************************************************)
(* The safety properties of SectorControl for every number of attempts,    *)
(* tries, queued commands and outages.                                     *)
(***************************************************************************)
EXTENDS SectorControl, FiniteSetTheorems, SequenceTheorems, TLAPS

\* Where an operation is, it belongs and has attempts left.
Positions ==
  /\ main.pc # "idle" => fsm \in From(main.op)
  /\ main.pc \in {"sent", "served", "check"} =>
       main.op \in ScaOps /\ main.counter < NumAttempts
  /\ main.pc \in {"recover", "sleep", "return"} =>
       main.op \in Retried /\ main.counter < NumAttempts
  /\ main.pc = "start" => main.op = "START"
  /\ main.pc = "monitor" => main.op \in {"START", "STOPROIB"}

\* Every STOP queued and every SCA_DISCONNECTED in the queue goes back to a
\* RECOVER_OPC_MESSAGE; there is at most one SCA_RECONNECTED before, between and
\* behind the latter.
Lost(queue) == {i \in 1..Len(queue) : queue[i] = "SCA_DISCONNECTED"}
Queues ==
  /\ stops + Cardinality(Lost(inbox)) <= messages
  /\ Len(inbox) <= 2 * messages + 1
  /\ Len(inbox) = 2 * messages + 1 => inbox[Len(inbox)] = "SCA_RECONNECTED"

\* Monitoring lasts from the end of START to the beginning of STOPROIB's end.
Monitored ==
  /\ monitoring \/ svc = "MONITOR" =>
       fsm = "RUNNING" \/ (main.pc = "done" /\ main.op = "START")
  /\ main.pc = "done" /\ main.op = "STOPROIB" => ~monitoring /\ svc # "MONITOR"

IInv == TypeOK /\ Positions /\ Queues /\ Monitored

-----------------------------------------------------------------------------
(* Queues as sets of positions.                                            *)

LEMMA LostFinite ==
  ASSUME NEW queue \in Seq(Notices)
  PROVE  IsFiniteSet(Lost(queue)) /\ Cardinality(Lost(queue)) \in Nat
<1>1. Len(queue) \in Nat /\ Lost(queue) \in SUBSET (1..Len(queue))
  BY DEF Lost
<1>2. IsFiniteSet(1..Len(queue))
  BY <1>1, FS_Interval
<1>3. IsFiniteSet(Lost(queue))
  BY <1>1, <1>2, FS_Subset
<1> QED
  BY <1>3, FS_CardinalityType

LEMMA LostAppend ==
  ASSUME NEW queue \in Seq(Notices), NEW notice \in Notices
  PROVE  Cardinality(Lost(Append(queue, notice))) =
           Cardinality(Lost(queue)) + IF notice = "SCA_DISCONNECTED" THEN 1 ELSE 0
<1> DEFINE n == Len(queue) + 1
<1>1. n \notin Lost(queue)
  BY DEF Lost
<1>2. CASE notice = "SCA_DISCONNECTED"
  <2>1. Lost(Append(queue, notice)) = Lost(queue) \cup {n}
    BY <1>2 DEF Lost
  <2> QED
    BY <1>1, <1>2, <2>1, LostFinite, FS_AddElement
<1>3. CASE notice # "SCA_DISCONNECTED"
  <2>1. Lost(Append(queue, notice)) = Lost(queue)
    BY <1>3 DEF Lost
  <2> QED
    BY <1>3, <2>1, LostFinite
<1> QED
  BY <1>2, <1>3

LEMMA LostTail ==
  ASSUME NEW queue \in Seq(Notices), queue # <<>>
  PROVE  Cardinality(Lost(queue)) =
           Cardinality(Lost(Tail(queue))) + IF Head(queue) = "SCA_DISCONNECTED" THEN 1 ELSE 0
<1> DEFINE rest  == Lost(queue) \ {1}
           shift == [i \in Lost(Tail(queue)) |-> i + 1]
<1>1. Tail(queue) \in Seq(Notices) /\ Len(Tail(queue)) = Len(queue) - 1
      /\ \A i \in 1..Len(queue) - 1 : Tail(queue)[i] = queue[i + 1]
      /\ Len(queue) \in Nat \ {0} /\ Head(queue) = queue[1]
  OBVIOUS
<1>2. shift \in Bijection(Lost(Tail(queue)), rest)
  <2>1. shift \in [Lost(Tail(queue)) -> rest]
    BY <1>1 DEF Lost
  <2>2. \A i, j \in Lost(Tail(queue)) : shift[i] = shift[j] => i = j
    BY <1>1 DEF Lost
  <2>3. \A k \in rest : k - 1 \in Lost(Tail(queue)) /\ shift[k - 1] = k
    BY <1>1 DEF Lost
  <2> HIDE DEF shift, rest
  <2>4. \A k \in rest : \E i \in Lost(Tail(queue)) : shift[i] = k
    BY <2>3
  <2> QED
    BY <2>1, <2>2, <2>4 DEF Bijection, Injection, Surjection, IsInjective
<1>3. Cardinality(Lost(Tail(queue))) = Cardinality(rest)
  BY <1>1, <1>2, LostFinite, FS_Bijection DEF ExistsBijection
<1>4. 1 \in Lost(queue) <=> Head(queue) = "SCA_DISCONNECTED"
  BY <1>1 DEF Lost
<1>5. Cardinality(rest) =
        IF 1 \in Lost(queue) THEN Cardinality(Lost(queue)) - 1 ELSE Cardinality(Lost(queue))
  BY LostFinite, FS_RemoveElement
<1> QED
  BY <1>3, <1>4, <1>5, LostFinite

-----------------------------------------------------------------------------
(* The initial state.                                                      *)

LEMMA InvInit == Init => IInv
<1> SUFFICES ASSUME Init PROVE IInv
  OBVIOUS
<1> USE SectorAssumption
<1>1. TypeOK
  <2>1. main \in [pc: MainPcs, op: Ops, counter: 0..NumAttempts, tries: 0..MaxTries]
    BY DEF Init, Idle, MainPcs, Ops, ScaOps, Retried
  <2>2. inbox \in Seq(Notices) /\ Len(inbox) <= MaxInbox
    BY DEF Init, MaxInbox
  <2>3. task \in [{"new", "old"} -> TaskPcs] /\ reopened \in [{"new", "old"} -> BOOLEAN]
    BY DEF Init, TaskPcs
  <2>4. failures \in Classes /\ reconnects \in 0..MaxReconnects /\ messages \in 0..MaxMessages
        /\ stops \in 0..MaxMessages /\ outages \in 0..MaxOutages
    BY DEF Init, Classes, None, Fail
  <2>5. svc \in ScaOps \cup {"idle", "RECONNECT_OPC", "MONITOR"} /\ svc \notin ScaOps
    BY DEF Init, ScaOps, Retried
  <2> QED
    BY <2>1, <2>2, <2>3, <2>4, <2>5 DEF Init, TypeOK, States
<1>2. Positions /\ Monitored
  BY DEF Init, Idle, Positions, Monitored
<1>3. Queues
  <2>1. Lost(inbox) = {}
    BY DEF Init, Lost
  <2>2. Cardinality(Lost(inbox)) = 0
    BY <2>1, FS_EmptySet
  <2>3. Len(inbox) = 0 /\ stops = 0 /\ messages = 0
    BY DEF Init
  <2> QED
    BY <2>2, <2>3 DEF Queues
<1> QED
  BY <1>1, <1>2, <1>3 DEF IInv

-----------------------------------------------------------------------------
(* The queues.                                                             *)

LEMMA QueuesStep ==
  ASSUME TypeOK, Queues, [Next]_vars
  PROVE  Queues'
<1> USE SectorAssumption
<1> DEFINE lost == Cardinality(Lost(inbox))
<1>1. /\ inbox \in Seq(Notices) /\ Len(inbox) \in Nat
      /\ messages \in Nat /\ stops \in Nat
      /\ lost \in Nat
  BY LostFinite DEF TypeOK
<1>2. /\ stops + lost <= messages
      /\ Len(inbox) <= 2 * messages + 1
      /\ Len(inbox) = 2 * messages + 1 => inbox[Len(inbox)] = "SCA_RECONNECTED"
  BY DEF Queues
<1>3. CASE UNCHANGED <<inbox, messages, stops>>
  BY <1>3 DEF Queues
<1>4. CASE ReconnectSucceeds
  \* One more SCA_RECONNECTED, but never two in a row.
  <2>1. UNCHANGED <<messages, stops>>
    BY <1>4 DEF ReconnectSucceeds, mon
  <2>2. CASE inbox' = inbox
    BY <2>1, <2>2 DEF Queues
  <2>3. CASE inbox' # inbox
    <3>1. /\ inbox' = Append(inbox, "SCA_RECONNECTED")
          /\ inbox = <<>> \/ inbox[Len(inbox)] # "SCA_RECONNECTED"
      BY <1>4, <2>3 DEF ReconnectSucceeds, Reconnected
    <3>2. Cardinality(Lost(inbox')) = lost
      BY <1>1, <3>1, LostAppend DEF Notices
    <3>3. Len(inbox') = Len(inbox) + 1 /\ inbox'[Len(inbox')] = "SCA_RECONNECTED"
      BY <1>1, <3>1
    <3>4. Len(inbox) <= 2 * messages
      BY <1>1, <1>2, <3>1
    <3> QED
      BY <1>1, <1>2, <2>1, <3>2, <3>3, <3>4 DEF Queues
  <2> QED
    BY <2>2, <2>3
<1>5. ASSUME NEW command \in Recovers, ExecuteRecover(command)
      PROVE  Queues'
  <2>1. messages' = messages + 1 /\ stops' = stops
    BY <1>5 DEF ExecuteRecover, mon
  <2>2. CASE inbox' = inbox
    BY <1>1, <1>2, <2>1, <2>2 DEF Queues
  <2>3. CASE inbox' = Append(inbox, "SCA_DISCONNECTED")
    <3>1. Cardinality(Lost(inbox')) = lost + 1
      BY <1>1, <2>3, LostAppend DEF Notices
    <3>2. Len(inbox') = Len(inbox) + 1
      BY <1>1, <2>3
    <3> QED
      BY <1>1, <1>2, <2>1, <3>1, <3>2 DEF Queues
  <2> QED
    BY <1>5, <2>2, <2>3 DEF ExecuteRecover
<1>6. CASE MonitoringStops
  <2>1. stops' = stops - 1 /\ UNCHANGED <<inbox, messages>>
    BY <1>6 DEF MonitoringStops
  <2> QED
    BY <1>1, <1>2, <2>1 DEF Queues
<1>7. ASSUME inbox # <<>>, inbox' = Tail(inbox), messages' = messages,
             stops' = stops \/ (stops' = stops + 1 /\ Head(inbox) = "SCA_DISCONNECTED")
      PROVE  Queues'
  <2>1. inbox' \in Seq(Notices) /\ Len(inbox') = Len(inbox) - 1
    BY <1>1, <1>7
  <2>2. Cardinality(Lost(inbox')) \in Nat
    BY <2>1, LostFinite
  <2>3. lost = Cardinality(Lost(Tail(inbox))) + IF Head(inbox) = "SCA_DISCONNECTED" THEN 1 ELSE 0
    BY <1>1, <1>7, LostTail
  <2>4. lost = Cardinality(Lost(inbox')) + IF Head(inbox) = "SCA_DISCONNECTED" THEN 1 ELSE 0
    BY <1>7, <2>3
  <2>5. stops' + Cardinality(Lost(inbox')) <= messages'
    BY <1>1, <1>2, <1>7, <2>2, <2>4
  <2>6. messages' = messages
    BY <1>7
  <2>7. Len(inbox') < 2 * messages' + 1
    BY <1>1, <1>2, <2>1, <2>6
  <2> QED
    BY <1>1, <2>1, <2>5, <2>6, <2>7 DEF Queues
<1>8. CASE Handle
  BY <1>7, <1>8 DEF Handle, HandleDisconnected, HandleReconnected, mon
<1>9. ASSUME NEW t \in {"new", "old"}, TaskSteps(t) \/ TaskTimesOut(t)
      PROVE  Queues'
  BY <1>3, <1>9 DEF TaskSteps, TaskTimesOut, TaskSends, TaskWakes, TaskFindsFlag, TaskReturns,
                    TaskUnchanged, mon
<1>10. CASE MainRetries \/ MainOther
  BY <1>3, <1>10 DEF MainRetries, MainOther, RetrySucceeds, RetryFails, RecoverSends, RecoverWakes,
     RecoverLeaves, RecoverReturns, StartWarns, StartMonitors, StopEnds, MonitoringCommand,
     EndOperation, MainUnchanged, mon
<1>11. CASE SvcFinishes
  BY <1>3, <1>4, <1>11 DEF SvcFinishes, FinishOperation, ReconnectFails, FinishMonitor, mon
<1> QED
  BY <1>3, <1>5, <1>6, <1>8, <1>9, <1>10, <1>11
     DEF Next, World, ServerStops, ServerStarts, DeviceStops, DeviceStarts, BeginOperation, Unconfigure, TakeOperation,
         TakeReconnect, TakeMonitor, vars, mon

-----------------------------------------------------------------------------
(* Types.                                                                  *)

\* Updates of the position of an operation stay within its type.
Main == [pc: MainPcs, op: Ops, counter: 0..NumAttempts, tries: 0..MaxTries]
LEMMA TriesUpdated ==
  ASSUME NEW m \in Main, NEW p \in MainPcs, NEW n \in 0..MaxTries
  PROVE  [m EXCEPT !.pc = p, !.tries = n] \in Main
BY DEF Main
LEMMA CounterUpdated ==
  ASSUME NEW m \in Main, NEW p \in MainPcs, NEW n \in 0..NumAttempts
  PROVE  [m EXCEPT !.counter = n, !.pc = p] \in Main
BY DEF Main

LEMMA TypeStep ==
  ASSUME TypeOK, Positions, Queues, [Next]_vars
  PROVE  TypeOK'
<1> DEFINE MainType == /\ main \in Main
                       /\ svc \in ScaOps \cup {"idle", "RECONNECT_OPC", "MONITOR"}
                       /\ svc \in ScaOps => main.pc = "served" /\ main.op = svc
           QueueType == /\ inbox \in Seq(Notices) /\ Len(inbox) <= MaxInbox
                        /\ messages \in 0..MaxMessages /\ stops \in 0..MaxMessages
           RestType == /\ fsm \in States
                       /\ reports \in SUBSET {"continuing", "recovering", "fatal",
                                               "retryLimit", "cannotRecover", "warning"}
                       /\ scaAvailable \in BOOLEAN /\ failures \in Classes
                       /\ reconnects \in 0..MaxReconnects
                       /\ available \in BOOLEAN
                       /\ task \in [{"new", "old"} -> TaskPcs]
                       /\ reopened \in [{"new", "old"} -> BOOLEAN]
                       /\ monitoring \in BOOLEAN
                       /\ serverUp \in BOOLEAN /\ scaAnswers \in BOOLEAN /\ outages \in 0..MaxOutages
<1>0. NumAttempts \in Nat /\ MaxTries \in Nat /\ MaxReconnects \in Nat /\ MaxOutages \in Nat
      /\ MaxMessages \in Nat /\ Commands \subseteq Ops
  BY SectorAssumption
<1> USE <1>0
<1>1. MainType /\ QueueType /\ RestType
  BY DEF TypeOK, Main
<1>2. MainType'
  <2> USE DEF MainPcs, Main
  <2>0. MainType
    BY <1>1
  <2> USE <2>0
  <2>1. CASE UNCHANGED <<main, svc>>
    BY <2>1
  <2>2. ASSUME NEW op \in Commands, BeginOperation(op)
        PROVE  MainType'
    <3>1. op \in Ops /\ svc' = svc /\ svc \notin ScaOps
      BY <2>2 DEF BeginOperation
    <3>2. main' = [pc |-> IF op = "STOPROIB" THEN "monitor" ELSE "sent",
                   op |-> op, counter |-> 0, tries |-> 0]
      BY <2>2 DEF BeginOperation
    <3>3. main' \in Main
      BY <3>1, <3>2
    <3> QED
      BY <3>1, <3>3
  <2>3. CASE EndOperation
    <3>1. svc' = svc /\ svc \notin ScaOps /\ main' \in Main
      BY <2>3 DEF EndOperation, Idle, Ops, ScaOps, Retried
    <3> QED
      BY <3>1
  <2>4. CASE TakeOperation
    BY <2>4 DEF TakeOperation, Positions
  <2>5. ASSUME NEW c \in Classes, FinishOperation(c)
        PROVE  MainType'
    BY <2>5 DEF FinishOperation, ScaOps, Retried
  <2>6. CASE MainRetries
    <3> HIDE DEF Main
    <3>1. main.pc \in {"check", "recover", "sleep", "return"} /\ svc' = svc /\ svc \notin ScaOps
      BY <2>6 DEF MainRetries, RetrySucceeds, RetryFails, RecoverSends, RecoverWakes,
                  RecoverLeaves, RecoverReturns, MainUnchanged
    <3>2. CASE RetrySucceeds
      BY <3>1, <3>2 DEF RetrySucceeds, Main
    <3>3. CASE RetryFails
      <4>1. main' = [main EXCEPT !.pc = "recover", !.tries = 0]
        BY <3>3 DEF RetryFails
      <4>2. 0 \in 0..MaxTries
        OBVIOUS
      <4>3. main' \in Main
        BY <4>1, <4>2, TriesUpdated
      <4> QED
        BY <3>1, <4>3
    <3>4. CASE RecoverSends
      <4>1. main' = [main EXCEPT !.pc = "sleep", !.tries = main.tries + 1]
        BY <3>4 DEF RecoverSends
      <4>2. main.tries + 1 \in 0..MaxTries
        BY <3>4 DEF RecoverSends, Main
      <4>3. main' \in Main
        BY <4>1, <4>2, TriesUpdated
      <4> QED
        BY <3>1, <4>3
    <3>5. CASE RecoverWakes
      BY <3>1, <3>5 DEF RecoverWakes, Main
    <3>6. CASE RecoverLeaves
      BY <3>1, <3>6 DEF RecoverLeaves, Main
    <3>7. CASE RecoverReturns
      <4>1. main.counter < NumAttempts
        BY <3>7 DEF RecoverReturns, Positions
      <4>2. PICK p \in {"sent", "done"} :
              main' = [main EXCEPT !.counter = main.counter + 1, !.pc = p]
        BY <3>7 DEF RecoverReturns
      <4>3. main.counter + 1 \in 0..NumAttempts
        BY <4>1 DEF Main
      <4>4. main' \in Main
        BY <4>2, <4>3, CounterUpdated
      <4> QED
        BY <3>1, <4>4
    <3> QED
      BY <2>6, <3>2, <3>3, <3>4, <3>5, <3>6, <3>7 DEF MainRetries
  <2>7. CASE StartWarns \/ StartMonitors \/ StopEnds \/ MonitoringCommand
    BY <2>7 DEF StartWarns, StartMonitors, StopEnds, MonitoringCommand, MainUnchanged
  <2>8. CASE TakeReconnect \/ TakeMonitor \/ ReconnectSucceeds \/ ReconnectFails \/ FinishMonitor
    BY <2>8 DEF TakeReconnect, TakeMonitor, ReconnectSucceeds, ReconnectFails, FinishMonitor,
                sector, ScaOps, Retried
  <2>9. ASSUME NEW t \in {"new", "old"}, TaskSteps(t) \/ TaskTimesOut(t)
        PROVE  MainType'
    BY <2>1, <2>9 DEF TaskSteps, TaskTimesOut, TaskSends, TaskWakes, TaskFindsFlag, TaskReturns,
                      TaskUnchanged, sector
  <2> QED
    BY <2>1, <2>2, <2>3, <2>4, <2>5, <2>6, <2>7, <2>8, <2>9
       DEF Next, MainOther, SvcFinishes, World, ServerStops, ServerStarts, DeviceStops, DeviceStarts, Unconfigure, ExecuteRecover,
           MonitoringStops, Handle, HandleDisconnected, HandleReconnected, vars, sector
<1>3. QueueType'
  <2>1. Queues'
    BY QueuesStep
  <2>2. inbox' \in Seq(Notices) /\ messages' \in 0..MaxMessages /\ stops' \in Nat
    <3>1. CASE UNCHANGED <<inbox, messages, stops>>
      BY <1>1, <3>1
    <3>2. CASE ReconnectSucceeds
      BY <1>1, <3>2 DEF ReconnectSucceeds, Reconnected, Notices, mon
    <3>3. ASSUME NEW command \in Recovers, ExecuteRecover(command)
          PROVE  inbox' \in Seq(Notices) /\ messages' \in 0..MaxMessages /\ stops' \in Nat
      BY <1>1, <3>3 DEF ExecuteRecover, Notices, mon
    <3>4. CASE MonitoringStops
      BY <1>1, <3>4 DEF MonitoringStops
    <3>5. CASE Handle
      <4>1. inbox' = Tail(inbox) /\ inbox # <<>> /\ messages' = messages
            /\ stops' \in {stops, stops + 1}
        BY <3>5 DEF Handle, HandleDisconnected, HandleReconnected, mon
      <4> QED
        BY <1>1, <4>1
    <3>6. ASSUME NEW t \in {"new", "old"}, TaskSteps(t) \/ TaskTimesOut(t)
          PROVE  UNCHANGED <<inbox, messages, stops>>
      BY <3>6 DEF TaskSteps, TaskTimesOut, TaskSends, TaskWakes, TaskFindsFlag, TaskReturns,
                  TaskUnchanged, mon
    <3>7. CASE MainRetries \/ MainOther
      BY <3>1, <3>7 DEF MainRetries, MainOther, RetrySucceeds, RetryFails, RecoverSends,
         RecoverWakes, RecoverLeaves, RecoverReturns, StartWarns, StartMonitors, StopEnds,
         MonitoringCommand, EndOperation, MainUnchanged, mon
    <3> QED
      BY <3>1, <3>2, <3>3, <3>4, <3>5, <3>6, <3>7
         DEF Next, SvcFinishes, FinishOperation, ReconnectFails, FinishMonitor, World, ServerStops,
             ServerStarts, DeviceStops, DeviceStarts, BeginOperation, Unconfigure, TakeOperation, TakeReconnect, TakeMonitor,
             vars, mon
  <2>3. Cardinality(Lost(inbox')) \in Nat /\ Len(inbox') \in Nat
    BY <2>2, LostFinite
  <2> QED
    BY <2>1, <2>2, <2>3 DEF Queues, MaxInbox
<1>4. RestType'
  <2> USE <1>1
  <2>1. ASSUME NEW op \in Commands, BeginOperation(op)
        PROVE  RestType'
    BY <2>1 DEF BeginOperation, async, mon, world
  <2>2. CASE World
    <3>1. serverUp' \in BOOLEAN /\ outages' \in 0..MaxOutages
      <4>1. serverUp' \in BOOLEAN /\ (outages' = outages \/ (outages < MaxOutages /\ outages' = outages + 1))
        BY <2>2 DEF World, ServerStops, ServerStarts, DeviceStops, DeviceStarts
      <4> QED
        BY <1>0, <1>1, <4>1
    <3> QED
      BY <2>2, <3>1 DEF World, ServerStops, ServerStarts, DeviceStops, DeviceStarts, sector, async, mon
  <2>3. CASE Unconfigure
    BY <2>3 DEF Unconfigure, async, mon, world, States
  <2>4. CASE EndOperation
    BY <2>4 DEF EndOperation, After, async, mon, world, States
  <2>5. CASE TakeOperation \/ TakeReconnect \/ TakeMonitor
    <3>1. reconnects' \in 0..MaxReconnects /\ scaAvailable' \in BOOLEAN
      <4>1. reconnects' = reconnects \/ (reconnects > 0 /\ reconnects' = reconnects - 1)
        BY <2>5 DEF TakeOperation, TakeReconnect, TakeMonitor
      <4>2. scaAvailable' \in BOOLEAN
        BY <2>5 DEF TakeOperation, TakeReconnect, TakeMonitor
      <4> QED
        BY <1>0, <1>1, <4>1, <4>2
    <3> QED
      BY <2>5, <3>1 DEF TakeOperation, TakeReconnect, TakeMonitor, sector, async, mon, world
  <2>6. ASSUME NEW c \in Classes, FinishOperation(c)
        PROVE  RestType'
    <3>1. Raised(svc, c) \subseteq {"continuing", "recovering", "fatal"}
      BY DEF Raised
    <3> QED
      BY <2>6, <3>1 DEF FinishOperation, async, mon, world
  <2>7. CASE ReconnectSucceeds
    BY <2>7 DEF ReconnectSucceeds, sector, mon, world
  <2>8. CASE ReconnectFails \/ FinishMonitor
    BY <2>8 DEF ReconnectFails, FinishMonitor, sector, async, mon, world
  <2>9. ASSUME NEW command \in Recovers, ExecuteRecover(command)
        PROVE  RestType'
    BY <2>9 DEF ExecuteRecover, sector, async, mon, world
  <2>10. CASE MainRetries
    BY <2>10 DEF MainRetries, RetrySucceeds, RetryFails, RecoverSends, RecoverWakes,
                 RecoverLeaves, RecoverReturns, MainUnchanged, async, mon, world
  <2>11. CASE StartWarns \/ StartMonitors \/ StopEnds
    BY <2>11 DEF StartWarns, StartMonitors, StopEnds, MainUnchanged, async, mon, world
  <2>12. CASE MonitoringCommand \/ MonitoringStops
    BY <2>12 DEF MonitoringCommand, MonitoringStops, sector, async, world
  <2>13. CASE Handle
    <3>1. task' \in [{"new", "old"} -> TaskPcs] /\ reopened' \in [{"new", "old"} -> BOOLEAN]
          /\ available' \in BOOLEAN
      <4>1. CASE UNCHANGED <<task, reopened>>
        BY <2>13, <4>1 DEF Handle, HandleDisconnected, HandleReconnected
      <4>2. CASE ~UNCHANGED <<task, reopened>>
        <5>1. PICK old \in TaskPcs :
                task' = [t \in {"new", "old"} |-> IF t = "new" THEN "test" ELSE old]
          BY <2>13, <4>2 DEF Handle, HandleDisconnected, HandleReconnected, TaskPcs
        <5>2. /\ reopened' = [t \in {"new", "old"} |-> IF t = "new" THEN serverUp ELSE reopened["new"]]
              /\ available' = FALSE
          BY <2>13, <4>2 DEF Handle, HandleDisconnected, HandleReconnected
        <5> QED
          BY <1>1, <5>1, <5>2 DEF TaskPcs
      <4> QED
        BY <4>1, <4>2
    <3> QED
      BY <2>13, <3>1 DEF Handle, HandleDisconnected, HandleReconnected, sector, world, mon
  <2>14. ASSUME NEW t \in {"new", "old"}, TaskSteps(t) \/ TaskTimesOut(t)
         PROVE  RestType'
    <3>1. PICK p \in TaskPcs : task' = [task EXCEPT ![t] = p]
      BY <2>14 DEF TaskSteps, TaskTimesOut, TaskSends, TaskWakes, TaskFindsFlag, TaskReturns,
                   TaskPcs
    <3>2. task' \in [{"new", "old"} -> TaskPcs]
      BY <3>1
    <3>3. reconnects' \in 0..MaxReconnects
      BY <2>14 DEF TaskSteps, TaskTimesOut, TaskSends, TaskWakes, TaskFindsFlag, TaskReturns
    <3> QED
      BY <2>14, <3>2, <3>3 DEF TaskSteps, TaskTimesOut, TaskSends, TaskWakes, TaskFindsFlag,
         TaskReturns, TaskUnchanged, sector, mon, world
  <2>15. CASE UNCHANGED vars
    BY <2>15 DEF vars, sector, async, mon, world
  <2> QED
    BY <2>1, <2>2, <2>3, <2>4, <2>5, <2>6, <2>7, <2>8, <2>9, <2>10, <2>11, <2>12, <2>13, <2>14,
       <2>15 DEF Next, MainOther, SvcFinishes
<1> QED
  BY <1>2, <1>3, <1>4 DEF TypeOK, Main

-----------------------------------------------------------------------------
(* Positions.                                                              *)

LEMMA PositionsStep ==
  ASSUME TypeOK, Positions, [Next]_vars
  PROVE  Positions'
<1> USE SectorAssumption
<1>1. main \in Main /\ (svc \in ScaOps => main.pc = "served" /\ main.op = svc)
  BY DEF TypeOK, Main
<1>2. CASE UNCHANGED <<main, fsm>>
  BY <1>2 DEF Positions, From
<1>3. ASSUME NEW op \in Commands, BeginOperation(op)
      PROVE  Positions'
  <2>1. main' = [pc |-> IF op = "STOPROIB" THEN "monitor" ELSE "sent",
                 op |-> op, counter |-> 0, tries |-> 0]
        /\ fsm' = fsm /\ fsm \in From(op) /\ op \in Ops
    BY <1>3 DEF BeginOperation
  <2>2. (fsm \in From(main.op))'
    BY <2>1 DEF From
  <2> QED
    BY <2>1, <2>2 DEF Positions, Ops
<1>4. CASE EndOperation \/ Unconfigure
  <2>1. main'.pc = "idle"
    BY <1>4 DEF EndOperation, Unconfigure, Idle
  <2> QED
    BY <2>1 DEF Positions
<1>5. CASE TakeOperation
  BY <1>1, <1>5 DEF TakeOperation, Positions, From, Main
<1>6. ASSUME NEW c \in Classes, FinishOperation(c)
      PROVE  Positions'
  <2>1. main.pc = "served" /\ main' = [main EXCEPT !.pc = "check"] /\ fsm' = fsm
    BY <1>1, <1>6 DEF FinishOperation
  <2> QED
    BY <1>1, <2>1 DEF Positions, From, Main
<1>7. CASE MainRetries
  <2>1. /\ main.pc \in {"check", "recover", "sleep", "return"} /\ main.op \in Retried
        /\ main.counter < NumAttempts /\ fsm \in From(main.op)
    BY <1>7 DEF Positions, MainRetries, RetrySucceeds, RetryFails, RecoverSends, RecoverWakes,
                RecoverLeaves, RecoverReturns
  <2>2. /\ fsm' = fsm /\ main'.op = main.op
        /\ \/ main'.pc \in {"recover", "sleep", "return"} /\ main'.counter = main.counter
           \/ main'.pc = "sent" /\ main'.counter < NumAttempts
           \/ main'.pc = "done"
    BY <1>1, <1>7 DEF MainRetries, RetrySucceeds, RetryFails, RecoverSends, RecoverWakes,
       RecoverLeaves, RecoverReturns, MainUnchanged, KeepTrying, Main
  <2>3. (fsm \in From(main.op))'
    BY <2>1, <2>2 DEF From
  <2> QED
    BY <2>1, <2>2, <2>3 DEF Positions, ScaOps
<1>8. CASE StartWarns \/ StartMonitors \/ StopEnds \/ MonitoringCommand
  <2>1. /\ fsm' = fsm /\ main'.op = main.op /\ main.pc # "idle"
        /\ \/ main'.pc \in {"start", "monitor"} /\ main.op = "START"
           \/ main'.pc = "done"
    BY <1>1, <1>8 DEF StartWarns, StartMonitors, StopEnds, MonitoringCommand, MainUnchanged,
                      Positions, Main
  <2>2. (fsm \in From(main.op))'
    BY <2>1 DEF Positions, From
  <2> QED
    BY <2>1, <2>2 DEF Positions
<1>9. ASSUME NEW t \in {"new", "old"}, TaskSteps(t) \/ TaskTimesOut(t)
      PROVE  Positions'
  BY <1>2, <1>9 DEF TaskSteps, TaskTimesOut, TaskSends, TaskWakes, TaskFindsFlag, TaskReturns,
                    TaskUnchanged, sector
<1> QED
  BY <1>2, <1>3, <1>4, <1>5, <1>6, <1>7, <1>8, <1>9
     DEF Next, MainOther, SvcFinishes, ReconnectSucceeds, ReconnectFails, FinishMonitor, World, ServerStops,
         ServerStarts, DeviceStops, DeviceStarts, TakeReconnect, TakeMonitor, ExecuteRecover, MonitoringStops, Handle,
         HandleDisconnected, HandleReconnected, vars, sector

-----------------------------------------------------------------------------
(* Monitoring.                                                             *)

LEMMA MonitoredStep ==
  ASSUME TypeOK, Positions, Monitored, [Next]_vars
  PROVE  Monitored'
<1>1. main \in Main /\ (svc \in ScaOps => main.pc = "served" /\ main.op = svc)
  BY DEF TypeOK, Main
<1>2. CASE UNCHANGED <<fsm, main, monitoring, svc>>
  BY <1>2 DEF Monitored
<1>3. ASSUME NEW op \in Commands, BeginOperation(op)
      PROVE  Monitored'
  BY <1>3 DEF BeginOperation, Monitored, mon
<1>4. CASE EndOperation
  \* Monitoring goes on only after START, which ends in RUNNING, or when an
  \* operation of RUNNING other than STOPROIB ends.
  <2>1. UNCHANGED <<monitoring, svc>> /\ main'.pc = "idle" /\ fsm' = After(main.op)
        /\ main.pc = "done" /\ fsm \in From(main.op)
    BY <1>4 DEF EndOperation, Idle, mon, Positions
  <2>2. CASE monitoring \/ svc = "MONITOR"
    <3>1. fsm' = "RUNNING"
      BY <1>1, <2>1, <2>2 DEF Monitored, After, From, Main, Ops, ScaOps, Retried
    <3> QED
      BY <2>1, <3>1 DEF Monitored
  <2>3. CASE ~monitoring /\ svc # "MONITOR"
    BY <2>1, <2>3 DEF Monitored
  <2> QED
    BY <2>2, <2>3
<1>5. CASE Unconfigure
  BY <1>5 DEF Unconfigure, Monitored, mon
<1>6. CASE TakeOperation \/ TakeReconnect \/ ReconnectSucceeds \/ ReconnectFails \/ FinishMonitor
  <2>1. CASE TakeOperation
    \* A command is sent only in the state it belongs to.
    <3>1. UNCHANGED <<fsm, monitoring>> /\ svc' = main.op /\ main.pc = "sent"
          /\ main' = [main EXCEPT !.pc = "served"]
      BY <2>1 DEF TakeOperation, mon
    <3>2. main.op \in ScaOps
      BY <3>1 DEF Positions
    <3>3. main'.pc = "served" /\ main'.op = main.op
      BY <1>1, <3>1 DEF Main
    <3>4. svc' # "MONITOR"
      BY <3>1, <3>2 DEF ScaOps, Retried
    <3> QED
      BY <3>1, <3>3, <3>4 DEF Monitored
  <2>2. CASE TakeReconnect \/ ReconnectSucceeds \/ ReconnectFails \/ FinishMonitor
    <3>1. UNCHANGED <<fsm, main, monitoring>> /\ svc' # "MONITOR"
      BY <2>2 DEF TakeReconnect, ReconnectSucceeds, ReconnectFails, FinishMonitor, sector, mon
    <3> QED
      BY <3>1 DEF Monitored
  <2> QED
    BY <1>6, <2>1, <2>2
<1>7. CASE TakeMonitor
  BY <1>7 DEF TakeMonitor, Monitored, sector, mon
<1>8. ASSUME NEW c \in Classes, FinishOperation(c)
      PROVE  Monitored'
  BY <1>1, <1>8 DEF FinishOperation, Monitored, mon, Main
<1>9. CASE MainRetries
  <2>1. UNCHANGED <<fsm, monitoring, svc>> /\ main'.op = main.op /\ main.op \in Retried
        /\ main.pc # "done"
    BY <1>1, <1>9 DEF MainRetries, RetrySucceeds, RetryFails, RecoverSends, RecoverWakes,
       RecoverLeaves, RecoverReturns, MainUnchanged, mon, Main, Positions
  <2> QED
    BY <2>1 DEF Monitored, Retried
<1>10. CASE StartWarns \/ StartMonitors \/ StopEnds
  <2>1. UNCHANGED <<fsm, monitoring, svc>> /\ main'.op = main.op
        /\ main.op \in {"START", "STOP"} /\ main.pc # "done"
    BY <1>1, <1>10 DEF StartWarns, StartMonitors, StopEnds, MainUnchanged, mon, Main, Positions
  <2> QED
    BY <2>1 DEF Monitored
<1>11. CASE MonitoringCommand
  \* The threads are joined before new ones start.
  <2>1. /\ svc' = svc /\ svc # "MONITOR" /\ fsm' = fsm
        /\ monitoring' = (main.op = "START")
        /\ main'.pc = "done" /\ main'.op = main.op
    BY <1>1, <1>11 DEF MonitoringCommand, Joined, Main
  <2> QED
    BY <2>1 DEF Monitored
<1>12. CASE MonitoringStops
  BY <1>12 DEF MonitoringStops, Joined, Monitored, sector
<1>13. ASSUME NEW t \in {"new", "old"}, TaskSteps(t) \/ TaskTimesOut(t)
       PROVE  Monitored'
  BY <1>2, <1>13 DEF TaskSteps, TaskTimesOut, TaskSends, TaskWakes, TaskFindsFlag, TaskReturns,
                     TaskUnchanged, sector, mon
<1>14. CASE Handle
  BY <1>2, <1>14 DEF Handle, HandleDisconnected, HandleReconnected, sector, mon
<1> QED
  BY <1>2, <1>3, <1>4, <1>5, <1>6, <1>7, <1>8, <1>9, <1>10, <1>11, <1>12, <1>13, <1>14
     DEF Next, MainOther, SvcFinishes, World, ServerStops, ServerStarts, DeviceStops, DeviceStarts, ExecuteRecover, vars, sector, mon

-----------------------------------------------------------------------------
LEMMA InvStep == IInv /\ [Next]_vars => IInv'
BY TypeStep, PositionsStep, QueuesStep, MonitoredStep DEF IInv

\* The state of the sector controller, the SCA service and the monitoring
\* controller has its type; above all, no operation is executed more often than
\* m_opcReconnectAttemptLimit allows (retryOpc), and no queue of notices grows beyond
\* what the commands from outside put into it.
THEOREM TypeCorrect == Spec => []TypeOK
<1>1. IInv => TypeOK
  BY DEF IInv
<1> QED
  BY <1>1, InvInit, InvStep, PTL DEF Spec

\* Outside of a run no monitoring thread is left and none is read by the SCA
\* service, however many STOPs the handlers of SCA_DISCONNECTED send
\* (NSWSectorControllerRc::stopROIB, user; NSWMonitoringControllerRc::user).
THEOREM MonitoringCorrect == Spec => []MonitoringOnlyInRun
<1>1. IInv => MonitoringOnlyInRun
  BY DEF IInv, Monitored, MonitoringOnlyInRun
<1> QED
  BY <1>1, InvInit, InvStep, PTL DEF Spec

-----------------------------------------------------------------------------
(* Retried operations, without commands from outside and with every         *)
(* RECONNECT_OPC done within the interval.                                 *)

\* Nobody but the loop of recoverOpc makes the SCA service touch the flag
\* between an execution and the look at it; a failure that is not to be repeated
\* has been given up with an issue.
Accounted ==
  /\ task = [t \in {"new", "old"} |-> "none"]
  /\ \A i \in 1..Len(inbox) : inbox[i] = "SCA_RECONNECTED"
  /\ messages = 0
  /\ reconnects > 0 \/ svc = "RECONNECT_OPC" => main.pc = "sleep"
  /\ main.pc = "check" /\ main.op \in Retried =>
       /\ failures = Recover => ~scaAvailable
       /\ failures = Fail => GivenUp
  /\ main.pc \in {"recover", "sleep", "return"} /\ main.counter = NumAttempts - 1
       => GivenUp
  /\ NoUnrepairedSuccess

RetryInv == IInv /\ Accounted

LEMMA AccountedInit == Init => Accounted
BY DEF Init, Idle, Accounted, NoUnrepairedSuccess, GivenUp

LEMMA AccountedStep ==
  ASSUME MaxMessages = 0, ~SlowReconnect, IInv, Accounted, [Next]_vars
  PROVE  Accounted'
<1> USE SectorAssumption
<1>1. main \in Main /\ (svc \in ScaOps => main.pc = "served" /\ main.op = svc)
      /\ reconnects \in Nat /\ inbox \in Seq(Notices)
  BY DEF IInv, TypeOK, Main
<1>2. ASSUME NEW t \in {"new", "old"}
      PROVE  task[t] = "none" /\ ~TaskSteps(t) /\ ~TaskTimesOut(t)
  BY DEF Accounted, TaskSteps, TaskTimesOut, TaskSends, TaskWakes, TaskFindsFlag, TaskReturns
<1>3. ~HandleDisconnected
  BY <1>1 DEF Accounted, HandleDisconnected
<1>4. ASSUME NEW command \in Recovers
      PROVE  ~ExecuteRecover(command)
  BY DEF Accounted, ExecuteRecover
<1> DEFINE Quiet == UNCHANGED <<task, inbox, messages>>
<1>5. CASE UNCHANGED <<main, reports, scaAvailable, failures, svc, reconnects>> /\ Quiet
  BY <1>5 DEF Accounted, NoUnrepairedSuccess, GivenUp
<1>6. ASSUME NEW op \in Commands, BeginOperation(op)
      PROVE  Accounted'
  BY <1>6 DEF BeginOperation, Accounted, NoUnrepairedSuccess, GivenUp, async
<1>7. CASE EndOperation
  BY <1>7 DEF EndOperation, Idle, Accounted, NoUnrepairedSuccess, GivenUp, async
<1>8. CASE Unconfigure
  BY <1>5, <1>8 DEF Unconfigure, async
<1>9. CASE TakeOperation
  <2>1. /\ main.pc = "sent" /\ main' = [main EXCEPT !.pc = "served"] /\ svc' = main.op
        /\ UNCHANGED <<reports, failures, reconnects>> /\ Quiet
    BY <1>9 DEF TakeOperation, async
  <2>2. main'.pc = "served"
    BY <1>1, <2>1 DEF Main
  <2>3. main.op \in ScaOps
    BY <2>1 DEF IInv, Positions
  <2>4. svc' # "RECONNECT_OPC"
    BY <2>1, <2>3 DEF ScaOps, Retried
  <2>5. reconnects = 0
    BY <1>1, <2>1 DEF Accounted
  <2> QED
    BY <2>1, <2>2, <2>4, <2>5 DEF Accounted, NoUnrepairedSuccess, GivenUp
<1>10. ASSUME NEW c \in Classes, FinishOperation(c)
       PROVE  Accounted'
  \* START is not judged, but is not repeated either.
  <2>1. /\ main' = [main EXCEPT !.pc = "check"] /\ main.op = svc /\ svc \in ScaOps
        /\ svc' = "idle" /\ failures' = c /\ UNCHANGED reconnects /\ Quiet
        /\ scaAvailable' = (scaAvailable /\ ~MustRecover(svc, c))
        /\ reports' = reports \cup Raised(svc, c)
    BY <1>1, <1>10 DEF FinishOperation, async
  <2>2. main.op \in Retried => Checked(svc)
    BY <2>1 DEF Checked, Retried
  <2>3. main.op \in Retried /\ c = Recover => ~scaAvailable'
    BY <2>1, <2>2 DEF MustRecover
  <2>4. main.op \in Retried /\ c = Fail => GivenUp'
    BY <2>1, <2>2 DEF IsFatal, Raised, GivenUp
  <2>5. main'.pc = "check" /\ main'.op = main.op
    BY <1>1, <2>1 DEF Main
  <2>6. reconnects = 0
    BY <1>1, <2>1 DEF Accounted
  <2> QED
    BY <2>1, <2>3, <2>4, <2>5, <2>6 DEF Accounted, NoUnrepairedSuccess, GivenUp
<1>11. CASE TakeReconnect
  BY <1>1, <1>11 DEF TakeReconnect, Accounted, NoUnrepairedSuccess, GivenUp, sector, async
<1>12. CASE ReconnectSucceeds
  <2>1. main.pc = "sleep" /\ UNCHANGED <<main, reports, reconnects, task, messages>>
    BY <1>12 DEF ReconnectSucceeds, Accounted, sector, async
  <2>2. \A i \in 1..Len(inbox') : inbox'[i] = "SCA_RECONNECTED"
    BY <1>1, <1>12 DEF ReconnectSucceeds, Reconnected, Accounted
  <2> QED
    BY <2>1, <2>2 DEF Accounted, NoUnrepairedSuccess, GivenUp
<1>13. CASE ReconnectFails \/ TakeMonitor \/ FinishMonitor
  BY <1>13 DEF ReconnectFails, TakeMonitor, FinishMonitor, Accounted, NoUnrepairedSuccess, GivenUp, sector, async
<1>14. CASE RetrySucceeds
  <2>1. main.op \in Retried /\ failures # Recover /\ (failures = Fail => GivenUp)
    BY <1>14 DEF RetrySucceeds, Accounted
  <2>2. failures > Continue => failures \in {Recover, Fail}
    BY DEF IInv, TypeOK, Classes, None, Continue, Recover, Fail
  <2>3. main'.pc = "done" /\ UNCHANGED <<reports, failures, svc, reconnects>> /\ Quiet
        /\ main.pc = "check"
    BY <1>1, <1>14 DEF RetrySucceeds, MainUnchanged, async, Main
  <2> QED
    BY <2>1, <2>2, <2>3 DEF Accounted, NoUnrepairedSuccess, GivenUp
<1>15. CASE RetryFails
  <2>1. main'.pc = "recover" /\ main'.counter = main.counter /\ main.pc = "check"
        /\ (main.counter = NumAttempts - 1 => GivenUp')
        /\ UNCHANGED <<svc, reconnects>> /\ Quiet
    BY <1>1, <1>15 DEF RetryFails, MainUnchanged, async, Main, GivenUp
  <2> QED
    BY <2>1 DEF Accounted, NoUnrepairedSuccess, GivenUp
<1>16. CASE RecoverSends
  <2>1. main'.pc = "sleep" /\ main'.counter = main.counter /\ main.pc = "recover"
        /\ UNCHANGED <<reports, svc>> /\ Quiet
    BY <1>1, <1>16 DEF RecoverSends, MainUnchanged, async, Main
  <2> QED
    BY <2>1 DEF Accounted, NoUnrepairedSuccess, GivenUp
<1>17. CASE RecoverWakes
  \* Whatever was queued in the interval is done.
  <2>1. main'.pc = "recover" /\ main'.counter = main.counter /\ main.pc = "sleep"
        /\ reconnects = 0 /\ svc # "RECONNECT_OPC"
        /\ UNCHANGED <<reports, svc, reconnects>> /\ Quiet
    BY <1>1, <1>17 DEF RecoverWakes, IntervalOver, MainUnchanged, async, Main
  <2> QED
    BY <2>1 DEF Accounted, NoUnrepairedSuccess, GivenUp
<1>18. CASE RecoverLeaves
  <2>1. main'.pc = "return" /\ main'.counter = main.counter /\ main.pc = "recover"
        /\ UNCHANGED <<reports, svc, reconnects>> /\ Quiet
    BY <1>1, <1>18 DEF RecoverLeaves, MainUnchanged, async, Main
  <2> QED
    BY <2>1 DEF Accounted, NoUnrepairedSuccess, GivenUp
<1>19. CASE RecoverReturns
  \* After the last attempt the limit has been reported.
  <2>1. main.counter < NumAttempts /\ main.pc = "return" /\ main.counter \in Nat
        /\ UNCHANGED <<svc, reconnects>> /\ Quiet /\ reports \subseteq reports'
        /\ (main'.pc = "sent" \/ (main'.pc = "done" /\ main.counter + 1 >= NumAttempts))
    BY <1>1, <1>19 DEF RecoverReturns, KeepTrying, MainUnchanged, async, Main, IInv, Positions
  <2>2. main'.pc = "done" => GivenUp
    BY <2>1 DEF Accounted
  <2>3. main'.pc = "done" => GivenUp'
    BY <2>1, <2>2 DEF GivenUp
  <2> QED
    BY <2>1, <2>3 DEF Accounted, NoUnrepairedSuccess, GivenUp
<1>20. CASE StartWarns \/ StartMonitors \/ StopEnds \/ MonitoringCommand
  <2>1. main'.op = main.op /\ main.op \notin Retried /\ main'.pc \in {"start", "monitor", "done"}
        /\ main.pc # "sleep" /\ UNCHANGED <<svc, reconnects>> /\ Quiet
    BY <1>1, <1>20 DEF StartWarns, StartMonitors, StopEnds, MonitoringCommand, MainUnchanged,
                       async, Main, IInv, Positions, Retried
  <2> QED
    BY <2>1 DEF Accounted, NoUnrepairedSuccess, GivenUp
<1>21. CASE MonitoringStops
  BY <1>5, <1>21 DEF MonitoringStops, sector, async
<1>22. CASE HandleReconnected
  <2>1. inbox # <<>> /\ inbox' = Tail(inbox)
        /\ UNCHANGED <<main, reports, scaAvailable, failures, svc, reconnects, task, messages>>
    BY <1>22 DEF HandleReconnected, sector
  <2>2. \A i \in 1..Len(inbox') : inbox'[i] = "SCA_RECONNECTED"
    BY <1>1, <2>1 DEF Accounted
  <2> QED
    BY <2>1, <2>2 DEF Accounted, NoUnrepairedSuccess, GivenUp
<1>23. CASE World \/ UNCHANGED vars
  BY <1>5, <1>23 DEF World, ServerStops, ServerStarts, DeviceStops, DeviceStarts, vars, sector, async
<1> QED
  BY <1>2, <1>3, <1>4, <1>6, <1>7, <1>8, <1>9, <1>10, <1>11, <1>12, <1>13, <1>14, <1>15, <1>16,
     <1>17, <1>18, <1>19, <1>20, <1>21, <1>22, <1>23
     DEF Next, MainRetries, MainOther, SvcFinishes, Handle

\* retryOpc returns after a failure that asked for a repetition or was too large
\* only if it has repeated the operation or an issue says that it gives up (too
\* many failures, or the limit of attempts), whatever the number of attempts,
\* tries and outages: provided that no RECONNECT_OPC outlives the interval and
\* none is sent by a task of m_reconnect.  The warning "Trying to recover OPC",
\* which every failure to be repeated raises, does not count.
THEOREM RetryReports ==
  ASSUME MaxMessages = 0, ~SlowReconnect
  PROVE  Spec => []NoUnrepairedSuccess
<1>1. Init => RetryInv
  BY InvInit, AccountedInit DEF RetryInv
<1>2. RetryInv /\ [Next]_vars => RetryInv'
  BY InvStep, AccountedStep DEF RetryInv
<1>3. RetryInv => NoUnrepairedSuccess
  BY DEF RetryInv, Accounted
<1> QED
  BY <1>1, <1>2, <1>3, PTL DEF Spec
-----------------------------------------------------------------------------
(* The refinement of RetriedOperation, step by step.                       *)

\* Reports belong to the operation in progress.
Unreported == main.pc = "idle" => reports = {}

RefinementInv == RetryInv /\ Unreported

LEMMA UnreportedStep ==
  ASSUME IInv, Unreported, [Next]_vars
  PROVE  Unreported'
<1>1. main \in Main /\ (svc \in ScaOps => main.pc = "served")
  BY DEF IInv, TypeOK, Main
<1>2. CASE UNCHANGED <<main, reports>>
  BY <1>2 DEF Unreported
<1>3. CASE MainRetries \/ StartWarns \/ StartMonitors \/ StopEnds \/ MonitoringCommand \/ TakeOperation
  BY <1>1, <1>3 DEF MainRetries, RetrySucceeds, RetryFails, RecoverSends, RecoverWakes, RecoverLeaves,
     RecoverReturns, StartWarns, StartMonitors, StopEnds, MonitoringCommand, TakeOperation, Unreported, Main
<1>4. ASSUME NEW t \in {"new", "old"}, TaskSteps(t) \/ TaskTimesOut(t)
      PROVE  Unreported'
  BY <1>2, <1>4 DEF TaskSteps, TaskTimesOut, TaskSends, TaskWakes, TaskFindsFlag, TaskReturns,
                    TaskUnchanged, sector
<1>5. ASSUME NEW c \in Classes, FinishOperation(c)
      PROVE  Unreported'
  BY <1>1, <1>5 DEF FinishOperation, Unreported, Main
<1>6. ASSUME NEW op \in Commands, BeginOperation(op)
      PROVE  Unreported'
  BY <1>6 DEF BeginOperation, Unreported
<1>7. CASE EndOperation
  BY <1>7 DEF EndOperation, Unreported
<1> QED
  BY <1>2, <1>3, <1>4, <1>5, <1>6, <1>7
     DEF Next, MainOther, SvcFinishes, ReconnectSucceeds, ReconnectFails, FinishMonitor, World, ServerStops,
         ServerStarts, DeviceStops, DeviceStarts, Unconfigure, TakeReconnect, TakeMonitor, ExecuteRecover, MonitoringStops, Handle,
         HandleDisconnected, HandleReconnected, vars, sector

\* What the mapping says of a state, and of a step by what it changes.
Verdict == IF failures > Continue THEN "failed" ELSE "ok"

LEMMA MappedIdle ==
  ASSUME ~InRetry, ~InRetry'
  PROVE  UNCHANGED Operation!vars
BY DEF Operation!vars

LEMMA MappedRest == ~InRetry => Operation!Rest
BY DEF Operation!Rest

\* A retried operation goes on without another execution: at most it is
\* given up.
LEMMA MappedGiveUp ==
  ASSUME InRetry, InRetry', Executed' = Executed, failures' = failures,
         reports \subseteq reports'
  PROVE  Operation!GiveUp \/ UNCHANGED Operation!vars
BY DEF Operation!GiveUp, Operation!vars, GivenUp

\* It is executed once more.
LEMMA MappedExecute ==
  ASSUME InRetry, InRetry', Executed \in Nat, Executed < NumAttempts,
         Executed' = Executed + 1, reports \subseteq reports'
  PROVE  Operation!Execute
<1>1. Executed' # 0
  OBVIOUS
<1> QED
  BY <1>1 DEF Operation!Execute, GivenUp

\* Before and after the last step of a retried operation.
LEMMA MappedEnd ==
  ASSUME InRetry, ~InRetry', Executed # 0, failures > Continue => GivenUp
  PROVE  Operation!End
BY DEF Operation!End

LEMMA OperationInit == Init => Operation!Init
<1> SUFFICES ASSUME Init PROVE Operation!Init
  OBVIOUS
<1>1. ~InRetry
  BY DEF Init, Idle, InRetry
<1> QED
  BY <1>1, MappedRest DEF Operation!Init

LEMMA OperationStep ==
  ASSUME RefinementInv, [Next]_vars
  PROVE  [Operation!Next]_(Operation!vars)
<1> USE SectorAssumption
<1>1. main \in Main /\ (svc \in ScaOps => main.pc = "served" /\ main.op = svc)
  BY DEF RefinementInv, RetryInv, IInv, TypeOK, Main
<1>2. main.counter \in Nat /\ main.counter <= NumAttempts /\ NumAttempts \in Nat \ {0}
  BY <1>1 DEF Main
<1>3. /\ main.pc \in {"sent", "served", "check"} => main.counter < NumAttempts
      /\ main.pc \in {"recover", "sleep", "return"} =>
           main.op \in Retried /\ main.counter < NumAttempts
  BY DEF RefinementInv, RetryInv, IInv, Positions
<1>4. ASSUME UNCHANGED <<main, reports, failures>>
      PROVE  UNCHANGED Operation!vars
  BY <1>4 DEF Operation!vars, InRetry, Executed, GivenUp
<1>5. ASSUME NEW op \in Commands, BeginOperation(op)
      PROVE  [Operation!Next]_(Operation!vars)
  <2>1. main' = [pc |-> IF op = "STOPROIB" THEN "monitor" ELSE "sent",
                 op |-> op, counter |-> 0, tries |-> 0]
        /\ main.pc = "idle" /\ reports' = reports
    BY <1>5 DEF BeginOperation
  <2>2. ~InRetry /\ Operation!Rest
    BY <2>1, MappedRest DEF InRetry
  <2>3. CASE op \in Retried
    <3>1. InRetry' /\ Executed' = 0 /\ reports' = {}
      BY <2>1, <2>3 DEF InRetry, Executed, Retried, RefinementInv, Unreported
    <3>2. Operation!Begin
      BY <2>2, <3>1 DEF Operation!Begin, Operation!Rest, GivenUp
    <3> QED
      BY <3>2 DEF Operation!Next
  <2>4. CASE op \notin Retried
    <3>1. ~InRetry'
      BY <2>1, <2>4 DEF InRetry
    <3> QED
      BY <2>2, <3>1, MappedIdle
  <2> QED
    BY <2>3, <2>4
<1>6. ASSUME NEW c \in Classes, FinishOperation(c)
      PROVE  [Operation!Next]_(Operation!vars)
  <2>1. /\ main.pc = "served" /\ main'.pc = "check" /\ main'.op = main.op
        /\ main'.counter = main.counter /\ reports \subseteq reports'
    BY <1>1, <1>6 DEF FinishOperation, Main
  <2>2. CASE main.op \in Retried
    <3>1. InRetry /\ InRetry'
      BY <2>1, <2>2 DEF InRetry
    <3>2. Executed = main.counter /\ Executed' = main.counter + 1
      BY <1>2, <1>3, <2>1 DEF Executed
    <3>3. Operation!Execute
      BY <1>2, <1>3, <2>1, <3>1, <3>2, MappedExecute
    <3> QED
      BY <3>3 DEF Operation!Next
  <2>3. CASE main.op \notin Retried
    <3>1. ~InRetry /\ ~InRetry'
      BY <2>1, <2>3 DEF InRetry
    <3> QED
      BY <3>1, MappedIdle
  <2> QED
    BY <2>2, <2>3
<1>7. CASE MainRetries \/ TakeOperation
  \* The count of executions is taken over by the counter of retryOpc.
  <2>1. /\ main.pc \notin {"idle", "done"} /\ main'.pc # "idle" /\ main'.op = main.op
        /\ failures' = failures /\ reports \subseteq reports'
    BY <1>1, <1>7 DEF MainRetries, RetrySucceeds, RetryFails, RecoverSends, RecoverWakes, RecoverLeaves,
       RecoverReturns, TakeOperation, MainUnchanged, Main
  <2>2. Executed' = Executed
    <3>1. CASE RecoverReturns
      <4>1. /\ main.pc = "return" /\ main'.counter = main.counter + 1
            /\ main'.pc = IF main.counter + 1 < NumAttempts THEN "sent" ELSE "done"
        BY <1>1, <3>1 DEF RecoverReturns, KeepTrying, Main
      <4> QED
        BY <1>2, <1>3, <4>1 DEF Executed
    <3>2. CASE TakeOperation
      BY <1>1, <3>2 DEF TakeOperation, Executed, Main
    <3>3. CASE RetrySucceeds \/ RetryFails \/ RecoverSends \/ RecoverWakes \/ RecoverLeaves
      <4>1. /\ main'.counter = main.counter
            /\ main.pc \notin {"sent", "served"} /\ main'.pc \notin {"sent", "served"}
        BY <1>1, <3>3 DEF RetrySucceeds, RetryFails, RecoverSends, RecoverWakes, RecoverLeaves, Main
      <4> QED
        BY <4>1 DEF Executed
    <3> QED
      BY <1>7, <3>1, <3>2, <3>3 DEF MainRetries
  <2>3. CASE main.op \in Retried
    <3>1. InRetry /\ InRetry'
      BY <2>1, <2>3 DEF InRetry
    <3> QED
      BY <2>1, <2>2, <3>1, MappedGiveUp DEF Operation!Next
  <2>4. CASE main.op \notin Retried
    <3>1. ~InRetry /\ ~InRetry'
      BY <2>1, <2>4 DEF InRetry
    <3> QED
      BY <3>1, MappedIdle
  <2> QED
    BY <2>3, <2>4
<1>8. CASE StartWarns \/ StartMonitors \/ StopEnds \/ MonitoringCommand
  <2>1. main'.op = main.op /\ main.op \notin Retried
    BY <1>1, <1>8 DEF StartWarns, StartMonitors, StopEnds, MonitoringCommand, Main,
                      RefinementInv, RetryInv, IInv, Positions, Retried
  <2> QED
    BY <2>1, MappedIdle DEF InRetry
<1>9. CASE EndOperation
  <2>1. main.pc = "done" /\ main' = Idle
    BY <1>9 DEF EndOperation
  <2>2. ~InRetry'
    BY <2>1 DEF InRetry, Idle
  <2>3. CASE main.op \in Retried
    <3>1. InRetry /\ Executed # 0
      BY <1>2, <2>1, <2>3 DEF InRetry, Executed
    <3>2. failures > Continue => GivenUp
      BY <2>1, <2>3 DEF RefinementInv, RetryInv, Accounted, NoUnrepairedSuccess, GivenUp
    <3> QED
      BY <2>2, <3>1, <3>2, MappedEnd DEF Operation!Next
  <2>4. CASE main.op \notin Retried
    BY <2>2, <2>4, MappedIdle DEF InRetry
  <2> QED
    BY <2>3, <2>4
<1>10. ASSUME NEW t \in {"new", "old"}, TaskSteps(t) \/ TaskTimesOut(t)
       PROVE  UNCHANGED Operation!vars
  BY <1>4, <1>10 DEF TaskSteps, TaskTimesOut, TaskSends, TaskWakes, TaskFindsFlag, TaskReturns,
                     TaskUnchanged, sector
<1>11. CASE World \/ Unconfigure \/ TakeReconnect \/ TakeMonitor \/ ReconnectSucceeds
            \/ ReconnectFails \/ FinishMonitor \/ MonitoringStops \/ Handle \/ UNCHANGED vars
  BY <1>4, <1>11 DEF World, ServerStops, ServerStarts, DeviceStops, DeviceStarts, Unconfigure, TakeReconnect, TakeMonitor,
     ReconnectSucceeds, ReconnectFails, FinishMonitor, MonitoringStops, Handle, HandleDisconnected,
     HandleReconnected, vars, sector
<1>12. ASSUME NEW command \in Recovers, ExecuteRecover(command)
       PROVE  UNCHANGED Operation!vars
  BY <1>4, <1>12 DEF ExecuteRecover, sector
<1> QED
  BY <1>5, <1>6, <1>7, <1>8, <1>9, <1>10, <1>11, <1>12 DEF Next, MainOther, SvcFinishes

\* A CONFIGURE, CONNECT, ENABLE_VMM or RESET_STGCTP is executed at most
\* m_opcReconnectAttemptLimit times and does not end with a failed last execution
\* unless an issue gave it up, for every number of attempts, tries and outages
\* (NSWSectorControllerRc::retryOpc): the steps of the sector are steps of
\* RetriedOperation or change nothing of it.
THEOREM RetryRefines ==
  ASSUME MaxMessages = 0, ~SlowReconnect
  PROVE  Spec => Operation!Safety
<1>1. Init => RefinementInv
  BY InvInit, AccountedInit DEF RefinementInv, RetryInv, Unreported, Init
<1>2. RefinementInv /\ [Next]_vars => RefinementInv'
  BY InvStep, AccountedStep, UnreportedStep DEF RefinementInv, RetryInv
<1>3. RefinementInv /\ [Next]_vars => [Operation!Next]_(Operation!vars)
  BY OperationStep
<1> QED
  BY <1>1, <1>2, <1>3, OperationInit, PTL DEF Spec, Operation!Safety
=============================================================================
