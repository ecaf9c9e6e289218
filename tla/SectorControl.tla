----------------------------- MODULE SectorControl -----------------------------
(***************************************************************************)
(* The control of one sector: NSWSectorControllerRc and NSWSCAServiceRc,   *)
(* with the commands that pass between them, the two forwarding            *)
(* applications (NSWConfigurationControllerRc, NSWMonitoringControllerRc)  *)
(* and the flag scaAvailable that both read and write in the information   *)
(* service (IS).                                                           *)
(*                                                                         *)
(* A command sent with timeout 0 keeps its sender waiting until it is      *)
(* executed; one sent without a timeout is only queued.  The SCA service   *)
(* executes one command at a time under m_mutex, in no particular order.   *)
(* How many devices fail in an operation is a class: none, few enough to   *)
(* continue, few enough to try a recovery, or too many.                    *)
(***************************************************************************)
EXTENDS Naturals, Sequences

CONSTANTS
  NumAttempts,    \* m_opcReconnectAttemptLimit...
  MaxTries,       \* RECONNECT_OPCs that fit in m_opcReconnectTimeout...
  MaxReconnects,  \* bound: RECONNECT_OPCs queued at the SCA service
  MaxOutages,     \* bound: stops of the OPC server, silences of the device
  MaxMessages,    \* bound: RECOVER_OPC and RECOVER_OPC_MESSAGE from outside
  Commands,       \* bound: the operations the run control asks for
  Outcomes,       \* bound: the failure classes an operation may end with
  SlowReconnect   \* a RECONNECT_OPC may take longer than the 5 s INTERVAL

None     == 0
Continue == 1   \* at most m_errorThresholdContinue
Recover  == 2   \* at most m_errorThresholdRecover
Fail     == 3
Classes  == None..Fail

\* ENABLE_VMM stands for RESET_STGCTP as well: both are user commands that
\* start their count of failures from zero.
Retried == {"CONFIGURE", "CONNECT", "ENABLE_VMM"}
ScaOps  == Retried \cup {"START", "STOP"}
Ops     == ScaOps \cup {"STOPROIB"}

ASSUME SectorAssumption ==
  /\ NumAttempts \in Nat \ {0}
  /\ MaxTries \in Nat \ {0}
  /\ MaxReconnects \in Nat \ {0}
  /\ MaxOutages \in Nat
  /\ MaxMessages \in Nat
  /\ Commands \subseteq Ops
  /\ None \in Outcomes /\ Outcomes \subseteq Classes
  /\ SlowReconnect \in BOOLEAN

VARIABLES
  fsm,           \* state of the sector controller in the run control
  main,          \* its transition or user command in progress
  reports,       \* the issues main's operation has raised
  scaAvailable,  \* the IS flag (an absent flag reads TRUE)
  failures,      \* class of DeviceManager::getFractionFailed
  svc,           \* the command the SCA service executes, or "idle"
  reconnects,    \* RECONNECT_OPCs queued at the SCA service
  messages,      \* how many RECOVER_OPC(_MESSAGE)s have come from outside
  inbox,         \* SCA_(DIS|RE)CONNECTED queued at the sector controller
  available,     \* m_scaAvailable
  task,          \* the tasks of m_reconnect: the current and the replaced one
  reopened,      \* history: the server ran when that task began, or a
                 \* RECONNECT_OPC has succeeded since
  monitoring,    \* the monitoring threads of the monitoring controller run
  stops,         \* STOPs queued at the monitoring controller
  serverUp,      \* the OPC server runs
  scaAnswers,    \* the SCA of the first device is reachable behind it
  outages        \* how often one of the two was lost

sector  == <<fsm, main, reports>>
async   == <<available, task, reopened>>
world   == <<serverUp, scaAnswers, outages>>
mon     == <<monitoring, stops>>
vars    == <<sector, scaAvailable, failures, svc, reconnects, messages,
             inbox, async, mon, world>>

States   == {"INITIAL", "CONFIGURED", "CONNECTED", "RUNNING", "ROIBSTOPPED"}
Notices  == {"SCA_DISCONNECTED", "SCA_RECONNECTED"}
Recovers == {"RECOVER_OPC", "RECOVER_OPC_MESSAGE"}
MainPcs  == {"idle", "sent", "served", "check", "recover", "sleep", "return",
             "start", "monitor", "done"}
TaskPcs  == {"none", "test", "sleep", "return", "ok", "failed"}
MaxInbox == 2 * MaxMessages + 1

TypeOK ==
  /\ fsm \in States
  /\ main \in [pc: MainPcs, op: Ops,
               counter: 0..NumAttempts, tries: 0..MaxTries]
  /\ reports \in SUBSET {"continuing", "recovering", "fatal", "retryLimit",
                         "cannotRecover", "warning"}
  /\ scaAvailable \in BOOLEAN
  /\ failures \in Classes
  /\ svc \in ScaOps \cup {"idle", "RECONNECT_OPC", "MONITOR"}
  /\ svc \in ScaOps => main.pc = "served" /\ main.op = svc
  /\ reconnects \in 0..MaxReconnects
  /\ messages \in 0..MaxMessages
  /\ inbox \in Seq(Notices) /\ Len(inbox) <= MaxInbox
  /\ available \in BOOLEAN
  /\ task \in [{"new", "old"} -> TaskPcs]
  /\ reopened \in [{"new", "old"} -> BOOLEAN]
  /\ monitoring \in BOOLEAN
  /\ stops \in 0..MaxMessages
  /\ serverUp \in BOOLEAN
  /\ scaAnswers \in BOOLEAN
  /\ outages \in 0..MaxOutages

Active(t) == task[t] \in {"test", "sleep", "return"}

Idle == [pc |-> "idle", op |-> "CONFIGURE", counter |-> 0, tries |-> 0]

Init ==
  /\ fsm = "INITIAL"
  /\ main = Idle
  /\ reports = {}
  /\ scaAvailable = TRUE
  /\ failures = None
  /\ svc = "idle"
  /\ reconnects = 0
  /\ messages = 0
  /\ inbox = <<>>
  /\ available = TRUE
  /\ task = [t \in {"new", "old"} |-> "none"]
  /\ reopened = [t \in {"new", "old"} |-> FALSE]
  /\ monitoring = FALSE
  /\ stops = 0
  /\ serverUp = TRUE
  /\ scaAnswers = TRUE
  /\ outages = 0

-----------------------------------------------------------------------------
(* The world: the OPC server, and the SCA of the first device behind it.   *)

\* unconfigure clears the devices of the SCA service, configure reads them.
HasDevices == fsm # "INITIAL" \/ main.pc # "idle"

ServerStops ==
  /\ serverUp /\ outages < MaxOutages
  /\ serverUp' = FALSE
  /\ outages' = outages + 1
  /\ UNCHANGED <<sector, scaAvailable, failures, svc, reconnects,
                 messages, inbox, async, mon, scaAnswers>>

ServerStarts ==
  /\ ~serverUp
  /\ serverUp' = TRUE
  /\ UNCHANGED <<sector, scaAvailable, failures, svc, reconnects,
                 messages, inbox, async, mon, scaAnswers, outages>>

\* The device falls silent while the server runs on, and answers again.
DeviceStops ==
  /\ scaAnswers /\ outages < MaxOutages
  /\ scaAnswers' = FALSE
  /\ outages' = outages + 1
  /\ UNCHANGED <<sector, scaAvailable, failures, svc, reconnects,
                 messages, inbox, async, mon, serverUp>>

DeviceStarts ==
  /\ ~scaAnswers
  /\ scaAnswers' = TRUE
  /\ UNCHANGED <<sector, scaAvailable, failures, svc, reconnects,
                 messages, inbox, async, mon, serverUp, outages>>

World == ServerStops \/ ServerStarts \/ DeviceStops \/ DeviceStarts

-----------------------------------------------------------------------------
(* The run control starts transitions and user commands, one at a time.    *)

From(op) ==
  CASE op = "CONFIGURE" -> {"INITIAL"}
    [] op = "CONNECT"   -> {"CONFIGURED"}
    [] op = "START"     -> {"CONNECTED"}
    [] op = "STOPROIB"  -> {"RUNNING"}
    [] op = "STOP"      -> {"ROIBSTOPPED"}
    [] OTHER            -> {"CONNECTED", "RUNNING"}

After(op) ==
  CASE op = "CONFIGURE" -> "CONFIGURED"
    [] op = "CONNECT"   -> "CONNECTED"
    [] op = "START"     -> "RUNNING"
    [] op = "STOPROIB"  -> "ROIBSTOPPED"
    [] op = "STOP"      -> "CONNECTED"
    [] OTHER            -> fsm

\* configure, connect, prepareForRun, stopROIB, stopRecording, user: up to
\* the command they send first.
BeginOperation(op) ==
  /\ main.pc = "idle" /\ fsm \in From(op)
  /\ main' = [pc |-> IF op = "STOPROIB" THEN "monitor" ELSE "sent",
              op |-> op, counter |-> 0, tries |-> 0]
  /\ UNCHANGED <<fsm, reports, scaAvailable, failures, svc,
                 reconnects, messages, inbox, async, mon, world>>

EndOperation ==
  /\ main.pc = "done"
  /\ main' = Idle
  /\ reports' = {}
  /\ fsm' = After(main.op)
  /\ UNCHANGED <<scaAvailable, failures, svc, reconnects,
                 messages, inbox, async, mon, world>>

\* disconnect and unconfigure do nothing here; the SCA service takes m_mutex
\* to drop its devices, the error counters stay.
Unconfigure ==
  /\ main.pc = "idle" /\ fsm \in {"CONNECTED", "CONFIGURED"}
  /\ fsm = "CONFIGURED" => svc = "idle"
  /\ fsm' = IF fsm = "CONNECTED" THEN "CONFIGURED" ELSE "INITIAL"
  /\ UNCHANGED <<main, reports, scaAvailable, failures, svc,
                 reconnects, messages, inbox, async, mon, world>>

-----------------------------------------------------------------------------
(* NSWSCAServiceRc::user, under m_mutex, and what it calls in NSWConfig.    *)

\* The operation of the sector controller, forwarded by the configuration
\* controller: the flag is set before the devices are touched.
TakeOperation ==
  /\ svc = "idle" /\ main.pc = "sent"
  /\ svc' = main.op
  /\ main' = [main EXCEPT !.pc = "served"]
  /\ scaAvailable' = TRUE
  /\ UNCHANGED <<fsm, reports, failures, reconnects, messages, inbox,
                 async, mon, world>>

\* The failures the counters hold after an operation: connectRc touches no
\* device and no counter, startRc counts on top of what is there (a fraction
\* above zero stays above zero), the others start from zero.
Failures(op) ==
  CASE op = "CONNECT" -> {failures}
    [] op = "START"   -> Outcomes \ (IF failures = None THEN {} ELSE {None})
    [] OTHER          -> Outcomes

\* checkErrorCounter; START does not call it.
Checked(op)        == op # "START"

\* Fault: nothing is raised above m_errorThresholdRecover.
IsFatal_Never(op, c) == FALSE
IsFatal(op, c)     == Checked(op) /\ c = Fail

\* Fault: the recovery starts only above m_errorThresholdRecover.
MustRecover_Threshold(op, c) == Checked(op) /\ c = Fail
MustRecover(op, c) == Checked(op) /\ c = Recover

\* The issue it raises about an execution of class c.
Raised(op, c) ==
  (IF Checked(op) /\ c = Continue THEN {"continuing"} ELSE {})
    \cup (IF Checked(op) /\ c = Recover THEN {"recovering"} ELSE {})
    \cup (IF IsFatal(op, c) THEN {"fatal"} ELSE {})

FinishOperation(c) ==
  /\ svc \in ScaOps /\ c \in Failures(svc)
  /\ failures' = c
  /\ scaAvailable' = (scaAvailable /\ ~MustRecover(svc, c))
  /\ reports' = reports \cup Raised(svc, c)
  /\ main' = [main EXCEPT !.pc = "check"]
  /\ svc' = "idle"
  /\ UNCHANGED <<fsm, reconnects, messages, inbox, async, mon, world>>

TakeReconnect ==
  /\ svc = "idle" /\ reconnects > 0
  /\ svc' = "RECONNECT_OPC"
  /\ reconnects' = reconnects - 1
  /\ UNCHANGED <<sector, scaAvailable, failures, messages, inbox, async,
                 mon, world>>

\* NSWConfig::recoverOpc: new OPC clients, and is the SCA of the first device
\* reachable?  With no device at all the answer is yes.
\* Fault: the answer of the ping is negated.
Answers_Negated == ~(serverUp /\ scaAnswers) /\ HasDevices
Answers         == (serverUp /\ scaAnswers) \/ ~HasDevices

\* Two SCA_RECONNECTED in a row are handled like one.
Reconnected(queue) ==
  IF queue # <<>> /\ queue[Len(queue)] = "SCA_RECONNECTED" THEN queue
  ELSE Append(queue, "SCA_RECONNECTED")

ReconnectSucceeds ==
  /\ svc = "RECONNECT_OPC" /\ Answers
  /\ scaAvailable' = TRUE
  /\ inbox' = Reconnected(inbox)
  /\ reopened' = [t \in {"new", "old"} |-> reopened[t] \/ Active(t)]
  /\ svc' = "idle"
  /\ UNCHANGED <<sector, failures, reconnects, messages, available, task,
                 mon, world>>

ReconnectFails ==
  /\ svc = "RECONNECT_OPC" /\ ~Answers
  /\ svc' = "idle"
  /\ UNCHANGED <<sector, scaAvailable, failures, reconnects, messages,
                 inbox, async, mon, world>>

\* RECOVER_OPC and RECOVER_OPC_MESSAGE, which come from outside (an operator):
\* notifyScaUnavailable.
ExecuteRecover(command) ==
  /\ svc = "idle" /\ HasDevices
  /\ messages < MaxMessages
  /\ messages' = messages + 1
  /\ scaAvailable' = FALSE
  /\ inbox' = IF command = "RECOVER_OPC_MESSAGE"
              THEN Append(inbox, "SCA_DISCONNECTED") ELSE inbox
  /\ UNCHANGED <<sector, failures, svc, reconnects, async, mon,
                 world>>

\* A MONITOR of one of the monitoring threads, which waits for its end.
TakeMonitor ==
  /\ svc = "idle" /\ monitoring
  /\ svc' = "MONITOR"
  /\ UNCHANGED <<sector, scaAvailable, failures, reconnects, messages,
                 inbox, async, mon, world>>

\* The readout of a device catches its own exceptions (MonitorHelper::doWork),
\* so the flag stays as it is although user() would lower it.
FinishMonitor ==
  /\ svc = "MONITOR"
  /\ svc' = "idle"
  /\ UNCHANGED <<sector, scaAvailable, failures, reconnects, messages,
                 inbox, async, mon, world>>

-----------------------------------------------------------------------------
(* NSWSectorControllerRc: after a command sent with timeout 0.             *)

\* Fault: one attempt too many.
KeepTrying_OneMore(counter) == counter <= NumAttempts
KeepTrying(counter)         == counter < NumAttempts

MainUnchanged == UNCHANGED <<fsm, scaAvailable, failures, svc, messages,
                             inbox, async, mon, world>>

\* retryOpc: opcConnected() after func().
RetrySucceeds ==
  /\ main.pc = "check" /\ main.op \in Retried /\ scaAvailable
  /\ main' = [main EXCEPT !.pc = "done"]
  /\ UNCHANGED <<reports, reconnects>> /\ MainUnchanged

RetryFails ==
  /\ main.pc = "check" /\ main.op \in Retried /\ ~scaAvailable
  /\ reports' = reports \cup
       IF main.counter = NumAttempts - 1 THEN {"retryLimit"} ELSE {}
  /\ main' = [main EXCEPT !.pc = "recover", !.tries = 0]
  /\ UNCHANGED reconnects /\ MainUnchanged

\* recoverOpc: one round of its loop.
RecoverSends ==
  /\ main.pc = "recover" /\ ~scaAvailable /\ main.tries < MaxTries
  /\ reconnects < MaxReconnects
  /\ reconnects' = reconnects + 1
  /\ main' = [main EXCEPT !.pc = "sleep", !.tries = @ + 1]
  /\ UNCHANGED reports /\ MainUnchanged

\* The 5 s are over; unless SlowReconnect, so are the queued RECONNECT_OPCs.
IntervalOver == SlowReconnect \/ (reconnects = 0 /\ svc # "RECONNECT_OPC")

RecoverWakes ==
  /\ main.pc = "sleep" /\ IntervalOver
  /\ main' = [main EXCEPT !.pc = "recover"]
  /\ UNCHANGED <<reports, reconnects>> /\ MainUnchanged

RecoverLeaves ==
  /\ main.pc = "recover" /\ (scaAvailable \/ main.tries = MaxTries)
  /\ main' = [main EXCEPT !.pc = "return"]
  /\ UNCHANGED <<reports, reconnects>> /\ MainUnchanged

\* recoverOpc returns opcConnected(), read again; retryOpc goes on with the
\* next attempt whether or not it could recover.
RecoverReturns ==
  /\ main.pc = "return"
  /\ reports' = reports \cup IF scaAvailable THEN {} ELSE {"cannotRecover"}
  /\ main' = [main EXCEPT
       !.counter = @ + 1,
       !.pc = IF KeepTrying(main.counter + 1) THEN "sent" ELSE "done"]
  /\ UNCHANGED reconnects /\ MainUnchanged

\* prepareForRun reads the flag twice, first for the warning.
StartWarns ==
  /\ main.pc = "check" /\ main.op = "START"
  /\ reports' = reports \cup IF scaAvailable THEN {} ELSE {"warning"}
  /\ main' = [main EXCEPT !.pc = "start"]
  /\ UNCHANGED reconnects /\ MainUnchanged

StartMonitors ==
  /\ main.pc = "start"
  /\ main' = [main EXCEPT !.pc = IF scaAvailable THEN "monitor" ELSE "done"]
  /\ UNCHANGED <<reports, reconnects>> /\ MainUnchanged

StopEnds ==
  /\ main.pc = "check" /\ main.op = "STOP"
  /\ main' = [main EXCEPT !.pc = "done"]
  /\ UNCHANGED <<reports, reconnects>> /\ MainUnchanged

-----------------------------------------------------------------------------
(* NSWMonitoringControllerRc: START and STOP first stop and join the       *)
(* threads, each of which may be waiting for its MONITOR.                  *)

\* Fault: the threads are asked to stop but not joined.
Joined_NoJoin == TRUE
Joined == svc # "MONITOR"

MonitoringCommand ==
  /\ main.pc = "monitor" /\ Joined
  /\ monitoring' = (main.op = "START")
  /\ main' = [main EXCEPT !.pc = "done"]
  /\ UNCHANGED <<fsm, reports, scaAvailable, failures, svc, reconnects,
                 messages, inbox, async, stops, world>>

MonitoringStops ==
  /\ stops > 0 /\ Joined
  /\ stops' = stops - 1
  /\ monitoring' = FALSE
  /\ UNCHANGED <<sector, scaAvailable, failures, svc, reconnects,
                 messages, inbox, async, world>>

-----------------------------------------------------------------------------
(* NSWSectorControllerRc::user for SCA_DISCONNECTED and SCA_RECONNECTED,   *)
(* and the tasks of m_reconnect.  The assignment to m_reconnect waits for  *)
(* the end of the task it replaces.                                        *)

HandlerFree == ~Active("old")

HandleDisconnected ==
  /\ HandlerFree /\ inbox # <<>> /\ Head(inbox) = "SCA_DISCONNECTED"
  /\ inbox' = Tail(inbox)
  /\ available' = FALSE
  /\ IF available /\ fsm = "RUNNING"
     THEN /\ stops' = stops + 1
          /\ task' = [t \in {"new", "old"} |->
                        IF t = "new" THEN "test"
                        ELSE IF Active("new") THEN task["new"] ELSE "none"]
          /\ reopened' = [t \in {"new", "old"} |->
                            IF t = "new" THEN serverUp ELSE reopened["new"]]
     ELSE UNCHANGED <<stops, task, reopened>>
  /\ UNCHANGED <<sector, scaAvailable, failures, svc, reconnects,
                 messages, monitoring, world>>

HandleReconnected ==
  /\ HandlerFree /\ inbox # <<>> /\ Head(inbox) = "SCA_RECONNECTED"
  /\ inbox' = Tail(inbox)
  /\ available' = TRUE
  /\ UNCHANGED <<sector, scaAvailable, failures, svc, reconnects,
                 messages, task, reopened, mon, world>>

TaskUnchanged == UNCHANGED <<sector, scaAvailable, failures, svc,
                             messages, inbox, available, reopened, mon, world>>

\* recoverOpc with a timeout of 24 h: no bound on its rounds.
TaskSends(t) ==
  /\ task[t] = "test" /\ ~scaAvailable /\ reconnects < MaxReconnects
  /\ reconnects' = reconnects + 1
  /\ task' = [task EXCEPT ![t] = "sleep"]
  /\ TaskUnchanged

TaskWakes(t) ==
  /\ task[t] = "sleep" /\ IntervalOver
  /\ task' = [task EXCEPT ![t] = "test"]
  /\ UNCHANGED reconnects /\ TaskUnchanged

TaskFindsFlag(t) ==
  /\ task[t] = "test" /\ scaAvailable
  /\ task' = [task EXCEPT ![t] = "return"]
  /\ UNCHANGED reconnects /\ TaskUnchanged

TaskTimesOut(t) ==
  /\ task[t] = "test" /\ ~scaAvailable
  /\ task' = [task EXCEPT ![t] = "return"]
  /\ UNCHANGED reconnects /\ TaskUnchanged

TaskReturns(t) ==
  /\ task[t] = "return"
  /\ task' = [task EXCEPT ![t] = IF scaAvailable THEN "ok" ELSE "failed"]
  /\ UNCHANGED reconnects /\ TaskUnchanged

-----------------------------------------------------------------------------
MainRetries ==
  \/ RetrySucceeds \/ RetryFails
  \/ RecoverSends \/ RecoverWakes \/ RecoverLeaves \/ RecoverReturns

MainOther ==
  \/ StartWarns \/ StartMonitors \/ StopEnds
  \/ MonitoringCommand \/ EndOperation

SvcFinishes ==
  \/ \E c \in Classes : FinishOperation(c)
  \/ ReconnectSucceeds \/ ReconnectFails
  \/ FinishMonitor

Handle == HandleDisconnected \/ HandleReconnected

TaskSteps(t) ==
  TaskSends(t) \/ TaskWakes(t) \/ TaskFindsFlag(t) \/ TaskReturns(t)

Next ==
  \/ World
  \/ \E op \in Commands : BeginOperation(op)
  \/ Unconfigure
  \/ MainRetries \/ MainOther
  \/ TakeOperation \/ TakeReconnect \/ TakeMonitor \/ SvcFinishes
  \/ \E command \in Recovers : ExecuteRecover(command)
  \/ MonitoringStops \/ Handle
  \/ \E t \in {"new", "old"} : TaskSteps(t) \/ TaskTimesOut(t)

Spec == Init /\ [][Next]_vars

\* Every thread runs on.  m_mutex of the SCA service is not fair, but between
\* two MONITORs a thread sleeps at least 500 ms and between two RECONNECT_OPCs
\* 5 s: a command that waits for the mutex gets it in the end.
FairSpec ==
  /\ Spec
  /\ WF_vars(MainRetries) /\ WF_vars(MainOther)
  /\ SF_vars(TakeOperation) /\ SF_vars(TakeReconnect)
  /\ WF_vars(SvcFinishes)
  /\ SF_vars(MonitoringStops) /\ SF_vars(MonitoringCommand)
  /\ WF_vars(Handle)
  /\ \A t \in {"new", "old"} : WF_vars(TaskSteps(t))

-----------------------------------------------------------------------------
(* Properties.                                                             *)

\* The issues that give an operation up: checkErrorCounter's ers::fatal and
\* the one about the last attempt of retryOpc.  "Trying to recover OPC" only
\* announces a repair and a further attempt.
GivenUp == reports \cap {"fatal", "retryLimit"} # {}

\* retryOpc (h:89, "Retry an operation if OPC dies during the operation"):
\* after an execution in which so many devices failed that it is to be
\* repeated or given up, it does not return as after a success: there was a
\* further attempt, or an issue says that there will be none.
\* It holds as long as no RECONNECT_OPC outlives the 5 s between two
\* looks at the flag and none comes from a task of m_reconnect.
NoUnrepairedSuccess ==
  (main.pc = "done" /\ main.op \in Retried /\ failures > Continue)
    => GivenUp

\* Outside of a run nothing reads the devices: once stopROIB has returned no
\* monitoring thread is left and no MONITOR of one waits at or runs in the SCA
\* service, although STOP may also come from a handler of SCA_DISCONNECTED.
MonitoringOnlyInRun ==
  (main.pc = "idle" /\ fsm # "RUNNING") => ~monitoring /\ svc # "MONITOR"

\* recoverOpc (h:83-84, "true reconnected, false remains disconnected"): a
\* task that reports a recovery began with a running server, or the SCA service
\* has reconnected since.
RecoverTellsTruth ==
  \A t \in {"new", "old"} : task[t] = "ok" => reopened[t]

\* With the OPC server and the first device back for good and no further
\* operation that may fail, the tasks of m_reconnect come to an end within
\* their 24 h, and with them the handler that waits for the task it replaces.
RecoveryEnds ==
  <>[](serverUp /\ scaAnswers /\ main.pc = "idle")
    => <>[](~Active("new") /\ ~Active("old"))

\* A retried operation implements RetriedOperation: see there.
InRetry  == main.op \in Retried /\ main.pc # "idle"
Executed == IF main.pc \in {"sent", "served"} \/ main.counter = NumAttempts
            THEN main.counter ELSE main.counter + 1

Operation == INSTANCE RetriedOperation WITH
  Limit    <- NumAttempts,
  phase    <- IF InRetry THEN "running" ELSE "idle",
  attempts <- IF InRetry THEN Executed ELSE 0,
  told     <- InRetry /\ GivenUp,
  verdict  <- IF ~InRetry \/ Executed = 0 THEN "none"
              ELSE IF failures > Continue THEN "failed" ELSE "ok"

\* Every CONFIGURE, CONNECT, ENABLE_VMM and RESET_STGCTP of the sector is
\* executed at most m_opcReconnectAttemptLimit times, ends, and does not end
\* as after a success when its last execution was to be repeated.
RefinesRetriedOperation == Operation!Spec
=============================================================================
