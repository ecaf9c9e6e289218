---------------------------- MODULE DeviceManager ----------------------------
(***************************************************************************)
(* DeviceManager: the operations of a sector on its devices, as            *)
(* NSWConfig::configureRc, startRc, stopRc, enableVmmCaptureInputs and     *)
(* resetSTGCTP ask for them.  An operation is a list of stages; a stage is *)
(* one applyFunc, which runs one procedure on all devices of a kind, each  *)
(* in a thread of its own or one after the other, and then counts those    *)
(* that failed.  Any access to a device may throw, with or without effect. *)
(***************************************************************************)
EXTENDS FrontEnd, ArtAddc, PadTrigger

CONSTANTS
  Sectors,        \* the sectors to look at: the devices of each kind, in the
                  \* order in which they were added
  Settings,       \* what the configuration of a device asks for
  Options,        \* DeviceManager::Options given to configure()
  Modes,          \* the values of m_multithreaded
  MaxFaults       \* bound: accesses that throw

Kinds == {"FEB", "ADDC", "MMTP", "Router", "PadTrigger", "STGCTP", "TPCarrier"}
Devices == DOMAIN Settings
KindOf == [d \in Devices |->
  CHOOSE k \in Kinds : \E sector \in Sectors : d \in Range(sector[k])]

ASSUME DeviceAssumption ==
  /\ \A sector \in Sectors :
       /\ DOMAIN sector = Kinds
       /\ \A k \in Kinds : sector[k] \in Seq(Devices) /\ IsInjective(sector[k])
  /\ \A d \in Devices : \E k \in Kinds : \A sector \in Sectors, l \in Kinds :
       d \in Range(sector[l]) => l = k
  /\ Options \subseteq {"resetVmm", "resetTds", "disableCaptures"}
  /\ Modes \subseteq BOOLEAN
  /\ MaxFaults \in Nat

VARIABLES
  op,      \* the operation in progress, or the last one
  left,    \* its stages still to come
  batch,   \* the devices of the stage whose results are still to be looked at
  result,  \* of the task of each device
  todo,    \* the steps it has still to do
  blamed,  \* devices that failed in this operation, or that an issue was
           \* raised about
  hw,      \* the devices
  errors,  \* m_configurationErrorCounter
  total,   \* m_configurationTotalCounter
  faults,  \* accesses that have thrown
  multithreaded,  \* m_multithreaded
  boards   \* the sector

vars == <<op, left, batch, result, todo, blamed, hw, errors, total, faults,
          multithreaded, boards>>
setup == <<multithreaded, boards>>

Operations == {"CONFIGURE", "START", "STOP", "ENABLE_VMM", "RESET_STGCTP"}
Procedures == {"writeConfiguration", "enableChannelRates", "disableChannelRates",
               "enableVmmCaptureInputs", "disableVmmCaptureInputs",
               "toggleIdleState", "toggleIdleStateHigh", "doReset"}
Results    == {"none", "waiting", "running", "ok", "failed"}

Lines == [d \in Devices |->
  CASE KindOf[d] = "FEB"        -> FebLines
    [] KindOf[d] = "ADDC"       -> AddcLines
    [] KindOf[d] = "MMTP"       -> MmtpLines
    [] KindOf[d] = "Router"     -> RouterLines
    [] KindOf[d] = "PadTrigger" -> PadTriggerLines
    [] KindOf[d] = "STGCTP"     -> StgctpLines
    [] KindOf[d] = "TPCarrier"  -> CarrierLines]

TypeOK ==
  /\ op \in Operations \cup {"none"}
  /\ left \in Seq(Kinds \X Procedures)
  /\ batch \in Seq(Devices)
  /\ result \in [Devices -> Results]
  /\ \A d \in Devices : result[d] \in {"waiting", "running"} <=> todo[d] # <<>>
  /\ blamed \subseteq Devices
  /\ \A d \in Devices : DOMAIN hw[d] = Lines[d]
  /\ errors \in Nat /\ total \in Nat
  /\ faults \in 0..MaxFaults
  /\ multithreaded \in Modes /\ boards \in Sectors

Init ==
  /\ op = "none"
  /\ left = <<>>
  /\ batch = <<>>
  /\ result = [d \in Devices |-> "none"]
  /\ todo = [d \in Devices |-> <<>>]
  /\ blamed = {}
  /\ hw = [d \in Devices |-> [line \in Lines[d] |-> "unknown"]]
  /\ errors = 0
  /\ total = 0
  /\ faults = 0
  /\ multithreaded \in Modes /\ boards \in Sectors

\* The applyFuncs of an operation.
Stages(o) ==
  CASE o = "CONFIGURE" ->
         [i \in 1..7 |-> <<<<"FEB", "ADDC", "MMTP", "Router", "PadTrigger",
                             "STGCTP", "TPCarrier">>[i], "writeConfiguration">>]
    [] o = "START" -> <<<<"MMTP", "enableChannelRates">>>>
    [] o = "STOP"  -> <<<<"FEB", "disableVmmCaptureInputs">>,
                        <<"MMTP", "disableChannelRates">>,
                        <<"PadTrigger", "toggleIdleState">>,
                        <<"MMTP", "toggleIdleStateHigh">>,
                        <<"STGCTP", "doReset">>>>
    [] o = "ENABLE_VMM"   -> <<<<"FEB", "enableVmmCaptureInputs">>>>
    [] o = "RESET_STGCTP" -> <<<<"STGCTP", "doReset">>>>

\* The operations that call resetErrorCounters, all of them first of all.
ResetsCounters(o) == o # "START"

WriteConfiguration(d) ==
  LET s == Settings[d]
  IN CASE KindOf[d] = "FEB"        -> WriteFeb(s \cup Options)
       [] KindOf[d] = "ADDC"       -> WriteAddc(s)
       [] KindOf[d] = "MMTP"       -> WriteMmtp(s)
       [] KindOf[d] = "Router"     -> WriteRouter(s)
       [] KindOf[d] = "PadTrigger" -> WritePadTrigger(s)
       [] KindOf[d] = "STGCTP"     -> WriteStgctp(s)
       [] KindOf[d] = "TPCarrier"  -> WriteCarrier

\* The function a stage applies to a device.
Procedure(d, func) ==
  CASE func = "writeConfiguration"      -> WriteConfiguration(d)
    [] func = "enableChannelRates"      ->
         EnableChannelRates(IF "rates" \in Settings[d] THEN "on" ELSE "off")
    [] func = "disableChannelRates"     -> EnableChannelRates("off")
    [] func = "enableVmmCaptureInputs"  -> EnableVmmCaptureInputs
    [] func = "disableVmmCaptureInputs" -> DisableVmmCaptureInputs
    [] func = "toggleIdleState"         -> ToggleIdleState(Settings[d])
    [] func = "toggleIdleStateHigh"     -> ToggleIdleStateHigh
    [] func = "doReset"                 -> DoReset(Settings[d])

Busy == left # <<>> \/ batch # <<>>

Begin(o) ==
  /\ ~Busy
  /\ o # "CONFIGURE" => op # "none"   \* the run control configures first
  /\ o = "START" => op # "START"      \* and does not start twice
  /\ op' = o
  /\ left' = Stages(o)
  /\ result' = [d \in Devices |-> "none"]
  /\ blamed' = {}
  /\ IF ResetsCounters(o) THEN errors' = 0 /\ total' = 0
                          ELSE UNCHANGED <<errors, total>>
  /\ UNCHANGED <<batch, todo, hw, faults, setup>>

\* applyFunc up to the first future: with threads all tasks are launched,
\* without them only the first one.  A task without a step has ended.
BeginStage ==
  /\ batch = <<>> /\ left # <<>>
  /\ LET kind == Head(left)[1]
         devs == boards[kind]
         task == [d \in Range(devs) |-> Procedure(d, Head(left)[2])]
         first(d) == IF task[d] = <<>> THEN "ok"
                     ELSE IF multithreaded \/ d = devs[1] THEN "running"
                     ELSE "waiting"
     IN /\ batch' = devs
        /\ total' = total + Len(devs)
        /\ todo' = [d \in Devices |-> IF d \in Range(devs) THEN task[d] ELSE todo[d]]
        /\ result' = [d \in Devices |-> IF d \in Range(devs) THEN first(d) ELSE result[d]]
  /\ left' = Tail(left)
  /\ UNCHANGED <<op, blamed, hw, errors, faults, setup>>

\* Fault: the future is not waited for.
Collect_NoWait ==
  /\ batch # <<>>
  /\ errors' = IF result[Head(batch)] = "failed" THEN errors + 1 ELSE errors
  /\ batch' = Tail(batch)
  /\ UNCHANGED <<op, left, result, todo, blamed, hw, total, faults, setup>>

\* A future is looked at; without threads this starts the next task.
Collect ==
  /\ batch # <<>> /\ result[Head(batch)] \in {"ok", "failed"}
  /\ errors' = IF result[Head(batch)] = "failed" THEN errors + 1 ELSE errors
  /\ batch' = Tail(batch)
  /\ result' = IF batch' # <<>> /\ result[Head(batch')] = "waiting"
                 THEN [result EXCEPT ![Head(batch')] = "running"]
                 ELSE result
  /\ UNCHANGED <<op, left, todo, blamed, hw, total, faults, setup>>

\* Only a FEB has PLLs.
Written(d, step) == Effect(hw[d], step, KindOf[d] = "FEB")

\* A task goes on with the steps "rest", or ends.
Continue(d, rest) ==
  /\ todo' = [todo EXCEPT ![d] = rest]
  /\ result' = [result EXCEPT ![d] = IF rest = <<>> THEN "ok" ELSE @]

Step(d) ==
  /\ result[d] = "running"
  /\ LET step == Head(todo[d])
         rest == Tail(todo[d])
     IN /\ step.do # "raise"
        /\ step.do = "await" => hw[d][step.line] = step.value
        /\ \E way \in (IF step.do = "choose" THEN step.ways ELSE {<<>>}) :
             Continue(d, way \o rest)
        /\ hw' = IF step.do \in Changes
                   THEN [hw EXCEPT ![d] = Written(d, step)] ELSE hw
        /\ blamed' = IF step.do = "warn" THEN blamed \cup {d} ELSE blamed
  /\ UNCHANGED <<op, left, batch, errors, total, faults, setup>>

\* Fault: the exception is noted, but the procedure goes on behind it.
Throws_GoesOn(d) ==
  /\ blamed' = blamed \cup {d}
  /\ todo' = [todo EXCEPT ![d] = Tail(@)]
  /\ result' = [result EXCEPT ![d] = "failed"]

\* An exception ends the task (checkSuccess) unless the procedure catches it.
Throws(d) ==
  IF IsCaught(todo[d])
    THEN Continue(d, AfterThrow(todo[d])) /\ UNCHANGED blamed
    ELSE /\ todo' = [todo EXCEPT ![d] = <<>>]
         /\ result' = [result EXCEPT ![d] = "failed"]
         /\ blamed' = blamed \cup {d}

\* An access that fails, after it had its effect or before.
Fault(d) ==
  /\ result[d] = "running"
  /\ faults < MaxFaults
  /\ Head(todo[d]).do \in {"write", "read", "await"}
  /\ \/ hw' = hw
     \/ /\ Head(todo[d]).do = "write"
        /\ hw' = [hw EXCEPT ![d] = Written(d, Head(todo[d]))]
  /\ Throws(d)
  /\ faults' = faults + 1
  /\ UNCHANGED <<op, left, batch, errors, total, setup>>

\* The procedure itself throws.
RaiseStep(d) ==
  /\ result[d] = "running"
  /\ Head(todo[d]).do = "raise"
  /\ Throws(d)
  /\ UNCHANGED <<op, left, batch, hw, errors, total, faults, setup>>

\* The PLLs of a ROC lock some time after their reset is taken away.
Lock(d) ==
  /\ KindOf[d] = "FEB"
  /\ hw[d]["pllReset"] = "inactive" /\ hw[d]["pllLocked"] # "yes"
  /\ hw' = [hw EXCEPT ![d]["pllLocked"] = "yes"]
  /\ UNCHANGED <<op, left, batch, result, todo, blamed, errors, total,
                 faults, setup>>

Next ==
  \/ \E o \in Operations : Begin(o)
  \/ BeginStage
  \/ Collect
  \/ \E d \in Devices : Step(d) \/ Fault(d) \/ RaiseStep(d) \/ Lock(d)

Spec == Init /\ [][Next]_vars

\* Some thread that can go on does, and PLLs lock.
Fairness ==
  /\ WF_vars(BeginStage \/ Collect \/ \E d \in Devices : Step(d) \/ RaiseStep(d))
  /\ WF_vars(\E d \in Devices : Lock(d))
FairSpec == Spec /\ Fairness

(***************************************************************************)
(* Properties.                                                             *)
(***************************************************************************)
\* What a successful operation has done to a device.
Achieved(o, d) ==
  LET h == hw[d]
      s == Settings[d]
      k == KindOf[d]
  IN CASE o = "CONFIGURE" /\ k = "FEB" ->
            /\ FebReady(h, s \cup Options)
            /\ "disableCaptures" \in Options => h["captures"] = "off"
       [] o = "CONFIGURE" /\ k = "ADDC"       -> AddcReady(h, s)
       [] o = "CONFIGURE" /\ k = "MMTP"       -> MmtpReady(h, s)
       [] o = "CONFIGURE" /\ k = "Router"     -> RouterReady(h, s)
       [] o = "CONFIGURE" /\ k = "PadTrigger" -> PadTriggerReady(h, s)
       [] o = "CONFIGURE" /\ k = "STGCTP"     -> StgctpReady(h, s)
       [] o = "CONFIGURE" /\ k = "TPCarrier"  -> CarrierReady(h)
       [] o = "START" -> "rates" \in s <=> h["channelRates"] = "on"
       [] o = "STOP" /\ k = "FEB"  -> h["captures"] = "off"
       [] o = "STOP" /\ k = "MMTP" ->
            h["channelRates"] = "off" /\ h["latTxIdle"] = "inactive"
       [] o = "STOP" /\ k = "PadTrigger" -> "toggle" \in s => h["idle"] = "off"
       [] o = "ENABLE_VMM" -> h["captures"] = "configured"
       [] OTHER -> "doReset" \in s => /\ h["rxReset"] = "inactive"
                                      /\ h["txReset"] = "inactive"

\* A device that an operation has worked on, that has not failed and that no
\* issue was raised about, is as the operation was to leave it, also after an
\* earlier failure: resets taken back, acquisition running, inputs and channel
\* rates switched as asked for.  A pad trigger that only scans has the delays
\* found before the scan (PadTrigger.cpp:737-743, DelaysReady), which are
\* those of its configuration only if the same procedure has sent it.
SuccessMeansAchieved ==
  ~Busy => \A d \in Devices :
             result[d] # "none" /\ d \notin blamed => Achieved(op, d)

\* The analog registers of a ROC take their values only while its PLLs are in
\* reset (ROC.cpp:33-42), the registers of VMMs while their acquisition is off
\* (VMM.cpp:33-62), and the e-ports of an ART's GBTx are trained while all its
\* inputs are masked.  One analog register is excepted: reg122vmmEnaInv, the
\* acquisition, is of that bank (I2cRegisterMappings.h:309), for all of which
\* ROC::writeRegister takes the reset (ROC.cpp:109-119), but it is switched off
\* and on with the PLLs running (VMM.cpp:36, 62).  The value that is configured
\* for it, it takes in the reset like the others.
HeldWhileWritten ==
  [][\A d \in {e \in Devices : hw'[e] # hw[e]} :
       LET changes(line) == hw'[d][line] # hw[d][line]
       IN CASE KindOf[d] = "FEB" ->
                 /\ changes("rocAnalog") => hw[d]["pllReset"] = "active"
                 /\ changes("acquisition") =>
                      hw'[d]["acquisition"] \in {"off", "on"} \/ hw[d]["pllReset"] = "active"
                 /\ changes("vmms") => hw[d]["acquisition"] = "off"
            [] KindOf[d] = "ADDC" -> \A i \in Arts :
                 changes(<<i, "eports">>) => hw[d][<<i, "mask">>] = "all"
            [] OTHER -> TRUE]_hw

\* The devices of the stage that were not looked at yet.
Unended == {d \in Range(batch) : result[d] \in {"waiting", "running"}}
Unseen  == {d \in Range(batch) : result[d] \in {"ok", "failed"}}
Broken  == {d \in Range(batch) : result[d] = "failed"}

\* Every device of a stage is tried once, looked at once and after its task
\* has ended, and counted as failed if its task threw.
Tasks == INSTANCE DeviceTasks WITH
  running <- Unended, ended <- Unseen, broken <- Broken,
  failed <- errors, tried <- total
CountsEachDeviceOnce == Tasks!Spec

\* An operation ends, if the PLLs lock.
OperationEnds == Busy ~> ~Busy
=============================================================================
