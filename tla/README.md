# TLA+ models of NSWConfiguration

These modules model the control logic of NSWConfiguration, the software that
configures, monitors and recovers the electronics of the ATLAS New Small Wheel
through OPC UA servers. They are translated from the C++ sources; paths below
are relative to the repository.

## 1. The system

One *sector* is run by four run-control applications and the devices they talk
to:

    run control --transitions--> NSWSectorControllerRc
                                   |  CONFIGURE, CONNECT, START, STOP, ...   (waits)
                                   v
                          NSWConfigurationControllerRc --same command-->  NSWSCAServiceRc
                                                                             |  m_mutex
    NSWSectorControllerRc --START, STOP--> NSWMonitoringControllerRc --MONITOR--^
    NSWSectorControllerRc --RECONNECT_OPC (does not wait)----------------------^
    NSWSCAServiceRc --SCA_DISCONNECTED, SCA_RECONNECTED (does not wait)--> NSWSectorControllerRc
    NSWSCAServiceRc --> NSWConfig --> DeviceManager --> devices --> OpcManager --> OPC servers
    IS flag <sector>.scaAvailable: written by the SCA service, read by the sector controller

| Component | State | Operations | Hard behaviour | Correct when |
|---|---|---|---|---|
| OpcManager | clients by server and device, bad connections, background and reconnect threads, m_mutex | getConnection, ping loop, analyzePingResults, testServerRestart, clear | four kinds of thread, raw pointers, joins, server outages | list and table agree, joins end, threads find their entries, outages are recorded, pointers stay valid |
| Sector controller | run-control state, m_scaAvailable, m_reconnect | configure, connect, prepareForRun, stopROIB, stopRecording, user, retryOpc, recoverOpc | retries, timeouts, tasks that outlive their state | failures are repeated or reported, operations end, monitoring only in a run |
| SCA service | IS flag, counters, m_mutex | user, unconfigure | commands of several senders in any order | the flag tells the truth about the last operation |
| Configuration controller | none | forwards commands and waits | none | |
| Monitoring controller | monitoring threads | START, STOP, one loop per group | stop against sleep and MONITOR in progress | STOP leaves no thread |
| DeviceManager | devices, two counters | configure, resets, toggles, applyFunc | parallel tasks, partial failure | each failing device counted once; devices that did not fail are as asked for |
| NSWConfig | the manager, L1DDCs, ADDCs, task list | readConf, configureRc, startRc, stopRc, recoverOpc, configureADDCs | task pools with a limit, elements that cannot be read | what cannot be read is reported, pools end |
| Devices (ROC, VMM, TDS, ART, Router, PadTrigger, MMTP, STGCTP, TPCarrier) | registers and pins of the device | write sequences, alignment, resets, register access | exceptions inside a sequence, bounded and unbounded retries, fields that share a register | reset and acquisition lines end in the right state, neighbours keep their values |
| ConfigSender | one client per server | front ends, ADDCs, trigger processors, GBTx and L1DDC with readback and retry | retry limits, chunks, training that must be taken back | success iff the board holds what was asked for |
| OpcClient | session | read and write with MAX_RETRY | retries of accesses that had their effect | exception iff all tries failed |
| Codecs and tables | VMM bit string, I2C registers, GBTx registers | set, merge, translate | field widths, shifts, bit order | round trip, agreement with the layout |
| Configuration readers | device hierarchy, JSON tree | parse, merge, adjust | disabled sub-devices, errors half-way | only and all that is enabled is configured |
| Programs (`configure_frontend`, `configure_gbtx`, `configure_tp`) | futures | one task per board, a limit | failing boards, polling for a free slot | they end, results tell the truth |

Wrappers around property trees, display and calibration programs, run control names
and vendored code have no behaviour worth a model; `PROJECT.json` lists them with
the reason, section 6 says what else is left out.

## 2. Modules

| Module | Models |
|---|---|
| `OpcManager` | `src/hw/OpcManager.cpp`, one action per step between two points where another thread may come in |
| `OpcManagerProofs` | theorems about it |
| `MCOpcManager` | device tables for its instances |
| `SectorControl` | `NSWSectorControllerRc`, `NSWSCAServiceRc::user`, the configuration controller's forwarding, start and stop of the monitoring controller, `NSWConfig::recoverOpc` and the counters as the SCA service sees them |
| `SectorControlProofs` | theorems about it |
| `RetriedOperation` | the abstract specification of an operation handed to `retryOpc` |
| `DeviceAccess` | the steps the procedures of devices are made of: write, read, wait, choose, attempt with a handler |
| `FrontEnd`, `ArtAddc`, `TriggerDevices`, `PadTrigger` | the procedures of `hw/FEB, ROC, VMM, TDS`; `hw/ADDC, ART`; `hw/Router, MMTP, STGCTP, TPCarrier`; `hw/PadTrigger` |
| `DeviceManager` | `hw/DeviceManager`: the operations of a sector on its devices, with tasks and counters |
| `DeviceProceduresProofs` | a program logic for the procedures of devices, one rule per construct of `DeviceAccess`; what each procedure leaves behind, and what it holds while it writes, with that logic |
| `DeviceManagerProofs` | theorems about `DeviceManager` |
| `DeviceTasks` | the abstract specification of `applyFunc` and its counters |
| `DeviceTasksProofs` | theorems about it |
| `BitSets`, `RegisterLayout`, `ConfigConverter` | values as sets of bits; `I2cMasterConfig` and its codec; `ConfigConverter` with its translation maps |
| `RocRegisters`, `TdsRegisters`, `ArtRegisters`, `PadTriggerRegisters` | the register tables and translation maps of each kind of device |
| `RegisterAccess` | reading and writing registers and values of these devices |
| `GbtxRegisters` | `GBTxConfig` and `GBTxRegisterMap`: settings and the registers they occupy |
| `L1ddcConfiguration` | `configure_gbtx` and `ConfigSender::sendL1DDCConfig` below it |
| `ConfigSender`, `SenderTools` | the other procedures of `ConfigSender`; the programs and pools that execute them |
| `SenderToolsProofs` | theorems about them |
| `VmmConfig` | `VMMConfig` and `VMMCodec`: settings and bit string |
| `Deskew` | `PadTrigger::deskewPFEBs` and all it calls |
| `ConfigurationToolsProofs` | theorems about `VmmConfig`, `Deskew`, `RegisterAccess` and `ConfigReader` |
| `ConfigReader` | `OKSDeviceHierarchy`, `ConfigReaderJsonApi`, `ConfigReaderApi`, `NSWConfig::readConfigurationResource` |
| `MC*` | small instances; `MCConfigurationTools` puts `SenderTools`, `VmmConfig`, `Deskew` and `ConfigReader` side by side |

**OpcManager.** `client`, `bad`, `ports` and `badPorts` are `m_connections` and
`m_badConnections`; the session inside a client is external (open or broken; a
server stop breaks it, and a broken session may or may not come back by itself).
`bgPc` is `pingConnections` (one action per device ping, since the mutex is held
but servers go on stopping), `recPc[p]` is `testServerRestart` of server p, `clr`
is `doClear`. `GetConnection` is one step under the mutex, `ReleaseHandle` the end
of the operation that uses the pointer. The background thread is started in the
initialiser list, before the members declared after it exist: with `EarlyStart`
it may lock the mutex before that, and may then be stuck (`BgLockEarly`).

**SectorControl.** `main` is the transition or user command in progress with the
position in `retryOpc` and `recoverOpc`; `svc` is the command the SCA service
executes under `m_mutex`. A command sent with timeout 0 is a position of its
sender (`"sent"`), a command sent without one is counted (`reconnects`, `stops`) or
queued (`inbox`). An operation is two steps, `TakeOperation` (the flag is set to
true) and `FinishOperation` (devices done, `checkErrorCounter`), so that readers of
the flag see the time in between. The fraction of failed devices is a class: none,
continue, recover, fail. `task` has the tasks behind `m_reconnect`: the current one
and the one whose end the assignment waits for. `reopened` is a history variable.
A RECONNECT_OPC succeeds if the OPC server runs and the first device of the sector
answers the ping behind it (`NSWConfig.cpp:266-298`); `serverUp` and `scaAnswers` come and
go on their own. `reports` has every issue raised in an operation, also the warnings of
`checkErrorCounter` ("Continuing anyways", "Trying to recover OPC").
Commands RECOVER_OPC and RECOVER_OPC_MESSAGE have no sender in the repository (the
line that sent one, OpcManager.cpp:214, is disabled); they come from outside.
ENABLE_VMM stands for RESET_STGCTP too.

**RetriedOperation.** An operation executes at most `Limit` times, ends, and does
not end with a failed last execution unless an issue said that it is given up (the
fatal one of `checkErrorCounter` or the one about the limit of attempts; the warning
"Trying to recover OPC" announces a further attempt and does not count).
`SectorControl!RefinesRetriedOperation` maps `failures`, `reports` and the counter of
`retryOpc` to it.

**DeviceManager.** A device is a function from its *lines* (reset pins, register
blocks, switches) to values; a procedure is a sequence of steps on them,
built by the procedure modules with the conditions, loops and handlers of the
code. `todo[d]` is what the task of device d has still to do, `result[d]` its
future, `batch` the futures not yet looked at, `left` the `applyFunc` calls to
come. Any access may throw, before or after it had its effect (`Fault`);
`blamed` is a history variable: devices that threw or for which an issue was raised.
Bounded retry loops (Router, MMTP, ART, pad trigger) are unfolded into choices of their
outcomes; the wait for the PLLs of a ROC, which has no bound, is a guard. A register that
is also written by itself has a line beside its bank: reg122vmmEnaInv, the acquisition of the
VMMs, is set by the configuration of the analog bank of the ROC and by each VMM. What a
procedure has read and writes back later, the existing delays of a pad trigger, is a line too.

**RegisterAccess.** A register is a set of bits. The tables are those of the
headers, generated by the same regularities the headers have (a phase register
per channel, four names per unit). A run writes a value and then another one into
neighbours; the contents before are one of several patterns. What the tables of all
chips have in common is stated once (`RegisterTables`): every register is a list of named
sub-registers; masks and parts of the values are intervals that do not overlap and are the
sub-registers they name. It has no variables, and TLC evaluates it for all tables in each run.

**L1ddcConfiguration.** `task[b]` is the position in `sendL1DDCConfig` of board b:
the GBTx, the image being uploaded (default, training on, training off) and the
tries left; `hw` the bits of its GBTx registers. An upload over I2C is a sequence of
frames of `block` registers, of which the model lets a prefix arrive; an upload over
IC is one frame. `main` is `configure_gbtx`, `serial` or with a pool.

**ConfigSender and SenderTools.** As in `DeviceAccess`, but every access belongs to
`OpcClient` with its own number of tries (`WriteTries`, `ReadTries`; a SCA write
outside of the loop has one). `failures[k]` counts the tries of the access in
progress. `connected` is the table of clients, which a board adds to at its first
access; a connection is not retried.

**VmmConfig, Deskew, ConfigReader.** These are sequential: one action per call of a
setter; one per delay that is scanned and one for the choice; one per resource that
`parseDeviceMap` looks at and one when the call for what it contains has returned (`ahead` is
its stack of calls: what each still has to look at or to add), and one per element of the map
that is read. The map is by name, since a name says of which kind an element is. `shown` is a history variable: the values when the string was
built last. `setMonitorOutput` builds it twice, so that the string of its first
half stays if its second half throws (`VMMConfig.cpp:108-150`). Closed facts about the register
tables (`VmmTables`) are assumptions that TLC evaluates in each run.

## 3. Runs

| Run | Instance | Shows |
|---|---|---|
| `OpcManagerOneServer` | 1 server, 2 devices, 1 user, early start | `TypeOK`, `BadDevicesHaveClients`, `ClearReturns`, `OutageRecorded`, `ReconnectEnds` |
| `OpcManagerTwoServers` | 2 servers with one device each | `ReconnectFindsItsServer`, `ClearIsAlone` |
| `OpcManagerPings` | as the first | violates `ConnectionsArePinged` |
| `OpcManagerHandles` | as the first | violates `HandlesStayValid` |
| `SectorOperations` | 3 attempts, 3 tries, 2 outages, all operations and failure classes | `TypeOK`, `NoUnrepairedSuccess`, `RefinesRetriedOperation` |
| `SectorRecovery` | 1 attempt, 2 commands from outside, 2 outages, slow reconnections, no device fails | `MonitoringOnlyInRun`, `RecoveryEnds` |
| `SectorSlowReconnect` | as SectorOperations, slow reconnections | violates `NoUnrepairedSuccess` |
| `SectorOptimisticFlag` | 1 attempt, 1 command from outside | violates `RecoverTellsTruth` |
| `DeviceOperations` | 7 small sectors, with and without threads, 1 fault anywhere | `TypeOK`, `SuccessMeansAchieved`, `HeldWhileWritten`, `CountsEachDeviceOnce` (implements `DeviceTasks`), `OperationEnds` |
| `RegisterAccess` | all registers of ROC, TDS, ART and pad trigger, two calls on neighbours | `TypeOK`, `ReadsWhatWasWritten`, `AgreesWithLayout`, `LeavesOthersAlone`, `SetsOneField` |
| `L1ddcConfiguration` | 3 L1DDCs with 4 GBTx, one after another or 2 at a time, 3 faults | `TypeOK`, `DoneMeansConfigured`, `PoolKeepsItsLimit`, `FailuresHaveCauses`, `SettingsSurviveTraining`, `ConfigurationEnds` |
| `ConfigurationTools` | 8 programs with up to 3 faults; 3 calls on a VMM; 2 pad trigger inputs; 138 configurations | `TypeOK`, `ConfiguredAsAsked`, `HeldWhileSent`, `FewFaultsAreAbsorbed`, `BitsShowSettings`, `DeskewAligns`, `ReaderAgrees`, `ToolsEnd` |

The bounds. One server and two devices are enough for a mixed answer of a ping
pass (all, some, none reachable) and for a device without a client; the second
server is there because `clear()` joins a set of threads and the ping pass visits
one server after the other. Three attempts give a first, a middle and a last one;
three tries give a loop that is left by success at any point and one left by timeout. One queued
RECONNECT_OPC is already enough to be late. Outages, of the server or of its first
device, are bounded because each one only restarts the same behaviour; two let the
server come back while the device stays silent. Two commands from outside are needed to
replace a running task of `m_reconnect`. `Commands` and `Outcomes` restrict
`SectorRecovery` to operations that do not fail by themselves: the flag is then
set to false only by the commands, which keeps the liveness check small;
`SectorOperations` has every outcome.

`DeviceOperations`: devices of different kinds meet in an operation only in its
counters, so that the sectors need two or three devices each; two of a kind are
needed for threads, and for a failing one beside one that does not fail. One fault
per behaviour, at any access of any operation, before or after its effect: the
operations after it start from what it left, CONFIGURE included. Two pad triggers only scan
their delays, one with and one without a configuration of its FPGA before. START is never given
twice in a row, as in the run control.

`RegisterAccess`: two calls are what it takes for one to disturb the other. They go
to groups of up to four neighbours, since others share no register with them. Values
are 0, all ones and the two bits at the ends; contents before are periodic with
strides 1 and 3, so that a shift by one bit, byte or nibble shows. For TDS
registers the groups lie around bits 32, 64 and 128.

`L1ddcConfiguration`: one board is trained and has a GBTx over IC and one over I2C,
one is not trained, one has frames of four registers so that a zero-byte read
follows the last one (assumed to return nothing). `MAX_ATTEMPTS` is 2 instead of 5:
a first and a last try. Three faults are more than one GBTx takes before it
fails. Frames are lost at two registers that matter to the training. A garbled
readback never looks right; a block size of 0 is excluded (see below).

`ConfigurationTools`: `MAX_RETRY` is 2 for 5, the attempts of the fibre alignment 2
for 10, pulses 2, channels of a VMM 3 for 64, inputs of the pad trigger 2 of 24: all
of them are loops whose first, middle and last round are the same but for the
counter. Three faults exhaust the tries of one access and leave one for another. The
programs are those that differ in what they send. The 17 calls on a VMM reach every
setter and every kind of rejection. The skews of an input are all phases of a BC, the next
BC, one outside of the range, and no connection; jitter is a median that
is either of two values at the first delay of a BC, and the common delay, undefined
in C++, is either what is asked for or the folded one. The 138 configurations take
every type of front end with the subsets of sub-devices that matter to its numbering,
merges with unknown names, missing sections, hierarchies with disabled, doubled and
malformed elements.

Fairness. Threads run on (weak fairness of their steps). `m_mutex` of either
process is not fair; strong fairness of taking it is assumed because its other
users sleep between two uses (500 ms and more for a MONITOR, 5 s for a
RECONNECT_OPC, 10 s for a ping pass). A server or a device never has to come
back, except where a property assumes it (`RecoveryEnds`: with the server back and its first device
silent a recovery goes on until its timeout), and an operator never has to do anything. In
`DeviceOperations`, `L1ddcConfiguration` and `ConfigurationTools` some thread that can
go on does (nothing is assumed of a single one), an access returns or
throws (the OPC calls have timeouts), and the PLLs of a ROC lock some time after their
reset is taken away: without that the wait for them never ends, the code has no bound.
The setters of a VMM, the deskew and the reader need no fairness, only safety is checked. A ping
pass that always takes longer than the 10 s would leave no gap: there the
assumption would not be justified.

### What the code does not do

* After `clear()` no connection is pinged any more and no outage noticed, although
  `NSWConfig::recoverOpc` clears the manager and continues to use it
  (`OpcManagerPings`).
* A reconnect thread destroys clients that operations may still be using
  (`OpcManagerHandles`).
* A RECONNECT_OPC that takes longer than the interval is executed after a failed
  attempt and wipes out the failure flag before `retryOpc` reads it: there is no further
  attempt and the operation counts as done, although its last execution has warned
  "Trying to recover OPC" (`SectorSlowReconnect`).
* A recovery task reports success because an operation has set the flag
  optimistically (`SectorOptimisticFlag`); `m_scaAvailable` then stays false and all
  later SCA_DISCONNECTED are ignored.

Seen while translating, without a run; the models have the code's behaviour unless
they name an exclusion.

*Run control and recovery.*
* CONNECT judges the counters of the operation before it; START adds to them.
* The entry of a finished reconnect thread prevents a second one for the same server.
* An outage in a run is not reported: `monitor()` catches the exceptions of all devices
  itself (`NSWSCAServiceRc.cpp:157`).
* L1DDCs are skipped when the configuration is read, so that `m_l1ddcs` stays empty;
  `configureADDCs`, `alignADDCsToTP` and `configureTPs` have no caller.
* `MonitorHelper::m_semaphore` is never acquired.

*Reading the configuration.*
* A trigger processor with a geographical name has the type `MMTP`
  (`Utility.cpp:101-104`, `NSWConfig.cpp:57`), which `ConfigReaderApi::read` does not
  know (`ConfigReaderApi.cpp:17-49`): it is reported and not configured. Names
  containing `TP` work.
* An exception in `parseDeviceMap` is reported, and the hierarchy as far as it was
  filled is used (`NSWConfig.h:53-87`).
* A missing OpcNodeId throws `ptree_bad_path`, but `DeviceManager::add` catches
  `ptree_bad_data` (`DeviceManager.h:57-61`).
* `getRocVmmId` does not know the types `SFEB` and `SFEB_old`.

*Registers.* `nullEventEnable`, `busyOffLimit` and values beyond bit 32 of a TDS register
are excluded from the properties of `RegisterAccess` under the name `Mistranslated`; the
model does with them what the code does.
* The masks of `nullEventEnable` are those of the EOP bits
  (`ConfigTranslationMap.h:647-657`); `busyOffLimit`, `bc_offset` and `bc_rollover` lack
  masks for their parts (`:782-785`), and `buildPartialConfig` cuts a value that is too
  large without a check.
* `TDS::writeValues` cannot write bits from 32 on (it throws), and loses earlier values
  of a register if a later one is read back as 0; `ctz` is undefined for masks above bit
  64. Writing all 128 channels at once throws.
* `writeValues` merges with the configuration, not with the device: a second write to
  the same register takes the first one back.
* The configuration of a TDS with reset leaves `register12.resets` at 0.
* `PadTrigger::writeSubRegister` throws for sub-registers of 32 bits.
* `roc_select_phase.cpp:96-101` and `roc_loop_over_phase.cpp:93-98` use sub-registers
  that do not exist; the translation map of the TDS names them differently from its
  table (`ConfigTranslationMap.h:957,969`).
* `VMMConfig` keeps a value it rejects, so that the next call fails too;
  `setChannelRegisterAllChannels` accepts unknown names.

*Sending.*
* A success at the last try of a GBTx counts as a failure (`ConfigSender.cpp:384-420`);
  a block size of 0 divides by zero (`:316`); the phases cannot be saved if the
  directory is missing.
* `configureADDC` reports an unknown name, and `m_addcs.at` throws right after.
* `configure_frontend` reads `-V` and `-C` as characters and returns 0 when boards
  failed. `sendI2cAtAddress` reverses the bytes of the address (`:110-120`).
* `PadTrigger::writePFEBCommonDelay` shifts by 32 (`PadTrigger.cpp:376-386`).
  `getTargetBcid` says that it will not deskew (`:636`), but the delays are overwritten
  with 0; an exception in the scan leaves its common delays behind. The next procedure that only
  scans takes them for the existing ones and restores them without an issue
  (`:737-743`), unless it has configured the FPGA first.
* `VMM::writeConfiguration` switches the acquisition, an analog register of the ROC
  (`I2cRegisterMappings.h:309`), with the PLLs running (`VMM.cpp:36,62`), where
  `ROC::writeRegister` takes their reset for every analog register (`ROC.cpp:109-119`).
* Most alignments and resets that give up only warn, and the board counts as
  configured. `hw::ADDC` does not look at SkipConfigure and MustConfigure.

## 4. Proofs

`OpcManagerProofs` proves, for any finite or infinite sets of servers, devices and
users, under `OpcManagerAssumption` only:

* `TypeCorrect`: `Spec => []TypeOK`;
* `BadListCorrect`: `Spec => []BadDevicesHaveClients`;
* `ReconnectSafe`: `Spec => []ReconnectFindsItsServer`;
* `ClearSafe`: `Spec => []ClearIsAlone`.

None of the safety properties is inductive alone. `IInv` adds `PassOwnsTable` (what a
ping pass has still to visit and has collected belongs to the table, because the
mutex is held) and `ClearOrder` (the stages of `doClear`: the stop token of the
background thread before its join, the tokens of the reconnect threads and their
join before the maps are emptied, and no thread started after its maker ended).
`InvInit` and `InvStep` are one step per action of `Next`; `AnalyzeStep` is the one
action that changes both the bad list and the threads. TLC had checked `IInv` on the
instances of the runs before.

`DeviceTasksProofs` proves of every finite set of devices that the promise of
`applyFunc` keeps the fraction of failed devices meaningful: `FractionCorrect`, the
failed devices and those still to be looked at are never more than those tried, from
`TypeOK` and the arithmetic of cardinalities, one lemma per action.

`SectorControlProofs` proves, under `SectorAssumption` only, `TypeCorrect`
(`Spec => []TypeOK`) and `MonitoringCorrect` (`Spec => []MonitoringOnlyInRun`). The
inductive invariant `IInv` adds to `TypeOK`:

* `Positions`: where `main` stands, its operation belongs (a retried one in the loop
  of `recoverOpc`, in a state its transition starts from) and has attempts left;
  without it the counter could pass its bound;
* `Queues`: each SCA_DISCONNECTED in the inbox and each STOP it caused goes back to a
  command from outside, and between two of them there is at most one
  SCA_RECONNECTED: this bounds both queues. A few lemmas about appending to and
  taking from a sequence carry it;
* `Monitored`: monitoring lasts from the end of START's command until STOPROIB's has
  been executed, which includes the step in which `fsm` has not moved yet.

`RetryReports` proves `NoUnrepairedSuccess` under two further assumptions, `MaxMessages = 0`
and `~SlowReconnect`: no command from outside and no RECONNECT_OPC that outlives the
interval. Both are needed: run `SectorSlowReconnect` shows the counterexample without
the second. `Accounted` is what it takes: the tasks of `m_reconnect` never start, a
RECONNECT_OPC is queued or executed only while `main` sleeps, so that nothing touches
the flag between the end of an operation and `retryOpc`'s look at it, and in the last
attempt the limit has been reported before the recovery begins.

`RetryRefines` proves under the same two assumptions the safety part of the refinement
the runs check with `RefinesRetriedOperation`: every step of the sector is a step of
`RetriedOperation` or leaves its variables alone. `RefinementInv` adds to `RetryInv` that
nothing is reported while no operation is under way (`Unreported`).

`DeviceManagerProofs`, for all sectors, devices, settings and numbers of faults, under
`DeviceAssumption` only:

* `TypeCorrect`: `Spec => []TypeOK`. `IInv` adds `Awaited`: no device is in `batch`
  twice, and a task is under way only for a device of `batch`. This is why nothing
  is left running when the next stage begins.
* `CountsCorrect`: `Spec => CountsEachDeviceOnce`. `DeviceManager` implements
  `DeviceTasks`: every device of a stage is tried once, looked at once, after its task
  ended, and counted iff it threw. `FractionCorrect` carries the theorem of
  `DeviceTasksProofs` over, if the devices are finitely many.
* `SuccessAchieves`: `Spec => []SuccessMeansAchieved`. After an operation each device that
  neither threw nor was reported has the state the operation is for, whatever faults
  the others had. For a pad trigger that only scans this state is the delays found before the
  scan (`DelaysReady`): they are those of its configuration if the same procedure sends it, and
  otherwise whatever was there, also what an interrupted scan left.
* `HeldCorrect`: `Spec => HeldWhileWritten`. The registers of VMMs change only with the
  acquisition off, the e-ports of an ART only behind its mask, the analog registers of a
  ROC only with its PLLs in reset. The acquisition itself, which is one of the latter, is
  excepted as far as the code excepts it: outside of the reset it is switched off and on
  and takes no other value.

The last two speak of what sequences of up to some hundred steps do, with an exception
possible at each of them. Enumerating positions is out of the question, and they
depend on settings that are any set; they are proved with a logic for procedures, in `DeviceProceduresProofs`.

* *Worlds and facts*. The world of a kind of device has its lines
  and values, pairs of a line and a value that it never has (a line no procedure sets
  to it), guards (a line that changes only while another one has a value), ties (a line
  that has certain values only while another one has certain others), whether it
  has PLLs, whether an issue may have been raised, and whether nothing is promised any
  more once one was. A fact is a pair of a line and a value.
* *Sound sets.* A set of pairs (steps left, state) is `Sound` if whatever can happen next
  leads to another pair of it, to an end in a set T or to an exception in a set E: a
  step, either outcome of a fault, a PLL that locks, a handler. `Triple(W, S, p, T, E)`
  says that some sound set holds p with every state of S. A sound set is an inductive
  invariant of one task, and `Triple` says that one exists without writing it down.
* *Rules.* `SkipRule`, `StepRule`, `ChooseRule`, `SequenceRule`, `AttemptRule`, `DoRule`, and
  on top of them `Does(W, F, p, G)`: from facts F to facts G. The difficult ones are
  about sequence and attempt: an exception in the middle of `p \o q` must find the
  handler it would find without q, which is arithmetic of the balance of `try` and
  `catch` (`ThrowInside`, `ThrowConcat`, `ThrowOut`).
* *Procedures*. One lemma per function of the code, with the
  facts it leaves: `WriteRocDoes`, `WriteVmmDoes`, `WriteArtDoes`, `AlignArtGbtxDoes`,
  `SoftResetAndCheckDoes`, `DeskewPart` and so on, put together to `WriteFebDoes`,
  `WriteAddcDoes`, `WritePadTriggerDoes` and others. Retry loops are recursive functions;
  what is claimed of them is proved downwards from the last attempt. `*IsReady` say that
  the facts imply the properties.
* *Devices.* `PromiseInv`: the steps left of a task and the state of its device are in some
  sound set that ends in the facts of the function the operation applies
  (`Aims`); a failed device is in `blamed`; what is left of the operation are its
  last stages. `Step`, `Fault`, `RaiseStep` and `Lock` stay in the sound set, so
  that their proof is the same for every kind of device. STOP needs
  more: its last stage builds on what an earlier one left on the same device.

Induction over data is not available to the provers:
where a claim holds of every element of a sequence, the first element at which it
fails is taken (`LeastNumber`, from well-foundedness of the natural numbers) and its
predecessor gives the contradiction.

`L1ddcConfigurationProofs` proves, for any number of boards, GBTxs, threads, attempts,
faults and any size of blocks, under `ConfAssumption` only: `TypeCorrect`, `PoolCorrect`
(`PoolKeepsItsLimit`), `FailuresCorrect` (`FailuresHaveCauses`), `DoneCorrect`
(`DoneMeansConfigured`) and `SettingsCorrect` (`SettingsSurviveTraining`). `IInv` has
`BoardOK` for each board and `Started` and the pool for all. `BoardOK` says what the
position in `sendL1DDCConfig` stands for: the GBTxs behind it hold their final image, the one in
training every setting the training does not own, every try that is gone has a
fault as its reason, and a difference not yet seen one more: without that a
failed board could have fewer faults than tries. `BoardOK` speaks of one board only, so that the
steps of others need no argument. It rests on lemmas about `GbtxRegisters`:
the settings that training changes have registers of their own (`Places`, arithmetic of the
register map), and the blocks of a readback cover all registers for
every size (`BlocksCover`).

`SenderToolsProofs` proves, for every program, any number of boards and any `MAX_RETRY`,
under `SenderAssumption` and `ToolAssumption` only: `TypeCorrect` (`ToolSpec => []ToolTypeOK`)
and `FewFaultsCorrect` (`FewFaultsAreAbsorbed`). `Waiting` adds that a board is untouched until its turn.
`Absorbed` says what is left to do for a board whose failed tries are too few to use up an
access: a `Calm` sequence, in which nothing throws or reports by itself and the one access
without a second try (`writeFreeVariable`) has its handler right behind it; each
procedure of `ConfigSender` is one. `AlignArtGbtxMmtp` branches on what it reads, as often as
`FIBER_ALIGN_ATTEMPTS` says: it is `Quiet`, a member of a set of sequences that is closed under
steps and has no report and no handler anywhere.

`HeldWhileSentCorrect` (`HeldWhileSent`) and `ConfiguredCorrect` (`ConfiguredAsAsked`), under the same
assumptions, have the logic of procedures once more, with worlds of their own: what is to
be held is a tie here, because it is a property of states, also of those a failed thread
leaves. Three things are new. A failed try repeats an access that may have had its
effect, and a PLL may lock in between: `RepeatRule` turns every sound set of a world without
guards into one closed under a second write (`Again`), since such a write has no
effect (`WrittenTwice`). The two ARTs of an ADDC share its lines, so that the first is
configured in a world in which the second is as found, the second in the whole one or in
one in which a problem was reported already (`Smaller`). The alignment of
the fibres branches on the set it finds aligned and resets the QPLLs of the others: `ReadingDoes` is
one attempt, for any such set, and `AligningDoes` goes down from the last one. `Pursued` is the inductive invariant: the steps left of each board that is not failed, and the
board as it is, are in a sound set that ends in what was asked (`OnCourse`); `CourseGoes`,
`CourseBreaks`, `CourseRepeats` and `CourseLocks` are its steps, for all kinds of boards at once.
The attempt showed that `ConfiguredAsAsked` had promised too much: with `--reset`,
`configure_frontend` returns after the reset and creates no pulses either
(`configure_frontend.cpp:216-227`).

`ConfigurationToolsProofs` is about four sequential parts.

`DeskewTypeCorrect` and `DeskewIsRight` (`DeskewSpec => []DeskewAligns`) hold for every set of inputs,
every skew of each and every reading at the edge of a bunch crossing, under `DeskewAssumption` only. What
a connected input reads over the 16 delays is a staircase of at most four steps (`StairExists`): six delays,
or one more or less where a reading at an edge may be either, and then the BCID before, modulo 16. So
`checkPFEBBCIDs` accepts it (`StairChecked`); `StairCount` says how many delays each step
has, and from that follow which BCIDs are viable (`StairViable`, `StairWide`), and that the delay chosen
for a viable one stays in it one delay earlier or later (`StairTarget`). An input that is not connected
or not moved reads the same BCID at all delays and is left out (`OtherConstant`). There are at most
three viable BCIDs for an input, and the target is one of those all have (`ViableForAll`, `TargetViable`). The
inductive invariant `DeskewInv` says that n delays of every input have been scanned and what
they gave, and that a deskew that is done has chosen the delays from all of them.

`VmmTypeCorrect` and `VmmShowsSettings` (`VmmSpec => []BitsShowSettings`) hold for any number of channels, any
configuration and all sequences of calls, under `VmmAssumption` and `VmmTables`. A register's place in
the string is the sum of the sizes before it; that the concatenation of all pieces puts
each bit there is `FlattenPlaces` (every piece begins where those before it end, by the first piece for which it would
not), `ChannelsPlaces` and `ThreeStrings`, and then `ConfigPlaces` for the string as a whole. No two
registers share a place because each has an interval of its own. `VmmInv` says
that the tree is one of a VMM, and that the string was built of *some* such tree with the values
in `shown`: not of the tree at hand, since a setter that throws has changed the tree but not the string.

The properties of `RegisterAccess` are all proved: `RegisterTypeCorrect` (`Spec => []TypeOK`),
`ValuesReadBack` (`Spec => []ReadsWhatWasWritten`), `ValuesAgreeWithLayout` (`Spec => []AgreesWithLayout`),
`OthersLeftAlone` (`Spec => LeavesOthersAlone`) and `OneFieldAtATime` (`Spec => SetsOneField`). The run
writes three numbers into at most four neighbours and twice; the theorems hold for all sets of
values and sub-registers, all numbers that fit, all contents and any number of calls, under
`RegisterAssumption` (what is asked for exists and fits) and `RegisterTables`. The chips are those of the
code: the theorems are about its tables, not about any tables.

* *Places.* The sub-registers of a register are intervals that do not overlap
  (`FieldsAreRanges`, from the sums of the sizes behind each), so that setting one leaves the
  others (`FieldSet`).
* *Sums.* The code puts values together by adding, in an order of names and through sums that are
  read back as 0 when they have more than 32 bits. Parts without common bits need no carry and no order:
  `FlatSumJoins` and `ToValueJoins` say that the sum is the union, whatever order is chosen. The recursion goes
  over sets of units; `AllSubsets` (a set of subsets that has the empty one, and every one with a member
  that is one element smaller, has all) takes the place of induction.
* *Registers.* `FlatRegisterIs`: a register that is written has the contribution of each unit in
  its mask and what the configuration says outside of all masks. That a register with masks for
  all its bits is not looked up makes no difference, by counting them.
* *Back.* `UnitReadsBack`: a unit returns the bits of its value for which the register has room, and
  by `RegisterTables` the units of a value have room for all of them together.

`AccessInv` adds to `TypeOK` that as long as nothing else was written the masks of all units of the
last values hold what these values contribute, cut to the size of the register. The attempt found
nothing false; it made explicit what was only true of the tables: a mask may be longer than its
register (the default mask of 32 bits on a register of 8), and is its sub-register only as far as the register goes.

`ReaderTypeCorrect` and `ReadsWhatIsEnabled` (`ReaderSpec => []ReaderAgrees`) hold for all hierarchies of
resources, deep or not, with a resource contained in several places or in itself (the walk would
not end), and all files, under `ReaderAssumption`: names of resources are those of elements
behind the sector, the database lists on a board only VMMs its type has (one it has not
would get no configuration but keep its input of the ROC), `getRocVmmId` knows the type, and the
common registers of a ROC are complete. `Enabled` is a least set: in each set that has the
resources of the application and what its enabled members contain. `ReaderInv` therefore goes
both ways. Nothing too much: what is ahead, and what was found, is in each of these sets
(`OnEnabledPaths`). Nothing lost: there is a set of resources already looked at, outside of which
only those ahead are contained in it, and whose devices are in the map unless their call is still
open (`NothingLost`); when nothing is ahead it is one of the sets itself (`AllFound`), so that it has
all that is enabled. `ReadAgrees` is about one element, `Wiring` and `OffOnes` about the numbers of
the VMMs on the ROC.

TLC has checked the invariants on the instances of the runs, as far as they can be
evaluated (`Aims` and `OnCourse` cannot: they say that a set exists).

Only model-checked: every liveness property (fairness and ENABLED are beyond the
prover) and with it the fair part of `RefinesRetriedOperation`; and `TypeOK` of
`MCConfigurationTools`, which puts four parts side by side for TLC: the types of each of them,
`ToolTypeOK`, `VmmTypeOK`, `DeskewTypeOK` and `ReaderTypeOK`, are proved.

## 5. Plan

1. `Monitoring`: one thread per group and its stop token, composed with the SCA
   service's mutex, instead of the one flag in `SectorControl`.
2. Composition of `OpcManager` with the recovery of `SectorControl` (RECONNECT_OPC
   is `clear()` and a ping).

## 6. Not modelled

* The register lists of the monitoring and their publication in IS: no state but the
  list. `RocStatusRegisters` reads once although `ROC.h:163-167` says twice.
* The tables of the trigger processors: only `TP_REGISTERS_NSW` and `MM_addc` of
  `TP_I2cRegisterMappings.h` are used (`:29-49`, `:95-131`), as flat lists of addresses; the
  rest is commented out or used by commented code only.
* The bit-banging of `OpcClient::readRocRaw` and the clean-up of JSON text
  (`ConfigReaderJsonApi.cpp:421-478`): formats of a protocol and of text.
* Temperatures, ADC and GPIO readings, status words for display.
* Calibration and display programs: sequences of calls of what is modelled.
* The OPC protocol, the run control and IS themselves: external, by their use.
