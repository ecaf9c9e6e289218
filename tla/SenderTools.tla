------------------------------ MODULE SenderTools ------------------------------
(***************************************************************************)
(* The programs that configure boards with a ConfigSender:                 *)
(* configure_frontend, NSWConfig::configureADDCs, sendTPConfig and         *)
(* alignArtGbtxMmtp.  A board is configured by a thread of its own, or all *)
(* boards by the main thread.  Any access to a board may fail, with or     *)
(* without effect; the OpcClient repeats most of them.                     *)
(***************************************************************************)
EXTENDS ConfigSender

CONSTANTS
  Programs,        \* set of [parallel, limit, boards |-> sequence of boards];
                   \* a limit of 0 is none
  MaxFaults        \* bound: accesses that fail

ASSUME ToolAssumption ==
  /\ \A p \in Programs :
       /\ p.parallel \in BOOLEAN /\ p.limit \in Nat
       /\ p.boards \in Seq(Range(p.boards))
       /\ \A given \in Range(p.boards) : given.kind \in {"FEB", "ADDC", "TP", "align"}
  /\ MaxFaults \in Nat

VARIABLES
  program,   \* the program and what it is to do
  main,      \* "starting", "returned" or "terminated"
  next,      \* board to be started next
  result,    \* of each board: "waiting", "running", "done" or "failed"
  connected, \* boards with a client
  todo,      \* steps still to do
  failures,  \* failed tries of the access in progress
  board,     \* the boards themselves
  warned,    \* boards a problem was only reported for
  faults,    \* failed tries of each board (history)
  unconnected  \* boards whose client could not be connected (history)
toolVars == <<program, main, next, result, connected, todo, failures, board, warned, faults,
              unconnected>>
memory   == <<program, main, next>>

Boards == DOMAIN program.boards
Of(b)  == program.boards[b]

(***************************************************************************)
(* What is done for a board.                                               *)
(***************************************************************************)
CreatePulses == Do([pulse \in 1..NUM_TEST_PULSES |-> Toggle("tpInv", "inverted", "straight")])

\* Fault: the configuration with the reset bits is the last one.
ConfigureVmm_ResetLast(options) ==
  SendVmmConfig("configured") \o If("resetvmm" \in options, SendVmmConfig("inReset"))
\* With --resetvmm all VMMs are first sent a configuration with the reset bits.
ConfigureVmm(options) ==
  If("resetvmm" \in options, SendVmmConfig("inReset")) \o SendVmmConfig("configured")

\* configure_frontend: with --reset nothing else is done.
ConfigureFrontend(options) ==
  If("dryrun" \notin options, AddOpcClientIfNew \o
    (IF "reset" \in options THEN Toggle("coreReset", "active", "inactive")
     ELSE Do(<<If("roc" \in options, SendRocConfig),
               If("vmm" \in options, ConfigureVmm(options)),
               If("tds" \in options, SendTdsConfig(options)),
               If("readback" \in options, Read("tdss")),
               If("pulses" \in options, CreatePulses)>>)))

\* NSWConfig::configureADDC: an ART may be skipped, or allowed to fail.
ConfigureAddc(skip, must, settings) ==
  LET art(i) ==
        IF i \in skip THEN Warn
        ELSE Attempt(AddOpcClientIfNew \o SendAddcConfig(<<i>>, settings),
                     IF i \in must THEN Raise ELSE Warn)
  IN art(0) \o art(1)

Procedure(b) ==
  LET given == Of(b)
  IN CASE given.kind = "FEB"   -> ConfigureFrontend(given.options)
       [] given.kind = "ADDC"  -> ConfigureAddc(given.skip, given.must, given.settings)
       [] given.kind = "TP"    -> AddOpcClientIfNew \o SendTpConfig(given.unset, given.skipped)
       [] given.kind = "align" -> AddOpcClientIfNew \o AlignArtGbtxMmtp(given.quads)

LinesOf(given) ==
  CASE given.kind = "FEB"   -> FebLines \cup {"tpInv"}
    [] given.kind = "ADDC"  -> AddcLines
    [] given.kind = "TP"    -> TpRegisters
    [] given.kind = "align" -> {"scaxAddress", "fibers", "qpllReset"}

(***************************************************************************)
(* The main thread.                                                        *)
(***************************************************************************)
Ended(b) == result[b] \in {"done", "failed"}

\* Fault: a failed thread stays active.
active_threads_KeepsFailed == {b \in Boards : result[b] \in {"running", "failed"}}
active_threads == {b \in Boards : result[b] = "running"}

ToolInit ==
  /\ program \in Programs
  /\ main = "starting" /\ next = 1
  /\ result = [b \in Boards |-> "waiting"]
  /\ connected = {}
  /\ todo = [b \in Boards |-> <<>>]
  /\ failures = [b \in Boards |-> 0]
  /\ board = [b \in Boards |-> [line \in LinesOf(Of(b)) |->
                IF Of(b).kind = "align" THEN {} ELSE "unknown"]]
  /\ warned = {}
  /\ faults = [b \in Boards |-> 0] /\ unconnected = {}

StartBoard ==
  /\ main = "starting" /\ next \in Boards
  /\ IF program.parallel
     THEN program.limit > 0 => Cardinality(active_threads) < program.limit
     ELSE \A b \in 1..next - 1 : result[b] = "done"
  /\ todo' = [todo EXCEPT ![next] = Procedure(next)]
  /\ result' = [result EXCEPT ![next] = IF todo'[next] = <<>> THEN "done" ELSE "running"]
  /\ next' = next + 1
  /\ UNCHANGED <<program, main, connected, failures, board, warned, faults, unconnected>>

\* The futures are waited for; their exceptions are only logged.
Join ==
  /\ main = "starting" /\ next \notin Boards
  /\ \A b \in Boards : Ended(b)
  /\ program.parallel \/ \A b \in Boards : result[b] = "done"
  /\ main' = "returned"
  /\ UNCHANGED <<program, next, result, connected, todo, failures, board, warned, faults,
                 unconnected>>

\* Without threads nobody catches an exception.
Terminate ==
  /\ main = "starting" /\ ~program.parallel
  /\ \E b \in Boards : result[b] = "failed"
  /\ main' = "terminated"
  /\ UNCHANGED <<program, next, result, connected, todo, failures, board, warned, faults,
                 unconnected>>

(***************************************************************************)
(* The threads.                                                            *)
(***************************************************************************)
\* Only a FEB has PLLs.
Written(b, step) == Effect(board[b], step, Of(b).kind = "FEB")

Continue(b, rest) ==
  /\ todo' = [todo EXCEPT ![b] = rest]
  /\ result' = [result EXCEPT ![b] = IF rest = <<>> THEN "done" ELSE @]

\* Fault: the count of the failed tries goes on from one access to the next.
NoFailures_Kept(b) == UNCHANGED failures
NoFailures(b) == failures' = [failures EXCEPT ![b] = 0]

Step(b) ==
  /\ result[b] = "running"
  /\ LET step == Head(todo[b])
         rest == Tail(todo[b])
     IN /\ step.do # "raise"
        /\ step.do = "await" => board[b][step.line] = step.value
        /\ \E way \in (IF step.do = "choose" THEN step.ways ELSE {<<>>}) :
             Continue(b, way \o rest)
        /\ board' = IF step.do \in Changes
                      THEN [board EXCEPT ![b] = Written(b, step)] ELSE board
        /\ connected' = IF step.do = "connect" THEN connected \cup {b} ELSE connected
        /\ warned' = IF step.do = "warn" THEN warned \cup {b} ELSE warned
  /\ NoFailures(b)
  /\ UNCHANGED <<memory, faults, unconnected>>

\* An exception ends the thread unless the procedure catches it.
Throws(b) ==
  /\ NoFailures(b)
  /\ IF IsCaught(todo[b]) THEN Continue(b, AfterThrow(todo[b]))
     ELSE /\ todo' = [todo EXCEPT ![b] = <<>>]
          /\ result' = [result EXCEPT ![b] = "failed"]

\* A try fails, after it had its effect or before.  A connected client is
\* used again.
Fault(b) ==
  /\ result[b] = "running"
  /\ MapThenSumSet(LAMBDA c : faults[c], Boards) < MaxFaults
  /\ LET step == Head(todo[b])
     IN /\ step.do \in {"write", "tell", "read", "await", "connect"}
        /\ step.do = "connect" => b \notin connected
        /\ \/ board' = board
           \/ step.do = "write" /\ board' = [board EXCEPT ![b] = Written(b, step)]
        /\ unconnected' = IF step.do = "connect" THEN unconnected \cup {b} ELSE unconnected
        /\ IF failures[b] + 1 < Tries(step)
           THEN failures' = [failures EXCEPT ![b] = @ + 1] /\ UNCHANGED <<todo, result>>
           ELSE Throws(b)
  /\ faults' = [faults EXCEPT ![b] = @ + 1]
  /\ UNCHANGED <<memory, connected, warned>>

RaiseStep(b) ==
  /\ result[b] = "running" /\ Head(todo[b]).do = "raise"
  /\ Throws(b)
  /\ UNCHANGED <<memory, connected, board, warned, faults, unconnected>>

Lock(b) ==
  /\ Of(b).kind = "FEB"
  /\ board[b]["pllReset"] = "inactive" /\ board[b]["pllLocked"] # "yes"
  /\ board' = [board EXCEPT ![b]["pllLocked"] = "yes"]
  /\ UNCHANGED <<memory, result, connected, todo, failures, warned, faults, unconnected>>

ToolNext ==
  \/ StartBoard \/ Join \/ Terminate
  \/ \E b \in Boards : Step(b) \/ Fault(b) \/ RaiseStep(b) \/ Lock(b)
ToolSpec == ToolInit /\ [][ToolNext]_toolVars
-----------------------------------------------------------------------------
ToolTypeOK ==
  /\ program \in Programs
  /\ main \in {"starting", "returned", "terminated"}
  /\ next \in 1..Len(program.boards) + 1
  /\ result \in [Boards -> {"waiting", "running", "done", "failed"}]
  /\ \A b \in Boards :
       /\ result[b] = "running" <=> todo[b] # <<>>
       /\ DOMAIN board[b] = LinesOf(Of(b))
       /\ failures[b] > 0 => todo[b] # <<>> /\ failures[b] < Tries(Head(todo[b]))
  /\ connected \cup warned \subseteq Boards /\ unconnected \subseteq Boards
  /\ \A b \in Boards : failures[b] <= faults[b]

\* What each program promises for a board without a failure or a report.
FebConfigured(lines, options) ==
  IF "reset" \in options THEN lines["coreReset"] = "inactive"
  ELSE
    /\ "roc" \in options =>
         /\ lines["coreReset"] = "inactive" /\ lines["pllReset"] = "inactive"
         /\ lines["sReset"] = "inactive" /\ lines["pllLocked"] = "yes"
         /\ lines["rocAnalog"] = "configured" /\ lines["rocDigital"] = "configured"
    /\ "vmm" \in options => lines["vmms"] = "configured" /\ lines["acquisition"] = "on"
    /\ "tds" \in options =>
         /\ lines["tdsPins"] = "inactive" /\ lines["tdss"] = "configured"
         /\ "resettds" \in options => lines["tdsResets"] = "off"
    /\ "pulses" \in options => lines["tpInv"] = "straight"
Configured(lines, given) ==
  CASE given.kind = "FEB"   -> "dryrun" \in given.options \/ FebConfigured(lines, given.options)
    [] given.kind = "ADDC"  -> AddcReady(lines, given.settings)
    [] given.kind = "TP"    -> \A r \in TpRegisters \ (given.skipped \cup given.unset) :
                                 lines[r] = "configured"
    [] given.kind = "align" -> given.quads \subseteq lines["fibers"] /\ lines["qpllReset"] = {}

\* A board that ended without an exception and without a report is configured
\* as the program was asked, whatever accesses were repeated on the way
\* (configure_frontend.cpp:209-317, NSWConfig.cpp:175-206, ConfigSender.cpp:
\* 526-1085).
ConfiguredAsAsked ==
  \A b \in Boards : result[b] = "done" /\ b \notin warned => Configured(board[b], Of(b))

\* While registers are half written, also by a thread that has failed since,
\* what uses them is held: the PLLs of the ROC in reset, the acquisition of the
\* VMMs off, the inputs of an ART masked while its GBTx is trained; and a QPLL
\* is reset only for a fibre that is not aligned (ConfigSender.cpp:164-191,
\* 526-551, 757-897, 1004-1024).  Nothing is said of single analog registers
\* of a ROC: sendVmmConfig and the test pulses write reg122vmmEnaInv and
\* reg124vmmTpInv with the PLLs running.
HeldWhileSent ==
  \A b \in Boards :
    LET lines == board[b]
    IN CASE Of(b).kind = "FEB" ->
              /\ lines["rocAnalog"] = "partial" =>
                   lines["pllReset"] = "active" /\ lines["coreReset"] = "active"
              /\ lines["vmms"] = "partial" => lines["acquisition"] = "off"
         [] Of(b).kind = "ADDC" ->
              \A i \in Arts : lines[<<i, "eports">>] \in {"partial", "training"} =>
                /\ lines[<<i, "mask">>] = "all"
                /\ lines[<<i, "artReset">>] = "inactive" /\ lines[<<i, "gbtxReset">>] = "inactive"
         [] Of(b).kind = "align" ->
              lines["qpllReset"] \subseteq Of(b).quads \ lines["fibers"]
         [] OTHER -> TRUE

\* A board fails, or is reported, only after MAX_RETRY failed tries of its own,
\* or if its client could not be connected: fewer failures than that are never
\* noticed (OpcClient.cpp:70-368).
FewFaultsAreAbsorbed ==
  \A b \in Boards : faults[b] < MAX_RETRY /\ b \notin unconnected =>
    /\ result[b] = "failed" => Of(b).kind = "align"
    /\ b \in warned => Of(b).skip # {}

\* The program ends; configure_frontend waits for its PLLs without a bound.
ToolEnds == main \in {"returned", "terminated"}
=============================================================================
