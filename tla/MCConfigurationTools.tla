------------------------- MODULE MCConfigurationTools -------------------------
(***************************************************************************)
(* The parts that make and send configurations outside the run control     *)
(* operations, side by side: the programs with a ConfigSender, VMMConfig,  *)
(* the deskew of a pad trigger, and the reading of the configuration.  A   *)
(* behaviour is one of them; the others are idle.                          *)
(***************************************************************************)
EXTENDS SenderTools, VmmConfig, Deskew, ConfigReader

VARIABLE tool
vars == <<tool, toolVars, vmmVars, deskewVars, readerVars>>
-----------------------------------------------------------------------------
(* Programs *)
Feb(o) == [kind |-> "FEB", options |-> o]
Addc(s, m, x) == [kind |-> "ADDC", skip |-> s, must |-> m, settings |-> x]
Tp(u, s) == [kind |-> "TP", unset |-> u, skipped |-> s]
Al(q) == [kind |-> "align", quads |-> q]
P(p, l, b) == [parallel |-> p, limit |-> l, boards |-> b]
MCPrograms ==
  { P(TRUE, 0, <<Feb({"roc", "vmm", "tds"}), Feb({"roc", "vmm", "tds"})>>),
    P(TRUE, 1, [k \in 1..2 |-> Feb({"vmm", "resetvmm", "tds", "resettds", "readback", "pulses"})]),
    P(TRUE, 0, <<Feb({"reset"}), Feb({"reset", "pulses"})>>),
    P(TRUE, 0, <<Feb({"roc", "dryrun"}), Feb({"roc", "dryrun"})>>),
    P(TRUE, 1, <<Addc({}, {0}, {}), Addc({0}, {1}, {"failsafe"})>>),
    P(FALSE, 0, <<Tp({}, {"L1A_CONTROL"}), Tp({"SELFTRIGGER_DELAY"}, {})>>),
    P(FALSE, 0, <<Al({1, 2})>>), P(FALSE, 0, <<Al({})>>)}
-----------------------------------------------------------------------------
(* VMM configurations *)
C(s, n, v, c) == [set |-> s, name |-> <<n>>, value |-> v, channel |-> c]
MCCalls == {C("global", "sm", {0, 2}, 0), C("global", "sm", {6}, 0), C("global", "reset", {0, 1}, 0),
  C("global", "sdt_dac", {0, 3, 9}, 0), C("global", "channel_sd", {0}, 0), C("global", "l0offset", {11}, 0),
  C("all", "channel_sd", {1, 4}, 0), C("all", "channel_sd", {5}, 0), C("all", "st", {0}, 0),
  C("all", "unknown", {0}, 0), C("one", "channel_sd", {0}, 0), C("one", "channel_smx", {0}, 1),
  C("one", "channel_sz8b", {4}, 1), C("one", "channel_sd", {0}, 3), C("one", "sm", {0}, 0),
  C("monitor", "", {0}, 1), C("monitor", "", {}, 6)}
MCInitial == (<<"sdp_dac">> :> {0, 5}) @@ (<<"channel_sd">> :> {2}) @@ (<<"sbfp">> :> {0})
-----------------------------------------------------------------------------
(* Skews: all phases, the next BC, another one, and no connection *)
MCSkews == {<<>>} \cup ({1} \X (0..5)) \cup {<<2, 0>>, <<2, 3>>, <<9, 2>>}
MCExisting == (0 :> 7) @@ (9 :> 3)
-----------------------------------------------------------------------------
(* Resources and files *)
Digital == {<<"vmmEnable", k>> : k \in 0..7} \cup {<<"connection", s, k>> : s \in 0..3, k \in 0..7}
Commons == [rocPllCoreAnalog |-> {<<"phase">>}, rocCoreDigital |-> Digital \cup {<<"other">>},
  vmm |-> {<<"sm">>, <<"channel_sd">>}, tds |-> {<<"register12">>}, art |-> {<<"core", 1>>, <<"top", 1>>},
  padtriggerfpga |-> {<<"control">>}, gbtx |-> {<<"mode">>}]
El(t, o, s) == [type |-> t, opcType |-> o, boardType |-> "mmg", specific |-> s]
Own == (<<"rocCoreDigital", 0>> :> {<<"other">>, <<"vmmEnable", 2>>, <<"connection", 1, 3>>})
        @@ (<<"vmm", 2>> :> {<<"sm">>}) @@ (<<"tds", 3>> :> {<<"register12">>})
Bad == (<<"vmm", 2>> :> {<<"unknown">>})
NoOwn == << >>
MCFile == [
  mmfe8 |-> El("MMFE8", "MMFE8", Own), pfeb |-> El("PFEB", "PFEB", Own), sfeb6 |-> El("SFEB6", "SFEB6", NoOwn),
  sfeb8 |-> El("SFEB8", "SFEB8", Own), bad |-> El("SFEB8", "SFEB8", Bad),
  addc |-> El("ADDC", "ADDC", (<<"art", 1>> :> {<<"top", 2>>, <<"core", 1>>})),
  badAddc |-> El("ADDC", "ADDC", (<<"art", 1>> :> {<<"core", 2>>})),
  l1ddc |-> El("L1DDC", "L1DDC", NoOwn), pad |-> El("PadTrigger", "PadTrigger", (<<"padtriggerfpga", 0>> :> {<<"control">>})),
  router |-> El("Router", "Router", (<<"router", 0>> :> {<<"id">>})), tp |-> El("TP", "MMTP", NoOwn),
  mmtp |-> El("MMTP", "MMTP", NoOwn)]
R(n, c, d, x) == [name |-> n, class |-> c, off |-> FALSE, prefixed |-> TRUE, matched |-> TRUE, devices |-> d, contains |-> x]
Roc == {<<"ROC", 0>>}
AllOf(v, s, t) == Roc \cup ({"VMM"} \X v) \cup ({"sROC"} \X s) \cup ({"TDS"} \X t)
On(r, off) == [r EXCEPT !.off = off]
One(r) == [resources |-> <<r>>, contains |-> <<1>>, json |-> TRUE, common |-> Commons, file |-> MCFile]
BoardSetups ==
  {One(R("mmfe8", "FEB", AllOf(v, s, {}), <<>>)) : v \in SUBSET (0..2), s \in {0..3, {1}}}
  \cup {One(R("pfeb", "FEB", AllOf(v, s, t), <<>>)) : v \in SUBSET (0..2), s \in {{0}, {}}, t \in {{}, {0}}}
  \cup {One(R(n, "FEB", AllOf(v \cup {6, 7}, {0, 2}, t), <<>>)) : n \in {"sfeb6"}, v \in SUBSET (2..5), t \in {1..3, {2}}}
  \cup {One(R(n, "FEB", AllOf(v, {0, 2}, t), <<>>)) : n \in {"sfeb8", "bad"}, v \in {0..7, {0, 2, 4, 6}, {1, 5}}, t \in {0..3, {0}}}
  \cup {One(R("addc", "ADDC", {"ART"} \X a, <<>>)) : a \in SUBSET (0..1)}
  \cup {One(R("badAddc", "ADDC", {"ART"} \X a, <<>>)) : a \in SUBSET (0..1)}
  \cup {One(R("sfeb8", "FEB", {<<"VMM", 0>>}, <<>>)), One(R("elsewhere", "Router", {}, <<>>))}
Tree(a, b, c, d) ==
  << On(R("crate", "", {}, <<2, 3>>), a), R("router", "Router", {}, << >>), On(R("pad", "PadTrigger", {}, << >>), b),
     [R("l1ddc", "L1DDC", {}, <<5>>) EXCEPT !.prefixed = d],
     [R("mmfe8", "FEB", AllOf(0..7, 0..3, {}), << >>) EXCEPT !.matched = c],
     R("tp", "TP", {}, << >>), R("mmtp", "TP", {}, << >>), R("tp", "TP", {}, << >>) >>
NoTree == [resources |-> << >>, contains |-> << >>, json |-> TRUE, common |-> Commons, file |-> MCFile]
MCSetups == BoardSetups \cup {NoTree}
  \cup {[NoTree EXCEPT !.resources = Tree(a, b, c, d), !.contains = <<1, 4, 6, 7, 8>>, !.json = j]
         : a, b, c, d, j \in BOOLEAN}
  \cup {[NoTree EXCEPT !.common = [s \in DOMAIN Commons \ x |-> Commons[s]]]
         : x \in {{"vmm"}, {"art"}, {"padtriggerfpga", "gbtx"}}}
-----------------------------------------------------------------------------
IdleSender ==
  /\ program = P(FALSE, 0, <<>>) /\ main = "returned" /\ next = 1
  /\ result = <<>> /\ connected = {} /\ todo = <<>> /\ failures = <<>> /\ board = <<>>
  /\ warned = {} /\ faults = <<>> /\ unconnected = {}
IdleVmm ==
  /\ config = <<>> /\ bits = {} /\ outcome = "ok" /\ asked = <<>> /\ shown = <<>> /\ calls = 0
IdleDeskew ==
  /\ scanOnly = TRUE /\ skews = <<>> /\ folded = FALSE /\ stage = "failed" /\ delays = <<>>
  /\ existingDelays = <<>> /\ bcidPerPfebPerDelay = <<>> /\ targetBcid = NoTarget
IdleReader ==
  /\ setup = <<>> /\ progress = "thrown" /\ ahead = <<>> /\ deviceMap = NoDevices /\ names = {}
  /\ added = <<>> /\ fatals = {}

Init ==
  \/ tool = "sender" /\ ToolInit   /\ IdleVmm /\ IdleDeskew /\ IdleReader
  \/ tool = "vmm"    /\ VmmInit    /\ IdleSender /\ IdleDeskew /\ IdleReader
  \/ tool = "deskew" /\ DeskewInit /\ IdleSender /\ IdleVmm /\ IdleReader
  \/ tool = "reader" /\ ReaderInit /\ IdleSender /\ IdleVmm /\ IdleDeskew
Next ==
  /\ UNCHANGED tool
  /\ \/ tool = "sender" /\ ToolNext   /\ UNCHANGED <<vmmVars, deskewVars, readerVars>>
     \/ tool = "vmm"    /\ VmmNext    /\ UNCHANGED <<toolVars, deskewVars, readerVars>>
     \/ tool = "deskew" /\ DeskewNext /\ UNCHANGED <<toolVars, vmmVars, readerVars>>
     \/ tool = "reader" /\ ReaderNext /\ UNCHANGED <<toolVars, vmmVars, deskewVars>>

Stops ==
  CASE tool = "sender" -> ToolEnds
    [] tool = "vmm"    -> calls = MaxCalls
    [] tool = "deskew" -> stage \in {"done", "failed"}
    [] tool = "reader" -> progress \in {"read", "thrown"}
Ending == Stops /\ UNCHANGED vars

Spec == Init /\ [][Next \/ Ending]_vars /\ WF_toolVars(ToolNext)
-----------------------------------------------------------------------------
\* The states of the four parts.
TypeOK ==
  CASE tool = "sender" -> ToolTypeOK
    [] tool = "vmm"    -> VmmTypeOK
    [] tool = "deskew" -> DeskewTypeOK
    [] tool = "reader" -> ReaderTypeOK

\* Every program with a ConfigSender ends, returning or on an exception, also
\* when boards have failed or wait for a free thread (configure_frontend.cpp:
\* 140-207, NSWConfig.cpp:153-246).
ToolsEnd == <>(tool = "sender" => ToolEnds)
=============================================================================
