----------------------------- MODULE DeviceAccess -----------------------------
(***************************************************************************)
(* What a device procedure does to its device: a sequence of steps through *)
(* the SCA interface.  A procedure in progress is the sequence of steps it *)
(* has still to do; the modules FrontEnd and TriggerDevices build these    *)
(* sequences, DeviceManager executes them.  A device is a function from    *)
(* its lines (registers, pins, or groups of them) to values.               *)
(***************************************************************************)
EXTENDS Naturals, Sequences, FiniteSets, FiniteSetsExt, SequencesExt

SingleStep(do, line, value, ways) ==
  <<[do |-> do, line |-> line, value |-> value, ways |-> ways]>>

\* SCA::sendGPIO, sendI2c, sendI2cMasterSingle, sendSpiRaw of one value.
Write(line, value) == SingleStep("write", line, value, {})

\* One access that changes nothing, such as SCA::readGPIO.
Read(line) == SingleStep("read", line, "none", {})

\* The procedure keeps a value it has read, or writes a value it has kept: what
\* it keeps is a line of its own beside those of the device.  It is the effect
\* of an access, whose failure is that of the steps around this one.
Copy(from, to) == SingleStep("copy", to, from, {})

\* A loop that reads a pin until it has a value, without any bound.
Await(line, value) == SingleStep("await", line, value, {})

\* The device itself settles a line, which the procedure is about to read.
Settle(line, value) == SingleStep("settle", line, value, {})

\* An issue about the device is raised; the procedure goes on.
Warn == SingleStep("warn", "none", "none", {})

\* throw
Raise == SingleStep("raise", "none", "none", {})

\* One of several continuations, depending on what the device answers.
Choose(ways) == SingleStep("choose", "none", "none", ways)

\* try { body } catch (std::exception) { handler }
Attempt(body, handler) ==
  SingleStep("try", "none", "none", {}) \o body \o SingleStep("catch", "none", "none", {handler})

\* A step that only depends on the configuration of the device.
If(condition, body) == IF condition THEN body ELSE <<>>

Nothing == <<>>

\* Procedures one after the other.
Do(procedures) == FlattenSeq(procedures)

\* SCA::sendI2cMasterConfig and other loops over a group of registers: an
\* exception in the middle leaves the group half written.
WriteAll(line, value) == Write(line, "partial") \o Write(line, value)

\* A pulse on a reset line.
Toggle(line, first, last) == Write(line, first) \o Write(line, last)

(***************************************************************************)
(* Execution.                                                              *)
(***************************************************************************)
\* The steps that change a line.
Changes == {"write", "settle", "copy"}

\* What a line does when it is written: PLLs in reset are not locked.
Effect(lines, step, plls) ==
  LET value   == IF step.do = "copy" THEN lines[step.value] ELSE step.value
      written == [lines EXCEPT ![step.line] = value]
  IN IF plls /\ step.line = "pllReset" /\ step.value = "active"
       THEN [written EXCEPT !["pllLocked"] = "no"] ELSE written

\* How many try blocks that contain the next step end in the first i steps,
\* less those that begin there.
Closed(todo, i) ==
  Cardinality({j \in 1..i : todo[j].do = "catch"})
    - Cardinality({j \in 1..i : todo[j].do = "try"})

Handlers(todo) == {i \in DOMAIN todo : Closed(todo, i) > 0}

\* Somebody catches an exception thrown by the next step.
IsCaught(todo) == Handlers(todo) # {}

\* Where it continues: in the handler of the innermost try block around it.
AfterThrow(todo) ==
  IF IsCaught(todo)
    THEN LET catch == Min(Handlers(todo))
         IN (CHOOSE handler \in todo[catch].ways : TRUE)
              \o SubSeq(todo, catch + 1, Len(todo))
    ELSE <<>>
=============================================================================
