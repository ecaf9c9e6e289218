------------------------------ MODULE PadTrigger ------------------------------
(***************************************************************************)
(* The pad trigger.  Its reset and idle bits are sub-registers, changed by *)
(* reading the register and writing it back.                               *)
(***************************************************************************)
EXTENDS TriggerDevices

\* "existingDelays" is the variable of deskewPFEBs.
Resets == {"gtReset", "idle", "ocr", "bcidReset", "readoutReset",
           "triggerReset", "rxLolReset"}
PadTriggerLines ==
  {"repeaterPins", "repeaters", "vttx", "firmware", "control", "fpga",
   "delays", "existingDelays"} \cup Resets

\* PadTrigger::writeRepeatersConfiguration, of the first and the last command
WriteRepeaters ==
  LET command(value) ==
        Do(<<Write("repeaterPins", "on"), Write("repeaters", value),
             CheckReadback("repeaters"), Write("repeaterPins", "off")>>)
  IN command("partial") \o command("configured")

\* PadTrigger::writeVTTxConfiguration, of both VTTxs
WriteVttx ==
  WriteAndReadback("vttx", "partial") \o WriteAndReadback("vttx", "configured")

\* PadTrigger::writeJTAGBitfileConfiguration: nothing if the firmware is
\* there already, an exception if it is not there afterwards.
WriteBitfile(settings) ==
  LET upload == Do(<<UploadBitfile, Read("firmware"), Choose({Nothing, Raise})>>)
  IN Read("firmware")
       \o (IF "forceUpload" \in settings THEN upload
                                         ELSE Choose({Nothing, upload}))

\* PadTrigger::writeFPGAConfiguration: the control register has to work, a
\* failure of another one ends the loop with an issue.
WriteFpga ==
  WriteAndReadback("control", "configured")
    \o Attempt(Do(<<WriteAndReadback("fpga", "partial"),
                    WriteAndReadback("delays", "configured"),
                    WriteAndReadback("fpga", "configured")>>),
               Warn)

\* PadTrigger::writeSubRegister
WriteSubRegister(line, value) == Read(line) \o Write(line, value)

\* toggleOcrEnable, toggleGtReset, toggleGtRxLolReset, toggleIdleState,
\* toggleBcidErrorReset, togglePFEBBcidResetReadout and ...Trigger
ToggleReset(line) ==
  Do(<<WriteSubRegister(line, "off"), WriteSubRegister(line, "on"),
       WriteSubRegister(line, "off")>>)

\* PadTrigger::deskewPFEBs: the scan overwrites the delays with a common one;
\* the delays chosen afterwards are those read before it, those of the target
\* BCID, or zero (with an issue) if no target is found.  What was read may be
\* what an earlier scan left when it broke off.
Deskew(settings) ==
  LET scan  == Do(<<WriteAll("delays", "common"), CheckReadback("delays"),
                    Read("delays")>>)
      first == Write("delays", "partial") \o CheckReadback("delays")
      last  == CheckReadback("delays") \o Read("delays")
      apply(value) == Do(<<first, Write("delays", value), last>>)
      restore      == Do(<<first, Copy("existingDelays", "delays"), last>>)
  IN Do(<<Read("delays"), Copy("delays", "existingDelays"), scan,
          IF "scanOnly" \in settings
            THEN Choose({Nothing, Warn}) \o restore
            ELSE Choose({apply("deskewed"), Warn \o apply("zero")})>>)

\* PadTrigger::toggleIdleState
ToggleIdleState(settings) == If("toggle" \in settings, ToggleReset("idle"))

\* PadTrigger::writeConfiguration
WritePadTrigger(settings) ==
  Do(<<If("repeaters" \in settings, WriteRepeaters),
       If("vttx" \in settings, WriteVttx),
       If("bitfile" \in settings, WriteBitfile(settings)),
       If("fpga" \in settings, WriteFpga),
       If("gtReset" \in settings, ToggleReset("gtReset")),
       If("deskew" \in settings, Deskew(settings)),
       ToggleIdleState(settings),
       If("ocr" \in settings, ToggleReset("ocr")),
       If("bcidReset" \in settings, ToggleReset("bcidReset") \o Read("bcidReset")),
       ToggleReset("readoutReset"), ToggleReset("triggerReset"),
       If("rxLolReset" \in settings, ToggleReset("rxLolReset")),
       Read("readoutReset"), ToggleReset("readoutReset")>>)

\* With "scanOnly" the delays are those found before the scan: those of the
\* configuration only if the same procedure has written them.
DelaysReady(hw, settings) ==
  IF "scanOnly" \in settings
    THEN /\ hw["delays"] = hw["existingDelays"]
         /\ "fpga" \in settings => hw["delays"] = "configured"
    ELSE hw["delays"] = "deskewed"

PadTriggerReady(hw, settings) ==
  /\ "repeaters" \in settings =>
       hw["repeaters"] = "configured" /\ hw["repeaterPins"] = "off"
  /\ "vttx" \in settings => hw["vttx"] = "configured"
  /\ "fpga" \in settings =>
       hw["control"] = "configured" /\ hw["fpga"] = "configured"
  /\ "deskew" \in settings => DelaysReady(hw, settings)
  /\ \A line \in Resets : hw[line] # "on"
=============================================================================
