------------------------------- MODULE FrontEnd -------------------------------
(***************************************************************************)
(* Front-end boards: FEB, and the ROC, VMMs and TDSs on it.  The VMMs of a *)
(* board are one line, and so are its TDSs; options and the configuration  *)
(* of the board are members of the set "settings".                         *)
(***************************************************************************)
EXTENDS DeviceAccess

\* The three reset pins and the PLLs of the ROC, its two register banks, what
\* DCS is told about the VMMs (a free variable), the VMM and TDS registers, the
\* reset pins and reset bits of the TDSs.  Two registers are also written by
\* themselves and have a line of their own: of the digital bank the inputs for
\* VMM data ("captures", reg008vmmEnable), of the analog bank the acquisition
\* of the VMMs ("acquisition", reg122vmmEnaInv).
FebLines == {"coreReset", "pllReset", "sReset", "pllLocked", "rocAnalog",
             "rocDigital", "captures", "acquisition", "vmms", "dcsStatus",
             "tdsPins", "tdss", "tdsResets"}

\* Fault: the lock is waited for before the reset is taken back.
SetPllResetN_WaitFirst(state) ==
  If(state = "inactive", Await("pllLocked", "yes")) \o Write("pllReset", state)

\* ROC::setPllResetN: taking the reset away waits for both PLLs to lock.
SetPllResetN(state) ==
  Write("pllReset", state)
    \o If(state = "inactive", Await("pllLocked", "yes"))

\* The digital bank holds reg008vmmEnable: configuring it enables the inputs.
ConfigureDigital ==
  Do(<<Write("rocDigital", "partial"), Write("captures", "configured"),
       Write("rocDigital", "configured")>>)

\* The analog bank holds reg122vmmEnaInv: configuring it sets the acquisition.
ConfigureAnalog ==
  Do(<<Write("rocAnalog", "partial"), Write("acquisition", "configured"),
       Write("rocAnalog", "configured")>>)

\* Fault: the PLLs are released before the analog registers are written.
WriteRoc_EarlyRelease ==
  Do(<<Write("coreReset", "active"), SetPllResetN("active"),
       Toggle("sReset", "active", "inactive"), SetPllResetN("inactive"),
       ConfigureAnalog, Write("coreReset", "inactive"), ConfigureDigital>>)

\* ROC::writeConfiguration
WriteRoc ==
  Do(<<Write("coreReset", "active"), SetPllResetN("active"),
       Toggle("sReset", "active", "inactive"), ConfigureAnalog,
       SetPllResetN("inactive"), Write("coreReset", "inactive"),
       ConfigureDigital>>)

\* ROC::enableVmmCaptureInputs and disableVmmCaptureInputs; the register is
\* digital, so writeRegister leaves the PLL alone.
EnableVmmCaptureInputs  == Write("captures", "configured")
DisableVmmCaptureInputs == Write("captures", "off")

\* VMM::setVmmConfigurationStatusInfoDcs: a free variable that cannot be
\* written is only logged.
TellDcs == Attempt(Write("dcsStatus", "told"), Nothing)

\* VMM::writeConfiguration of all VMMs; each of them disables and enables the
\* acquisition of the whole board, an analog register of the ROC, with the PLLs
\* of the ROC running.
WriteVmm(settings) ==
  Do(<<Write("acquisition", "off"),
       If("resetVmm" \in settings, TellDcs \o Write("vmms", "inReset")),
       TellDcs, WriteAll("vmms", "configured"),
       Write("acquisition", "on")>>)

\* TDS::writeConfiguration: PLL, logic and serializer resets, each set and
\* taken back, and the final readback of register 14, whose bits are read as a
\* decimal number, which may be out of range (std::stoul).
WriteTds(settings) ==
  Do(<<If("unknownTds" \in settings, Raise),
       Write("tdsPins", "inactive"), WriteAll("tdss", "configured"),
       If("resetTds" \in settings,
          Do(<<Toggle("tdsResets", "pll", "off"),
               Toggle("tdsResets", "logic", "off"),
               Toggle("tdsResets", "serializer", "off"), Read("tdss"),
               Choose({Nothing, Raise})>>))>>)

\* Fault: the inputs are disabled before the ROC is configured.
WriteFeb_DisableFirst(settings) ==
  Do(<<If("disableCaptures" \in settings, DisableVmmCaptureInputs), WriteRoc,
       WriteVmm(settings), WriteTds(settings)>>)

\* FEB::writeConfiguration
WriteFeb(settings) ==
  Do(<<WriteRoc,
       If("disableCaptures" \in settings, DisableVmmCaptureInputs),
       WriteVmm(settings), WriteTds(settings)>>)

\* What the configuration is to achieve.
FebReady(hw, settings) ==
  /\ hw["coreReset"] = "inactive" /\ hw["pllReset"] = "inactive"
  /\ hw["sReset"] = "inactive" /\ hw["pllLocked"] = "yes"
  /\ hw["rocAnalog"] = "configured" /\ hw["rocDigital"] = "configured"
  /\ hw["acquisition"] = "on" /\ hw["vmms"] = "configured"
  /\ hw["tdsPins"] = "inactive" /\ hw["tdss"] = "configured"
  /\ "resetTds" \in settings => hw["tdsResets"] = "off"
=============================================================================
