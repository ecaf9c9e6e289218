------------------------------- MODULE ArtAddc -------------------------------
(***************************************************************************)
(* ADDC: two ARTs, each with the GBTx that sends its data.  Lines are      *)
(* pairs of an ART and a name.                                             *)
(***************************************************************************)
EXTENDS DeviceAccess

Arts == {0, 1}

\* The three reset pins of the ART (one line), the reset pin of the GBTx and
\* its registers, the phase of the TTC clock (register 9), the core and ps
\* registers of the ART, its mask, pattern and flag registers, the training
\* mode of the GBTx (register 62) and its e-port training.
ArtNames == {"artReset", "gbtxReset", "gbtx", "ttcPhase", "registers", "mask",
             "patterns", "flags", "trainMode", "eports"}
AddcLines == Arts \X ArtNames

\* ART::initART
InitArt(i) == Write(<<i, "artReset">>, "inactive")

\* ART::resetGBTx
ResetGbtx(i) == Toggle(<<i, "gbtxReset">>, "active", "inactive")

\* ART::configGBTx: after every byte of the table the phase is moved, also
\* while the chunk with the byte is not sent yet.
ConfigGbtx(i) ==
  Do(<<Write(<<i, "ttcPhase">>, "moved"), Write(<<i, "gbtx">>, "partial"),
       Write(<<i, "ttcPhase">>, "moved"), Write(<<i, "gbtx">>, "configured"),
       Write(<<i, "ttcPhase">>, "moved")>>)

\* ART::resetART: three pins, one after the other.
ResetArt(i) ==
  Do([pin \in 1..3 |-> Toggle(<<i, "artReset">>, "active", "inactive")])

\* ART::configART, core and ps registers.  The configuration may have mask,
\* pattern and flag registers among them.
ConfigArt(i) ==
  Do(<<Write(<<i, "registers">>, "partial"),
       Write(<<i, "mask">>, "configured"),
       Write(<<i, "patterns">>, "configured"),
       Write(<<i, "registers">>, "configured")>>)

\* ART::maskART
MaskArt(i) == WriteAll(<<i, "mask">>, "all")

\* ART::trainGBTx; register 62 stays in training mode.
TrainGbtx(i) ==
  Do(<<WriteAll(<<i, "patterns">>, "training"),
       Write(<<i, "trainMode">>, "training"),
       WriteAll(<<i, "eports">>, "training"),
       WriteAll(<<i, "eports">>, "off"),
       WriteAll(<<i, "patterns">>, "configured")>>)

\* ART::failsafeMode
FailsafeMode(i, settings) ==
  WriteAll(<<i, "flags">>,
           IF "failsafe" \in settings THEN "failsafe" ELSE "default")

\* ART::unmaskART
UnmaskArt(i) == WriteAll(<<i, "mask">>, "configured")

\* ART::adjustPhaseART
AdjustPhase(i) ==
  Do([phase \in 1..5 |->
       Write(<<i, "ttcPhase">>, IF phase = 5 THEN "adjusted" ELSE "moved")])

\* ART::writeConfiguration
WriteArt(i, settings) ==
  Do(<<InitArt(i), ResetGbtx(i), ConfigGbtx(i), ResetArt(i), ConfigArt(i),
       MaskArt(i), TrainGbtx(i), FailsafeMode(i, settings), UnmaskArt(i),
       AdjustPhase(i)>>)

\* ADDC::writeConfiguration: the second ART is not reached if the first one
\* fails.
WriteAddc(settings) == WriteArt(0, settings) \o WriteArt(1, settings)

\* What the configuration is to achieve.
AddcReady(hw, settings) ==
  \A i \in Arts :
    /\ hw[<<i, "artReset">>] = "inactive" /\ hw[<<i, "gbtxReset">>] = "inactive"
    /\ hw[<<i, "gbtx">>] = "configured" /\ hw[<<i, "ttcPhase">>] = "adjusted"
    /\ hw[<<i, "registers">>] = "configured" /\ hw[<<i, "mask">>] = "configured"
    /\ hw[<<i, "patterns">>] = "configured" /\ hw[<<i, "eports">>] = "off"
    /\ hw[<<i, "flags">>] = (IF "failsafe" \in settings THEN "failsafe"
                                                         ELSE "default")
=============================================================================
