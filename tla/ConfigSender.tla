----------------------------- MODULE ConfigSender -----------------------------
(***************************************************************************)
(* ConfigSender, the older way to configure a device, which the stand-     *)
(* alone programs use: procedures in the language of DeviceAccess, with    *)
(* the lines of FrontEnd and ArtAddc.  The accesses go through an          *)
(* OpcClient, which repeats a failing one.                                 *)
(***************************************************************************)
EXTENDS FrontEnd, ArtAddc

CONSTANTS
  MAX_RETRY,             \* 5 in the code
  FIBER_ALIGN_ATTEMPTS,  \* 10 in the code
  NUM_TEST_PULSES        \* 10 in the code

ASSUME SenderAssumption ==
  /\ {MAX_RETRY, NUM_TEST_PULSES} \subseteq Nat \ {0}
  /\ FIBER_ALIGN_ATTEMPTS \in Nat

(***************************************************************************)
(* OpcClient                                                               *)
(***************************************************************************)
\* Fault: one try less for writing.
WriteTries_OneLess == MAX_RETRY - 1
\* writeI2cRaw and writeGPIO; writeSpiSlaveRaw does the same.
WriteTries == MAX_RETRY
\* readGPIO and readI2c; readAnalogInputConsecutiveSamples does the same.
ReadTries  == MAX_RETRY
Tries(step) ==
  CASE step.do = "write"             -> WriteTries
    [] step.do \in {"read", "await"} -> ReadTries
    [] OTHER                         -> 1

\* ConfigSender::addOpcClientIfNew: the first access of a sender connects a
\* client, in one try.
AddOpcClientIfNew == SingleStep("connect", "none", "none", {})

\* OpcClient::writeFreeVariable, in one try; a failure is only logged.
WriteFreeVariable == Attempt(SingleStep("tell", "none", "none", {}), Nothing)

(***************************************************************************)
(* Front-end boards                                                        *)
(***************************************************************************)
\* Fault: the analog registers are written after the reset of the PLLs.
SendRocConfig_LateAnalog ==
  Do(<<Write("coreReset", "active"), Write("pllReset", "active"),
       Toggle("sReset", "active", "inactive"),
       Write("pllReset", "inactive"), Await("pllLocked", "yes"), ConfigureAnalog,
       Write("coreReset", "inactive"), ConfigureDigital>>)
\* sendRocConfig
SendRocConfig ==
  Do(<<Write("coreReset", "active"), Write("pllReset", "active"),
       Toggle("sReset", "active", "inactive"), ConfigureAnalog,
       Write("pllReset", "inactive"), Await("pllLocked", "yes"),
       Write("coreReset", "inactive"), ConfigureDigital>>)

\* setVMMConfigurationStatusInfoDCS, which leaves the VMM alone
SetVmmConfigurationStatusInfoDcs == WriteFreeVariable

\* sendVmmConfig of all VMMs of a board.
SendVmmConfig(value) ==
  Do(<<Write("acquisition", "off"), SetVmmConfigurationStatusInfoDcs,
       WriteAll("vmms", value), Write("acquisition", "on")>>)

\* Fault: the last reset is not taken back.
ResetTds_KeepsLast ==
  Do(<<Toggle("tdsResets", "pll", "off"), Toggle("tdsResets", "logic", "off"),
       Write("tdsResets", "serializer")>>)
\* The three resets in register 12, and the readback of register 14.
ResetTds ==
  Do(<<Toggle("tdsResets", "pll", "off"), Toggle("tdsResets", "logic", "off"),
       Toggle("tdsResets", "serializer", "off"), Read("tdss")>>)
\* sendTdsConfig
SendTdsConfig(options) ==
  Do(<<Write("tdsPins", "inactive"), WriteAll("tdss", "configured"),
       If("resettds" \in options, ResetTds)>>)

(***************************************************************************)
(* ADDCs: all stages of sendAddcConfig, each for the ARTs asked for.       *)
(***************************************************************************)
Each(arts, Stage(_)) == Do([i \in 1..Len(arts) |-> Stage(arts[i])])
SendGbtx(i) == WriteAll(<<i, "gbtx">>, "configured") \o Write(<<i, "ttcPhase">>, "moved")

\* Resets, GBTx configuration, common configuration of the ARTs.
StartAddc(arts) ==
  Do(<<Each(arts, InitArt), Each(arts, ResetGbtx), Each(arts, SendGbtx),
       Each(arts, ResetArt), Each(arts, ConfigArt)>>)
\* Training behind the mask, flags, unmasking, phase.
AlignAddc(arts, settings) ==
  LET Failsafe(i) == FailsafeMode(i, settings)
  IN Do(<<Each(arts, MaskArt), Each(arts, TrainGbtx), Each(arts, Failsafe),
          Each(arts, UnmaskArt), Each(arts, AdjustPhase)>>)
\* sendAddcConfig
SendAddcConfig(arts, settings) == StartAddc(arts) \o AlignAddc(arts, settings)

(***************************************************************************)
(* Trigger processor of the MM                                             *)
(***************************************************************************)
\* The registers that are always sent, in their order, and those that are
\* sent unless their value is -1.
Required == <<"ADDC_EMU_DISABLE", "L1A_OPENING_OFFSET", "L1A_REQUEST_OFFSET",
  "L1A_CLOSING_OFFSET", "L1A_TIMEOUT_WINDOW", "L1A_CONTROL", "FIBER_BC_OFFSET",
  "INPUT_PHASE", "HORX_ENV_MON_ADDR">>
Optional == <<"INPUT_PHASEADDCOFFSET", "SELFTRIGGER_DELAY", "VMM_MASK_HOT_THRESH",
  "VMM_MASK_HOT_THRESH_HYST", "VMM_MASK_DRAIN_PERIOD">>
TpRegisters == Range(Required \o Optional)

\* sendTPConfig; "unset" and "skipped" are sets of registers.
SendTpConfig(unset, skipped) ==
  LET all == Required \o Optional
      sent(r) == r \notin skipped /\ (r \in Range(Optional) => r \notin unset)
      Send(r) == IF r = "L1A_CONTROL" THEN Toggle(r, "reset", "configured")
                 ELSE Write(r, "configured")
  IN Do([k \in 1..Len(all) |-> If(sent(all[k]), Send(all[k]))])

\* sendSCAXRegister
SendScaxRegister(line, value) == Write(line, value)
\* readSCAXRegisterWord: an address is written before it is read.  What is read
\* is one of the values.
ReadScaxRegisterWord(line, values, then(_)) ==
  Write("scaxAddress", {line})
    \o Choose({Settle(line, value) \o Read(line) \o then(value) : value \in values})

\* Fault: all QPLLs are reset.
QpllReset_All(bad, quads) == quads
\* The QPLLs to reset: those of the quads with a fibre that is not aligned.
QpllReset(bad, quads) == bad \cap quads

\* alignArtGbtxMmtp, of the quads of the fibres that are not skipped.  Every
\* reading of the alignment may find some quads bad, which are reset.
AlignArtGbtxMmtp(quads) ==
  LET resetOf(bad) == SendScaxRegister("qpllReset", QpllReset(bad, quads))
                        \o SendScaxRegister("qpllReset", {})
      align[resets \in 0..FIBER_ALIGN_ATTEMPTS + 1] ==
        IF resets > FIBER_ALIGN_ATTEMPTS THEN Raise
        ELSE ReadScaxRegisterWord("fibers", SUBSET quads, LAMBDA good :
               IF good = quads THEN Nothing ELSE resetOf(quads \ good) \o align[resets + 1])
  IN If(quads # {}, align[0])
=============================================================================
