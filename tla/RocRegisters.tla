----------------------------- MODULE RocRegisters -----------------------------
(***************************************************************************)
(* The registers of the ROC and the values they hold: ROC_ANALOG_REGISTERS *)
(* and ROC_DIGITAL_REGISTERS with their translation maps.                  *)
(***************************************************************************)
EXTENDS ConfigConverter

(***************************************************************************)
(* Analog registers.                                                       *)
(***************************************************************************)
PllControl ==
  <<F("ePllInstantLock", 1), F("ePllReset", 1), F("bypassPLL", 1), F("ePllLockEn", 1),
    F("ePllReferenceFrequency", 2), F("ePllCap", 2)>>
PllFilter == <<F("ePllRes", 4), F("ePllIcp", 4)>>
PllPhase(i) ==
  <<Field(<<"ePllPhase160MHz", i, "[4]">>, 1), Field(<<"ePllPhase40MHz", i>>, 7)>>
PhaseNibble(i) == Field(<<"ePllPhase160MHz", i, "[3:0]">>, 4)
ControlLine(i) ==
  <<Field(<<"ctrl_05delay", i>>, 1), Field(<<"ctrl_delay", i>>, 3),
    Field(<<"ctrl_bypass", i>>, 1), Field(<<"ctrl_phase", i>>, 3)>>
TestPulse(i) == <<Field(<<"tp_bypass", i>>, 1), Field(<<"tp_phase", i>>, 3)>>

\* The 16 registers of a PLL, from number base on; two of them differ.
PllBlock(base, special) ==
  [r \in base..base + 15 |->
     LET i == r - base
     IN CASE i \in 0..3   -> PllPhase(i)
          [] i = 4        -> <<PhaseNibble(1), PhaseNibble(0)>>
          [] i = 5        -> <<PhaseNibble(3), PhaseNibble(2)>>
          [] i = 6        -> PllControl
          [] i = 7        -> PllFilter
          [] i = 8        -> <<F("ePllEnablePhase", 8)>>
          [] i \in 9..10  -> special[i - 8]
          [] i \in 11..14 -> ControlLine(i - 11)
          [] i = 15       -> <<F("tx_enable", 4), F("tx_csel", 4)>>]

VmmSpecial == <<TestPulse(1) \o TestPulse(0), TestPulse(3) \o TestPulse(2)>>
RegistersPllVmm0 == PllBlock(64, VmmSpecial)
RegistersPllVmm1 == PllBlock(80, VmmSpecial)
RegistersPllTdc ==
  PllBlock(96, <<<<F("enable160MHzOnBCR", 4), F("enable160MHzOn40MHz", 4)>>,
                 <<F("tx_enable_bcr", 4), F("tx_csel_bcr", 4)>>>>)
RegistersPllCore ==
  [r \in 112..124 |->
     CASE r = 112 -> PllControl
       [] r = 113 -> PllFilter
       [] r = 114 -> <<F("ePllEnablePhase", 8)>>
       [] r \in 115..117 -> PllPhase(r - 115)
       [] r = 118 -> <<PhaseNibble(0), PhaseNibble(1)>>
       [] r = 119 -> <<F("tp_bypass_global", 1), F("tp_phase_global", 3), PhaseNibble(2)>>
       [] r = 120 -> <<F("TDS_BCR_INV", 4), F("LockOutInv", 1), F("testOutEn", 1),
                       F("testOutMux", 2)>>
       [] r = 121 -> <<F("vmmBcrInv", 8)>>
       [] r = 122 -> <<F("vmmEnaInv", 8)>>
       [] r = 123 -> <<F("vmmL0Inv", 8)>>
       [] r = 124 -> <<F("vmmTpInv", 8)>>]
ROC_ANALOG_REGISTERS ==
  RegistersPllVmm0 @@ RegistersPllVmm1 @@ RegistersPllTdc @@ RegistersPllCore

\* A unit of value "pll.name" in sub-register "name".
PllUnit(pll, name, reg, mask) == Unit(<<pll>> \o name, reg, name, mask)

PhaseUnits(pll, i, top, low, nibble) ==
  LET value == <<pll, "ePllPhase160MHz", i>>
  IN {Part(value, top, <<"ePllPhase160MHz", i, "[4]">>, Bit(7), Bit(4)),
      Part(value, low, <<"ePllPhase160MHz", i, "[3:0]">>, nibble, Bits(3, 0)),
      PllUnit(pll, <<"ePllPhase40MHz", i>>, top, Bits(6, 0))}
ControlUnits(pll, reg) ==
  {PllUnit(pll, <<"ePllInstantLock">>, reg, Bit(7)), PllUnit(pll, <<"ePllReset">>, reg, Bit(6)),
   PllUnit(pll, <<"bypassPLL">>, reg, Bit(5)), PllUnit(pll, <<"ePllLockEn">>, reg, Bit(4)),
   PllUnit(pll, <<"ePllReferenceFrequency">>, reg, Bits(3, 2)),
   PllUnit(pll, <<"ePllCap">>, reg, Bits(1, 0)),
   PllUnit(pll, <<"ePllRes">>, reg + 1, Bits(7, 4)),
   PllUnit(pll, <<"ePllIcp">>, reg + 1, Bits(3, 0)),
   PllUnit(pll, <<"ePllEnablePhase">>, reg + 2, ALL)}
LineUnits(pll, i, reg) ==
  {PllUnit(pll, <<"ctrl_05delay", i>>, reg, Bit(7)),
   PllUnit(pll, <<"ctrl_delay", i>>, reg, Bits(6, 4)),
   PllUnit(pll, <<"ctrl_bypass", i>>, reg, Bit(3)),
   PllUnit(pll, <<"ctrl_phase", i>>, reg, Bits(2, 0))}
PllUnits(pll, base) ==
  LET odd(i) == i % 2 = 1
  IN UNION {PhaseUnits(pll, i, base + i, base + 4 + i \div 2,
                       IF odd(i) THEN Bits(7, 4) ELSE Bits(3, 0)) : i \in 0..3}
     \cup ControlUnits(pll, base + 6)
     \cup UNION {LineUnits(pll, i, base + 11 + i) : i \in 0..3}
     \cup {PllUnit(pll, <<"tx_enable">>, base + 15, Bits(7, 4)),
           PllUnit(pll, <<"tx_csel">>, base + 15, Bits(3, 0))}
TestPulseUnits(pll, base) ==
  UNION {{PllUnit(pll, <<"tp_bypass", i>>, base + 9 + i \div 2, Bit(3 + 4 * (i % 2))),
          PllUnit(pll, <<"tp_phase", i>>, base + 9 + i \div 2,
                  Bits(2 + 4 * (i % 2), 4 * (i % 2)))} : i \in 0..3}

UnitsPllVmm0 == PllUnits("ePllVmm0", 64) \cup TestPulseUnits("ePllVmm0", 64)
UnitsPllVmm1 == PllUnits("ePllVmm1", 80) \cup TestPulseUnits("ePllVmm1", 80)
UnitsPllTdc ==
  PllUnits("ePllTdc", 96)
    \cup {PllUnit("ePllTdc", <<"enable160MHzOnBCR">>, 105, Bits(7, 4)),
          PllUnit("ePllTdc", <<"enable160MHzOn40MHz">>, 105, Bits(3, 0)),
          PllUnit("ePllTdc", <<"tx_enable_bcr">>, 106, Bits(7, 4)),
          PllUnit("ePllTdc", <<"tx_csel_bcr">>, 106, Bits(3, 0))}
UnitsPllCore ==
  ControlUnits("ePllCore", 112)
    \cup PhaseUnits("ePllCore", 0, 115, 118, Bits(7, 4))
    \cup PhaseUnits("ePllCore", 1, 116, 118, Bits(3, 0))
    \cup PhaseUnits("ePllCore", 2, 117, 119, Bits(3, 0))
    \cup {PllUnit("ePllCore", <<"tp_bypass_global">>, 119, Bit(7)),
          PllUnit("ePllCore", <<"tp_phase_global">>, 119, Bits(6, 4)),
          Unit(<<"tdsBcrInvert">>, 120, <<"TDS_BCR_INV">>, Bits(7, 4)),
          Unit(<<"lockOutInvert">>, 120, <<"LockOutInv">>, Bit(3)),
          Unit(<<"testOutEnable">>, 120, <<"testOutEn">>, Bit(2)),
          Unit(<<"testOutMux">>, 120, <<"testOutMux">>, Bits(1, 0)),
          Whole(<<"vmmBcrInvert">>, 121, <<"vmmBcrInv">>),
          Whole(<<"vmmEnaInvert">>, 122, <<"vmmEnaInv">>),
          Whole(<<"vmmL0Invert">>, 123, <<"vmmL0Inv">>),
          Whole(<<"vmmTpInvert">>, 124, <<"vmmTpInv">>)}
TRANSLATION_MAP_ROC_ANALOG ==
  UnitsPllVmm0 \cup UnitsPllVmm1 \cup UnitsPllTdc \cup UnitsPllCore

(***************************************************************************)
(* Digital registers.                                                      *)
(***************************************************************************)
Vmms  == 0..7
Srocs == 0..3
VmmRow == Row("vmm", 7, 0, 1)

RegistersConfig ==
  [r \in 0..14 |->
     CASE r = 0  -> <<F("l1_first", 1), F("even_parity", 1), F("roc_id", 6)>>
       [] r = 1  -> Row("sroc", 3, 0, 2)
       [] r \in 2..5 -> VmmRow
       [] r = 6  -> Row("sroc_eop_enable", 3, 0, 1) \o Row("sroc_nullevt_enable", 3, 0, 1)
       [] r = 7  -> <<F("bypass", 1), F("timeoutEnable", 1), F("TTCStartBits", 2)>>
                      \o Row("enableSROC", 3, 0, 1)
       [] r = 8  -> VmmRow
       [] r = 9  -> <<F("timeout", 8)>>
       [] r = 10 -> <<F("tx_csel", 4), F("bc_offset[11:8]", 4)>>
       [] r = 11 -> <<F("bc_offset[7:0]", 8)>>
       [] r = 12 -> <<Unused(4), F("bc_rollover[11:8]", 4)>>
       [] r = 13 -> <<F("bc_rollover[7:0]", 8)>>
       [] r = 14 -> Row("sroc", 3, 0, 2)]
RegistersBusy ==
  [r \in 19..24 \cup {31, 63} |->
     CASE r \in {19, 63} -> VmmRow
       [] r = 20 -> Row("tdc_enable_sroc", 3, 0, 1) \o Row("busy_enable_sroc", 3, 0, 1)
       [] r = 21 -> <<Unused(5), F("busy_on_limit[10:8]", 3)>>
       [] r = 22 -> <<F("busy_on_limit[7:0]", 8)>>
       [] r = 23 -> <<Unused(5), F("busy_off_limit[10:8]", 3)>>
       [] r = 24 -> <<F("busy_off_limit[7:0]", 8)>>
       [] r = 31 -> <<F("l1_events_no_comma", 8)>>]
RocDummies == 15..18 \cup 25..30 \cup 54..62
RegistersStatus ==
  [r \in 32..53 \cup RocDummies |->
     CASE r \in 32..39 -> <<Unused(3), F("fifo_full_err", 1), F("coherency_err", 1),
                            F("dec_err", 1), F("misaligned_err", 1), F("aligned", 1)>>
       [] r \in 40..43 -> <<Unused(5), F("ttc_fifo_full", 1), F("enc_err", 1),
                            F("event_full", 1)>>
       [] r = 44       -> <<Unused(7), F("seu", 1)>>
       [] r \in 45..52 -> <<F("parity_counter", 8)>>
       [] r = 53       -> <<F("seu_counter", 8)>>
       [] OTHER        -> <<F("dummy", 8)>>]
ROC_DIGITAL_REGISTERS == RegistersConfig @@ RegistersBusy @@ RegistersStatus
ROC_DIGITAL_READONLY  == DOMAIN RegistersStatus

\* One bit for each VMM or sROC, in their order.
PerVmm(value, reg) == {Unit(<<value, i>>, reg, <<"vmm", i>>, Bit(i)) : i \in Vmms}
PerSroc(value, reg, field, first) ==
  {Unit(<<value, i>>, reg, <<field, i>>, Bit(first + i)) : i \in Srocs}
PairPerSroc(value, reg) ==
  {Unit(<<value, i>>, reg, <<"sroc", i>>, Bits(2 * i + 1, 2 * i)) : i \in Srocs}

UnitsConfig ==
  {Unit(<<"l1_first">>, 0, <<"l1_first">>, Bit(7)),
   Unit(<<"even_parity">>, 0, <<"even_parity">>, Bit(6)),
   Unit(<<"roc_id">>, 0, <<"roc_id">>, Bits(5, 0))}
    \cup PairPerSroc("elinkSpeed", 1)
    \cup {Unit(<<"sRocVmmConnections", s, i>>, 2 + s, <<"vmm", i>>, Bit(i)) :
            s \in Srocs, i \in Vmms}
UnitsEnables ==
  PerSroc("eopEnable", 6, "sroc_eop_enable", 4)
    \cup PerSroc("nullEventEnable", 6, "sroc_nullevt_enable", 4)
    \cup {Unit(<<"bypassMode">>, 7, <<"bypass">>, Bit(7)),
          Unit(<<"timeoutEnable">>, 7, <<"timeoutEnable">>, Bit(6)),
          Unit(<<"ttcStartBits">>, 7, <<"TTCStartBits">>, Bits(5, 4))}
    \cup PerSroc("sRocEnable", 7, "enableSROC", 0)
    \cup PerVmm("vmmEnable", 8)
UnitsBunchCrossing ==
  {Whole(<<"timeout">>, 9, <<"timeout">>),
   Unit(<<"tx_csel">>, 10, <<"tx_csel">>, Bits(7, 4)),
   Part(<<"bc_offset">>, 10, <<"bc_offset[11:8]">>, Bits(3, 0), Bits(11, 8)),
   Whole(<<"bc_offset">>, 11, <<"bc_offset[7:0]">>),
   Part(<<"bc_rollover">>, 12, <<"bc_rollover[11:8]">>, Bits(3, 0), Bits(11, 8)),
   Whole(<<"bc_rollover">>, 13, <<"bc_rollover[7:0]">>)}
    \cup PairPerSroc("eportEnable", 14)
UnitsBusy ==
  PerVmm("timeoutStatus", 63)
    \cup PerSroc("busyEnable", 20, "busy_enable_sroc", 0)
    \cup PerSroc("tdcEnable", 20, "tdc_enable_sroc", 4)
    \cup {Part(<<"busyOnLimit">>, 21, <<"busy_on_limit[10:8]">>, Bits(2, 0), Bits(10, 8)),
          Part(<<"busyOnLimit">>, 22, <<"busy_on_limit[7:0]">>, Bits(7, 0), Bits(7, 0)),
          Unit(<<"busyOffLimit">>, 23, <<"busy_off_limit[10:8]">>, Bits(2, 0)),
          Whole(<<"busyOffLimit">>, 24, <<"busy_off_limit[7:0]">>),
          Whole(<<"l1EventsWithoutComma">>, 31, <<"l1_events_no_comma">>)}
    \cup PerVmm("fakeVmmFailure", 19)
UnitsStatus ==
  {Unit(<<"seu", "status">>, 44, <<"seu">>, Bit(0)),
   Whole(<<"seu", "counter">>, 53, <<"seu_counter">>)}
    \cup UNION {{Unit(<<"vmmCaptureStatus", i, "fifoFullError">>, 32 + i, <<"fifo_full_err">>, Bit(4)),
                 Unit(<<"vmmCaptureStatus", i, "coherencyError">>, 32 + i, <<"coherency_err">>, Bit(3)),
                 Unit(<<"vmmCaptureStatus", i, "decoderError">>, 32 + i, <<"dec_err">>, Bit(2)),
                 Unit(<<"vmmCaptureStatus", i, "misalignmentError">>, 32 + i, <<"misaligned_err">>, Bit(1)),
                 Unit(<<"vmmCaptureStatus", i, "aligned">>, 32 + i, <<"aligned">>, Bit(0)),
                 Whole(<<"vmmParityCounter", i>>, 45 + i, <<"parity_counter">>)} : i \in Vmms}
    \cup UNION {{Unit(<<"sRocStatus", s, "ttcFifoFull">>, 40 + s, <<"ttc_fifo_full">>, Bit(2)),
                 Unit(<<"sRocStatus", s, "encoderError">>, 40 + s, <<"enc_err">>, Bit(1)),
                 Unit(<<"sRocStatus", s, "eventFull">>, 40 + s, <<"event_full">>, Bit(0))} : s \in Srocs}
TRANSLATION_MAP_ROC_DIGITAL ==
  UnitsConfig \cup UnitsEnables \cup UnitsBunchCrossing \cup UnitsBusy \cup UnitsStatus
=============================================================================
