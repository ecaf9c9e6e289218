----------------------------- MODULE TdsRegisters -----------------------------
(***************************************************************************)
(* The registers of the TDS and the values they hold: TDS_REGISTERS and    *)
(* TRANSLATION_MAP_TDS.  Registers are up to 128 bits long.                *)
(***************************************************************************)
EXTENDS ConfigConverter

\* Sub-registers first, first - 1, ..., last with unused bits before each.
Padded(word, first, last, unused, size) ==
  FlattenSeq([i \in 1..first - last + 1 |->
                <<Unused(unused), Field(<<word, first + 1 - i>>, size)>>])

TDS_CHANNELS == Row("Chan", 127, 0, 1)
TDS_LOOKUP   == [r \in 3..4 |-> Padded("trig_lut", 8 * (r - 3) + 7, 8 * (r - 3), 1, 15)]
TDS_DELAYS   ==
  [r \in 5..11 |->
     LET first == 16 * (r - 5)
     IN Padded("Chan", IF r = 11 THEN 103 ELSE first + 15, first, 3, 5)]

TDS_READONLY_REGISTERS ==
  [r \in 13..15 |->
     CASE r = 13 -> Row("CRC", 15, 0, 8)
       [] r = 14 -> <<Unused(1), Field(<<"Monitor_Strip", 64>>, 19),
                      Unused(1), Field(<<"Monitor_Strip", 0>>, 19),
                      Unused(6), F("SER_lock", 1), F("Pll_lock", 1)>>
       [] r = 15 -> <<Unused(4), F("strip_trigger_bcid", 12),
                      Unused(3), F("strip_trigger_band_phid", 13)>>]

TDS_REGISTERS ==
  [r \in {0, 1, 2, 12} |->
     CASE r = 0  -> <<F("BCID_Offset", 12), F("BCID_Rollover_Value", 12),
                      F("CKBC_Clock_Phase", 4), F("Strip_Match_Window", 4)>>
       [] r = 1  -> <<F("Ck160_1_Phase", 5), F("Ck160_0_Phase", 5),
                      F("SER_PLL_I", 4), F("SER_PLL_R", 2)>>
       [] r = 2  -> TDS_CHANNELS
       [] r = 12 -> <<F("timer", 8), F("bypass", 4), F("prompt_circuit", 4), Unused(3),
                      F("bypass_trigger", 1), F("bypass_scrambler", 1),
                      F("test_frame2Router_enable", 1), F("stripTDS_globaltest", 1),
                      F("PRBS_e", 1), F("resets", 8)>>]
    @@ TDS_LOOKUP @@ TDS_DELAYS @@ TDS_READONLY_REGISTERS
TDS_READONLY == DOMAIN TDS_READONLY_REGISTERS

\* A value that is one sub-register of the same name.
Same(reg, word, mask) == Unit(<<word>>, reg, <<word>>, mask)

UnitsClock ==
  {Same(0, "BCID_Offset", Bits(31, 20)), Same(0, "BCID_Rollover_Value", Bits(19, 8)),
   Same(0, "CKBC_Clock_Phase", Bits(7, 4)), Same(0, "Strip_Match_Window", Bits(3, 0)),
   Same(1, "Ck160_1_Phase", Bits(15, 11)), Same(1, "Ck160_0_Phase", Bits(10, 6)),
   Same(1, "SER_PLL_I", Bits(5, 2)), Same(1, "SER_PLL_R", Bits(1, 0))}
UnitsTimer ==
  {Same(12, "timer", Bits(31, 24)), Same(12, "bypass", Bits(23, 20)),
   Same(12, "prompt_circuit", Bits(19, 16)), Same(12, "bypass_trigger", Bit(12)),
   Same(12, "bypass_scrambler", Bit(11)), Same(12, "test_frame2Router_enable", Bit(10)),
   Same(12, "stripTDS_globaltest", Bit(9)),
   Unit(<<"PRBS_en">>, 12, <<"PRBS_e">>, Bit(8)), Same(12, "resets", Bits(7, 0))}
UnitsMonitor ==
  {Unit(<<"Monitor_Strip", 64>>, 14, <<"Monitor_Strip", 64>>, Bits(46, 28)),
   Unit(<<"Monitor_Strip", 0>>, 14, <<"Monitor_Strip", 0>>, Bits(26, 8)),
   Same(14, "SER_lock", Bit(1)), Same(14, "Pll_lock", Bit(0)),
   Same(15, "strip_trigger_bcid", Bits(27, 16)),
   Same(15, "strip_trigger_band_phid", Bits(12, 0))}

\* The rows of channels, lookup tables, delays and checksums.
UnitsRows ==
  {Unit(<<"Chan_Disable", i>>, 2, <<"Chan", i>>, Bit(i)) : i \in 0..127}
    \cup {Unit(<<"trig_lut", i>>, 3 + i \div 8, <<"trig_lut", i>>,
               Bits(16 * (i % 8) + 14, 16 * (i % 8))) : i \in 0..15}
    \cup {Unit(<<"Pad_Chan_Delay", i>>, 5 + i \div 16, <<"Pad_Chan", i>>,
               Bits(8 * (i % 16) + 4, 8 * (i % 16))) : i \in 0..103}
    \cup {Unit(<<"CRC_CONFIG", i>>, 13, <<"CRC", i>>, Bits(8 * i + 7, 8 * i)) : i \in 0..15}

TRANSLATION_MAP_TDS == UnitsClock \cup UnitsTimer \cup UnitsMonitor \cup UnitsRows
=============================================================================
