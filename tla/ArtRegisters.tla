----------------------------- MODULE ArtRegisters -----------------------------
(***************************************************************************)
(* The registers of the ART and the values they hold: ART_CORE_REGISTERS   *)
(* and ART_PS_REGISTERS (phase shifters) with their translation maps.      *)
(***************************************************************************)
EXTENDS ConfigConverter

(***************************************************************************)
(* Core registers.  Registers 0 to 4 hold whole values.                    *)
(***************************************************************************)
CORE_WHOLE ==
  [r \in 0..4 |->
     CASE r = 0 -> <<F("c_disable_arthist", 1), F("c_bypass_pa", 1), F("rxterm", 2), F("txcset", 4)>>
       [] r = 1 -> <<F("cfg_dout_time2", 1), F("cfg_bcr_sel", 1), F("cfg_bcrout_sel", 1),
                     F("cfg_art_revall", 1), F("cfg_art_revbank", 4)>>
       [] r = 2 -> <<F("cfg_dout_pattern", 1), F("cfg_dout_artbypass", 1), F("cfg_dout_hitlist", 1),
                     F("cfg_dout_artflags", 1), F("cfg_dout_time", 1), F("cfg_artmask", 3)>>
       [] r = 3 -> <<F("cfg_deser_flagmask", 8)>>
       [] r = 4 -> <<F("cfg_deser_flagpatt", 8)>>]

(***************************************************************************)
(* From register 5 on the values are packed without gaps: value i of a     *)
(* group has bits i * width and up, counted from the group's first         *)
(* register, and is cut where a register ends.                             *)
(***************************************************************************)
CORE_PACKED ==
  {[word |-> "cfg_din_invert",       count |-> 1, width |-> 32, first |-> 5],
   [word |-> "cfg_din_mask",         count |-> 1, width |-> 32, first |-> 9],
   [word |-> "cfg_bcid",             count |-> 2, width |-> 12, first |-> 13],
   [word |-> "cfg_artbypass_sel_ch", count |-> 8, width |-> 5,  first |-> 16],
   [word |-> "cfg_pattern_data_phi", count |-> 8, width |-> 14, first |-> 21]}

Piece(group, i, r) ==
  LET top == Min({(i + 1) * group.width, 8 * (r + 1)}) - 1
      low == Max({i * group.width, 8 * r})
  IN [value |-> <<group.word, i>>, reg |-> group.first + r, width |-> group.width,
      mask  |-> Bits(top - 8 * r, low - 8 * r),
      part  |-> Bits(top - i * group.width, low - i * group.width)]
PIECES ==
  {p \in UNION {{Piece(group, i, r) : i \in 0..group.count - 1,
                                      r \in 0..(group.count * group.width - 1) \div 8} :
                  group \in CORE_PACKED} : p.mask # {}}
PieceName(p)  == p.value \o <<Max(p.part), Min(p.part)>>
PieceField(p) == Field(PieceName(p), Cardinality(p.mask))

ART_CORE_REGISTERS ==
  CORE_WHOLE
    @@ [r \in 5..34 |->
          LET here == SetToSortSeq({p \in PIECES : p.reg = r},
                                   LAMBDA p, q : Min(p.mask) > Min(q.mask))
          IN [i \in DOMAIN here |-> PieceField(here[i])]]

\* A value with the name, and the bits, of its sub-register.
WholeUnits(registers) ==
  UNION {LET positions == Positions(registers[r])
         IN {Unit(name, r, name, IF Len(registers[r]) = 1 THEN ALL ELSE positions[name]) : name \in DOMAIN positions} :
           r \in DOMAIN registers}
TRANSLATION_MAP_ART_CORE ==
  WholeUnits(CORE_WHOLE)
    \cup {Part(p.value, p.reg, PieceName(p), p.mask,
               IF Cardinality(p.mask) = p.width THEN ALL ELSE p.part) : p \in PIECES}

(***************************************************************************)
(* Phase shifters: four blocks of 14 registers, and common ones.           *)
(***************************************************************************)
PhaseSelect(word, k) == <<Field(<<word, 2 * k + 1>>, 4), Field(<<word, 2 * k>>, 4)>>
PsBlock(base) ==
  [r \in base..base + 13 |->
     LET i == r - base
     IN CASE i = 0 -> <<F("dllLockedV", 1), F("reserved", 1), F("dllLockCfg", 2),
                        F("muxEn2to8", 1), F("muxEn1to8", 1), F("dllCoarseLockDetection", 1),
                        F("dllResetFromCfg", 1)>>
          [] i = 1 -> <<F("dataRateDll", 2), F("dllConfirmCountSelect", 2),
                        F("dllChargePumpCurrent", 4)>>
          [] i = 2 -> <<F("enableGroup", 1), F("outRegEn", 1), F("dataRate", 2),
                        F("sampleClockSel", 2), F("trackMode", 2)>>
          [] i = 3 -> <<F("enableChannel", 8)>>
          [] i = 4 -> <<F("resetChannel", 8)>>
          [] i = 5 -> <<F("trainChannel", 8)>>
          [] i \in 6..9   -> PhaseSelect("phaseSelectChannelInput", i - 6)
          [] i \in 10..13 -> PhaseSelect("phaseSelectChannelOutput", i - 10)]
PS_COMMON ==
  [r \in 60..61 |->
     IF r = 60 THEN <<F("dllLockedMask", 4), F("txcset", 4)>>
     ELSE <<F("unused", 2), F("resetAll", 1), F("test_mux", 1), F("rxOffSclk", 1),
            F("rxTermSclk", 1), F("rxTermClk_i", 2)>>]
PS_BLOCKS    == PsBlock(0) @@ PsBlock(15) @@ PsBlock(30) @@ PsBlock(45)
PS_RECEIVERS == [r \in 62..69 |-> <<F(IF r < 66 THEN "rxOff" ELSE "rxTermEnable", 8)>>]
ART_PS_REGISTERS == PS_BLOCKS @@ PS_COMMON @@ PS_RECEIVERS

\* The values of block n (registers from 15 n on) carry its number.
TRANSLATION_MAP_ART_PS ==
  {[u EXCEPT !.value = u.value \o <<u.reg \div 15>>] : u \in WholeUnits(PS_BLOCKS)}
    \cup {[u EXCEPT !.value = u.value \o <<(u.reg - 62) % 4>>] : u \in WholeUnits(PS_RECEIVERS)}
    \cup {u \in WholeUnits(PS_COMMON) : u.value # <<"unused">>}
=============================================================================
