---------------------------- MODULE GbtxRegisters ----------------------------
(***************************************************************************)
(* The configuration of a GBTx (nsw::GBTxConfig): the 1 bits of its        *)
(* registers, as pairs of a register and a bit.  A setting is stored up to *)
(* three times; of compiledGbtxRegisterMap here are the settings of the    *)
(* phase aligners, the ones the training changes and their neighbours.     *)
(***************************************************************************)
EXTENDS Integers, FiniteSets

NUM_GBTX_WRITABLE_REGISTERS == 436
\* What is compared with the readback; the chip does not keep the others.
maxConfigRegister == 365
Registers == 0..NUM_GBTX_WRITABLE_REGISTERS - 1
Groups    == 0..6
Channels  == 0..7

\* Copies of a setting: pairs of a register and the place of the lowest bit.
Thrice(register, shift)  == {<<r, shift>> : r \in {register, register + 1, register + 2}}
Apart(register, shift)   == {<<r, shift>> : r \in {register, register + 4, register + 8}}
In(register, shifts)     == {<<register, s>> : s \in shifts}

\* Fault: training and enabling of a group share a register.
GroupSettings_Overlap(g) ==
  [kind \in {"paTrainGroup", "paResetGroup", "paEnableGroup", "paDataRateGroup",
             "paDllConfigGroup", "paDllResetGroup"} |->
     LET base == 24 * g
     IN CASE kind = "paTrainGroup"     -> Thrice(base + 79, 0)
          [] kind = "paEnableGroup"    -> Thrice(base + 81, 0)
          [] kind = "paResetGroup"     -> Thrice(base + 84, 0)
          [] kind = "paDataRateGroup"  -> In(base + 63, {0, 2, 4})
          [] kind = "paDllConfigGroup" -> In(base + 64, {0, 4}) \cup In(base + 65, {0})
          [] kind = "paDllResetGroup"  -> In(base + 65, {4, 5, 6})]

GroupSettings(g) ==
  [kind \in {"paTrainGroup", "paResetGroup", "paEnableGroup", "paDataRateGroup",
             "paDllConfigGroup", "paDllResetGroup"} |->
     LET base == 24 * g
     IN CASE kind = "paTrainGroup"     -> Thrice(base + 78, 0)
          [] kind = "paEnableGroup"    -> Thrice(base + 81, 0)
          [] kind = "paResetGroup"     -> Thrice(base + 84, 0)
          [] kind = "paDataRateGroup"  -> In(base + 63, {0, 2, 4})
          [] kind = "paDllConfigGroup" -> In(base + 64, {0, 4}) \cup In(base + 65, {0})
          [] kind = "paDllResetGroup"  -> In(base + 65, {4, 5, 6})]
ChannelSettings(g, c) == Apart(24 * g + 69 - c \div 2, 4 * (c % 2))
EcSettings ==
  [kind \in {"paTrainEC", "paResetEC", "paEnableEC", "paPhaseSelectEC", "paDllConfigEC",
             "paDllResetEC", "dllCoarseLockDetection", "paMode"} |->
     CASE kind = "paTrainEC"       -> In(245, {0, 1, 2})
       [] kind = "paResetEC"       -> In(251, {0, 1, 2})
       [] kind = "paEnableEC"      -> In(248, {0, 1, 2})
       [] kind = "paPhaseSelectEC" -> Apart(233, 0)
       [] kind = "paDllConfigEC"   -> In(231, {0, 4}) \cup In(232, {0})
       [] kind = "paDllResetEC"    -> In(232, {4, 5, 6})
       [] kind = "dllCoarseLockDetection" -> In(233, {4, 5, 6})
       [] kind = "paMode"          -> In(62, {0, 2, 4})]

EcNames      == {<<kind>> : kind \in DOMAIN EcSettings}
GroupNames   == (DOMAIN GroupSettings(0)) \X Groups
ChannelNames == {"paPhaseSelectGroup"} \X Groups \X Channels
RegisterMap ==
  [name \in EcNames \cup GroupNames \cup ChannelNames |->
     CASE name \in EcNames      -> EcSettings[name[1]]
       [] name \in GroupNames   -> GroupSettings(name[2])[name[1]]
       [] name \in ChannelNames -> ChannelSettings(name[2], name[3])]

(***************************************************************************)
(* set and reset.  Values are sets of bits, like the registers: set only   *)
(* adds bits, reset first empties the registers of the setting.            *)
(***************************************************************************)
Copies(name, value) ==
  {<<place[1], place[2] + bit>> : place \in RegisterMap[name], bit \in value}
    \cap (Registers \X (0..7))
RegistersOf(names) == {place[1] : place \in UNION {RegisterMap[name] : name \in names}}

\* setConfigFromPTree, on a configuration without any bit.
SetConfigFromPTree(settings) ==
  UNION {Copies(name, settings[name]) : name \in DOMAIN settings}
\* Several resets; no two of these settings share a register.
ResetTo(config, settings) ==
  {bit \in config : bit[1] \notin RegistersOf(DOMAIN settings)}
    \cup SetConfigFromPTree(settings)

(***************************************************************************)
(* L1DDCConfig::trainGbtxsOn and trainGbtxsOff of one GBTx; "ec" says that *)
(* the EC line is trained as well.                                         *)
(***************************************************************************)
Byte == 0..7
ResetNames == ({"paResetGroup"} \X Groups) \cup {<<"paResetEC">>}
TrainNames == {"paTrainGroup"} \X Groups
EcTraining(ec) == IF ec THEN {<<"paTrainEC">>} ELSE {}

\* Groups 5 and 6 are not used.
TrainingOn(ec) ==
  [name \in ResetNames \cup TrainNames \cup EcTraining(ec) \cup {<<"paMode">>} |->
     IF name \in ({"paResetGroup"} \X (1..4)) \cup ({"paTrainGroup"} \X (0..4)) THEN Byte
     ELSE IF name \in GroupNames THEN {}
     ELSE {0}]
\* MM boards keep channel 0 of group 1 in reset.
TrainingOff(board, ec) ==
  [name \in ResetNames \cup TrainNames \cup EcTraining(ec) |->
     IF board = "mmg" /\ name = <<"paResetGroup", 1>> THEN {0} ELSE {}]

(***************************************************************************)
(* Blocks: sendI2cConfigGBTx sends frames of a block size, of which two    *)
(* bytes are the register number; readI2cConfigGBTx reads a block at a     *)
(* time.  Both as sets of registers; the last read may be of 0 bytes.      *)
(***************************************************************************)
Frames(block) ==
  LET n == IF block > 2 THEN block - 2 ELSE NUM_GBTX_WRITABLE_REGISTERS
  IN {{r \in Registers : r \div n = k} : k \in 0..(NUM_GBTX_WRITABLE_REGISTERS - 1) \div n}

\* Fault: a block is missing at the end.
ReadBlocks_Truncated(block) ==
  [k \in 0..NUM_GBTX_WRITABLE_REGISTERS \div block - 1 |->
     {r \in Registers : r \div block = k}]
ReadBlocks(block) ==
  LET nChunks == (NUM_GBTX_WRITABLE_REGISTERS + block) \div block
  IN [k \in 0..nChunks - 1 |-> {r \in Registers : r \div block = k}]
=============================================================================
