----------------------- MODULE L1ddcConfigurationProofs -----------------------
(***************************************************************************)
(* The safety of configure_gbtx for every number of boards, configuration  *)
(* of their GBTxs, size of the blocks, number of threads and of attempts   *)
(* and for every pattern of faults.  The invariant is one formula for each *)
(* board, which only its own steps can disturb, and one for the pool.      *)
(***************************************************************************)
EXTENDS L1ddcConfiguration, FiniteSetTheorems, TLAPS

-----------------------------------------------------------------------------
(* The register map: the registers of the settings that the training of    *)
(* the phase aligners changes are nobody else's.                           *)

LEMMA EcKinds ==
  EcNames = {<<"paTrainEC">>, <<"paResetEC">>, <<"paEnableEC">>, <<"paPhaseSelectEC">>,
             <<"paDllConfigEC">>, <<"paDllResetEC">>, <<"dllCoarseLockDetection">>, <<"paMode">>}
BY DEF EcNames, EcSettings

LEMMA GroupKinds ==
  DOMAIN GroupSettings(0) = {"paTrainGroup", "paResetGroup", "paEnableGroup", "paDataRateGroup",
             "paDllConfigGroup", "paDllResetGroup"}
BY DEF GroupSettings

LEMMA EcEntry ==
  ASSUME NEW name \in EcNames
  PROVE  RegisterMap[name] = EcSettings[name[1]]
<1>1. name \notin GroupNames /\ name \notin ChannelNames
  BY EcKinds DEF GroupNames, ChannelNames
<1> QED
  BY <1>1 DEF RegisterMap

LEMMA GroupEntry ==
  ASSUME NEW kind \in DOMAIN GroupSettings(0), NEW g \in Groups
  PROVE  RegisterMap[<<kind, g>>] = GroupSettings(g)[kind]
<1>1. <<kind, g>> \in GroupNames
  BY DEF GroupNames
<1>2. <<kind, g>> \notin EcNames /\ <<kind, g>> \notin ChannelNames
  BY EcKinds DEF ChannelNames
<1> QED
  BY <1>1, <1>2 DEF RegisterMap

LEMMA ChannelEntry ==
  ASSUME NEW g \in Groups, NEW c \in Channels
  PROVE  RegisterMap[<<"paPhaseSelectGroup", g, c>>] = ChannelSettings(g, c)
<1>1. <<"paPhaseSelectGroup", g, c>> \in ChannelNames
  BY DEF ChannelNames
<1>2. <<"paPhaseSelectGroup", g, c>> \notin EcNames /\ <<"paPhaseSelectGroup", g, c>> \notin GroupNames
  BY EcKinds DEF GroupNames
<1> QED
  BY <1>1, <1>2 DEF RegisterMap
\* The settings that the training changes, their registers and the others.
Training == ResetNames \cup TrainNames \cup {<<"paTrainEC">>, <<"paMode">>}
TrainingPlaces == {62, 245, 251} \cup {24 * g + i : g \in Groups, i \in 78..80 \cup 84..86}
OtherPlaces == {231, 232, 233, 237, 241, 248}
                 \cup {24 * g + i : g \in Groups, i \in 63..77 \cup 81..83}

LEMMA PlacesApart ==
  /\ TrainingPlaces \cap OtherPlaces = {}
  /\ \A r \in TrainingPlaces \cup OtherPlaces : r \in Registers /\ r <= maxConfigRegister
<1>1. TrainingPlaces \cap OtherPlaces = {}
  BY DEF TrainingPlaces, OtherPlaces, Groups
<1>2. \A r \in TrainingPlaces \cup OtherPlaces : r \in Registers /\ r <= maxConfigRegister
  BY DEF TrainingPlaces, OtherPlaces, Groups, Registers, NUM_GBTX_WRITABLE_REGISTERS, maxConfigRegister
<1> QED
  BY <1>1, <1>2

LEMMA EcPlaces ==
  ASSUME NEW name \in EcNames, NEW place \in RegisterMap[name]
  PROVE  /\ name \in Training => place[1] \in TrainingPlaces
         /\ name \notin Training => place[1] \in OtherPlaces
<1>1. RegisterMap[name] = EcSettings[name[1]]
  BY EcEntry
<1>2. CASE name \in {<<"paTrainEC">>, <<"paResetEC">>, <<"paMode">>}
  BY <1>1, <1>2 DEF EcSettings, In, Training, TrainingPlaces, ResetNames
<1>3. CASE name \in {<<"paEnableEC">>, <<"paPhaseSelectEC">>, <<"paDllConfigEC">>,
                     <<"paDllResetEC">>, <<"dllCoarseLockDetection">>}
  <2>1. place[1] \in OtherPlaces
    BY <1>1, <1>3 DEF EcSettings, In, Apart, OtherPlaces
  <2>2. name \notin Training
    BY <1>3 DEF Training, ResetNames, TrainNames
  <2> QED
    BY <2>1, <2>2
<1> QED
  BY <1>2, <1>3, EcKinds

LEMMA GroupPlaces ==
  ASSUME NEW name \in GroupNames, NEW place \in RegisterMap[name]
  PROVE  /\ name \in Training => place[1] \in TrainingPlaces
         /\ name \notin Training => place[1] \in OtherPlaces
<1>1. PICK kind \in DOMAIN GroupSettings(0), g \in Groups : name = <<kind, g>>
  BY DEF GroupNames
<1>2. RegisterMap[name] = GroupSettings(g)[kind]
  BY <1>1, GroupEntry
<1>3. g \in Int
  BY DEF Groups
<1>4. CASE kind = "paTrainGroup"
  <2>1. place \in Thrice(24 * g + 78, 0)
    BY <1>2, <1>4 DEF GroupSettings
  <2>2. place[1] \in TrainingPlaces
    BY <2>1, <1>3 DEF Thrice, TrainingPlaces
  <2> QED
    BY <1>1, <1>4, <2>2 DEF Training, TrainNames
<1>5. CASE kind = "paResetGroup"
  <2>1. place \in Thrice(24 * g + 84, 0)
    BY <1>2, <1>5 DEF GroupSettings
  <2>2. place[1] \in TrainingPlaces
    BY <2>1, <1>3 DEF Thrice, TrainingPlaces
  <2> QED
    BY <1>1, <1>5, <2>2 DEF Training, ResetNames
<1>6. CASE kind \notin {"paTrainGroup", "paResetGroup"}
  <2>1. place \in Thrice(24 * g + 81, 0) \cup In(24 * g + 63, {0, 2, 4})
                 \cup In(24 * g + 64, {0, 4}) \cup In(24 * g + 65, {0, 4, 5, 6})
    BY <1>2, <1>6, GroupKinds DEF GroupSettings, In
  <2>2. place[1] \in OtherPlaces
    BY <2>1, <1>3 DEF Thrice, In, OtherPlaces
  <2>3. name \notin Training
    BY <1>1, <1>6 DEF Training, TrainNames, ResetNames
  <2> QED
    BY <2>2, <2>3
<1> QED
  BY <1>4, <1>5, <1>6

LEMMA ChannelPlaces ==
  ASSUME NEW name \in ChannelNames, NEW place \in RegisterMap[name]
  PROVE  name \notin Training /\ place[1] \in OtherPlaces
<1>1. PICK g \in Groups, c \in Channels : name = <<"paPhaseSelectGroup", g, c>>
  BY DEF ChannelNames
<1>2. RegisterMap[name] = ChannelSettings(g, c)
  BY <1>1, ChannelEntry
<1>3. g \in Int /\ c \div 2 \in 0..3
  BY DEF Groups, Channels
<1>4. place \in Apart(24 * g + 69 - c \div 2, 4 * (c % 2))
  BY <1>2 DEF ChannelSettings
<1>5. place[1] \in OtherPlaces
  BY <1>3, <1>4 DEF Apart, OtherPlaces
<1>6. name \notin Training
  BY <1>1 DEF Training, TrainNames, ResetNames
<1> QED
  BY <1>5, <1>6

\* The settings of the training have their registers to themselves, and all
\* registers of settings are compared with the readback.
LEMMA Places ==
  ASSUME NEW name \in DOMAIN RegisterMap, NEW place \in RegisterMap[name]
  PROVE  /\ name \in Training <=> place[1] \in TrainingPlaces
         /\ place[1] \in Registers /\ place[1] <= maxConfigRegister
<1>1. name \in EcNames \cup GroupNames \cup ChannelNames
  BY DEF RegisterMap
<1> QED
  BY <1>1, EcPlaces, GroupPlaces, ChannelPlaces, PlacesApart
-----------------------------------------------------------------------------
(* The images that are sent to a GBTx.                                     *)

LEMMA CopiesTyped ==
  ASSUME NEW name, NEW value
  PROVE  Copies(name, value) \subseteq Registers \X Byte
BY DEF Copies, Byte

LEMMA CopiesCompared ==
  ASSUME NEW name \in DOMAIN RegisterMap, NEW value
  PROVE  \A bit \in Copies(name, value) : bit[1] <= maxConfigRegister
BY Places DEF Copies

LEMMA TrainingDomains ==
  /\ DOMAIN TrainingOn(TRUE) \cup DOMAIN TrainingOff("mmg", TRUE) = Training
  /\ \A board, ec :
       /\ DOMAIN TrainingOn(ec) \subseteq Training
       /\ TrainNames \subseteq DOMAIN TrainingOff(board, ec)
       /\ DOMAIN TrainingOff(board, ec) \subseteq Training
BY DEF TrainingOn, TrainingOff, Training, EcTraining

\* A reset of settings of the training leaves every other setting as it is.
LEMMA ResetKeeps ==
  ASSUME NEW config, NEW settings, DOMAIN settings \subseteq Training,
         Training \subseteq DOMAIN RegisterMap,
         NEW name \in (DOMAIN RegisterMap) \ Training, NEW value,
         Copies(name, value) \subseteq config
  PROVE  Copies(name, value) \subseteq ResetTo(config, settings)
<1> SUFFICES ASSUME NEW bit \in Copies(name, value), bit[1] \in RegistersOf(DOMAIN settings)
             PROVE  FALSE
  BY DEF ResetTo
<1>1. bit[1] \notin TrainingPlaces
  <2>1. PICK place \in RegisterMap[name] : bit[1] = place[1]
    BY DEF Copies
  <2> QED
    BY <2>1, Places
<1>2. PICK other \in DOMAIN settings : \E place \in RegisterMap[other] : bit[1] = place[1]
  BY DEF RegistersOf
<1>3. bit[1] \in TrainingPlaces
  BY <1>2, Places
<1> QED
  BY <1>1, <1>3

LEMMA TrainingMapped == Training \subseteq DOMAIN RegisterMap
BY GroupKinds, EcKinds DEF Training, ResetNames, TrainNames, RegisterMap, GroupNames

\* Ending the training switches the training of every group off.
LEMMA TrainingCleared ==
  ASSUME NEW config, NEW board, NEW ec, NEW group \in Groups
  PROVE  Copies(<<"paTrainGroup", group>>, Byte) \cap ResetTo(config, TrainingOff(board, ec)) = {}
<1> DEFINE off == TrainingOff(board, ec)
           train == <<"paTrainGroup", group>>
<1> SUFFICES ASSUME NEW bit \in Copies(train, Byte), bit \in ResetTo(config, off)
             PROVE  FALSE
  OBVIOUS
<1>1. RegisterMap[train] = Thrice(24 * group + 78, 0)
  BY GroupEntry, GroupKinds DEF GroupSettings
<1>2. PICK place \in RegisterMap[train] : bit[1] = place[1]
  BY DEF Copies
<1>3. bit[1] \in {24 * group + 78, 24 * group + 79, 24 * group + 80}
  BY <1>1, <1>2 DEF Thrice, Groups
<1>4. train \in DOMAIN off
  BY TrainingDomains DEF TrainNames
<1>5. bit[1] \in RegistersOf(DOMAIN off)
  BY <1>2, <1>4 DEF RegistersOf
<1>6. bit \in SetConfigFromPTree(off)
  BY <1>5 DEF ResetTo
<1>7. PICK name \in DOMAIN off : bit \in Copies(name, off[name])
  BY <1>6 DEF SetConfigFromPTree
<1>8. off[name] # {}
  BY <1>7 DEF Copies
<1>9. name = <<"paResetGroup", 1>>
  BY <1>7, <1>8 DEF TrainingOff
<1>10. RegisterMap[name] = GroupSettings(1)["paResetGroup"]
  <2>1. 1 \in Groups /\ "paResetGroup" \in DOMAIN GroupSettings(0)
    BY GroupKinds DEF Groups
  <2>2. RegisterMap[<<"paResetGroup", 1>>] = GroupSettings(1)["paResetGroup"]
    BY <2>1, GroupEntry
  <2> QED
    BY <1>9, <2>2
<1>11. GroupSettings(1)["paResetGroup"] = Thrice(24 * 1 + 84, 0)
  BY DEF GroupSettings
<1>12. bit[1] \in {108, 109, 110}
  BY <1>7, <1>10, <1>11 DEF Copies, Thrice
<1> QED
  BY <1>3, <1>12 DEF Groups

LEMMA ImageIs ==
  ASSUME NEW b \in Boards, NEW g \in GBTxs(b)
  PROVE  LET gbtx == Conf[b].gbtx[g]
         IN /\ Image[b][g].default = SetConfigFromPTree(gbtx.settings)
            /\ Image[b][g].on = ResetTo(Image[b][g].default, TrainingOn(gbtx.ec))
            /\ Image[b][g].off = ResetTo(Image[b][g].on, TrainingOff(Conf[b].type, gbtx.ec))
BY DEF Image

Images == {"default", "on", "off"}

LEMMA ImageTyped ==
  ASSUME NEW b \in Boards, NEW g \in GBTxs(b), NEW k \in Images
  PROVE  Image[b][g][k] \subseteq Registers \X Byte
<1>1. \A settings : SetConfigFromPTree(settings) \subseteq Registers \X Byte
  BY CopiesTyped DEF SetConfigFromPTree
<1>2. \A config, settings : config \subseteq Registers \X Byte =>
        ResetTo(config, settings) \subseteq Registers \X Byte
  BY <1>1 DEF ResetTo
<1>3. Image[b][g].default \subseteq Registers \X Byte
  BY <1>1, ImageIs
<1>4. Image[b][g].on \subseteq Registers \X Byte
  BY <1>2, <1>3, ImageIs
<1>5. Image[b][g].off \subseteq Registers \X Byte
  BY <1>2, <1>4, ImageIs
<1> QED
  BY <1>3, <1>4, <1>5 DEF Images

\* The settings that are not the training's own.
Kept(b, g) == DOMAIN Conf[b].gbtx[g].settings \ Training

LEMMA KeptInImages ==
  ASSUME NEW b \in Boards, NEW g \in GBTxs(b), NEW name \in Kept(b, g), NEW k \in Images
  PROVE  Copies(name, Conf[b].gbtx[g].settings[name]) \subseteq Image[b][g][k]
<1> DEFINE given == Conf[b].gbtx[g].settings
           copies == Copies(name, given[name])
<1>1. name \in (DOMAIN RegisterMap) \ Training
  BY ConfAssumption DEF Kept
<1>2. copies \subseteq Image[b][g].default
  BY ImageIs DEF SetConfigFromPTree, Kept
<1>3. copies \subseteq Image[b][g].on
  BY <1>1, <1>2, ImageIs, ResetKeeps, TrainingDomains, TrainingMapped
<1>4. copies \subseteq Image[b][g].off
  BY <1>1, <1>3, ImageIs, ResetKeeps, TrainingDomains, TrainingMapped
<1> QED
  BY <1>2, <1>3, <1>4 DEF Images

-----------------------------------------------------------------------------
(* The readback.                                                           *)

\* readI2cConfigGBTx reads every register, whatever the size of the blocks.
LEMMA BlocksCover ==
  ASSUME NEW block \in Nat \ {0}
  PROVE  UNION {ReadBlocks(block)[k] : k \in DOMAIN ReadBlocks(block)} = Registers
<1> DEFINE n == (NUM_GBTX_WRITABLE_REGISTERS + block) \div block
<1>1. \A r \in Registers : r \div block \in 0..n - 1
  <2> SUFFICES ASSUME NEW r \in 0..435
               PROVE  r \div block \in 0..((436 + block) \div block) - 1
    BY DEF Registers, NUM_GBTX_WRITABLE_REGISTERS
  <2> QED
    OBVIOUS
<1>2. ReadBlocks(block) = [k \in 0..n - 1 |-> {r \in Registers : r \div block = k}]
  BY DEF ReadBlocks
<1> HIDE DEF n
<1> QED
  BY <1>1, <1>2

LEMMA EverythingRead ==
  ASSUME NEW b \in Boards, NEW g \in GBTxs(b)
  PROVE  AllRead[b][g]
<1>1. Cardinality(Registers) = NUM_GBTX_WRITABLE_REGISTERS
  <2>1. Registers = 0..435 /\ 0 \in Int /\ 435 \in Int
    BY DEF Registers, NUM_GBTX_WRITABLE_REGISTERS
  <2>2. Cardinality(0..435) = IF 0 > 435 THEN 0 ELSE 435 - 0 + 1
    BY <2>1, FS_Interval
  <2> QED
    BY <2>1, <2>2 DEF NUM_GBTX_WRITABLE_REGISTERS
<1>2. NumberRead(b, g) = NUM_GBTX_WRITABLE_REGISTERS
  BY <1>1, BlocksCover, ConfAssumption DEF NumberRead
<1> QED
  BY <1>2 DEF AllRead
-----------------------------------------------------------------------------
(* The invariant: of one board, in its state t, with its GBTxs' registers  *)
(* h and its faults, and of all boards together.                           *)

Tasks == [at : Stages, gbtx : 0..3, image : Images, tries : 0..MAX_ATTEMPTS]
Working == {"read", "upload", "check", "phases"}

Shows(b, t, h) == Compared(h[t.gbtx]) = Compared(Image[b][t.gbtx][t.image])

\* The GBTxs that a board is through with.
Passed(b, t) ==
  {g \in GBTxs(b) : /\ Conf[b].gbtx[g].configure
                    /\ \/ t.at \in {"save", "done"}
                       \/ t.at \in {"read", "upload", "check"} /\ g < t.gbtx
                       \/ t.at = "phases" /\ g <= t.gbtx}

\* The GBTx a board is at is to be configured, and trained if its image is one
\* of the training; the GBTxs it is through with hold their final configuration,
\* and the one in training all the settings of others.  Every try that is gone
\* has a fault as its reason, and so has a difference that is not yet seen.
BoardOK(b, t, h, wrong, thrown) ==
  /\ t \in Tasks
  /\ h \in [GBTxs(b) -> SUBSET (Registers \X Byte)]
  /\ t.at \in Working => t.gbtx \in GBTxs(b) /\ Conf[b].gbtx[t.gbtx].configure
  /\ t.image # "default" =>
       Conf[b].train /\ t.at \in {"upload", "check", "phases", "failed"}
  /\ t.at = "phases" => t.image = "off"
  /\ \A g \in Passed(b, t) : Compared(h[g]) = Compared(FinalImage(b, g))
  /\ t.image # "default" => \A g \in GBTxs(b) : t.gbtx = g =>
       \A name \in Kept(b, g) : Copies(name, Conf[b].gbtx[g].settings[name]) \subseteq h[g]
  /\ t.at \in {"read", "upload", "check"} => wrong >= MAX_ATTEMPTS - t.tries
  /\ t.at = "check" /\ ~Shows(b, t, h) => wrong > MAX_ATTEMPTS - t.tries
  /\ t.at = "failed" => b \in thrown \/ wrong >= MAX_ATTEMPTS

\* Boards are started in their order, in serial mode one after the other.
Started ==
  /\ \A b \in Boards : b >= next => task[b].at = "waiting"
  /\ main = "serial" => \A b \in Boards : b < next - 1 => task[b].at = "done"

FaultsTyped ==
  faults \in [number : 0..MaxFaults, thrown : SUBSET Boards, wrong : [Boards -> Nat]]

IInv ==
  /\ main \in {"parallel", "serial", "joining", "returned", "terminated"}
  /\ next \in 1..Len(Conf) + 1
  /\ FaultsTyped /\ Started /\ PoolKeepsItsLimit
  /\ task \in [Boards -> Tasks] /\ hw = [b \in Boards |-> hw[b]]
  /\ \A b \in Boards : BoardOK(b, task[b], hw[b], faults.wrong[b], faults.thrown)
-----------------------------------------------------------------------------
(* Steps of one board.                                                     *)

LEMMA Constants ==
  /\ Len(Conf) \in Nat /\ Boards = 1..Len(Conf)
  /\ MAX_ATTEMPTS \in Nat /\ MaxThreads \in Nat \ {0} /\ MaxFaults \in Nat
  /\ \A b \in Boards : GBTxs(b) \subseteq 1..3
BY ConfAssumption

\* The first of some numbers is one of them, and none is before it.
LEMMA MinOfFew ==
  ASSUME NEW S \in SUBSET (1..3), S # {}
  PROVE  Min(S) \in S /\ \A y \in S : Min(S) <= y
<1>1. \A x \in S : x \in 1..3
  OBVIOUS
<1>2. \E x \in S : \A y \in S : x <= y
  <2>1. CASE 1 \in S
    BY <1>1, <2>1
  <2>2. CASE 1 \notin S /\ 2 \in S
    <3>1. \A y \in S : 2 <= y
      BY <1>1, <2>2
    <3> QED
      BY <2>2, <3>1
  <2>3. CASE 1 \notin S /\ 2 \notin S
    <3>1. \A y \in S : y = 3
      BY <1>1, <2>3
    <3>2. PICK x \in S : TRUE
      OBVIOUS
    <3> QED
      BY <3>1, <3>2
  <2> QED
    BY <2>1, <2>2, <2>3
<1> QED
  BY <1>2 DEF Min

LEMMA StartNextOK ==
  ASSUME NEW b \in Boards, NEW g \in Nat, NEW h \in [GBTxs(b) -> SUBSET (Registers \X Byte)],
         NEW wrong \in Nat, NEW thrown,
         \A k \in GBTxs(b) : k <= g /\ Conf[b].gbtx[k].configure =>
           Compared(h[k]) = Compared(FinalImage(b, k))
  PROVE  /\ BoardOK(b, StartNext(b, g), h, wrong, thrown)
         /\ StartNext(b, g).at \in {"read", "save", "done"}
<1> DEFINE later == {k \in GBTxs(b) : k > g /\ Conf[b].gbtx[k].configure}
           t == StartNext(b, g)
<1>1. CASE later # {}
  <2>1. Min(later) \in later /\ \A k \in later : Min(later) <= k
    BY <1>1, MinOfFew, Constants
  <2>2. t = [at |-> "read", gbtx |-> Min(later), image |-> "default", tries |-> MAX_ATTEMPTS]
    BY <1>1 DEF StartNext
  <2> HIDE DEF t
  <2>3. t \in Tasks
    BY <2>1, <2>2, Constants DEF Tasks, Stages, Images
  <2>4. ASSUME NEW k \in Passed(b, t)
        PROVE  k <= g
    <3>1. k \in GBTxs(b) /\ Conf[b].gbtx[k].configure /\ k < Min(later)
      BY <2>2 DEF Passed
    <3>2. k \in 1..3 /\ Min(later) \in 1..3
      BY <2>1, <3>1, Constants
    <3> HIDE DEF later
    <3>3. k \notin later
      BY <2>1, <3>1, <3>2
    <3> QED
      BY <3>1, <3>2, <3>3 DEF later
  <2>5. \A k \in Passed(b, t) : Compared(h[k]) = Compared(FinalImage(b, k))
    BY <2>4 DEF Passed
  <2> QED
    BY <2>1, <2>2, <2>3, <2>5, Constants DEF BoardOK, t, Working
<1>2. CASE later = {}
  <2>1. t = [at |-> IF Conf[b].save THEN "save" ELSE "done",
             gbtx |-> 0, image |-> "default", tries |-> MAX_ATTEMPTS]
    BY <1>2 DEF StartNext
  <2>2. \A k \in GBTxs(b) : Conf[b].gbtx[k].configure => k <= g
    BY <1>2, Constants
  <2> HIDE DEF t
  <2>3. t \in Tasks /\ t.at \in {"save", "done"} /\ t.image = "default"
    BY <2>1, Constants DEF Tasks, Stages, Images
  <2>4. \A k \in Passed(b, t) : Compared(h[k]) = Compared(FinalImage(b, k))
    BY <2>2 DEF Passed
  <2> QED
    BY <2>3, <2>4 DEF BoardOK, t, Working
<1> QED
  BY <1>1, <1>2
\* The registers h2 of a board have the settings that h has to have, and differ
\* only for the GBTx the board is at.
Survives(b, t, h, h2) ==
  /\ h2 \in [GBTxs(b) -> SUBSET (Registers \X Byte)]
  /\ \A g \in GBTxs(b) : g # t.gbtx => h2[g] = h[g]
  /\ t.image # "default" => \A g \in GBTxs(b) : t.gbtx = g =>
       \A name \in Kept(b, g) : Copies(name, Conf[b].gbtx[g].settings[name]) \subseteq h2[g]

LEMMA SurvivesItself ==
  ASSUME NEW b, NEW t, NEW h, NEW wrong, NEW thrown, BoardOK(b, t, h, wrong, thrown)
  PROVE  Survives(b, t, h, h)
BY DEF BoardOK, Survives

\* A board that fails loses nothing that it held.
LEMMA FailedOK ==
  ASSUME NEW b \in Boards, NEW t, NEW h, NEW wrong \in Nat, NEW thrown,
         BoardOK(b, t, h, wrong, thrown), t.at \in Working \cup {"save"},
         NEW h2, Survives(b, t, h, h2), NEW wrong2 \in Nat, NEW thrown2,
         b \in thrown2 \/ wrong2 >= MAX_ATTEMPTS
  PROVE  BoardOK(b, [t EXCEPT !.at = "failed"], h2, wrong2, thrown2)
<1> DEFINE t2 == [t EXCEPT !.at = "failed"]
<1>1. t2 \in Tasks /\ t2.at = "failed" /\ t2.gbtx = t.gbtx /\ t2.image = t.image
  BY DEF BoardOK, Tasks, Stages
<1>2. t.image # "default" => Conf[b].train
  BY DEF BoardOK
<1> HIDE DEF t2
<1>3. Passed(b, t2) = {}
  BY <1>1 DEF Passed
<1>4. BoardOK(b, t2, h2, wrong2, thrown2)
  BY <1>1, <1>2, <1>3 DEF BoardOK, Working, Survives
<1> QED
  BY <1>4 DEF t2

\* The GBTx takes some registers from its image.
Taken(b, t, h, registers, h2) ==
  h2 = [h EXCEPT ![t.gbtx] =
          {bit \in @ : bit[1] \notin registers}
            \cup {bit \in Image[b][t.gbtx][t.image] : bit[1] \in registers}]

\* Whatever registers a GBTx takes from its image, it keeps the settings that
\* are in all images.
LEMMA TakesOK ==
  ASSUME NEW b \in Boards, NEW t, NEW h, NEW wrong \in Nat, NEW thrown,
         BoardOK(b, t, h, wrong, thrown), t.at = "upload",
         NEW registers, NEW h2, Taken(b, t, h, registers, h2)
  PROVE  Survives(b, t, h, h2) /\ (registers = Registers => Shows(b, t, h2))
<1> DEFINE g == t.gbtx
           image == Image[b][g][t.image]
<1>1. g \in GBTxs(b) /\ t.image \in Images /\ h \in [GBTxs(b) -> SUBSET (Registers \X Byte)]
  BY DEF BoardOK, Working, Tasks
<1>2. image \subseteq Registers \X Byte
  BY <1>1, ImageTyped
<1>3. /\ h2 \in [GBTxs(b) -> SUBSET (Registers \X Byte)]
      /\ \A k \in GBTxs(b) : k # g => h2[k] = h[k]
      /\ h2[g] = {bit \in h[g] : bit[1] \notin registers} \cup {bit \in image : bit[1] \in registers}
  BY <1>1, <1>2 DEF Taken
<1>4. ASSUME t.image # "default", NEW name \in Kept(b, g)
      PROVE  Copies(name, Conf[b].gbtx[g].settings[name]) \subseteq h2[g]
  <2>1. Copies(name, Conf[b].gbtx[g].settings[name]) \subseteq image
    BY <1>1, KeptInImages
  <2>2. Copies(name, Conf[b].gbtx[g].settings[name]) \subseteq h[g]
    BY <1>1, <1>4 DEF BoardOK
  <2> QED
    BY <1>3, <2>1, <2>2
<1>5. ASSUME registers = Registers
      PROVE  Shows(b, t, h2)
  <2>1. h[g] \subseteq Registers \X Byte
    BY <1>1
  <2>2. \A bit \in h[g] \cup image : bit[1] \in registers
    BY <1>2, <1>5, <2>1
  <2> HIDE DEF g, image
  <2>3. h2[g] = image
    BY <1>3, <2>2
  <2> QED
    BY <2>3 DEF Shows, g, image
<1>6. Survives(b, t, h, h2)
  BY <1>3, <1>4 DEF Survives
<1> QED
  BY <1>5, <1>6

LEMMA UploadedOK ==
  ASSUME NEW b \in Boards, NEW t, NEW h, NEW wrong \in Nat, NEW thrown,
         BoardOK(b, t, h, wrong, thrown), t.at = "upload",
         NEW h2, Survives(b, t, h, h2), NEW wrong2 \in Nat,
         \/ wrong2 = wrong /\ Shows(b, t, h2)
         \/ wrong2 = wrong + 1
  PROVE  BoardOK(b, [t EXCEPT !.at = "check"], h2, wrong2, thrown)
<1> DEFINE t2 == [t EXCEPT !.at = "check"]
<1>1. /\ t2 \in Tasks /\ t2.at = "check" /\ t2.gbtx = t.gbtx /\ t2.image = t.image
      /\ t2.tries = t.tries /\ t.tries \in Nat
  BY Constants DEF BoardOK, Tasks, Stages
<1>2. /\ t.image # "default" => Conf[b].train
      /\ t.gbtx \in GBTxs(b) /\ Conf[b].gbtx[t.gbtx].configure
      /\ wrong >= MAX_ATTEMPTS - t.tries
  BY DEF BoardOK, Working
<1> HIDE DEF t2
<1>3. \A k \in Passed(b, t2) : k \in Passed(b, t) /\ k # t.gbtx /\ k \in GBTxs(b)
  BY <1>1, <1>2, Constants DEF Passed
<1>4. \A k \in Passed(b, t2) : Compared(h2[k]) = Compared(FinalImage(b, k))
  BY <1>3 DEF BoardOK, Survives
<1>5. /\ wrong2 >= MAX_ATTEMPTS - t2.tries
      /\ ~Shows(b, t2, h2) => wrong2 > MAX_ATTEMPTS - t2.tries
  BY <1>1, <1>2, Constants DEF Shows
<1>6. BoardOK(b, t2, h2, wrong2, thrown)
  BY <1>1, <1>2, <1>4, <1>5 DEF BoardOK, Survives
<1> QED
  BY <1>6 DEF t2
\* A readback that differs, or is taken to: another try, or no more.
LEMMA DiffersOK ==
  ASSUME NEW b \in Boards, NEW t, NEW h, NEW wrong \in Nat, NEW thrown,
         BoardOK(b, t, h, wrong, thrown), t.at = "check",
         NEW wrong2 \in Nat, wrong2 > MAX_ATTEMPTS - t.tries
  PROVE  /\ t.tries > 0 =>
              BoardOK(b, [t EXCEPT !.at = "upload", !.tries = @ - 1], h, wrong2, thrown)
         /\ t.tries = 0 => BoardOK(b, [t EXCEPT !.at = "failed"], h, wrong2, thrown)
<1>1. /\ t.image # "default" => \A g \in GBTxs(b) : t.gbtx = g =>
           \A name \in Kept(b, g) : Copies(name, Conf[b].gbtx[g].settings[name]) \subseteq h[g]
      /\ h \in [GBTxs(b) -> SUBSET (Registers \X Byte)] /\ t.at \in Working
  BY DEF BoardOK, Working
<1>2. ASSUME t.tries > 0
      PROVE  BoardOK(b, [t EXCEPT !.at = "upload", !.tries = @ - 1], h, wrong2, thrown)
  <2> DEFINE t2 == [t EXCEPT !.at = "upload", !.tries = @ - 1]
  <2>1. /\ t2 \in Tasks /\ t2.at = "upload" /\ t2.gbtx = t.gbtx /\ t2.image = t.image
        /\ t2.tries = t.tries - 1 /\ t.tries \in Nat
    <3>1. t \in Tasks /\ t.tries \in 0..MAX_ATTEMPTS /\ "upload" \in Stages
      BY DEF BoardOK, Tasks, Stages
    <3>2. t.tries - 1 \in 0..MAX_ATTEMPTS /\ t.tries \in Nat
      BY <1>2, <3>1, Constants
    <3> QED
      BY <3>1, <3>2 DEF Tasks
  <2>2. /\ t.image # "default" => Conf[b].train
        /\ t.gbtx \in GBTxs(b) /\ Conf[b].gbtx[t.gbtx].configure
    BY DEF BoardOK, Working
  <2> HIDE DEF t2
  <2>3. Passed(b, t2) = Passed(b, t)
    BY <2>1 DEF Passed
  <2>4. wrong2 >= MAX_ATTEMPTS - t2.tries
    BY <2>1, Constants
  <2>5. \A g \in Passed(b, t2) : Compared(h[g]) = Compared(FinalImage(b, g))
    BY <2>3 DEF BoardOK
  <2>6. BoardOK(b, t2, h, wrong2, thrown)
    BY <1>1, <2>1, <2>2, <2>4, <2>5 DEF BoardOK
  <2> QED
    BY <2>6 DEF t2
<1>3. ASSUME t.tries = 0
      PROVE  BoardOK(b, [t EXCEPT !.at = "failed"], h, wrong2, thrown)
  <2>1. wrong2 >= MAX_ATTEMPTS
    BY <1>3, Constants
  <2> QED
    BY <1>1, <2>1, SurvivesItself, FailedOK
<1> QED
  BY <1>2, <1>3

\* After the first image was read back, all its settings are in the registers.
LEMMA ShownKept ==
  ASSUME NEW b \in Boards, NEW t, NEW h, NEW wrong \in Nat, NEW thrown,
         BoardOK(b, t, h, wrong, thrown), t.at = "check", Shows(b, t, h),
         NEW g \in GBTxs(b), g = t.gbtx, NEW name \in Kept(b, g)
  PROVE  Copies(name, Conf[b].gbtx[g].settings[name]) \subseteq h[g]
<1> DEFINE copies == Copies(name, Conf[b].gbtx[g].settings[name])
<1>1. t.image \in Images
  BY DEF BoardOK, Tasks
<1>2. copies \subseteq Image[b][g][t.image]
  BY <1>1, KeptInImages
<1>3. name \in DOMAIN RegisterMap
  BY ConfAssumption DEF Kept
<1>4. copies \subseteq Compared(Image[b][g][t.image])
  BY <1>2, <1>3, CopiesCompared DEF Compared
<1> QED
  BY <1>4 DEF Shows, Compared

\* A readback without a difference, with tries left.
LEMMA ConfirmedOK ==
  ASSUME NEW b \in Boards, BoardOK(b, task[b], hw[b], faults.wrong[b], faults.thrown),
         faults.wrong[b] \in Nat, task[b].at = "check", Shows(b, task[b], hw[b])
  PROVE  /\ BoardOK(b, Confirmed(b), hw[b], faults.wrong[b], faults.thrown)
         /\ Confirmed(b).at # "waiting"
<1> DEFINE t == task[b]
           h == hw[b]
           g == t.gbtx
           t2 == Confirmed(b)
<1>1. /\ t \in Tasks /\ h \in [GBTxs(b) -> SUBSET (Registers \X Byte)]
      /\ g \in GBTxs(b) /\ Conf[b].gbtx[g].configure
      /\ t.image # "default" => Conf[b].train
      /\ \A k \in Passed(b, t) : Compared(h[k]) = Compared(FinalImage(b, k))
  BY DEF BoardOK, Working
<1>2. \A name \in Kept(b, g) : Copies(name, Conf[b].gbtx[g].settings[name]) \subseteq h[g]
  BY <1>1, ShownKept
<1>3. ASSUME NEW k \in {"on", "off"}, Conf[b].train,
             t2 = [t EXCEPT !.at = "upload", !.image = k, !.tries = MAX_ATTEMPTS]
      PROVE  BoardOK(b, t2, h, faults.wrong[b], faults.thrown) /\ t2.at # "waiting"
  <2>1. /\ t2 \in Tasks /\ t2.at = "upload" /\ t2.gbtx = g /\ t2.image = k
        /\ t2.tries = MAX_ATTEMPTS
    <3>1. "upload" \in Stages /\ k \in Images /\ MAX_ATTEMPTS \in 0..MAX_ATTEMPTS
      BY Constants DEF Stages, Images
    <3> QED
      BY <1>1, <1>3, <3>1 DEF Tasks
  <2>2. Passed(b, t2) = Passed(b, t)
    BY <2>1 DEF Passed
  <2> HIDE DEF t2
  <2> QED
    BY <1>1, <1>2, <1>3, <2>1, <2>2, Constants DEF BoardOK
<1>4. ASSUME t.image = "off", t2 = [t EXCEPT !.at = "phases"]
      PROVE  BoardOK(b, t2, h, faults.wrong[b], faults.thrown) /\ t2.at # "waiting"
  <2>1. t2 \in Tasks /\ t2.at = "phases" /\ t2.gbtx = g /\ t2.image = "off"
    BY <1>1, <1>4 DEF Tasks, Stages
  <2>2. Compared(h[g]) = Compared(FinalImage(b, g))
    BY <1>1, <1>4 DEF Shows, FinalImage
  <2>3. \A k \in Passed(b, t2) : k \in Passed(b, t) \/ k = g
    BY <2>1, <1>1, Constants DEF Passed
  <2>4. \A k \in Passed(b, t2) : Compared(h[k]) = Compared(FinalImage(b, k))
    BY <1>1, <2>2, <2>3
  <2> HIDE DEF t2
  <2> QED
    BY <1>1, <1>2, <1>4, <2>1, <2>4 DEF BoardOK
<1>5. ASSUME ~Conf[b].train, t.image = "default", t2 = StartNext(b, g)
      PROVE  BoardOK(b, t2, h, faults.wrong[b], faults.thrown) /\ t2.at # "waiting"
  <2>1. Compared(h[g]) = Compared(FinalImage(b, g))
    BY <1>5 DEF Shows, FinalImage
  <2>2. \A k \in GBTxs(b) : k <= g /\ Conf[b].gbtx[k].configure => k \in Passed(b, t) \/ k = g
    BY <1>1, Constants DEF Passed
  <2>3. g \in Nat
    BY <1>1, Constants
  <2> QED
    BY <1>1, <1>5, <2>1, <2>2, <2>3, StartNextOK, SMTT(30)
<1>6. t.image \in Images
  BY <1>1 DEF Tasks
<1>7. CASE Conf[b].train /\ t.image = "default"
  BY <1>3, <1>7 DEF Confirmed
<1>8. CASE t.image = "on"
  BY <1>1, <1>3, <1>8 DEF Confirmed
<1>9. CASE t.image = "off"
  BY <1>4, <1>9 DEF Confirmed
<1>10. CASE ~Conf[b].train /\ t.image = "default"
  BY <1>5, <1>10 DEF Confirmed
<1> QED
  BY <1>6, <1>7, <1>8, <1>9, <1>10 DEF Images
-----------------------------------------------------------------------------
(* Steps of the system.                                                    *)

\* A board counts its own faults only.
OwnFaults(b) ==
  /\ FaultsTyped'
  /\ \A c \in Boards : c # b => /\ faults'.wrong[c] = faults.wrong[c]
                                /\ c \in faults'.thrown <=> c \in faults.thrown

\* What the steps of a board have in common.
BoardStep(b) ==
  /\ task[b].at \in Working \cup {"save"}
  /\ \E t, h :
       /\ task' = [task EXCEPT ![b] = t] /\ hw' = [hw EXCEPT ![b] = h]
       /\ BoardOK(b, t, h, faults'.wrong[b], faults'.thrown) /\ t.at # "waiting"
  /\ OwnFaults(b)
  /\ UNCHANGED <<main, next>>

LEMMA BoardStepIs ==
  ASSUME NEW b \in Boards, NEW t, NEW h, task[b].at \in Working \cup {"save"},
         task' = [task EXCEPT ![b] = t], hw' = [hw EXCEPT ![b] = h],
         BoardOK(b, t, h, faults'.wrong[b], faults'.thrown), t.at # "waiting",
         OwnFaults(b), UNCHANGED <<main, next>>
  PROVE  BoardStep(b)
BY DEF BoardStep

LEMMA ThrowsCounts ==
  ASSUME NEW b \in Boards, FaultsTyped, Throws(b)
  PROVE  OwnFaults(b) /\ b \in faults'.thrown /\ faults'.wrong[b] \in Nat
<1>1. /\ faults.number \in 0..MaxFaults /\ faults.thrown \in SUBSET Boards
      /\ faults.wrong \in [Boards -> Nat]
  BY DEF FaultsTyped
<1>2. faults' = [number |-> faults.number + 1, thrown |-> faults.thrown \cup {b},
                 wrong |-> faults.wrong]
  BY DEF FaultsTyped, Throws
<1>3. faults.number + 1 \in 0..MaxFaults
  BY <1>1, Constants DEF Throws
<1> QED
  BY <1>1, <1>2, <1>3 DEF OwnFaults, FaultsTyped

LEMMA ErrsCounts ==
  ASSUME NEW b \in Boards, FaultsTyped, Errs(b)
  PROVE  /\ OwnFaults(b) /\ faults'.thrown = faults.thrown
         /\ faults.wrong[b] \in Nat /\ faults'.wrong[b] = faults.wrong[b] + 1
<1>1. /\ faults.number \in 0..MaxFaults /\ faults.thrown \in SUBSET Boards
      /\ faults.wrong \in [Boards -> Nat]
  BY DEF FaultsTyped
<1> DEFINE wrong2 == [faults.wrong EXCEPT ![b] = @ + 1]
<1>2. faults' = [number |-> faults.number + 1, thrown |-> faults.thrown, wrong |-> wrong2]
  BY DEF FaultsTyped, Errs
<1>3. faults.number + 1 \in 0..MaxFaults
  BY <1>1, Constants DEF Errs
<1>4. /\ wrong2 \in [Boards -> Nat] /\ wrong2[b] = faults.wrong[b] + 1
      /\ \A c \in Boards : c # b => wrong2[c] = faults.wrong[c]
  BY <1>1
<1> HIDE DEF wrong2
<1> QED
  BY <1>1, <1>2, <1>3, <1>4 DEF OwnFaults, FaultsTyped

LEMMA NoFault ==
  ASSUME NEW b \in Boards, FaultsTyped, UNCHANGED faults
  PROVE  /\ OwnFaults(b) /\ faults'.thrown = faults.thrown
         /\ faults'.wrong[b] = faults.wrong[b] /\ faults.wrong[b] \in Nat
BY DEF OwnFaults, FaultsTyped
\* Any access that throws and leaves the registers as they are.
LEMMA ThrowsSteps ==
  ASSUME IInv, NEW b \in Boards, task[b].at \in Working \cup {"save"}, Throws(b),
         UNCHANGED <<main, next, hw>>
  PROVE  BoardStep(b)
<1> DEFINE t == task[b]
           h == hw[b]
           t2 == [t EXCEPT !.at = "failed"]
<1>1. /\ FaultsTyped /\ BoardOK(b, t, h, faults.wrong[b], faults.thrown)
      /\ task \in [Boards -> Tasks] /\ hw' = [hw EXCEPT ![b] = h]
  BY DEF IInv
<1>2. task' = [task EXCEPT ![b] = t2]
  BY DEF Throws, Fails
<1>3. t2.at = "failed"
  BY <1>1 DEF Tasks
<1>4. OwnFaults(b) /\ b \in faults'.thrown /\ faults'.wrong[b] \in Nat
  BY <1>1, ThrowsCounts
<1>5. Survives(b, t, h, h) /\ faults.wrong[b] \in Nat
  BY <1>1, SurvivesItself DEF FaultsTyped
<1>6. BoardOK(b, t2, h, faults'.wrong[b], faults'.thrown)
  BY <1>1, <1>4, <1>5, FailedOK
<1> HIDE DEF t2
<1> QED
  BY <1>1, <1>2, <1>3, <1>4, <1>6, BoardStepIs

LEMMA ReadInitiallySteps ==
  ASSUME IInv, NEW b \in Boards, ReadInitially(b)
  PROVE  BoardStep(b)
<1> DEFINE t == task[b]
           h == hw[b]
<1>1. /\ FaultsTyped /\ BoardOK(b, t, h, faults.wrong[b], faults.thrown) /\ t.at = "read"
      /\ task \in [Boards -> Tasks] /\ hw' = [hw EXCEPT ![b] = h]
      /\ UNCHANGED <<main, next, hw>>
  BY DEF IInv, ReadInitially
<1>2. CASE task' = [task EXCEPT ![b].at = "upload"] /\ UNCHANGED faults
  <2> DEFINE t2 == [t EXCEPT !.at = "upload"]
  <2>1. t2 \in Tasks /\ t2.at = "upload" /\ t2.gbtx = t.gbtx /\ t2.image = t.image /\ t2.tries = t.tries
    BY <1>1 DEF Tasks, Stages
  <2>2. task' = [task EXCEPT ![b] = t2]
    BY <1>2
  <2> HIDE DEF t2
  <2>3. Passed(b, t2) = Passed(b, t)
    BY <1>1, <2>1 DEF Passed
  <2>4. BoardOK(b, t2, h, faults.wrong[b], faults.thrown)
    BY <1>1, <2>1, <2>3 DEF BoardOK, Working
  <2>5. OwnFaults(b) /\ faults' = faults
    BY <1>1, <1>2, NoFault
  <2> QED
    BY <1>1, <2>1, <2>2, <2>4, <2>5, BoardStepIs DEF Working
<1>3. CASE Throws(b)
  BY <1>1, <1>3, ThrowsSteps DEF Working
<1> QED
  BY <1>2, <1>3 DEF ReadInitially

LEMMA ReadPhasesSteps ==
  ASSUME IInv, NEW b \in Boards, ReadPhases(b)
  PROVE  BoardStep(b)
<1> DEFINE t == task[b]
           h == hw[b]
           t2 == StartNext(b, t.gbtx)
<1>1. /\ FaultsTyped /\ BoardOK(b, t, h, faults.wrong[b], faults.thrown) /\ t.at = "phases"
      /\ hw' = [hw EXCEPT ![b] = h] /\ UNCHANGED <<main, next, hw>>
  BY DEF IInv, ReadPhases
<1>2. CASE task' = [task EXCEPT ![b] = t2] /\ UNCHANGED faults
  <2>1. /\ h \in [GBTxs(b) -> SUBSET (Registers \X Byte)] /\ t.gbtx \in GBTxs(b)
        /\ faults.wrong[b] \in Nat
    BY <1>1 DEF BoardOK, Working, FaultsTyped
  <2>2. \A k \in GBTxs(b) : k <= t.gbtx /\ Conf[b].gbtx[k].configure =>
          Compared(h[k]) = Compared(FinalImage(b, k))
    BY <1>1 DEF BoardOK, Passed
  <2>3. t.gbtx \in Nat
    BY <2>1, Constants
  <2>4. BoardOK(b, t2, h, faults.wrong[b], faults.thrown) /\ t2.at # "waiting"
    BY <2>1, <2>2, <2>3, StartNextOK
  <2>5. OwnFaults(b) /\ faults' = faults
    BY <1>1, <1>2, NoFault
  <2> HIDE DEF t2
  <2> QED
    BY <1>1, <1>2, <2>4, <2>5, BoardStepIs DEF Working
<1>3. CASE Throws(b)
  BY <1>1, <1>3, ThrowsSteps DEF Working
<1> QED
  BY <1>2, <1>3 DEF ReadPhases

LEMMA SaveSteps ==
  ASSUME IInv, NEW b \in Boards, Save(b)
  PROVE  BoardStep(b)
<1> DEFINE t == task[b]
           h == hw[b]
           t2 == [t EXCEPT !.at = "done"]
<1>1. /\ FaultsTyped /\ BoardOK(b, t, h, faults.wrong[b], faults.thrown) /\ t.at = "save"
      /\ task \in [Boards -> Tasks] /\ hw' = [hw EXCEPT ![b] = h]
      /\ UNCHANGED <<main, next, hw>>
  BY DEF IInv, Save
<1>2. CASE task' = [task EXCEPT ![b].at = "done"] /\ UNCHANGED faults
  <2>1. t2 \in Tasks /\ t2.at = "done" /\ t2.gbtx = t.gbtx /\ t2.image = t.image
    BY <1>1 DEF Tasks, Stages
  <2>2. task' = [task EXCEPT ![b] = t2]
    BY <1>2
  <2> HIDE DEF t2
  <2>3. Passed(b, t2) = Passed(b, t)
    BY <1>1, <2>1 DEF Passed
  <2>4. BoardOK(b, t2, h, faults.wrong[b], faults.thrown)
    BY <1>1, <2>1, <2>3 DEF BoardOK, Working
  <2>5. OwnFaults(b) /\ faults' = faults
    BY <1>1, <1>2, NoFault
  <2> QED
    BY <1>1, <2>1, <2>2, <2>4, <2>5, BoardStepIs
<1>3. CASE Throws(b)
  BY <1>1, <1>3, ThrowsSteps
<1> QED
  BY <1>2, <1>3 DEF Save
LEMMA UploadSteps ==
  ASSUME IInv, NEW b \in Boards, Upload(b)
  PROVE  BoardStep(b)
<1> DEFINE t == task[b]
           h == hw[b]
           g == t.gbtx
           checked == [t EXCEPT !.at = "check"]
           failed == [t EXCEPT !.at = "failed"]
<1>1. /\ FaultsTyped /\ BoardOK(b, t, h, faults.wrong[b], faults.thrown) /\ t.at = "upload"
      /\ task \in [Boards -> Tasks] /\ faults.wrong[b] \in Nat /\ UNCHANGED <<main, next>>
  BY DEF IInv, Upload, FaultsTyped
<1>2. \A registers : Takes(b, g, registers) =>
        \E h2 : hw' = [hw EXCEPT ![b] = h2] /\ Taken(b, t, h, registers, h2)
  BY DEF Takes, Taken
<1>3. checked.at = "check" /\ failed.at = "failed"
  BY <1>1 DEF Tasks
<1>4. CASE Takes(b, g, Registers) /\ task' = [task EXCEPT ![b].at = "check"] /\ UNCHANGED faults
  <2>1. PICK h2 : hw' = [hw EXCEPT ![b] = h2] /\ Taken(b, t, h, Registers, h2)
    BY <1>2, <1>4
  <2>2. BoardOK(b, checked, h2, faults.wrong[b], faults.thrown)
    <3>1. Survives(b, t, h, h2) /\ Shows(b, t, h2)
      BY <1>1, <2>1, TakesOK
    <3> QED
      BY <1>1, <3>1, UploadedOK
  <2>3. OwnFaults(b) /\ faults' = faults
    BY <1>1, <1>4, NoFault
  <2> QED
    BY <1>1, <1>3, <1>4, <2>1, <2>2, <2>3, BoardStepIs DEF Working
<1>5. CASE /\ Errs(b) /\ task' = [task EXCEPT ![b].at = "check"]
           /\ \E spot \in Spots : Takes(b, g, Registers \ FrameOf[b][g][spot])
  <2>1. PICK registers, h2 : hw' = [hw EXCEPT ![b] = h2] /\ Taken(b, t, h, registers, h2)
    BY <1>2, <1>5
  <2>2. /\ OwnFaults(b) /\ faults'.thrown = faults.thrown
        /\ faults'.wrong[b] \in Nat /\ faults'.wrong[b] = faults.wrong[b] + 1
    BY <1>1, <1>5, ErrsCounts
  <2>3. BoardOK(b, checked, h2, faults'.wrong[b], faults'.thrown)
    <3>1. Survives(b, t, h, h2)
      BY <1>1, <2>1, TakesOK
    <3> QED
      BY <1>1, <2>2, <3>1, UploadedOK
  <2> QED
    BY <1>1, <1>3, <1>5, <2>1, <2>2, <2>3, BoardStepIs DEF Working
<1>6. CASE /\ Throws(b)
           /\ \E spot \in Spots : Takes(b, g, SentBefore(FrameOf[b][g][spot]))
  <2>1. PICK registers, h2 : hw' = [hw EXCEPT ![b] = h2] /\ Taken(b, t, h, registers, h2)
    BY <1>2, <1>6
  <2>2. OwnFaults(b) /\ b \in faults'.thrown /\ faults'.wrong[b] \in Nat
    BY <1>1, <1>6, ThrowsCounts
  <2>3. BoardOK(b, failed, h2, faults'.wrong[b], faults'.thrown)
    <3>1. Survives(b, t, h, h2)
      BY <1>1, <2>1, TakesOK
    <3> QED
      BY <1>1, <2>2, <3>1, FailedOK DEF Working
  <2>4. task' = [task EXCEPT ![b] = failed]
    BY <1>6 DEF Throws, Fails
  <2> QED
    BY <1>1, <1>3, <2>1, <2>2, <2>3, <2>4, BoardStepIs DEF Working
<1> QED
  BY <1>4, <1>5, <1>6 DEF Upload

LEMMA CheckSteps ==
  ASSUME IInv, NEW b \in Boards, Check(b)
  PROVE  BoardStep(b)
<1> DEFINE t == task[b]
           h == hw[b]
           g == t.gbtx
           again == [t EXCEPT !.at = "upload", !.tries = @ - 1]
           failed == [t EXCEPT !.at = "failed"]
<1>1. /\ FaultsTyped /\ BoardOK(b, t, h, faults.wrong[b], faults.thrown) /\ t.at = "check"
      /\ task \in [Boards -> Tasks] /\ hw' = [hw EXCEPT ![b] = h]
      /\ faults.wrong[b] \in Nat /\ UNCHANGED <<main, next, hw>>
  BY DEF IInv, Check, FaultsTyped
<1>2. g \in GBTxs(b) /\ t.tries \in Nat
  BY <1>1, Constants DEF BoardOK, Working, Tasks
<1>3. Agrees(b, g) <=> Shows(b, t, h)
  BY <1>2, EverythingRead DEF Agrees, Shows
<1>4. again.at = "upload" /\ failed.at = "failed"
  BY <1>1 DEF Tasks
<1>5. ASSUME Differs(b), faults'.wrong[b] \in Nat, faults'.wrong[b] > MAX_ATTEMPTS - t.tries,
             OwnFaults(b), faults'.thrown = faults.thrown
      PROVE  BoardStep(b)
  <2>1. CASE t.tries > 0
    <3>1. task' = [task EXCEPT ![b] = again]
      BY <1>5, <2>1 DEF Differs
    <3>2. BoardOK(b, again, h, faults'.wrong[b], faults'.thrown)
      BY <1>1, <1>5, <2>1, DiffersOK
    <3> HIDE DEF again
    <3> QED
      BY <1>1, <1>4, <1>5, <3>1, <3>2, BoardStepIs DEF Working
  <2>2. CASE t.tries = 0
    <3>1. task' = [task EXCEPT ![b] = failed]
      BY <1>5, <2>2 DEF Differs, Fails
    <3>2. BoardOK(b, failed, h, faults'.wrong[b], faults'.thrown)
      BY <1>1, <1>5, <2>2, DiffersOK
    <3> HIDE DEF failed
    <3> QED
      BY <1>1, <1>4, <1>5, <3>1, <3>2, BoardStepIs DEF Working
  <2> QED
    BY <1>2, <2>1, <2>2
<1>6. faults.wrong[b] >= MAX_ATTEMPTS - t.tries
      /\ (~Shows(b, t, h) => faults.wrong[b] > MAX_ATTEMPTS - t.tries)
  BY <1>1 DEF BoardOK
<1>7. CASE Agrees(b, g) /\ t.tries # 0 /\ task' = [task EXCEPT ![b] = Confirmed(b)]
           /\ UNCHANGED faults
  <2>1. OwnFaults(b) /\ faults' = faults
    BY <1>1, <1>7, NoFault
  <2>2. BoardOK(b, Confirmed(b), h, faults.wrong[b], faults.thrown) /\ Confirmed(b).at # "waiting"
    BY <1>1, <1>3, <1>7, ConfirmedOK
  <2> QED
    BY <1>1, <1>7, <2>1, <2>2, BoardStepIs DEF Working
<1>8. CASE Agrees(b, g) /\ t.tries = 0 /\ Fails(b) /\ UNCHANGED faults
  \* The last try counts as failed whatever it shows.
  <2>1. OwnFaults(b) /\ faults' = faults
    BY <1>1, <1>8, NoFault
  <2>2. faults.wrong[b] >= MAX_ATTEMPTS
    BY <1>1, <1>6, <1>8, Constants
  <2>3. Survives(b, t, h, h)
    BY <1>1, SurvivesItself
  <2>4. BoardOK(b, failed, h, faults.wrong[b], faults.thrown)
    BY <1>1, <2>2, <2>3, FailedOK DEF Working
  <2>5. task' = [task EXCEPT ![b] = failed]
    BY <1>8 DEF Fails
  <2> HIDE DEF failed
  <2> QED
    BY <1>1, <1>4, <2>1, <2>4, <2>5, BoardStepIs DEF Working
<1>9. CASE ~Agrees(b, g) /\ Differs(b) /\ UNCHANGED faults
  BY <1>1, <1>3, <1>5, <1>6, <1>9, NoFault
<1>10. CASE Agrees(b, g) /\ Errs(b) /\ Differs(b)
  <2>1. /\ OwnFaults(b) /\ faults'.thrown = faults.thrown
        /\ faults'.wrong[b] \in Nat /\ faults'.wrong[b] = faults.wrong[b] + 1
    BY <1>1, <1>10, ErrsCounts
  <2>2. faults'.wrong[b] > MAX_ATTEMPTS - t.tries
    BY <1>1, <1>2, <1>6, <2>1, Constants
  <2> QED
    BY <1>5, <1>10, <2>1, <2>2
<1>11. CASE Throws(b)
  BY <1>1, <1>11, ThrowsSteps DEF Working
<1> QED
  BY <1>7, <1>8, <1>9, <1>10, <1>11 DEF Check
-----------------------------------------------------------------------------
(* The boards together.                                                    *)

Busy == {b \in Boards : task[b].at \notin {"waiting", "done", "failed"}}

LEMMA Pool ==
  PoolKeepsItsLimit <=>
    /\ Cardinality(Busy) <= IF main = "serial" THEN 1 ELSE MaxThreads
    /\ main \in {"returned", "terminated"} => Busy = {}
BY DEF PoolKeepsItsLimit, Busy

LEMMA PoolNext ==
  PoolKeepsItsLimit' <=>
    /\ Cardinality(Busy') <= IF main' = "serial" THEN 1 ELSE MaxThreads
    /\ main' \in {"returned", "terminated"} => Busy' = {}
BY DEF PoolKeepsItsLimit, Busy

\* Fewer threads are busy, or as many.
LEMMA FewerBusy ==
  ASSUME NEW S \in SUBSET Boards, NEW T \in SUBSET S
  PROVE  /\ IsFiniteSet(S) /\ Cardinality(S) \in Nat
         /\ Cardinality(T) \in Nat /\ Cardinality(T) <= Cardinality(S)
<1>1. IsFiniteSet(Boards)
  BY Constants, FS_Interval
<1>2. IsFiniteSet(S)
  BY <1>1, FS_Subset
<1> QED
  BY <1>2, FS_Subset, FS_CardinalityType

LEMMA BoardStepKeepsInv ==
  ASSUME IInv, NEW b \in Boards, BoardStep(b)
  PROVE  IInv'
<1>1. PICK t, h :
        /\ task' = [task EXCEPT ![b] = t] /\ hw' = [hw EXCEPT ![b] = h]
        /\ BoardOK(b, t, h, faults'.wrong[b], faults'.thrown) /\ t.at # "waiting"
  BY DEF BoardStep
<1>2. /\ task[b].at \in Working \cup {"save"} /\ OwnFaults(b) /\ main' = main /\ next' = next
      /\ task \in [Boards -> Tasks] /\ hw = [c \in Boards |-> hw[c]] /\ FaultsTyped /\ FaultsTyped'
  BY DEF BoardStep, IInv, OwnFaults
<1>3. /\ task' \in [Boards -> Tasks] /\ hw' = [c \in Boards |-> hw'[c]]
      /\ task'[b] = t /\ hw'[b] = h
      /\ \A c \in Boards : c # b => task'[c] = task[c] /\ hw'[c] = hw[c]
  BY <1>1, <1>2 DEF BoardOK
<1>4. ASSUME NEW c \in Boards
      PROVE  BoardOK(c, task'[c], hw'[c], faults'.wrong[c], faults'.thrown)
  <2>1. CASE c = b
    BY <1>1, <1>3, <2>1
  <2>2. CASE c # b
    <3>1. BoardOK(c, task[c], hw[c], faults.wrong[c], faults.thrown)
      BY DEF IInv
    <3>2. BoardOK(c, task[c], hw[c], faults.wrong[c], faults'.thrown)
      BY <1>2, <2>2, <3>1 DEF BoardOK, OwnFaults
    <3> QED
      BY <1>2, <1>3, <2>2, <3>2 DEF OwnFaults
  <2> QED
    BY <2>1, <2>2
<1>5. Started'
  <2>1. b < next /\ (main = "serial" => ~(b < next - 1))
    BY <1>2, Constants DEF IInv, Started, Working
  <2> QED
    BY <1>2, <1>3, <2>1 DEF IInv, Started
<1>6. PoolKeepsItsLimit'
  <2>1. Busy' \subseteq Busy
    BY <1>2, <1>3 DEF Busy, Working
  <2>2. /\ Cardinality(Busy') \in Nat /\ Cardinality(Busy) \in Nat
        /\ Cardinality(Busy') <= Cardinality(Busy)
    BY <2>1, FewerBusy DEF Busy
  <2>3. b \in Busy
    BY <1>2 DEF Busy, Working
  <2>4. /\ Cardinality(Busy) <= IF main = "serial" THEN 1 ELSE MaxThreads
        /\ main \notin {"returned", "terminated"}
    BY <2>3, Pool DEF IInv
  <2>5. Cardinality(Busy') <= IF main' = "serial" THEN 1 ELSE MaxThreads
    BY <1>2, <2>2, <2>4, Constants
  <2> QED
    BY <1>2, <2>4, <2>5, PoolNext
<1> QED
  BY <1>2, <1>3, <1>4, <1>5, <1>6 DEF IInv

LEMMA InvInit == Init => IInv
<1> SUFFICES ASSUME Init PROVE IInv
  OBVIOUS
<1> DEFINE t == [at |-> "waiting", gbtx |-> 0, image |-> "default", tries |-> MAX_ATTEMPTS]
<1>1. t \in Tasks /\ t.at = "waiting" /\ t.image = "default"
  BY Constants DEF Tasks, Stages, Images
<1>2. \A b \in Boards : task[b] = t /\ hw[b] = [g \in GBTxs(b) |-> {}]
  BY DEF Init
<1>3. task \in [Boards -> Tasks] /\ hw = [b \in Boards |-> hw[b]]
  BY <1>1 DEF Init
<1>4. FaultsTyped
  BY Constants DEF Init, FaultsTyped
<1> HIDE DEF t
<1>5. ASSUME NEW b \in Boards
      PROVE  BoardOK(b, task[b], hw[b], faults.wrong[b], faults.thrown)
  BY <1>1, <1>2 DEF BoardOK, Passed, Working
<1>6. Busy = {} /\ \A b \in Boards : task[b].at = "waiting"
  BY <1>1, <1>2 DEF Busy
<1>7. PoolKeepsItsLimit
  BY <1>6, Pool, FS_EmptySet, Constants
<1>8. Started /\ next \in 1..Len(Conf) + 1
  BY <1>6, Constants DEF Init, Started
<1> QED
  BY <1>3, <1>4, <1>5, <1>7, <1>8 DEF Init, IInv
LEMMA StartKeepsInv ==
  ASSUME IInv, StartBoard
  PROVE  IInv'
<1> DEFINE b == next
           t == StartNext(b, 0)
<1>1. /\ b \in Boards /\ next' = b + 1 /\ UNCHANGED <<main, hw, faults>>
      /\ b \in Nat /\ b + 1 \in 1..Len(Conf) + 1
      /\ task \in [Boards -> Tasks] /\ task' = [task EXCEPT ![b] = t]
      /\ FaultsTyped /\ Started /\ PoolKeepsItsLimit
  BY Constants DEF IInv, StartBoard
<1>2. hw[b] \in [GBTxs(b) -> SUBSET (Registers \X Byte)] /\ faults.wrong[b] \in Nat
  BY <1>1 DEF IInv, BoardOK, FaultsTyped
<1>3. \A k \in GBTxs(b) : ~(k <= 0)
  BY <1>1, Constants
<1>4. BoardOK(b, t, hw[b], faults.wrong[b], faults.thrown) /\ t.at # "waiting" /\ t \in Tasks
  BY <1>1, <1>2, <1>3, StartNextOK, SMTT(30) DEF BoardOK
<1> HIDE DEF t
<1>5. /\ task' \in [Boards -> Tasks] /\ task'[b] = t
      /\ \A c \in Boards : c # b => task'[c] = task[c]
  BY <1>1, <1>4
<1>6. ASSUME NEW c \in Boards
      PROVE  BoardOK(c, task'[c], hw'[c], faults'.wrong[c], faults'.thrown)
  BY <1>1, <1>4, <1>5 DEF IInv
<1>7. main \in {"parallel", "serial"} /\ (main = "serial" => \A c \in 1..b - 1 : task[c].at = "done")
  BY DEF StartBoard
<1>8. Started'
  BY <1>1, <1>5, <1>7, Constants DEF Started
<1>9. Busy' \subseteq Busy \cup {b} /\ Busy \in SUBSET Boards
  BY <1>5 DEF Busy
<1>10. ASSUME main = "parallel" PROVE PoolKeepsItsLimit'
  <2>1. ~(Cardinality(active_threads) >= MaxThreads)
    BY <1>10 DEF StartBoard, too_many_threads
  <2>2. active_threads = Busy
    BY DEF active_threads, Ended, Busy
  <2>3. IsFiniteSet(Busy) /\ Cardinality(Busy) \in Nat
    BY <1>9, FewerBusy
  <2>4. Cardinality(Busy) + 1 <= MaxThreads
    BY <2>1, <2>2, <2>3, Constants
  <2>5. /\ IsFiniteSet(Busy \cup {b})
        /\ Cardinality(Busy \cup {b}) \in {Cardinality(Busy), Cardinality(Busy) + 1}
    BY <2>3, FS_AddElement
  <2>6. Busy \cup {b} \in SUBSET Boards
    BY <1>1, <1>9
  <2>7. Cardinality(Busy') \in Nat /\ Cardinality(Busy') <= Cardinality(Busy \cup {b})
    BY <1>9, <2>6, FewerBusy
  <2>8. Cardinality(Busy') <= MaxThreads
    BY <2>3, <2>4, <2>5, <2>7, Constants
  <2>9. main' = "parallel"
    BY <1>1, <1>10
  <2> QED
    BY <2>8, <2>9, PoolNext
<1>11. ASSUME main = "serial" PROVE PoolKeepsItsLimit'
  <2>1. Busy' \subseteq {b}
    BY <1>1, <1>5, <1>7, <1>11, Constants DEF Busy, Started
  <2>2. Cardinality({b}) = 1
    BY FS_Singleton
  <2>3. Cardinality(Busy') <= 1
    BY <1>1, <2>1, <2>2, FewerBusy
  <2>4. main' = "serial"
    BY <1>1, <1>11
  <2> QED
    BY <2>3, <2>4, PoolNext
<1>12. PoolKeepsItsLimit'
  BY <1>7, <1>10, <1>11
<1>13. FaultsTyped' /\ hw' = [c \in Boards |-> hw'[c]]
  BY <1>1 DEF IInv, FaultsTyped
<1>14. main' \in {"parallel", "serial"} /\ next' \in 1..Len(Conf) + 1
  BY <1>1, <1>7
<1> HIDE DEF b
<1> QED
  BY <1>5, <1>6, <1>8, <1>12, <1>13, <1>14 DEF IInv

LEMMA ReturnKeepsInv ==
  ASSUME IInv, Return
  PROVE  IInv'
<1>1. /\ UNCHANGED <<next, task, hw, faults>> /\ main' \in {"returned", "terminated"}
      /\ task \in [Boards -> Tasks] /\ Started /\ next \in 1..Len(Conf) + 1
  BY DEF Return, IInv
<1>2. Busy = {}
  <2>1. CASE \A b \in Boards : task[b].at \in {"done", "failed"}
    BY <2>1 DEF Busy
  <2>2. CASE main = "serial" /\ \E b \in Boards : task[b].at = "failed"
    <3>1. PICK b \in Boards : task[b].at = "failed"
      BY <2>2
    <3>2. b < next /\ ~(b < next - 1) /\ b \in Nat /\ next \in Nat
      BY <1>1, <2>2, <3>1, Constants DEF Started
    <3>3. b = next - 1
      BY <3>2
    <3>4. ASSUME NEW c \in Boards
          PROVE  task[c].at \in {"waiting", "done", "failed"}
      <4>1. c \in Nat
        BY Constants
      <4>2. c < b \/ c = b \/ c >= next
        BY <3>2, <3>3, <4>1
      <4> QED
        BY <1>1, <2>2, <3>1, <3>3, <4>2 DEF Started
    <3> QED
      BY <3>4 DEF Busy
  <2> QED
    BY <2>1, <2>2 DEF Return, Ended
<1>3. PoolKeepsItsLimit'
  <2>1. Cardinality({}) = 0
    BY FS_EmptySet
  <2>2. Busy' = {}
    BY <1>1, <1>2 DEF Busy
  <2> QED
    BY <1>1, <2>1, <2>2, Constants, PoolNext
<1> QED
  BY <1>1, <1>3 DEF IInv, Started, FaultsTyped

LEMMA InvStep ==
  ASSUME IInv, [Next]_vars
  PROVE  IInv'
<1>1. CASE StartBoard
  BY <1>1, StartKeepsInv
<1>2. CASE AllStarted
  BY <1>2 DEF AllStarted, IInv, Started, FaultsTyped, PoolKeepsItsLimit
<1>3. CASE Return
  BY <1>3, ReturnKeepsInv
<1>4. CASE Ending \/ UNCHANGED vars
  BY <1>4 DEF Ending, vars, IInv, Started, FaultsTyped, PoolKeepsItsLimit
<1>5. ASSUME NEW b \in Boards, Configure(b)
      PROVE  IInv'
  BY <1>5, ReadInitiallySteps, UploadSteps, CheckSteps, ReadPhasesSteps, SaveSteps,
     BoardStepKeepsInv DEF Configure
<1> QED
  BY <1>1, <1>2, <1>3, <1>4, <1>5 DEF Next

LEMMA Inductive == Spec => []IInv
BY InvInit, InvStep, PTL DEF Spec

-----------------------------------------------------------------------------
(* What follows from it.                                                   *)

\* The variables of configure_gbtx are of their types; in particular a GBTx is
\* never tried more often than MAX_ATTEMPTS and once, and the GBTx a board is at
\* is one of its own.
THEOREM TypeCorrect == Spec => []TypeOK
<1> SUFFICES ASSUME IInv PROVE TypeOK
  BY Inductive, PTL
<1>1. task \in [Boards -> [at : Stages, gbtx : 0..3, image : {"default", "on", "off"},
                          tries : 0..MAX_ATTEMPTS]]
  BY DEF IInv, Tasks, Images
<1>2. ASSUME NEW b \in Boards
      PROVE  /\ (task[b].at \in Working) => task[b].gbtx \in GBTxs(b)
             /\ \A g \in GBTxs(b) : hw[b][g] \subseteq (Registers \X Byte)
  BY DEF IInv, BoardOK
<1> QED
  BY <1>1, <1>2 DEF IInv, FaultsTyped, TypeOK, Working

\* configure_gbtx keeps the limit of its threads, configures one board at a time
\* in serial mode and ends with none in work.
THEOREM PoolCorrect == Spec => []PoolKeepsItsLimit
<1>1. IInv => PoolKeepsItsLimit
  BY DEF IInv
<1> QED
  BY <1>1, Inductive, PTL

\* A board of sendL1DDCConfig fails by an exception of its own or after
\* MAX_ATTEMPTS of its own lost frames and wrong readbacks.
THEOREM FailuresCorrect == Spec => []FailuresHaveCauses
<1>1. IInv => FailuresHaveCauses
  BY DEF IInv, BoardOK, FailuresHaveCauses
<1> QED
  BY <1>1, Inductive, PTL

\* A board that sendL1DDCConfig is through with holds its final configuration in
\* every GBTx, and none is left in training.
THEOREM DoneCorrect == Spec => []DoneMeansConfigured
<1> SUFFICES IInv => DoneMeansConfigured
  BY Inductive, PTL
<1> SUFFICES ASSUME IInv, NEW b \in Boards, task[b].at = "done",
                    NEW g \in GBTxs(b), Conf[b].gbtx[g].configure
             PROVE  /\ \A bit \in hw[b][g] \cup FinalImage(b, g) : bit[1] <= maxConfigRegister =>
                         (bit \in hw[b][g] <=> bit \in FinalImage(b, g))
                    /\ Conf[b].train => \A group \in Groups :
                         Copies(<<"paTrainGroup", group>>, Byte) \cap hw[b][g] = {}
  BY DEF DoneMeansConfigured
<1>1. Compared(hw[b][g]) = Compared(FinalImage(b, g))
  BY DEF IInv, BoardOK, Passed
<1>2. ASSUME NEW bit, bit[1] <= maxConfigRegister
      PROVE  bit \in hw[b][g] <=> bit \in FinalImage(b, g)
  BY <1>1, <1>2 DEF Compared
<1>3. ASSUME Conf[b].train, NEW group \in Groups,
             NEW bit \in Copies(<<"paTrainGroup", group>>, Byte), bit \in hw[b][g]
      PROVE  FALSE
  <2>1. <<"paTrainGroup", group>> \in DOMAIN RegisterMap
    BY TrainingMapped DEF Training, TrainNames
  <2>2. bit[1] <= maxConfigRegister
    BY <2>1, CopiesCompared
  <2>3. bit \in Image[b][g].off
    BY <1>2, <1>3, <2>2 DEF FinalImage
  <2> QED
    BY <1>3, <2>3, ImageIs, TrainingCleared
<1> QED
  BY <1>2, <1>3

\* Whatever becomes of the training of a GBTx, it keeps the settings that are not
\* the training's own.
THEOREM SettingsCorrect == Spec => []SettingsSurviveTraining
<1>1. IInv => SettingsSurviveTraining
  BY TrainingDomains DEF IInv, BoardOK, Kept, SettingsSurviveTraining
<1> QED
  BY <1>1, Inductive, PTL
=============================================================================
