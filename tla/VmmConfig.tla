------------------------------- MODULE VmmConfig -------------------------------
(***************************************************************************)
(* nsw::VMMConfig and VMMCodec: the configuration of a VMM, a tree of      *)
(* values, and the string of bits made of it that is sent to the chip.     *)
(* Values are sets of bits.  A value that does not fit makes a setter      *)
(* throw, but it stays in the tree.                                        *)
(***************************************************************************)
EXTENDS RegisterLayout

CONSTANTS
  NCHANNELS,    \* 64 in the code
  Initial,      \* values that are not zero in the configuration read
  Calls,        \* calls to look at, [set, name, value, channel]
  MaxCalls      \* bound on the calls

ASSUME VmmAssumption ==
  /\ NCHANNELS \in Nat \ {0} /\ MaxCalls \in Nat
  /\ \A name \in DOMAIN Initial : Initial[name] \in SUBSET Nat
  /\ \A call \in Calls : /\ call.set \in {"global", "all", "one", "monitor"}
                         /\ call.value \in SUBSET Nat /\ call.channel \in Nat

VARIABLES
  config,    \* m_config: of each register one value, or one for each channel
  bits,      \* m_bitstring, the positions that are 1
  outcome,   \* of the last call: "ok" or "thrown"
  asked,     \* last value asked for of each register and channel (history)
  shown,     \* asked, at the last call that did not throw (history)
  calls
vmmVars == <<config, bits, outcome, asked, shown, calls>>

(***************************************************************************)
(* The tables: registers and their sizes, in the order of the string.      *)
(***************************************************************************)
Single(words) == [i \in DOMAIN words |-> F(words[i], 1)]

m_global_name_size0 ==
  <<F("reset", 2), Unused(5)>>
  \o Single(<<"stgc", "slxh", "slh", "sL0enaV", "slvs6b", "slvsena", "slvstki", "slvsart",
              "slvsdt", "slvstk", "slvstp", "slvsbc", "sfrst", "srat", "sbip", "stlc", "srec",
              "ssart", "stcr", "s32", "slvs">>)
  \o <<F("res", 4)>>
  \o Single(<<"res00", "stpp", "sdrv", "sdck6b", "sdcka", "sdcks", "s10b", "s6b", "s8b">>)
  \o <<F("sc6b", 3), F("sc8b", 2), F("sc10b", 2), F("sdp_dac", 10), F("sdt_dac", 10), F("stc", 2)>>
  \o Single(<<"ssh", "sttt", "stot", "sng">>)
  \o <<F("sg", 3), F("sfm", 1), F("st", 2)>>
  \o Single(<<"sfam", "sfa", "scmx">>) \o <<F("sm", 6)>>
  \o Single(<<"slg", "sbfm", "sbfp", "sbft", "sbmx", "sdp", "sp">>)
m_global_name_size1 ==
  <<Unused(8), F("offset", 12), F("l0offset", 12), F("rollover", 12), F("window", 3),
    F("nskip", 7), F("truncate", 6)>>
  \o Single(<<"sL0ena", "sL0ckinv", "sL0dckinv", "sL0cktest", "nskipm">>) \o <<Unused(31)>>
m_channel_name_size ==
  Single(<<"channel_sc", "channel_sl", "channel_st", "channel_sth", "channel_sm", "channel_smx">>)
  \o <<F("channel_sd", 5), F("channel_sz10b", 5), F("channel_sz8b", 4), F("channel_sz6b", 3),
       Unused(1)>>
m_bitreversed_registers == {<<"sm">>, <<"st">>, <<"sg">>, <<"sdt_dac">>, <<"sdp_dac">>}

Globals  == Fields(m_global_name_size0) \cup Fields(m_global_name_size1)
Channels == Fields(m_channel_name_size)
SizeOf ==
  [name \in Globals \cup Channels |->
    (CHOOSE f \in Range(m_global_name_size0 \o m_global_name_size1 \o m_channel_name_size) :
       f.name = name).size]

\* The string has 96 bits of global registers, 24 of each channel, and 96 bits
\* of global registers; no name is in two tables.
ASSUME VmmTables ==
  /\ \A layout \in {m_global_name_size0, m_global_name_size1} : IsLayout(layout) /\ Size(layout) = 96
  /\ IsLayout(m_channel_name_size) /\ Size(m_channel_name_size) = 24
  /\ Fields(m_global_name_size0) \cap Fields(m_global_name_size1) = {}
  /\ Globals \cap Channels = {}
  /\ m_bitreversed_registers \cup {<<"sm">>, <<"scmx">>} \subseteq Globals

(***************************************************************************)
(* VMMCodec                                                                *)
(***************************************************************************)
bitString(value, size)         == [i \in 1..size |-> size - i \in value]
reversedBitString(value, size) == Reverse(bitString(value, size))

buildGlobalConfig(tree, registers) ==
  FlattenSeq([i \in DOMAIN registers |->
    LET name == registers[i].name
    IN IF name = NOT_USED THEN bitString({}, registers[i].size)
       ELSE IF name \in m_bitreversed_registers
            THEN reversedBitString(tree[name][1], registers[i].size)
            ELSE bitString(tree[name][1], registers[i].size)])

\* One value for all channels, or an array.
InChannel(values, channel) == IF Len(values) = 1 THEN values[1] ELSE values[channel + 1]

\* Fault: the string begins with channel 0.
buildChannelConfig_Ascending(tree) ==
  FlattenSeq([k \in 1..NCHANNELS |->
    Reverse(FlattenSeq([i \in DOMAIN m_channel_name_size |->
      LET f == m_channel_name_size[i]
      IN reversedBitString(IF f.name = NOT_USED THEN {} ELSE InChannel(tree[f.name], k - 1),
                           f.size)]))])
\* The last channel comes first.
buildChannelConfig(tree) ==
  FlattenSeq([k \in 1..NCHANNELS |->
    Reverse(FlattenSeq([i \in DOMAIN m_channel_name_size |->
      LET f == m_channel_name_size[i]
      IN reversedBitString(IF f.name = NOT_USED THEN {}
                           ELSE InChannel(tree[f.name], NCHANNELS - k), f.size)]))])

buildConfig(tree) ==
  LET string == buildGlobalConfig(tree, m_global_name_size1) \o buildChannelConfig(tree)
                  \o buildGlobalConfig(tree, m_global_name_size0)
  IN {i \in DOMAIN string : string[i]}

\* checkOverflow of all values of some registers
NoOverflow(tree, names) ==
  \A name \in names : \A i \in DOMAIN tree[name] : Fits(tree[name][i], SizeOf[name])

(***************************************************************************)
(* VMMConfig: what a setter leaves.                                        *)
(***************************************************************************)
NoSuchRegister(tree) == [config |-> tree, bits |-> bits, outcome |-> "thrown"]
Rebuilt(tree) ==
  IF NoOverflow(tree, Globals \cup Channels)
  THEN [config |-> tree, bits |-> buildConfig(tree), outcome |-> "ok"]
  ELSE [config |-> tree, bits |-> bits, outcome |-> "thrown"]
Put(tree, name, values) == IF name \in DOMAIN tree THEN [tree EXCEPT ![name] = values] ELSE tree

setGlobalRegister(tree, name, value) ==
  IF name \in Globals THEN Rebuilt(Put(tree, name, <<value>>)) ELSE NoSuchRegister(tree)

\* Nothing is asked about the name: an unknown one goes into the tree.
setChannelRegisterAllChannels(tree, name, value) == Rebuilt(Put(tree, name, <<value>>))

\* The values of all channels are read first.
setChannelRegisterOneChannel(tree, name, value, channel) ==
  IF name \notin Channels \/ channel >= NCHANNELS \/ ~NoOverflow(tree, Channels)
  THEN NoSuchRegister(tree)
  ELSE Rebuilt(Put(tree, name, [i \in 1..NCHANNELS |->
                 IF i = channel + 1 THEN value ELSE InChannel(tree[name], i - 1)]))

\* Two setters, of which the second may throw; setTestPulseDAC,
\* setGlobalThreshold, setChannelMOMode and setChannelTrimmer are one each.
setMonitorOutput(tree, channelId, param) ==
  LET first  == setGlobalRegister(tree, <<"scmx">>, param)
      second == setGlobalRegister(first.config, <<"sm">>, channelId)
  IN IF first.outcome = "thrown" THEN first
     ELSE [second EXCEPT !.bits = IF second.outcome = "ok" THEN @ ELSE first.bits]

(***************************************************************************)
(* The history: what was asked for, whether or not the call threw, and     *)
(* what of it the string shows.                                            *)
(***************************************************************************)
Places(name) == {name} \X (IF name \in Channels THEN 0..NCHANNELS - 1 ELSE {0})
AllPlaces    == UNION {Places(name) : name \in Globals \cup Channels}
Asking(places, value) == [p \in AllPlaces |-> IF p \in places THEN value ELSE asked[p]]
AllFit(values) == \A p \in AllPlaces : Fits(values[p], SizeOf[p[1]])
MonitorMode(call) == Asking(Places(<<"scmx">>), call.value)
AskedFor(call) ==
  CASE call.set = "monitor" ->
         IF AllFit(MonitorMode(call))
         THEN [MonitorMode(call) EXCEPT ![<< <<"sm">>, 0>>] = {call.channel}]
         ELSE MonitorMode(call)
    [] call.set = "global" /\ call.name \in Globals -> Asking(Places(call.name), call.value)
    [] call.set = "all" /\ call.name \in Globals \cup Channels ->
         Asking(Places(call.name), call.value)
    [] call.set = "one" /\ call.name \in Channels /\ call.channel < NCHANNELS ->
         IF \A p \in AllPlaces : p[1] \in Channels => Fits(asked[p], SizeOf[p[1]])
         THEN Asking({<<call.name, call.channel>>}, call.value) ELSE asked
    [] OTHER -> asked
ShownBy(call, result) ==
  IF result = "ok" THEN AskedFor(call)
  ELSE IF call.set = "monitor" /\ AllFit(MonitorMode(call)) THEN MonitorMode(call)
  ELSE shown

Returned(call) ==
  CASE call.set = "global"  -> setGlobalRegister(config, call.name, call.value)
    [] call.set = "all"     -> setChannelRegisterAllChannels(config, call.name, call.value)
    [] call.set = "one"     -> setChannelRegisterOneChannel(config, call.name, call.value,
                                                            call.channel)
    [] call.set = "monitor" -> setMonitorOutput(config, {call.channel}, call.value)

VmmInit ==
  /\ config = [name \in Globals \cup Channels |->
                 IF name \in DOMAIN Initial THEN <<Initial[name]>> ELSE << {} >>]
  /\ bits = buildConfig(config)
  /\ outcome = "ok"
  /\ asked = [p \in AllPlaces |-> config[p[1]][1]]
  /\ shown = asked
  /\ calls = 0

Call(call) ==
  LET after == Returned(call)
  IN /\ calls < MaxCalls
     /\ calls' = calls + 1
     /\ config' = after.config /\ bits' = after.bits /\ outcome' = after.outcome
     /\ asked' = AskedFor(call)
     /\ shown' = ShownBy(call, after.outcome)

VmmNext == \E call \in Calls : Call(call)

VmmSpec == VmmInit /\ [][VmmNext]_vmmVars
-----------------------------------------------------------------------------
VmmTypeOK ==
  /\ DOMAIN config = Globals \cup Channels
  /\ \A name \in Globals : Len(config[name]) = 1
  /\ \A name \in Channels : Len(config[name]) \in {1, NCHANNELS}
  /\ bits \subseteq 1..(2 * 96 + 24 * NCHANNELS)
  /\ outcome \in {"ok", "thrown"}

\* Where the VMM takes bit b of a register from: 96 bits of global registers, 24
\* bits for each channel, the last one first, 96 bits of global registers; the
\* registers of a channel from the last to the first.
FieldsBefore(layout, name) ==
  LET k == CHOOSE i \in DOMAIN layout : layout[i].name = name
  IN Width(layout, 1, k - 1)
PlaceOfRegister ==
  [name \in Globals \cup Channels |->
     IF name \in Fields(m_global_name_size1) THEN FieldsBefore(m_global_name_size1, name)
     ELSE IF name \in Channels THEN 24 - FieldsBefore(m_channel_name_size, name) - SizeOf[name]
     ELSE 96 + 24 * NCHANNELS + FieldsBefore(m_global_name_size0, name)]
PlaceOf(p, b) ==
  PlaceOfRegister[p[1]] + (IF p[1] \in m_bitreversed_registers THEN b + 1 ELSE SizeOf[p[1]] - b)
    + (IF p[1] \in Channels THEN 96 + 24 * (NCHANNELS - 1 - p[2]) ELSE 0)

\* The string always shows, register by register and channel by channel, what was
\* asked for when a setter last returned: one that throws does not change it, but
\* what it asked for, and no longer stands in the way, is shown by a later one
\* (VMMConfig.cpp:61-150, VMMCodec.cpp:46-158).
BitsShowSettings ==
  \A p \in DOMAIN shown : \A b \in 0..SizeOf[p[1]] - 1 :
    PlaceOf(p, b) \in bits <=> b \in shown[p]
=============================================================================
