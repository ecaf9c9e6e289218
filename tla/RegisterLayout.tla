---------------------------- MODULE RegisterLayout ----------------------------
(***************************************************************************)
(* nsw::I2cMasterCodec: a register is a sequence of sub-registers, the     *)
(* most significant one first, and its content a string of bits, here the  *)
(* set of the positions that are 1.  The tables of the chips are functions *)
(* from register numbers to such sequences.                                *)
(***************************************************************************)
EXTENDS BitSets, Sequences, SequencesExt, TLC

\* Names of sub-registers and of values are tuples: a word and what follows
\* it in the source, such as <<"ePllPhase160MHz", 0, "[3:0]">>.
Field(name, size) == [name |-> name, size |-> size]
F(word, size)     == Field(<<word>>, size)
NOT_USED          == <<"NOT_USED">>
Unused(size)      == Field(NOT_USED, size)

\* Sub-registers with numbers first, first - 1, ..., last.
Row(word, first, last, size) ==
  [i \in 1..first - last + 1 |-> Field(<<word, first + 1 - i>>, size)]

\* A table of a register: every sub-register has bits, and its own name.
IsLayout(layout) ==
  /\ Len(layout) \in Nat /\ layout = [i \in 1..Len(layout) |-> layout[i]]
  /\ \A i \in 1..Len(layout) :
       /\ layout[i].size \in Nat \ {0}
       /\ \A j \in 1..i - 1 : layout[i].name = layout[j].name => layout[i].name = NOT_USED

Fields(layout) == {layout[i].name : i \in DOMAIN layout} \ {NOT_USED}

\* The sub-registers from first to last have so many bits.
Width(layout, first, last) == Cardinality(UNION {{i} \X (1..layout[i].size) : i \in first..last})
Size(layout) == Width(layout, 1, Len(layout))

\* The bits of each sub-register; positions in the string count from the left.
Positions(layout) ==
  LET bits(i) == LET below == Width(layout, i + 1, Len(layout))
                 IN Bits(below + layout[i].size - 1, below)
  IN [name \in Fields(layout) |-> bits(CHOOSE i \in DOMAIN layout : layout[i].name = name)]

\* One register of buildPartialConfig: the low bits of the number.
BuildPartial(layout, number) == Low(number, Size(layout))

\* getRegisterValue and setRegisterValue: "bits" are those of the sub-register.
GetField(content, bits) == ShiftRight(content \cap bits, Min(bits))

\* Fault: the content is written where its first bit is, not its last.
SetField_FirstBit(content, bits, value) == (content \ bits) \cup ShiftLeft(value, Max(bits))
\* Fault: the content is not moved to its place.
SetField_Unshifted(content, bits, value) == (content \ bits) \cup value

SetField(content, bits, value) == (content \ bits) \cup ShiftLeft(value, Min(bits))
=============================================================================
