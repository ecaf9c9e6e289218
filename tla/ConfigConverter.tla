--------------------------- MODULE ConfigConverter ---------------------------
(***************************************************************************)
(* nsw::ConfigConverter: values and the (parts of) registers that hold     *)
(* them.  A translation map is the set of its units; no value has two      *)
(* units in one register, so that their order does not matter.             *)
(***************************************************************************)
EXTENDS RegisterLayout

(***************************************************************************)
(* struct TranslationUnit: a unit says which bits of the register are the  *)
(* value (mask), or which of its bits (part).                              *)
(***************************************************************************)
ALL == Bits(31, 0)      \* the default of both masks

Part(value, reg, field, mask, part) ==
  [value |-> value, reg |-> reg, field |-> field, mask |-> mask, part |-> part]
Unit(value, reg, field, mask) == Part(value, reg, field, mask, ALL)
Whole(value, reg, field)      == Part(value, reg, field, ALL, ALL)

UnitsOf(units, v)        == {u \in units : u.value = v}
GetRegsForValue(units, v) == {u.reg : u \in UnitsOf(units, v)}

(***************************************************************************)
(* ctz for masks of 128 bits looks at the low 64 bits first.  Nothing in   *)
(* them is undefined for __builtin_ctzll: a compiler may conclude that the *)
(* result is not 64 and never look further ("folded").                     *)
(***************************************************************************)
Ctz(bits, folded) ==
  LET low == Low(bits, 64)
  IN IF low # {} THEN Min(low) ELSE IF folded \/ bits = {} THEN 64 ELSE Min(bits)

(***************************************************************************)
(* convertValueToFlatRegister and readMissingRegisterParts.  Contributions *)
(* of several values to a register are added up in a property tree, in the *)
(* order of their names, which is that of their bits in registers longer   *)
(* than 32 bits; a sum that is no unsigned int is read back as 0.          *)
(***************************************************************************)
Contribution(u, value, folded) ==
  ShiftLeft(ShiftRight(value \cap u.part, Min(u.part)), Ctz(u.mask, folded))

FlatSum(touching, values, width, folded) ==
  LET sum[us \in SUBSET touching] ==
        IF us = {} THEN {}
        ELSE LET last == CHOOSE u \in us : \A w \in us : Min(w.mask) <= Min(u.mask)
                 rest == sum[us \ {last}]
             IN Low(Plus(IF Fits(rest, 32) THEN rest ELSE {},
                         Contribution(last, values[last.value], folded)), width)
  IN sum[touching]

Mask(touching) == UNION {u.mask : u \in touching}

\* Fault: the rest of the register is not looked up.
FlatRegister_NoReference(touching, values, reference, size, width, folded) ==
  FlatSum(touching, values, width, folded)

FlatRegister(touching, values, reference, size, width, folded) ==
  LET sum == FlatSum(touching, values, width, folded)
  IN IF Cardinality(Mask(touching)) = size THEN sum
     ELSE sum \cup (reference \ Mask(touching))

\* A register named in full is not looked up, but its mask must have no gap.
HasGap(touching, size, width, folded) ==
  /\ Cardinality(Mask(touching)) = size
  /\ Ctz((0..width - 1) \ Mask(touching), folded) # size

(***************************************************************************)
(* convertRegisterToSubRegister and convertSubRegisterToValue.             *)
(***************************************************************************)
\* Fault: the bits are not moved to the right.
SubRegister_InPlace(u, content, folded) == content \cap u.mask

SubRegister(u, content, folded) ==
  ShiftRight(content \cap u.mask, Ctz(u.mask, folded))

\* Fault: the parts are not moved to where they belong.
ToValue_NoShift(us, sub) ==
  MapThenFoldSet(Plus, {}, LAMBDA u : sub[<<u.reg, u.field>>],
                 LAMBDA s : CHOOSE u \in s : TRUE, us)

\* The sub-registers of one value are put together.
ToValue(us, sub) ==
  MapThenFoldSet(Plus, {}, LAMBDA u : ShiftLeft(sub[<<u.reg, u.field>>], Min(u.part)),
                 LAMBDA s : CHOOSE u \in s : TRUE, us)
=============================================================================
