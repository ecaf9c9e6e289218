--------------------------- MODULE MCRegisterAccess ---------------------------
(***************************************************************************)
(* Every register of every chip that holds a value or a sub-register, with *)
(* up to four neighbours at a time; of the long registers of the TDS the   *)
(* parts around 32, 64 and 128 bits.                                       *)
(***************************************************************************)
EXTENDS RegisterAccess

\* What is written into n bits: nothing, all ones, or ones at both ends.
Patterns     == {"none", "all", "ends"}
Pattern(k, n) == CASE k = "none" -> {} [] k = "all" -> 0..n - 1 [] k = "ends" -> {0, n - 1}
MCNumbers(n) == {Pattern(k, n) : k \in Patterns}

\* Groups of four neighbours: low(x) is where x begins in its register.
Groups(S, low(_)) ==
  LET rank(x) == Cardinality({y \in S : low(y) < low(x)})
  IN {{x \in S : rank(x) \div 4 = k} : k \in {rank(x) \div 4 : x \in S}}

ValueFocuses(chip, registers) ==
  LET b == BANKS[chip]
      about(r, us) ==
        [chip |-> chip, values |-> {u.value : u \in us},
         numbers |-> {[v \in {u.value : u \in us} |-> Pattern(k, ValueSize(b, v))] :
                        k \in Patterns},
         fields |-> {<<r, u.field>> : u \in {w \in us : w.field \in DOMAIN b.bits[r]}}]
  IN UNION {{about(r, us) : us \in Groups({u \in b.units : u.reg = r}, LAMBDA u : Min(u.mask))} :
              r \in registers}

FieldFocuses(chip, registers) ==
  LET b == BANKS[chip]
  IN UNION {{[chip |-> chip, values |-> {}, numbers |-> {}, fields |-> {<<r, f>> : f \in fs}] :
               fs \in Groups(DOMAIN b.bits[r], LAMBDA f : Min(b.bits[r][f]))} : r \in registers}

OnLimits(f) ==
  \A u \in {w \in TRANSLATION_MAP_TDS : w.value \in f.values} :
    u.reg = 2 => Min(u.mask) \in 0..3 \cup 28..35 \cup 60..67 \cup 124..127

MCFocuses ==
  ValueFocuses("rocAnalog", DOMAIN ROC_ANALOG_REGISTERS)
    \cup ValueFocuses("rocDigital", {u.reg : u \in TRANSLATION_MAP_ROC_DIGITAL})
    \cup {f \in ValueFocuses("tds", {0, 1, 2, 3, 5, 11, 12, 13, 14, 15}) : OnLimits(f)}
    \cup ValueFocuses("artCore", DOMAIN ART_CORE_REGISTERS)
    \cup ValueFocuses("artPs", 0..13 \cup 60..69)
    \cup FieldFocuses("padTrigger", 0..28 \cup 48..51 \cup {240})
MCContents == {{i \in 0..127 : i % n = 0} : n \in {1, 3}}
=============================================================================
