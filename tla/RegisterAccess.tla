---------------------------- MODULE RegisterAccess ----------------------------
(***************************************************************************)
(* How the code gets at the registers of a chip: ROC and TDS through their *)
(* values, the pad trigger through its sub-registers, the ART through its  *)
(* configuration.  A behaviour is a few calls on a few values (or          *)
(* sub-registers) of one chip, whose registers nothing else changes.       *)
(***************************************************************************)
EXTENDS RocRegisters, TdsRegisters, ArtRegisters, PadTriggerRegisters

CONSTANTS
  Focuses,    \* what a behaviour is about: records [chip, values, numbers, fields],
              \* where each of the numbers has bits for every one of the values
  Numbers(_), \* what is written into n bits of a sub-register
  Contents,   \* what may be in the registers: sets of bits, of which a register has its own
  MaxAccesses \* bound on the calls

VARIABLES
  focus,
  shortened, \* the compiler took the short cut of Ctz
  stored,    \* the configuration: the bits of the registers that are not read-only
  hw,        \* the registers of the chip
  written,   \* what the last successful writeValues wrote, if nothing was written since
  accesses
vars == <<focus, shortened, stored, hw, written, accesses>>

\* The registers of a chip, and with how many bits the code calculates.
Bank(registers, readonly, units, width) ==
  [registers |-> registers, readonly |-> readonly, units |-> units, width |-> width,
   bits |-> [r \in DOMAIN registers |-> Positions(registers[r])],
   size |-> [r \in DOMAIN registers |-> Size(registers[r])]]
BANKS ==
  [rocAnalog  |-> Bank(ROC_ANALOG_REGISTERS, {}, TRANSLATION_MAP_ROC_ANALOG, 32),
   rocDigital |-> Bank(ROC_DIGITAL_REGISTERS, ROC_DIGITAL_READONLY, TRANSLATION_MAP_ROC_DIGITAL, 32),
   tds        |-> Bank(TDS_REGISTERS, TDS_READONLY, TRANSLATION_MAP_TDS, 128),
   artCore    |-> Bank(ART_CORE_REGISTERS, {}, TRANSLATION_MAP_ART_CORE, 32),
   artPs      |-> Bank(ART_PS_REGISTERS, {}, TRANSLATION_MAP_ART_PS, 32),
   padTrigger |-> Bank(PADTRIGGER_REGISTERS, PADTRIGGER_READONLY, {}, 32)]
bank == BANKS[focus.chip]

Registers(b) == DOMAIN b.registers
Writable(b)  == Registers(b) \ b.readonly
RegisterBits(b, r) == UNION {b.bits[r][f] : f \in DOMAIN b.bits[r]}
Content(b, r, content) == RegisterBits(b, r) \cap content

(***************************************************************************)
(* Values: a value has the bits of its sub-registers.                      *)
(***************************************************************************)
UnitSize(b, u)  == IF u.mask = ALL THEN b.size[u.reg] ELSE Cardinality(u.mask)
ValueSize(b, v) == MapThenSumSet(LAMBDA u : UnitSize(b, u), UnitsOf(b.units, v))

Pairs(us) == {<<u.reg, u.field>> : u \in us}

\* readValues of one value.
ReadValue(v) ==
  LET us == UnitsOf(bank.units, v)
      content(p) == LET u == CHOOSE u \in us : p = <<u.reg, u.field>>
                    IN SubRegister(u, hw[u.reg], shortened)
  IN ToValue(us, [p \in Pairs(us) |-> content(p)])

\* All values of the focus at once, or one of them.
Requests ==
  {[v \in vs |-> number[v]] :
     vs \in {focus.values} \cup {{v} : v \in focus.values}, number \in focus.numbers}

ASSUME RegisterAssumption ==
  /\ MaxAccesses \in Nat
  /\ \A f \in Focuses :
       LET b == BANKS[f.chip]
       IN /\ f.chip \in DOMAIN BANKS
          /\ \A v \in f.values : UnitsOf(b.units, v) # {}
          /\ \A v \in f.values, number \in f.numbers :
               number[v] \subseteq 0..ValueSize(b, v) - 1
          /\ \A p \in f.fields :
               /\ p[1] \in Registers(b) /\ p[2] \in DOMAIN b.bits[p[1]]
               /\ LET n == Cardinality(b.bits[p[1]][p[2]])
                  IN Numbers(n) \subseteq SUBSET (0..n - 1)

(***************************************************************************)
(* Calls.                                                                  *)
(***************************************************************************)
NOTHING == [v \in {} |-> {}]
Access  == accesses < MaxAccesses /\ accesses' = accesses + 1 /\ UNCHANGED <<focus, shortened>>

Init ==
  /\ focus \in Focuses
  /\ shortened \in IF focus.chip = "tds" THEN BOOLEAN ELSE {FALSE}
  /\ \E content \in Contents :
       /\ stored = [r \in Writable(bank) |-> Content(bank, r, content)]
       /\ hw = [r \in Registers(bank) |->
                  IF r \in bank.readonly THEN Content(bank, r, content) ELSE {}]
  /\ written = NOTHING
  /\ accesses = 0

\* sendI2cMasterConfig of the whole configuration.  A TDS may be reset
\* afterwards, which takes a copy of the configuration: its resets stay off.
WriteConfiguration ==
  /\ focus.chip # "padTrigger"
  /\ Access
  /\ \E resetTds \in IF focus.chip = "tds" THEN BOOLEAN ELSE {FALSE} :
       hw' = [r \in Registers(bank) |->
                IF r \notin Writable(bank) THEN hw[r]
                ELSE IF resetTds /\ r = 12 THEN SetField(stored[r], bank.bits[r][<<"resets">>], {})
                ELSE stored[r]]
  /\ written' = NOTHING
  /\ UNCHANGED stored

\* I2cMasterConfig::setRegisterValue: a value with too many bits is refused.
SetRegisterValue ==
  /\ Access
  /\ \E p \in focus.fields :
       /\ p[1] \in Writable(bank)
       /\ LET bits == bank.bits[p[1]][p[2]]
          IN \E value \in Numbers(Cardinality(bits)) :
               stored' = [stored EXCEPT ![p[1]] = SetField(@, bits, value)]
  /\ UNCHANGED <<hw, written>>

(***************************************************************************)
(* ROC::writeValues and TDS::writeValues.  Nothing is sent when            *)
(*   - a register is read-only,                                            *)
(*   - what should be written is more than an unsigned int (TDS), or       *)
(*   - a register seems to be set with gaps.                               *)
(***************************************************************************)
Touching(values, r) == {u \in bank.units : u.reg = r /\ u.value \in DOMAIN values}
TouchedBy(values)   == UNION {GetRegsForValue(bank.units, v) : v \in DOMAIN values}
Flat(values, r) ==
  FlatRegister(Touching(values, r), values, stored[r], bank.size[r], bank.width, shortened)
Refused(values) ==
  \/ TouchedBy(values) \cap bank.readonly # {}
  \/ \E r \in TouchedBy(values) \ bank.readonly :
        ~Fits(Flat(values, r), 32) \/ HasGap(Touching(values, r), bank.size[r], bank.width, shortened)

WritesValues == focus.chip \in {"rocAnalog", "rocDigital", "tds"}
WriteValues ==
  /\ WritesValues
  /\ Access
  /\ \E values \in Requests :
       /\ ~Refused(values)
       /\ hw' = [r \in Registers(bank) |->
                   IF r \in TouchedBy(values)
                     THEN BuildPartial(bank.registers[r], Flat(values, r)) ELSE hw[r]]
       /\ written' = values
  /\ UNCHANGED stored

\* PadTrigger::writeSubRegister: read, overwrite the bits, write.  It refuses
\* sub-registers of 32 bits.  Nothing changes a read-only register.
WriteSubRegister ==
  /\ focus.chip = "padTrigger"
  /\ Access
  /\ \E p \in focus.fields :
       LET bits == bank.bits[p[1]][p[2]]
       IN /\ p[1] \in Writable(bank)
          /\ Cardinality(bits) < 32
          /\ \E value \in Numbers(Cardinality(bits)) :
               hw' = [hw EXCEPT ![p[1]] = SetField(@, bits, value)]
  /\ UNCHANGED <<stored, written>>

\* A call that throws sends nothing and keeps nothing.
RefusedCall ==
  /\ Access
  /\ \/ \E p \in focus.fields :
          \/ p[1] \in bank.readonly
          \/ focus.chip = "padTrigger" /\ Cardinality(bank.bits[p[1]][p[2]]) = 32
     \/ \E values \in Requests : WritesValues /\ Refused(values)
  /\ UNCHANGED <<stored, hw, written>>

\* writeRegister (writeFPGARegister) with a whole register; the ROC knows
\* registers that are not used.
WriteRegister ==
  /\ Access
  /\ \E p \in focus.fields, content \in Contents :
       /\ p[1] \in Writable(bank)
       /\ hw' = [hw EXCEPT ![p[1]] = Content(bank, p[1], content)]
  /\ written' = NOTHING
  /\ UNCHANGED stored

Done == accesses = MaxAccesses /\ UNCHANGED vars

Next == WriteConfiguration \/ SetRegisterValue \/ WriteValues \/ WriteSubRegister
          \/ WriteRegister \/ RefusedCall \/ Done
Spec == Init /\ [][Next]_vars

(***************************************************************************)
(* Properties.                                                             *)
(***************************************************************************)
TypeOK ==
  /\ focus.chip \in DOMAIN BANKS /\ shortened \in BOOLEAN /\ accesses \in 0..MaxAccesses
  /\ DOMAIN stored = Writable(bank) /\ DOMAIN hw = Registers(bank)
  /\ \A r \in Registers(bank) : hw[r] \subseteq 0..bank.size[r] - 1
  /\ \A r \in Writable(bank) : stored[r] \subseteq RegisterBits(bank, r)
  /\ DOMAIN written \subseteq focus.values

\* Values the tables translate wrongly, and those of the TDS that are beyond
\* the numbers the code calculates with.
Wrong(chip, v) ==
  \/ v[1] \in {"nullEventEnable", "busyOffLimit"}
  \/ chip = "tds" /\ \E u \in UnitsOf(BANKS[chip].units, v) : ~Fits(u.mask, 32)
Mistranslated(v) == Wrong(focus.chip, v)

\* What the tables say of the other ones: masks are intervals and do not overlap in
\* a register, nor do the parts of a value, which are all of its bits; a mask is
\* the sub-register it names, or is for a register with only one.
Interval(bits) == bits # {} /\ bits \subseteq 0..31 /\ bits = Min(bits)..Max(bits)
\* The bits of its value the register has room for.
Held(b, u)     == {p \in u.part : p - Min(u.part) + Min(u.mask) < b.size[u.reg]}
RightUnit(b, u) ==
  /\ Interval(u.mask) /\ Interval(u.part)
  /\ u.reg \in Registers(b)
  /\ u.mask = ALL \/ u.mask \subseteq 0..b.size[u.reg] - 1
  /\ \A p \in u.part \cap (0..ValueSize(b, u.value) - 1) :
       p - Min(u.part) + Min(u.mask) \in u.mask
  /\ u.field \in DOMAIN b.bits[u.reg] =>
       u.mask \cap (0..b.size[u.reg] - 1) = b.bits[u.reg][u.field]
ASSUME RegisterTables ==
  \A chip \in DOMAIN BANKS :
    LET b     == BANKS[chip]
        right == {u \in b.units : ~Wrong(chip, u.value)}
    IN /\ \A r \in Registers(b) : IsLayout(b.registers[r])
       /\ IsFiniteSet(b.units)
       /\ \A u \in right :
            /\ RightUnit(b, u)
            /\ 0..ValueSize(b, u.value) - 1
                 \subseteq UNION {Held(b, w) : w \in UnitsOf(b.units, u.value)}
            /\ \A w \in right \ {u} :
                 /\ u.reg = w.reg => u.mask \cap w.mask = {}
                 /\ u.value = w.value => u.reg # w.reg /\ Held(b, u) \cap Held(b, w) = {}

\* A value that was written and then read is what was written, also when its
\* bits are in several registers and others' bits in between (ROC::writeValues
\* and readValues, TDS::writeValues and readValues).
ReadsWhatWasWritten ==
  (\A v \in DOMAIN written : ~Mistranslated(v))
    => \A v \in DOMAIN written : ReadValue(v) = written[v]

\* Reading a value gives the content of the sub-registers the tables of the
\* chip say it has: the masks of the translation maps and the sizes of the
\* register tables, two files written by hand, agree.
AgreesWithLayout ==
  \A v \in focus.values :
    LET us == UnitsOf(bank.units, v)
        named == \A u \in us : u.field \in DOMAIN bank.bits[u.reg]
        field(p) == GetField(hw[p[1]], bank.bits[p[1]][p[2]])
    IN named /\ ~Mistranslated(v)
         => ReadValue(v) = ToValue(us, [p \in Pairs(us) |-> field(p)])

\* Writing some values gives no other sub-register of the chip another content
\* than it had or the configuration has (ROC::writeValues, TDS::writeValues).
OwnBits(u) ==
  LET bits == bank.bits[u.reg] IN IF u.field \in DOMAIN bits THEN bits[u.field] ELSE u.mask
LeavesOthersAlone ==
  [][written' # written /\ (\A v \in DOMAIN written' : ~Mistranslated(v)) =>
       \A r \in Registers(bank) :
         LET own == UNION {OwnBits(u) : u \in Touching(written', r)}
         IN \/ written' = NOTHING
            \/ hw'[r] = hw[r]
            \/ \A i \in RegisterBits(bank, r) \ own : (i \in hw'[r] <=> i \in stored[r])]_vars

\* Setting a sub-register, in the configuration or in the FPGA of the pad
\* trigger, changes no bit of another one (I2cMasterConfig::setRegisterValue,
\* PadTrigger::writeSubRegister).
Changed(before, after) ==
  {p \in UNION {{r} \X DOMAIN bank.bits[r] : r \in Writable(bank)} :
     LET bits == bank.bits[p[1]][p[2]]
     IN GetField(before[p[1]], bits) # GetField(after[p[1]], bits)}
SetsOneField ==
  [][/\ Cardinality(Changed(stored, stored')) <= 1
     /\ WriteSubRegister => Cardinality(Changed(hw, hw')) <= 1]_vars
=============================================================================
