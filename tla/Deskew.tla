--------------------------------- MODULE Deskew ---------------------------------
(***************************************************************************)
(* nsw::hw::PadTrigger::deskewPFEBs.  The pad trigger shows, for each of   *)
(* its inputs, the number of the bunch crossing (BC) in which the data of  *)
(* a PFEB arrives.  An input delay moves the data later; the scan gives    *)
(* all inputs the same delay, from 0 to 15, and reads the BCIDs.  From     *)
(* them the delays are chosen with which all PFEBs are in the same BC.     *)
(***************************************************************************)
EXTENDS Integers, Sequences, FiniteSets, TLC, SequencesExt, FiniteSetsExt

CONSTANTS
  PFEBs,      \* inputs looked at, of the 24; the others are disconnected
  Skews,      \* what an input may be: "none", or <<bcid, phase>> without delay
  Existing    \* delays before, a function on PFEBs

NUM_INPUT_DELAYS        == 16
NUM_INPUT_DELAYS_PER_BC == 6
NUM_INPUT_DELAYS_MARGIN == 2
PFEB_BCID_RANGE         == 16
PFEB_BCID_DISCONNECTED  == 5
TARGETPOS               == NUM_INPUT_DELAYS_PER_BC \div 2
DelayRange == 0..NUM_INPUT_DELAYS - 1

ASSUME DeskewAssumption ==
  /\ PFEBs \subseteq 0..23 /\ PFEBs # {}
  /\ \A skew \in Skews : skew = <<>> \/ skew \in (0..PFEB_BCID_RANGE - 1) \X (0..5)
  /\ Existing \in [PFEBs -> DelayRange]

VARIABLES
  scanOnly,   \* DeskewScanOnly()
  skews,      \* of each PFEB; <<>> if it is not connected
  folded,     \* the shift by 32 bits gives 0 in this build, not the value
  stage,      \* "scan", "apply", "done" or "failed"
  delays,     \* the delay registers
  existingDelays,
  bcidPerPfebPerDelay,
  targetBcid
deskewVars == <<scanOnly, skews, folded, stage, delays, existingDelays, bcidPerPfebPerDelay,
                targetBcid>>

(***************************************************************************)
(* The hardware.                                                           *)
(***************************************************************************)
Bcid(skew, delay) ==
  (skew[1] - (delay + skew[2]) \div NUM_INPUT_DELAYS_PER_BC) % PFEB_BCID_RANGE

\* At the first delay of a BC the median of the reads may be the BC before.
Medians(skew, delay) ==
  IF skew = <<>> THEN {PFEB_BCID_DISCONNECTED}
  ELSE {Bcid(skew, delay)} \cup
       (IF (delay + skew[2]) % NUM_INPUT_DELAYS_PER_BC = 0 /\ delay > 0
          THEN {Bcid(skew, delay - 1)} ELSE {})

\* The lowest of the eight values of a word is shifted by 32 bits.
CommonDelay(value) ==
  [p \in PFEBs |-> IF p % 8 = 0 /\ folded THEN 0 ELSE value]

(***************************************************************************)
(* What the scan says.                                                     *)
(***************************************************************************)
NonIncreasing(bcids) == \A i \in 1..Len(bcids) - 1 : bcids[i] >= bcids[i + 1]
rotatePFEBBCIDs(bcids) ==
  [i \in DOMAIN bcids |->
     IF bcids[i] < PFEB_BCID_RANGE \div 2 THEN bcids[i] + PFEB_BCID_RANGE ELSE bcids[i]]

\* A connected PFEB shows several BCIDs, one after the other.
checkPFEBBCIDs(bcids) ==
  /\ \E i \in DOMAIN bcids : bcids[i] # bcids[1]
  /\ NonIncreasing(bcids) \/ NonIncreasing(rotatePFEBBCIDs(bcids))

Count(bcids, bcid) == Cardinality({i \in DOMAIN bcids : bcids[i] = bcid})

ViableOf(bcids) ==
  IF ~checkPFEBBCIDs(bcids) THEN {}
  ELSE {b \in 0..PFEB_BCID_RANGE - 1 :
          Count(bcids, b) >= NUM_INPUT_DELAYS_PER_BC - NUM_INPUT_DELAYS_MARGIN}

\* Viable for all PFEBs that have a viable BCID.
getViableBcids(scan) ==
  LET viablePerPfeb == {ViableOf(scan[p]) : p \in DOMAIN scan} \ {{}}
  IN IF viablePerPfeb = {} THEN {}
     ELSE {b \in 0..PFEB_BCID_RANGE - 1 : \A viable \in viablePerPfeb : b \in viable}

\* Element n / 2 of the sorted delays of all PFEBs.
getMedianDelay(bcid, scan) ==
  LET checked == {p \in DOMAIN scan : checkPFEBBCIDs(scan[p])}
      found   == {at \in checked \X DelayRange : scan[at[1]][at[2] + 1] = bcid}
      upTo(d) == Cardinality({at \in found : at[2] <= d})
  IN IF found = {} THEN 0
     ELSE Min({d \in DelayRange : upTo(d) > Cardinality(found) \div 2})

\* The viable BCID with the smallest median delay, the lowest of them.  With
\* none or too many there is no target, "0xFFFFFFFF" in the code.
NoTarget == -1
getTargetBcid(scan) ==
  LET viable == getViableBcids(scan)
      median == [b \in viable |-> getMedianDelay(b, scan)]
      first  == {b \in viable : \A c \in viable : median[b] <= median[c]}
  IN IF Cardinality(viable) \in 1..3 THEN Min(first) ELSE NoTarget

\* Fault: the delays before the scan are not counted.
getTargetDelay_FromZero(target, bcids) ==
  LET centred == {d \in DelayRange : Count(SubSeq(bcids, 1, d), target) = TARGETPOS}
  IN IF checkPFEBBCIDs(bcids) /\ centred # {} THEN Min(centred) ELSE 0
\* The delay in the middle of the target's BC.  Of a BC that began before the
\* first delay only the end is in the scan.
getTargetDelay(target, bcids) ==
  LET before   == IF bcids[1] = target THEN NUM_INPUT_DELAYS_PER_BC - Count(bcids, target) ELSE 0
      centred  == {d \in DelayRange : before + Count(SubSeq(bcids, 1, d), target) = TARGETPOS}
  IN IF checkPFEBBCIDs(bcids) /\ centred # {} THEN Min(centred) ELSE 0

getTargetDelays(target, scan) == [p \in DOMAIN scan |-> getTargetDelay(target, scan[p])]

(***************************************************************************)
(* deskewPFEBs                                                             *)
(***************************************************************************)
DeskewInit ==
  /\ scanOnly \in BOOLEAN /\ folded \in BOOLEAN
  /\ skews \in [PFEBs -> Skews]
  /\ stage = "scan"
  /\ delays = Existing /\ existingDelays = Existing
  /\ bcidPerPfebPerDelay = [p \in PFEBs |-> <<>>]
  /\ targetBcid = NoTarget

scanned == Len(bcidPerPfebPerDelay[CHOOSE p \in PFEBs : TRUE])
settled == <<scanOnly, skews, folded, existingDelays>>

\* writePFEBCommonDelay, NUM_DESKEW_READS reads and pushBackColumn.
ScanDelay ==
  /\ stage = "scan" /\ scanned < NUM_INPUT_DELAYS
  /\ delays' = CommonDelay(scanned)
  /\ \E column \in {c \in [PFEBs -> 0..PFEB_BCID_RANGE - 1] :
                      \A p \in PFEBs : c[p] \in Medians(skews[p], delays'[p])} :
       bcidPerPfebPerDelay' = [p \in PFEBs |-> Append(bcidPerPfebPerDelay[p], column[p])]
  /\ stage' = IF scanned + 1 = NUM_INPUT_DELAYS THEN "apply" ELSE "scan"
  /\ UNCHANGED <<settled, targetBcid>>

chosenDelays(target) ==
  IF scanOnly THEN existingDelays ELSE getTargetDelays(target, bcidPerPfebPerDelay)

Apply ==
  /\ stage = "apply"
  /\ targetBcid' = getTargetBcid(bcidPerPfebPerDelay)
  /\ delays' = chosenDelays(targetBcid')
  /\ stage' = "done"
  /\ UNCHANGED <<settled, bcidPerPfebPerDelay>>

\* An access throws: the words from 23 downwards are written, some or all.
Interrupt ==
  /\ stage \in {"scan", "apply"}
  /\ targetBcid' = IF stage = "scan" THEN NoTarget ELSE getTargetBcid(bcidPerPfebPerDelay)
  /\ LET new == IF stage = "scan" THEN CommonDelay(scanned) ELSE chosenDelays(targetBcid')
     IN \E written \in {{}, 16..23, 8..23, 0..23} :
          delays' = [p \in PFEBs |-> IF p \in written THEN new[p] ELSE delays[p]]
  /\ stage' = "failed"
  /\ UNCHANGED <<settled, bcidPerPfebPerDelay>>

DeskewNext == ScanDelay \/ Apply \/ Interrupt

DeskewSpec == DeskewInit /\ [][DeskewNext]_deskewVars
-----------------------------------------------------------------------------
DeskewTypeOK ==
  /\ stage \in {"scan", "apply", "done", "failed"}
  /\ delays \in [PFEBs -> DelayRange]
  /\ \A p \in PFEBs : Len(bcidPerPfebPerDelay[p]) <= NUM_INPUT_DELAYS
  /\ stage \in {"apply", "done"} => scanned = NUM_INPUT_DELAYS

\* The delays the scan gave to a PFEB.
Moved(p) == ~(p % 8 = 0 /\ folded)

\* When the deskew ends, a scan only has left the delays as they were; otherwise
\* a BCID that all PFEBs could have is found, if there is one, and every PFEB the
\* scan has moved is in it, and still is if its data comes one delay step earlier
\* or later (PadTrigger.cpp:571-749).
DeskewAligns ==
  stage = "done" =>
    IF scanOnly THEN delays = existingDelays
    ELSE LET connected == {p \in PFEBs : skews[p] # <<>> /\ Moved(p)}
             wide(p)   == {b \in 0..PFEB_BCID_RANGE - 1 :
                             Cardinality({d \in DelayRange : Bcid(skews[p], d) = b}) >= 5}
         IN /\ (\E b \in 0..PFEB_BCID_RANGE - 1 : \A p \in connected : b \in wide(p))
                 /\ connected # {} => targetBcid # NoTarget
            /\ targetBcid # NoTarget =>
                 \A p \in connected : \A d \in {delays[p] - 1, delays[p], delays[p] + 1} :
                   Bcid(skews[p], d) = targetBcid
=============================================================================
