-------------------------- MODULE L1ddcConfiguration --------------------------
(***************************************************************************)
(* configure_gbtx: ConfigSender::sendL1DDCConfig for each L1DDC, one after *)
(* another or in a pool of threads.  A GBTx is given its configuration     *)
(* until the readback shows it, then, if the board asks for it, the one    *)
(* that trains its phase aligners and the one that ends the training.      *)
(*                                                                         *)
(* A fault is an access that throws, a frame the GBTx does not take, or a  *)
(* wrong readback.                                                         *)
(***************************************************************************)
EXTENDS GbtxRegisters, Sequences, FiniteSetsExt

CONSTANTS
  Conf,          \* sequence of [type, block, train, save, gbtx |-> sequence of
                 \* [configure, ec, settings]], one for each board
  MAX_ATTEMPTS,  \* 5 in the code
  MaxThreads,    \* 14 in the code
  Spots,         \* registers whose frame may be lost
  MaxFaults      \* bound on the faults

Boards   == DOMAIN Conf
GBTxs(b) == DOMAIN Conf[b].gbtx
ASSUME ConfAssumption ==
  /\ Len(Conf) \in Nat /\ Boards = 1..Len(Conf)
  /\ \A b \in Boards :
       /\ Conf[b].block \in Nat \ {0} /\ {Conf[b].train, Conf[b].save} \subseteq BOOLEAN
       /\ Len(Conf[b].gbtx) \in 1..3 /\ GBTxs(b) = 1..Len(Conf[b].gbtx)
       /\ \A g \in GBTxs(b) :
            /\ {Conf[b].gbtx[g].configure, Conf[b].gbtx[g].ec} \subseteq BOOLEAN
            /\ DOMAIN Conf[b].gbtx[g].settings \subseteq DOMAIN RegisterMap
            /\ \A name \in DOMAIN Conf[b].gbtx[g].settings :
                 Conf[b].gbtx[g].settings[name] \subseteq Byte
  /\ Spots \subseteq Registers
  /\ {MAX_ATTEMPTS, MaxThreads, MaxFaults} \subseteq Nat \ {0}

VARIABLES
  main,    \* "parallel" or "serial", then "joining", "returned" or "terminated"
  next,    \* board to be started next
  task,    \* state of each board's configuration
  hw,      \* registers held by the GBTxs
  faults   \* the number of faults, the boards that threw and the frames lost
           \* and wrong readbacks of each (history)
vars == <<main, next, task, hw, faults>>

(***************************************************************************)
(* What is sent to each GBTx, as getGBTxBytestream of the configuration    *)
(* and of its copy give it.                                                *)
(***************************************************************************)
Image ==
  [b \in Boards |-> [g \in GBTxs(b) |->
     LET given == SetConfigFromPTree(Conf[b].gbtx[g].settings)
         on    == ResetTo(given, TrainingOn(Conf[b].gbtx[g].ec))
     IN [default |-> given, on |-> on,
         off |-> ResetTo(on, TrainingOff(Conf[b].type, Conf[b].gbtx[g].ec))]]]
FinalImage(b, g) == Image[b][g][IF Conf[b].train THEN "off" ELSE "default"]

\* GBTx 1 is reached over IC, with all registers at once, the others over I2C.
FrameOf ==
  [b \in Boards |-> [g \in GBTxs(b) |-> [spot \in Spots |->
     CHOOSE frame \in Frames(IF g = 1 THEN 1 ELSE Conf[b].block) : spot \in frame]]]
SentBefore(frame) == {r \in Registers : r < Min(frame)}
NumberRead(b, g) ==
  IF g = 1 THEN NUM_GBTX_WRITABLE_REGISTERS
  ELSE LET blocks == ReadBlocks(Conf[b].block)
       IN Cardinality(UNION {blocks[k] : k \in DOMAIN blocks})
AllRead == [b \in Boards |-> [g \in GBTxs(b) |-> NumberRead(b, g) = NUM_GBTX_WRITABLE_REGISTERS]]

\* Fault: only the first half of the registers is compared.
Compared_FirstHalf(bits) == {bit \in bits : bit[1] <= maxConfigRegister \div 2}
Compared(bits) == {bit \in bits : bit[1] <= maxConfigRegister}

(***************************************************************************)
(* The threads.                                                            *)
(***************************************************************************)
Stages == {"waiting", "read", "upload", "check", "phases", "save", "done", "failed"}
Ended(b) == task[b].at \in {"done", "failed"}

\* Fault: a board that failed is never counted out.
active_threads_KeepsFailed == {b \in Boards : task[b].at \notin {"waiting", "done"}}
active_threads == {b \in Boards : task[b].at # "waiting" /\ ~Ended(b)}
\* Fault: one too many.
too_many_threads_OneMore == Cardinality(active_threads) > MaxThreads
too_many_threads == Cardinality(active_threads) >= MaxThreads

\* The first GBTx after the first g that is to be configured; without one the
\* board's phases are saved.
StartNext(b, g) ==
  LET left == {h \in GBTxs(b) : h > g /\ Conf[b].gbtx[h].configure}
  IN IF left # {}
     THEN [at |-> "read", gbtx |-> Min(left), image |-> "default", tries |-> MAX_ATTEMPTS]
     ELSE [at |-> IF Conf[b].save THEN "save" ELSE "done",
           gbtx |-> 0, image |-> "default", tries |-> MAX_ATTEMPTS]

Init ==
  /\ main \in {"parallel", "serial"}
  /\ next = 1
  /\ task = [b \in Boards |-> [at |-> "waiting", gbtx |-> 0, image |-> "default",
                               tries |-> MAX_ATTEMPTS]]
  /\ hw = [b \in Boards |-> [g \in GBTxs(b) |-> {}]]
  /\ faults = [number |-> 0, thrown |-> {}, wrong |-> [b \in Boards |-> 0]]

StartBoard ==
  /\ next <= Len(Conf)
  /\ \/ main = "parallel" /\ ~too_many_threads
     \/ main = "serial" /\ \A b \in 1..next - 1 : task[b].at = "done"
  /\ task' = [task EXCEPT ![next] = StartNext(next, 0)]
  /\ next' = next + 1
  /\ UNCHANGED <<main, hw, faults>>

AllStarted ==
  /\ main = "parallel" /\ next > Len(Conf)
  /\ main' = "joining"
  /\ UNCHANGED <<next, task, hw, faults>>

\* In parallel mode an exception is logged, in serial mode it ends the program.
Return ==
  /\ \/ /\ main = "joining" /\ \A b \in Boards : Ended(b)
        /\ main' = "returned"
     \/ /\ main = "serial" /\ \A b \in Boards : task[b].at = "done"
        /\ main' = "returned"
     \/ /\ main = "serial" /\ \E b \in Boards : task[b].at = "failed"
        /\ main' = "terminated"
  /\ UNCHANGED <<next, task, hw, faults>>

(***************************************************************************)
(* sendL1DDCConfig of a board.                                             *)
(***************************************************************************)
Fails(b) == task' = [task EXCEPT ![b].at = "failed"]
Throws(b) ==
  /\ faults.number < MaxFaults
  /\ faults' = [faults EXCEPT !.number = @ + 1, !.thrown = @ \cup {b}]
  /\ Fails(b)
\* A frame is lost, or a readback is wrong.
Errs(b) ==
  /\ faults.number < MaxFaults
  /\ faults' = [faults EXCEPT !.number = @ + 1, !.wrong[b] = @ + 1]

\* The content read first is only printed.
ReadInitially(b) ==
  /\ task[b].at = "read"
  /\ \/ task' = [task EXCEPT ![b].at = "upload"] /\ UNCHANGED faults
     \/ Throws(b)
  /\ UNCHANGED <<main, next, hw>>

\* The GBTx takes the registers as they are in the image.
Takes(b, g, registers) ==
  LET image == Image[b][g][task[b].image]
  IN hw' = [hw EXCEPT ![b][g] = {bit \in @ : bit[1] \notin registers}
                                  \cup {bit \in image : bit[1] \in registers}]

Upload(b) ==
  LET g == task[b].gbtx
  IN /\ task[b].at = "upload"
     /\ \/ /\ Takes(b, g, Registers)
           /\ task' = [task EXCEPT ![b].at = "check"]
           /\ UNCHANGED faults
        \/ /\ Errs(b)
           /\ \E spot \in Spots : Takes(b, g, Registers \ FrameOf[b][g][spot])
           /\ task' = [task EXCEPT ![b].at = "check"]
        \/ /\ Throws(b)
           /\ \E spot \in Spots : Takes(b, g, SentBefore(FrameOf[b][g][spot]))
     /\ UNCHANGED <<main, next>>

\* After a readback without differences: the training, the phases, the next GBTx.
Confirmed(b) ==
  CASE Conf[b].train /\ task[b].image = "default" ->
         [task[b] EXCEPT !.at = "upload", !.image = "on", !.tries = MAX_ATTEMPTS]
    [] task[b].image = "on" ->
         [task[b] EXCEPT !.at = "upload", !.image = "off", !.tries = MAX_ATTEMPTS]
    [] task[b].image = "off" -> [task[b] EXCEPT !.at = "phases"]
    [] OTHER -> StartNext(b, task[b].gbtx)

\* The readback of a GBTx: after a difference the upload is repeated while tries
\* are left.  The last of them counts as failed whatever it shows.
Agrees(b, g) ==
  /\ AllRead[b][g]
  /\ Compared(hw[b][g]) = Compared(Image[b][g][task[b].image])
\* Fault: the number of tries is decremented once more.
Differs_BelowZero(b) ==
  IF task[b].tries >= 0
  THEN task' = [task EXCEPT ![b].at = "upload", ![b].tries = @ - 1]
  ELSE Fails(b)
Differs(b) ==
  IF task[b].tries > 0
  THEN task' = [task EXCEPT ![b].at = "upload", ![b].tries = @ - 1]
  ELSE Fails(b)
Check(b) ==
  LET g == task[b].gbtx
  IN /\ task[b].at = "check"
     /\ \/ /\ Agrees(b, g)
           /\ IF task[b].tries = 0 THEN Fails(b)
              ELSE task' = [task EXCEPT ![b] = Confirmed(b)]
           /\ UNCHANGED faults
        \/ ~Agrees(b, g) /\ Differs(b) /\ UNCHANGED faults
        \/ Agrees(b, g) /\ Errs(b) /\ Differs(b)
        \/ Throws(b)
     /\ UNCHANGED <<main, next, hw>>

\* Reading the phases of a trained GBTx; writing the phases of a board to a file.
ReadPhases(b) ==
  /\ task[b].at = "phases"
  /\ \/ task' = [task EXCEPT ![b] = StartNext(b, task[b].gbtx)] /\ UNCHANGED faults
     \/ Throws(b)
  /\ UNCHANGED <<main, next, hw>>
Save(b) ==
  /\ task[b].at = "save"
  /\ \/ task' = [task EXCEPT ![b].at = "done"] /\ UNCHANGED faults
     \/ Throws(b)
  /\ UNCHANGED <<main, next, hw>>

Configure(b) == ReadInitially(b) \/ Upload(b) \/ Check(b) \/ ReadPhases(b) \/ Save(b)
Ending ==
  /\ main \in {"returned", "terminated"}
  /\ UNCHANGED vars
Next == StartBoard \/ AllStarted \/ Return \/ Ending \/ \E b \in Boards : Configure(b)
Spec == Init /\ [][Next]_vars
\* Some thread goes on; an upload or a readback returns or throws.
FairSpec == Spec /\ WF_vars(Next)
-----------------------------------------------------------------------------
TypeOK ==
  /\ main \in {"parallel", "serial", "joining", "returned", "terminated"}
  /\ next \in 1..Len(Conf) + 1
  /\ task \in [Boards -> [at : Stages, gbtx : 0..3, image : {"default", "on", "off"},
                          tries : 0..MAX_ATTEMPTS]]
  /\ \A b \in Boards :
       /\ (task[b].at \in {"read", "upload", "check", "phases"}) => task[b].gbtx \in GBTxs(b)
       /\ \A g \in GBTxs(b) : hw[b][g] \subseteq (Registers \X Byte)
  /\ faults \in [number : 0..MaxFaults, thrown : SUBSET Boards, wrong : [Boards -> Nat]]

\* A board whose configuration ended without an exception holds its final
\* configuration in every GBTx that was to be configured, whatever was lost on
\* the way, and none of them is left in training (sendL1DDCConfig,
\* ConfigSender.cpp:441-511).
DoneMeansConfigured ==
  \A b \in Boards : task[b].at = "done" =>
    \A g \in GBTxs(b) : Conf[b].gbtx[g].configure =>
      /\ \A bit \in hw[b][g] \cup FinalImage(b, g) : bit[1] <= maxConfigRegister =>
           (bit \in hw[b][g] <=> bit \in FinalImage(b, g))
      /\ Conf[b].train => \A group \in Groups :
           Copies(<<"paTrainGroup", group>>, Byte) \cap hw[b][g] = {}

\* At most max_threads boards are configured at a time, in serial mode one, and
\* none is when the program ends (configure_gbtx.cpp:18-24, 182-228).
PoolKeepsItsLimit ==
  LET busy == {b \in Boards : task[b].at \notin {"waiting", "done", "failed"}}
  IN /\ Cardinality(busy) <= IF main = "serial" THEN 1 ELSE MaxThreads
     /\ main \in {"returned", "terminated"} => busy = {}

\* A board fails only by an exception of its own or after MAX_ATTEMPTS wrong
\* readbacks or lost frames of its own, whatever happens to the other boards
\* (sendGBTxConfig, ConfigSender.cpp:384-420).
FailuresHaveCauses ==
  \A b \in Boards : task[b].at = "failed" =>
    b \in faults.thrown \/ faults.wrong[b] >= MAX_ATTEMPTS

\* Once the first configuration of a GBTx was read back, no upload of the
\* training, lost, repeated or given up, takes any setting away that is not the
\* training's own (GBTxConfig::reset empties whole registers, GBTxConfig.cpp:45-56).
SettingsSurviveTraining ==
  \A b \in Boards : \A g \in GBTxs(b) :
    LET given == Conf[b].gbtx[g].settings
        kept  == DOMAIN given \ (DOMAIN TrainingOn(TRUE) \cup DOMAIN TrainingOff("mmg", TRUE))
    IN task[b].image # "default" /\ task[b].gbtx = g =>
         \A name \in kept : Copies(name, given[name]) \subseteq hw[b][g]

\* The program ends: no board waits for a free thread forever.
ConfigurationEnds == <>(main \in {"returned", "terminated"})
=============================================================================
