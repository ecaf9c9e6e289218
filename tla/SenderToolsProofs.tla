-------------------------- MODULE SenderToolsProofs --------------------------
(***************************************************************************)
(* The programs that configure boards with a ConfigSender: types, which    *)
(* failures they notice, what is held while they write, and what a board   *)
(* that is done has.                                                       *)
(***************************************************************************)
EXTENDS SenderTools, DeviceProceduresProofs

-----------------------------------------------------------------------------
(* Type correctness.                                                       *)

\* Which functions there are, and the tries of the access in progress, all of
\* which failed.
Tables ==
  /\ todo = [b \in Boards |-> todo[b]]
  /\ board = [b \in Boards |-> board[b]]
  /\ failures \in [Boards -> Nat] /\ faults \in [Boards -> Nat]

\* The boards that are not started yet.
Waiting == \A b \in Boards : next <= b => result[b] = "waiting"

ToolInv == ToolTypeOK /\ Tables /\ Waiting

\* The boards of a program are a sequence, and of one of four kinds.
LEMMA ProgramType ==
  ASSUME ToolTypeOK
  PROVE  /\ Len(program.boards) \in Nat /\ Boards = 1..Len(program.boards)
         /\ \A b \in Boards : Of(b).kind \in {"FEB", "ADDC", "TP", "align"}
<1>1. /\ program.boards \in Seq(Range(program.boards))
      /\ \A given \in Range(program.boards) : given.kind \in {"FEB", "ADDC", "TP", "align"}
  BY ToolAssumption DEF ToolTypeOK
<1>2. Len(program.boards) \in Nat /\ Boards = 1..Len(program.boards)
  BY <1>1, LenProperties DEF Boards
<1>3. \A b \in Boards : Of(b) \in Range(program.boards)
  BY DEF Boards, Of, Range
<1> QED
  BY <1>1, <1>2, <1>3

LEMMA ToolInvInit == ToolInit => ToolInv
<1> SUFFICES ASSUME ToolInit PROVE ToolInv
  OBVIOUS
<1>1. program.boards \in Seq(Range(program.boards))
  BY ToolAssumption DEF ToolInit
<1>2. Len(program.boards) \in Nat
  BY <1>1, LenProperties
<1>3. \A b \in Boards : DOMAIN board[b] = LinesOf(Of(b))
  BY DEF ToolInit
<1>4. Tables
  BY DEF ToolInit, Tables
<1> QED
  BY <1>2, <1>3, <1>4 DEF ToolInit, ToolInv, ToolTypeOK, Waiting

\* Writing changes the value of a line, never the lines there are.
LEMMA EffectLines ==
  ASSUME NEW lines, NEW step, NEW plls
  PROVE  DOMAIN Effect(lines, step, plls) = DOMAIN lines
BY DEF Effect

\* A board that goes on is done when nothing is left.
LEMMA Continues ==
  ASSUME ToolInv, NEW b \in Boards, NEW rest, Continue(b, rest), UNCHANGED program
  PROVE  /\ todo' = [c \in Boards |-> IF c = b THEN rest ELSE todo[c]]
         /\ result' = [c \in Boards |-> IF c = b /\ rest = <<>> THEN "done" ELSE result[c]]
BY DEF Continue, ToolInv, Tables, ToolTypeOK, Boards

\* An exception ends the board or goes to a handler.
LEMMA ThrowKeepsTypes ==
  ASSUME ToolInv, NEW b \in Boards, result[b] = "running", Throws(b), UNCHANGED program
  PROVE  /\ todo' = [c \in Boards |-> todo'[c]]
         /\ result' \in [Boards -> {"waiting", "running", "done", "failed"}]
         /\ \A c \in Boards : result'[c] = "running" <=> todo'[c] # <<>>
         /\ failures' = [failures EXCEPT ![b] = 0]
<1>1. /\ result \in [Boards -> {"waiting", "running", "done", "failed"}]
      /\ \A c \in Boards : result[c] = "running" <=> todo[c] # <<>>
      /\ todo = [c \in Boards |-> todo[c]]
  BY DEF ToolInv, ToolTypeOK, Tables
<1>2. CASE IsCaught(todo[b])
  <2>1. Continue(b, AfterThrow(todo[b]))
    BY <1>2 DEF Throws
  <2> DEFINE rest == AfterThrow(todo[b])
  <2>2. /\ todo' = [c \in Boards |-> IF c = b THEN rest ELSE todo[c]]
        /\ result' = [c \in Boards |-> IF c = b /\ rest = <<>> THEN "done" ELSE result[c]]
    BY <2>1, Continues
  <2> HIDE DEF rest
  <2> QED
    BY <1>1, <2>2 DEF Throws, NoFailures
<1>3. CASE ~IsCaught(todo[b])
  BY <1>1, <1>3 DEF Throws, NoFailures
<1> QED
  BY <1>2, <1>3

LEMMA StartKeepsTypes ==
  ASSUME ToolInv, StartBoard
  PROVE  ToolInv'
<1>1. /\ result \in [Boards -> {"waiting", "running", "done", "failed"}]
      /\ \A c \in Boards : result[c] = "running" <=> todo[c] # <<>>
      /\ todo = [c \in Boards |-> todo[c]] /\ board = [c \in Boards |-> board[c]]
      /\ next \in Boards /\ Boards' = Boards /\ \A c \in Boards : Of(c)' = Of(c)
  BY DEF StartBoard, ToolInv, ToolTypeOK, Tables, Boards, Of
<1> DEFINE all == Procedure(next)
<1>2. /\ todo' = [todo EXCEPT ![next] = all]
      /\ result' = [result EXCEPT ![next] = IF todo'[next] = <<>> THEN "done" ELSE "running"]
      /\ UNCHANGED <<program, main, connected, failures, board, warned, faults, unconnected>>
      /\ next' = next + 1
  BY DEF StartBoard
<1> HIDE DEF all
<1>3. todo'[next] = all /\ todo' = [c \in Boards |-> todo'[c]]
  BY <1>1, <1>2
<1>4. result' \in [Boards -> {"waiting", "running", "done", "failed"}]
  BY <1>1, <1>2
<1>5. \A c \in Boards : result'[c] = "running" <=> todo'[c] # <<>>
  BY <1>1, <1>2, <1>3
<1>6. next' \in 1..Len(program.boards) + 1
  BY <1>1, <1>2, ProgramType DEF ToolInv
<1>7. \A c \in Boards : failures[c] > 0 => todo'[c] # <<>> /\ failures[c] < Tries(Head(todo'[c]))
  <2>1. next <= next
    BY <1>1, ProgramType DEF ToolInv
  <2>2. result[next] = "waiting" /\ todo[next] = <<>>
    BY <1>1, <2>1 DEF ToolInv, Waiting
  <2>3. ~(failures[next] > 0)
    BY <1>1, <2>2 DEF ToolInv, ToolTypeOK
  <2>4. \A c \in Boards : c # next => todo'[c] = todo[c]
    BY <1>1, <1>2
  <2> QED
    BY <2>3, <2>4 DEF ToolInv, ToolTypeOK
<1>8. \A c \in Boards : next' <= c => result'[c] = "waiting"
  <2> SUFFICES ASSUME NEW c \in Boards, next' <= c
               PROVE  result'[c] = "waiting"
    OBVIOUS
  <2>1. next <= c /\ c # next
    BY <1>1, <1>2, ProgramType DEF ToolInv
  <2> QED
    BY <1>1, <1>2, <2>1 DEF ToolInv, Waiting
<1>9. Tables'
  BY <1>1, <1>2, <1>3 DEF ToolInv, Tables
<1>10. ToolTypeOK'
  BY <1>1, <1>2, <1>3, <1>4, <1>5, <1>6, <1>7 DEF ToolInv, ToolTypeOK
<1> QED
  BY <1>1, <1>8, <1>9, <1>10 DEF ToolInv, Waiting

\* Steps of a board leave the program and the boards not started alone.
LEMMA BoardStepKeepsWaiting ==
  ASSUME ToolInv, UNCHANGED memory, NEW b \in Boards, result[b] = "running",
         \A c \in Boards : c # b => result'[c] = result[c]
  PROVE  Waiting'
<1>1. Boards' = Boards /\ next' = next
  BY DEF Boards, memory
<1>2. \A c \in Boards : next <= c => c # b
  BY DEF ToolInv, Waiting
<1> QED
  BY <1>1, <1>2 DEF ToolInv, Waiting

LEMMA StepKeepsTypes ==
  ASSUME ToolInv, NEW b \in Boards, Step(b)
  PROVE  ToolInv'
<1>1. /\ result \in [Boards -> {"waiting", "running", "done", "failed"}]
      /\ \A c \in Boards : result[c] = "running" <=> todo[c] # <<>>
      /\ todo = [c \in Boards |-> todo[c]] /\ board = [c \in Boards |-> board[c]]
      /\ failures \in [Boards -> Nat] /\ faults \in [Boards -> Nat]
  BY DEF ToolInv, ToolTypeOK, Tables
<1>2. /\ UNCHANGED <<program, main, next, faults, unconnected>> /\ result[b] = "running"
      /\ failures' = [failures EXCEPT ![b] = 0]
      /\ Boards' = Boards /\ \A c \in Boards : Of(c)' = Of(c)
  BY DEF Step, memory, NoFailures, Boards, Of
<1>3. PICK rest : Continue(b, rest)
  BY DEF Step
<1>4. /\ todo' = [c \in Boards |-> IF c = b THEN rest ELSE todo[c]]
      /\ result' = [c \in Boards |-> IF c = b /\ rest = <<>> THEN "done" ELSE result[c]]
  BY <1>2, <1>3, Continues
<1>5. board' = [c \in Boards |-> board'[c]] /\ \A c \in Boards : DOMAIN board'[c] = DOMAIN board[c]
  <2>1. \/ board' = board
        \/ board' = [board EXCEPT ![b] = Written(b, Head(todo[b]))]
    BY DEF Step
  <2>2. DOMAIN Written(b, Head(todo[b])) = DOMAIN board[b]
    BY EffectLines DEF Written
  <2> QED
    BY <1>1, <2>1, <2>2
<1>6. connected' \cup warned' \subseteq Boards
  BY DEF Step, ToolInv, ToolTypeOK
<1>7. ToolTypeOK'
  BY <1>1, <1>2, <1>4, <1>5, <1>6 DEF ToolInv, ToolTypeOK
<1>8. Tables'
  BY <1>1, <1>2, <1>4, <1>5 DEF Tables
<1>9. Waiting'
  BY <1>2, <1>4, BoardStepKeepsWaiting DEF memory
<1> QED
  BY <1>7, <1>8, <1>9 DEF ToolInv

LEMMA FaultKeepsTypes ==
  ASSUME ToolInv, NEW b \in Boards, Fault(b)
  PROVE  ToolInv'
<1>1. /\ result \in [Boards -> {"waiting", "running", "done", "failed"}]
      /\ \A c \in Boards : result[c] = "running" <=> todo[c] # <<>>
      /\ todo = [c \in Boards |-> todo[c]] /\ board = [c \in Boards |-> board[c]]
      /\ failures \in [Boards -> Nat] /\ faults \in [Boards -> Nat]
      /\ \A c \in Boards : failures[c] <= faults[c]
      /\ \A c \in Boards : failures[c] > 0 => todo[c] # <<>> /\ failures[c] < Tries(Head(todo[c]))
  BY DEF ToolInv, ToolTypeOK, Tables
<1>2. /\ UNCHANGED <<program, main, next, connected, warned>> /\ result[b] = "running"
      /\ faults' = [faults EXCEPT ![b] = @ + 1]
      /\ unconnected' \in {unconnected, unconnected \cup {b}}
      /\ Boards' = Boards /\ \A c \in Boards : Of(c)' = Of(c)
  BY DEF Fault, memory, Boards, Of
<1>3. board' = [c \in Boards |-> board'[c]] /\ \A c \in Boards : DOMAIN board'[c] = DOMAIN board[c]
  <2>1. \/ board' = board
        \/ board' = [board EXCEPT ![b] = Written(b, Head(todo[b]))]
    BY DEF Fault
  <2>2. DOMAIN Written(b, Head(todo[b])) = DOMAIN board[b]
    BY EffectLines DEF Written
  <2> QED
    BY <1>1, <2>1, <2>2
<1>4. /\ todo' = [c \in Boards |-> todo'[c]]
      /\ result' \in [Boards -> {"waiting", "running", "done", "failed"}]
      /\ \A c \in Boards : result'[c] = "running" <=> todo'[c] # <<>>
      /\ \A c \in Boards : c # b => result'[c] = result[c] /\ todo'[c] = todo[c]
      /\ failures' \in [Boards -> Nat]
      /\ \A c \in Boards : failures'[c] <= faults'[c]
      /\ \A c \in Boards : failures'[c] > 0 => todo'[c] # <<>> /\ failures'[c] < Tries(Head(todo'[c]))
  <2>1. CASE failures[b] + 1 < Tries(Head(todo[b]))
    <3>1. failures' = [failures EXCEPT ![b] = @ + 1] /\ UNCHANGED <<todo, result>>
      BY <2>1 DEF Fault
    <3> QED
      BY <1>1, <1>2, <2>1, <3>1
  <2>2. CASE ~(failures[b] + 1 < Tries(Head(todo[b])))
    <3>1. Throws(b)
      BY <2>2 DEF Fault
    <3>2. /\ todo' = [c \in Boards |-> todo'[c]]
          /\ result' \in [Boards -> {"waiting", "running", "done", "failed"}]
          /\ \A c \in Boards : result'[c] = "running" <=> todo'[c] # <<>>
          /\ failures' = [failures EXCEPT ![b] = 0]
      BY <1>2, <3>1, ThrowKeepsTypes
    <3>3. \A c \in Boards : c # b => result'[c] = result[c] /\ todo'[c] = todo[c]
      BY <1>1, <3>1 DEF Throws, Continue
    <3>4. failures'[b] = 0 /\ failures' \in [Boards -> Nat]
          /\ \A c \in Boards : c # b => failures'[c] = failures[c]
      BY <1>1, <3>2
    <3>5. \A c \in Boards : failures'[c] <= faults'[c]
      BY <1>1, <1>2, <3>4
    <3> QED
      BY <1>1, <3>2, <3>3, <3>4, <3>5
  <2> QED
    BY <2>1, <2>2
<1>5. unconnected' \subseteq Boards
  BY <1>2 DEF ToolInv, ToolTypeOK
<1>6. faults' \in [Boards -> Nat]
  BY <1>1, <1>2
<1>7. \A c \in Boards : DOMAIN board'[c] = LinesOf(Of(c))
  BY <1>3 DEF ToolInv, ToolTypeOK
<1>8. ToolTypeOK'
  <2>1. /\ program' \in Programs
        /\ main' \in {"starting", "returned", "terminated"}
        /\ next' \in 1..Len(program'.boards) + 1
        /\ connected' \cup warned' \subseteq Boards
    BY <1>2 DEF ToolInv, ToolTypeOK
  <2> QED
    BY <1>2, <1>4, <1>5, <1>7, <2>1 DEF ToolTypeOK
<1>9. Tables'
  <2>1. /\ todo' = [c \in Boards' |-> todo'[c]] /\ board' = [c \in Boards' |-> board'[c]]
        /\ failures' \in [Boards' -> Nat] /\ faults' \in [Boards' -> Nat]
    BY <1>2, <1>3, <1>4, <1>6
  <2> QED
    BY <2>1 DEF Tables
<1>10. Waiting'
  BY <1>2, <1>4, BoardStepKeepsWaiting DEF memory
<1> QED
  BY <1>8, <1>9, <1>10 DEF ToolInv

LEMMA RaiseKeepsTypes ==
  ASSUME ToolInv, NEW b \in Boards, RaiseStep(b)
  PROVE  ToolInv'
<1>1. /\ todo = [c \in Boards |-> todo[c]] /\ result = [c \in Boards |-> result[c]]
      /\ failures \in [Boards -> Nat] /\ faults \in [Boards -> Nat]
  BY DEF ToolInv, ToolTypeOK, Tables
<1>2. /\ UNCHANGED <<program, main, next, connected, board, warned, faults, unconnected>>
      /\ result[b] = "running" /\ Throws(b)
      /\ Boards' = Boards /\ \A c \in Boards : Of(c)' = Of(c)
  BY DEF RaiseStep, memory, Boards, Of
<1>3. /\ todo' = [c \in Boards |-> todo'[c]]
      /\ result' \in [Boards -> {"waiting", "running", "done", "failed"}]
      /\ \A c \in Boards : result'[c] = "running" <=> todo'[c] # <<>>
      /\ failures' = [failures EXCEPT ![b] = 0]
  BY <1>2, ThrowKeepsTypes
<1>4. \A c \in Boards : c # b => result'[c] = result[c] /\ todo'[c] = todo[c]
  BY <1>1, <1>2 DEF Throws, Continue
<1>5. ToolTypeOK'
  BY <1>1, <1>2, <1>3, <1>4 DEF ToolInv, ToolTypeOK
<1>6. Tables'
  BY <1>1, <1>2, <1>3 DEF ToolInv, Tables
<1>7. Waiting'
  BY <1>2, <1>4, BoardStepKeepsWaiting DEF memory
<1> QED
  BY <1>5, <1>6, <1>7 DEF ToolInv

LEMMA LockKeepsTypes ==
  ASSUME ToolInv, NEW b \in Boards, Lock(b)
  PROVE  ToolInv'
<1>1. /\ UNCHANGED <<program, main, next, result, connected, todo, failures, warned, faults,
                     unconnected>>
      /\ board' = [board EXCEPT ![b]["pllLocked"] = "yes"]
      /\ Boards' = Boards /\ \A c \in Boards : Of(c)' = Of(c)
  BY DEF Lock, memory, Boards, Of
<1>2. board = [c \in Boards |-> board[c]]
  BY DEF ToolInv, Tables
<1>3. board' = [c \in Boards |-> board'[c]] /\ \A c \in Boards : DOMAIN board'[c] = DOMAIN board[c]
  BY <1>1, <1>2
<1> QED
  BY <1>1, <1>3 DEF ToolInv, ToolTypeOK, Tables, Waiting

LEMMA ToolInvStep == ToolInv /\ [ToolNext]_toolVars => ToolInv'
<1> SUFFICES ASSUME ToolInv, [ToolNext]_toolVars PROVE ToolInv'
  OBVIOUS
<1>1. CASE StartBoard
  BY <1>1, StartKeepsTypes
<1>2. CASE Join
  BY <1>2 DEF Join, ToolInv, ToolTypeOK, Tables, Waiting, Boards, Of
<1>3. CASE Terminate
  BY <1>3 DEF Terminate, ToolInv, ToolTypeOK, Tables, Waiting, Boards, Of
<1>4. ASSUME NEW b \in Boards, Step(b)
      PROVE  ToolInv'
  BY <1>4, StepKeepsTypes
<1>5. ASSUME NEW b \in Boards, Fault(b)
      PROVE  ToolInv'
  BY <1>5, FaultKeepsTypes
<1>6. ASSUME NEW b \in Boards, RaiseStep(b)
      PROVE  ToolInv'
  BY <1>6, RaiseKeepsTypes
<1>7. ASSUME NEW b \in Boards, Lock(b)
      PROVE  ToolInv'
  BY <1>7, LockKeepsTypes
<1>8. CASE UNCHANGED toolVars
  BY <1>8 DEF toolVars, ToolInv, ToolTypeOK, Tables, Waiting, Boards, Of
<1> QED
  BY <1>1, <1>2, <1>3, <1>4, <1>5, <1>6, <1>7, <1>8 DEF ToolNext

\* The variables keep their types, a board runs exactly while it has something
\* to do, and the count of failed tries stays below the tries of the access it
\* is about (ToolTypeOK).
THEOREM TypeCorrect == ToolSpec => []ToolTypeOK
<1>1. ToolInv => ToolTypeOK
  BY DEF ToolInv
<1> QED
  BY <1>1, ToolInvInit, ToolInvStep, PTL DEF ToolSpec

-----------------------------------------------------------------------------
(* Calm procedures: nothing in them throws or reports by itself, and the   *)
(* accesses that have one try are caught at once.                          *)

\* Step i of t; with "may", a problem may be reported.
CalmAt(may, t, i) ==
  /\ t[i].do \notin {"raise", "choose"}
  /\ t[i].do = "warn" => may
  /\ t[i].do = "tell" => i < Len(t) /\ t[i + 1].do = "catch" /\ t[i + 1].ways = {<<>>}
Calm(may, t) == IsSeq(t) /\ \A i \in 1..Len(t) : CalmAt(may, t, i)

LEMMA CalmNothing == ASSUME NEW may PROVE Calm(may, <<>>)
<1>1. IsSeq(<<>>)
  BY EmptySeq DEF IsSeq
<1>2. Len(<<>>) = 0
  OBVIOUS
<1> QED
  BY <1>1, <1>2 DEF Calm

LEMMA CalmConcat ==
  ASSUME NEW may, NEW s, NEW t, Calm(may, s), Calm(may, t)
  PROVE  Calm(may, s \o t)
<1>1. IsSeq(s) /\ IsSeq(t)
  BY DEF Calm
<1>2. /\ IsSeq(s \o t) /\ Len(s) \in Nat /\ Len(t) \in Nat /\ Len(s \o t) = Len(s) + Len(t)
      /\ \A i \in 1..Len(s) : (s \o t)[i] = s[i]
      /\ \A i \in 1..Len(t) : (s \o t)[Len(s) + i] = t[i]
  BY <1>1, Concat
<1>3. ASSUME NEW i \in 1..Len(s)
      PROVE  CalmAt(may, s \o t, i)
  <2>1. CalmAt(may, s, i) /\ (s \o t)[i] = s[i]
    BY <1>2 DEF Calm
  <2>2. i < Len(s) => i < Len(s \o t) /\ (s \o t)[i + 1] = s[i + 1]
    BY <1>2
  <2> QED
    BY <2>1, <2>2 DEF CalmAt
<1>4. ASSUME NEW j \in 1..Len(t)
      PROVE  CalmAt(may, s \o t, Len(s) + j)
  <2> DEFINE i == Len(s) + j
  <2>1. CalmAt(may, t, j) /\ (s \o t)[i] = t[j]
    BY <1>2 DEF Calm
  <2>2. j < Len(t) => i < Len(s \o t) /\ (s \o t)[i + 1] = t[j + 1]
    <3> SUFFICES ASSUME j < Len(t)
                 PROVE  i < Len(s \o t) /\ (s \o t)[i + 1] = t[j + 1]
      OBVIOUS
    <3>1. j + 1 \in 1..Len(t) /\ i + 1 = Len(s) + (j + 1) /\ i < Len(s) + Len(t)
      BY <1>2
    <3> QED
      BY <1>2, <3>1
  <2> QED
    BY <2>1, <2>2 DEF CalmAt
<1>5. ASSUME NEW i \in 1..Len(s \o t)
      PROVE  CalmAt(may, s \o t, i)
  <2>1. CASE i \in 1..Len(s)
    BY <1>3, <2>1
  <2>2. CASE i \notin 1..Len(s)
    <3>1. i - Len(s) \in 1..Len(t) /\ i = Len(s) + (i - Len(s))
      BY <1>2, <2>2
    <3> QED
      BY <1>4, <3>1
  <2> QED
    BY <2>1, <2>2
<1> QED
  BY <1>2, <1>5 DEF Calm

LEMMA CalmStep ==
  ASSUME NEW may, NEW do \in {"write", "read", "await", "connect", "try", "catch"},
         NEW line, NEW value, NEW ways
  PROVE  Calm(may, SingleStep(do, line, value, ways))
<1> DEFINE step == [do |-> do, line |-> line, value |-> value, ways |-> ways]
           p == SingleStep(do, line, value, ways)
<1>1. Alone(p, step) /\ step.do = do
  BY OneStep
<1> HIDE DEF p, step
<1>2. IsSeq(p) /\ Len(p) = 1 /\ p[1].do = do
  BY <1>1 DEF Alone
<1>3. CalmAt(may, p, 1)
  BY <1>2 DEF CalmAt
<1> QED
  BY <1>2, <1>3 DEF Calm, p

LEMMA CalmWarn == Calm(TRUE, Warn)
<1> DEFINE step == [do |-> "warn", line |-> "none", value |-> "none", ways |-> {}]
<1>1. Alone(Warn, step) /\ step.do = "warn"
  BY OneStep DEF Warn
<1> HIDE DEF step
<1>2. IsSeq(Warn) /\ Len(Warn) = 1 /\ Warn[1].do = "warn"
  BY <1>1 DEF Alone
<1>3. \A i \in 1..Len(Warn) : CalmAt(TRUE, Warn, i)
  BY <1>2 DEF CalmAt
<1> QED
  BY <1>2, <1>3 DEF Calm

LEMMA CalmAttempt ==
  ASSUME NEW may, NEW body, NEW handler, Calm(may, body)
  PROVE  Calm(may, Attempt(body, handler))
BY CalmStep, CalmConcat DEF Attempt

LEMMA CalmDo ==
  ASSUME NEW may, NEW ps, Len(ps) \in Nat \ {0}, \A i \in 1..Len(ps) : Calm(may, ps[i])
  PROVE  Calm(may, Do(ps))
<1> SUFFICES ASSUME NEW n \in Nat \ {0}, Len(ps) = n, \A i \in 1..n : Calm(may, ps[i])
             PROVE  Calm(may, Do(ps))
  OBVIOUS
<1> DEFINE f == CHOOSE g : g = [i \in 1..n |-> IF i = 1 THEN ps[i] ELSE g[i-1] \o ps[i]]
<1>1. Do(ps) = f[n]
  BY DEF Do, FlattenSeq
<1>2. Flattens(f, ps, n)
  BY SomeFlattens DEF Flattens
<1> HIDE DEF f
<1> DEFINE bad == {m \in 1..n : ~Calm(may, f[m])}
<1> SUFFICES ASSUME bad # {}
             PROVE  FALSE
  <2>1. n \in 1..n
    OBVIOUS
  <2> QED
    BY <1>1, <2>1
<1>3. bad \in SUBSET Nat
  OBVIOUS
<1>4. PICK m \in bad : \A k \in bad : m <= k
  BY <1>3, LeastNumber
<1>5. m \in 1..n /\ ~Calm(may, f[m])
  OBVIOUS
<1>6. f[m] = IF m = 1 THEN ps[m] ELSE f[m-1] \o ps[m]
  BY <1>2, <1>5 DEF Flattens
<1>7. m # 1 => m - 1 \in 1..n /\ ~(m <= m - 1)
  BY <1>5
<1>8. m # 1 => Calm(may, f[m-1])
  BY <1>4, <1>7
<1> HIDE DEF bad
<1> QED
  BY <1>5, <1>6, <1>8, CalmConcat

\* A free variable that cannot be written is only logged.
LEMMA CalmTell == ASSUME NEW may PROVE Calm(may, WriteFreeVariable)
<1> DEFINE try   == SingleStep("try", "none", "none", {})
           tell  == SingleStep("tell", "none", "none", {})
           catch == SingleStep("catch", "none", "none", {<<>>})
           pair  == tell \o catch
           begun == [do |-> "try", line |-> "none", value |-> "none", ways |-> {}]
           told  == [do |-> "tell", line |-> "none", value |-> "none", ways |-> {}]
           ended == [do |-> "catch", line |-> "none", value |-> "none", ways |-> {<<>>}]
<1>1. Alone(try, begun) /\ begun.do = "try"
  BY OneStep
<1>2. Alone(tell, told) /\ told.do = "tell"
  BY OneStep
<1>3. Alone(catch, ended) /\ ended.do = "catch" /\ ended.ways = {<<>>}
  BY OneStep
<1>4. WriteFreeVariable = try \o tell \o catch
  BY DEF WriteFreeVariable, Attempt, Nothing
<1> HIDE DEF try, tell, catch, begun, told, ended
<1>5. /\ IsSeq(try) /\ IsSeq(tell) /\ IsSeq(catch)
      /\ Len(try) = 1 /\ Len(tell) = 1 /\ Len(catch) = 1
      /\ try[1].do = "try" /\ tell[1].do = "tell"
      /\ catch[1].do = "catch" /\ catch[1].ways = {<<>>}
  BY <1>1, <1>2, <1>3 DEF Alone
<1>6. IsSeq(pair) /\ Len(pair) = 2 /\ pair[1] = tell[1] /\ pair[2] = catch[1]
  <2>1. /\ IsSeq(pair) /\ Len(pair) = Len(tell) + Len(catch)
        /\ \A i \in 1..Len(tell) : pair[i] = tell[i]
        /\ \A i \in 1..Len(catch) : pair[Len(tell) + i] = catch[i]
    BY <1>5, Concat
  <2> HIDE DEF pair
  <2>2. pair[1] = tell[1] /\ pair[1 + 1] = catch[1]
    BY <1>5, <2>1
  <2> QED
    BY <1>5, <2>1, <2>2
<1>7. try \o tell \o catch = try \o pair
  BY <1>5, Associative
<1> HIDE DEF pair
<1>8. CalmAt(may, pair, 1) /\ CalmAt(may, pair, 2) /\ CalmAt(may, try, 1)
  BY <1>5, <1>6 DEF CalmAt
<1>9. (\A i \in 1..Len(pair) : i = 1 \/ i = 2) /\ \A i \in 1..Len(try) : i = 1
  BY <1>5, <1>6
<1>10. Calm(may, pair) /\ Calm(may, try)
  BY <1>5, <1>6, <1>8, <1>9 DEF Calm
<1> QED
  BY <1>4, <1>7, <1>10, CalmConcat

\* What is left of a calm procedure is calm, and its "tell" is caught.
LEMMA CalmRest ==
  ASSUME NEW may, NEW t, Calm(may, t), t # <<>>
  PROVE  /\ Head(t) = t[1] /\ CalmAt(may, t, 1) /\ Calm(may, Tail(t)) /\ <<>> \o Tail(t) = Tail(t)
<1>1. PICK X : t \in Seq(X)
  BY DEF Calm, IsSeq
<1>2. /\ Len(t) \in Nat /\ Len(t) > 0 /\ Head(t) = t[1] /\ Tail(t) \in Seq(X)
      /\ Len(Tail(t)) = Len(t) - 1 /\ \A i \in 1..Len(Tail(t)) : Tail(t)[i] = t[i + 1]
  BY <1>1, HeadTailProperties, EmptySeq, LenProperties
<1>3. ASSUME NEW i \in 1..Len(Tail(t))
      PROVE  CalmAt(may, Tail(t), i)
  <2>1. i + 1 \in 1..Len(t) /\ Tail(t)[i] = t[i + 1]
    BY <1>2
  <2>2. CalmAt(may, t, i + 1)
    BY <2>1 DEF Calm
  <2>3. i + 1 < Len(t) => i < Len(Tail(t)) /\ Tail(t)[i + 1] = t[i + 1 + 1]
    BY <1>2
  <2> QED
    BY <2>1, <2>2, <2>3 DEF CalmAt
<1>4. 1 \in 1..Len(t) /\ IsSeq(Tail(t))
  BY <1>2 DEF IsSeq
<1>5. <<>> \o Tail(t) = Tail(t)
  BY <1>4, Concat
<1> QED
  BY <1>2, <1>3, <1>4, <1>5 DEF Calm

LEMMA CalmThrow ==
  ASSUME NEW may, NEW t, Calm(may, t), t # <<>>, Head(t).do = "tell"
  PROVE  IsCaught(t) /\ Calm(may, AfterThrow(t))
<1>1. PICK X : t \in Seq(X)
  BY DEF Calm, IsSeq
<1>2. Len(t) \in Nat /\ DOMAIN t = 1..Len(t)
  BY <1>1, LenProperties
<1>3. /\ t[1].do = "tell" /\ 1 < Len(t) /\ t[2].do = "catch" /\ t[2].ways = {<<>>}
  <2>1. t[1].do = "tell" /\ CalmAt(may, t, 1)
    BY CalmRest
  <2>2. 1 < Len(t) /\ t[1 + 1].do = "catch" /\ t[1 + 1].ways = {<<>>}
    BY <2>1 DEF CalmAt
  <2> QED
    BY <2>1, <2>2
<1>4. /\ Kind(t, 1, "catch") = {} /\ Kind(t, 1, "try") = {}
      /\ Kind(t, 2, "catch") = {2} /\ Kind(t, 2, "try") = {}
  <2>1. 1..1 = {1} /\ 1..2 = {1, 2}
    OBVIOUS
  <2> QED
    BY <1>3, <2>1 DEF Kind
<1>5. Closed(t, 1) = 0 /\ Closed(t, 2) = 1
  <2>1. Cardinality({}) = 0 /\ Cardinality({2}) = 1
    BY FS_EmptySet, FS_Singleton
  <2>2. /\ Closed(t, 1) = Cardinality(Kind(t, 1, "catch")) - Cardinality(Kind(t, 1, "try"))
        /\ Closed(t, 2) = Cardinality(Kind(t, 2, "catch")) - Cardinality(Kind(t, 2, "try"))
    BY ClosedKinds
  <2>3. Closed(t, 1) = 0 - 0 /\ Closed(t, 2) = 1 - 0
    BY <1>4, <2>1, <2>2
  <2> QED
    BY <2>3
<1>6. 2 \in Handlers(t) /\ 1 \notin Handlers(t) /\ \A i \in Handlers(t) : i \in Nat /\ i > 0
  BY <1>2, <1>3, <1>5 DEF Handlers
<1>7. \A i \in Handlers(t) : 2 <= i
  BY <1>6
<1>8. Min(Handlers(t)) = 2
  <2>1. \A x \in Handlers(t) : (\A y \in Handlers(t) : x <= y) => x = 2
    BY <1>6, <1>7
  <2> QED
    BY <1>6, <1>7, <2>1 DEF Min
<1>9. AfterThrow(t) = <<>> \o SubSeq(t, 3, Len(t))
  <2>1. AfterThrow(t) = (CHOOSE handler \in t[2].ways : TRUE) \o SubSeq(t, 2 + 1, Len(t))
    BY <1>6, <1>8 DEF AfterThrow, IsCaught
  <2>2. (CHOOSE handler \in {<<>>} : TRUE) = <<>>
    OBVIOUS
  <2> QED
    BY <1>3, <2>1, <2>2
<1> DEFINE rest == SubSeq(t, 3, Len(t))
<1>10. /\ rest \in Seq(X) /\ Len(rest) = Len(t) - 2
       /\ \A i \in 1..Len(t) - 2 : rest[i] = t[i + 2]
  <2>1. \A i \in 3..Len(t) : t[i] \in X
    BY <1>1, <1>2, ElementOfSeq
  <2>2. /\ rest \in Seq(X)
        /\ Len(rest) = IF 3 <= Len(t) THEN Len(t) - 3 + 1 ELSE 0
        /\ \A i \in 1..Len(t) - 3 + 1 : rest[i] = t[3 + i - 1]
    BY <1>2, <2>1, SubSeqProperties
  <2> HIDE DEF rest
  <2>3. Len(rest) = Len(t) - 2
    <3>1. Len(t) \in Nat /\ 1 < Len(t) /\ Len(rest) = IF 3 <= Len(t) THEN Len(t) - 3 + 1 ELSE 0
      BY <1>2, <1>3, <2>2
    <3> DEFINE n == Len(t)
    <3>2. n \in Nat /\ 1 < n /\ Len(rest) = IF 3 <= n THEN n - 3 + 1 ELSE 0
      BY <3>1
    <3> HIDE DEF n
    <3>3. n - 3 + 1 = n - 2 /\ (~(3 <= n) => n - 2 = 0)
      BY <3>2
    <3> QED
      BY <3>2, <3>3 DEF n
  <2>4. \A i \in 1..Len(t) - 2 : i \in 1..Len(t) - 3 + 1 /\ 3 + i - 1 = i + 2
    BY <1>2
  <2>5. \A i \in 1..Len(t) - 2 : rest[i] = t[i + 2]
    BY <2>2, <2>4
  <2> QED
    BY <2>2, <2>3, <2>5
<1> HIDE DEF rest
<1>11. ASSUME NEW i \in 1..Len(rest)
       PROVE  CalmAt(may, rest, i)
  <2>1. i + 2 \in 1..Len(t) /\ rest[i] = t[i + 2]
    BY <1>2, <1>3, <1>10
  <2>2. CalmAt(may, t, i + 2)
    BY <2>1 DEF Calm
  <2>3. i + 2 < Len(t) => i < Len(rest) /\ rest[i + 1] = t[i + 2 + 1]
    BY <1>2, <1>3, <1>10
  <2> QED
    BY <2>1, <2>2, <2>3 DEF CalmAt
<1>12. Calm(may, rest) /\ <<>> \o rest = rest
  BY <1>10, <1>11, Concat DEF Calm, IsSeq
<1> QED
  BY <1>6, <1>9, <1>12 DEF IsCaught, rest

\* The accesses.
LEMMA CalmAccess ==
  ASSUME NEW may, NEW line, NEW value
  PROVE  /\ Calm(may, Write(line, value)) /\ Calm(may, Read(line))
         /\ Calm(may, Await(line, value)) /\ Calm(may, AddOpcClientIfNew)
         /\ Calm(may, WriteAll(line, value))
         /\ \A last : Calm(may, Toggle(line, value, last))
<1>1. /\ \A v : Calm(may, Write(line, v))
      /\ Calm(may, Read(line)) /\ Calm(may, Await(line, value)) /\ Calm(may, AddOpcClientIfNew)
  BY CalmStep DEF Write, Read, Await, AddOpcClientIfNew
<1> QED
  BY <1>1, CalmConcat DEF WriteAll, Toggle

LEMMA CalmBank ==
  ASSUME NEW may, NEW bank, NEW own
  PROVE  Calm(may, Do(<<Write(bank, "partial"), Write(own, "configured"),
                        Write(bank, "configured")>>))
<1> DEFINE p1 == Write(bank, "partial")
           p2 == Write(own, "configured")
           p3 == Write(bank, "configured")
           ps == <<p1, p2, p3>>
<1>1. Calm(may, p1) /\ Calm(may, p2) /\ Calm(may, p3)
  BY CalmAccess
<1> HIDE DEF p1, p2, p3
<1>2. Len(ps) = 3 /\ \A i \in 1..3 : Calm(may, ps[i])
  <2>1. \A i \in 1..3 : i = 1 \/ i = 2 \/ i = 3
    OBVIOUS
  <2> QED
    BY <1>1, <2>1
<1> HIDE DEF ps
<1>3. Len(ps) \in Nat \ {0} /\ \A i \in 1..Len(ps) : Calm(may, ps[i])
  BY <1>2
<1>4. Calm(may, Do(ps))
  BY <1>3, CalmDo
<1> QED
  BY <1>4 DEF ps, p1, p2, p3

LEMMA CalmConfigure ==
  ASSUME NEW may
  PROVE  Calm(may, ConfigureAnalog) /\ Calm(may, ConfigureDigital)
BY CalmBank DEF ConfigureAnalog, ConfigureDigital

LEMMA CalmRoc ==
  ASSUME NEW may
  PROVE  Calm(may, SendRocConfig)
<1> DEFINE p1 == Write("coreReset", "active")
           p2 == Write("pllReset", "active")
           p3 == Toggle("sReset", "active", "inactive")
           p4 == ConfigureAnalog
           p5 == Write("pllReset", "inactive")
           p6 == Await("pllLocked", "yes")
           p7 == Write("coreReset", "inactive")
           p8 == ConfigureDigital
           ps == <<p1, p2, p3, p4, p5, p6, p7, p8>>
<1>1. Calm(may, p1) /\ Calm(may, p2) /\ Calm(may, p3) /\ Calm(may, p4) /\ Calm(may, p5) /\ Calm(may, p6) /\ Calm(may, p7) /\ Calm(may, p8)
  BY CalmAccess, CalmConfigure
<1>2. SendRocConfig = Do(ps)
  BY DEF SendRocConfig
<1> HIDE DEF p1, p2, p3, p4, p5, p6, p7, p8
<1>3. Len(ps) = 8 /\ \A i \in 1..8 : Calm(may, ps[i])
  <2>1. \A i \in 1..8 : i = 1 \/ i = 2 \/ i = 3 \/ i = 4 \/ i = 5 \/ i = 6 \/ i = 7 \/ i = 8
    OBVIOUS
  <2> QED
    BY <1>1, <2>1
<1> HIDE DEF ps
<1>4. Len(ps) \in Nat \ {0} /\ \A i \in 1..Len(ps) : Calm(may, ps[i])
  BY <1>3
<1> QED
  BY <1>2, <1>4, CalmDo


\* Front-end boards.
LEMMA CalmVmm ==
  ASSUME NEW may, NEW value
  PROVE  Calm(may, SendVmmConfig(value))
<1> DEFINE p1 == Write("acquisition", "off")
           p2 == SetVmmConfigurationStatusInfoDcs
           p3 == WriteAll("vmms", value)
           p4 == Write("acquisition", "on")
           ps == <<p1, p2, p3, p4>>
<1>1. Calm(may, p1) /\ Calm(may, p2) /\ Calm(may, p3) /\ Calm(may, p4)
  BY CalmAccess, CalmTell DEF SetVmmConfigurationStatusInfoDcs
<1>2. SendVmmConfig(value) = Do(ps)
  BY DEF SendVmmConfig
<1> HIDE DEF p1, p2, p3, p4
<1>3. Len(ps) = 4 /\ \A i \in 1..4 : Calm(may, ps[i])
  <2>1. \A i \in 1..4 : i = 1 \/ i = 2 \/ i = 3 \/ i = 4
    OBVIOUS
  <2> QED
    BY <1>1, <2>1
<1> HIDE DEF ps
<1>4. Len(ps) \in Nat \ {0} /\ \A i \in 1..Len(ps) : Calm(may, ps[i])
  BY <1>3
<1> QED
  BY <1>2, <1>4, CalmDo

LEMMA CalmResetTds ==
  ASSUME NEW may
  PROVE  Calm(may, ResetTds)
<1> DEFINE p1 == Toggle("tdsResets", "pll", "off")
           p2 == Toggle("tdsResets", "logic", "off")
           p3 == Toggle("tdsResets", "serializer", "off")
           p4 == Read("tdss")
           ps == <<p1, p2, p3, p4>>
<1>1. Calm(may, p1) /\ Calm(may, p2) /\ Calm(may, p3) /\ Calm(may, p4)
  BY CalmAccess
<1>2. ResetTds = Do(ps)
  BY DEF ResetTds
<1> HIDE DEF p1, p2, p3, p4
<1>3. Len(ps) = 4 /\ \A i \in 1..4 : Calm(may, ps[i])
  <2>1. \A i \in 1..4 : i = 1 \/ i = 2 \/ i = 3 \/ i = 4
    OBVIOUS
  <2> QED
    BY <1>1, <2>1
<1> HIDE DEF ps
<1>4. Len(ps) \in Nat \ {0} /\ \A i \in 1..Len(ps) : Calm(may, ps[i])
  BY <1>3
<1> QED
  BY <1>2, <1>4, CalmDo

LEMMA CalmTds ==
  ASSUME NEW may, NEW options
  PROVE  Calm(may, SendTdsConfig(options))
<1> DEFINE p1 == Write("tdsPins", "inactive")
           p2 == WriteAll("tdss", "configured")
           p3 == If("resettds" \in options, ResetTds)
           ps == <<p1, p2, p3>>
<1>1. Calm(may, p1) /\ Calm(may, p2) /\ Calm(may, p3)
  BY CalmAccess, CalmResetTds, CalmNothing DEF If
<1>2. SendTdsConfig(options) = Do(ps)
  BY DEF SendTdsConfig
<1> HIDE DEF p1, p2, p3
<1>3. Len(ps) = 3 /\ \A i \in 1..3 : Calm(may, ps[i])
  <2>1. \A i \in 1..3 : i = 1 \/ i = 2 \/ i = 3
    OBVIOUS
  <2> QED
    BY <1>1, <2>1
<1> HIDE DEF ps
<1>4. Len(ps) \in Nat \ {0} /\ \A i \in 1..Len(ps) : Calm(may, ps[i])
  BY <1>3
<1> QED
  BY <1>2, <1>4, CalmDo

LEMMA CalmPulses == ASSUME NEW may PROVE Calm(may, CreatePulses)
<1> DEFINE ps == [pulse \in 1..NUM_TEST_PULSES |-> Toggle("tpInv", "inverted", "straight")]
<1>1. NUM_TEST_PULSES \in Nat \ {0}
  BY SenderAssumption
<1>2. Len(ps) = NUM_TEST_PULSES /\ \A i \in 1..NUM_TEST_PULSES : Calm(may, ps[i])
  <2>1. Calm(may, Toggle("tpInv", "inverted", "straight"))
    BY CalmAccess
  <2> QED
    BY <1>1, <2>1
<1>3. CreatePulses = Do(ps)
  BY DEF CreatePulses
<1> HIDE DEF ps
<1> QED
  BY <1>1, <1>2, <1>3, CalmDo

LEMMA CalmOptions ==
  ASSUME NEW may, NEW options
  PROVE  Calm(may, Do(<<If("roc" \in options, SendRocConfig),
               If("vmm" \in options, ConfigureVmm(options)),
               If("tds" \in options, SendTdsConfig(options)),
               If("readback" \in options, Read("tdss")),
               If("pulses" \in options, CreatePulses)>>))
<1> DEFINE p1 == If("roc" \in options, SendRocConfig)
           p2 == If("vmm" \in options, ConfigureVmm(options))
           p3 == If("tds" \in options, SendTdsConfig(options))
           p4 == If("readback" \in options, Read("tdss"))
           p5 == If("pulses" \in options, CreatePulses)
           ps == <<p1, p2, p3, p4, p5>>
<1>1. Calm(may, p1) /\ Calm(may, p2) /\ Calm(may, p3) /\ Calm(may, p4) /\ Calm(may, p5)
  BY CalmAccess, CalmRoc, CalmVmm, CalmTds, CalmPulses, CalmConcat, CalmNothing DEF If, ConfigureVmm
<1>2. Do(<<If("roc" \in options, SendRocConfig),
               If("vmm" \in options, ConfigureVmm(options)),
               If("tds" \in options, SendTdsConfig(options)),
               If("readback" \in options, Read("tdss")),
               If("pulses" \in options, CreatePulses)>>) = Do(ps)
  BY DEF p1, p2, p3, p4, p5
<1> HIDE DEF p1, p2, p3, p4, p5
<1>3. Len(ps) = 5 /\ \A i \in 1..5 : Calm(may, ps[i])
  <2>1. \A i \in 1..5 : i = 1 \/ i = 2 \/ i = 3 \/ i = 4 \/ i = 5
    OBVIOUS
  <2> QED
    BY <1>1, <2>1
<1> HIDE DEF ps
<1>4. Len(ps) \in Nat \ {0} /\ \A i \in 1..Len(ps) : Calm(may, ps[i])
  BY <1>3
<1> QED
  BY <1>2, <1>4, CalmDo

LEMMA CalmFrontend ==
  ASSUME NEW may, NEW options
  PROVE  Calm(may, ConfigureFrontend(options))
BY CalmOptions, CalmAccess, CalmConcat, CalmNothing DEF ConfigureFrontend, If

\* ADDCs: the stages for one ART, all stages, and the two ARTs.

LEMMA CalmConfigArt ==
  ASSUME NEW may, NEW i
  PROVE  Calm(may, ConfigArt(i))
<1> DEFINE p1 == Write(<<i, "registers">>, "partial")
           p2 == Write(<<i, "mask">>, "configured")
           p3 == Write(<<i, "patterns">>, "configured")
           p4 == Write(<<i, "registers">>, "configured")
           ps == <<p1, p2, p3, p4>>
<1>1. Calm(may, p1) /\ Calm(may, p2) /\ Calm(may, p3) /\ Calm(may, p4)
  BY CalmAccess
<1>2. ConfigArt(i) = Do(ps)
  BY DEF ConfigArt
<1> HIDE DEF p1, p2, p3, p4
<1>3. Len(ps) = 4 /\ \A k \in 1..4 : Calm(may, ps[k])
  <2>1. \A k \in 1..4 : k = 1 \/ k = 2 \/ k = 3 \/ k = 4
    OBVIOUS
  <2> QED
    BY <1>1, <2>1
<1> HIDE DEF ps
<1>4. Len(ps) \in Nat \ {0} /\ \A k \in 1..Len(ps) : Calm(may, ps[k])
  BY <1>3
<1> QED
  BY <1>2, <1>4, CalmDo

LEMMA CalmTrain ==
  ASSUME NEW may, NEW i
  PROVE  Calm(may, TrainGbtx(i))
<1> DEFINE p1 == WriteAll(<<i, "patterns">>, "training")
           p2 == Write(<<i, "trainMode">>, "training")
           p3 == WriteAll(<<i, "eports">>, "training")
           p4 == WriteAll(<<i, "eports">>, "off")
           p5 == WriteAll(<<i, "patterns">>, "configured")
           ps == <<p1, p2, p3, p4, p5>>
<1>1. Calm(may, p1) /\ Calm(may, p2) /\ Calm(may, p3) /\ Calm(may, p4) /\ Calm(may, p5)
  BY CalmAccess
<1>2. TrainGbtx(i) = Do(ps)
  BY DEF TrainGbtx
<1> HIDE DEF p1, p2, p3, p4, p5
<1>3. Len(ps) = 5 /\ \A k \in 1..5 : Calm(may, ps[k])
  <2>1. \A k \in 1..5 : k = 1 \/ k = 2 \/ k = 3 \/ k = 4 \/ k = 5
    OBVIOUS
  <2> QED
    BY <1>1, <2>1
<1> HIDE DEF ps
<1>4. Len(ps) \in Nat \ {0} /\ \A k \in 1..Len(ps) : Calm(may, ps[k])
  BY <1>3
<1> QED
  BY <1>2, <1>4, CalmDo

LEMMA CalmResetArt == ASSUME NEW may, NEW i PROVE Calm(may, ResetArt(i))
<1> DEFINE ps == [pin \in 1..3 |-> Toggle(<<i, "artReset">>, "active", "inactive")]
<1>1. Len(ps) = 3 /\ \A k \in 1..3 : Calm(may, ps[k])
  <2>1. Calm(may, Toggle(<<i, "artReset">>, "active", "inactive"))
    BY CalmAccess
  <2> QED
    BY <2>1
<1>2. ResetArt(i) = Do(ps)
  BY DEF ResetArt
<1> HIDE DEF ps
<1>3. Len(ps) \in Nat \ {0} /\ \A k \in 1..Len(ps) : Calm(may, ps[k])
  BY <1>1
<1> QED
  BY <1>2, <1>3, CalmDo

LEMMA CalmAdjust == ASSUME NEW may, NEW i PROVE Calm(may, AdjustPhase(i))
<1> DEFINE ps == [phase \in 1..5 |-> Write(<<i, "ttcPhase">>, IF phase = 5 THEN "adjusted" ELSE "moved")]
<1>1. Len(ps) = 5 /\ \A k \in 1..5 : Calm(may, ps[k])
  BY CalmAccess
<1>2. AdjustPhase(i) = Do(ps)
  BY DEF AdjustPhase
<1> HIDE DEF ps
<1>3. Len(ps) \in Nat \ {0} /\ \A k \in 1..Len(ps) : Calm(may, ps[k])
  BY <1>1
<1> QED
  BY <1>2, <1>3, CalmDo


LEMMA CalmSingle ==
  ASSUME NEW may, NEW ps, Len(ps) = 1, Calm(may, ps[1])
  PROVE  Calm(may, Do(ps))
<1>1. Len(ps) \in Nat \ {0} /\ \A k \in 1..Len(ps) : Calm(may, ps[k])
  OBVIOUS
<1> QED
  BY <1>1, CalmDo

LEMMA CalmStart ==
  ASSUME NEW may, NEW i
  PROVE  Calm(may, StartAddc(<<i>>))
<1> DEFINE arts == <<i>>
           p1 == Each(arts, InitArt)
           p2 == Each(arts, ResetGbtx)
           p3 == Each(arts, SendGbtx)
           p4 == Each(arts, ResetArt)
           p5 == Each(arts, ConfigArt)
           ps == <<p1, p2, p3, p4, p5>>
<1>1. Calm(may, p1)
  <2> DEFINE qs == [k \in 1..Len(arts) |-> InitArt(arts[k])]
  <2>1. Calm(may, InitArt(i))
    BY CalmAccess DEF InitArt
  <2>2. Len(qs) = 1 /\ Calm(may, qs[1])
    BY <2>1
  <2> HIDE DEF qs
  <2>3. Calm(may, Do(qs))
    BY <2>2, CalmSingle
  <2> QED
    BY <2>3 DEF Each, qs
<1>2. Calm(may, p2)
  <2> DEFINE qs == [k \in 1..Len(arts) |-> ResetGbtx(arts[k])]
  <2>1. Calm(may, ResetGbtx(i))
    BY CalmAccess DEF ResetGbtx
  <2>2. Len(qs) = 1 /\ Calm(may, qs[1])
    BY <2>1
  <2> HIDE DEF qs
  <2>3. Calm(may, Do(qs))
    BY <2>2, CalmSingle
  <2> QED
    BY <2>3 DEF Each, qs
<1>3. Calm(may, p3)
  <2> DEFINE qs == [k \in 1..Len(arts) |-> SendGbtx(arts[k])]
  <2>1. Calm(may, SendGbtx(i))
    BY CalmAccess, CalmConcat DEF SendGbtx
  <2>2. Len(qs) = 1 /\ Calm(may, qs[1])
    BY <2>1
  <2> HIDE DEF qs
  <2>3. Calm(may, Do(qs))
    BY <2>2, CalmSingle
  <2> QED
    BY <2>3 DEF Each, qs
<1>4. Calm(may, p4)
  <2> DEFINE qs == [k \in 1..Len(arts) |-> ResetArt(arts[k])]
  <2>1. Calm(may, ResetArt(i))
    BY CalmResetArt
  <2>2. Len(qs) = 1 /\ Calm(may, qs[1])
    BY <2>1
  <2> HIDE DEF qs
  <2>3. Calm(may, Do(qs))
    BY <2>2, CalmSingle
  <2> QED
    BY <2>3 DEF Each, qs
<1>5. Calm(may, p5)
  <2> DEFINE qs == [k \in 1..Len(arts) |-> ConfigArt(arts[k])]
  <2>1. Calm(may, ConfigArt(i))
    BY CalmConfigArt
  <2>2. Len(qs) = 1 /\ Calm(may, qs[1])
    BY <2>1
  <2> HIDE DEF qs
  <2>3. Calm(may, Do(qs))
    BY <2>2, CalmSingle
  <2> QED
    BY <2>3 DEF Each, qs
<1>6. StartAddc(<<i>>) = Do(ps)
  BY DEF StartAddc
<1> HIDE DEF p1, p2, p3, p4, p5
<1>7. Len(ps) = 5 /\ \A k \in 1..5 : Calm(may, ps[k])
  <2>1. \A k \in 1..5 : k = 1 \/ k = 2 \/ k = 3 \/ k = 4 \/ k = 5
    OBVIOUS
  <2> QED
    BY <1>1, <1>2, <1>3, <1>4, <1>5, <2>1
<1> HIDE DEF ps
<1>8. Len(ps) \in Nat \ {0} /\ \A k \in 1..Len(ps) : Calm(may, ps[k])
  BY <1>7
<1> QED
  BY <1>6, <1>8, CalmDo

LEMMA CalmAlign ==
  ASSUME NEW may, NEW i, NEW settings
  PROVE  Calm(may, AlignAddc(<<i>>, settings))
<1> DEFINE arts == <<i>>
           Failsafe(k) == FailsafeMode(k, settings)
           p1 == Each(arts, MaskArt)
           p2 == Each(arts, TrainGbtx)
           p3 == Each(arts, Failsafe)
           p4 == Each(arts, UnmaskArt)
           p5 == Each(arts, AdjustPhase)
           ps == <<p1, p2, p3, p4, p5>>
<1>1. Calm(may, p1)
  <2> DEFINE qs == [k \in 1..Len(arts) |-> MaskArt(arts[k])]
  <2>1. Calm(may, MaskArt(i))
    BY CalmAccess DEF MaskArt
  <2>2. Len(qs) = 1 /\ Calm(may, qs[1])
    BY <2>1
  <2> HIDE DEF qs
  <2>3. Calm(may, Do(qs))
    BY <2>2, CalmSingle
  <2> QED
    BY <2>3 DEF Each, qs
<1>2. Calm(may, p2)
  <2> DEFINE qs == [k \in 1..Len(arts) |-> TrainGbtx(arts[k])]
  <2>1. Calm(may, TrainGbtx(i))
    BY CalmTrain
  <2>2. Len(qs) = 1 /\ Calm(may, qs[1])
    BY <2>1
  <2> HIDE DEF qs
  <2>3. Calm(may, Do(qs))
    BY <2>2, CalmSingle
  <2> QED
    BY <2>3 DEF Each, qs
<1>3. Calm(may, p3)
  <2> DEFINE qs == [k \in 1..Len(arts) |-> Failsafe(arts[k])]
  <2>1. Calm(may, Failsafe(i))
    BY CalmAccess DEF FailsafeMode
  <2>2. Len(qs) = 1 /\ Calm(may, qs[1])
    BY <2>1
  <2> HIDE DEF qs
  <2>3. Calm(may, Do(qs))
    BY <2>2, CalmSingle
  <2> QED
    BY <2>3 DEF Each, qs
<1>4. Calm(may, p4)
  <2> DEFINE qs == [k \in 1..Len(arts) |-> UnmaskArt(arts[k])]
  <2>1. Calm(may, UnmaskArt(i))
    BY CalmAccess DEF UnmaskArt
  <2>2. Len(qs) = 1 /\ Calm(may, qs[1])
    BY <2>1
  <2> HIDE DEF qs
  <2>3. Calm(may, Do(qs))
    BY <2>2, CalmSingle
  <2> QED
    BY <2>3 DEF Each, qs
<1>5. Calm(may, p5)
  <2> DEFINE qs == [k \in 1..Len(arts) |-> AdjustPhase(arts[k])]
  <2>1. Calm(may, AdjustPhase(i))
    BY CalmAdjust
  <2>2. Len(qs) = 1 /\ Calm(may, qs[1])
    BY <2>1
  <2> HIDE DEF qs
  <2>3. Calm(may, Do(qs))
    BY <2>2, CalmSingle
  <2> QED
    BY <2>3 DEF Each, qs
<1>6. AlignAddc(<<i>>, settings) = Do(ps)
  BY DEF AlignAddc
<1> HIDE DEF p1, p2, p3, p4, p5
<1>7. Len(ps) = 5 /\ \A k \in 1..5 : Calm(may, ps[k])
  <2>1. \A k \in 1..5 : k = 1 \/ k = 2 \/ k = 3 \/ k = 4 \/ k = 5
    OBVIOUS
  <2> QED
    BY <1>1, <1>2, <1>3, <1>4, <1>5, <2>1
<1> HIDE DEF ps
<1>8. Len(ps) \in Nat \ {0} /\ \A k \in 1..Len(ps) : Calm(may, ps[k])
  BY <1>7
<1> QED
  BY <1>6, <1>8, CalmDo

LEMMA CalmAddc ==
  ASSUME NEW may, NEW skip, NEW must, NEW settings, skip # {} => may = TRUE
  PROVE  Calm(may, ConfigureAddc(skip, must, settings))
<1> DEFINE art(i) ==
             IF i \in skip THEN Warn
             ELSE Attempt(AddOpcClientIfNew \o SendAddcConfig(<<i>>, settings),
                          IF i \in must THEN Raise ELSE Warn)
<1>1. ASSUME NEW i
      PROVE  Calm(may, art(i))
  <2>1. CASE i \in skip
    BY <2>1, CalmWarn
  <2>2. CASE i \notin skip
    <3>1. Calm(may, AddOpcClientIfNew \o SendAddcConfig(<<i>>, settings))
      BY CalmAccess, CalmStart, CalmAlign, CalmConcat DEF SendAddcConfig
    <3> QED
      BY <2>2, <3>1, CalmAttempt
  <2> QED
    BY <2>1, <2>2
<1>2. ConfigureAddc(skip, must, settings) = art(0) \o art(1)
  BY DEF ConfigureAddc
<1> HIDE DEF art
<1> QED
  BY <1>1, <1>2, CalmConcat

\* The trigger processor.
LEMMA CalmTp ==
  ASSUME NEW may, NEW unset, NEW skipped
  PROVE  Calm(may, SendTpConfig(unset, skipped))
<1> DEFINE all == Required \o Optional
           sent(r) == r \notin skipped /\ (r \in Range(Optional) => r \notin unset)
           Send(r) == IF r = "L1A_CONTROL" THEN Toggle(r, "reset", "configured")
                      ELSE Write(r, "configured")
           ps == [k \in 1..Len(all) |-> If(sent(all[k]), Send(all[k]))]
<1>1. SendTpConfig(unset, skipped) = Do(ps)
  BY DEF SendTpConfig
<1>2. Len(all) = 14
  <2> DEFINE X == {"ADDC_EMU_DISABLE", "L1A_OPENING_OFFSET", "L1A_REQUEST_OFFSET",
                   "L1A_CLOSING_OFFSET", "L1A_TIMEOUT_WINDOW", "L1A_CONTROL",
                   "FIBER_BC_OFFSET", "INPUT_PHASE", "HORX_ENV_MON_ADDR"}
             Y == {"INPUT_PHASEADDCOFFSET", "SELFTRIGGER_DELAY", "VMM_MASK_HOT_THRESH",
                   "VMM_MASK_HOT_THRESH_HYST", "VMM_MASK_DRAIN_PERIOD"}
  <2>1. Required \in Seq(X) /\ Len(Required) = 9
    BY DEF Required
  <2>2. Optional \in Seq(Y) /\ Len(Optional) = 5
    BY DEF Optional
  <2> HIDE DEF X, Y
  <2>3. IsSeq(Required) /\ IsSeq(Optional)
    BY <2>1, <2>2 DEF IsSeq
  <2>4. Len(all) = Len(Required) + Len(Optional)
    BY <2>3, Concat
  <2> HIDE DEF all
  <2> QED
    BY <2>1, <2>2, <2>4
<1> HIDE DEF all
<1>3. \A r : Calm(may, Send(r))
  BY CalmAccess
<1> HIDE DEF Send
<1>4. \A r : Calm(may, If(sent(r), Send(r)))
  BY <1>3, CalmNothing DEF If
<1> HIDE DEF sent
<1>5. Len(ps) = 14 /\ \A k \in 1..14 : Calm(may, ps[k])
  BY <1>2, <1>4
<1> HIDE DEF ps
<1>6. Len(ps) \in Nat \ {0} /\ \A k \in 1..Len(ps) : Calm(may, ps[k])
  BY <1>5
<1> QED
  BY <1>1, <1>6, CalmDo


-----------------------------------------------------------------------------
(* Quiet procedures: nothing in them reports or catches anything, also in  *)
(* what follows a choice.                                                  *)

Continuations(step) == IF step.do = "choose" THEN step.ways ELSE {<<>>}
Serene(K) ==
  \A t \in K :
    /\ IsSeq(t) /\ \A i \in 1..Len(t) : t[i].do \notin {"catch", "warn"}
    /\ t # <<>> => \A way \in Continuations(Head(t)) : way \o Tail(t) \in K
Quiet(t) == \E K : Serene(K) /\ t \in K

LEMMA QuietNothing == Quiet(<<>>)
<1>1. IsSeq(<<>>)
  BY EmptySeq DEF IsSeq
<1>2. Len(<<>>) = 0
  OBVIOUS
<1>3. Serene({<<>>})
  BY <1>1, <1>2 DEF Serene
<1> QED
  BY <1>3 DEF Quiet

LEMMA QuietStep ==
  ASSUME NEW do \in {"write", "read", "settle", "connect", "raise"},
         NEW line, NEW value, NEW ways, NEW t, Quiet(t)
  PROVE  Quiet(SingleStep(do, line, value, ways) \o t)
<1> DEFINE step == [do |-> do, line |-> line, value |-> value, ways |-> ways]
           p == SingleStep(do, line, value, ways)
<1>1. Alone(p, step) /\ step.do = do
  BY OneStep
<1> HIDE DEF step, p
<1>2. PICK K : Serene(K) /\ t \in K
  BY DEF Quiet
<1> DEFINE u == p \o t
<1>3. IsSeq(t) /\ \A i \in 1..Len(t) : t[i].do \notin {"catch", "warn"}
  BY <1>2 DEF Serene
<1>4. IsSeq(p) /\ Len(p) = 1 /\ p # <<>> /\ p[1] = step /\ Head(p) = step /\ Tail(p) = <<>>
  BY <1>1 DEF Alone
<1>5. /\ IsSeq(u) /\ Len(t) \in Nat /\ Len(u) = 1 + Len(t)
      /\ \A i \in 1..1 : u[i] = p[i]
      /\ \A i \in 1..Len(t) : u[1 + i] = t[i]
      /\ Head(u) = step /\ Tail(u) = t
  <2>0. IsSeq(p) /\ IsSeq(t) /\ p # <<>>
    BY <1>3, <1>4
  <2>1. /\ IsSeq(u) /\ Len(t) \in Nat /\ Len(u) = Len(p) + Len(t)
        /\ \A i \in 1..Len(p) : u[i] = p[i]
        /\ \A i \in 1..Len(t) : u[Len(p) + i] = t[i]
        /\ Head(u) = Head(p) /\ Tail(u) = Tail(p) \o t
    BY <2>0, Concat
  <2>2. <<>> \o t = t
    BY <1>3, Concat
  <2> HIDE DEF u
  <2> QED
    BY <1>4, <2>1, <2>2
<1> HIDE DEF u
<1>6. ASSUME NEW i \in 1..Len(u)
      PROVE  u[i].do \notin {"catch", "warn"}
  <2>1. CASE i = 1
    BY <1>1, <1>4, <1>5, <2>1
  <2>2. CASE i # 1
    <3>1. i - 1 \in 1..Len(t) /\ 1 + (i - 1) = i
      BY <1>5, <2>2
    <3> QED
      BY <1>3, <1>5, <3>1
  <2> QED
    BY <2>1, <2>2
<1>7. \A way \in Continuations(Head(u)) : way \o Tail(u) \in K
  <2>1. Continuations(Head(u)) = {<<>>}
    BY <1>1, <1>5 DEF Continuations
  <2>2. <<>> \o t = t
    BY <1>3, Concat
  <2> QED
    BY <1>2, <1>5, <2>1, <2>2
<1>8. Serene(K \cup {u})
  BY <1>2, <1>5, <1>6, <1>7 DEF Serene
<1> QED
  BY <1>8 DEF Quiet, u, p

LEMMA QuietChoose ==
  ASSUME NEW ways, \A way \in ways : Quiet(way)
  PROVE  Quiet(Choose(ways))
<1> DEFINE step == [do |-> "choose", line |-> "none", value |-> "none", ways |-> ways]
           p == Choose(ways)
           Of1(way) == CHOOSE K : Serene(K) /\ way \in K
           K1 == UNION {Of1(way) : way \in ways}
<1>1. Alone(p, step) /\ step.do = "choose" /\ step.ways = ways
  BY OneStep DEF Choose
<1>2. \A way \in ways : Serene(Of1(way)) /\ way \in Of1(way)
  BY DEF Quiet
<1> HIDE DEF step, p, Of1
<1>3. \A way \in ways : way \in K1
  BY <1>2
<1>4. Serene(K1)
  BY <1>2 DEF Serene
<1> HIDE DEF K1
<1>5. IsSeq(p) /\ Len(p) = 1 /\ p # <<>> /\ p[1] = step /\ Head(p) = step /\ Tail(p) = <<>>
  BY <1>1 DEF Alone
<1>6. \A way \in ways : way \o <<>> = way
  <2>1. \A way \in ways : IsSeq(way)
    BY <1>3, <1>4 DEF Serene
  <2>2. IsSeq(<<>>)
    BY EmptySeq DEF IsSeq
  <2> QED
    BY <2>1, <2>2, Concat
<1>7. \A way \in Continuations(Head(p)) : way \o Tail(p) \in K1
  BY <1>1, <1>3, <1>5, <1>6 DEF Continuations
<1>8. \A i \in 1..Len(p) : p[i].do = "choose"
  BY <1>1, <1>5
<1>9. Serene(K1 \cup {p})
  BY <1>4, <1>5, <1>7, <1>8 DEF Serene
<1> QED
  BY <1>9 DEF Quiet, p

\* One reading of the alignment, then what it leads to.
Reading(quads, p) ==
  Write("scaxAddress", {"fibers"})
    \o Choose({Settle("fibers", good) \o Read("fibers")
                 \o (IF good = quads THEN Nothing
                     ELSE Write("qpllReset", QpllReset(quads \ good, quads))
                            \o Write("qpllReset", {}) \o p) : good \in SUBSET quads})
Aligning(f, quads, first) ==
  f = [resets \in first..FIBER_ALIGN_ATTEMPTS + 1 |->
         IF resets > FIBER_ALIGN_ATTEMPTS THEN Raise ELSE Reading(quads, f[resets + 1])]

LEMMA SomeAligning ==
  ASSUME NEW quads
  PROVE  \E f : Aligning(f, quads, 0)
<1> DEFINE F == FIBER_ALIGN_ATTEMPTS
           bad == {n \in Nat : n <= F + 1 /\ ~ \E f : Aligning(f, quads, F + 1 - n)}
<1>1. F \in Nat /\ FIBER_ALIGN_ATTEMPTS = F
  BY SenderAssumption
<1> HIDE DEF F
<1> SUFFICES ASSUME bad # {}
             PROVE  FALSE
  <2>1. F + 1 \in Nat /\ F + 1 <= F + 1 /\ F + 1 - (F + 1) = 0
    BY <1>1
  <2> QED
    BY <2>1
<1>2. bad \in SUBSET Nat
  OBVIOUS
<1>3. PICK n \in bad : \A k \in bad : n <= k
  BY <1>2, LeastNumber
<1>4. n \in Nat /\ n <= F + 1 /\ ~ \E f : Aligning(f, quads, F + 1 - n)
  OBVIOUS
<1>5. CASE n = 0
  <2> DEFINE g == [resets \in F + 1 .. F + 1 |-> Raise]
  <2>1. g = [resets \in F + 1 .. F + 1 |-> IF resets > F THEN Raise ELSE Reading(quads, g[resets + 1])]
    <3>1. \A resets \in F + 1 .. F + 1 : resets > F
      BY <1>1
    <3> QED
      BY <3>1
  <2> HIDE DEF g
  <2>2. F + 1 - n = F + 1
    BY <1>1, <1>5
  <2>3. Aligning(g, quads, F + 1 - n)
    BY <1>1, <2>1, <2>2 DEF Aligning
  <2> QED
    BY <1>4, <2>3
<1>6. CASE n # 0
  <2> DEFINE m == F + 1 - n
  <2>1. n - 1 \in Nat /\ n - 1 <= F + 1 /\ ~(n <= n - 1) /\ F + 1 - (n - 1) = m + 1
        /\ m \in Nat /\ m <= F
    BY <1>1, <1>4, <1>6
  <2>2. n - 1 \notin bad
    BY <1>3, <2>1
  <2>3. PICK h : Aligning(h, quads, m + 1)
    BY <2>1, <2>2
  <2> HIDE DEF m
  <2>4. h = [resets \in m + 1 .. F + 1 |->
               IF resets > F THEN Raise ELSE Reading(quads, h[resets + 1])]
    BY <1>1, <2>3 DEF Aligning
  <2> DEFINE last == Reading(quads, h[m + 1])
             g == [resets \in m .. F + 1 |-> IF resets = m THEN last ELSE h[resets]]
  <2> HIDE DEF last
  <2>5. ASSUME NEW r \in m .. F + 1
        PROVE  g[r] = IF r > F THEN Raise ELSE Reading(quads, g[r + 1])
    <3>1. CASE r = m
      <4>1. m + 1 \in m .. F + 1 /\ m + 1 # m /\ m \in m .. F + 1 /\ ~(m > F)
        BY <1>1, <2>1
      <4>2. g[m] = last /\ g[m + 1] = h[m + 1]
        BY <4>1
      <4> QED
        BY <3>1, <4>1, <4>2 DEF last
    <3>2. CASE r # m
      <4>1. r \in m + 1 .. F + 1
        BY <1>1, <2>1, <3>2
      <4>2. g[r] = h[r] /\ h[r] = IF r > F THEN Raise ELSE Reading(quads, h[r + 1])
        BY <2>4, <3>2, <4>1
      <4>3. ~(r > F) => r + 1 \in m .. F + 1 /\ r + 1 # m
        BY <1>1, <2>1, <4>1
      <4>4. ~(r > F) => g[r + 1] = h[r + 1]
        BY <4>3
      <4> QED
        BY <4>2, <4>4
    <3> QED
      BY <3>1, <3>2
  <2>6. g = [resets \in m .. F + 1 |-> g[resets]]
    OBVIOUS
  <2> HIDE DEF g
  <2>7. g = [resets \in m .. F + 1 |-> IF resets > F THEN Raise ELSE Reading(quads, g[resets + 1])]
    BY <2>5, <2>6
  <2>8. Aligning(g, quads, m)
    BY <1>1, <2>7 DEF Aligning
  <2> QED
    BY <1>4, <2>8 DEF m
<1> QED
  BY <1>5, <1>6

LEMMA QuietReading ==
  ASSUME NEW quads, NEW p, Quiet(p)
  PROVE  Quiet(Reading(quads, p))
<1> DEFINE then(good) == IF good = quads THEN Nothing
                         ELSE Write("qpllReset", QpllReset(quads \ good, quads))
                                \o Write("qpllReset", {}) \o p
           way(good) == Settle("fibers", good) \o Read("fibers") \o then(good)
           ways == {way(good) : good \in SUBSET quads}
<1>1. ASSUME NEW good
      PROVE  Quiet(then(good))
  <2> DEFINE a == Write("qpllReset", QpllReset(quads \ good, quads))
             c == Write("qpllReset", {})
  <2>1. IsSeq(a) /\ IsSeq(c) /\ IsSeq(p)
    BY OneStep DEF Write, Alone, Quiet, Serene
  <2>2. (a \o c) \o p = a \o (c \o p)
    BY <2>1, Associative
  <2>3. Quiet(a \o (c \o p))
    BY QuietStep DEF Write
  <2> QED
    BY <2>2, <2>3, QuietNothing DEF Nothing
<1>2. ASSUME NEW good
      PROVE  Quiet(way(good))
  <2> DEFINE a == Settle("fibers", good)
             c == Read("fibers")
             q == then(good)
  <2>0. Quiet(q)
    BY <1>1
  <2> HIDE DEF q
  <2>1. IsSeq(a) /\ IsSeq(c) /\ IsSeq(q)
    BY <2>0, OneStep DEF Settle, Read, Alone, Quiet, Serene
  <2>2. (a \o c) \o q = a \o (c \o q)
    BY <2>1, Associative
  <2>3. Quiet(a \o (c \o q))
    BY <2>0, QuietStep DEF Settle, Read
  <2> QED
    BY <2>2, <2>3 DEF q
<1> HIDE DEF way
<1>3. Quiet(Choose(ways))
  BY <1>2, QuietChoose
<1>4. Reading(quads, p) = Write("scaxAddress", {"fibers"}) \o Choose(ways)
  BY DEF Reading, way
<1> HIDE DEF ways
<1> QED
  BY <1>3, <1>4, QuietStep DEF Write

LEMMA QuietAligning ==
  ASSUME NEW quads, NEW f, Aligning(f, quads, 0)
  PROVE  Quiet(f[0])
<1> DEFINE F == FIBER_ALIGN_ATTEMPTS
           bad == {n \in Nat : n <= F + 1 /\ ~Quiet(f[F + 1 - n])}
<1>1. F \in Nat /\ FIBER_ALIGN_ATTEMPTS = F
  BY SenderAssumption
<1> HIDE DEF F
<1> SUFFICES ASSUME bad # {}
             PROVE  FALSE
  <2>1. F + 1 \in Nat /\ F + 1 <= F + 1 /\ F + 1 - (F + 1) = 0
    BY <1>1
  <2> QED
    BY <2>1
<1>2. bad \in SUBSET Nat
  OBVIOUS
<1>3. PICK n \in bad : \A k \in bad : n <= k
  BY <1>2, LeastNumber
<1>4. n \in Nat /\ n <= F + 1 /\ ~Quiet(f[F + 1 - n])
  OBVIOUS
<1> DEFINE m == F + 1 - n
<1>5. m \in 0..F + 1
  BY <1>1, <1>4
<1>6. f[m] = IF m > F THEN Raise ELSE Reading(quads, f[m + 1])
  BY <1>1, <1>5 DEF Aligning
<1>7. CASE n = 0
  <2>1. m > F
    BY <1>1, <1>7
  <2>2. Raise \o <<>> = Raise
    BY OneStep, Concat, EmptySeq DEF Raise, Alone, IsSeq
  <2>3. Quiet(Raise \o <<>>)
    BY QuietNothing, QuietStep DEF Raise
  <2> QED
    BY <1>4, <1>6, <2>1, <2>2, <2>3
<1>8. CASE n # 0
  <2>1. n - 1 \in Nat /\ n - 1 <= F + 1 /\ ~(n <= n - 1) /\ F + 1 - (n - 1) = m + 1 /\ ~(m > F)
    BY <1>1, <1>4, <1>8
  <2>2. n - 1 \notin bad
    BY <1>3, <2>1
  <2>3. Quiet(f[m + 1])
    BY <2>1, <2>2
  <2> HIDE DEF m
  <2> QED
    BY <1>4, <1>6, <2>1, <2>3, QuietReading DEF m
<1> QED
  BY <1>7, <1>8

LEMMA QuietAlign == ASSUME NEW quads PROVE Quiet(AddOpcClientIfNew \o AlignArtGbtxMmtp(quads))
<1> DEFINE f == CHOOSE g : g = [resets \in 0..FIBER_ALIGN_ATTEMPTS + 1 |->
                  IF resets > FIBER_ALIGN_ATTEMPTS THEN Raise ELSE Reading(quads, g[resets + 1])]
<1>1. AlignArtGbtxMmtp(quads) = If(quads # {}, f[0])
  BY DEF AlignArtGbtxMmtp, ReadScaxRegisterWord, SendScaxRegister, Reading
<1>2. Aligning(f, quads, 0)
  BY SomeAligning DEF Aligning
<1> HIDE DEF f
<1>3. Quiet(AlignArtGbtxMmtp(quads))
  BY <1>1, <1>2, QuietAligning, QuietNothing DEF If
<1> QED
  BY <1>3, QuietStep DEF AddOpcClientIfNew

-----------------------------------------------------------------------------
(* Which failures the boards notice.                                       *)

\* An ADDC is reported without a failure if an ART is to be skipped.
MayReport(given) == IF given.kind = "ADDC" /\ given.skip # {} THEN TRUE ELSE FALSE
Gentle(given, t) == IF given.kind = "align" THEN Quiet(t) ELSE Calm(MayReport(given), t)

\* Too few accesses of a board have failed for one of them to throw.
Unharmed(b) == faults[b] < MAX_RETRY /\ b \notin unconnected
Absorbed ==
  \A b \in Boards :
    Unharmed(b) => /\ Gentle(Of(b), todo[b])
                   /\ result[b] = "failed" => Of(b).kind = "align"
                   /\ b \in warned => MayReport(Of(b))

LEMMA GentleNothing == ASSUME NEW given PROVE Gentle(given, <<>>)
BY QuietNothing, CalmNothing DEF Gentle

LEMMA GentleProcedure ==
  ASSUME ToolTypeOK, NEW b \in Boards
  PROVE  Gentle(Of(b), Procedure(b))
<1> DEFINE given == Of(b)
           may == MayReport(given)
<1>1. given.kind \in {"FEB", "ADDC", "TP", "align"}
  BY ProgramType
<1>2. CASE given.kind = "align"
  BY <1>2, QuietAlign DEF Gentle, Procedure
<1>3. CASE given.kind = "FEB"
  BY <1>3, CalmFrontend DEF Gentle, Procedure
<1>4. CASE given.kind = "TP"
  BY <1>4, CalmAccess, CalmTp, CalmConcat DEF Gentle, Procedure
<1>5. CASE given.kind = "ADDC"
  <2>1. given.skip # {} => may = TRUE
    BY <1>5 DEF MayReport
  <2> HIDE DEF may
  <2>2. Calm(may, ConfigureAddc(given.skip, given.must, given.settings))
    BY <2>1, CalmAddc
  <2> QED
    BY <1>5, <2>2 DEF Gentle, Procedure, may
<1> QED
  BY <1>1, <1>2, <1>3, <1>4, <1>5

LEMMA GentleStep ==
  ASSUME NEW given, NEW t, Gentle(given, t), t # <<>>
  PROVE  /\ \A way \in Continuations(Head(t)) : Gentle(given, way \o Tail(t))
         /\ Head(t).do = "warn" => MayReport(given)
<1>1. CASE given.kind = "align"
  <2>1. PICK K : Serene(K) /\ t \in K
    BY <1>1 DEF Gentle, Quiet
  <2>2. \A way \in Continuations(Head(t)) : way \o Tail(t) \in K
    BY <2>1 DEF Serene
  <2>3. Head(t).do # "warn"
    <3>1. IsSeq(t) /\ \A i \in 1..Len(t) : t[i].do \notin {"catch", "warn"}
      BY <2>1 DEF Serene
    <3>2. Len(t) \in Nat /\ Len(t) > 0 /\ Head(t) = t[1]
      BY <3>1, HeadTailProperties, EmptySeq, LenProperties DEF IsSeq
    <3> QED
      BY <3>1, <3>2
  <2> QED
    BY <1>1, <2>1, <2>2, <2>3 DEF Gentle, Quiet
<1>2. CASE given.kind # "align"
  <2> DEFINE may == MayReport(given)
  <2>1. Calm(may, t) /\ (may = TRUE \/ may = FALSE) /\ (may <=> MayReport(given))
    BY <1>2 DEF Gentle, MayReport
  <2> HIDE DEF may
  <2>2. /\ Head(t) = t[1] /\ CalmAt(may, t, 1) /\ Calm(may, Tail(t)) /\ <<>> \o Tail(t) = Tail(t)
    BY <2>1, CalmRest
  <2>3. Head(t).do # "choose" /\ (Head(t).do = "warn" => may)
    BY <2>2 DEF CalmAt
  <2>4. \A way \in Continuations(Head(t)) : way = <<>>
    BY <2>3 DEF Continuations
  <2>5. \A way \in Continuations(Head(t)) : Calm(may, way \o Tail(t))
    BY <2>2, <2>4
  <2> QED
    BY <1>2, <2>1, <2>3, <2>5 DEF Gentle, may
<1> QED
  BY <1>1, <1>2

LEMMA GentleThrow ==
  ASSUME NEW given, NEW t, Gentle(given, t), t # <<>>, Head(t).do \in {"tell", "raise"}
  PROVE  IF given.kind = "align" THEN ~IsCaught(t)
                                 ELSE IsCaught(t) /\ Gentle(given, AfterThrow(t))
<1>1. CASE given.kind = "align"
  <2>1. IsSeq(t) /\ \A i \in 1..Len(t) : t[i].do \notin {"catch", "warn"}
    BY <1>1 DEF Gentle, Quiet, Serene
  <2>2. Len(t) \in Nat /\ DOMAIN t = 1..Len(t)
    BY <2>1, LenProperties DEF IsSeq
  <2>3. ASSUME NEW i \in 1..Len(t)
        PROVE  ~(Closed(t, i) > 0)
    <3>1. i \in Nat /\ Kind(t, i, "catch") = {}
      BY <2>1, <2>2 DEF Kind
    <3>2. Closed(t, i) = Cardinality(Kind(t, i, "catch")) - Cardinality(Kind(t, i, "try"))
          /\ Cardinality(Kind(t, i, "try")) \in Nat
      BY <3>1, ClosedKinds, KindFinite
    <3>3. Cardinality(Kind(t, i, "catch")) = 0
      BY <3>1, FS_EmptySet
    <3> QED
      BY <3>2, <3>3
  <2> QED
    BY <1>1, <2>2, <2>3 DEF IsCaught, Handlers
<1>2. CASE given.kind # "align"
  <2> DEFINE may == MayReport(given)
  <2>1. Calm(may, t)
    BY <1>2 DEF Gentle
  <2> HIDE DEF may
  <2>2. Head(t).do # "raise"
    BY <2>1, CalmRest DEF CalmAt
  <2>3. IsCaught(t) /\ Calm(may, AfterThrow(t))
    BY <2>1, <2>2, CalmThrow
  <2> QED
    BY <1>2, <2>3 DEF Gentle, may
<1> QED
  BY <1>1, <1>2

LEMMA AbsorbedInit == ToolInit => Absorbed
<1> SUFFICES ASSUME ToolInit, NEW b \in Boards
             PROVE  /\ Gentle(Of(b), todo[b])
                    /\ result[b] = "failed" => Of(b).kind = "align"
                    /\ b \in warned => MayReport(Of(b))
  BY DEF Absorbed
<1>1. todo[b] = <<>> /\ result[b] = "waiting" /\ warned = {}
  BY DEF ToolInit
<1> QED
  BY <1>1, GentleNothing

\* It is enough to look at the board that makes the step.
LEMMA AbsorbedElsewhere ==
  ASSUME ToolInv, Absorbed, NEW b \in Boards, UNCHANGED program,
         \A c \in Boards : c # b =>
           /\ todo'[c] = todo[c] /\ result'[c] = result[c] /\ faults'[c] = faults[c]
           /\ (c \in warned' <=> c \in warned) /\ (c \in unconnected' <=> c \in unconnected),
         Unharmed(b)' => /\ Gentle(Of(b), todo'[b])
                         /\ result'[b] = "failed" => Of(b).kind = "align"
                         /\ b \in warned' => MayReport(Of(b))
  PROVE  Absorbed'
<1> SUFFICES ASSUME NEW c \in Boards, Unharmed(c)'
             PROVE  /\ Gentle(Of(c), todo'[c])
                    /\ result'[c] = "failed" => Of(c).kind = "align"
                    /\ c \in warned' => MayReport(Of(c))
  BY DEF Absorbed, Boards, Of
<1>1. CASE c = b
  BY <1>1
<1>2. CASE c # b
  <2>1. /\ todo'[c] = todo[c] /\ result'[c] = result[c] /\ faults'[c] = faults[c]
        /\ (c \in warned' <=> c \in warned) /\ (c \in unconnected' <=> c \in unconnected)
    BY <1>2
  <2>2. Unharmed(c)
    BY <2>1 DEF Unharmed
  <2> QED
    BY <2>1, <2>2 DEF Absorbed
<1> QED
  BY <1>1, <1>2

LEMMA AbsorbedStart ==
  ASSUME ToolInv, Absorbed, StartBoard
  PROVE  Absorbed'
<1> SUFFICES ASSUME NEW b \in Boards, b = next
             PROVE  Absorbed'
  BY DEF StartBoard
<1>1. /\ todo' = [todo EXCEPT ![b] = Procedure(b)]
      /\ result' = [result EXCEPT ![b] = IF todo'[b] = <<>> THEN "done" ELSE "running"]
      /\ UNCHANGED <<program, warned, faults, unconnected>>
  BY DEF StartBoard
<1>2. todo = [c \in Boards |-> todo[c]] /\ result = [c \in Boards |-> result[c]]
  BY DEF ToolInv, Tables, ToolTypeOK
<1> DEFINE all == Procedure(b)
<1>3. Gentle(Of(b), all)
  BY GentleProcedure DEF ToolInv
<1> HIDE DEF all
<1>4. /\ todo'[b] = all /\ result'[b] \in {"done", "running"}
      /\ \A c \in Boards : c # b => todo'[c] = todo[c] /\ result'[c] = result[c]
  BY <1>1, <1>2 DEF all
<1>5. ASSUME Unharmed(b)'
      PROVE  /\ Gentle(Of(b), todo'[b])
             /\ result'[b] = "failed" => Of(b).kind = "align"
             /\ b \in warned' => MayReport(Of(b))
  <2>1. Unharmed(b)
    BY <1>1, <1>5 DEF Unharmed
  <2> QED
    BY <1>1, <1>3, <1>4, <2>1 DEF Absorbed
<1> QED
  BY <1>1, <1>4, <1>5, AbsorbedElsewhere

LEMMA AbsorbedStep ==
  ASSUME ToolInv, Absorbed, NEW b \in Boards, Step(b)
  PROVE  Absorbed'
<1> DEFINE step == Head(todo[b])
           rest == Tail(todo[b])
<1>1. /\ UNCHANGED <<program, faults, unconnected>> /\ result[b] = "running"
      /\ warned' = IF step.do = "warn" THEN warned \cup {b} ELSE warned
  BY DEF Step, memory
<1>2. PICK way \in Continuations(step) : Continue(b, way \o rest)
  BY DEF Step, Continuations
<1> HIDE DEF step, rest
<1> DEFINE left == way \o rest
<1>3. /\ todo' = [c \in Boards |-> IF c = b THEN left ELSE todo[c]]
      /\ result' = [c \in Boards |-> IF c = b /\ left = <<>> THEN "done" ELSE result[c]]
  <2>1. UNCHANGED program /\ Continue(b, left)
    BY <1>1, <1>2
  <2> HIDE DEF left
  <2> QED
    BY <2>1, Continues
<1>4. \A c \in Boards : c # b =>
        /\ todo'[c] = todo[c] /\ result'[c] = result[c] /\ faults'[c] = faults[c]
        /\ (c \in warned' <=> c \in warned) /\ (c \in unconnected' <=> c \in unconnected)
  BY <1>1, <1>3
<1>5. ASSUME Unharmed(b)'
      PROVE  /\ Gentle(Of(b), todo'[b])
             /\ result'[b] = "failed" => Of(b).kind = "align"
             /\ b \in warned' => MayReport(Of(b))
  <2>1. Unharmed(b)
    BY <1>1, <1>5 DEF Unharmed
  <2>2. Gentle(Of(b), todo[b]) /\ (b \in warned => MayReport(Of(b)))
    BY <2>1 DEF Absorbed
  <2>3. todo[b] # <<>>
    BY <1>1 DEF ToolInv, ToolTypeOK
  <2>4. Gentle(Of(b), left) /\ (step.do = "warn" => MayReport(Of(b)))
    BY <1>2, <2>2, <2>3, GentleStep DEF step, rest
  <2> HIDE DEF left
  <2>5. todo'[b] = left /\ result'[b] \in {"done", "running"}
    BY <1>1, <1>3
  <2> QED
    BY <1>1, <2>2, <2>4, <2>5
<1> QED
  BY <1>1, <1>4, <1>5, AbsorbedElsewhere

\* An exception of a board that is unharmed is caught, or it is "align".
LEMMA AbsorbedThrow ==
  ASSUME ToolInv, NEW b \in Boards, Throws(b), UNCHANGED program, result[b] = "running",
         Gentle(Of(b), todo[b]), Head(todo[b]).do \in {"tell", "raise"}
  PROVE  Gentle(Of(b), todo'[b]) /\ (result'[b] = "failed" => Of(b).kind = "align")
<1>1. todo[b] # <<>> /\ todo = [c \in Boards |-> todo[c]] /\ result = [c \in Boards |-> result[c]]
  BY DEF ToolInv, ToolTypeOK, Tables
<1>2. CASE IsCaught(todo[b])
  <2> DEFINE rest == AfterThrow(todo[b])
  <2>1. Of(b).kind # "align" /\ Gentle(Of(b), rest)
    BY <1>1, <1>2, GentleThrow
  <2>2. Continue(b, rest)
    BY <1>2 DEF Throws
  <2> HIDE DEF rest
  <2>3. todo'[b] = rest /\ result'[b] \in {"running", "done"}
    BY <2>2, Continues
  <2> QED
    BY <2>1, <2>3
<1>3. CASE ~IsCaught(todo[b])
  <2>1. Of(b).kind = "align"
    BY <1>1, <1>3, GentleThrow
  <2>2. todo'[b] = <<>>
    BY <1>1, <1>3 DEF Throws
  <2> QED
    BY <2>1, <2>2, GentleNothing
<1> QED
  BY <1>2, <1>3

LEMMA AbsorbedFault ==
  ASSUME ToolInv, Absorbed, NEW b \in Boards, Fault(b)
  PROVE  Absorbed'
<1> DEFINE step == Head(todo[b])
<1>1. /\ UNCHANGED <<program, warned>> /\ result[b] = "running"
      /\ faults' = [faults EXCEPT ![b] = @ + 1]
      /\ unconnected' = IF step.do = "connect" THEN unconnected \cup {b} ELSE unconnected
      /\ step.do \in {"write", "tell", "read", "await", "connect"}
      /\ IF failures[b] + 1 < Tries(step)
         THEN failures' = [failures EXCEPT ![b] = @ + 1] /\ UNCHANGED <<todo, result>>
         ELSE Throws(b)
  BY DEF Fault, memory
<1> HIDE DEF step
<1>2. /\ todo = [c \in Boards |-> todo[c]] /\ result = [c \in Boards |-> result[c]]
      /\ failures[b] \in Nat /\ faults \in [Boards -> Nat] /\ failures[b] <= faults[b]
      /\ todo[b] # <<>>
  BY <1>1 DEF ToolInv, ToolTypeOK, Tables
<1>3. \A c \in Boards : c # b =>
        /\ todo'[c] = todo[c] /\ result'[c] = result[c] /\ faults'[c] = faults[c]
        /\ (c \in warned' <=> c \in warned) /\ (c \in unconnected' <=> c \in unconnected)
  <2>1. \A c \in Boards : c # b => todo'[c] = todo[c] /\ result'[c] = result[c]
    BY <1>1, <1>2 DEF Throws, Continue
  <2> QED
    BY <1>1, <1>2, <2>1
<1>4. ASSUME Unharmed(b)'
      PROVE  /\ Gentle(Of(b), todo'[b])
             /\ result'[b] = "failed" => Of(b).kind = "align"
             /\ b \in warned' => MayReport(Of(b))
  <2>1. faults[b] + 1 < MAX_RETRY /\ MAX_RETRY \in Nat /\ b \notin unconnected'
    BY <1>1, <1>2, <1>4, SenderAssumption DEF Unharmed
  <2>2. Unharmed(b) /\ step.do # "connect"
    BY <1>1, <1>2, <2>1 DEF Unharmed
  <2>3. /\ Gentle(Of(b), todo[b]) /\ (b \in warned => MayReport(Of(b)))
        /\ (result[b] = "failed" => Of(b).kind = "align")
    BY <2>2 DEF Absorbed
  <2>4. CASE step.do \in {"write", "read", "await"}
    <3>1. Tries(step) = MAX_RETRY
      BY <2>4 DEF Tries, WriteTries, ReadTries
    <3>2. failures[b] + 1 < Tries(step)
      BY <1>2, <2>1, <3>1
    <3> QED
      BY <1>1, <2>3, <3>2
  <2>5. CASE step.do = "tell"
    <3>1. CASE failures[b] + 1 < Tries(step)
      BY <1>1, <2>3, <3>1
    <3>2. CASE ~(failures[b] + 1 < Tries(step))
      BY <1>1, <2>3, <2>5, <3>2, AbsorbedThrow DEF step
    <3> QED
      BY <3>1, <3>2
  <2> QED
    BY <1>1, <2>2, <2>4, <2>5
<1> QED
  BY <1>1, <1>3, <1>4, AbsorbedElsewhere

LEMMA AbsorbedRaise ==
  ASSUME ToolInv, Absorbed, NEW b \in Boards, RaiseStep(b)
  PROVE  Absorbed'
<1>1. /\ UNCHANGED <<program, warned, faults, unconnected>> /\ Throws(b)
      /\ result[b] = "running" /\ Head(todo[b]).do = "raise"
  BY DEF RaiseStep, memory
<1>2. todo = [c \in Boards |-> todo[c]] /\ result = [c \in Boards |-> result[c]]
  BY DEF ToolInv, ToolTypeOK, Tables
<1>3. \A c \in Boards : c # b => todo'[c] = todo[c] /\ result'[c] = result[c]
  BY <1>1, <1>2 DEF Throws, Continue
<1>4. ASSUME Unharmed(b)'
      PROVE  /\ Gentle(Of(b), todo'[b])
             /\ result'[b] = "failed" => Of(b).kind = "align"
             /\ b \in warned' => MayReport(Of(b))
  <2>1. Unharmed(b)
    BY <1>1, <1>4 DEF Unharmed
  <2>2. Gentle(Of(b), todo[b]) /\ (b \in warned => MayReport(Of(b)))
    BY <2>1 DEF Absorbed
  <2> QED
    BY <1>1, <2>2, AbsorbedThrow
<1> QED
  BY <1>1, <1>3, <1>4, AbsorbedElsewhere

LEMMA AbsorbedNext == ToolInv /\ Absorbed /\ [ToolNext]_toolVars => Absorbed'
<1> SUFFICES ASSUME ToolInv, Absorbed, [ToolNext]_toolVars PROVE Absorbed'
  OBVIOUS
<1>1. CASE StartBoard
  BY <1>1, AbsorbedStart
<1>2. CASE Join \/ Terminate \/ (\E b \in Boards : Lock(b)) \/ UNCHANGED toolVars
  <2>1. UNCHANGED <<program, result, todo, warned, faults, unconnected>>
    BY <1>2 DEF Join, Terminate, Lock, memory, toolVars
  <2>2. /\ Boards' = Boards /\ \A b \in Boards : Of(b)' = Of(b)
        /\ \A b \in Boards : Unharmed(b)' <=> Unharmed(b)
    BY <2>1 DEF Boards, Of, Unharmed
  <2> QED
    BY <2>1, <2>2 DEF Absorbed
<1>3. ASSUME NEW b \in Boards, Step(b)
      PROVE  Absorbed'
  BY <1>3, AbsorbedStep
<1>4. ASSUME NEW b \in Boards, Fault(b)
      PROVE  Absorbed'
  BY <1>4, AbsorbedFault
<1>5. ASSUME NEW b \in Boards, RaiseStep(b)
      PROVE  Absorbed'
  BY <1>5, AbsorbedRaise
<1> QED
  BY <1>1, <1>2, <1>3, <1>4, <1>5 DEF ToolNext

\* A board fails, or a problem of it is reported, only after as many failed
\* tries as an access has, or without a client; reports of ARTs that are to be
\* skipped and fibres that never align are no failures of an access
\* (FewFaultsAreAbsorbed).
THEOREM FewFaultsCorrect == ToolSpec => []FewFaultsAreAbsorbed
<1>1. ToolInv /\ Absorbed => FewFaultsAreAbsorbed
  BY DEF Absorbed, FewFaultsAreAbsorbed, Unharmed, MayReport
<1> QED
  BY <1>1, ToolInvInit, ToolInvStep, AbsorbedInit, AbsorbedNext, PTL DEF ToolSpec

-----------------------------------------------------------------------------
(* What the boards are made of: their worlds, in which what is to be held  *)
(* is a tie.                                                               *)

SenderFebWorld ==
  [lines |-> FebLines \cup {"tpInv"}, values |-> Values \cup {"inverted", "straight"},
   never |-> {}, plls |-> TRUE, forgives |-> FALSE, warnings |-> {FALSE}, guards |-> {},
   ties |-> {[line |-> "rocAnalog", values |-> {"partial"}, by |-> "pllReset", ats |-> {"active"}],
             [line |-> "rocAnalog", values |-> {"partial"}, by |-> "coreReset", ats |-> {"active"}],
             [line |-> "vmms", values |-> {"partial"}, by |-> "acquisition", ats |-> {"off"}]}]

\* What is known of a board that nothing was sent to, and of its VMMs.
Unsent     == {<<"rocAnalog", "unknown">>, <<"vmms", "unknown">>}
VmmsUnsent == {<<"vmms", "unknown">>}

SenderFacts(F) ==
  \A p \in F : p[1] \in FebLines \cup {"tpInv"} /\ (p[1] = "pllLocked" => p[2] = "yes")

LEMMA SenderFebIsWorld ==
  World(SenderFebWorld) /\ \A F : SenderFacts(F) => Stable(SenderFebWorld, F)
<1>1. World(SenderFebWorld)
  BY DEF World, SenderFebWorld, FebLines, Values
<1>2. SenderFebWorld.lines = FebLines \cup {"tpInv"}
  BY DEF SenderFebWorld
<1> QED
  BY <1>1, <1>2 DEF Stable, SenderFacts

\* A write that keeps the ties.
SendOK(F, line, value, G) ==
  /\ SenderFacts(F) /\ SenderFacts(G)
  /\ line \in FebLines \cup {"tpInv"} /\ value \in Values \cup {"inverted", "straight"}
  /\ \A p \in G : p = <<line, value>> \/ (p \in F /\ p[1] # line)
  /\ (line = "pllReset" /\ value = "active") => \A p \in G : p[1] # "pllLocked"
  /\ line = "rocAnalog" /\ value = "partial" =>
       <<"pllReset", "active">> \in F /\ <<"coreReset", "active">> \in F
  /\ line = "vmms" /\ value = "partial" => <<"acquisition", "off">> \in F
  /\ line \in {"pllReset", "coreReset"} /\ value # "active" =>
       \E p \in F : p[1] = "rocAnalog" /\ p[2] # "partial"
  /\ line = "acquisition" /\ value # "off" => \E p \in F : p[1] = "vmms" /\ p[2] # "partial"

LEMMA SendPermitted ==
  ASSUME NEW F, NEW G, NEW line, NEW value, SendOK(F, line, value, G)
  PROVE  Permitted(SenderFebWorld, F, line, value)
<1>1. /\ SenderFebWorld.lines = FebLines \cup {"tpInv"} /\ SenderFebWorld.never = {}
      /\ SenderFebWorld.values = Values \cup {"inverted", "straight"}
  BY DEF SenderFebWorld
<1>2. ASSUME NEW h \in SenderFebWorld.ties
      PROVE  /\ h.line = line /\ value \in h.values => \E p \in F : p[1] = h.by /\ p[2] \in h.ats
             /\ h.by = line /\ value \notin h.ats => \E p \in F : p[1] = h.line /\ p[2] \notin h.values
  <2>1. \/ /\ h.line = "rocAnalog" /\ h.values = {"partial"}
           /\ h.by \in {"pllReset", "coreReset"} /\ h.ats = {"active"}
        \/ h.line = "vmms" /\ h.values = {"partial"} /\ h.by = "acquisition" /\ h.ats = {"off"}
    BY <1>2 DEF SenderFebWorld
  <2>2. CASE h.line = "rocAnalog" /\ h.values = {"partial"} /\ h.by \in {"pllReset", "coreReset"}
             /\ h.ats = {"active"}
    <3>1. ASSUME h.line = line, value \in h.values
          PROVE  \E p \in F : p[1] = h.by /\ p[2] \in h.ats
      <4>1. <<h.by, "active">> \in F
        BY <2>2, <3>1 DEF SendOK
      <4> QED
        BY <2>2, <4>1
    <3>2. ASSUME h.by = line, value \notin h.ats
          PROVE  \E p \in F : p[1] = h.line /\ p[2] \notin h.values
      <4>1. PICK p \in F : p[1] = "rocAnalog" /\ p[2] # "partial"
        BY <2>2, <3>2 DEF SendOK
      <4> QED
        BY <2>2, <4>1
    <3> QED
      BY <3>1, <3>2
  <2>3. CASE h.line = "vmms" /\ h.values = {"partial"} /\ h.by = "acquisition" /\ h.ats = {"off"}
    <3>1. ASSUME h.line = line, value \in h.values
          PROVE  \E p \in F : p[1] = h.by /\ p[2] \in h.ats
      <4>1. <<"acquisition", "off">> \in F
        BY <2>3, <3>1 DEF SendOK
      <4> QED
        BY <2>3, <4>1
    <3>2. ASSUME h.by = line, value \notin h.ats
          PROVE  \E p \in F : p[1] = h.line /\ p[2] \notin h.values
      <4>1. PICK p \in F : p[1] = "vmms" /\ p[2] # "partial"
        BY <2>3, <3>2 DEF SendOK
      <4> QED
        BY <2>3, <4>1
    <3> QED
      BY <3>1, <3>2
  <2> QED
    BY <2>1, <2>2, <2>3
<1> QED
  BY <1>1, <1>2 DEF Permitted, SendOK

LEMMA SendWrites ==
  ASSUME NEW F, NEW G, NEW line, NEW value, SendOK(F, line, value, G)
  PROVE  Writes(SenderFebWorld, F, line, value, G)
<1>1. Stable(SenderFebWorld, F) /\ Stable(SenderFebWorld, G)
  BY SenderFebIsWorld DEF SendOK
<1>2. SenderFebWorld.guards = {}
  BY DEF SenderFebWorld
<1> QED
  BY <1>1, <1>2, SendPermitted DEF Writes, Guarded, SendOK

LEMMA SendOne ==
  ASSUME NEW F, NEW G, NEW line, NEW value, SendOK(F, line, value, G)
  PROVE  Does(SenderFebWorld, F, Write(line, value), G)
BY SendWrites, SenderFebIsWorld, DoesWrite

LEMMA SendTwo ==
  ASSUME NEW F, NEW G, NEW line, NEW value, NEW first, line # "pllReset",
         SendOK(F, line, value, G), SendOK(F, line, first, {})
  PROVE  Does(SenderFebWorld, F, Write(line, first) \o Write(line, value), G)
BY SendWrites, SendPermitted, SenderFebIsWorld, DoesTwice DEF Writes

LEMMA SendBank ==
  ASSUME NEW bank, NEW own, NEW F, NEW G,
         SendOK(F, bank, "partial", F), SendOK(F, own, "configured", F),
         SendOK(F, bank, "configured", G)
  PROVE  Does(SenderFebWorld, F, Do(<<Write(bank, "partial"), Write(own, "configured"),
                                      Write(bank, "configured")>>), G)
<1> DEFINE ps == <<Write(bank, "partial"), Write(own, "configured"), Write(bank, "configured")>>
<1>1. /\ Does(SenderFebWorld, F, Write(bank, "partial"), F)
      /\ Does(SenderFebWorld, F, Write(own, "configured"), F)
      /\ Does(SenderFebWorld, F, Write(bank, "configured"), G)
  BY SendOne
<1>2. Chain(SenderFebWorld, <<F, F, F, G>>, ps, 3)
  BY <1>1 DEF Chain
<1> HIDE DEF ps
<1>3. Does(SenderFebWorld, F, Do(ps), G)
  BY <1>2, DoesDo
<1> QED
  BY <1>3 DEF ps

LEMMA SendRocDoes == Does(SenderFebWorld, VmmsUnsent, SendRocConfig, RocDone)
<1> DEFINE core   == VmmsUnsent \cup {<<"coreReset", "active">>}
           held   == core \cup {<<"pllReset", "active">>}
           reset  == held \cup {<<"sReset", "inactive">>}
           kept   == {<<"coreReset", "active">>}
           analog == kept \cup {<<"pllReset", "active">>, <<"sReset", "inactive">>,
                                 <<"rocAnalog", "configured">>}
           done   == {<<"sReset", "inactive">>, <<"rocAnalog", "configured">>,
                      <<"pllReset", "inactive">>}
           free   == kept \cup done
           locked == free \cup {<<"pllLocked", "yes">>}
           out    == done \cup {<<"pllLocked", "yes">>, <<"coreReset", "inactive">>}
<1>1. /\ SendOK(VmmsUnsent, "coreReset", "active", core) /\ SendOK(core, "pllReset", "active", held)
      /\ SendOK(held, "sReset", "active", {}) /\ SendOK(held, "sReset", "inactive", reset)
  BY DEF SendOK, SenderFacts, FebLines, Values, VmmsUnsent
<1>2. /\ SendOK(reset, "rocAnalog", "partial", reset) /\ SendOK(reset, "acquisition", "configured", reset)
      /\ SendOK(reset, "rocAnalog", "configured", analog)
  <2>1. <<"vmms", "unknown">> \in reset
    BY DEF VmmsUnsent
  <2>2. \E p \in reset : p[1] = "vmms" /\ p[2] # "partial"
    <3> HIDE DEF reset
    <3> QED
      BY <2>1
  <2>3. SendOK(reset, "acquisition", "configured", reset)
    BY <2>2 DEF SendOK, SenderFacts, FebLines, Values, VmmsUnsent
  <2> QED
    BY <2>3 DEF SendOK, SenderFacts, FebLines, Values, VmmsUnsent
<1>3. SendOK(analog, "pllReset", "inactive", free) /\ SendOK(locked, "coreReset", "inactive", out)
  <2>1. <<"rocAnalog", "configured">> \in analog /\ <<"rocAnalog", "configured">> \in locked
    OBVIOUS
  <2>2. \E p \in analog : p[1] = "rocAnalog" /\ p[2] # "partial"
    <3> HIDE DEF analog
    <3> QED
      BY <2>1
  <2>3. \E p \in locked : p[1] = "rocAnalog" /\ p[2] # "partial"
    <3> HIDE DEF locked
    <3> QED
      BY <2>1
  <2>4. SendOK(analog, "pllReset", "inactive", free)
    BY <2>2 DEF SendOK, SenderFacts, FebLines, Values
  <2>5. SendOK(locked, "coreReset", "inactive", out)
    BY <2>3 DEF SendOK, SenderFacts, FebLines, Values
  <2> QED
    BY <2>4, <2>5
<1>4. /\ SendOK(out, "rocDigital", "partial", out) /\ SendOK(out, "captures", "configured", out)
      /\ SendOK(out, "rocDigital", "configured", RocDone)
  BY DEF SendOK, SenderFacts, FebLines, Values, RocDone
<1>5. /\ Stable(SenderFebWorld, free) /\ Stable(SenderFebWorld, locked)
      /\ locked \subseteq free \cup {<<"pllLocked", "yes">>}
  <2>1. SenderFacts(free) /\ SenderFacts(locked)
    BY DEF SenderFacts, FebLines
  <2> HIDE DEF free
  <2> QED
    BY <2>1, SenderFebIsWorld
<1> HIDE DEF core, held, reset, kept, analog, done, free, locked, out
<1>6. Does(SenderFebWorld, out, ConfigureDigital, RocDone)
  BY <1>4, SendBank DEF ConfigureDigital
<1> DEFINE ps == <<Write("coreReset", "active"), Write("pllReset", "active"),
                   Toggle("sReset", "active", "inactive"), ConfigureAnalog,
                   Write("pllReset", "inactive"), Await("pllLocked", "yes"),
                   Write("coreReset", "inactive"), ConfigureDigital>>
           F == <<VmmsUnsent, core, held, reset, analog, free, locked, out, RocDone>>
<1>7. /\ Does(SenderFebWorld, VmmsUnsent, Write("coreReset", "active"), core)
      /\ Does(SenderFebWorld, core, Write("pllReset", "active"), held)
      /\ Does(SenderFebWorld, held, Toggle("sReset", "active", "inactive"), reset)
      /\ Does(SenderFebWorld, reset, ConfigureAnalog, analog)
  BY <1>1, <1>2, SendOne, SendTwo, SendBank DEF Toggle, ConfigureAnalog
<1>8. /\ Does(SenderFebWorld, analog, Write("pllReset", "inactive"), free)
      /\ Does(SenderFebWorld, free, Await("pllLocked", "yes"), locked)
      /\ Does(SenderFebWorld, locked, Write("coreReset", "inactive"), out)
  BY <1>3, <1>5, SendOne, DoesAwait, SenderFebIsWorld
<1>9. \A i \in 1..8 : Does(SenderFebWorld, F[i], ps[i], F[i+1])
  BY <1>6, <1>7, <1>8
<1>10. Len(ps) = 8 /\ F[1] = VmmsUnsent /\ F[8+1] = RocDone
  OBVIOUS
<1> HIDE DEF ps, F
<1>11. Chain(SenderFebWorld, F, ps, 8)
  BY <1>9, <1>10 DEF Chain
<1>12. Does(SenderFebWorld, VmmsUnsent, Do(ps), RocDone)
  BY <1>10, <1>11, DoesDo
<1> QED
  BY <1>12 DEF SendRocConfig, ps

\* What DCS is told changes nothing of the board.
LEMMA FreeVariableDoes ==
  ASSUME NEW F, SenderFacts(F)
  PROVE  Does(SenderFebWorld, F, WriteFreeVariable, F)
<1>1. Stable(SenderFebWorld, F) /\ World(SenderFebWorld)
  BY SenderFebIsWorld
<1>2. Triple(SenderFebWorld, At(SenderFebWorld, F), SingleStep("tell", "none", "none", {}),
             At(SenderFebWorld, F), At(SenderFebWorld, F))
  BY <1>1, AccessInto
<1> QED
  BY <1>1, <1>2, DoesTolerate DEF WriteFreeVariable

LEMMA SendVmmDoes ==
  ASSUME NEW F, SenderFacts(F), Apart(F, {"acquisition", "vmms"}),
         NEW value \in {"configured", "inReset"},
         NEW X, X \subseteq {<<"vmms", "inReset">>, <<"acquisition", "on">>}
  PROVE  Does(SenderFebWorld, F \cup X, SendVmmConfig(value),
              F \cup {<<"vmms", value>>, <<"acquisition", "on">>})
<1> DEFINE off  == F \cup {<<"acquisition", "off">>}
           sent == off \cup {<<"vmms", value>>}
           done == F \cup {<<"vmms", value>>, <<"acquisition", "on">>}
           before == F \cup X
<1>1. /\ SenderFacts(before) /\ SenderFacts(off) /\ SenderFacts(sent) /\ SenderFacts(done)
      /\ \A p \in F : p[1] # "acquisition" /\ p[1] # "vmms"
  BY DEF SenderFacts, FebLines, Apart
<1>2. SendOK(before, "acquisition", "off", off)
  BY <1>1 DEF SendOK, FebLines, Values
<1>3. SendOK(off, "vmms", "partial", {}) /\ SendOK(off, "vmms", value, sent)
  <2>1. "partial" \in Values /\ value \in Values /\ value # "partial"
    BY DEF Values
  <2>2. "vmms" \in FebLines /\ SenderFacts({})
    BY DEF FebLines, SenderFacts
  <2>3. <<"acquisition", "off">> \in off
    OBVIOUS
  <2>4. \A p \in sent : p = <<"vmms", value>> \/ (p \in off /\ p[1] # "vmms")
    BY <1>1
  <2> HIDE DEF off, sent
  <2> QED
    BY <1>1, <2>1, <2>2, <2>3, <2>4 DEF SendOK
<1>4. SendOK(sent, "acquisition", "on", done)
  <2>1. \E p \in sent : p[1] = "vmms" /\ p[2] # "partial"
    <3>1. <<"vmms", value>> \in sent /\ value # "partial"
      OBVIOUS
    <3> HIDE DEF sent
    <3> QED
      BY <3>1
  <2> QED
    BY <1>1, <2>1 DEF SendOK, FebLines, Values
<1> HIDE DEF before, off, sent, done
<1>5. /\ Does(SenderFebWorld, before, Write("acquisition", "off"), off)
      /\ Does(SenderFebWorld, off, SetVmmConfigurationStatusInfoDcs, off)
      /\ Does(SenderFebWorld, off, WriteAll("vmms", value), sent)
      /\ Does(SenderFebWorld, sent, Write("acquisition", "on"), done)
  BY <1>1, <1>2, <1>3, <1>4, SendOne, SendTwo, FreeVariableDoes
     DEF WriteAll, SetVmmConfigurationStatusInfoDcs
<1> DEFINE ps == <<Write("acquisition", "off"), SetVmmConfigurationStatusInfoDcs,
                   WriteAll("vmms", value), Write("acquisition", "on")>>
<1>6. Chain(SenderFebWorld, <<before, off, off, sent, done>>, ps, 4)
  BY <1>5 DEF Chain
<1> HIDE DEF ps
<1>7. Does(SenderFebWorld, before, Do(ps), done)
  BY <1>6, DoesDo
<1> QED
  BY <1>7 DEF SendVmmConfig, ps, before, done

LEMMA ConfigureVmmDoes ==
  ASSUME NEW options, NEW F, SenderFacts(F), Apart(F, {"acquisition", "vmms"})
  PROVE  Does(SenderFebWorld, F, ConfigureVmm(options), F \cup VmmsDone)
<1> DEFINE X == IF "resetvmm" \in options THEN {<<"vmms", "inReset">>, <<"acquisition", "on">>}
                                          ELSE {}
<1>1. X \subseteq {<<"vmms", "inReset">>, <<"acquisition", "on">>}
  OBVIOUS
<1>2. Does(SenderFebWorld, F, If("resetvmm" \in options, SendVmmConfig("inReset")), F \cup X)
  <2>1. Does(SenderFebWorld, F, SendVmmConfig("inReset"),
             F \cup {<<"vmms", "inReset">>, <<"acquisition", "on">>})
    <3>1. Does(SenderFebWorld, F \cup {}, SendVmmConfig("inReset"),
               F \cup {<<"vmms", "inReset">>, <<"acquisition", "on">>})
      BY SendVmmDoes
    <3>2. F \cup {} = F
      OBVIOUS
    <3> QED
      BY <3>1, <3>2
  <2>2. Does(SenderFebWorld, F, Nothing, F)
    BY SenderFebIsWorld, DoesNothing
  <2>3. CASE "resetvmm" \in options
    BY <2>1, <2>3 DEF If
  <2>4. CASE "resetvmm" \notin options
    <3>1. X = {} /\ F \cup {} = F
      BY <2>4
    <3> HIDE DEF X
    <3> QED
      BY <2>2, <2>4, <3>1 DEF If, Nothing
  <2> QED
    BY <2>3, <2>4
<1> HIDE DEF X
<1>3. Does(SenderFebWorld, F \cup X, SendVmmConfig("configured"), F \cup VmmsDone)
  <2>1. F \cup VmmsDone = F \cup {<<"vmms", "configured">>, <<"acquisition", "on">>}
    BY DEF VmmsDone
  <2> QED
    BY <1>1, <2>1, SendVmmDoes
<1> QED
  BY <1>2, <1>3, DoesSequence DEF ConfigureVmm

SentTds(options) ==
  {<<"tdsPins", "inactive">>, <<"tdss", "configured">>}
    \cup (IF "resettds" \in options THEN {<<"tdsResets", "off">>} ELSE {})

LEMMA SendTdsDoes ==
  ASSUME NEW options, NEW F, SenderFacts(F), Apart(F, {"tdsPins", "tdss", "tdsResets"})
  PROVE  Does(SenderFebWorld, F, SendTdsConfig(options), F \cup SentTds(options))
<1> DEFINE pins == F \cup {<<"tdsPins", "inactive">>}
           tdss == pins \cup {<<"tdss", "configured">>}
           done == tdss \cup {<<"tdsResets", "off">>}
           all  == F \cup SentTds(options)
           resets == <<Toggle("tdsResets", "pll", "off"), Toggle("tdsResets", "logic", "off"),
                       Toggle("tdsResets", "serializer", "off"), Read("tdss")>>
<1>1. SenderFacts(pins) /\ SenderFacts(tdss) /\ SenderFacts(done) /\ SenderFacts({})
  BY DEF SenderFacts, FebLines
<1>2. all = IF "resettds" \in options THEN done ELSE tdss
  BY DEF SentTds
<1>3. /\ SendOK(F, "tdsPins", "inactive", pins)
      /\ SendOK(pins, "tdss", "partial", {}) /\ SendOK(pins, "tdss", "configured", tdss)
  BY <1>1 DEF SendOK, FebLines, Values, Apart
<1>4. /\ \A first \in {"pll", "logic", "serializer"} :
           SendOK(tdss, "tdsResets", first, {}) /\ SendOK(done, "tdsResets", first, {})
      /\ SendOK(tdss, "tdsResets", "off", done) /\ SendOK(done, "tdsResets", "off", done)
  <2>1. {"pll", "logic", "serializer", "off"} \subseteq Values
    BY DEF Values
  <2>2. "tdsResets" \in FebLines
    BY DEF FebLines
  <2>3. \A p \in done : p = <<"tdsResets", "off">> \/ (p \in tdss /\ p[1] # "tdsResets")
    BY DEF Apart
  <2>4. \A p \in done : p = <<"tdsResets", "off">> \/ (p \in done /\ p[1] # "tdsResets")
    BY <2>3
  <2> HIDE DEF pins, tdss, done
  <2> QED
    BY <1>1, <2>1, <2>2, <2>3, <2>4 DEF SendOK
<1> HIDE DEF pins, tdss, done, all, resets
<1>5. /\ Does(SenderFebWorld, F, Write("tdsPins", "inactive"), pins)
      /\ Does(SenderFebWorld, pins, WriteAll("tdss", "configured"), tdss)
  BY <1>3, SendOne, SendTwo DEF WriteAll
<1>6. Does(SenderFebWorld, tdss, Do(resets), done)
  <2>1. /\ Does(SenderFebWorld, tdss, Toggle("tdsResets", "pll", "off"), done)
        /\ Does(SenderFebWorld, done, Toggle("tdsResets", "logic", "off"), done)
        /\ Does(SenderFebWorld, done, Toggle("tdsResets", "serializer", "off"), done)
    BY <1>4, SendTwo DEF Toggle
  <2>2. Does(SenderFebWorld, done, Read("tdss"), done)
    BY <1>1, SenderFebIsWorld, DoesRead
  <2>3. Chain(SenderFebWorld, <<tdss, done, done, done, done>>, resets, 4)
    BY <2>1, <2>2 DEF Chain, resets
  <2> QED
    BY <2>3, DoesDo
<1>7. Does(SenderFebWorld, tdss, If("resettds" \in options, ResetTds), all)
  <2>1. ResetTds = Do(resets)
    BY DEF ResetTds, resets
  <2> QED
    BY <1>1, <1>2, <1>6, <2>1, SenderFebIsWorld, DoesNothing DEF If, Nothing
<1> DEFINE ps == <<Write("tdsPins", "inactive"), WriteAll("tdss", "configured"),
                   If("resettds" \in options, ResetTds)>>
<1>8. Chain(SenderFebWorld, <<F, pins, tdss, all>>, ps, 3)
  BY <1>5, <1>7 DEF Chain
<1> HIDE DEF ps
<1>9. Does(SenderFebWorld, F, Do(ps), all)
  BY <1>8, DoesDo
<1> QED
  BY <1>9 DEF SendTdsConfig, ps, all

LEMMA CreatePulsesDoes ==
  ASSUME NEW F, SenderFacts(F), Apart(F, {"tpInv"})
  PROVE  Does(SenderFebWorld, F, CreatePulses, F \cup {<<"tpInv", "straight">>})
<1> SUFFICES ASSUME NEW n, n = NUM_TEST_PULSES, NEW done, done = F \cup {<<"tpInv", "straight">>},
                    NEW p, p = Toggle("tpInv", "inverted", "straight")
             PROVE  Does(SenderFebWorld, F, Do([pulse \in 1..n |-> p]), done)
  BY DEF CreatePulses
<1>1. n \in Nat \ {0}
  BY SenderAssumption
<1>2. SenderFacts(done) /\ SenderFacts({})
  BY DEF SenderFacts
<1>3. SendOK(F, "tpInv", "straight", done) /\ SendOK(F, "tpInv", "inverted", {})
  BY <1>2 DEF SendOK, Apart
<1>4. SendOK(done, "tpInv", "straight", done) /\ SendOK(done, "tpInv", "inverted", {})
  BY <1>2 DEF SendOK, Apart
<1>5. Does(SenderFebWorld, F, p, done) /\ Does(SenderFebWorld, done, p, done)
  BY <1>3, <1>4, SendTwo DEF Toggle
<1> DEFINE ps == [pulse \in 1..n |-> p]
           f  == [i \in 1..n+1 |-> IF i = 1 THEN F ELSE done]
<1>6. Len(ps) = n /\ f[1] = F /\ f[n+1] = done
  BY <1>1
<1>7. \A i \in 1..n : ps[i] = p /\ f[i] \in {F, done} /\ f[i+1] = done
  BY <1>1
<1> HIDE DEF ps, f
<1>8. Chain(SenderFebWorld, f, ps, n)
  BY <1>1, <1>5, <1>6, <1>7 DEF Chain
<1>9. Does(SenderFebWorld, F, Do(ps), done)
  BY <1>6, <1>8, DoesDo
<1> QED
  BY <1>9 DEF ps

LEMMA OptionDoes ==
  ASSUME NEW options, NEW name, NEW F, NEW D, NEW p, SenderFacts(F),
         Does(SenderFebWorld, F, p, F \cup D)
  PROVE  Does(SenderFebWorld, F, If(name \in options, p), F \cup Asked(options, name, D))
<1>1. Does(SenderFebWorld, F, Nothing, F)
  BY SenderFebIsWorld, DoesNothing
<1>2. CASE name \in options
  BY <1>2 DEF If, Asked
<1>3. CASE name \notin options
  <2>1. F \cup Asked(options, name, D) = F
    BY <1>3 DEF Asked
  <2> QED
    BY <1>1, <1>3, <2>1 DEF If, Nothing
<1> QED
  BY <1>2, <1>3

\* What is known of a board afterwards.
FrontendDone(options) ==
  IF "reset" \in options THEN {<<"coreReset", "inactive">>}
  ELSE Asked(options, "roc", RocDone) \cup Asked(options, "vmm", VmmsDone)
         \cup Asked(options, "tds", SentTds(options))
         \cup Asked(options, "pulses", {<<"tpInv", "straight">>})

LEMMA OptionsDo ==
  ASSUME NEW options
  PROVE  Does(SenderFebWorld, VmmsUnsent,
              Do(<<If("roc" \in options, SendRocConfig),
                   If("vmm" \in options, ConfigureVmm(options)),
                   If("tds" \in options, SendTdsConfig(options)),
                   If("readback" \in options, Read("tdss")),
                   If("pulses" \in options, CreatePulses)>>),
              Asked(options, "roc", RocDone) \cup Asked(options, "vmm", VmmsDone)
                \cup Asked(options, "tds", SentTds(options))
                \cup Asked(options, "pulses", {<<"tpInv", "straight">>}))
<1> DEFINE roc  == Asked(options, "roc", RocDone)
           vmm  == roc \cup Asked(options, "vmm", VmmsDone)
           tds  == vmm \cup Asked(options, "tds", SentTds(options))
           done == tds \cup Asked(options, "pulses", {<<"tpInv", "straight">>})
<1>1. /\ SenderFacts({}) /\ SenderFacts(roc) /\ Apart(roc, {"acquisition", "vmms"})
      /\ Apart(roc, {"tdsPins", "tdss", "tdsResets", "tpInv"})
  BY DEF SenderFacts, Apart, RocDone, Asked, FebLines
<1>2. SenderFacts(vmm) /\ Apart(vmm, {"tdsPins", "tdss", "tdsResets", "tpInv"})
  <2> HIDE DEF roc
  <2> QED
    BY <1>1 DEF SenderFacts, Apart, VmmsDone, Asked, FebLines
<1>3. SenderFacts(tds) /\ Apart(tds, {"tpInv"})
  <2> HIDE DEF vmm
  <2> QED
    BY <1>2 DEF SenderFacts, Apart, SentTds, Asked, FebLines
<1>4. Does(SenderFebWorld, VmmsUnsent, If("roc" \in options, SendRocConfig), roc)
  <2>1. CASE "roc" \in options
    BY <2>1, SendRocDoes DEF If, Asked
  <2>2. CASE "roc" \notin options
    <3>1. Does(SenderFebWorld, {}, Nothing, {})
      BY <1>1, SenderFebIsWorld, DoesNothing
    <3>2. Does(SenderFebWorld, VmmsUnsent, Nothing, {})
      BY <3>1, DoesLess
    <3> QED
      BY <2>2, <3>2 DEF If, Nothing, Asked
  <2> QED
    BY <2>1, <2>2
<1> HIDE DEF roc
<1>5. Does(SenderFebWorld, roc, If("vmm" \in options, ConfigureVmm(options)), vmm)
  BY <1>1, ConfigureVmmDoes, OptionDoes
<1> HIDE DEF vmm
<1>6. Does(SenderFebWorld, vmm, If("tds" \in options, SendTdsConfig(options)), tds)
  <2>1. Apart(vmm, {"tdsPins", "tdss", "tdsResets"})
    BY <1>2 DEF Apart
  <2> QED
    BY <1>2, <2>1, SendTdsDoes, OptionDoes
<1> HIDE DEF tds
<1>7. Does(SenderFebWorld, tds, If("readback" \in options, Read("tdss")), tds)
  BY <1>3, SenderFebIsWorld, DoesRead, DoesNothing DEF If, Nothing
<1>8. Does(SenderFebWorld, tds, If("pulses" \in options, CreatePulses), done)
  BY <1>3, CreatePulsesDoes, OptionDoes
<1> HIDE DEF done
<1> DEFINE ps == <<If("roc" \in options, SendRocConfig), If("vmm" \in options, ConfigureVmm(options)),
                   If("tds" \in options, SendTdsConfig(options)),
                   If("readback" \in options, Read("tdss")),
                   If("pulses" \in options, CreatePulses)>>
<1>9. Chain(SenderFebWorld, <<VmmsUnsent, roc, vmm, tds, tds, done>>, ps, 5)
  BY <1>4, <1>5, <1>6, <1>7, <1>8 DEF Chain
<1> HIDE DEF ps
<1>10. Does(SenderFebWorld, VmmsUnsent, Do(ps), done)
  BY <1>9, DoesDo
<1> QED
  BY <1>10 DEF ps, done, tds, vmm, roc

LEMMA FrontendDoes ==
  ASSUME NEW options, "dryrun" \notin options
  PROVE  Does(SenderFebWorld, Unsent, ConfigureFrontend(options), FrontendDone(options))
<1> DEFINE F == Unsent
<1>1. SenderFacts(F) /\ SenderFacts({}) /\ SenderFacts({<<"coreReset", "inactive">>})
  BY DEF SenderFacts, FebLines, Unsent
<1>2. Does(SenderFebWorld, F, AddOpcClientIfNew, F)
  <2>1. Triple(SenderFebWorld, At(SenderFebWorld, F), AddOpcClientIfNew, At(SenderFebWorld, F),
               At(SenderFebWorld, F))
    BY <1>1, SenderFebIsWorld, AccessInto DEF AddOpcClientIfNew
  <2> QED
    BY <1>1, <2>1, SenderFebIsWorld, AtLockable, Weaken DEF Does
<1>3. Does(SenderFebWorld, F, Toggle("coreReset", "active", "inactive"), {<<"coreReset", "inactive">>})
  <2>1. \E p \in F : p[1] = "rocAnalog" /\ p[2] # "partial"
    <3>1. <<"rocAnalog", "unknown">> \in F /\ "unknown" # "partial"
      BY DEF Unsent
    <3> HIDE DEF F
    <3> QED
      BY <3>1
  <2>2. /\ SendOK(F, "coreReset", "inactive", {<<"coreReset", "inactive">>})
        /\ SendOK(F, "coreReset", "active", {})
    BY <1>1, <2>1 DEF SendOK, FebLines, Values
  <2> QED
    BY <2>2, SendTwo DEF Toggle
<1> DEFINE rest == Do(<<If("roc" \in options, SendRocConfig),
                        If("vmm" \in options, ConfigureVmm(options)),
                        If("tds" \in options, SendTdsConfig(options)),
                        If("readback" \in options, Read("tdss")),
                        If("pulses" \in options, CreatePulses)>>)
           all  == Asked(options, "roc", RocDone) \cup Asked(options, "vmm", VmmsDone)
                \cup Asked(options, "tds", SentTds(options))
                \cup Asked(options, "pulses", {<<"tpInv", "straight">>})
           todos == IF "reset" \in options THEN Toggle("coreReset", "active", "inactive") ELSE rest
<1>4. Does(SenderFebWorld, VmmsUnsent, rest, all) /\ VmmsUnsent \subseteq F
  BY OptionsDo DEF VmmsUnsent, Unsent
<1>5. ConfigureFrontend(options) = AddOpcClientIfNew \o todos
  BY DEF ConfigureFrontend, If
<1>6. FrontendDone(options) = IF "reset" \in options THEN {<<"coreReset", "inactive">>} ELSE all
  BY DEF FrontendDone
<1> HIDE DEF F, rest, all
<1>7. Does(SenderFebWorld, F, rest, all)
  BY <1>4, DoesLess
<1>8. Does(SenderFebWorld, F, todos, FrontendDone(options))
  BY <1>3, <1>6, <1>7
<1> HIDE DEF todos
<1>9. Does(SenderFebWorld, F, AddOpcClientIfNew \o todos, FrontendDone(options))
  BY <1>2, <1>8, DoesSequence
<1> QED
  BY <1>5, <1>9 DEF F

-----------------------------------------------------------------------------
(* ADDCs.                                                                  *)

LEMMA ConnectDoes ==
  ASSUME NEW W, World(W), NEW F, Stable(W, F)
  PROVE  Does(W, F, AddOpcClientIfNew, F)
<1>1. Triple(W, At(W, F), AddOpcClientIfNew, At(W, F), At(W, F))
  BY AccessInto DEF AddOpcClientIfNew
<1> QED
  BY <1>1, AtLockable, Weaken DEF Does

LEMMA DoesSingle ==
  ASSUME NEW W, NEW F, NEW G, NEW ps, Len(ps) = 1, Does(W, F, ps[1], G)
  PROVE  Does(W, F, Do(ps), G)
<1> DEFINE f == <<F, G>>
<1>1. f[1] = F /\ f[1+1] = G
  OBVIOUS
<1> HIDE DEF f
<1>2. \A i \in 1..1 : Does(W, f[i], ps[i], f[i+1])
  BY <1>1
<1>3. Chain(W, f, ps, 1)
  BY <1>2 DEF Chain
<1> QED
  BY <1>1, <1>3, DoesDo

\* sendAddcConfig of one ART: the stages of ART::writeConfiguration.
LEMMA SendGbtxDoes ==
  ASSUME NEW W, NEW i \in Arts, ArtWorld(W, i), NEW F, Other(F, i), NEW X, Fresh(W, X)
  PROVE  Does(W, Known(F, i, ArtClocked(X)), SendGbtx(i), Known(F, i, ArtSent(X)))
<1>1. SetUpAllows(W, X)
  BY SetUpWrites
<1>2. Does(W, Known(F, i, ArtClocked(X)), WriteAll(<<i, "gbtx">>, "configured"),
           Known(F, i, ArtSent(X)))
  BY <1>1, ArtTwice DEF WriteAll, SetUpAllows
<1>3. Does(W, Known(F, i, ArtSent(X)), Write(<<i, "ttcPhase">>, "moved"), Known(F, i, ArtSent(X)))
  BY <1>1, ArtWrite DEF SetUpAllows
<1> QED
  BY <1>2, <1>3, DoesSequence DEF SendGbtx

LEMMA StartOneDoes ==
  ASSUME NEW W, NEW i \in Arts, ArtWorld(W, i), NEW F, Other(F, i), NEW X, Fresh(W, X)
  PROVE  Does(W, Known(F, i, X), StartAddc(<<i>>), Known(F, i, ArtSetUp(X)))
<1> DEFINE k(K) == Known(F, i, K)
           e1 == [j \in 1..1 |-> InitArt(<<i>>[j])]
           e2 == [j \in 1..1 |-> ResetGbtx(<<i>>[j])]
           e3 == [j \in 1..1 |-> SendGbtx(<<i>>[j])]
           e4 == [j \in 1..1 |-> ResetArt(<<i>>[j])]
           e5 == [j \in 1..1 |-> ConfigArt(<<i>>[j])]
           ps == <<Do(e1), Do(e2), Do(e3), Do(e4), Do(e5)>>
<1>1. StartAddc(<<i>>) = Do(ps)
  <2>1. Len(<<i>>) = 1
    OBVIOUS
  <2> QED
    BY <2>1 DEF StartAddc, Each
<1>2. /\ Len(e1) = 1 /\ Len(e2) = 1 /\ Len(e3) = 1 /\ Len(e4) = 1 /\ Len(e5) = 1
      /\ e1[1] = InitArt(i) /\ e2[1] = ResetGbtx(i) /\ e3[1] = SendGbtx(i)
      /\ e4[1] = ResetArt(i) /\ e5[1] = ConfigArt(i)
  OBVIOUS
<1>3. /\ Does(W, k(X), InitArt(i), k(ArtOn(X)))
      /\ Does(W, k(ArtOn(X)), ResetGbtx(i), k(ArtClocked(X)))
      /\ Does(W, k(ArtClocked(X)), SendGbtx(i), k(ArtSent(X)))
      /\ Does(W, k(ArtSent(X)), ResetArt(i), k(ArtSent(X)))
      /\ Does(W, k(ArtSent(X)), ConfigArt(i), k(ArtSetUp(X)))
  BY SetUpArtDoes, SendGbtxDoes
<1> HIDE DEF k, e1, e2, e3, e4, e5
<1>4. /\ Does(W, k(X), Do(e1), k(ArtOn(X)))
      /\ Does(W, k(ArtOn(X)), Do(e2), k(ArtClocked(X)))
      /\ Does(W, k(ArtClocked(X)), Do(e3), k(ArtSent(X)))
      /\ Does(W, k(ArtSent(X)), Do(e4), k(ArtSent(X)))
      /\ Does(W, k(ArtSent(X)), Do(e5), k(ArtSetUp(X)))
  BY <1>2, <1>3, DoesSingle
<1>5. Chain(W, <<k(X), k(ArtOn(X)), k(ArtClocked(X)), k(ArtSent(X)), k(ArtSent(X)),
                 k(ArtSetUp(X))>>, ps, 5)
  BY <1>4 DEF Chain
<1> HIDE DEF ps
<1>6. Does(W, k(X), Do(ps), k(ArtSetUp(X)))
  BY <1>5, DoesDo
<1> QED
  BY <1>1, <1>6 DEF k

LEMMA AlignOneDoes ==
  ASSUME NEW W, NEW i \in Arts, ArtWorld(W, i), NEW F, Other(F, i), NEW X, Fresh(W, X),
         NEW settings
  PROVE  Does(W, Known(F, i, ArtSetUp(X)), AlignAddc(<<i>>, settings),
              Known(F, i, ArtDone(settings)))
<1> DEFINE k(K) == Known(F, i, K)
           e1 == [j \in 1..1 |-> MaskArt(<<i>>[j])]
           e2 == [j \in 1..1 |-> TrainGbtx(<<i>>[j])]
           e3 == [j \in 1..1 |-> FailsafeMode(<<i>>[j], settings)]
           e4 == [j \in 1..1 |-> UnmaskArt(<<i>>[j])]
           e5 == [j \in 1..1 |-> AdjustPhase(<<i>>[j])]
           ps == <<Do(e1), Do(e2), Do(e3), Do(e4), Do(e5)>>
<1>1. AlignAddc(<<i>>, settings) = Do(ps)
  <2>1. Len(<<i>>) = 1
    OBVIOUS
  <2> QED
    BY <2>1 DEF AlignAddc, Each
<1>2. /\ Len(e1) = 1 /\ Len(e2) = 1 /\ Len(e3) = 1 /\ Len(e4) = 1 /\ Len(e5) = 1
      /\ e1[1] = MaskArt(i) /\ e2[1] = TrainGbtx(i) /\ e3[1] = FailsafeMode(i, settings)
      /\ e4[1] = UnmaskArt(i) /\ e5[1] = AdjustPhase(i)
  OBVIOUS
<1>3. /\ Does(W, k(ArtSetUp(X)), MaskArt(i), k(ArtMasked))
      /\ Does(W, k(ArtMasked), TrainGbtx(i), k(ArtTrained))
      /\ Does(W, k(ArtTrained), FailsafeMode(i, settings), k(ArtSafe(settings)))
      /\ Does(W, k(ArtSafe(settings)), UnmaskArt(i), k(ArtOpened(settings)))
      /\ Does(W, k(ArtOpened(settings)), AdjustPhase(i), k(ArtDone(settings)))
  BY TrainArtDoes, OpenArtDoes
<1> HIDE DEF k, e1, e2, e3, e4, e5
<1>4. /\ Does(W, k(ArtSetUp(X)), Do(e1), k(ArtMasked))
      /\ Does(W, k(ArtMasked), Do(e2), k(ArtTrained))
      /\ Does(W, k(ArtTrained), Do(e3), k(ArtSafe(settings)))
      /\ Does(W, k(ArtSafe(settings)), Do(e4), k(ArtOpened(settings)))
      /\ Does(W, k(ArtOpened(settings)), Do(e5), k(ArtDone(settings)))
  BY <1>2, <1>3, DoesSingle
<1>5. Chain(W, <<k(ArtSetUp(X)), k(ArtMasked), k(ArtTrained), k(ArtSafe(settings)),
                 k(ArtOpened(settings)), k(ArtDone(settings))>>, ps, 5)
  BY <1>4 DEF Chain
<1> HIDE DEF ps
<1>6. Does(W, k(ArtSetUp(X)), Do(ps), k(ArtDone(settings)))
  BY <1>5, DoesDo
<1> QED
  BY <1>1, <1>6 DEF k

\* What NSWConfig::configureADDC does for an ART.
SenderArt(i, skip, must, settings) ==
  IF i \in skip THEN Warn
  ELSE Attempt(AddOpcClientIfNew \o SendAddcConfig(<<i>>, settings),
               IF i \in must THEN Raise ELSE Warn)

Reported(W) == {s \in States(W) : s.warned = TRUE}
Begun       == {<<"eports", "unknown">>}

LEMMA SenderArtDoes ==
  ASSUME NEW W, NEW i \in Arts, ArtWorld(W, i), TRUE \in W.warnings, NEW F, Other(F, i),
         NEW skip, NEW must, NEW settings
  PROVE  Triple(W, At(W, Known(F, i, Begun)), SenderArt(i, skip, must, settings),
                Reported(W) \cup At(W, Known(F, i, ArtDone(settings))), States(W))
<1> DEFINE S == At(W, Known(F, i, Begun))
           done == At(W, Known(F, i, ArtDone(settings)))
           T == Reported(W) \cup done
           body == AddOpcClientIfNew \o SendAddcConfig(<<i>>, settings)
           handler == IF i \in must THEN Raise ELSE Warn
<1>1. /\ World(W) /\ \A A : A \subseteq States(W) => Lockable(W, A)
      /\ S \subseteq States(W) /\ done \subseteq States(W) /\ Reported(W) \subseteq States(W)
  <2>1. World(W) /\ W.plls = FALSE
    BY ArtIsWorld DEF ArtWorld
  <2> QED
    BY <2>1 DEF Lockable, CanLock, At, Reported
<1>2. Triple(W, States(W), Warn, Reported(W), States(W))
  BY <1>1, WarnRule DEF Reported
<1>3. Fresh(W, Begun)
  <2>1. <<"eports", "unknown">> \in Begun /\ "unknown" \notin Unsettled
    BY DEF Begun, Unsettled
  <2>2. \E p \in Begun : p[1] = "eports" /\ p[2] \notin Unsettled
    BY <2>1
  <2> QED
    BY <2>2 DEF Fresh, Settled, Begun
<1>4. Stable(W, Known(F, i, Begun))
  <2>1. ArtWriteOK(W, Begun, "artReset", "inactive", ArtOn(Begun))
    BY <1>3, SetUpWrites DEF SetUpAllows
  <2> QED
    BY <2>1, ArtWrites
<1>5. Triple(W, S, body, done, States(W))
  <2>1. Does(W, Known(F, i, Begun), AddOpcClientIfNew, Known(F, i, Begun))
    BY <1>1, <1>4, ConnectDoes
  <2>2. Does(W, Known(F, i, Begun), SendAddcConfig(<<i>>, settings), Known(F, i, ArtDone(settings)))
    BY <1>3, StartOneDoes, AlignOneDoes, DoesSequence DEF SendAddcConfig
  <2>3. Does(W, Known(F, i, Begun), body, Known(F, i, ArtDone(settings)))
    BY <2>1, <2>2, DoesSequence
  <2> QED
    BY <2>3 DEF Does
<1> HIDE DEF S, done, body
<1>6. Triple(W, S, body, T, States(W))
  BY <1>5, Weaken
<1>7. Triple(W, States(W), handler, T, States(W))
  <2>1. Triple(W, States(W), Warn, T, States(W))
    BY <1>2, Weaken
  <2>2. Triple(W, States(W), Raise, T, States(W))
    BY <1>1, RaiseRule
  <2> QED
    BY <2>1, <2>2
<1>8. Triple(W, S, Attempt(body, handler), T, States(W))
  <2>1. Lockable(W, S) /\ Lockable(W, T)
    BY <1>1
  <2> HIDE DEF T, handler
  <2> QED
    BY <1>6, <1>7, <2>1, AttemptRule
<1>9. Triple(W, S, Warn, T, States(W))
  BY <1>1, <1>2, Weaken
<1> HIDE DEF T
<1>10. Triple(W, S, SenderArt(i, skip, must, settings), T, States(W))
  BY <1>8, <1>9 DEF SenderArt, body, handler
<1> QED
  BY <1>10 DEF T, S, done

\* The world of an ADDC, and those parts of it in which the second ART is still
\* as it was, or a problem was reported.
SenderAddcOf(never, warnings) ==
  [lines |-> AddcLines, values |-> Values, never |-> never, ties |-> AddcTies, plls |-> FALSE,
   forgives |-> FALSE, warnings |-> warnings, guards |-> {}]
SenderAddcWorld == SenderAddcOf({}, BOOLEAN)
FirstArtWorld   == SenderAddcOf({<<<<1, name>>, value>> : name \in ArtNames,
                                                        value \in Values \ {"unknown"}}, BOOLEAN)
ReportedWorld   == SenderAddcOf({}, {TRUE})

LEMMA AddcWorlds ==
  /\ ArtWorld(SenderAddcWorld, 1) /\ ArtWorld(FirstArtWorld, 0) /\ ArtWorld(ReportedWorld, 1)
  /\ World(SenderAddcWorld)
  /\ Smaller(FirstArtWorld, SenderAddcWorld) /\ Smaller(ReportedWorld, SenderAddcWorld)
<1>1. ASSUME NEW i \in Arts, NEW never, NEW warnings \in SUBSET BOOLEAN,
             \A name, value : <<<<i, name>>, value>> \notin never
      PROVE  ArtWorld(SenderAddcOf(never, warnings), i)
  BY <1>1 DEF ArtWorld, SenderAddcOf
<1>2. ArtWorld(SenderAddcWorld, 1) /\ ArtWorld(ReportedWorld, 1)
  BY <1>1 DEF SenderAddcWorld, ReportedWorld, Arts
<1>3. ArtWorld(FirstArtWorld, 0)
  <2> DEFINE never == {<<<<1, name>>, value>> : name \in ArtNames, value \in Values \ {"unknown"}}
  <2>1. \A name, value : <<<<0, name>>, value>> \notin never
    OBVIOUS
  <2> HIDE DEF never
  <2> QED
    BY <1>1, <2>1 DEF FirstArtWorld, Arts, never
<1>4. ASSUME NEW never, NEW warnings \in SUBSET BOOLEAN
      PROVE  Smaller(SenderAddcOf(never, warnings), SenderAddcWorld)
  <2> DEFINE V == SenderAddcOf(never, warnings)
             W == SenderAddcWorld
  <2>1. /\ V.lines = AddcLines /\ V.values = Values /\ V.ties = AddcTies /\ V.warnings = warnings
        /\ V.plls = FALSE
        /\ W.lines = AddcLines /\ W.values = Values /\ W.ties = AddcTies /\ W.warnings = BOOLEAN
        /\ W.plls = FALSE /\ W.never = {} /\ W.guards = {}
    BY DEF SenderAddcWorld, SenderAddcOf
  <2> HIDE DEF V, W
  <2>2. States(V) \subseteq States(W)
    BY <2>1 DEF States, Tied
  <2> QED
    BY <2>1, <2>2 DEF Smaller, V, W
<1>5. Smaller(FirstArtWorld, SenderAddcWorld) /\ Smaller(ReportedWorld, SenderAddcWorld)
  <2> DEFINE never == {<<<<1, name>>, value>> : name \in ArtNames, value \in Values \ {"unknown"}}
  <2>1. FirstArtWorld = SenderAddcOf(never, BOOLEAN) /\ ReportedWorld = SenderAddcOf({}, {TRUE})
    BY DEF FirstArtWorld, ReportedWorld
  <2>2. BOOLEAN \in SUBSET BOOLEAN /\ {TRUE} \in SUBSET BOOLEAN
    OBVIOUS
  <2> HIDE DEF never
  <2> QED
    BY <1>4, <2>1, <2>2
<1> QED
  BY <1>2, <1>3, <1>5, ArtIsWorld DEF Arts

\* What is known when an ADDC is begun: of either ART nothing but that its
\* e-ports are not in training.
AddcBegun == {s \in States(FirstArtWorld) : s.lines[<<0, "eports">>] = "unknown"}

LEMMA ConfigureAddcDoes ==
  ASSUME NEW skip, NEW must, NEW settings
  PROVE  Triple(SenderAddcWorld, AddcBegun, ConfigureAddc(skip, must, settings),
                {s \in States(SenderAddcWorld) : s.warned = TRUE \/ AddcReady(s.lines, settings)},
                States(SenderAddcWorld))
<1> DEFINE W == SenderAddcWorld
           V == FirstArtWorld
           R == ReportedWorld
           first == Known({}, 0, ArtDone(settings))
           both  == Known(first, 1, ArtDone(settings))
           p == SenderArt(0, skip, must, settings)
           q == SenderArt(1, skip, must, settings)
           T == {s \in States(W) : s.warned = TRUE \/ AddcReady(s.lines, settings)}
<1>1. ConfigureAddc(skip, must, settings) = p \o q
  BY DEF ConfigureAddc, SenderArt
<1>2. /\ TRUE \in W.warnings /\ TRUE \in V.warnings /\ TRUE \in R.warnings
      /\ W.forgives = FALSE /\ V.forgives = FALSE /\ R.forgives = FALSE
      /\ W.values = Values /\ W.lines = AddcLines
  BY DEF SenderAddcWorld, FirstArtWorld, ReportedWorld, SenderAddcOf
<1>3. Other({}, 0) /\ Other({}, 1) /\ Other(first, 1)
  <2>1. \A d \in ArtDone(settings) : d[1] \in ArtNames
    BY DEF ArtDone, ArtNames, ArtSetUp, ArtSent, ArtClocked, ArtOn
  <2> QED
    BY <2>1 DEF Other, Known, Arts
<1>4. Known({}, 0, Begun) = {<<<<0, "eports">>, "unknown">>}
      /\ Known({}, 1, Begun) = {<<<<1, "eports">>, "unknown">>}
      /\ Known(first, 1, Begun) = first \cup {<<<<1, "eports">>, "unknown">>}
  <2> HIDE DEF first
  <2> QED
    BY DEF Known, Begun
<1> HIDE DEF first, p, q
<1>5. Triple(V, At(V, Known({}, 0, Begun)), p, Reported(V) \cup At(V, first), States(V))
  BY <1>2, <1>3, AddcWorlds, SenderArtDoes DEF p, first, Arts
<1>6. Triple(W, At(W, Known(first, 1, Begun)), q, Reported(W) \cup At(W, both), States(W))
  BY <1>2, <1>3, AddcWorlds, SenderArtDoes DEF q, Arts
<1>7. Triple(R, At(R, Known({}, 1, Begun)), q,
             Reported(R) \cup At(R, Known({}, 1, ArtDone(settings))), States(R))
  BY <1>2, <1>3, AddcWorlds, SenderArtDoes DEF q, Arts
<1>8. AddcBegun \subseteq At(V, Known({}, 0, Begun))
  BY <1>4 DEF AddcBegun, At
\* The second ART is as it was, whatever became of the first.
<1>9. \A s \in States(V) : s \in States(W) /\ s.lines[<<1, "eports">>] = "unknown"
  <2>1. \A s \in States(V) : s \in States(W)
    BY AddcWorlds DEF Smaller
  <2>2. ASSUME NEW s \in States(V)
        PROVE  s.lines[<<1, "eports">>] = "unknown"
    <3> DEFINE value == s.lines[<<1, "eports">>]
    <3>1. <<1, "eports">> \in AddcLines /\ "eports" \in ArtNames
      BY DEF AddcLines, Arts, ArtNames
    <3>2. V.lines = AddcLines /\ V.values = Values
      BY DEF FirstArtWorld, SenderAddcOf
    <3>3. value \in Values /\ <<<<1, "eports">>, value>> \notin V.never
      BY <3>1, <3>2 DEF States
    <3> HIDE DEF value
    <3>4. <<<<1, "eports">>, value>> \notin
            {<<<<1, name>>, v>> : name \in ArtNames, v \in Values \ {"unknown"}}
      BY <3>3 DEF FirstArtWorld, SenderAddcOf
    <3>5. value = "unknown"
      BY <3>1, <3>3, <3>4
    <3> QED
      BY <3>5 DEF value
  <2> QED
    BY <2>1, <2>2
<1>10. At(V, first) \subseteq At(W, Known(first, 1, Begun))
  BY <1>2, <1>4, <1>9 DEF At
<1>11. Reported(V) \subseteq At(R, Known({}, 1, Begun))
  <2>1. ASSUME NEW s \in Reported(V)
        PROVE  s \in States(R) /\ s.lines[<<1, "eports">>] = "unknown"
    <3>1. s \in States(W) /\ s.lines[<<1, "eports">>] = "unknown" /\ s.warned = TRUE
      BY <1>9 DEF Reported
    <3>2. /\ W.lines = R.lines /\ W.values = R.values /\ W.never = R.never /\ W.ties = R.ties
          /\ R.warnings = {TRUE}
      BY DEF SenderAddcWorld, ReportedWorld, SenderAddcOf
    <3> HIDE DEF W, R
    <3>3. s \in [lines : [W.lines -> W.values], warned : W.warnings]
      BY <3>1 DEF States
    <3>4. s \in [lines : [W.lines -> W.values], warned : {TRUE}]
      BY <3>1, <3>3
    <3>5. s \in States(R)
      BY <3>1, <3>2, <3>4 DEF States, Tied
    <3> QED
      BY <3>1, <3>5
  <2> QED
    BY <1>4, <2>1 DEF At
<1>12. At(W, both) \subseteq T /\ Reported(W) \subseteq T /\ States(R) \subseteq T
  <2>1. \A s \in At(W, both) : AddcReady(s.lines, settings)
    <3> SUFFICES ASSUME NEW s \in At(W, both) PROVE AddcReady(s.lines, settings)
      OBVIOUS
    <3>1. \A d \in both : s.lines[d[1]] = d[2]
      BY <1>2 DEF At
    <3>2. \A i \in Arts : \A d \in ArtDone(settings) : <<<<i, d[1]>>, d[2]>> \in both
      BY DEF Known, Arts, first
    <3> HIDE DEF both
    <3>3. \A i \in Arts : \A d \in ArtDone(settings) : s.lines[<<i, d[1]>>] = d[2]
      BY <3>1, <3>2
    <3>4. /\ {<<"artReset", "inactive">>, <<"gbtxReset", "inactive">>, <<"gbtx", "configured">>,
              <<"registers", "configured">>, <<"patterns", "configured">>, <<"eports", "off">>,
              <<"mask", "configured">>, <<"ttcPhase", "adjusted">>} \subseteq ArtDone(settings)
          /\ <<"flags", FlagsOf(settings)>> \in ArtDone(settings)
      BY DEF ArtDone, ArtSetUp, ArtSent, ArtClocked, ArtOn
    <3> QED
      BY <3>3, <3>4 DEF AddcReady, FlagsOf
  <2>2. At(W, both) \subseteq States(W) /\ States(R) \subseteq States(W)
    BY AddcWorlds DEF At, Smaller
  <2>3. \A s \in States(R) : s.warned = TRUE
    BY DEF States, ReportedWorld, SenderAddcOf
  <2> QED
    BY <2>1, <2>2, <2>3 DEF Reported
<1>13. /\ Reported(R) \subseteq States(R)
       /\ At(R, Known({}, 1, ArtDone(settings))) \subseteq States(R)
       /\ States(R) \subseteq States(W) /\ States(V) \subseteq States(W)
  BY AddcWorlds DEF Reported, At, Smaller
<1> HIDE DEF T, V, R, W, both
<1>14. Triple(W, At(W, Known(first, 1, Begun)), q, T, States(W))
  BY <1>6, <1>12, Weaken
<1>15. Triple(W, At(R, Known({}, 1, Begun)), q, T, States(W))
  <2>1. Triple(R, At(R, Known({}, 1, Begun)), q, T, States(W))
    BY <1>7, <1>12, <1>13, Weaken
  <2> QED
    BY <2>1, AddcWorlds, InLarger DEF R, W
<1>16. Triple(W, Reported(V) \cup At(V, first), q, T, States(W))
  <2>1. Triple(W, At(W, Known(first, 1, Begun)) \cup At(R, Known({}, 1, Begun)), q, T, States(W))
    BY <1>14, <1>15, CasesRule
  <2> QED
    BY <1>10, <1>11, <2>1, Weaken
<1>17. Triple(W, AddcBegun, p, Reported(V) \cup At(V, first), States(W))
  <2>1. Triple(V, AddcBegun, p, Reported(V) \cup At(V, first), States(W))
    BY <1>5, <1>8, <1>13, Weaken
  <2> QED
    BY <2>1, AddcWorlds, InLarger DEF V, W
<1>18. Triple(W, AddcBegun, p \o q, T, States(W))
  BY <1>16, <1>17, SequenceRule
<1> QED
  BY <1>1, <1>18 DEF T, W

-----------------------------------------------------------------------------
(* Trigger processors.                                                     *)

SenderTpWorld ==
  [lines |-> TpRegisters, values |-> {"unknown", "reset", "configured"}, never |-> {}, ties |-> {},
   plls |-> FALSE, forgives |-> FALSE, warnings |-> {FALSE}, guards |-> {}]

LEMMA SenderTpIsWorld ==
  /\ World(SenderTpWorld)
  /\ \A F : (\A p \in F : p[1] \in TpRegisters) => Stable(SenderTpWorld, F)
BY DEF World, Stable, SenderTpWorld

LEMMA TpWrites ==
  ASSUME NEW F, NEW G, NEW r \in TpRegisters, \A p \in F : p[1] \in TpRegisters,
         \A p \in G : p = <<r, "configured">> \/ (p \in F /\ p[1] # r)
  PROVE  /\ Does(SenderTpWorld, F, Write(r, "configured"), G)
         /\ Does(SenderTpWorld, F, Toggle(r, "reset", "configured"), G)
<1>1. \A p \in G : p[1] \in TpRegisters
  OBVIOUS
<1>2. /\ Permitted(SenderTpWorld, F, r, "configured") /\ Permitted(SenderTpWorld, F, r, "reset")
      /\ SenderTpWorld.plls = FALSE /\ SenderTpWorld.guards = {}
  BY DEF Permitted, SenderTpWorld
<1>3. Writes(SenderTpWorld, F, r, "configured", G) /\ Guarded(SenderTpWorld, F, r, "reset")
  BY <1>1, <1>2, SenderTpIsWorld DEF Writes, Guarded
<1> QED
  BY <1>2, <1>3, SenderTpIsWorld, DoesWrite, DoesTwice DEF Toggle

\* The registers that sendTPConfig writes, in their order.
Sending == Required \o Optional

LEMMA SendingAll ==
  /\ Len(Sending) = 14 /\ \A k \in 1..14 : Sending[k] \in TpRegisters
  /\ \A r \in TpRegisters : \E k \in 1..14 : r = Sending[k]
<1> DEFINE X == {"ADDC_EMU_DISABLE", "L1A_OPENING_OFFSET", "L1A_REQUEST_OFFSET",
                 "L1A_CLOSING_OFFSET", "L1A_TIMEOUT_WINDOW", "L1A_CONTROL",
                 "FIBER_BC_OFFSET", "INPUT_PHASE", "HORX_ENV_MON_ADDR"}
           Y == {"INPUT_PHASEADDCOFFSET", "SELFTRIGGER_DELAY", "VMM_MASK_HOT_THRESH",
                 "VMM_MASK_HOT_THRESH_HYST", "VMM_MASK_DRAIN_PERIOD"}
           Z == X \cup Y
<1>1. Required \in Seq(X) /\ Len(Required) = 9
  BY DEF Required
<1>2. Optional \in Seq(Y) /\ Len(Optional) = 5
  BY DEF Optional
<1> HIDE DEF X, Y
<1>3. Required \in Seq(Z) /\ Optional \in Seq(Z)
  BY <1>1, <1>2, SeqMonotonic
<1> HIDE DEF Z
<1>4. Sending \in Seq(Z) /\ Len(Sending) = 14
  <2>1. Required \o Optional \in Seq(Z)
        /\ Len(Required \o Optional) = Len(Required) + Len(Optional)
    BY <1>3, ConcatProperties
  <2>2. Sending = Required \o Optional
    BY DEF Sending
  <2> QED
    BY <1>1, <1>2, <2>1, <2>2
<1>5. DOMAIN Sending = 1..14
  BY <1>4, LenProperties
<1>6. TpRegisters = {Sending[k] : k \in DOMAIN Sending}
  BY DEF TpRegisters, Range, Sending
<1> QED
  BY <1>4, <1>5, <1>6

LEMMA SendTpDoes ==
  ASSUME NEW unset, NEW skipped, NEW D,
         D = {<<r, "configured">> : r \in TpRegisters \ (skipped \cup unset)}
  PROVE  Does(SenderTpWorld, {}, AddOpcClientIfNew \o SendTpConfig(unset, skipped), D)
<1> DEFINE sent(r) == r \notin skipped /\ (r \in Range(Optional) => r \notin unset)
           Send(r) == IF r = "L1A_CONTROL" THEN Toggle(r, "reset", "configured")
                      ELSE Write(r, "configured")
           ps == [k \in 1..Len(Sending) |-> If(sent(Sending[k]), Send(Sending[k]))]
           upto(n) == {i \in 1..14 : i < n /\ sent(Sending[i])}
           f == [n \in 1..15 |-> {<<Sending[i], "configured">> : i \in upto(n)}]
<1>1. SendTpConfig(unset, skipped) = Do(ps)
  BY DEF SendTpConfig, Sending
<1>2. Len(ps) = 14 /\ \A k \in 1..14 : ps[k] = If(sent(Sending[k]), Send(Sending[k]))
  BY SendingAll
<1> HIDE DEF ps, sent
<1>3. ASSUME NEW k \in 1..14
      PROVE  Does(SenderTpWorld, f[k], ps[k], f[k+1])
  <2> DEFINE r == Sending[k]
             F == {<<Sending[i], "configured">> : i \in upto(k)}
             G == {<<Sending[i], "configured">> : i \in upto(k + 1)}
  <2>1. f[k] = F /\ f[k+1] = G
    OBVIOUS
  <2>2. r \in TpRegisters /\ \A p \in F : p[1] \in TpRegisters
    BY SendingAll
  <2>3. \A i \in upto(k + 1) : (i = k /\ sent(r)) \/ i \in upto(k)
    OBVIOUS
  <2> HIDE DEF upto
  <2>4. CASE sent(r)
    <3>1. \A p \in G : p = <<r, "configured">> \/ (p \in F /\ p[1] # r)
      BY <2>3
    <3> HIDE DEF F, G, r
    <3>2. /\ Does(SenderTpWorld, F, Write(r, "configured"), G)
          /\ Does(SenderTpWorld, F, Toggle(r, "reset", "configured"), G)
      BY <2>2, <3>1, TpWrites
    <3>3. ps[k] = Send(r)
      BY <1>2, <2>4 DEF If, r
    <3> QED
      BY <2>1, <3>2, <3>3
  <2>5. CASE ~sent(r)
    <3>1. G \subseteq F
      BY <2>3, <2>5
    <3> HIDE DEF F, G
    <3>2. ps[k] = Nothing
      BY <1>2, <2>5 DEF If, Nothing
    <3>3. Does(SenderTpWorld, F, Nothing, G)
      BY <2>2, <3>1, SenderTpIsWorld, DoesNothing
    <3> QED
      BY <2>1, <3>2, <3>3
  <2> QED
    BY <2>4, <2>5
<1>4. f[1] = {}
  OBVIOUS
<1>5. D \subseteq f[14+1]
  <2> SUFFICES ASSUME NEW p \in D PROVE p \in f[15]
    OBVIOUS
  <2>1. PICK r \in TpRegisters \ (skipped \cup unset) : p = <<r, "configured">>
    OBVIOUS
  <2>2. PICK i \in 1..14 : r = Sending[i]
    BY SendingAll
  <2>3. sent(r) /\ i < 15
    BY <2>1, <2>2 DEF sent
  <2>4. i \in upto(15)
    BY <2>2, <2>3
  <2> HIDE DEF upto
  <2> QED
    BY <2>1, <2>2, <2>4
<1> HIDE DEF f
<1>6. Chain(SenderTpWorld, f, ps, 14)
  BY <1>2, <1>3 DEF Chain
<1>7. Does(SenderTpWorld, {}, Do(ps), f[14+1])
  BY <1>4, <1>6, DoesDo
<1>8. Does(SenderTpWorld, {}, Do(ps), D)
  BY <1>5, <1>7, DoesLess
<1>9. Does(SenderTpWorld, {}, AddOpcClientIfNew, {})
  BY SenderTpIsWorld, ConnectDoes
<1> QED
  BY <1>1, <1>8, <1>9, DoesSequence
-----------------------------------------------------------------------------
(* The alignment of the fibres, in whose world a QPLL is in reset only     *)
(* while its fibre is not aligned.                                         *)

SenderAlignWorld(quads) ==
  [lines |-> {"scaxAddress", "fibers", "qpllReset"}, values |-> (SUBSET quads) \cup {{"fibers"}},
   never |-> {<<"qpllReset", value>> : value \in {{"fibers"}} \ SUBSET quads},
   ties |-> {[line |-> "qpllReset", values |-> {value \in SUBSET quads : q \in value},
              by |-> "fibers", ats |-> {value \in SUBSET quads : q \notin value}] : q \in quads},
   plls |-> FALSE, forgives |-> FALSE, warnings |-> {FALSE}, guards |-> {}]
NoReset == {<<"qpllReset", {}>>}

LEMMA SenderAlignIsWorld ==
  ASSUME NEW quads
  PROVE  /\ World(SenderAlignWorld(quads))
         /\ \A F : (\A p \in F : p[1] \in {"scaxAddress", "fibers", "qpllReset"}) =>
                     Stable(SenderAlignWorld(quads), F)
<1>1. World(SenderAlignWorld(quads))
  BY DEF World, SenderAlignWorld
<1> QED
  BY <1>1 DEF Stable, SenderAlignWorld

\* A fibre may be found aligned when its QPLL is not in reset, and is reset only
\* when it was found not aligned.
AlignOK(quads, F, line, value) ==
  \/ line = "scaxAddress" /\ value = {"fibers"}
  \/ line = "fibers" /\ value \in SUBSET quads /\ <<"qpllReset", {}>> \in F
  \/ line = "qpllReset" /\ \E good \in SUBSET quads :
       <<"fibers", good>> \in F /\ value \in SUBSET (quads \ good)

LEMMA AlignPermitted ==
  ASSUME NEW quads, NEW F, NEW line, NEW value, AlignOK(quads, F, line, value)
  PROVE  Permitted(SenderAlignWorld(quads), F, line, value)
<1> DEFINE W == SenderAlignWorld(quads)
           own == {"fibers"}
<1>1. /\ W.lines = {"scaxAddress", "fibers", "qpllReset"}
      /\ W.values = (SUBSET quads) \cup {own}
      /\ \A l, v : <<l, v>> \in W.never => l = "qpllReset" /\ v \notin SUBSET quads
      /\ \A h \in W.ties : \E q \in quads :
           /\ h.line = "qpllReset" /\ h.values = {v \in SUBSET quads : q \in v}
           /\ h.by = "fibers" /\ h.ats = {v \in SUBSET quads : q \notin v}
  BY DEF SenderAlignWorld
<1>2. /\ line \in W.lines /\ value \in W.values
      /\ line = "qpllReset" => value \in SUBSET quads
  <2>1. CASE line = "scaxAddress" /\ value = own
    <3> HIDE DEF W, own
    <3> QED
      BY <1>1, <2>1
  <2>2. CASE line = "fibers" /\ value \in SUBSET quads
    <3> HIDE DEF W, own
    <3> QED
      BY <1>1, <2>2
  <2>3. CASE line = "qpllReset" /\ \E good \in SUBSET quads : value \in SUBSET (quads \ good)
    <3> HIDE DEF W, own
    <3>1. value \in SUBSET quads
      BY <2>3
    <3> QED
      BY <1>1, <2>3, <3>1
  <2> QED
    BY <2>1, <2>2, <2>3 DEF AlignOK
<1> HIDE DEF W
<1>3. ASSUME NEW h \in W.ties
      PROVE  /\ h.line = line /\ value \in h.values => \E p \in F : p[1] = h.by /\ p[2] \in h.ats
             /\ h.by = line /\ value \notin h.ats => \E p \in F : p[1] = h.line /\ p[2] \notin h.values
  <2>1. PICK q \in quads :
           /\ h.line = "qpllReset" /\ h.values = {v \in SUBSET quads : q \in v}
           /\ h.by = "fibers" /\ h.ats = {v \in SUBSET quads : q \notin v}
    BY <1>1
  <2>2. ASSUME h.line = line, value \in h.values
        PROVE  \E p \in F : p[1] = h.by /\ p[2] \in h.ats
    <3>1. PICK good \in SUBSET quads : <<"fibers", good>> \in F /\ value \in SUBSET (quads \ good)
      BY <2>1, <2>2 DEF AlignOK
    <3>2. good \in h.ats
      BY <2>1, <2>2, <3>1
    <3> QED
      BY <2>1, <3>1, <3>2
  <2>3. ASSUME h.by = line, value \notin h.ats
        PROVE  \E p \in F : p[1] = h.line /\ p[2] \notin h.values
    <3>1. <<"qpllReset", {}>> \in F /\ {} \notin h.values
      BY <2>1, <2>3 DEF AlignOK
    <3> QED
      BY <2>1, <3>1
  <2> QED
    BY <2>2, <2>3
<1> QED
  BY <1>1, <1>2, <1>3 DEF Permitted, W

LEMMA AlignWrites ==
  ASSUME NEW quads, NEW F, NEW G, NEW line, NEW value, AlignOK(quads, F, line, value),
         \A p \in F : p[1] \in {"scaxAddress", "fibers", "qpllReset"},
         \A p \in G : p = <<line, value>> \/ (p \in F /\ p[1] # line)
  PROVE  /\ Writes(SenderAlignWorld(quads), F, line, value, G)
         /\ Stable(SenderAlignWorld(quads), F)
<1>1. Permitted(SenderAlignWorld(quads), F, line, value)
  BY AlignPermitted
<1>2. line \in {"scaxAddress", "fibers", "qpllReset"}
  BY DEF AlignOK
<1>3. \A p \in G : p[1] \in {"scaxAddress", "fibers", "qpllReset"}
  BY <1>2
<1>4. SenderAlignWorld(quads).plls = FALSE /\ SenderAlignWorld(quads).guards = {}
  BY DEF SenderAlignWorld
<1> QED
  BY <1>1, <1>3, <1>4, SenderAlignIsWorld DEF Writes, Guarded

LEMMA ReadingDoes ==
  ASSUME NEW quads, NEW G, G = NoReset \cup {<<"fibers", quads>>}, NEW p,
         Does(SenderAlignWorld(quads), NoReset, p, G)
  PROVE  Does(SenderAlignWorld(quads), NoReset, Reading(quads, p), G)
<1> DEFINE W == SenderAlignWorld(quads)
           known(good) == NoReset \cup {<<"fibers", good>>}
           value(good) == QpllReset(quads \ good, quads)
           again(good) == Write("qpllReset", value(good)) \o Write("qpllReset", {}) \o p
           then(good) == IF good = quads THEN Nothing ELSE again(good)
           way(good) == Settle("fibers", good) \o Read("fibers") \o then(good)
           ways == {way(good) : good \in SUBSET quads}
<1>1. World(W) /\ Stable(W, NoReset) /\ W.plls = FALSE
  <2>1. \A d \in NoReset : d[1] \in {"scaxAddress", "fibers", "qpllReset"}
    BY DEF NoReset
  <2> QED
    BY <2>1, SenderAlignIsWorld DEF SenderAlignWorld
<1>2. Does(W, NoReset, Write("scaxAddress", {"fibers"}), NoReset)
  <2>1. AlignOK(quads, NoReset, "scaxAddress", {"fibers"})
    BY DEF AlignOK
  <2>2. \A d \in NoReset : d[1] \in {"scaxAddress", "fibers", "qpllReset"} /\ d[1] # "scaxAddress"
    BY DEF NoReset
  <2>3. Writes(W, NoReset, "scaxAddress", {"fibers"}, NoReset)
    BY <2>1, <2>2, AlignWrites
  <2> QED
    BY <1>1, <2>3, DoesWrite
<1>3. ASSUME NEW good \in SUBSET quads
      PROVE  Does(W, NoReset, way(good), G)
  <2>1. /\ \A d \in NoReset : d = <<"qpllReset", {}>>
        /\ \A d \in known(good) : d = <<"qpllReset", {}>> \/ d = <<"fibers", good>>
        /\ <<"fibers", good>> \in known(good) /\ <<"qpllReset", {}>> \in NoReset
        /\ value(good) \in SUBSET (quads \ good)
    BY DEF NoReset, QpllReset
  <2> DEFINE k == known(good)
             v == value(good)
  <2> HIDE DEF k, v, W
  <2>2. AlignOK(quads, NoReset, "fibers", good)
    BY <2>1 DEF AlignOK
  <2>3. AlignOK(quads, k, "qpllReset", v) /\ AlignOK(quads, k, "qpllReset", {})
    BY <2>1 DEF AlignOK, k, v
  <2>4. /\ \A d \in NoReset : d[1] \in {"scaxAddress", "fibers", "qpllReset"}
        /\ \A d \in k : d[1] \in {"scaxAddress", "fibers", "qpllReset"}
        /\ \A d \in k : d = <<"fibers", good>> \/ (d \in NoReset /\ d[1] # "fibers")
        /\ \A d \in NoReset : d = <<"qpllReset", {}>> \/ (d \in k /\ d[1] # "qpllReset")
    BY <2>1 DEF k
  <2>5. Writes(W, NoReset, "fibers", good, k) /\ Writes(W, k, "qpllReset", {}, NoReset)
        /\ Permitted(W, k, "qpllReset", v) /\ Guarded(W, k, "qpllReset", v) /\ Stable(W, k)
    <3>1. Writes(W, NoReset, "fibers", good, k)
      BY <2>2, <2>4, AlignWrites DEF W
    <3>2. Writes(W, k, "qpllReset", {}, NoReset) /\ Stable(W, k)
      BY <2>3, <2>4, AlignWrites DEF W
    <3>3. Permitted(W, k, "qpllReset", v)
      BY <2>3, AlignPermitted DEF W
    <3>4. Guarded(W, k, "qpllReset", v)
      BY DEF Guarded, W, SenderAlignWorld
    <3> QED
      BY <3>1, <3>2, <3>3, <3>4
  <2>6. Does(W, NoReset, Settle("fibers", good), k) /\ Does(W, k, Read("fibers"), k)
    BY <1>1, <2>5, DoesSettle, DoesRead
  <2>7. Does(W, k, Write("qpllReset", v) \o Write("qpllReset", {}), NoReset)
    BY <1>1, <2>5, DoesTwice
  <2>8. Does(W, k, Write("qpllReset", v) \o Write("qpllReset", {}) \o p, G)
    BY <2>7, DoesSequence DEF W
  <2>9. CASE good = quads
    <3>1. k = G
      BY <2>9 DEF k
    <3>2. Does(W, k, Nothing, G)
      BY <1>1, <2>5, <3>1, DoesNothing
    <3>3. Does(W, NoReset, Settle("fibers", good) \o Read("fibers") \o Nothing, G)
      BY <2>6, <3>2, DoesSequence
    <3> QED
      BY <2>9, <3>3
  <2>10. CASE good # quads
    <3>1. Does(W, NoReset, Settle("fibers", good) \o Read("fibers")
                 \o (Write("qpllReset", v) \o Write("qpllReset", {}) \o p), G)
      BY <2>6, <2>8, DoesSequence
    <3> QED
      BY <2>10, <3>1 DEF v
  <2> QED
    BY <2>9, <2>10
<1>4. Reading(quads, p) = Write("scaxAddress", {"fibers"}) \o Choose(ways)
  BY DEF Reading
<1> HIDE DEF W, way
<1>5. \A w \in ways : Triple(W, At(W, NoReset), w, At(W, G), States(W))
  BY <1>3 DEF Does
<1> HIDE DEF ways
<1>6. Does(W, NoReset, Choose(ways), G)
  BY <1>1, <1>5, AtLockable, ChooseAnyRule DEF Does
<1>7. Does(W, NoReset, Reading(quads, p), G)
  BY <1>2, <1>4, <1>6, DoesSequence
<1> QED
  BY <1>7 DEF W

LEMMA AligningDoes ==
  ASSUME NEW quads, NEW f, Aligning(f, quads, 0),
         NEW G, G = NoReset \cup {<<"fibers", quads>>}
  PROVE  Does(SenderAlignWorld(quads), NoReset, f[0], G)
<1> DEFINE F == FIBER_ALIGN_ATTEMPTS
           does(p) == Does(SenderAlignWorld(quads), NoReset, p, G)
           bad == {n \in Nat : n <= F + 1 /\ ~does(f[F + 1 - n])}
<1>1. F \in Nat /\ FIBER_ALIGN_ATTEMPTS = F
  BY SenderAssumption
<1>2. does(Raise)
  <2>1. Stable(SenderAlignWorld(quads), NoReset) /\ Stable(SenderAlignWorld(quads), G)
    BY SenderAlignIsWorld DEF NoReset
  <2> QED
    BY <2>1, SenderAlignIsWorld, DoesRaise
<1>3. \A p : does(p) => does(Reading(quads, p))
  BY ReadingDoes
<1> HIDE DEF F, does
<1> SUFFICES ASSUME bad # {}
             PROVE  FALSE
  <2>1. F + 1 \in Nat /\ F + 1 <= F + 1 /\ F + 1 - (F + 1) = 0
    BY <1>1
  <2> QED
    BY <2>1 DEF does
<1>4. bad \in SUBSET Nat
  OBVIOUS
<1>5. PICK n \in bad : \A k \in bad : n <= k
  BY <1>4, LeastNumber
<1>6. n \in Nat /\ n <= F + 1 /\ ~does(f[F + 1 - n])
  OBVIOUS
<1> DEFINE m == F + 1 - n
<1>7. m \in 0..F + 1
  BY <1>1, <1>6
<1>8. f[m] = IF m > F THEN Raise ELSE Reading(quads, f[m + 1])
  BY <1>1, <1>7 DEF Aligning
<1>9. CASE n = 0
  <2>1. m > F
    BY <1>1, <1>9
  <2> QED
    BY <1>2, <1>6, <1>8, <2>1
<1>10. CASE n # 0
  <2>1. n - 1 \in Nat /\ n - 1 <= F + 1 /\ ~(n <= n - 1) /\ F + 1 - (n - 1) = m + 1 /\ ~(m > F)
    BY <1>1, <1>6, <1>10
  <2>2. n - 1 \notin bad
    BY <1>5, <2>1
  <2>3. does(f[m + 1])
    BY <2>1, <2>2
  <2> HIDE DEF m
  <2> QED
    BY <1>3, <1>6, <1>8, <2>1, <2>3 DEF m
<1> QED
  BY <1>9, <1>10

Aligned(quads) == NoReset \cup (IF quads = {} THEN {} ELSE {<<"fibers", quads>>})

LEMMA AlignDoes ==
  ASSUME NEW quads
  PROVE  Does(SenderAlignWorld(quads), NoReset, AddOpcClientIfNew \o AlignArtGbtxMmtp(quads),
              Aligned(quads))
<1> DEFINE f == CHOOSE g : g = [resets \in 0..FIBER_ALIGN_ATTEMPTS + 1 |->
                  IF resets > FIBER_ALIGN_ATTEMPTS THEN Raise ELSE Reading(quads, g[resets + 1])]
           W == SenderAlignWorld(quads)
<1>1. AlignArtGbtxMmtp(quads) = If(quads # {}, f[0])
  BY DEF AlignArtGbtxMmtp, ReadScaxRegisterWord, SendScaxRegister, Reading
<1>2. Aligning(f, quads, 0)
  BY SomeAligning DEF Aligning
<1> HIDE DEF f
<1>3. World(W) /\ Stable(W, NoReset)
  BY SenderAlignIsWorld DEF NoReset
<1>4. CASE quads = {}
  <2>1. AlignArtGbtxMmtp(quads) = Nothing /\ Aligned(quads) = NoReset
    BY <1>1, <1>4 DEF If, Nothing, Aligned
  <2>2. Does(W, NoReset, Nothing, NoReset)
    BY <1>3, DoesNothing
  <2>3. Does(W, NoReset, AlignArtGbtxMmtp(quads), Aligned(quads))
    BY <2>1, <2>2
  <2> QED
    BY <1>3, <2>3, ConnectDoes, DoesSequence
<1>5. CASE quads # {}
  <2>1. AlignArtGbtxMmtp(quads) = f[0] /\ Aligned(quads) = NoReset \cup {<<"fibers", quads>>}
    BY <1>1, <1>5 DEF If, Aligned
  <2>2. Does(W, NoReset, f[0], NoReset \cup {<<"fibers", quads>>})
    BY <1>2, AligningDoes
  <2>3. Does(W, NoReset, AlignArtGbtxMmtp(quads), Aligned(quads))
    BY <2>1, <2>2
  <2> QED
    BY <1>3, <2>3, ConnectDoes, DoesSequence
<1> QED
  BY <1>4, <1>5

-----------------------------------------------------------------------------
(* What is held, and what is achieved.                                     *)

WorldOf(given) ==
  CASE given.kind = "FEB"   -> SenderFebWorld
    [] given.kind = "ADDC"  -> SenderAddcWorld
    [] given.kind = "TP"    -> SenderTpWorld
    [] given.kind = "align" -> SenderAlignWorld(given.quads)

\* The states in which a board is begun, and those in which it may be done.
BegunOf(given) ==
  CASE given.kind = "FEB"   -> At(SenderFebWorld, Unsent)
    [] given.kind = "ADDC"  -> AddcBegun
    [] given.kind = "TP"    -> At(SenderTpWorld, {})
    [] given.kind = "align" -> At(SenderAlignWorld(given.quads), NoReset)
Goal(given) == {s \in States(WorldOf(given)) : s.warned = TRUE \/ Configured(s.lines, given)}

Kinds == {"FEB", "ADDC", "TP", "align"}

LEMMA WorldOfIsWorld ==
  ASSUME NEW given, given.kind \in Kinds
  PROVE  LET W == WorldOf(given)
         IN /\ World(W) /\ W.guards = {} /\ W.plls = (IF given.kind = "FEB" THEN TRUE ELSE FALSE)
            /\ BegunOf(given) \subseteq States(W) /\ Lockable(W, BegunOf(given))
            /\ W.lines = LinesOf(given)
<1> DEFINE W == WorldOf(given)
<1>1. CASE given.kind = "FEB"
  <2>1. W = SenderFebWorld /\ BegunOf(given) = At(SenderFebWorld, Unsent)
        /\ LinesOf(given) = FebLines \cup {"tpInv"}
    BY <1>1 DEF WorldOf, BegunOf, LinesOf
  <2>2. SenderFacts(Unsent)
    BY DEF SenderFacts, FebLines, Unsent
  <2>3. /\ SenderFebWorld.guards = {} /\ SenderFebWorld.plls = TRUE
        /\ SenderFebWorld.lines = FebLines \cup {"tpInv"}
    BY DEF SenderFebWorld
  <2> DEFINE F == Unsent
  <2> HIDE DEF F
  <2>4. World(SenderFebWorld) /\ Stable(SenderFebWorld, F)
    BY <2>2, SenderFebIsWorld DEF F
  <2>5. Lockable(SenderFebWorld, At(SenderFebWorld, F))
        /\ At(SenderFebWorld, F) \subseteq States(SenderFebWorld)
    BY <2>4, AtLockable
  <2> QED
    BY <1>1, <2>1, <2>3, <2>4, <2>5 DEF F
<1>2. CASE given.kind = "ADDC"
  <2>1. W = SenderAddcWorld /\ BegunOf(given) = AddcBegun /\ LinesOf(given) = AddcLines
    BY <1>2 DEF WorldOf, BegunOf, LinesOf
  <2>2. /\ SenderAddcWorld.guards = {} /\ SenderAddcWorld.plls = FALSE
        /\ SenderAddcWorld.lines = AddcLines
    BY DEF SenderAddcWorld, SenderAddcOf
  <2>3. AddcBegun \subseteq States(SenderAddcWorld)
    BY AddcWorlds DEF AddcBegun, Smaller
  <2>4. Lockable(SenderAddcWorld, AddcBegun)
    BY <2>2, <2>3 DEF Lockable, CanLock
  <2> QED
    BY <1>2, <2>1, <2>2, <2>3, <2>4, AddcWorlds
<1>3. CASE given.kind = "TP"
  <2>1. W = SenderTpWorld /\ BegunOf(given) = At(SenderTpWorld, {}) /\ LinesOf(given) = TpRegisters
    BY <1>3 DEF WorldOf, BegunOf, LinesOf
  <2>2. /\ SenderTpWorld.guards = {} /\ SenderTpWorld.plls = FALSE
        /\ SenderTpWorld.lines = TpRegisters
    BY DEF SenderTpWorld
  <2> QED
    BY <1>3, <2>1, <2>2, SenderTpIsWorld, AtLockable
<1>4. CASE given.kind = "align"
  <2> DEFINE V == SenderAlignWorld(given.quads)
  <2>1. W = V /\ BegunOf(given) = At(V, NoReset)
        /\ LinesOf(given) = {"scaxAddress", "fibers", "qpllReset"}
    BY <1>4 DEF WorldOf, BegunOf, LinesOf
  <2>2. V.guards = {} /\ V.plls = FALSE /\ V.lines = {"scaxAddress", "fibers", "qpllReset"}
    BY DEF SenderAlignWorld
  <2>3. World(V) /\ Stable(V, NoReset)
    BY SenderAlignIsWorld DEF NoReset
  <2> HIDE DEF V
  <2>4. Lockable(V, At(V, NoReset)) /\ At(V, NoReset) \subseteq States(V)
    BY <2>3, AtLockable
  <2> QED
    BY <1>4, <2>1, <2>2, <2>3, <2>4
<1> QED
  BY <1>1, <1>2, <1>3, <1>4 DEF Kinds

LEMMA FrontendConfigured ==
  ASSUME NEW options, NEW s \in At(SenderFebWorld, FrontendDone(options))
  PROVE  s \in States(SenderFebWorld) /\ FebConfigured(s.lines, options)
<1>1. SenderFebWorld.forgives = FALSE
  BY DEF SenderFebWorld
<1>2. s \in States(SenderFebWorld) /\ \A p \in FrontendDone(options) : s.lines[p[1]] = p[2]
  BY <1>1 DEF At
<1>3. CASE "reset" \in options
  <2>1. <<"coreReset", "inactive">> \in FrontendDone(options)
    BY <1>3 DEF FrontendDone
  <2> QED
    BY <1>2, <1>3, <2>1 DEF FebConfigured
<1>4. CASE "reset" \notin options
  <2>1. \A line, value : <<line, value>> \in FrontendDone(options) => s.lines[line] = value
    BY <1>2
  <2>2. "roc" \in options => RocDone \subseteq FrontendDone(options)
    BY <1>4 DEF FrontendDone, Asked
  <2>3. "vmm" \in options => VmmsDone \subseteq FrontendDone(options)
    BY <1>4 DEF FrontendDone, Asked
  <2>4. "tds" \in options => SentTds(options) \subseteq FrontendDone(options)
    BY <1>4 DEF FrontendDone, Asked
  <2>5. "pulses" \in options => <<"tpInv", "straight">> \in FrontendDone(options)
    BY <1>4 DEF FrontendDone, Asked
  <2>6. "roc" \in options =>
          /\ s.lines["coreReset"] = "inactive" /\ s.lines["pllReset"] = "inactive"
          /\ s.lines["sReset"] = "inactive" /\ s.lines["pllLocked"] = "yes"
          /\ s.lines["rocAnalog"] = "configured" /\ s.lines["rocDigital"] = "configured"
    BY <2>1, <2>2 DEF RocDone
  <2>7. "vmm" \in options => s.lines["vmms"] = "configured" /\ s.lines["acquisition"] = "on"
    BY <2>1, <2>3 DEF VmmsDone
  <2>8. "tds" \in options =>
          /\ s.lines["tdsPins"] = "inactive" /\ s.lines["tdss"] = "configured"
          /\ "resettds" \in options => s.lines["tdsResets"] = "off"
    BY <2>1, <2>4 DEF SentTds
  <2>9. "pulses" \in options => s.lines["tpInv"] = "straight"
    BY <2>1, <2>5
  <2>10. FebConfigured(s.lines, options)
    BY <1>4, <2>6, <2>7, <2>8, <2>9, Zenon DEF FebConfigured
  <2> QED
    BY <1>2, <2>10
<1> QED
  BY <1>2, <1>3, <1>4

LEMMA FebAchieves ==
  ASSUME NEW given, given.kind = "FEB"
  PROVE  Triple(SenderFebWorld, At(SenderFebWorld, Unsent),
                ConfigureFrontend(given.options), Goal(given), States(SenderFebWorld))
<1> DEFINE options == given.options
           S == At(SenderFebWorld, Unsent)
<1>1. /\ WorldOf(given) = SenderFebWorld
      /\ \A lines : Configured(lines, given) <=>
           "dryrun" \in options \/ FebConfigured(lines, options)
  BY DEF WorldOf, Configured
<1>2. CASE "dryrun" \in options
  <2>1. ConfigureFrontend(options) = <<>>
    BY <1>2 DEF ConfigureFrontend, If
  <2>2. SenderFacts(Unsent)
    BY DEF SenderFacts, FebLines, Unsent
  <2>3. Lockable(SenderFebWorld, S) /\ S \subseteq States(SenderFebWorld)
    BY <2>2, SenderFebIsWorld, AtLockable
  <2>4. S \subseteq Goal(given)
    BY <1>1, <1>2, <2>3 DEF Goal
  <2> HIDE DEF S
  <2>5. Triple(SenderFebWorld, S, <<>>, Goal(given), States(SenderFebWorld))
    BY <2>3, <2>4, SkipRule
  <2> QED
    BY <2>1, <2>5 DEF S
<1>3. CASE "dryrun" \notin options
  <2>1. At(SenderFebWorld, FrontendDone(options)) \subseteq Goal(given)
    BY <1>1, FrontendConfigured DEF Goal
  <2>2. Triple(SenderFebWorld, S, ConfigureFrontend(options),
               At(SenderFebWorld, FrontendDone(options)), States(SenderFebWorld))
    BY <1>3, FrontendDoes DEF Does
  <2> HIDE DEF S
  <2>3. Triple(SenderFebWorld, S, ConfigureFrontend(options), Goal(given), States(SenderFebWorld))
    BY <2>1, <2>2, Weaken
  <2> QED
    BY <2>3 DEF S
<1> QED
  BY <1>2, <1>3

LEMMA TpAchieves ==
  ASSUME NEW given, given.kind = "TP"
  PROVE  Triple(SenderTpWorld, At(SenderTpWorld, {}),
                AddOpcClientIfNew \o SendTpConfig(given.unset, given.skipped),
                Goal(given), States(SenderTpWorld))
<1> DEFINE rs == TpRegisters \ (given.skipped \cup given.unset)
           D == {<<r, "configured">> : r \in rs}
<1>1. /\ WorldOf(given) = SenderTpWorld
      /\ \A lines : Configured(lines, given) <=> \A r \in rs : lines[r] = "configured"
  BY DEF WorldOf, Configured
<1>2. At(SenderTpWorld, D) \subseteq Goal(given)
  <2> SUFFICES ASSUME NEW s \in At(SenderTpWorld, D) PROVE s \in Goal(given)
    OBVIOUS
  <2>1. SenderTpWorld.forgives = FALSE
    BY DEF SenderTpWorld
  <2>2. s \in States(SenderTpWorld) /\ \A p \in D : s.lines[p[1]] = p[2]
    BY <2>1 DEF At
  <2>3. \A r \in rs : s.lines[r] = "configured"
    <3> SUFFICES ASSUME NEW r \in rs PROVE s.lines[r] = "configured"
      OBVIOUS
    <3>1. <<r, "configured">> \in D
      OBVIOUS
    <3> HIDE DEF D
    <3> QED
      BY <2>2, <3>1
  <2> QED
    BY <1>1, <2>2, <2>3 DEF Goal
<1>3. Triple(SenderTpWorld, At(SenderTpWorld, {}),
             AddOpcClientIfNew \o SendTpConfig(given.unset, given.skipped),
             At(SenderTpWorld, D), States(SenderTpWorld))
  BY SendTpDoes DEF Does
<1> HIDE DEF D
<1> QED
  BY <1>2, <1>3, Weaken

LEMMA AlignAchieves ==
  ASSUME NEW given, given.kind = "align", NEW W, W = SenderAlignWorld(given.quads)
  PROVE  Triple(W, At(W, NoReset), AddOpcClientIfNew \o AlignArtGbtxMmtp(given.quads),
                Goal(given), States(W))
<1>1. /\ WorldOf(given) = W
      /\ \A lines : Configured(lines, given) <=>
           given.quads \subseteq lines["fibers"] /\ lines["qpllReset"] = {}
  BY DEF WorldOf, Configured
<1>2. At(W, Aligned(given.quads)) \subseteq Goal(given)
  <2> SUFFICES ASSUME NEW s \in At(W, Aligned(given.quads)) PROVE s \in Goal(given)
    OBVIOUS
  <2>1. W.forgives = FALSE
    BY DEF SenderAlignWorld
  <2>2. s \in States(W) /\ \A p \in Aligned(given.quads) : s.lines[p[1]] = p[2]
    BY <2>1 DEF At
  <2>3. <<"qpllReset", {}>> \in Aligned(given.quads)
        /\ (given.quads # {} => <<"fibers", given.quads>> \in Aligned(given.quads))
    BY DEF Aligned, NoReset
  <2>4. s.lines["qpllReset"] = {} /\ (given.quads # {} => s.lines["fibers"] = given.quads)
    BY <2>2, <2>3
  <2> QED
    BY <1>1, <2>2, <2>4 DEF Goal
<1>3. Triple(W, At(W, NoReset), AddOpcClientIfNew \o AlignArtGbtxMmtp(given.quads),
             At(W, Aligned(given.quads)), States(W))
  BY AlignDoes DEF Does
<1> QED
  BY <1>2, <1>3, Weaken

LEMMA ProcedureAchieves ==
  ASSUME ToolTypeOK, NEW b \in Boards
  PROVE  Triple(WorldOf(Of(b)), BegunOf(Of(b)), Procedure(b), Goal(Of(b)), States(WorldOf(Of(b))))
<1> DEFINE given == Of(b)
<1>1. given.kind \in {"FEB", "ADDC", "TP", "align"}
  BY ProgramType
<1>2. CASE given.kind = "FEB"
  <2>1. /\ Procedure(b) = ConfigureFrontend(given.options) /\ WorldOf(given) = SenderFebWorld
        /\ BegunOf(given) = At(SenderFebWorld, Unsent)
    BY <1>2 DEF Procedure, WorldOf, BegunOf
  <2> QED
    BY <1>2, <2>1, FebAchieves
<1>3. CASE given.kind = "ADDC"
  <2>1. /\ Procedure(b) = ConfigureAddc(given.skip, given.must, given.settings)
        /\ WorldOf(given) = SenderAddcWorld /\ BegunOf(given) = AddcBegun
        /\ \A lines : Configured(lines, given) <=> AddcReady(lines, given.settings)
    BY <1>3 DEF Procedure, WorldOf, BegunOf, Configured
  <2>2. Goal(given) = {s \in States(SenderAddcWorld) :
                         s.warned = TRUE \/ AddcReady(s.lines, given.settings)}
    BY <2>1 DEF Goal
  <2> QED
    BY <2>1, <2>2, ConfigureAddcDoes
<1>4. CASE given.kind = "TP"
  <2>1. /\ Procedure(b) = AddOpcClientIfNew \o SendTpConfig(given.unset, given.skipped)
        /\ WorldOf(given) = SenderTpWorld /\ BegunOf(given) = At(SenderTpWorld, {})
    BY <1>4 DEF Procedure, WorldOf, BegunOf
  <2> QED
    BY <1>4, <2>1, TpAchieves
<1>5. CASE given.kind = "align"
  <2>1. /\ Procedure(b) = AddOpcClientIfNew \o AlignArtGbtxMmtp(given.quads)
        /\ WorldOf(given) = SenderAlignWorld(given.quads)
        /\ BegunOf(given) = At(SenderAlignWorld(given.quads), NoReset)
    BY <1>5 DEF Procedure, WorldOf, BegunOf
  <2> QED
    BY <1>5, <2>1, AlignAchieves
<1> QED
  BY <1>1, <1>2, <1>3, <1>4, <1>5

-----------------------------------------------------------------------------
(* Every board is on course: what it has still to do achieves what was     *)
(* asked, and never lets go of what is to be held.                         *)

Promises(given, K) ==
  Sound(WorldOf(given), K, Goal(given), States(WorldOf(given))) /\ Again(WorldOf(given), K)

OnCourse(given, outcome, t, s) ==
  /\ s \in States(WorldOf(given))
  /\ outcome = "waiting" => s \in BegunOf(given)
  /\ outcome \in {"running", "done"} => \E K : Promises(given, K) /\ <<t, s>> \in K

\* A board as a state of its world.
Shown(b) == [lines |-> board[b], warned |-> IF b \in warned THEN TRUE ELSE FALSE]
Pursued  == \A b \in Boards : OnCourse(Of(b), result[b], todo[b], Shown(b))

\* The kinds of course taken.
LEMMA CourseBegins ==
  ASSUME ToolTypeOK, NEW b \in Boards, NEW s \in BegunOf(Of(b)), NEW outcome \in {"running", "done"}
  PROVE  OnCourse(Of(b), outcome, Procedure(b), s)
<1> DEFINE given == Of(b)
           W == WorldOf(given)
<1>1. given.kind \in Kinds
  BY ProgramType DEF Kinds
<1>2. World(W) /\ W.guards = {} /\ BegunOf(given) \subseteq States(W)
  BY <1>1, WorldOfIsWorld
<1>3. Triple(W, BegunOf(given), Procedure(b), Goal(given), States(W))
  BY ProcedureAchieves
<1>4. \E K : Sound(W, K, Goal(given), States(W)) /\ Again(W, K)
             /\ \A r \in BegunOf(given) : <<Procedure(b), r>> \in K
  BY <1>2, <1>3, RepeatRule
<1> QED
  BY <1>2, <1>4 DEF OnCourse, Promises

LEMMA CourseGoes ==
  ASSUME NEW given, NEW t, NEW s, OnCourse(given, "running", t, s), t # <<>>, Goes(Head(t), s),
         NEW way \in (IF Head(t).do = "choose" THEN Head(t).ways ELSE {<<>>}),
         NEW outcome \in {"running", "done"},
         NEW r, r = After(WorldOf(given), s, Head(t))
  PROVE  OnCourse(given, outcome, way \o Tail(t), r)
<1> DEFINE W == WorldOf(given)
           u == way \o Tail(t)
<1>1. PICK K : Promises(given, K) /\ <<t, s>> \in K
  BY DEF OnCourse
<1>2. Sound(W, K, Goal(given), States(W))
  BY <1>1 DEF Promises
<1>3. SoundAt(W, K, Goal(given), States(W), t, s)
  BY <1>1, <1>2 DEF Sound
<1>4. <<u, r>> \in K
  BY <1>3 DEF SoundAt, GoesOn
<1> HIDE DEF u, W
<1>5. r \in States(W)
  BY <1>2, <1>4 DEF Sound, SoundAt
<1> QED
  BY <1>1, <1>4, <1>5 DEF OnCourse, W, u

LEMMA CourseBreaks ==
  ASSUME NEW given, NEW t, NEW s, OnCourse(given, "running", t, s), t # <<>>,
         Head(t).do \in Throwing, NEW r \in Thrown(WorldOf(given), s, Head(t)),
         NEW outcome \in {"running", "done"}
  PROVE  /\ IsCaught(t) => OnCourse(given, outcome, AfterThrow(t), r)
         /\ ~IsCaught(t) => OnCourse(given, "failed", <<>>, r)
<1> DEFINE W == WorldOf(given)
<1>1. PICK K : Promises(given, K) /\ <<t, s>> \in K
  BY DEF OnCourse
<1>2. Sound(W, K, Goal(given), States(W))
  BY <1>1 DEF Promises
<1>3. SoundAt(W, K, Goal(given), States(W), t, s)
  BY <1>1, <1>2 DEF Sound
<1>4. IF IsCaught(t) THEN <<AfterThrow(t), r>> \in K ELSE r \in States(W)
  BY <1>3 DEF SoundAt, Breaks
<1> HIDE DEF W
<1>5. r \in States(W)
  BY <1>2, <1>4 DEF Sound, SoundAt
<1> QED
  BY <1>1, <1>4, <1>5 DEF OnCourse, W

LEMMA CourseRepeats ==
  ASSUME NEW given, NEW t, NEW s, OnCourse(given, "running", t, s), t # <<>>,
         NEW r \in Thrown(WorldOf(given), s, Head(t))
  PROVE  OnCourse(given, "running", t, r)
<1> DEFINE W == WorldOf(given)
<1>1. PICK K : Promises(given, K) /\ <<t, s>> \in K
  BY DEF OnCourse
<1>2. Sound(W, K, Goal(given), States(W)) /\ Again(W, K)
  BY <1>1 DEF Promises
<1>3. <<t, r>> \in K
  BY <1>1, <1>2 DEF Again, Thrown
<1> HIDE DEF W
<1>4. r \in States(W)
  BY <1>2, <1>3 DEF Sound, SoundAt
<1> QED
  BY <1>1, <1>3, <1>4 DEF OnCourse, W

LEMMA CourseLocks ==
  ASSUME NEW given, given.kind \in Kinds, NEW t, NEW s, NEW outcome,
         OnCourse(given, outcome, t, s), CanLock(WorldOf(given), s)
  PROVE  OnCourse(given, outcome, t, Locked(s))
<1> DEFINE W == WorldOf(given)
<1>1. World(W) /\ Lockable(W, BegunOf(given)) /\ s \in States(W)
  BY WorldOfIsWorld DEF OnCourse
<1>2. Locked(s) \in States(W)
  BY <1>1, LockStays
<1>3. outcome = "waiting" => Locked(s) \in BegunOf(given)
  BY <1>1 DEF OnCourse, Lockable
<1>4. ASSUME outcome \in {"running", "done"}
      PROVE  \E K : Promises(given, K) /\ <<t, Locked(s)>> \in K
  <2>1. PICK K : Promises(given, K) /\ <<t, s>> \in K
    BY <1>4 DEF OnCourse
  <2>2. Sound(W, K, Goal(given), States(W))
    BY <2>1 DEF Promises
  <2>3. SoundAt(W, K, Goal(given), States(W), t, s)
    BY <2>1, <2>2 DEF Sound
  <2>4. <<t, Locked(s)>> \in K
    BY <2>3 DEF SoundAt
  <2> QED
    BY <2>1, <2>4
<1> QED
  BY <1>2, <1>3, <1>4 DEF OnCourse

LEMMA CourseEnds ==
  ASSUME NEW given, NEW s, OnCourse(given, "done", <<>>, s)
  PROVE  s \in Goal(given)
<1> DEFINE W == WorldOf(given)
<1>1. PICK K : Promises(given, K) /\ <<<<>>, s>> \in K
  BY DEF OnCourse
<1>2. Sound(W, K, Goal(given), States(W))
  BY <1>1 DEF Promises
<1>3. SoundAt(W, K, Goal(given), States(W), <<>>, s)
  BY <1>1, <1>2 DEF Sound
<1> QED
  BY <1>3 DEF SoundAt

\* A step of a board leaves the others on course.
LEMMA PursuedElsewhere ==
  ASSUME ToolInv, Pursued, NEW b \in Boards, UNCHANGED program,
         \A c \in Boards : c # b =>
           /\ todo'[c] = todo[c] /\ result'[c] = result[c] /\ board'[c] = board[c]
           /\ (c \in warned' <=> c \in warned),
         OnCourse(Of(b), result'[b], todo'[b], Shown(b)')
  PROVE  Pursued'
<1>1. Boards' = Boards /\ \A c \in Boards : Of(c)' = Of(c)
  BY DEF Boards, Of
<1>2. ASSUME NEW c \in Boards, c # b
      PROVE  OnCourse(Of(c), result'[c], todo'[c], Shown(c)')
  <2>1. Shown(c)' = Shown(c)
    BY <1>2 DEF Shown
  <2> QED
    BY <1>2, <2>1 DEF Pursued
<1>3. \A c \in Boards : OnCourse(Of(c), result'[c], todo'[c], Shown(c)')
  BY <1>2
<1>4. Pursued' <=> \A c \in Boards' : OnCourse(Of(c)', result'[c], todo'[c], Shown(c)')
  BY DEF Pursued
<1> QED
  BY <1>1, <1>3, <1>4

\* A board of which nothing is known is in a state of its world.
LEMMA BeginningIsState ==
  ASSUME NEW W, NEW first, first \in W.values, FALSE \in W.warnings,
         \A l : <<l, first>> \notin W.never,
         \A h \in W.ties : h.line \in W.lines /\ first \notin h.values,
         NEW s, s = [lines |-> [l \in W.lines |-> first], warned |-> FALSE]
  PROVE  s \in States(W)
<1> DEFINE f == [l \in W.lines |-> first]
<1>1. f \in [W.lines -> W.values] /\ \A l \in W.lines : f[l] = first
  OBVIOUS
<1> HIDE DEF f
<1>2. s = [lines |-> f, warned |-> FALSE]
  BY DEF f
<1>3. s \in [lines : [W.lines -> W.values], warned : W.warnings] /\ s.lines = f
  <2> DEFINE F == [W.lines -> W.values]
             B == W.warnings
  <2>1. f \in F /\ FALSE \in B
    BY <1>1
  <2> HIDE DEF F, B
  <2>2. [lines |-> f, warned |-> FALSE] \in [lines : F, warned : B]
    BY <2>1
  <2>3. s \in [lines : F, warned : B]
    BY <1>2, <2>2
  <2>4. s.lines = f
    BY <1>2
  <2> QED
    BY <2>3, <2>4 DEF F, B
<1>4. \A l \in W.lines : <<l, s.lines[l]>> \notin W.never
  BY <1>1, <1>3
<1>5. Tied(W, s.lines)
  BY <1>1, <1>3 DEF Tied
<1> QED
  BY <1>3, <1>4, <1>5 DEF States

LEMMA PursuedInit == ToolInit => Pursued
<1> SUFFICES ASSUME ToolInit, NEW b \in Boards
             PROVE  OnCourse(Of(b), result[b], todo[b], Shown(b))
  BY DEF Pursued
<1> DEFINE given == Of(b)
           s == Shown(b)
           first == IF given.kind = "align" THEN {} ELSE "unknown"
<1>1. given.kind \in Kinds
  BY ToolInvInit, ProgramType DEF ToolInv, Kinds
<1>2. s = [lines |-> [line \in LinesOf(given) |-> first], warned |-> FALSE] /\ result[b] = "waiting"
  BY DEF ToolInit, Shown
<1> HIDE DEF s
<1>3. s \in BegunOf(given)
  <2>1. CASE given.kind = "FEB"
    <3> DEFINE W == SenderFebWorld
    <3>1. /\ W.lines = FebLines \cup {"tpInv"} /\ W.never = {} /\ W.warnings = {FALSE}
          /\ "unknown" \in W.values /\ \A h \in W.ties : h.line \in W.lines /\ "unknown" \notin h.values
      BY DEF SenderFebWorld, Values, FebLines
    <3>2. s = [lines |-> [line \in W.lines |-> "unknown"], warned |-> FALSE]
      BY <1>2, <2>1, <3>1 DEF LinesOf
    <3> HIDE DEF W
    <3>3. s \in States(W)
      BY <3>1, <3>2, BeginningIsState
    <3>4. "rocAnalog" \in W.lines /\ "vmms" \in W.lines
      BY <3>1 DEF FebLines
    <3>5. s \in At(W, Unsent)
      BY <3>2, <3>3, <3>4 DEF At, Unsent
    <3> QED
      BY <2>1, <3>5 DEF BegunOf, W
  <2>2. CASE given.kind = "ADDC"
    <3> DEFINE V == FirstArtWorld
    <3>1. /\ V.lines = AddcLines /\ V.warnings = BOOLEAN
          /\ "unknown" \in V.values /\ \A h \in V.ties : h.line \in V.lines /\ "unknown" \notin h.values
      BY DEF FirstArtWorld, SenderAddcOf, Values, AddcTies, Unsettled, AddcLines, ArtNames
    <3>2. s = [lines |-> [line \in V.lines |-> "unknown"], warned |-> FALSE]
      BY <1>2, <2>2, <3>1 DEF LinesOf
    <3>3. \A l : <<l, "unknown">> \notin V.never
      BY DEF FirstArtWorld, SenderAddcOf
    <3>4. <<0, "eports">> \in V.lines
      BY <3>1 DEF AddcLines, Arts, ArtNames
    <3> HIDE DEF V
    <3>5. s \in States(V)
      BY <3>1, <3>2, <3>3, BeginningIsState
    <3>6. s.lines[<<0, "eports">>] = "unknown"
      BY <3>2, <3>4
    <3> QED
      BY <2>2, <3>5, <3>6 DEF BegunOf, AddcBegun, V
  <2>3. CASE given.kind = "TP"
    <3> DEFINE W == SenderTpWorld
    <3>1. /\ W.lines = TpRegisters /\ W.never = {} /\ W.warnings = {FALSE}
          /\ "unknown" \in W.values /\ W.ties = {}
      BY DEF SenderTpWorld
    <3>2. s = [lines |-> [line \in W.lines |-> "unknown"], warned |-> FALSE]
      BY <1>2, <2>3, <3>1 DEF LinesOf
    <3> HIDE DEF W
    <3>3. s \in States(W)
      BY <3>1, <3>2, BeginningIsState
    <3>4. s \in At(W, {})
      BY <3>3 DEF At
    <3> QED
      BY <2>3, <3>4 DEF BegunOf, W
  <2>4. CASE given.kind = "align"
    <3> DEFINE W == SenderAlignWorld(given.quads)
    <3>1. /\ W.lines = {"scaxAddress", "fibers", "qpllReset"} /\ W.warnings = {FALSE}
          /\ {} \in W.values /\ \A l : <<l, {}>> \notin W.never
          /\ \A h \in W.ties : h.line \in W.lines /\ {} \notin h.values
      BY DEF SenderAlignWorld
    <3>2. s = [lines |-> [line \in W.lines |-> {}], warned |-> FALSE]
      BY <1>2, <2>4, <3>1 DEF LinesOf
    <3> HIDE DEF W
    <3>3. s \in States(W)
      BY <3>1, <3>2, BeginningIsState
    <3>4. s \in At(W, NoReset)
      BY <3>1, <3>2, <3>3 DEF At, NoReset
    <3> QED
      BY <2>4, <3>4 DEF BegunOf, W
  <2> QED
    BY <1>1, <2>1, <2>2, <2>3, <2>4 DEF Kinds
<1>4. s \in States(WorldOf(given))
  BY <1>1, <1>3, WorldOfIsWorld
<1> QED
  BY <1>2, <1>3, <1>4 DEF OnCourse, s

LEMMA PursuedStart ==
  ASSUME ToolInv, Pursued, StartBoard
  PROVE  Pursued'
<1> DEFINE b == next
           p == Procedure(b)
<1>1. /\ b \in Boards /\ UNCHANGED <<program, board, warned>>
      /\ todo' = [todo EXCEPT ![b] = p]
      /\ result' = [result EXCEPT ![b] = IF todo'[b] = <<>> THEN "done" ELSE "running"]
  BY DEF StartBoard
<1> HIDE DEF p
<1> SUFFICES ASSUME NEW c, c = b
             PROVE  Pursued'
  OBVIOUS
<1>2. ToolTypeOK /\ result[c] = "waiting" /\ c \in Boards
  <2>1. b <= b
    BY <1>1, ProgramType DEF ToolInv
  <2> QED
    BY <1>1, <2>1 DEF ToolInv, Waiting
<1>3. /\ todo = [d \in Boards |-> todo[d]] /\ result = [d \in Boards |-> result[d]]
  BY DEF ToolInv, ToolTypeOK, Tables
<1>4. /\ todo'[c] = p /\ result'[c] \in {"running", "done"}
      /\ \A d \in Boards : d # c => todo'[d] = todo[d] /\ result'[d] = result[d]
  BY <1>1, <1>2, <1>3
<1>5. Shown(c) \in BegunOf(Of(c)) /\ Shown(c)' = Shown(c)
  <2>1. Shown(c) \in BegunOf(Of(c))
    BY <1>2 DEF Pursued, OnCourse
  <2>2. Shown(c)' = Shown(c)
    BY <1>1 DEF Shown
  <2> QED
    BY <2>1, <2>2
<1>6. p = Procedure(c)
  BY DEF p
<1>7. OnCourse(Of(c), result'[c], todo'[c], Shown(c)')
  BY <1>2, <1>4, <1>5, <1>6, CourseBegins
<1>8. \A d \in Boards : d # c =>
        /\ todo'[d] = todo[d] /\ result'[d] = result[d] /\ board'[d] = board[d]
        /\ (d \in warned' <=> d \in warned)
  BY <1>1, <1>4
<1>9. UNCHANGED program
  BY <1>1
<1> QED
  BY <1>2, <1>7, <1>8, <1>9, PursuedElsewhere

\* What a write does to a board is what it does in its world.
LEMMA WrittenIsAfter ==
  ASSUME ToolInv, NEW b \in Boards, NEW step, NEW s, s = Shown(b), NEW r,
         r = [lines |-> Written(b, step), warned |-> s.warned], step.do \in Changes
  PROVE  r = After(WorldOf(Of(b)), s, step)
<1> DEFINE W == WorldOf(Of(b))
<1>1. W.plls = (IF Of(b).kind = "FEB" THEN TRUE ELSE FALSE)
  <2>1. Of(b).kind \in Kinds
    BY ProgramType DEF ToolInv, Kinds
  <2> QED
    BY <2>1, WorldOfIsWorld
<1>2. s = [lines |-> board[b], warned |-> s.warned]
  BY DEF Shown
<1> HIDE DEF W
<1>3. Written(b, step) = Effect(board[b], step, W.plls)
  <2>1. CASE Of(b).kind = "FEB"
    BY <1>1, <2>1 DEF Written, Effect
  <2>2. CASE Of(b).kind # "FEB"
    BY <1>1, <2>2 DEF Written, Effect
  <2> QED
    BY <2>1, <2>2
<1>4. After(W, s, step) = [s EXCEPT !.lines = Effect(s.lines, step, W.plls)]
  BY DEF After, Changes
<1> DEFINE e == Effect(board[b], step, W.plls)
<1> HIDE DEF e
<1>5. After(W, s, step) = [s EXCEPT !.lines = e] /\ Written(b, step) = e
  BY <1>2, <1>3, <1>4 DEF e
<1>6. [s EXCEPT !.lines = e] = [lines |-> e, warned |-> s.warned]
  BY <1>2
<1> QED
  BY <1>5, <1>6 DEF W

LEMMA PursuedStep ==
  ASSUME ToolInv, Pursued, NEW b \in Boards, Step(b)
  PROVE  Pursued'
<1> DEFINE step == Head(todo[b])
           rest == Tail(todo[b])
           W == WorldOf(Of(b))
           s == Shown(b)
<1>1. /\ UNCHANGED program /\ result[b] = "running" /\ step.do # "raise"
      /\ step.do = "await" => board[b][step.line] = step.value
      /\ \E way \in (IF step.do = "choose" THEN step.ways ELSE {<<>>}) : Continue(b, way \o rest)
      /\ board' = IF step.do \in Changes
                    THEN [board EXCEPT ![b] = Written(b, step)] ELSE board
      /\ warned' = IF step.do = "warn" THEN warned \cup {b} ELSE warned
  BY DEF Step, memory
<1>2. PICK way \in (IF step.do = "choose" THEN step.ways ELSE {<<>>}) : Continue(b, way \o rest)
  BY <1>1
<1> HIDE DEF step, rest
<1> DEFINE left == way \o rest
<1>3. /\ todo' = [c \in Boards |-> IF c = b THEN left ELSE todo[c]]
      /\ result' = [c \in Boards |-> IF c = b /\ left = <<>> THEN "done" ELSE result[c]]
  <2>1. UNCHANGED program /\ Continue(b, left)
    BY <1>1, <1>2
  <2> HIDE DEF left
  <2> QED
    BY <2>1, Continues
<1> HIDE DEF left
<1>4. todo[b] # <<>> /\ board = [c \in Boards |-> board[c]]
  BY <1>1 DEF ToolInv, ToolTypeOK, Tables
<1>5. \A c \in Boards : c # b =>
        /\ todo'[c] = todo[c] /\ result'[c] = result[c] /\ board'[c] = board[c]
        /\ (c \in warned' <=> c \in warned)
  BY <1>1, <1>3, <1>4
<1>6. todo'[b] = left /\ result'[b] \in {"running", "done"}
  BY <1>1, <1>3
<1>7. Shown(b)' = After(W, s, step)
  <2>1. Shown(b)' = [lines |-> board'[b], warned |-> IF b \in warned' THEN TRUE ELSE FALSE]
    BY DEF Shown
  <2>2. s.lines = board[b] /\ s.warned = (IF b \in warned THEN TRUE ELSE FALSE)
        /\ s = [lines |-> s.lines, warned |-> s.warned]
    BY DEF Shown
  <2>3. CASE step.do \in Changes
    <3>1. board'[b] = Written(b, step) /\ warned' = warned
      BY <1>1, <1>4, <2>3 DEF Changes
    <3>2. Shown(b)' = [lines |-> Written(b, step), warned |-> s.warned]
      BY <2>1, <2>2, <3>1
    <3> QED
      BY <2>3, <3>2, WrittenIsAfter
  <2>4. CASE step.do = "warn"
    <3>1. board'[b] = board[b] /\ b \in warned'
      BY <1>1, <2>4 DEF Changes
    <3>2. After(W, s, step) = [s EXCEPT !.warned = TRUE]
      BY <2>4 DEF After, Changes
    <3> DEFINE L == {board[b]}
    <3>3. s \in [lines : L, warned : BOOLEAN]
      BY DEF Shown
    <3> HIDE DEF s, L
    <3> DEFINE q == [s EXCEPT !.warned = TRUE]
    <3>4. q \in [lines : L, warned : BOOLEAN] /\ q.lines = s.lines /\ q.warned = TRUE
      BY <3>3
    <3> HIDE DEF q
    <3>6. q = [lines |-> q.lines, warned |-> q.warned]
      BY <3>4
    <3>7. [s EXCEPT !.warned = TRUE] = [lines |-> s.lines, warned |-> TRUE]
      BY <3>4, <3>6 DEF q
    <3> QED
      BY <2>1, <2>2, <3>1, <3>2, <3>7
  <2>5. CASE step.do \notin Changes \cup {"warn"}
    <3>1. board'[b] = board[b] /\ warned' = warned
      BY <1>1, <2>5
    <3>2. After(W, s, step) = s
      BY <2>5 DEF After, Changes
    <3> QED
      BY <2>1, <3>1, <3>2 DEF Shown
  <2> QED
    BY <2>3, <2>4, <2>5
<1>8. OnCourse(Of(b), "running", todo[b], s) /\ Goes(step, s)
  BY <1>1 DEF Pursued, Goes, Shown
<1> DEFINE r == After(W, s, step)
<1>9. \A outcome \in {"running", "done"} : OnCourse(Of(b), outcome, left, r)
  <2> HIDE DEF s
  <2> QED
    BY <1>4, <1>8, CourseGoes DEF left, step, rest
<1>10. OnCourse(Of(b), result'[b], todo'[b], Shown(b)')
  BY <1>6, <1>7, <1>9
<1> QED
  BY <1>1, <1>5, <1>10, PursuedElsewhere

\* An exception, also one that is not caught.
LEMMA PursuedThrow ==
  ASSUME ToolInv, Pursued, NEW b \in Boards, Throws(b), UNCHANGED program, result[b] = "running",
         Head(todo[b]).do \in Throwing,
         Shown(b)' \in Thrown(WorldOf(Of(b)), Shown(b), Head(todo[b]))
  PROVE  /\ OnCourse(Of(b), result'[b], todo'[b], Shown(b)')
         /\ \A c \in Boards : c # b => todo'[c] = todo[c] /\ result'[c] = result[c]
<1>1. todo[b] # <<>> /\ todo = [c \in Boards |-> todo[c]] /\ result = [c \in Boards |-> result[c]]
  BY DEF ToolInv, ToolTypeOK, Tables
<1>2. \A c \in Boards : c # b => todo'[c] = todo[c] /\ result'[c] = result[c]
  BY <1>1 DEF Throws, Continue
<1> SUFFICES ASSUME NEW r, r = Shown(b)'
             PROVE  OnCourse(Of(b), result'[b], todo'[b], r)
  BY <1>2
<1>3. OnCourse(Of(b), "running", todo[b], Shown(b))
  BY DEF Pursued
<1>4. /\ \A outcome \in {"running", "done"} :
           IsCaught(todo[b]) => OnCourse(Of(b), outcome, AfterThrow(todo[b]), r)
      /\ ~IsCaught(todo[b]) => OnCourse(Of(b), "failed", <<>>, r)
  BY <1>1, <1>3, CourseBreaks
<1>5. CASE IsCaught(todo[b])
  <2> DEFINE rest == AfterThrow(todo[b])
  <2>1. Continue(b, rest)
    BY <1>5 DEF Throws
  <2> HIDE DEF rest
  <2>2. todo'[b] = rest /\ result'[b] \in {"running", "done"}
    BY <2>1, Continues
  <2> QED
    BY <1>4, <1>5, <2>2 DEF rest
<1>6. CASE ~IsCaught(todo[b])
  <2>1. todo'[b] = <<>> /\ result'[b] = "failed"
    BY <1>1, <1>6 DEF Throws
  <2> QED
    BY <1>4, <1>6, <2>1
<1> QED
  BY <1>5, <1>6

LEMMA PursuedFault ==
  ASSUME ToolInv, Pursued, NEW b \in Boards, Fault(b)
  PROVE  Pursued'
<1> DEFINE step == Head(todo[b])
           W == WorldOf(Of(b))
<1>1. /\ UNCHANGED <<program, warned>> /\ result[b] = "running"
      /\ step.do \in {"write", "tell", "read", "await", "connect"}
      /\ \/ board' = board
         \/ step.do = "write" /\ board' = [board EXCEPT ![b] = Written(b, step)]
      /\ IF failures[b] + 1 < Tries(step)
         THEN failures' = [failures EXCEPT ![b] = @ + 1] /\ UNCHANGED <<todo, result>>
         ELSE Throws(b)
  BY DEF Fault, memory
<1>2. todo[b] # <<>> /\ board = [c \in Boards |-> board[c]]
  BY <1>1 DEF ToolInv, ToolTypeOK, Tables
<1> HIDE DEF step
<1>3. Shown(b)' \in Thrown(W, Shown(b), step)
  <2>1. CASE board' = board
    <3>1. Shown(b)' = Shown(b)
      BY <1>1, <2>1 DEF Shown
    <3> QED
      BY <3>1 DEF Thrown
  <2>2. CASE step.do = "write" /\ board' = [board EXCEPT ![b] = Written(b, step)]
    <3>1. board'[b] = Written(b, step)
      BY <1>2, <2>2
    <3>2. Shown(b)' = [lines |-> Written(b, step), warned |-> Shown(b).warned]
      BY <1>1, <3>1 DEF Shown
    <3>3. Shown(b)' = After(W, Shown(b), step)
      BY <2>2, <3>2, WrittenIsAfter DEF Changes
    <3> QED
      BY <2>2, <3>3 DEF Thrown
  <2> QED
    BY <1>1, <2>1, <2>2
<1>4. \A c \in Boards : c # b => board'[c] = board[c] /\ (c \in warned' <=> c \in warned)
  BY <1>1, <1>2
<1>5. UNCHANGED program
  BY <1>1
<1>6. CASE failures[b] + 1 < Tries(step)
  <2>1. UNCHANGED <<todo, result>>
    BY <1>1, <1>6
  <2>2. OnCourse(Of(b), "running", todo[b], Shown(b))
    BY <1>1 DEF Pursued
  <2> SUFFICES ASSUME NEW r, r = Shown(b)'
               PROVE  Pursued'
    OBVIOUS
  <2>3. OnCourse(Of(b), "running", todo[b], r)
    BY <1>2, <1>3, <2>2, CourseRepeats DEF step
  <2>4. OnCourse(Of(b), result'[b], todo'[b], Shown(b)')
    BY <1>1, <2>1, <2>3
  <2>5. \A c \in Boards : c # b =>
          /\ todo'[c] = todo[c] /\ result'[c] = result[c] /\ board'[c] = board[c]
          /\ (c \in warned' <=> c \in warned)
    BY <1>4, <2>1
  <2> QED
    BY <1>5, <2>4, <2>5, PursuedElsewhere
<1>7. CASE ~(failures[b] + 1 < Tries(step))
  <2>1. Throws(b) /\ step.do \in Throwing
    BY <1>1, <1>7 DEF Throwing
  <2>2. /\ OnCourse(Of(b), result'[b], todo'[b], Shown(b)')
        /\ \A c \in Boards : c # b => todo'[c] = todo[c] /\ result'[c] = result[c]
    BY <1>1, <1>3, <1>5, <2>1, PursuedThrow DEF step
  <2>3. \A c \in Boards : c # b =>
          /\ todo'[c] = todo[c] /\ result'[c] = result[c] /\ board'[c] = board[c]
          /\ (c \in warned' <=> c \in warned)
    BY <1>4, <2>2
  <2> QED
    BY <1>5, <2>2, <2>3, PursuedElsewhere
<1> QED
  BY <1>6, <1>7

LEMMA PursuedRaise ==
  ASSUME ToolInv, Pursued, NEW b \in Boards, RaiseStep(b)
  PROVE  Pursued'
<1>1. /\ UNCHANGED <<program, board, warned>> /\ Throws(b)
      /\ result[b] = "running" /\ Head(todo[b]).do = "raise"
  BY DEF RaiseStep, memory
<1>2. Shown(b)' = Shown(b)
  BY <1>1 DEF Shown
<1>3. Head(todo[b]).do \in Throwing /\ Shown(b)' \in Thrown(WorldOf(Of(b)), Shown(b), Head(todo[b]))
  BY <1>1, <1>2 DEF Throwing, Thrown
<1>4. UNCHANGED program
  BY <1>1
<1>5. /\ OnCourse(Of(b), result'[b], todo'[b], Shown(b)')
      /\ \A c \in Boards : c # b => todo'[c] = todo[c] /\ result'[c] = result[c]
  BY <1>1, <1>3, <1>4, PursuedThrow
<1>6. \A c \in Boards : c # b =>
        /\ todo'[c] = todo[c] /\ result'[c] = result[c] /\ board'[c] = board[c]
        /\ (c \in warned' <=> c \in warned)
  BY <1>1, <1>5
<1> QED
  BY <1>4, <1>5, <1>6, PursuedElsewhere

LEMMA PursuedLock ==
  ASSUME ToolInv, Pursued, NEW b \in Boards, Lock(b)
  PROVE  Pursued'
<1> DEFINE given == Of(b)
           s == Shown(b)
<1>1. /\ UNCHANGED <<program, result, todo, warned>> /\ given.kind = "FEB"
      /\ board[b]["pllReset"] = "inactive"
      /\ board' = [board EXCEPT ![b]["pllLocked"] = "yes"]
  BY DEF Lock, memory
<1>2. board = [c \in Boards |-> board[c]]
  BY DEF ToolInv, Tables
<1>3. board'[b] = [board[b] EXCEPT !["pllLocked"] = "yes"]
      /\ \A c \in Boards : c # b => board'[c] = board[c]
  BY <1>1, <1>2
<1>4. given.kind \in Kinds /\ WorldOf(given).plls = TRUE
  <2>1. given.kind \in Kinds
    BY <1>1 DEF Kinds
  <2> QED
    BY <1>1, <2>1, WorldOfIsWorld
<1>5. CanLock(WorldOf(given), s) /\ OnCourse(given, result[b], todo[b], s)
  BY <1>1, <1>4 DEF CanLock, Pursued, Shown
<1>6. Shown(b)' = Locked(s)
  <2> DEFINE new == [board[b] EXCEPT !["pllLocked"] = "yes"]
  <2>1. Locked(s) = [s EXCEPT !.lines = new] /\ s = [lines |-> board[b], warned |-> s.warned]
    BY DEF Locked, Shown
  <2>2. Shown(b)' = [lines |-> new, warned |-> s.warned]
    BY <1>1, <1>3 DEF Shown
  <2> HIDE DEF new, s
  <2>3. [s EXCEPT !.lines = new] = [lines |-> new, warned |-> s.warned]
    BY <2>1
  <2> QED
    BY <2>1, <2>2, <2>3
<1> HIDE DEF s
<1>7. OnCourse(given, result[b], todo[b], Locked(s))
  BY <1>4, <1>5, CourseLocks
<1>8. OnCourse(given, result'[b], todo'[b], Shown(b)')
  BY <1>1, <1>6, <1>7
<1>9. \A c \in Boards : c # b =>
        /\ todo'[c] = todo[c] /\ result'[c] = result[c] /\ board'[c] = board[c]
        /\ (c \in warned' <=> c \in warned)
  BY <1>1, <1>3
<1>10. UNCHANGED program
  BY <1>1
<1> QED
  BY <1>8, <1>9, <1>10, PursuedElsewhere

LEMMA PursuedNext == ToolInv /\ Pursued /\ [ToolNext]_toolVars => Pursued'
<1> SUFFICES ASSUME ToolInv, Pursued, [ToolNext]_toolVars PROVE Pursued'
  OBVIOUS
<1>1. CASE StartBoard
  BY <1>1, PursuedStart
<1>2. CASE Join \/ Terminate \/ UNCHANGED toolVars
  <2>1. UNCHANGED <<program, result, todo, board, warned>>
    BY <1>2 DEF Join, Terminate, toolVars
  <2>2. Boards' = Boards /\ \A b \in Boards : Of(b)' = Of(b) /\ Shown(b)' = Shown(b)
    BY <2>1 DEF Boards, Of, Shown
  <2> QED
    BY <2>1, <2>2 DEF Pursued
<1>3. ASSUME NEW b \in Boards, Step(b)
      PROVE  Pursued'
  BY <1>3, PursuedStep
<1>4. ASSUME NEW b \in Boards, Fault(b)
      PROVE  Pursued'
  BY <1>4, PursuedFault
<1>5. ASSUME NEW b \in Boards, RaiseStep(b)
      PROVE  Pursued'
  BY <1>5, PursuedRaise
<1>6. ASSUME NEW b \in Boards, Lock(b)
      PROVE  Pursued'
  BY <1>6, PursuedLock
<1> QED
  BY <1>1, <1>2, <1>3, <1>4, <1>5, <1>6 DEF ToolNext

\* What is held, for a board in a state of its world.
Held(lines, given) ==
  CASE given.kind = "FEB" ->
         /\ lines["rocAnalog"] = "partial" =>
              lines["pllReset"] = "active" /\ lines["coreReset"] = "active"
         /\ lines["vmms"] = "partial" => lines["acquisition"] = "off"
    [] given.kind = "ADDC" ->
         \A i \in Arts : lines[<<i, "eports">>] \in {"partial", "training"} =>
           /\ lines[<<i, "mask">>] = "all"
           /\ lines[<<i, "artReset">>] = "inactive" /\ lines[<<i, "gbtxReset">>] = "inactive"
    [] given.kind = "align" -> lines["qpllReset"] \subseteq given.quads \ lines["fibers"]
    [] OTHER -> TRUE

LEMMA ShownIsHeld ==
  ASSUME NEW given, given.kind \in Kinds, NEW s \in States(WorldOf(given))
  PROVE  Held(s.lines, given)
<1> DEFINE W == WorldOf(given)
<1>1. /\ s.lines \in [W.lines -> W.values] /\ \A l \in W.lines : <<l, s.lines[l]>> \notin W.never
      /\ \A h \in W.ties : s.lines[h.line] \in h.values => s.lines[h.by] \in h.ats
  BY DEF States, Tied
<1>2. CASE given.kind = "FEB"
  <2>1. W.ties = {[line |-> "rocAnalog", values |-> {"partial"}, by |-> "pllReset", ats |-> {"active"}],
                  [line |-> "rocAnalog", values |-> {"partial"}, by |-> "coreReset", ats |-> {"active"}],
                  [line |-> "vmms", values |-> {"partial"}, by |-> "acquisition", ats |-> {"off"}]}
    BY <1>2 DEF WorldOf, SenderFebWorld
  <2> HIDE DEF W
  <2>2. /\ s.lines["rocAnalog"] = "partial" =>
             s.lines["pllReset"] = "active" /\ s.lines["coreReset"] = "active"
        /\ s.lines["vmms"] = "partial" => s.lines["acquisition"] = "off"
    BY <1>1, <2>1
  <2> QED
    BY <1>2, <2>2 DEF Held
<1>3. CASE given.kind = "ADDC"
  <2>1. W.ties = AddcTies
    BY <1>3 DEF WorldOf, SenderAddcWorld, SenderAddcOf
  <2> HIDE DEF W
  <2>2. ASSUME NEW i \in Arts, s.lines[<<i, "eports">>] \in {"partial", "training"}
        PROVE  /\ s.lines[<<i, "mask">>] = "all" /\ s.lines[<<i, "artReset">>] = "inactive"
               /\ s.lines[<<i, "gbtxReset">>] = "inactive"
    <3>1. ASSUME NEW p \in {<<"mask", "all">>, <<"artReset", "inactive">>, <<"gbtxReset", "inactive">>}
          PROVE  s.lines[<<i, p[1]>>] = p[2]
      <4> DEFINE h == [line |-> <<i, "eports">>, values |-> Unsettled, by |-> <<i, p[1]>>,
                       ats |-> {p[2]}]
      <4>1. h \in W.ties
        <5> DEFINE tie(j, q) == [line |-> <<j, "eports">>, values |-> Unsettled, by |-> <<j, q[1]>>,
                                 ats |-> {q[2]}]
                   P == {<<"mask", "all">>, <<"artReset", "inactive">>, <<"gbtxReset", "inactive">>}
        <5>1. h = tie(i, p) /\ p \in P /\ i \in Arts
          BY <2>2, <3>1
        <5>2. AddcTies = {tie(j, q) : j \in Arts, q \in P}
          BY DEF AddcTies
        <5> HIDE DEF tie, h, P
        <5> QED
          BY <2>1, <5>1, <5>2
      <4>2. /\ h.line = <<i, "eports">> /\ h.values = {"partial", "training"}
            /\ h.by = <<i, p[1]>> /\ h.ats = {p[2]}
        BY DEF Unsettled
      <4> HIDE DEF h
      <4> QED
        BY <1>1, <2>2, <4>1, <4>2
    <3> QED
      BY <3>1
  <2> QED
    BY <1>3, <2>2 DEF Held
<1>4. CASE given.kind = "align"
  <2> DEFINE V == SenderAlignWorld(given.quads)
  <2>1. W = V
    BY <1>4 DEF WorldOf
  <2>2. /\ V.lines = {"scaxAddress", "fibers", "qpllReset"}
        /\ V.values = (SUBSET given.quads) \cup {{"fibers"}}
        /\ \A value \in {{"fibers"}} \ SUBSET given.quads : <<"qpllReset", value>> \in V.never
        /\ \A q \in given.quads :
             [line |-> "qpllReset", values |-> {value \in SUBSET given.quads : q \in value},
              by |-> "fibers", ats |-> {value \in SUBSET given.quads : q \notin value}] \in V.ties
    BY DEF SenderAlignWorld
  <2> HIDE DEF W, V
  <2>3. s.lines["qpllReset"] \in SUBSET given.quads
    BY <1>1, <2>1, <2>2
  <2>4. ASSUME NEW q \in s.lines["qpllReset"]
        PROVE  q \in given.quads /\ q \notin s.lines["fibers"]
    <3> DEFINE h == [line |-> "qpllReset", values |-> {value \in SUBSET given.quads : q \in value},
                     by |-> "fibers", ats |-> {value \in SUBSET given.quads : q \notin value}]
    <3>1. q \in given.quads
      BY <2>3, <2>4
    <3>2. h \in V.ties /\ s.lines["qpllReset"] \in h.values
      BY <2>2, <2>3, <2>4, <3>1
    <3>3. h.line = "qpllReset" /\ h.by = "fibers" /\ \A value \in h.ats : q \notin value
      OBVIOUS
    <3> HIDE DEF h
    <3> QED
      BY <1>1, <2>1, <3>1, <3>2, <3>3
  <2> QED
    BY <1>4, <2>4 DEF Held
<1>5. CASE given.kind = "TP"
  BY <1>5 DEF Held
<1> QED
  BY <1>2, <1>3, <1>4, <1>5 DEF Kinds

\* Half written registers are held, whatever accesses fail and are repeated,
\* and also when the thread has failed (HeldWhileSent).
THEOREM HeldWhileSentCorrect == ToolSpec => []HeldWhileSent
<1>1. ASSUME ToolInv, Pursued, NEW b \in Boards
      PROVE  /\ Of(b).kind \in Kinds /\ Shown(b) \in States(WorldOf(Of(b)))
             /\ Shown(b).lines = board[b]
  BY <1>1, ProgramType DEF ToolInv, Kinds, Pursued, OnCourse, Shown
<1>2. ToolInv /\ Pursued => HeldWhileSent
  <2> SUFFICES ASSUME ToolInv, Pursued, NEW b \in Boards
               PROVE  Held(board[b], Of(b))
    BY Zenon DEF HeldWhileSent, Held
  <2>1. Of(b).kind \in Kinds /\ Shown(b) \in States(WorldOf(Of(b))) /\ Shown(b).lines = board[b]
    BY <1>1
  <2>2. Held(Shown(b).lines, Of(b))
    BY <2>1, ShownIsHeld
  <2> QED
    BY <2>1, <2>2
<1> QED
  BY <1>2, ToolInvInit, ToolInvStep, PursuedInit, PursuedNext, PTL DEF ToolSpec

\* A board that ended without an exception and without a report has what the
\* program was asked for (ConfiguredAsAsked).
THEOREM ConfiguredCorrect == ToolSpec => []ConfiguredAsAsked
<1>1. ASSUME ToolInv, Pursued, NEW b \in Boards, result[b] = "done", b \notin warned
      PROVE  Configured(board[b], Of(b))
  <2>1. todo[b] = <<>> /\ Shown(b).lines = board[b] /\ Shown(b).warned = FALSE
    BY <1>1 DEF ToolInv, ToolTypeOK, Shown
  <2>2. Shown(b) \in Goal(Of(b))
    BY <1>1, <2>1, CourseEnds DEF Pursued
  <2> QED
    BY <2>1, <2>2 DEF Goal
<1>2. ToolInv /\ Pursued => ConfiguredAsAsked
  BY <1>1 DEF ConfiguredAsAsked
<1> QED
  BY <1>2, ToolInvInit, ToolInvStep, PursuedInit, PursuedNext, PTL DEF ToolSpec
=============================================================================
