--------------------------- MODULE TaskRun_proofs ---------------------------
(***************************************************************************)
(* Theorems about TaskRun, for any workflow, any number of requests and    *)
(* however they interleave, call one another, fail and crash.              *)
(*                                                                         *)
(* A request works on copies of the steps it read earlier, one copy per    *)
(* call on its stack.  The invariant says what those copies are worth: a   *)
(* step that is resolved in one of them was resolved, which nothing takes  *)
(* back, so that what was ready in a copy is ready for good.               *)
(***************************************************************************)
EXTENDS TaskRun, SequenceTheorems, FiniteSetTheorems, TLAPS

-----------------------------------------------------------------------------
(* What a copy of the steps is worth.                                      *)

RowsEarned(table) == \A s \in Step : table[s].status = "RESOLVED" => s \in resolved

Done(s) == Dependencies(s) \subseteq resolved

-----------------------------------------------------------------------------
(* A request under way, and what it knows: the statements that work on a   *)
(* step have one in hand, a step whose action is created or retried has    *)
(* its dependencies done, and the action that is written back exists.      *)

TopOf(q) == q.frames[Len(q.frames)]
StackEarned(q) == \A i \in 1 .. Len(q.frames) : RowsEarned(q.frames[i].rows)

Moving == {"action.read", "action.save", "step.save"}
OnRow == Moving \cup {"action.get", "action.create", "run", "note", "escalate"}
OnStack == OnRow \cup {"create", "advance.task", "advance.steps", "loop", "complete"}

Knows(q) ==
  /\ StackEarned(q)
  /\ q.pc = "task.save" => q.to \in {"RUNNING", "CANCELLED"}
  /\ q.pc \in OnStack => q.frames # <<>>
  /\ q.pc \in OnRow => TopOf(q).cur \in Step
  /\ q.pc \in {"action.read", "action.save"} => q.to \in Status
  /\ q.pc \in {"action.get", "action.create"} => Done(TopOf(q).cur)
  /\ q.pc \in Moving /\ q.to = "CREATED" => Done(TopOf(q).cur)
  /\ q.pc = "action.save" =>
       actions[TopOf(q).cur].status # "NONE" /\ q.act.status # "NONE"

FramesInv == \A r \in Request : Knows(req[r])

RunInv == TypeOK /\ FramesInv /\ DependenciesFirst /\ StepsAreEarned

-----------------------------------------------------------------------------
(* The constructors of requests.                                           *)

LEMMA NoRowsFacts ==
  /\ NoRow \in Row /\ New \in Row /\ NoRow.status = "NONE" /\ New.status = "CREATED"
  /\ NoRows \in [Step -> Row] /\ RowsEarned(NoRows)
<1>1. "CREATED" \in Status
  BY DEF Status, ActionMoves
<1>2. NoRow \in Row /\ New \in Row /\ NoRow.status = "NONE" /\ New.status = "CREATED"
  BY <1>1 DEF NoRow, New, Row
<1>3. QED
  BY <1>2 DEF NoRows, RowsEarned

LEMMA BecameFacts ==
  ASSUME NEW row \in Row, NEW to \in Status
  PROVE  Became(row, to) \in Row /\ Became(row, to).status = to
BY DEF Became, Row

LEMMA StatusFacts ==
  /\ Status = {"CREATED", "DISPATCHING", "DISPATCHED", "ACKED", "RESOLVED", "FAILED"}
  /\ \A s \in Status : s # "NONE"
BY DEF Status, ActionMoves

LEMMA FrameFacts ==
  ASSUME NEW kind \in {"advance", "sweep", "create", "call", "direct"},
         NEW table \in [Step -> Row], NEW todo \in SUBSET Step
  PROVE  /\ Frame(kind, table, todo) \in FrameType
         /\ Frame(kind, table, todo).rows = table /\ Frame(kind, table, todo).kind = kind
BY DEF Frame, FrameType

(* The shape of a stack with a frame on top of it.                         *)
LEMMA TopFacts ==
  ASSUME NEW q \in ReqType, q.frames # <<>>
  PROVE  /\ Len(q.frames) \in Nat \ {0} /\ q.frames \in Seq(FrameType)
         /\ TopOf(q) \in FrameType
         /\ StackEarned(q) => RowsEarned(TopOf(q).rows)
<1>1. q.frames \in Seq(FrameType)
  BY DEF ReqType
<1>2. Len(q.frames) \in Nat \ {0}
  BY <1>1, EmptySeq, LenProperties
<1>3. Len(q.frames) \in 1 .. Len(q.frames)
  BY <1>2
<1>4. TopOf(q) \in FrameType
  BY <1>1, <1>3, ElementOfSeq DEF TopOf
<1>5. QED
  BY <1>1, <1>2, <1>3, <1>4 DEF StackEarned, TopOf

LEMMA IdleFacts ==
  /\ Idle \in ReqType /\ Knows(Idle) /\ StackEarned(Idle)
  /\ Idle.pc = "idle" /\ Idle.frames = <<>> /\ Idle.to = "none" /\ Idle.act = NoRow
<1>1. Idle.pc = "idle" /\ Idle.frames = <<>> /\ Idle.to = "none" /\ Idle.act = NoRow
  BY DEF Idle
<1>2. Idle \in ReqType
  BY NoRowsFacts DEF Idle, ReqType, Pc
<1>3. StackEarned(Idle)
  BY <1>1 DEF StackEarned
<1>4. QED
  BY <1>1, <1>2, <1>3 DEF Knows, OnStack, OnRow, Moving

(* A request that holds the stack s at statement p.                        *)
LEMMA WithTopFacts ==
  ASSUME NEW q \in ReqType, q.frames # <<>>, NEW f \in FrameType
  PROVE  /\ WithTop(q, f) \in ReqType /\ WithTop(q, f).frames # <<>>
         /\ TopOf(WithTop(q, f)) = f
         /\ WithTop(q, f).pc = q.pc /\ WithTop(q, f).to = q.to /\ WithTop(q, f).act = q.act
         /\ StackEarned(q) /\ RowsEarned(f.rows) => StackEarned(WithTop(q, f))
<1> DEFINE n == Len(q.frames)
           g == [q.frames EXCEPT ![n] = f]
<1>1. q.frames \in Seq(FrameType) /\ n \in Nat \ {0} /\ n \in 1 .. n
  BY TopFacts
<1>2. g \in Seq(FrameType) /\ Len(g) = n /\ \A j \in 1 .. n : g[j] = IF j = n THEN f ELSE q.frames[j]
  BY <1>1, ExceptSeq
<1>3. WithTop(q, f) = [q EXCEPT !.frames = g]
  BY DEF WithTop, ReqType
<1>4. g # <<>>
  BY <1>1, <1>2, EmptySeq
<1> HIDE DEF g
<1>5. WithTop(q, f) \in ReqType /\ WithTop(q, f).frames = g
      /\ WithTop(q, f).pc = q.pc /\ WithTop(q, f).to = q.to /\ WithTop(q, f).act = q.act
  BY <1>2, <1>3 DEF ReqType
<1>6. TopOf(WithTop(q, f)) = f
  BY <1>1, <1>2, <1>5 DEF TopOf
<1>7. StackEarned(q) /\ RowsEarned(f.rows) => StackEarned(WithTop(q, f))
  BY <1>2, <1>5 DEF StackEarned
<1>8. QED
  BY <1>4, <1>5, <1>6, <1>7

LEMMA AdvanceFacts ==
  ASSUME NEW q \in ReqType, StackEarned(q)
  PROVE  Advance(q) \in ReqType /\ Knows(Advance(q))
<1> DEFINE f == Frame("advance", NoRows, {})
           g == Append(q.frames, f)
<1>1. f \in FrameType /\ f.rows = NoRows
  BY FrameFacts, NoRowsFacts
<1>2. q.frames \in Seq(FrameType)
  BY DEF ReqType
<1> HIDE DEF f
<1>3. /\ g \in Seq(FrameType) /\ g # <<>> /\ Len(g) = Len(q.frames) + 1
      /\ \A i \in 1 .. Len(q.frames) : g[i] = q.frames[i]
      /\ g[Len(q.frames) + 1] = f
  BY <1>1, <1>2, AppendProperties
<1>4. Advance(q) = [q EXCEPT !.pc = "advance.task", !.frames = g]
  BY DEF Advance, f
<1>5. Len(q.frames) \in Nat
  BY <1>2, LenProperties
<1> HIDE DEF g
<1>6. Advance(q) \in ReqType /\ Advance(q).frames = g /\ Advance(q).pc = "advance.task"
  BY <1>3, <1>4 DEF ReqType, Pc
<1>7. StackEarned(Advance(q))
  <2>1. \A i \in 1 .. Len(g) : RowsEarned(g[i].rows)
    BY <1>1, <1>3, <1>5, NoRowsFacts DEF StackEarned
  <2>2. QED
    BY <2>1, <1>6 DEF StackEarned
<1>8. QED
  BY <1>3, <1>6, <1>7 DEF Knows, OnStack, OnRow, Moving

(* The stack without its top, or as it is, at the loop.                    *)
LEMMA LoopFacts ==
  ASSUME NEW g \in Seq(FrameType), g # <<>>, \A i \in 1 .. Len(g) : RowsEarned(g[i].rows),
         NEW q, q = [Idle EXCEPT !.pc = "loop", !.frames = g]
  PROVE  q \in ReqType /\ Knows(q)
<1>1. q \in ReqType /\ q.pc = "loop" /\ q.frames = g
  BY IdleFacts DEF ReqType, Pc
<1>2. StackEarned(q)
  BY <1>1 DEF StackEarned
<1>3. Knows(q)
  BY <1>1, <1>2 DEF Knows, OnStack, OnRow, Moving
<1>4. QED
  BY <1>1, <1>3

LEMMA ReturnFacts ==
  ASSUME NEW q \in ReqType, StackEarned(q)
  PROVE  Return(q) \in ReqType /\ Knows(Return(q))
<1>1. CASE Len(q.frames) <= 1 \/ q.frames[Len(q.frames) - 1].kind = "call"
  BY <1>1, IdleFacts DEF Return
<1>2. CASE ~ (Len(q.frames) <= 1 \/ q.frames[Len(q.frames) - 1].kind = "call")
  <2> DEFINE n == Len(q.frames)
             g == SubSeq(q.frames, 1, n - 1)
  <2>1. q.frames \in Seq(FrameType) /\ n \in Nat /\ n >= 2
    BY <1>2, LenProperties DEF ReqType
  <2>2. \A i \in 1 .. n : q.frames[i] \in FrameType
    BY <2>1, ElementOfSeq
  <2>3. 1 \in Int /\ n - 1 \in Int /\ \A i \in 1 .. (n - 1) : q.frames[i] \in FrameType
    BY <2>1, <2>2
  <2>4. /\ g \in Seq(FrameType)
        /\ Len(g) = IF 1 <= n - 1 THEN (n - 1) - 1 + 1 ELSE 0
        /\ \A i \in 1 .. ((n - 1) - 1 + 1) : g[i] = q.frames[1 + i - 1]
    BY <2>3, SubSeqProperties
  <2>5. Len(g) = n - 1 /\ \A i \in 1 .. Len(g) : g[i] = q.frames[i] /\ i \in 1 .. n
    BY <2>1, <2>4
  <2>6. g # <<>> /\ \A i \in 1 .. Len(g) : RowsEarned(g[i].rows)
    <3> HIDE DEF g
    <3>1. g # <<>>
      BY <2>1, <2>5, EmptySeq
    <3>2. \A i \in 1 .. n : RowsEarned(q.frames[i].rows)
      BY DEF StackEarned
    <3>3. QED
      BY <2>5, <3>1, <3>2
  <2>7. PICK p : p = [Idle EXCEPT !.pc = "loop", !.frames = g]
    OBVIOUS
  <2>8. Return(q) = p
    BY <1>2, <2>7 DEF Return, Below
  <2>9. g \in Seq(FrameType)
    BY <2>4
  <2> HIDE DEF g
  <2>10. p \in ReqType /\ Knows(p)
    BY <2>6, <2>7, <2>9, LoopFacts
  <2>11. QED
    BY <2>8, <2>10
<1>3. QED
  BY <1>1, <1>2

LEMMA GiveUpFacts ==
  ASSUME NEW q \in ReqType, StackEarned(q)
  PROVE  GiveUp(q) \in ReqType /\ Knows(GiveUp(q))
<1>1. PICK p : p = [Idle EXCEPT !.pc = "loop", !.frames = q.frames]
  OBVIOUS
<1>2. q.frames # <<>> => p \in ReqType /\ Knows(p)
  BY <1>1, LoopFacts DEF StackEarned, ReqType
<1>3. (GiveUp(q) = p /\ q.frames # <<>>) \/ GiveUp(q) = Idle
  BY <1>1 DEF GiveUp
<1>4. QED
  BY <1>2, <1>3, IdleFacts

LEMMA MoveFacts ==
  ASSUME NEW q \in ReqType, StackEarned(q), q.frames # <<>>, TopOf(q).cur \in Step,
         NEW to \in Status, to = "CREATED" => Done(TopOf(q).cur)
  PROVE  Move(q, to) \in ReqType /\ Knows(Move(q, to))
<1> DEFINE p == Move(q, to)
<1>1. p \in ReqType
  BY NoRowsFacts DEF Move, ReqType, Pc
<1>2. p.pc = "action.read" /\ p.to = to /\ p.frames = q.frames
  BY DEF Move, ReqType
<1> HIDE DEF p
<1>3. StackEarned(p) /\ TopOf(p) = TopOf(q)
  BY <1>2 DEF StackEarned, TopOf
<1>4. Knows(p)
  BY <1>2, <1>3 DEF Knows, OnStack, OnRow, Moving
<1>5. QED
  BY <1>1, <1>4 DEF p

(* A request goes to another statement with the stack it has.              *)
LEMMA PlaceFacts ==
  ASSUME NEW q \in ReqType, NEW pc \in Pc, NEW p, p = [q EXCEPT !.pc = pc]
  PROVE  /\ p \in ReqType /\ p.pc = pc /\ p.to = q.to /\ p.act = q.act /\ p.frames = q.frames
         /\ TopOf(p) = TopOf(q) /\ StackEarned(p) = StackEarned(q)
BY DEF ReqType, TopOf, StackEarned

(* The positions are natural numbers, so a set of steps has a first one:   *)
(* the initial segments below them are well founded under inclusion.       *)
LEMMA FirstFacts ==
  ASSUME NEW S \in SUBSET Step, S # {}
  PROVE  First(S) \in S /\ \A t \in S : Position[First(S)] <= Position[t]
<1>1. PICK z \in S : TRUE
  OBVIOUS
<1>2. \A s \in S : Position[s] \in Nat
  BY PositionAssumption
<1> DEFINE n == Position[z]
           U == 0 .. n
           T == {0 .. Position[s] : s \in {t \in S : Position[t] <= n}}
           R == StrictSubsetOrdering(U)
<1>3. n \in Nat /\ IsFiniteSet(U)
  BY <1>2, FS_Interval
<1>4. T \subseteq FiniteSubsetsOf(U) /\ T # {}
  <2>1. T \subseteq SUBSET U
    BY <1>2, <1>3
  <2>2. \A V \in T : IsFiniteSet(V)
    BY <2>1, <1>3, FS_Subset
  <2>3. T # {}
    BY <1>1, <1>3
  <2>4. QED
    BY <2>1, <2>2, <2>3 DEF FiniteSubsetsOf
<1>5. PICK V \in T : \A W \in T : ~ (<<W, V>> \in R)
  <2>1. IsWellFoundedOn(R, FiniteSubsetsOf(U))
    BY FS_StrictSubsetOrderingWellFounded
  <2> HIDE DEF T, R, U
  <2>2. QED
    BY <2>1, <1>4, WFMin
<1>6. PICK s \in S : Position[s] <= n /\ V = 0 .. Position[s]
  BY <1>5
<1>7. ASSUME NEW t \in S, Position[t] < Position[s] PROVE FALSE
  <2>1. Position[t] \in Nat /\ Position[s] \in Nat /\ Position[t] <= n
    BY <1>2, <1>3, <1>6, <1>7
  <2>2. 0 .. Position[t] \in T
    BY <2>1
  <2>3. 0 .. Position[t] \subseteq V /\ V \subseteq U
    BY <2>1, <1>3, <1>6, <1>7
  <2>4. 0 .. Position[t] # V
    <3>1. Position[s] \in V /\ Position[s] \notin 0 .. Position[t]
      BY <2>1, <1>6, <1>7
    <3>2. QED
      BY <3>1
  <2> HIDE DEF T, U
  <2>5. <<0 .. Position[t], V>> \in R
    BY <2>3, <2>4 DEF StrictSubsetOrdering
  <2>6. QED
    BY <2>2, <2>5, <1>5
<1>8. \A t \in S : Position[s] <= Position[t]
  BY <1>2, <1>6, <1>7
<1>9. QED
  BY <1>6, <1>8 DEF First

-----------------------------------------------------------------------------
(* What every step keeps: what was resolved stays so, an action stays.     *)

Grows ==
  /\ resolved \subseteq resolved'
  /\ \A s \in Step : actions[s].status # "NONE" => actions'[s].status # "NONE"

LEMMA KnowsStays ==
  ASSUME Grows, NEW q, Knows(q)
  PROVE  Knows(q)'
<1>1. \A table : RowsEarned(table) => RowsEarned(table)'
  BY DEF RowsEarned, Grows
<1>2. StackEarned(q)'
  BY <1>1 DEF StackEarned, Knows
<1>3. \A s : Done(s) => Done(s)'
  BY DEF Done, Grows
<1>4. TopOf(q)' = TopOf(q)
  BY DEF TopOf
<1>5. q.pc = "action.save" => actions'[TopOf(q).cur].status # "NONE"
  BY DEF Knows, Grows, OnRow, Moving
<1>6. QED
  BY <1>2, <1>3, <1>4, <1>5 DEF Knows

(* Request r goes on to q.                                                 *)
LEMMA FramesKept ==
  ASSUME TypeOK, FramesInv, Grows, NEW r \in Request, NEW q, Knows(q)', Goto(r, q)
  PROVE  FramesInv'
<1>1. ASSUME NEW i \in Request PROVE Knows(req[i])'
  <2>1. CASE i = r
    <3>1. req'[i] = q
      BY <2>1 DEF Goto, TypeOK
    <3>2. QED
      BY <3>1 DEF Knows, StackEarned, TopOf
  <2>2. CASE i # r
    <3>1. PICK k : k = req[i]
      OBVIOUS
    <3>2. Knows(k)'
      BY <3>1, KnowsStays DEF FramesInv
    <3>3. req'[i] = k
      BY <2>2, <3>1 DEF Goto, TypeOK
    <3>4. QED
      BY <3>2, <3>3 DEF Knows, StackEarned, TopOf
  <2>3. QED
    BY <2>1, <2>2
<1>2. QED
  BY <1>1 DEF FramesInv

LEMMA RequestFacts ==
  ASSUME RunInv, NEW r \in Request
  PROVE  req[r] \in ReqType /\ Knows(req[r])
BY DEF RunInv, TypeOK, FramesInv

(* A statement that writes no row.                                         *)
LEMMA ReadStep ==
  ASSUME RunInv, NEW r \in Request, NEW q \in ReqType, Knows(q), Goto(r, q),
         UNCHANGED <<rows, resolved>>,
         calls' \in 0 .. MaxCalls, failures' \in 0 .. MaxFailures
  PROVE  RunInv'
<1>1. UNCHANGED <<task, steps, actions, notes, resolved>>
  BY DEF rows
<1>2. TypeOK'
  BY <1>1 DEF RunInv, TypeOK, Goto
<1>3. Grows
  BY <1>1 DEF Grows
<1>4. Knows(q)'
  BY <1>3, KnowsStays
<1>5. FramesInv'
  BY <1>3, <1>4, FramesKept DEF RunInv
<1>6. DependenciesFirst' /\ StepsAreEarned'
  BY <1>1 DEF RunInv, DependenciesFirst, StepsAreEarned
<1>7. QED
  BY <1>2, <1>5, <1>6 DEF RunInv

LEMMA Bounds ==
  ASSUME RunInv
  PROVE  /\ calls \in 0 .. MaxCalls /\ failures \in 0 .. MaxFailures
         /\ calls < MaxCalls => calls + 1 \in 0 .. MaxCalls
         /\ failures < MaxFailures => failures + 1 \in 0 .. MaxFailures
BY CapAssumption DEF RunInv, TypeOK

-----------------------------------------------------------------------------
(* Requests that arrive.                                                   *)

LEMMA ArriveKeeps ==
  ASSUME RunInv, NEW r \in Request, NEW op, NEW q \in ReqType, Knows(q), Begin(r, op),
         Goto(r, q), UNCHANGED <<rows, failures, resolved>>
  PROVE  RunInv'
<1>1. calls' \in 0 .. MaxCalls /\ failures' \in 0 .. MaxFailures
  BY Bounds DEF Begin
<1>2. QED
  BY <1>1, ReadStep

LEMMA ChangeTaskKeeps ==
  ASSUME RunInv, NEW r \in Request, NEW op, NEW to \in {"RUNNING", "CANCELLED"},
         ChangeTask(r, op, to)
  PROVE  RunInv'
<1>1. PICK q : q = [Idle EXCEPT !.pc = "task.save", !.to = to]
  OBVIOUS
<1>2. q \in ReqType /\ q.pc = "task.save" /\ q.to = to /\ q.frames = <<>>
  BY <1>1, IdleFacts DEF ReqType, Pc
<1>3. Knows(q)
  BY <1>2 DEF Knows, StackEarned, OnStack, OnRow, Moving
<1>4. QED
  BY <1>1, <1>2, <1>3, ArriveKeeps DEF ChangeTask

LEMMA NudgeKeeps ==
  ASSUME RunInv, NEW r \in Request, Nudge(r)
  PROVE  RunInv'
BY IdleFacts, AdvanceFacts, ArriveKeeps DEF Nudge

(* A request with one frame on its stack.                                  *)
LEMMA OneFrame ==
  ASSUME NEW f \in FrameType, RowsEarned(f.rows), NEW q, q.frames = <<f>>
  PROVE  /\ <<f>> \in Seq(FrameType) /\ q.frames # <<>> /\ TopOf(q) = f /\ StackEarned(q)
<1>1. <<f>> \in Seq(FrameType) /\ Len(<<f>>) = 1 /\ <<f>>[1] = f /\ <<f>> # <<>>
  OBVIOUS
<1>2. QED
  BY <1>1 DEF TopOf, StackEarned

(* A handler on one step: of the task service or of the action service.    *)
LEMMA HandlerMoves ==
  ASSUME NEW f \in FrameType, RowsEarned(f.rows), f.cur \in Step,
         NEW to \in Status, to # "CREATED",
         NEW q, q = Move([Idle EXCEPT !.frames = <<f>>], to)
  PROVE  q \in ReqType /\ Knows(q)
<1>1. PICK p : p = [Idle EXCEPT !.frames = <<f>>]
  OBVIOUS
<1>2. p.frames = <<f>>
  BY <1>1 DEF Idle
<1>3. <<f>> \in Seq(FrameType) /\ p.frames # <<>> /\ TopOf(p) = f /\ StackEarned(p)
  BY <1>2, OneFrame
<1>4. p \in ReqType
  BY <1>1, <1>3, IdleFacts DEF ReqType
<1>5. QED
  BY <1>1, <1>3, <1>4, MoveFacts

LEMMA OnStepKeeps ==
  ASSUME RunInv, NEW r \in Request, NEW op, NEW s \in Step,
         NEW to \in {"ACKED", "RESOLVED", "FAILED"}, OnStep(r, op, s, to)
  PROVE  RunInv'
<1>1. PICK table : table = [NoRows EXCEPT ![s] = steps[s]]
  OBVIOUS
<1>2. PICK f : f = [Frame("call", table, {}) EXCEPT !.cur = s]
  OBVIOUS
<1>3. PICK q : q = Move([Idle EXCEPT !.frames = <<f>>], to)
  OBVIOUS
<1>4. table \in [Step -> Row]
  BY <1>1, NoRowsFacts DEF RunInv, TypeOK
<1>5. RowsEarned(table)
  BY <1>1, NoRowsFacts DEF RowsEarned, RunInv, StepsAreEarned
<1>6. f \in FrameType /\ f.rows = table /\ f.cur = s
  BY <1>2, <1>4 DEF Frame, FrameType
<1>7. q \in ReqType /\ Knows(q)
  BY <1>3, <1>5, <1>6, HandlerMoves, StatusFacts
<1>8. QED
  BY <1>1, <1>2, <1>3, <1>7, ArriveKeeps DEF OnStep

LEMMA OnActionKeeps ==
  ASSUME RunInv, NEW r \in Request, NEW to \in {"ACKED", "RESOLVED"}, OnAction(r, to)
  PROVE  RunInv'
<1>1. PICK s \in Step : Goto(r, Move([Idle EXCEPT !.frames =
        <<[Frame("direct", NoRows, {}) EXCEPT !.cur = s]>>], to))
  BY DEF OnAction
<1>2. PICK f : f = [Frame("direct", NoRows, {}) EXCEPT !.cur = s]
  OBVIOUS
<1>3. PICK q : q = Move([Idle EXCEPT !.frames = <<f>>], to)
  OBVIOUS
<1>4. f \in FrameType /\ f.rows = NoRows /\ f.cur = s
  BY <1>2, NoRowsFacts DEF Frame, FrameType
<1>5. q \in ReqType /\ Knows(q)
  BY <1>3, <1>4, NoRowsFacts, HandlerMoves, StatusFacts
<1>6. QED
  BY <1>1, <1>2, <1>3, <1>5, ArriveKeeps DEF OnAction

LEMMA SweepKeeps ==
  ASSUME RunInv, NEW r \in Request, Sweep(r)
  PROVE  RunInv'
<1>1. PICK late \in (SUBSET {s \in Timed : steps[s].status \in {"DISPATCHED", "ACKED"}}) \ {{}} :
        Goto(r, [Idle EXCEPT !.pc = "loop", !.frames =
          <<Frame("sweep", [s \in Step |-> IF s \in late THEN steps[s] ELSE NoRow], late)>>])
  BY DEF Sweep
<1>2. PICK table : table = [s \in Step |-> IF s \in late THEN steps[s] ELSE NoRow]
  OBVIOUS
<1>3. PICK f : f = Frame("sweep", table, late)
  OBVIOUS
<1>4. PICK q : q = [Idle EXCEPT !.pc = "loop", !.frames = <<f>>]
  OBVIOUS
<1>5. table \in [Step -> Row] /\ RowsEarned(table)
  BY <1>2, NoRowsFacts DEF RunInv, TypeOK, RowsEarned, StepsAreEarned
<1>6. late \in SUBSET Step
  BY SubsetAssumption
<1>7. f \in FrameType /\ f.rows = table
  BY <1>3, <1>5, <1>6, FrameFacts
<1>8. q.pc = "loop" /\ q.frames = <<f>>
  BY <1>4 DEF Idle
<1>9. <<f>> \in Seq(FrameType) /\ q.frames # <<>> /\ StackEarned(q)
  <2>1. RowsEarned(f.rows)
    BY <1>5, <1>7
  <2>2. QED
    BY <2>1, <1>7, <1>8, OneFrame
<1>10. q \in ReqType
  BY <1>4, <1>9, IdleFacts DEF ReqType, Pc
<1>11. Knows(q)
  BY <1>8, <1>9 DEF Knows, OnStack, OnRow, Moving
<1>12. QED
  BY <1>1, <1>2, <1>3, <1>4, <1>10, <1>11, ArriveKeeps DEF Sweep

-----------------------------------------------------------------------------
(* The statements.                                                         *)

NoteStatus == {"none", "PENDING", "DELIVERED", "FAILED"}

(* A statement that writes the task, a step or a notification.             *)
LEMMA RowStep ==
  ASSUME RunInv, NEW r \in Request, NEW q \in ReqType, Knows(q), Goto(r, q),
         UNCHANGED <<actions, calls, failures, resolved>>,
         task' \in DOMAIN TaskMoves, steps' \in [Step -> Row], RowsEarned(steps'),
         notes' \in [Step -> NoteStatus]
  PROVE  RunInv'
<1>1. TypeOK'
  BY DEF RunInv, TypeOK, Goto, NoteStatus
<1>2. Grows
  BY DEF Grows
<1>3. Knows(q)'
  BY <1>2, KnowsStays
<1>4. FramesInv'
  BY <1>2, <1>3, FramesKept DEF RunInv
<1>5. DependenciesFirst' /\ StepsAreEarned'
  BY DEF RunInv, DependenciesFirst, StepsAreEarned, RowsEarned
<1>6. QED
  BY <1>1, <1>4, <1>5 DEF RunInv

LEMMA RowFacts ==
  ASSUME RunInv
  PROVE  /\ task \in DOMAIN TaskMoves /\ steps \in [Step -> Row] /\ actions \in [Step -> Row]
         /\ notes \in [Step -> NoteStatus] /\ RowsEarned(steps) /\ resolved \subseteq Step
BY DEF RunInv, TypeOK, NoteStatus, RowsEarned, StepsAreEarned

LEMMA SaveTaskKeeps ==
  ASSUME RunInv, NEW r \in Request, SaveTask(r)
  PROVE  RunInv'
<1>1. PICK q : q = IF req[r].to = "RUNNING" THEN [Idle EXCEPT !.pc = "plan"] ELSE Idle
  OBVIOUS
<1>2. Goto(r, q) /\ task' = req[r].to /\ UNCHANGED <<steps, actions, notes, calls, failures, resolved>>
  BY <1>1 DEF SaveTask
<1>3. req[r].to \in {"RUNNING", "CANCELLED"}
  BY RequestFacts DEF SaveTask, At, Knows
<1>4. task' \in DOMAIN TaskMoves
  BY <1>2, <1>3 DEF TaskMoves
<1>5. q \in ReqType /\ Knows(q)
  <2>1. PICK p : p = [Idle EXCEPT !.pc = "plan"]
    OBVIOUS
  <2>2. p.pc = "plan" /\ p \in ReqType /\ StackEarned(p)
    BY <2>1, IdleFacts, PlaceFacts DEF Pc
  <2>3. Knows(p)
    BY <2>2 DEF Knows, OnStack, OnRow, Moving
  <2>4. QED
    BY <1>1, <2>1, <2>2, <2>3, IdleFacts
<1>6. QED
  BY <1>2, <1>4, <1>5, RowFacts, RowStep

LEMMA PlanStepsKeeps ==
  ASSUME RunInv, NEW r \in Request, PlanSteps(r)
  PROVE  RunInv'
<1>1. PICK f : f = Frame("create", NoRows, Step)
  OBVIOUS
<1>2. PICK q : q = [Idle EXCEPT !.pc = "create", !.frames = <<f>>]
  OBVIOUS
<1>3. f \in FrameType /\ RowsEarned(f.rows)
  <2>1. f \in FrameType /\ f.rows = NoRows
    BY <1>1, NoRowsFacts, FrameFacts
  <2>2. QED
    BY <2>1, NoRowsFacts
<1>4. q.pc = "create" /\ q.frames = <<f>>
  BY <1>2 DEF Idle
<1>5. <<f>> \in Seq(FrameType) /\ q.frames # <<>> /\ StackEarned(q)
  BY <1>3, <1>4, OneFrame
<1>6. q \in ReqType
  BY <1>2, <1>5, IdleFacts DEF ReqType, Pc
<1>7. Knows(q)
  BY <1>4, <1>5 DEF Knows, OnStack, OnRow, Moving
<1>8. Goto(r, q) \/ Goto(r, Advance(Idle))
  BY <1>1, <1>2 DEF PlanSteps
<1>9. QED
  BY <1>6, <1>7, <1>8, IdleFacts, AdvanceFacts, Bounds, ReadStep DEF PlanSteps

LEMMA CreateStepKeeps ==
  ASSUME RunInv, NEW r \in Request, CreateStep(r)
  PROVE  RunInv'
<1>1. PICK f : f = req[r]
  OBVIOUS
<1>2. f \in ReqType /\ Knows(f) /\ f.pc = "create" /\ f.frames # <<>> /\ StackEarned(f)
  BY <1>1, RequestFacts DEF CreateStep, At, Knows, OnStack
<1>3. PICK s : s = First(Top(r).todo)
  OBVIOUS
<1>4. PICK g : g = [TopOf(f) EXCEPT !.todo = @ \ {s}]
  OBVIOUS
<1>5. PICK q : q = WithTop(f, g)
  OBVIOUS
<1>6. steps' = [steps EXCEPT ![s] = IF @ = NoRow THEN New ELSE @]
      /\ (Goto(r, q) \/ Goto(r, Advance(Idle)))
      /\ UNCHANGED <<task, actions, notes, calls, failures, resolved>>
  BY <1>1, <1>3, <1>4, <1>5 DEF CreateStep, Top, TopOf
<1>7. TopOf(f) \in FrameType /\ RowsEarned(TopOf(f).rows)
  BY <1>2, TopFacts
<1>8. g \in FrameType /\ g.rows = TopOf(f).rows
  BY <1>4, <1>7 DEF FrameType
<1>9. q \in ReqType /\ q.frames # <<>> /\ q.pc = "create" /\ StackEarned(q)
  <2>1. RowsEarned(g.rows)
    BY <1>7, <1>8
  <2>2. QED
    BY <2>1, <1>2, <1>5, <1>8, WithTopFacts
<1>10. Knows(q)
  BY <1>9 DEF Knows, OnStack, OnRow, Moving
<1>11. steps' \in [Step -> Row] /\ RowsEarned(steps')
  BY <1>6, NoRowsFacts, RowFacts DEF RowsEarned
<1>12. Advance(Idle) \in ReqType /\ Knows(Advance(Idle))
  BY IdleFacts, AdvanceFacts
<1>13. PICK p : p \in ReqType /\ Knows(p) /\ Goto(r, p)
  BY <1>6, <1>9, <1>10, <1>12
<1>14. QED
  BY <1>6, <1>11, <1>13, RowFacts, RowStep

LEMMA ReadTaskKeeps ==
  ASSUME RunInv, NEW r \in Request, ReadTask(r)
  PROVE  RunInv'
<1>1. PICK f : f = req[r]
  OBVIOUS
<1>2. f \in ReqType /\ f.frames # <<>> /\ StackEarned(f)
  BY <1>1, RequestFacts DEF ReadTask, At, Knows, OnStack
<1>3. PICK q : q = [f EXCEPT !.pc = "advance.steps"]
  OBVIOUS
<1>4. q \in ReqType /\ q.pc = "advance.steps" /\ q.frames # <<>> /\ StackEarned(q)
  BY <1>2, <1>3, PlaceFacts DEF Pc
<1>5. Knows(q)
  BY <1>4 DEF Knows, OnStack, OnRow, Moving
<1>6. Goto(r, q) \/ Goto(r, Return(f))
  BY <1>1, <1>3 DEF ReadTask
<1>7. QED
  BY <1>2, <1>4, <1>5, <1>6, ReturnFacts, Bounds, ReadStep DEF ReadTask

LEMMA ReadStepsKeeps ==
  ASSUME RunInv, NEW r \in Request, ReadSteps(r)
  PROVE  RunInv'
<1>1. PICK f : f = req[r]
  OBVIOUS
<1>2. f \in ReqType /\ f.frames # <<>> /\ StackEarned(f)
  BY <1>1, RequestFacts DEF ReadSteps, At, Knows, OnStack
<1>3. PICK g : g = Frame("advance", steps, {s \in Step : steps[s] # NoRow})
  OBVIOUS
<1>4. g \in FrameType /\ g.rows = steps
  BY <1>3, FrameFacts, RowFacts
<1>5. PICK p : p = WithTop(f, g)
  OBVIOUS
<1>6. PICK q : q = [p EXCEPT !.pc = "loop"]
  OBVIOUS
<1>7. p \in ReqType /\ p.frames # <<>> /\ StackEarned(p)
  <2>1. RowsEarned(g.rows)
    BY <1>4, RowFacts
  <2>2. QED
    BY <2>1, <1>2, <1>4, <1>5, WithTopFacts
<1>8. q \in ReqType /\ q.pc = "loop" /\ q.frames # <<>> /\ StackEarned(q)
  BY <1>6, <1>7, PlaceFacts DEF Pc
<1>9. Knows(q)
  BY <1>8 DEF Knows, OnStack, OnRow, Moving
<1>10. Goto(r, q)
  BY <1>1, <1>3, <1>5, <1>6 DEF ReadSteps
<1>11. QED
  BY <1>8, <1>9, <1>10, Bounds, ReadStep DEF ReadSteps

LEMMA CompleteKeeps ==
  ASSUME RunInv, NEW r \in Request, Complete(r)
  PROVE  RunInv'
<1>1. task' = "COMPLETED" /\ Goto(r, Return(req[r]))
      /\ UNCHANGED <<steps, actions, notes, calls, failures, resolved>>
  BY DEF Complete
<1>2. "COMPLETED" \in DOMAIN TaskMoves
  BY DEF TaskMoves
<1>3. Return(req[r]) \in ReqType /\ Knows(Return(req[r]))
  BY RequestFacts, ReturnFacts DEF Knows
<1>4. QED
  BY <1>1, <1>2, <1>3, RowFacts, RowStep

(* The loop of AdvanceTask: what is ready in the rows at hand is ready.    *)
LEMMA LoopKeeps ==
  ASSUME RunInv, NEW r \in Request, Loop(r)
  PROVE  RunInv'
<1>1. PICK p : p = req[r]
  OBVIOUS
<1>2. p \in ReqType /\ p.frames # <<>> /\ StackEarned(p) /\ p.pc = "loop"
  BY <1>1, RequestFacts DEF Loop, At, Knows, OnStack
<1>3. PICK f : f = TopOf(p)
  OBVIOUS
<1>4. f \in FrameType /\ RowsEarned(f.rows)
  BY <1>2, <1>3, TopFacts
<1>5. PICK due : due = {s \in f.todo : Dispatchable(f.rows[s], s) /\ Ready(f.rows, s)}
  OBVIOUS
<1>6. PICK s : s = First(due)
  OBVIOUS
<1>7. PICK g : g = [f EXCEPT !.cur = s, !.todo = {t \in @ : Position[t] > Position[s]}]
  OBVIOUS
<1>8. PICK w : w = WithTop(p, g)
  OBVIOUS
<1>9. Goto(r, IF due # {}
              THEN IF f.rows[s].status = "FAILED" THEN Move(w, "CREATED")
                   ELSE [w EXCEPT !.pc = "action.get"]
              ELSE IF AllResolved(f.rows) THEN [p EXCEPT !.pc = "complete"]
              ELSE Return(p))
  <2>1. Top(r) = f
    BY <1>1, <1>3 DEF Top, TopOf
  <2>2. QED
    BY <2>1, <1>1, <1>5, <1>6, <1>7, <1>8, Zenon DEF Loop
<1>10. CASE due # {}
  <2>1. s \in Step /\ Ready(f.rows, s)
    BY <1>4, <1>5, <1>6, <1>10, FirstFacts DEF FrameType
  <2>2. Done(s)
    BY <1>4, <2>1 DEF Ready, Done, RowsEarned
  <2>3. g \in FrameType /\ g.rows = f.rows /\ g.cur = s
    BY <1>4, <1>7, <2>1 DEF FrameType
  <2>4. w \in ReqType /\ w.frames # <<>> /\ TopOf(w) = g /\ StackEarned(w)
    <3>1. RowsEarned(g.rows)
      BY <1>4, <2>3
    <3>2. QED
      BY <3>1, <1>2, <1>8, <2>3, WithTopFacts
  <2>5. TopOf(w).cur \in Step /\ Done(TopOf(w).cur)
    BY <2>1, <2>2, <2>3, <2>4
  <2>6. CASE f.rows[s].status = "FAILED"
    <3>1. Move(w, "CREATED") \in ReqType /\ Knows(Move(w, "CREATED"))
      BY <2>4, <2>5, StatusFacts, MoveFacts
    <3>2. Goto(r, Move(w, "CREATED"))
      BY <1>9, <1>10, <2>6
    <3>3. QED
      BY <3>1, <3>2, Bounds, ReadStep DEF Loop
  <2>7. CASE f.rows[s].status # "FAILED"
    <3>1. PICK q : q = [w EXCEPT !.pc = "action.get"]
      OBVIOUS
    <3>2. q \in ReqType /\ q.pc = "action.get" /\ q.frames = w.frames /\ TopOf(q) = TopOf(w)
          /\ StackEarned(q)
      BY <2>4, <3>1, PlaceFacts DEF Pc
    <3>3. Knows(q)
      BY <2>4, <2>5, <3>2 DEF Knows, OnStack, OnRow, Moving
    <3>4. Goto(r, q)
      BY <1>9, <1>10, <2>7, <3>1
    <3>5. QED
      BY <3>2, <3>3, <3>4, Bounds, ReadStep DEF Loop
  <2>8. QED
    BY <2>6, <2>7
<1>11. CASE due = {}
  <2>1. PICK q : q = [p EXCEPT !.pc = "complete"]
    OBVIOUS
  <2>2. q \in ReqType /\ q.pc = "complete" /\ q.frames # <<>> /\ StackEarned(q)
    BY <1>2, <2>1, PlaceFacts DEF Pc
  <2>3. Knows(q)
    BY <2>2 DEF Knows, OnStack, OnRow, Moving
  <2>4. Goto(r, q) \/ Goto(r, Return(p))
    BY <1>9, <1>11, <2>1
  <2>5. QED
    BY <1>2, <2>2, <2>3, <2>4, ReturnFacts, Bounds, ReadStep DEF Loop
<1>12. QED
  BY <1>10, <1>11

LEMMA OnRowFacts ==
  ASSUME RunInv, NEW r \in Request, NEW q, q = req[r], q.pc \in OnRow
  PROVE  /\ q \in ReqType /\ Knows(q) /\ q.frames # <<>> /\ StackEarned(q)
         /\ Top(r) = TopOf(q) /\ TopOf(q) \in FrameType /\ RowsEarned(TopOf(q).rows)
         /\ TopOf(q).cur \in Step
<1>1. q \in ReqType /\ Knows(q)
  BY RequestFacts
<1>2. q.frames # <<>> /\ StackEarned(q) /\ TopOf(q).cur \in Step
  BY <1>1 DEF Knows, OnStack
<1>3. QED
  BY <1>1, <1>2, TopFacts DEF Top, TopOf

LEMMA GetActionKeeps ==
  ASSUME RunInv, NEW r \in Request, GetAction(r)
  PROVE  RunInv'
<1>1. PICK f : f = req[r]
  OBVIOUS
<1>2. f.pc = "action.get"
  BY <1>1 DEF GetAction, At
<1>3. /\ f \in ReqType /\ Knows(f) /\ f.frames # <<>> /\ StackEarned(f)
      /\ Top(r) = TopOf(f) /\ TopOf(f).cur \in Step
  BY <1>1, <1>2, OnRowFacts DEF OnRow
<1>4. Done(TopOf(f).cur)
  BY <1>2, <1>3 DEF Knows
<1>5. PICK q : q = [f EXCEPT !.pc = "action.create"]
  OBVIOUS
<1>6. q \in ReqType /\ q.pc = "action.create" /\ q.frames # <<>> /\ TopOf(q) = TopOf(f)
      /\ StackEarned(q)
  BY <1>3, <1>5, PlaceFacts DEF Pc
<1>7. Knows(q)
  BY <1>3, <1>4, <1>6 DEF Knows, OnStack, OnRow, Moving
<1>8. Move(f, "DISPATCHING") \in ReqType /\ Knows(Move(f, "DISPATCHING"))
  BY <1>3, StatusFacts, MoveFacts
<1>9. Goto(r, q) \/ Goto(r, Move(f, "DISPATCHING"))
  BY <1>1, <1>5 DEF GetAction
<1>10. QED
  BY <1>6, <1>7, <1>8, <1>9, Bounds, ReadStep DEF GetAction

(* A statement that writes the action s.                                   *)
LEMMA ActionStep ==
  ASSUME RunInv, NEW r \in Request, NEW q \in ReqType, Knows(q)', Goto(r, q),
         NEW s \in Step, NEW row \in Row, row.status # "NONE",
         actions' = [actions EXCEPT ![s] = row], Done(s),
         resolved \subseteq resolved', resolved' \subseteq Step,
         UNCHANGED <<task, steps, notes, calls, failures>>
  PROVE  RunInv'
<1>1. TypeOK'
  BY DEF RunInv, TypeOK, Goto
<1>2. actions'[s] = row /\ \A t \in Step : t # s => actions'[t] = actions[t]
  BY RowFacts
<1>3. Grows
  BY <1>2 DEF Grows
<1>4. FramesInv'
  BY <1>3, FramesKept DEF RunInv
<1>5. DependenciesFirst'
  BY <1>2 DEF RunInv, DependenciesFirst, Done
<1>6. StepsAreEarned'
  BY DEF RunInv, StepsAreEarned
<1>7. QED
  BY <1>1, <1>4, <1>5, <1>6 DEF RunInv

LEMMA CreateActionKeeps ==
  ASSUME RunInv, NEW r \in Request, CreateAction(r)
  PROVE  RunInv'
<1>1. PICK f : f = req[r]
  OBVIOUS
<1>2. f.pc = "action.create"
  BY <1>1 DEF CreateAction, At
<1>3. /\ f \in ReqType /\ Knows(f) /\ f.frames # <<>> /\ StackEarned(f)
      /\ Top(r) = TopOf(f) /\ TopOf(f).cur \in Step
  BY <1>1, <1>2, OnRowFacts DEF OnRow
<1>4. PICK s : s = TopOf(f).cur
  OBVIOUS
<1>5. s \in Step /\ Done(s)
  BY <1>2, <1>3, <1>4 DEF Knows
<1>6. CASE actions[s] = NoRow
  <2>1. PICK q : q = Move(f, "DISPATCHING")
    OBVIOUS
  <2>2. q \in ReqType /\ Knows(q)
    BY <1>3, <2>1, StatusFacts, MoveFacts
  <2>3. actions' = [actions EXCEPT ![s] = New] /\ Goto(r, q)
        /\ UNCHANGED <<task, steps, notes, calls, failures, resolved>>
    BY <1>1, <1>3, <1>4, <1>6, <2>1 DEF CreateAction
  <2>4. Grows
    BY <2>3, NoRowsFacts, RowFacts DEF Grows
  <2>5. Knows(q)'
    BY <2>2, <2>4, KnowsStays
  <2>6. QED
    BY <1>5, <2>2, <2>3, <2>5, NoRowsFacts, RowFacts, ActionStep
<1>7. CASE actions[s] # NoRow
  <2>1. GiveUp(f) \in ReqType /\ Knows(GiveUp(f))
    BY <1>3, GiveUpFacts
  <2>2. Goto(r, GiveUp(f)) /\ UNCHANGED <<rows, calls, failures, resolved>>
    BY <1>1, <1>3, <1>4, <1>7 DEF CreateAction, rows
  <2>3. QED
    BY <2>1, <2>2, Bounds, ReadStep
<1>8. QED
  BY <1>6, <1>7

LEMMA ReadActionKeeps ==
  ASSUME RunInv, NEW r \in Request, ReadAction(r)
  PROVE  RunInv'
<1>1. PICK f : f = req[r]
  OBVIOUS
<1>2. f.pc = "action.read"
  BY <1>1 DEF ReadAction, At
<1>3. /\ f \in ReqType /\ Knows(f) /\ f.frames # <<>> /\ StackEarned(f)
      /\ Top(r) = TopOf(f) /\ TopOf(f).cur \in Step
  BY <1>1, <1>2, OnRowFacts DEF OnRow, Moving
<1>4. PICK s : s = TopOf(f).cur
  OBVIOUS
<1>5. s \in Step /\ f.to \in Status /\ (f.to = "CREATED" => Done(s))
  BY <1>2, <1>3, <1>4 DEF Knows, Moving
<1>6. CASE MayBecome(actions[s], s, f.to)
  <2>1. PICK row : row = Became(actions[s], f.to)
    OBVIOUS
  <2>2. row \in Row /\ row.status # "NONE" /\ actions[s].status # "NONE"
    BY <1>5, <1>6, <2>1, RowFacts, BecameFacts, StatusFacts DEF MayBecome
  <2>3. PICK q : q = [f EXCEPT !.pc = "action.save", !.act = row]
    OBVIOUS
  <2>4. q \in ReqType /\ q.pc = "action.save" /\ q.to = f.to /\ q.act = row /\ q.frames = f.frames
    BY <1>3, <2>2, <2>3 DEF ReqType, Pc
  <2>5. TopOf(q) = TopOf(f) /\ StackEarned(q)
    BY <1>3, <2>4 DEF TopOf, StackEarned
  <2>6. Knows(q)
    BY <1>3, <1>4, <1>5, <2>2, <2>4, <2>5 DEF Knows, OnStack, OnRow, Moving
  <2>7. Goto(r, q)
    BY <1>1, <1>3, <1>4, <1>6, <2>1, <2>3 DEF ReadAction
  <2>8. QED
    BY <2>4, <2>6, <2>7, Bounds, ReadStep DEF ReadAction
<1>7. CASE ~ MayBecome(actions[s], s, f.to)
  <2>1. GiveUp(f) \in ReqType /\ Knows(GiveUp(f))
    BY <1>3, GiveUpFacts
  <2>2. Goto(r, GiveUp(f))
    BY <1>1, <1>3, <1>4, <1>7 DEF ReadAction
  <2>3. QED
    BY <2>1, <2>2, Bounds, ReadStep DEF ReadAction
<1>8. QED
  BY <1>6, <1>7

LEMMA SaveActionKeeps ==
  ASSUME RunInv, NEW r \in Request, SaveAction(r)
  PROVE  RunInv'
<1>1. PICK q : q = req[r]
  OBVIOUS
<1>2. q.pc = "action.save"
  BY <1>1 DEF SaveAction, At
<1>3. /\ q \in ReqType /\ Knows(q) /\ q.frames # <<>> /\ StackEarned(q)
      /\ Top(r) = TopOf(q) /\ TopOf(q) \in FrameType /\ RowsEarned(TopOf(q).rows)
      /\ TopOf(q).cur \in Step
  BY <1>1, <1>2, OnRowFacts DEF OnRow, Moving
<1>4. PICK f : f = TopOf(q)
  OBVIOUS
<1>5. PICK s : s = f.cur
  OBVIOUS
<1>6. s \in Step /\ q.to \in Status /\ (q.to = "CREATED" => Done(s))
      /\ actions[s].status # "NONE" /\ q.act.status # "NONE" /\ q.act \in Row
  BY <1>2, <1>3, <1>4, <1>5 DEF Knows, Moving, ReqType
<1>7. Done(s)
  BY <1>6 DEF RunInv, DependenciesFirst, Done, NoRow
<1>8. PICK g : g = [f EXCEPT !.rows[s] = Became(@, q.to)]
  OBVIOUS
<1>9. PICK w : w = WithTop(q, g)
  OBVIOUS
<1>10. PICK p : p = [w EXCEPT !.pc = "step.save", !.act = NoRow]
  OBVIOUS
<1>11. /\ actions' = [actions EXCEPT ![s] = q.act]
       /\ resolved' = IF q.to = "RESOLVED" THEN resolved \cup {s} ELSE resolved
       /\ Goto(r, IF f.kind = "direct" THEN Idle
                  ELSE IF q.to = "DISPATCHING" THEN Move(q, "DISPATCHED") ELSE p)
       /\ UNCHANGED <<task, steps, notes, calls, failures>>
  <2>1. Top(r) = f
    BY <1>3, <1>4
  <2>2. QED
    BY <2>1, <1>1, <1>5, <1>8, <1>9, <1>10, Zenon DEF SaveAction
<1>12. resolved \subseteq resolved' /\ resolved' \subseteq Step
  BY <1>6, <1>11, RowFacts
<1>13. Grows
  BY <1>6, <1>11, <1>12, RowFacts DEF Grows
<1>14. \A x : x \in ReqType /\ Knows(x)' /\ Goto(r, x) => RunInv'
  BY <1>6, <1>7, <1>11, <1>12, ActionStep
<1>15. \A x : x \in ReqType /\ Knows(x) /\ Goto(r, x) => RunInv'
  BY <1>13, <1>14, KnowsStays
<1>16. CASE f.kind = "direct"
  BY <1>11, <1>15, <1>16, IdleFacts
<1>17. CASE f.kind # "direct" /\ q.to = "DISPATCHING"
  <2>1. Move(q, "DISPATCHED") \in ReqType /\ Knows(Move(q, "DISPATCHED"))
    BY <1>3, StatusFacts, MoveFacts
  <2>2. QED
    BY <1>11, <1>15, <1>17, <2>1
<1>18. CASE f.kind # "direct" /\ q.to # "DISPATCHING"
  <2>1. Goto(r, p)
    BY <1>11, <1>18
  <2>2. PICK table : table = [f.rows EXCEPT ![s] = Became(@, q.to)]
    OBVIOUS
  <2>3. f.rows \in [Step -> Row] /\ f.rows[s] \in Row
    BY <1>3, <1>4, <1>6 DEF FrameType
  <2>4. Became(f.rows[s], q.to) \in Row /\ Became(f.rows[s], q.to).status = q.to
    BY <1>6, <2>3, BecameFacts
  <2>5. table \in [Step -> Row] /\ table[s].status = q.to
        /\ \A t \in Step : t # s => table[t] = f.rows[t]
    BY <1>6, <2>2, <2>3, <2>4
  <2>6. g = [f EXCEPT !.rows = table]
    BY <1>3, <1>4, <1>8, <2>2 DEF FrameType
  <2>7. g \in FrameType /\ g.rows = table /\ g.cur = s
    BY <1>3, <1>4, <1>5, <2>5, <2>6 DEF FrameType
  <2>8. /\ w \in ReqType /\ w.frames # <<>> /\ TopOf(w) = g /\ w.to = q.to
        /\ \A i \in 1 .. Len(w.frames) : w.frames[i] = g \/ RowsEarned(w.frames[i].rows)
    <3>1. PICK n : n = Len(q.frames)
      OBVIOUS
    <3>2. q.frames \in Seq(FrameType) /\ n \in Nat \ {0} /\ n \in 1 .. n
      BY <1>3, <3>1, TopFacts
    <3>3. PICK h : h = [q.frames EXCEPT ![n] = g]
      OBVIOUS
    <3>4. h \in Seq(FrameType) /\ Len(h) = n /\ \A j \in 1 .. n : h[j] = IF j = n THEN g ELSE q.frames[j]
      BY <2>7, <3>1, <3>2, <3>3, ExceptSeq
    <3>5. w.frames = h
      BY <1>3, <1>9, <3>1, <3>3 DEF WithTop, ReqType
    <3>6. w \in ReqType /\ w.frames # <<>> /\ TopOf(w) = g /\ w.to = q.to
      BY <1>3, <1>9, <2>7, WithTopFacts
    <3>7. \A i \in 1 .. Len(h) : h[i] = g \/ RowsEarned(h[i].rows)
      BY <1>3, <3>1, <3>4 DEF StackEarned
    <3>8. QED
      BY <3>5, <3>6, <3>7
  <2>9. p \in ReqType /\ p.pc = "step.save" /\ p.to = w.to /\ p.frames = w.frames
    BY <1>10, <2>8, NoRowsFacts DEF ReqType, Pc
  <2>10. TopOf(p) = g
    BY <2>8, <2>9 DEF TopOf
  <2>11. RowsEarned(g.rows)'
    BY <1>3, <1>4, <1>11, <1>12, <2>5, <2>7 DEF RowsEarned
  <2>12. StackEarned(p)'
    <3>1. \A t : RowsEarned(t) => RowsEarned(t)'
      BY <1>12 DEF RowsEarned
    <3>2. QED
      BY <2>8, <2>9, <2>11, <3>1 DEF StackEarned
  <2>13. Done(s)'
    BY <1>7, <1>12 DEF Done
  <2>14. Knows(p)'
    <3>1. TopOf(p)' = TopOf(p)
      BY DEF TopOf
    <3>2. TopOf(p).cur = s
      BY <2>7, <2>10
    <3>3. QED
      BY <1>6, <2>8, <2>9, <2>12, <2>13, <3>1, <3>2 DEF Knows, OnStack, OnRow, Moving
  <2>15. QED
    BY <1>14, <2>1, <2>9, <2>14
<1>19. QED
  BY <1>16, <1>17, <1>18

LEMMA SaveStepKeeps ==
  ASSUME RunInv, NEW r \in Request, SaveStep(r)
  PROVE  RunInv'
<1>1. PICK f : f = req[r]
  OBVIOUS
<1>2. f.pc = "step.save"
  BY <1>1 DEF SaveStep, At
<1>3. /\ f \in ReqType /\ Knows(f) /\ f.frames # <<>> /\ StackEarned(f)
      /\ Top(r) = TopOf(f) /\ TopOf(f) \in FrameType /\ RowsEarned(TopOf(f).rows)
      /\ TopOf(f).cur \in Step
  BY <1>1, <1>2, OnRowFacts DEF OnRow, Moving
<1>4. PICK s : s = TopOf(f).cur
  OBVIOUS
<1>5. PICK row : row = TopOf(f).rows[s]
  OBVIOUS
<1>6. s \in Step /\ row \in Row /\ (row.status = "RESOLVED" => s \in resolved)
      /\ (f.to = "CREATED" => Done(s))
  BY <1>2, <1>3, <1>4, <1>5 DEF FrameType, RowsEarned, Knows, Moving
<1>7. steps' = [steps EXCEPT ![s] = row] /\ Goto(r, After(f, s))
      /\ UNCHANGED <<task, actions, notes, calls, failures, resolved>>
  BY <1>1, <1>3, <1>4, <1>5 DEF SaveStep
<1>8. steps' \in [Step -> Row] /\ RowsEarned(steps')
  BY <1>6, <1>7, RowFacts DEF RowsEarned
<1>9. ASSUME NEW pc \in {"action.get", "run", "note", "escalate"}, pc = "action.get" => Done(s),
             NEW q, q = [f EXCEPT !.pc = pc]
      PROVE  q \in ReqType /\ Knows(q)
  <2>1. pc \in Pc
    BY DEF Pc
  <2>2. q \in ReqType /\ q.pc = pc /\ q.frames = f.frames /\ TopOf(q) = TopOf(f) /\ StackEarned(q)
    BY <1>3, <1>9, <2>1, PlaceFacts
  <2>3. Knows(q)
    BY <1>3, <1>4, <1>9, <2>2 DEF Knows, OnStack, OnRow, Moving
  <2>4. QED
    BY <2>2, <2>3
<1>10. PICK q : q = After(f, s)
  OBVIOUS
<1>11. q \in ReqType /\ Knows(q)
  <2>1. CASE f.to = "CREATED"
    BY <1>6, <1>9, <1>10, <2>1 DEF After
  <2>2. CASE f.to = "DISPATCHED"
    <3>1. q = [f EXCEPT !.pc = IF s \in Agent THEN "run" ELSE "note"]
      BY <1>10, <2>2 DEF After
    <3>2. QED
      BY <1>9, <3>1
  <2>3. CASE f.to = "FAILED" /\ s \in Escalated
    BY <1>9, <1>10, <2>3 DEF After
  <2>4. CASE f.to \notin {"CREATED", "DISPATCHED"} /\ ~ (f.to = "FAILED" /\ s \in Escalated)
    <3>1. q = Advance(f)
      BY <1>10, <2>4 DEF After
    <3>2. QED
      BY <1>3, <3>1, AdvanceFacts
  <2>5. QED
    BY <2>1, <2>2, <2>3, <2>4
<1>12. QED
  BY <1>7, <1>8, <1>10, <1>11, RowFacts, RowStep

LEMMA RunAgentKeeps ==
  ASSUME RunInv, NEW r \in Request, RunAgent(r)
  PROVE  RunInv'
<1>1. PICK f : f = req[r]
  OBVIOUS
<1>2. f.pc = "run"
  BY <1>1 DEF RunAgent, At
<1>3. f \in ReqType /\ f.frames # <<>> /\ StackEarned(f) /\ TopOf(f).cur \in Step
  BY <1>1, <1>2, OnRowFacts DEF OnRow
<1>4. PICK to \in {"RESOLVED", "FAILED"} : Goto(r, Move(f, to))
  BY <1>1 DEF RunAgent
<1>5. Move(f, to) \in ReqType /\ Knows(Move(f, to))
  BY <1>3, StatusFacts, MoveFacts
<1>6. QED
  BY <1>4, <1>5, Bounds, ReadStep DEF RunAgent

LEMMA NotifyKeeps ==
  ASSUME RunInv, NEW r \in Request, Notify(r)
  PROVE  RunInv'
<1>1. PICK f : f = req[r]
  OBVIOUS
<1>2. f.pc = "note"
  BY <1>1 DEF Notify, At
<1>3. f \in ReqType /\ StackEarned(f)
  BY <1>1, <1>2, OnRowFacts DEF OnRow
<1>4. GiveUp(f) \in ReqType /\ Knows(GiveUp(f)) /\ Goto(r, GiveUp(f))
  BY <1>1, <1>3, GiveUpFacts DEF Notify
<1>5. notes' \in [Step -> NoteStatus]
  BY RowFacts DEF Notify, NoteStatus
<1>6. QED
  BY <1>4, <1>5, RowFacts, RowStep DEF Notify

LEMMA EscalateKeeps ==
  ASSUME RunInv, NEW r \in Request, Escalate(r)
  PROVE  RunInv'
<1>1. PICK f : f = req[r]
  OBVIOUS
<1>2. f.pc = "escalate"
  BY <1>1 DEF Escalate, At
<1>3. f \in ReqType /\ StackEarned(f)
  BY <1>1, <1>2, OnRowFacts DEF OnRow
<1>4. Advance(f) \in ReqType /\ Knows(Advance(f)) /\ Goto(r, Advance(f))
  BY <1>1, <1>3, AdvanceFacts DEF Escalate
<1>5. notes' \in [Step -> NoteStatus]
  BY RowFacts DEF Escalate, NoteStatus
<1>6. QED
  BY <1>4, <1>5, RowFacts, RowStep DEF Escalate

LEMMA SweepNextKeeps ==
  ASSUME RunInv, NEW r \in Request, SweepNext(r)
  PROVE  RunInv'
<1>1. PICK p : p = req[r]
  OBVIOUS
<1>2. p \in ReqType /\ p.frames # <<>> /\ StackEarned(p)
  BY <1>1, RequestFacts DEF SweepNext, At, Knows, OnStack
<1>3. PICK f : f = TopOf(p)
  OBVIOUS
<1>4. f \in FrameType /\ RowsEarned(f.rows) /\ Top(r) = f
  BY <1>1, <1>2, <1>3, TopFacts DEF Top, TopOf
<1>5. CASE f.todo = {}
  BY <1>4, <1>5, IdleFacts, Bounds, ReadStep DEF SweepNext
<1>6. CASE f.todo # {}
  <2>1. PICK s \in f.todo : Goto(r, Move(WithTop(p, [f EXCEPT !.cur = s, !.todo = @ \ {s}]), "FAILED"))
    BY <1>1, <1>4, <1>6 DEF SweepNext
  <2>2. PICK g : g = [f EXCEPT !.cur = s, !.todo = @ \ {s}]
    OBVIOUS
  <2>3. g \in FrameType /\ g.rows = f.rows /\ g.cur = s /\ s \in Step
    BY <1>4, <2>2 DEF FrameType
  <2>4. PICK w : w = WithTop(p, g)
    OBVIOUS
  <2>5. w \in ReqType /\ w.frames # <<>> /\ TopOf(w) = g /\ StackEarned(w)
    <3>1. RowsEarned(g.rows)
      BY <1>4, <2>3
    <3>2. QED
      BY <3>1, <1>2, <2>3, <2>4, WithTopFacts
  <2>6. Move(w, "FAILED") \in ReqType /\ Knows(Move(w, "FAILED"))
    BY <2>3, <2>5, StatusFacts, MoveFacts
  <2>7. QED
    BY <2>1, <2>2, <2>4, <2>6, Bounds, ReadStep DEF SweepNext
<1>7. QED
  BY <1>5, <1>6

LEMMA FailsKeeps ==
  ASSUME RunInv, NEW r \in Request, Fails(r)
  PROVE  RunInv'
<1>1. PICK f : f = req[r]
  OBVIOUS
<1>2. f \in ReqType /\ StackEarned(f)
  BY <1>1, RequestFacts DEF Knows
<1>3. Goto(r, Return(f)) \/ Goto(r, Advance(f)) \/ Goto(r, GiveUp(f))
  BY <1>1 DEF Fails
<1>4. PICK q \in ReqType : Knows(q) /\ Goto(r, q)
  BY <1>2, <1>3, ReturnFacts, AdvanceFacts, GiveUpFacts
<1>5. calls' \in 0 .. MaxCalls /\ failures' \in 0 .. MaxFailures
  BY Bounds DEF Fails
<1>6. QED
  BY <1>4, <1>5, ReadStep DEF Fails

LEMMA CrashKeeps ==
  ASSUME RunInv, Crash
  PROVE  RunInv'
<1>1. UNCHANGED <<task, steps, actions, notes, calls, resolved>> /\ req' = [r \in Request |-> Idle]
  BY DEF Crash, rows
<1>2. failures' \in 0 .. MaxFailures
  BY Bounds DEF Crash
<1>3. TypeOK'
  BY <1>1, <1>2, IdleFacts DEF RunInv, TypeOK
<1>4. FramesInv'
  <2>1. Grows
    BY <1>1 DEF Grows
  <2>2. Knows(Idle)'
    BY <2>1, IdleFacts, KnowsStays
  <2>3. \A r \in Request : req'[r] = Idle
    BY <1>1
  <2>4. QED
    BY <2>2, <2>3 DEF FramesInv, Knows, StackEarned, TopOf
<1>5. DependenciesFirst' /\ StepsAreEarned'
  BY <1>1 DEF RunInv, DependenciesFirst, StepsAreEarned
<1>6. QED
  BY <1>3, <1>4, <1>5 DEF RunInv

-----------------------------------------------------------------------------
(* Safety.                                                                 *)

LEMMA InitEstablishes == Init => RunInv
<1> SUFFICES ASSUME Init PROVE RunInv
  OBVIOUS
<1>1. task \in DOMAIN TaskMoves
  BY DEF Init, TaskMoves
<1>2. TypeOK
  BY <1>1, NoRowsFacts, IdleFacts, CapAssumption DEF Init, TypeOK
<1>3. FramesInv
  BY IdleFacts DEF Init, FramesInv
<1>4. DependenciesFirst /\ StepsAreEarned
  BY NoRowsFacts DEF Init, DependenciesFirst, StepsAreEarned, NoRows
<1>5. QED
  BY <1>2, <1>3, <1>4 DEF RunInv

LEMMA NextKeeps == RunInv /\ [Next]_vars => RunInv'
<1> SUFFICES ASSUME RunInv, [Next]_vars PROVE RunInv'
  OBVIOUS
<1>1. CASE UNCHANGED vars
  <2>1. UNCHANGED <<task, steps, actions, notes, req, calls, failures, resolved>>
    BY <1>1 DEF vars
  <2>2. TypeOK' /\ DependenciesFirst' /\ StepsAreEarned' /\ Grows
    BY <2>1 DEF RunInv, TypeOK, DependenciesFirst, StepsAreEarned, Grows
  <2>3. ASSUME NEW r \in Request PROVE Knows(req[r])'
    <3>1. PICK k : k = req[r]
      OBVIOUS
    <3>2. Knows(k)' /\ req'[r] = k
      BY <2>1, <2>2, <3>1, KnowsStays DEF RunInv, FramesInv
    <3>3. QED
      BY <3>2 DEF Knows, StackEarned, TopOf
  <2>4. QED
    BY <2>2, <2>3 DEF RunInv, FramesInv
<1>2. ASSUME NEW r \in Request, Arrive(r) PROVE RunInv'
  <2>1. CASE StartTask(r) \/ CancelTask(r)
    BY <2>1, ChangeTaskKeeps DEF StartTask, CancelTask
  <2>2. CASE Nudge(r) \/ Sweep(r)
    BY <2>2, NudgeKeeps, SweepKeeps
  <2>3. CASE AckStep(r) \/ ResolveStep(r) \/ FailStep(r)
    BY <2>3, OnStepKeeps DEF AckStep, ResolveStep, FailStep
  <2>4. CASE AckAction(r) \/ ResolveAction(r)
    BY <2>4, OnActionKeeps DEF AckAction, ResolveAction
  <2>5. QED
    BY <1>2, <2>1, <2>2, <2>3, <2>4 DEF Arrive
<1>3. ASSUME NEW r \in Request, Proceed(r) PROVE RunInv'
  BY <1>3, SaveTaskKeeps, PlanStepsKeeps, CreateStepKeeps, ReadTaskKeeps, ReadStepsKeeps,
     LoopKeeps, CompleteKeeps, GetActionKeeps, CreateActionKeeps, ReadActionKeeps,
     SaveActionKeeps, SaveStepKeeps, RunAgentKeeps, NotifyKeeps, EscalateKeeps, SweepNextKeeps
  DEF Proceed
<1>4. ASSUME NEW r \in Request, Fails(r) PROVE RunInv'
  BY <1>4, FailsKeeps
<1>5. CASE Crash
  BY <1>5, CrashKeeps
<1>6. QED
  BY <1>1, <1>2, <1>3, <1>4, <1>5 DEF Next

(* The rows, and what each call on a request's stack read of them, stay    *)
(* consistent: the inductive invariant.                                    *)
THEOREM RunSafety == Spec => []RunInv
<1>1. Init => RunInv
  BY InitEstablishes
<1>2. RunInv /\ [Next]_vars => RunInv'
  BY NextKeeps
<1>3. QED
  BY <1>1, <1>2, PTL DEF Spec

(* However many requests advance a task from rows they read earlier, from  *)
(* inside one another, with failures and crashes in between: a step has an *)
(* action only after every step it depends on was resolved.                *)
THEOREM DependenciesComeFirst == Spec => []DependenciesFirst
<1>1. RunInv => DependenciesFirst
  BY DEF RunInv
<1>2. QED
  BY <1>1, RunSafety, PTL

(* A step is stored as resolved only after its action was, whichever stale *)
(* row is written back.                                                    *)
THEOREM ResolvedStepsAreEarned == Spec => []StepsAreEarned
<1>1. RunInv => StepsAreEarned
  BY DEF RunInv
<1>2. QED
  BY <1>1, RunSafety, PTL

-----------------------------------------------------------------------------
(* One request at a time, and no failures.  Then a resolved step stays     *)
(* resolved, the copies on the stack tell the truth about resolved steps,  *)
(* and a task that was started has all its steps before it is advanced.    *)

AllDone == \A s \in Step : steps[s].status = "RESOLVED"
Live == task \in {"RUNNING", "COMPLETED"}
Full(table) == \A s \in Step : table[s].status # "NONE"
Planned == (steps = NoRows \/ Full(steps)) /\ (Live => Full(steps))

(* A resolved step has a resolved action, which nothing moves any more.    *)
StepsLast == \A s \in Step : steps[s].status = "RESOLVED" => actions[s].status = "RESOLVED"

(* Resolved in the copy, resolved in the table: but for the step X that is *)
(* about to be stored.                                                     *)
SettledBut(table, X) ==
  \A s \in Step \ X : table[s].status = "RESOLVED" => steps[s].status = "RESOLVED"

(* A call that has read its rows.                                          *)
OnSteps == {"advance", "sweep", "call"}
HasRead(f) ==
  /\ f.kind \in OnSteps => Full(steps)
  /\ f.kind = "advance" => Live /\ Full(f.rows)
SolidFrame(f) == SettledBut(f.rows, {}) /\ HasRead(f)
SolidBelow(q) == \A i \in 1 .. Len(q.frames) - 1 : SolidFrame(q.frames[i])
Solid(q) == \A i \in 1 .. Len(q.frames) : SolidFrame(q.frames[i])

Alone(q) ==
  /\ SolidBelow(q)
  /\ q.pc \notin {"advance.task", "advance.steps", "step.save"} => Solid(q)
  /\ q.pc \notin {"plan", "create"} => Planned
  /\ q.pc = "plan" => steps = NoRows \/ Full(steps)
  /\ q.pc = "create" =>
       /\ TopOf(q).kind = "create" /\ Len(q.frames) = 1
       /\ \A s \in Step : IF s \in TopOf(q).todo THEN steps[s] = NoRow ELSE steps[s].status # "NONE"
  /\ q.pc \in OnRow => TopOf(q).kind # "create"
  /\ q.pc = "task.save" => q.to \in TaskMoves[task]
  /\ q.pc = "advance.steps" => Live
  /\ q.pc = "complete" => AllDone /\ Live
  /\ q.pc = "action.save" => q.act.status = q.to /\ actions[TopOf(q).cur].status # "RESOLVED"
  /\ q.pc = "step.save" =>
       /\ TopOf(q).kind \in OnSteps /\ HasRead(TopOf(q))
       /\ SettledBut(TopOf(q).rows, {TopOf(q).cur})
       /\ TopOf(q).rows[TopOf(q).cur].status = q.to /\ actions[TopOf(q).cur].status = q.to

OthersIdle(r) == \A other \in Request : other # r => req[other] = Idle

SerialInv ==
  /\ \A r, s \in Request : req[r] # Idle /\ req[s] # Idle => r = s
  /\ \A r \in Request : OthersIdle(r) => Alone(req[r])
  /\ StepsLast /\ CompletedIsDone

LEMMA FrozenAlone ==
  ASSUME UNCHANGED <<task, steps, actions>>, NEW q
  PROVE  Alone(q)' <=> Alone(q)
<1>1. \A f : SolidFrame(f)' <=> SolidFrame(f)
  BY DEF SolidFrame, SettledBut, HasRead, Full, Live
<1>2. (SolidBelow(q)' <=> SolidBelow(q)) /\ (Solid(q)' <=> Solid(q))
  BY <1>1 DEF SolidBelow, Solid
<1>3. (Planned' <=> Planned) /\ (Live' <=> Live) /\ (AllDone' <=> AllDone)
      /\ (Full(steps)' <=> Full(steps))
  BY DEF Planned, Live, AllDone, Full
<1>4. TopOf(q)' = TopOf(q)
  BY DEF TopOf
<1>5. /\ HasRead(TopOf(q))' <=> HasRead(TopOf(q))
      /\ SettledBut(TopOf(q).rows, {TopOf(q).cur})' <=> SettledBut(TopOf(q).rows, {TopOf(q).cur})
  BY <1>4 DEF HasRead, SettledBut, Full, Live
<1>6. QED
  BY <1>2, <1>3, <1>4, <1>5 DEF Alone

(* The request at work goes on to q; the others are idle.                  *)
LEMMA SerialStep ==
  ASSUME RunInv, SerialInv, NEW r \in Request, OthersIdle(r), NEW q, Goto(r, q),
         Alone(q)', StepsLast', CompletedIsDone'
  PROVE  SerialInv'
<1>1. req'[r] = q /\ \A i \in Request : i # r => req'[i] = Idle
  BY DEF Goto, RunInv, TypeOK, OthersIdle
<1>2. \A i, s \in Request : req'[i] # Idle /\ req'[s] # Idle => i = s
  BY <1>1
<1>3. ASSUME NEW i \in Request, OthersIdle(i)' PROVE Alone(req[i])'
  <2>1. req'[i] = q
    BY <1>1, <1>3 DEF OthersIdle
  <2>2. QED
    BY <2>1 DEF Alone, SolidBelow, Solid, TopOf
<1>4. QED
  BY <1>2, <1>3 DEF SerialInv

LEMMA SerialRead ==
  ASSUME RunInv, SerialInv, NEW r \in Request, OthersIdle(r), NEW q, Goto(r, q), Alone(q),
         UNCHANGED <<task, steps, actions>>
  PROVE  SerialInv'
<1>1. Alone(q)'
  BY FrozenAlone
<1>2. StepsLast' /\ CompletedIsDone'
  BY DEF SerialInv, StepsLast, CompletedIsDone
<1>3. QED
  BY <1>1, <1>2, SerialStep

LEMMA Busy ==
  ASSUME SerialInv, NEW r \in Request, req[r].pc # "idle"
  PROVE  OthersIdle(r) /\ Alone(req[r])
<1>1. req[r] # Idle
  BY IdleFacts
<1>2. OthersIdle(r)
  BY <1>1 DEF SerialInv, OthersIdle
<1>3. QED
  BY <1>2 DEF SerialInv

LEMMA Arrives ==
  ASSUME SerialInv, Serial, NEW r \in Request, NEW op, Begin(r, op)
  PROVE  OthersIdle(r) /\ Planned
<1>1. \A other \in Request : req[other] = Idle
  BY DEF Begin
<1>2. OthersIdle(r) /\ Alone(Idle)
  BY <1>1 DEF SerialInv, OthersIdle
<1>3. QED
  BY <1>2, IdleFacts DEF Alone

-----------------------------------------------------------------------------
(* The constructors again.                                                 *)

Plainly == {"idle", "loop", "action.get", "action.create", "action.read", "run", "note",
            "escalate"}

LEMMA AlonePlainly ==
  ASSUME NEW q, Solid(q), Planned, q.pc \in Plainly, Len(q.frames) \in Nat,
         q.pc \in OnRow => TopOf(q).kind # "create"
  PROVE  Alone(q)
<1>1. SolidBelow(q)
  BY DEF Solid, SolidBelow
<1>2. QED
  BY <1>1 DEF Alone, Plainly

LEMMA AloneIdle ==
  ASSUME Planned
  PROVE  Alone(Idle)
<1>1. Idle.pc \in Plainly /\ Len(Idle.frames) = 0
  BY IdleFacts DEF Plainly
<1>2. Solid(Idle)
  BY <1>1 DEF Solid
<1>3. Idle.pc \notin OnRow
  BY IdleFacts DEF OnRow, Moving
<1>4. QED
  BY <1>1, <1>2, <1>3, AlonePlainly

LEMMA NoRowsSettled == SettledBut(NoRows, {})
BY NoRowsFacts DEF SettledBut, NoRows

LEMMA AloneAdvance ==
  ASSUME NEW q \in ReqType, Solid(q), Planned
  PROVE  Alone(Advance(q))
<1> DEFINE f == Frame("advance", NoRows, {})
           g == Append(q.frames, f)
<1>1. f \in FrameType
  BY FrameFacts, NoRowsFacts
<1>2. q.frames \in Seq(FrameType)
  BY DEF ReqType
<1> HIDE DEF f
<1>3. Len(g) = Len(q.frames) + 1 /\ \A i \in 1 .. Len(q.frames) : g[i] = q.frames[i]
  BY <1>1, <1>2, AppendProperties
<1>4. Len(q.frames) \in Nat
  BY <1>2, LenProperties
<1>5. Advance(q).frames = g /\ Advance(q).pc = "advance.task"
  BY DEF Advance, f, ReqType
<1> HIDE DEF g
<1>6. \A i \in 1 .. Len(g) - 1 : SolidFrame(g[i])
  BY <1>3, <1>4 DEF Solid
<1>7. SolidBelow(Advance(q))
  BY <1>5, <1>6 DEF SolidBelow
<1>8. QED
  BY <1>5, <1>7 DEF Alone, OnRow, Moving

LEMMA AloneLoop ==
  ASSUME NEW g, Len(g) \in Nat, \A i \in 1 .. Len(g) : SolidFrame(g[i]), Planned,
         NEW q, q = [Idle EXCEPT !.pc = "loop", !.frames = g]
  PROVE  Alone(q)
<1>1. q.pc = "loop" /\ q.frames = g
  BY DEF Idle
<1>2. Solid(q)
  BY <1>1 DEF Solid
<1>3. QED
  BY <1>1, <1>2, AlonePlainly DEF Plainly, OnRow, Moving

LEMMA AloneReturn ==
  ASSUME NEW q \in ReqType, SolidBelow(q), Planned
  PROVE  Alone(Return(q))
<1>1. CASE Len(q.frames) <= 1 \/ q.frames[Len(q.frames) - 1].kind = "call"
  BY <1>1, AloneIdle DEF Return
<1>2. CASE ~ (Len(q.frames) <= 1 \/ q.frames[Len(q.frames) - 1].kind = "call")
  <2> DEFINE n == Len(q.frames)
             g == SubSeq(q.frames, 1, n - 1)
  <2>1. q.frames \in Seq(FrameType) /\ n \in Nat /\ n >= 2
    BY <1>2, LenProperties DEF ReqType
  <2>2. \A i \in 1 .. n : q.frames[i] \in FrameType
    BY <2>1, ElementOfSeq
  <2>3. 1 \in Int /\ n - 1 \in Int /\ \A i \in 1 .. (n - 1) : q.frames[i] \in FrameType
    BY <2>1, <2>2
  <2>4. /\ Len(g) = IF 1 <= n - 1 THEN (n - 1) - 1 + 1 ELSE 0
        /\ \A i \in 1 .. ((n - 1) - 1 + 1) : g[i] = q.frames[1 + i - 1]
    BY <2>3, SubSeqProperties
  <2>5. Len(g) = n - 1 /\ \A i \in 1 .. Len(g) : g[i] = q.frames[i] /\ i \in 1 .. n - 1
    BY <2>1, <2>4
  <2>6. PICK p : p = [Idle EXCEPT !.pc = "loop", !.frames = g]
    OBVIOUS
  <2>7. Return(q) = p
    BY <1>2, <2>6 DEF Return, Below
  <2> HIDE DEF g
  <2>8. Len(g) \in Nat /\ \A i \in 1 .. Len(g) : SolidFrame(g[i])
    BY <2>1, <2>5 DEF SolidBelow
  <2>9. Alone(p)
    BY <2>6, <2>8, AloneLoop
  <2>10. QED
    BY <2>7, <2>9
<1>3. QED
  BY <1>1, <1>2

LEMMA AloneGiveUp ==
  ASSUME NEW q \in ReqType, Solid(q), Planned
  PROVE  Alone(GiveUp(q))
<1>1. PICK p : p = [Idle EXCEPT !.pc = "loop", !.frames = q.frames]
  OBVIOUS
<1>2. Len(q.frames) \in Nat
  BY LenProperties DEF ReqType
<1>3. Alone(p)
  BY <1>1, <1>2, AloneLoop DEF Solid
<1>4. GiveUp(q) = p \/ GiveUp(q) = Idle
  BY <1>1 DEF GiveUp
<1>5. QED
  BY <1>3, <1>4, AloneIdle

LEMMA AloneMove ==
  ASSUME NEW q \in ReqType, Solid(q), Planned, TopOf(q).kind # "create", NEW to
  PROVE  Alone(Move(q, to))
<1> DEFINE p == Move(q, to)
<1>1. p.pc = "action.read" /\ p.frames = q.frames
  BY DEF Move, ReqType
<1>2. Len(p.frames) \in Nat
  BY <1>1, LenProperties DEF ReqType
<1> HIDE DEF p
<1>3. Solid(p) /\ TopOf(p) = TopOf(q)
  BY <1>1 DEF Solid, TopOf
<1>4. Alone(p)
  BY <1>1, <1>2, <1>3, AlonePlainly DEF Plainly
<1>5. QED
  BY <1>4 DEF p

LEMMA SolidWithTop ==
  ASSUME NEW q \in ReqType, q.frames # <<>>, NEW f \in FrameType, SolidBelow(q), SolidFrame(f)
  PROVE  Solid(WithTop(q, f))
<1> DEFINE n == Len(q.frames)
           g == [q.frames EXCEPT ![n] = f]
<1>1. q.frames \in Seq(FrameType) /\ n \in Nat \ {0} /\ n \in 1 .. n
  BY TopFacts
<1>2. Len(g) = n /\ \A j \in 1 .. n : g[j] = IF j = n THEN f ELSE q.frames[j]
  BY <1>1, ExceptSeq
<1>3. WithTop(q, f).frames = g
  BY DEF WithTop, ReqType
<1> HIDE DEF g
<1>4. \A j \in 1 .. Len(g) : SolidFrame(g[j])
  BY <1>1, <1>2 DEF SolidBelow
<1>5. QED
  BY <1>3, <1>4 DEF Solid

(* The same of the state after a step.                                     *)
LEMMA ConstructorsAlone ==
  /\ Planned => Alone(Idle)
  /\ \A q \in ReqType : Solid(q) /\ Planned => Alone(Advance(q))
  /\ \A q \in ReqType : SolidBelow(q) /\ Planned => Alone(Return(q))
  /\ \A q \in ReqType : \A to :
       Solid(q) /\ Planned /\ TopOf(q).kind # "create" => Alone(Move(q, to))
  /\ \A q : Solid(q) /\ Planned /\ q.pc \in Plainly /\ Len(q.frames) \in Nat
              /\ (q.pc \in OnRow => TopOf(q).kind # "create") => Alone(q)
<1>1. Planned => Alone(Idle)
  BY AloneIdle
<1>2. \A q \in ReqType : Solid(q) /\ Planned => Alone(Advance(q))
  BY AloneAdvance
<1>3. \A q \in ReqType : SolidBelow(q) /\ Planned => Alone(Return(q))
  BY AloneReturn
<1>4. \A q \in ReqType : \A to :
        Solid(q) /\ Planned /\ TopOf(q).kind # "create" => Alone(Move(q, to))
  BY AloneMove
<1>5. \A q : Solid(q) /\ Planned /\ q.pc \in Plainly /\ Len(q.frames) \in Nat
              /\ (q.pc \in OnRow => TopOf(q).kind # "create") => Alone(q)
  BY AlonePlainly
<1>6. QED
  BY <1>1, <1>2, <1>3, <1>4, <1>5

LEMMA ConstructorsAloneLater ==
  ( /\ Planned => Alone(Idle)
    /\ \A q \in ReqType : Solid(q) /\ Planned => Alone(Advance(q))
    /\ \A q \in ReqType : SolidBelow(q) /\ Planned => Alone(Return(q))
    /\ \A q \in ReqType : \A to :
         Solid(q) /\ Planned /\ TopOf(q).kind # "create" => Alone(Move(q, to))
    /\ \A q : Solid(q) /\ Planned /\ q.pc \in Plainly /\ Len(q.frames) \in Nat
                /\ (q.pc \in OnRow => TopOf(q).kind # "create") => Alone(q) )'
BY ConstructorsAlone, PTL

(* A step that takes no resolution back keeps the copies true.             *)
Keeps ==
  /\ \A s \in Step : steps[s].status = "RESOLVED" => steps'[s].status = "RESOLVED"
  /\ Full(steps) => Full(steps)'
  /\ Live => Live'

LEMMA FrameStays ==
  ASSUME Keeps, NEW f, SolidFrame(f)
  PROVE  SolidFrame(f)'
BY DEF Keeps, SolidFrame, SettledBut, HasRead, Full

LEMMA StackStays ==
  ASSUME Keeps, NEW q
  PROVE  (Solid(q) => Solid(q)') /\ (SolidBelow(q) => SolidBelow(q)')
BY FrameStays DEF Solid, SolidBelow

(* What the request at work may rely on.                                   *)
LEMMA AloneFacts ==
  ASSUME RunInv, SerialInv, NEW r \in Request, NEW q, q = req[r], q.pc # "idle"
  PROVE  /\ OthersIdle(r) /\ Alone(q) /\ q \in ReqType /\ Knows(q) /\ SolidBelow(q)
         /\ Len(q.frames) \in Nat
         /\ q.pc \notin {"plan", "create"} => Planned
         /\ q.pc \notin {"advance.task", "advance.steps", "step.save"} => Solid(q)
         /\ q.pc \in OnRow => TopOf(q).kind # "create"
<1>1. OthersIdle(r) /\ Alone(q) /\ q \in ReqType /\ Knows(q)
  BY Busy, RequestFacts
<1>2. Len(q.frames) \in Nat
  BY <1>1, LenProperties DEF ReqType
<1>3. QED
  BY <1>1, <1>2 DEF Alone

-----------------------------------------------------------------------------
(* Requests that arrive, one at a time.                                    *)

LEMMA SerialArrive ==
  ASSUME RunInv, SerialInv, Serial, NEW r \in Request, NEW op, NEW q, Begin(r, op),
         Goto(r, q), Alone(q), UNCHANGED <<rows, failures, resolved>>
  PROVE  SerialInv'
<1>1. OthersIdle(r)
  BY Arrives
<1>2. UNCHANGED <<task, steps, actions>>
  BY DEF rows
<1>3. QED
  BY <1>1, <1>2, SerialRead

LEMMA ChangeTaskSerial ==
  ASSUME RunInv, SerialInv, Serial, NEW r \in Request, NEW op, NEW to, ChangeTask(r, op, to)
  PROVE  SerialInv'
<1>1. PICK q : q = [Idle EXCEPT !.pc = "task.save", !.to = to]
  OBVIOUS
<1>2. q.pc = "task.save" /\ q.to = to /\ q.frames = <<>> /\ Len(q.frames) = 0
  BY <1>1 DEF Idle
<1>3. Planned
  BY Arrives DEF ChangeTask
<1>4. Solid(q) /\ SolidBelow(q)
  BY <1>2 DEF Solid, SolidBelow
<1>5. to \in TaskMoves[task]
  BY DEF ChangeTask
<1>6. Alone(q)
  BY <1>2, <1>3, <1>4, <1>5 DEF Alone, OnRow, Moving
<1>7. QED
  BY <1>1, <1>6, SerialArrive DEF ChangeTask

LEMMA NudgeSerial ==
  ASSUME RunInv, SerialInv, Serial, NEW r \in Request, Nudge(r)
  PROVE  SerialInv'
<1>1. Planned
  BY Arrives DEF Nudge
<1>2. Solid(Idle)
  BY IdleFacts DEF Solid
<1>3. Alone(Advance(Idle))
  BY <1>1, <1>2, IdleFacts, AloneAdvance
<1>4. QED
  BY <1>3, SerialArrive DEF Nudge

(* A call with one frame.                                                  *)
LEMMA SolidOne ==
  ASSUME NEW f, SolidFrame(f), NEW q, q.frames = <<f>>
  PROVE  Solid(q) /\ TopOf(q) = f /\ Len(q.frames) = 1
<1>1. Len(<<f>>) = 1 /\ <<f>>[1] = f
  OBVIOUS
<1>2. QED
  BY <1>1 DEF Solid, TopOf

(* A step that is there has all the others beside it.                      *)
LEMMA OneIsAll ==
  ASSUME Planned, NEW s \in Step, steps[s] # NoRow
  PROVE  Full(steps)
BY DEF Planned, NoRows

LEMMA SweepSerial ==
  ASSUME RunInv, SerialInv, Serial, NEW r \in Request, Sweep(r)
  PROVE  SerialInv'
<1>1. PICK late \in (SUBSET {s \in Timed : steps[s].status \in {"DISPATCHED", "ACKED"}}) \ {{}} :
        Goto(r, [Idle EXCEPT !.pc = "loop", !.frames =
          <<Frame("sweep", [s \in Step |-> IF s \in late THEN steps[s] ELSE NoRow], late)>>])
  BY DEF Sweep
<1>2. PICK table : table = [s \in Step |-> IF s \in late THEN steps[s] ELSE NoRow]
  OBVIOUS
<1>3. PICK f : f = Frame("sweep", table, late)
  OBVIOUS
<1>4. PICK q : q = [Idle EXCEPT !.pc = "loop", !.frames = <<f>>]
  OBVIOUS
<1>5. Planned
  BY Arrives DEF Sweep
<1>6. PICK s \in Step : steps[s].status \in {"DISPATCHED", "ACKED"}
  BY SubsetAssumption
<1>7. Full(steps)
  BY <1>5, <1>6, NoRowsFacts, OneIsAll
<1>8. f.kind = "sweep" /\ f.rows = table
  BY <1>3 DEF Frame
<1>9. SolidFrame(f)
  <2>1. SettledBut(table, {})
    BY <1>2, NoRowsFacts DEF SettledBut
  <2>2. QED
    BY <1>7, <1>8, <2>1 DEF SolidFrame, HasRead, OnSteps
<1>10. q.pc = "loop" /\ q.frames = <<f>>
  BY <1>4 DEF Idle
<1>11. Solid(q) /\ Len(q.frames) = 1
  BY <1>9, <1>10, SolidOne
<1>12. Alone(q)
  BY <1>5, <1>10, <1>11, AlonePlainly DEF Plainly, OnRow, Moving
<1>13. QED
  BY <1>1, <1>2, <1>3, <1>4, <1>12, SerialArrive DEF Sweep

(* A handler on one step or one action.                                    *)
LEMMA HandlerAlone ==
  ASSUME Planned, NEW f \in FrameType, SolidFrame(f), f.kind # "create", NEW to,
         NEW q, q = Move([Idle EXCEPT !.frames = <<f>>], to)
  PROVE  Alone(q)
<1>1. PICK p : p = [Idle EXCEPT !.frames = <<f>>]
  OBVIOUS
<1>2. p.frames = <<f>>
  BY <1>1 DEF Idle
<1>3. Solid(p) /\ TopOf(p) = f
  BY <1>2, SolidOne
<1>4. <<f>> \in Seq(FrameType)
  OBVIOUS
<1>5. p \in ReqType
  BY <1>1, <1>4, IdleFacts DEF ReqType
<1>6. QED
  BY <1>1, <1>3, <1>5, AloneMove

LEMMA OnStepSerial ==
  ASSUME RunInv, SerialInv, Serial, NEW r \in Request, NEW op, NEW s \in Step, NEW to,
         OnStep(r, op, s, to)
  PROVE  SerialInv'
<1>1. PICK table : table = [NoRows EXCEPT ![s] = steps[s]]
  OBVIOUS
<1>2. PICK f : f = [Frame("call", table, {}) EXCEPT !.cur = s]
  OBVIOUS
<1>3. PICK q : q = Move([Idle EXCEPT !.frames = <<f>>], to)
  OBVIOUS
<1>4. Planned
  BY Arrives DEF OnStep
<1>5. Full(steps)
  BY <1>4, OneIsAll DEF OnStep
<1>6. table \in [Step -> Row] /\ SettledBut(table, {})
  <2>1. table \in [Step -> Row] /\ table[s] = steps[s] /\ \A t \in Step : t # s => table[t] = NoRow
    BY <1>1, NoRowsFacts, RowFacts DEF NoRows
  <2>2. QED
    BY <2>1, NoRowsFacts DEF SettledBut
<1>7. f \in FrameType /\ f.rows = table /\ f.kind = "call"
  BY <1>2, <1>6 DEF Frame, FrameType
<1>8. SolidFrame(f)
  BY <1>5, <1>6, <1>7 DEF SolidFrame, HasRead
<1>9. Alone(q)
  BY <1>3, <1>4, <1>7, <1>8, HandlerAlone
<1>10. QED
  BY <1>1, <1>2, <1>3, <1>9, SerialArrive DEF OnStep

LEMMA OnActionSerial ==
  ASSUME RunInv, SerialInv, Serial, NEW r \in Request, NEW to, OnAction(r, to)
  PROVE  SerialInv'
<1>1. PICK s \in Step : Goto(r, Move([Idle EXCEPT !.frames =
        <<[Frame("direct", NoRows, {}) EXCEPT !.cur = s]>>], to))
  BY DEF OnAction
<1>2. PICK f : f = [Frame("direct", NoRows, {}) EXCEPT !.cur = s]
  OBVIOUS
<1>3. PICK q : q = Move([Idle EXCEPT !.frames = <<f>>], to)
  OBVIOUS
<1>4. f \in FrameType /\ f.rows = NoRows /\ f.kind = "direct"
  BY <1>2, NoRowsFacts DEF Frame, FrameType
<1>5. SolidFrame(f)
  BY <1>4, NoRowsSettled DEF SolidFrame, HasRead, OnSteps
<1>6. Planned
  BY Arrives DEF OnAction
<1>7. Alone(q)
  BY <1>3, <1>4, <1>5, <1>6, HandlerAlone
<1>8. QED
  BY <1>1, <1>2, <1>3, <1>7, SerialArrive DEF OnAction

-----------------------------------------------------------------------------
(* The statements of the request at work.                                  *)

LEMMA SaveTaskSerial ==
  ASSUME RunInv, SerialInv, NEW r \in Request, SaveTask(r)
  PROVE  SerialInv'
<1>1. PICK f : f = req[r]
  OBVIOUS
<1>2. PICK p : p = [Idle EXCEPT !.pc = "plan"]
  OBVIOUS
<1>3. PICK q : q = IF f.to = "RUNNING" THEN p ELSE Idle
  OBVIOUS
<1>4. f.pc = "task.save" /\ task' = f.to /\ Goto(r, q)
      /\ UNCHANGED <<steps, actions, notes, calls, failures, resolved>>
  BY <1>1, <1>2, <1>3 DEF SaveTask, At
<1>5. OthersIdle(r) /\ Planned /\ f.to \in {"RUNNING", "CANCELLED"}
  BY <1>1, <1>4, AloneFacts DEF Knows
<1>6. StepsLast' /\ CompletedIsDone'
  BY <1>4, <1>5 DEF SerialInv, StepsLast, CompletedIsDone
<1>7. CASE f.to = "RUNNING"
  <2>1. p.pc = "plan" /\ p.frames = <<>> /\ Len(p.frames) = 0
    BY <1>2 DEF Idle
  <2>2. Solid(p)' /\ SolidBelow(p)'
    BY <2>1 DEF Solid, SolidBelow
  <2>3. (steps = NoRows \/ Full(steps))'
    BY <1>4, <1>5 DEF Planned, Full
  <2>4. Alone(p)'
    BY <2>1, <2>2, <2>3 DEF Alone, OnRow, Moving
  <2>5. Goto(r, p)
    BY <1>3, <1>4, <1>7
  <2>6. QED
    BY <1>5, <1>6, <2>4, <2>5, SerialStep
<1>8. CASE f.to = "CANCELLED"
  <2>1. Planned'
    BY <1>4, <1>5, <1>8 DEF Planned, Live, Full
  <2>2. Alone(Idle)'
    BY <2>1, ConstructorsAloneLater
  <2>3. Goto(r, Idle)
    BY <1>3, <1>4, <1>8
  <2>4. QED
    BY <1>5, <1>6, <2>2, <2>3, SerialStep
<1>9. QED
  BY <1>5, <1>7, <1>8

LEMMA PlanStepsSerial ==
  ASSUME RunInv, SerialInv, NEW r \in Request, PlanSteps(r)
  PROVE  SerialInv'
<1>1. PICK f : f = Frame("create", NoRows, Step)
  OBVIOUS
<1>2. PICK q : q = [Idle EXCEPT !.pc = "create", !.frames = <<f>>]
  OBVIOUS
<1>3. OthersIdle(r) /\ (steps = NoRows \/ Full(steps))
  BY AloneFacts DEF PlanSteps, At, Alone
<1>4. UNCHANGED <<task, steps, actions>>
  BY DEF PlanSteps, rows
<1>5. CASE steps = NoRows
  <2>1. f.kind = "create" /\ f.rows = NoRows /\ f.todo = Step
    BY <1>1 DEF Frame
  <2>2. SolidFrame(f)
    BY <2>1, NoRowsSettled DEF SolidFrame, HasRead, OnSteps
  <2>3. q.pc = "create" /\ q.frames = <<f>>
    BY <1>2 DEF Idle
  <2>4. Solid(q) /\ TopOf(q) = f /\ Len(q.frames) = 1
    BY <2>2, <2>3, SolidOne
  <2>5. SolidBelow(q)
    BY <2>4 DEF Solid, SolidBelow
  <2>6. \A s \in Step : steps[s] = NoRow
    BY <1>5 DEF NoRows
  <2>7. Alone(q)
    BY <2>1, <2>3, <2>4, <2>5, <2>6 DEF Alone, OnRow, Moving
  <2>8. Goto(r, q)
    BY <1>1, <1>2, <1>5 DEF PlanSteps
  <2>9. QED
    BY <1>3, <1>4, <2>7, <2>8, SerialRead
<1>6. CASE steps # NoRows
  <2>1. Planned
    BY <1>3, <1>6 DEF Planned
  <2>2. Solid(Idle)
    BY IdleFacts DEF Solid
  <2>3. Alone(Advance(Idle))
    BY <2>1, <2>2, IdleFacts, AloneAdvance
  <2>4. Goto(r, Advance(Idle))
    BY <1>6 DEF PlanSteps
  <2>5. QED
    BY <1>3, <1>4, <2>3, <2>4, SerialRead
<1>7. QED
  BY <1>5, <1>6

(* An insert takes a step from those that are left.                        *)
LEMMA CreateStepSerial ==
  ASSUME RunInv, SerialInv, NEW r \in Request, CreateStep(r)
  PROVE  SerialInv'
<1>1. PICK f : f = req[r]
  OBVIOUS
<1>2. PICK t : t = TopOf(f)
  OBVIOUS
<1>3. PICK s : s = First(Top(r).todo)
  OBVIOUS
<1>4. PICK left : left = t.todo \ {s}
  OBVIOUS
<1>5. PICK g : g = [t EXCEPT !.todo = left]
  OBVIOUS
<1>6. PICK q : q = WithTop(f, g)
  OBVIOUS
<1>7. f.pc = "create" /\ steps' = [steps EXCEPT ![s] = IF @ = NoRow THEN New ELSE @]
      /\ Goto(r, IF left = {} THEN Advance(Idle) ELSE q)
      /\ UNCHANGED <<task, actions, notes, calls, failures, resolved>>
  <2>1. Top(r) = t
    BY <1>1, <1>2 DEF Top, TopOf
  <2>2. QED
    BY <2>1, <1>1, <1>3, <1>4, <1>5, <1>6, Zenon DEF CreateStep, At
<1>8. OthersIdle(r) /\ Alone(f) /\ f \in ReqType /\ Knows(f) /\ Solid(f) /\ SolidBelow(f)
  BY <1>1, <1>7, AloneFacts
<1>9. f.frames # <<>>
  BY <1>7, <1>8 DEF Knows, OnStack
<1>10. t \in FrameType /\ Len(f.frames) = 1 /\ t.kind = "create"
       /\ \A x \in Step : IF x \in t.todo THEN steps[x] = NoRow ELSE steps[x].status # "NONE"
  BY <1>2, <1>7, <1>8, <1>9, TopFacts DEF Alone
<1>11. SolidFrame(t)
  BY <1>2, <1>8, <1>10 DEF Solid, TopOf
<1>12. \A x \in Step : IF x \in left THEN steps'[x] = NoRow ELSE steps'[x].status # "NONE"
  BY <1>4, <1>7, <1>10, NoRowsFacts, RowFacts
<1>13. \A x \in Step : /\ steps[x].status = "RESOLVED" <=> steps'[x].status = "RESOLVED"
                       /\ steps[x].status # "NONE" => steps'[x].status # "NONE"
  BY <1>7, NoRowsFacts, RowFacts
<1>14. Keeps
  BY <1>7, <1>13 DEF Keeps, Full, Live
<1>15. StepsLast' /\ CompletedIsDone'
  BY <1>7, <1>13 DEF SerialInv, StepsLast, CompletedIsDone
<1>16. CASE left = {}
  <2>1. Planned'
    BY <1>12, <1>16 DEF Planned, Full
  <2>2. Solid(Idle)'
    BY IdleFacts DEF Solid
  <2>3. Alone(Advance(Idle))'
    BY <2>1, <2>2, IdleFacts, ConstructorsAloneLater
  <2>4. Goto(r, Advance(Idle))
    BY <1>7, <1>16
  <2>5. QED
    BY <1>8, <1>15, <2>3, <2>4, SerialStep
<1>17. CASE left # {}
  <2>1. g \in FrameType /\ g.kind = t.kind /\ g.rows = t.rows /\ g.todo = left
    BY <1>4, <1>5, <1>10 DEF FrameType
  <2>2. SolidFrame(g)
    BY <1>11, <2>1 DEF SolidFrame, HasRead
  <2>3. Solid(q)
    BY <1>6, <1>8, <1>9, <2>1, <2>2, SolidWithTop
  <2>4. q.pc = "create" /\ TopOf(q) = g
    BY <1>6, <1>7, <1>8, <1>9, <2>1, WithTopFacts
  <2>5. Len(q.frames) = 1
    <3>1. f.frames \in Seq(FrameType) /\ Len(f.frames) \in 1 .. Len(f.frames)
      BY <1>8, <1>10 DEF ReqType
    <3>2. q.frames = [f.frames EXCEPT ![Len(f.frames)] = g]
      BY <1>6, <1>8 DEF WithTop, ReqType
    <3>3. QED
      BY <1>10, <2>1, <3>1, <3>2, ExceptSeq
  <2>6. Solid(q)' /\ SolidBelow(q)'
    BY <1>14, <2>3, StackStays DEF Solid, SolidBelow
  <2>7. TopOf(q)' = g
    BY <2>4 DEF TopOf
  <2>8. Alone(q)'
    BY <1>10, <1>12, <2>1, <2>4, <2>5, <2>6, <2>7 DEF Alone, OnRow, Moving
  <2>9. Goto(r, q)
    BY <1>7, <1>17
  <2>10. QED
    BY <1>8, <1>15, <2>8, <2>9, SerialStep
<1>18. QED
  BY <1>16, <1>17

LEMMA ReadTaskSerial ==
  ASSUME RunInv, SerialInv, NEW r \in Request, ReadTask(r)
  PROVE  SerialInv'
<1>1. PICK f : f = req[r]
  OBVIOUS
<1>2. PICK q : q = [f EXCEPT !.pc = "advance.steps"]
  OBVIOUS
<1>3. f.pc = "advance.task" /\ Goto(r, IF task = "RUNNING" THEN q ELSE Return(f))
      /\ UNCHANGED <<task, steps, actions>>
  BY <1>1, <1>2 DEF ReadTask, At, rows
<1>4. OthersIdle(r) /\ f \in ReqType /\ SolidBelow(f) /\ Planned
  BY <1>1, <1>3, AloneFacts
<1>5. CASE task = "RUNNING"
  <2>1. q.pc = "advance.steps" /\ q.frames = f.frames
    BY <1>2, <1>4 DEF ReqType
  <2>2. SolidBelow(q) /\ Live
    BY <1>4, <1>5, <2>1 DEF SolidBelow, Live
  <2>3. Alone(q)
    BY <1>4, <2>1, <2>2 DEF Alone, OnRow, Moving
  <2>4. QED
    BY <1>3, <1>4, <1>5, <2>3, SerialRead
<1>6. CASE task # "RUNNING"
  BY <1>3, <1>4, <1>6, AloneReturn, SerialRead
<1>7. QED
  BY <1>5, <1>6

LEMMA ReadStepsSerial ==
  ASSUME RunInv, SerialInv, NEW r \in Request, ReadSteps(r)
  PROVE  SerialInv'
<1>1. PICK f : f = req[r]
  OBVIOUS
<1>2. PICK g : g = Frame("advance", steps, {s \in Step : steps[s] # NoRow})
  OBVIOUS
<1>3. PICK p : p = WithTop(f, g)
  OBVIOUS
<1>4. PICK q : q = [p EXCEPT !.pc = "loop"]
  OBVIOUS
<1>5. f.pc = "advance.steps" /\ Goto(r, q) /\ UNCHANGED <<task, steps, actions>>
  BY <1>1, <1>2, <1>3, <1>4 DEF ReadSteps, At, rows
<1>6. OthersIdle(r) /\ f \in ReqType /\ SolidBelow(f) /\ Planned /\ Live /\ f.frames # <<>>
  BY <1>1, <1>5, AloneFacts DEF Alone, Knows, OnStack
<1>7. g \in FrameType /\ g.rows = steps /\ g.kind = "advance"
  BY <1>2, FrameFacts, RowFacts
<1>8. SolidFrame(g)
  BY <1>6, <1>7 DEF SolidFrame, SettledBut, HasRead, Planned
<1>9. Solid(p) /\ p \in ReqType
  BY <1>3, <1>6, <1>7, <1>8, SolidWithTop, WithTopFacts
<1>10. q.pc = "loop" /\ q.frames = p.frames /\ Len(q.frames) \in Nat
  BY <1>4, <1>9, LenProperties DEF ReqType
<1>11. Solid(q)
  BY <1>9, <1>10 DEF Solid
<1>12. Alone(q)
  BY <1>6, <1>10, <1>11, AlonePlainly DEF Plainly, OnRow, Moving
<1>13. QED
  BY <1>5, <1>6, <1>12, SerialRead

LEMMA LoopSerial ==
  ASSUME RunInv, SerialInv, NEW r \in Request, Loop(r)
  PROVE  SerialInv'
<1>1. PICK p : p = req[r]
  OBVIOUS
<1>2. PICK f : f = TopOf(p)
  OBVIOUS
<1>3. PICK due : due = {s \in f.todo : Dispatchable(f.rows[s], s) /\ Ready(f.rows, s)}
  OBVIOUS
<1>4. PICK s : s = First(due)
  OBVIOUS
<1>5. PICK g : g = [f EXCEPT !.cur = s, !.todo = {t \in @ : Position[t] > Position[s]}]
  OBVIOUS
<1>6. PICK w : w = WithTop(p, g)
  OBVIOUS
<1>7. /\ p.pc = "loop" /\ f.kind = "advance"
      /\ Goto(r, IF due # {}
                 THEN IF f.rows[s].status = "FAILED" THEN Move(w, "CREATED")
                      ELSE [w EXCEPT !.pc = "action.get"]
                 ELSE IF AllResolved(f.rows) THEN [p EXCEPT !.pc = "complete"]
                 ELSE Return(p))
      /\ UNCHANGED <<task, steps, actions>>
  <2>1. Top(r) = f
    BY <1>1, <1>2 DEF Top, TopOf
  <2>2. UNCHANGED rows
    BY DEF Loop
  <2>3. QED
    BY <2>1, <2>2, <1>1, <1>3, <1>4, <1>5, <1>6, Zenon DEF Loop, At, rows
<1>8. OthersIdle(r) /\ p \in ReqType /\ Solid(p) /\ SolidBelow(p) /\ Planned /\ p.frames # <<>>
  BY <1>1, <1>7, AloneFacts DEF Knows, OnStack
<1>9. f \in FrameType /\ Len(p.frames) \in Nat \ {0}
  BY <1>2, <1>8, TopFacts
<1>10. SolidFrame(f)
  BY <1>2, <1>8, <1>9 DEF Solid, TopOf
<1>11. CASE due # {}
  <2>1. s \in Step
    <3>1. due \subseteq Step
      BY <1>3, <1>9 DEF FrameType
    <3>2. First(due) \in due
      BY <3>1, <1>11, FirstFacts
    <3>3. QED
      BY <3>1, <3>2, <1>4
  <2>2. g \in FrameType /\ g.rows = f.rows /\ g.kind = "advance"
    BY <1>5, <1>7, <1>9, <2>1 DEF FrameType
  <2>3. SolidFrame(g)
    BY <1>7, <1>10, <2>2 DEF SolidFrame, HasRead
  <2>4. w \in ReqType /\ TopOf(w) = g /\ Solid(w)
    BY <1>6, <1>8, <2>2, <2>3, WithTopFacts, SolidWithTop
  <2>5. CASE f.rows[s].status = "FAILED"
    <3>1. Alone(Move(w, "CREATED"))
      BY <1>8, <2>2, <2>4, AloneMove
    <3>2. Goto(r, Move(w, "CREATED"))
      BY <1>7, <1>11, <2>5
    <3>3. QED
      BY <1>7, <1>8, <3>1, <3>2, SerialRead
  <2>6. CASE f.rows[s].status # "FAILED"
    <3>1. PICK q : q = [w EXCEPT !.pc = "action.get"]
      OBVIOUS
    <3>2. q.pc = "action.get" /\ q.frames = w.frames /\ Len(q.frames) \in Nat
      BY <2>4, <3>1, LenProperties DEF ReqType
    <3>3. Solid(q) /\ TopOf(q) = g
      BY <2>4, <3>2 DEF Solid, TopOf
    <3>4. Alone(q)
      BY <1>8, <2>2, <3>2, <3>3, AlonePlainly DEF Plainly
    <3>5. Goto(r, q)
      BY <1>7, <1>11, <2>6, <3>1
    <3>6. QED
      BY <1>7, <1>8, <3>4, <3>5, SerialRead
  <2>7. QED
    BY <2>5, <2>6
<1>12. CASE due = {} /\ AllResolved(f.rows)
  <2>1. PICK q : q = [p EXCEPT !.pc = "complete"]
    OBVIOUS
  <2>2. q.pc = "complete" /\ q.frames = p.frames
    BY <1>8, <2>1 DEF ReqType
  <2>3. Solid(q) /\ SolidBelow(q)
    BY <1>8, <2>2 DEF Solid, SolidBelow
  <2>4. AllDone /\ Live
    BY <1>7, <1>10, <1>12 DEF SolidFrame, HasRead, SettledBut, AllResolved, Full, AllDone
  <2>5. Alone(q)
    BY <1>8, <2>2, <2>3, <2>4 DEF Alone, OnRow, Moving
  <2>6. Goto(r, q)
    BY <1>7, <1>12, <2>1
  <2>7. QED
    BY <1>7, <1>8, <2>5, <2>6, SerialRead
<1>13. CASE due = {} /\ ~ AllResolved(f.rows)
  <2>1. Goto(r, Return(p))
    BY <1>7, <1>13
  <2>2. Alone(Return(p))
    BY <1>8, AloneReturn
  <2>3. QED
    BY <1>7, <1>8, <2>1, <2>2, SerialRead
<1>14. QED
  BY <1>11, <1>12, <1>13

LEMMA CompleteSerial ==
  ASSUME RunInv, SerialInv, NEW r \in Request, Complete(r)
  PROVE  SerialInv' /\ Live
<1>1. PICK f : f = req[r]
  OBVIOUS
<1>2. f.pc = "complete" /\ task' = "COMPLETED" /\ Goto(r, Return(f))
      /\ UNCHANGED <<steps, actions, notes, calls, failures, resolved>>
  BY <1>1 DEF Complete, At
<1>3. OthersIdle(r) /\ f \in ReqType /\ SolidBelow(f) /\ Planned /\ AllDone /\ Live
  BY <1>1, <1>2, AloneFacts DEF Alone
<1>4. Keeps
  BY <1>2 DEF Keeps, Full, Live
<1>5. Planned' /\ SolidBelow(f)'
  BY <1>2, <1>3, <1>4, StackStays DEF Planned, Full
<1>6. Alone(Return(f))'
  BY <1>3, <1>5, ConstructorsAloneLater
<1>7. StepsLast' /\ CompletedIsDone'
  BY <1>2, <1>3 DEF SerialInv, StepsLast, CompletedIsDone, AllDone
<1>8. QED
  BY <1>2, <1>3, <1>6, <1>7, SerialStep

(* A statement that works on a row goes on to q or to a constructor of it. *)
LEMMA GetActionSerial ==
  ASSUME RunInv, SerialInv, NEW r \in Request, GetAction(r)
  PROVE  SerialInv'
<1>1. PICK f : f = req[r]
  OBVIOUS
<1>2. PICK q : q = [f EXCEPT !.pc = "action.create"]
  OBVIOUS
<1>3. f.pc = "action.get" /\ (Goto(r, q) \/ Goto(r, Move(f, "DISPATCHING")))
      /\ UNCHANGED <<task, steps, actions>>
  BY <1>1, <1>2 DEF GetAction, At, rows
<1>4. /\ OthersIdle(r) /\ f \in ReqType /\ Solid(f) /\ Planned /\ Len(f.frames) \in Nat
      /\ TopOf(f).kind # "create"
  BY <1>1, <1>3, AloneFacts DEF OnRow
<1>5. q.pc = "action.create" /\ q.frames = f.frames
  BY <1>2, <1>4 DEF ReqType
<1>6. Solid(q) /\ TopOf(q) = TopOf(f)
  BY <1>4, <1>5 DEF Solid, TopOf
<1>7. Alone(q)
  BY <1>4, <1>5, <1>6, AlonePlainly DEF Plainly
<1>8. Alone(Move(f, "DISPATCHING"))
  BY <1>4, AloneMove
<1>9. QED
  BY <1>3, <1>4, <1>7, <1>8, SerialRead

LEMMA CreateActionSerial ==
  ASSUME RunInv, SerialInv, NEW r \in Request, CreateAction(r)
  PROVE  SerialInv'
<1>1. PICK f : f = req[r]
  OBVIOUS
<1>2. PICK s : s = TopOf(f).cur
  OBVIOUS
<1>3. f.pc = "action.create"
  BY <1>1 DEF CreateAction, At
<1>4. /\ OthersIdle(r) /\ f \in ReqType /\ Solid(f) /\ Planned
      /\ TopOf(f).kind # "create"
  BY <1>1, <1>3, AloneFacts DEF OnRow
<1>5. Top(r) = TopOf(f)
  BY <1>1 DEF Top, TopOf
<1>6. CASE actions[s] = NoRow
  <2>1. actions' = [actions EXCEPT ![s] = New] /\ Goto(r, Move(f, "DISPATCHING"))
        /\ UNCHANGED <<task, steps, notes, calls, failures, resolved>>
    BY <1>1, <1>2, <1>5, <1>6 DEF CreateAction
  <2>2. Keeps
    BY <2>1 DEF Keeps, Full, Live
  <2>3. Solid(f)' /\ Planned'
    BY <1>4, <2>1, <2>2, StackStays DEF Planned, Full, Live
  <2>4. TopOf(f)' = TopOf(f)
    BY DEF TopOf
  <2>5. Alone(Move(f, "DISPATCHING"))'
    BY <1>4, <2>3, <2>4, ConstructorsAloneLater
  <2>6. StepsLast' /\ CompletedIsDone'
    BY <1>6, <2>1, NoRowsFacts, RowFacts DEF SerialInv, StepsLast, CompletedIsDone
  <2>7. QED
    BY <1>4, <2>1, <2>5, <2>6, SerialStep
<1>7. CASE actions[s] # NoRow
  <2>1. Goto(r, GiveUp(f)) /\ UNCHANGED <<task, steps, actions>>
    BY <1>1, <1>2, <1>5, <1>7 DEF CreateAction
  <2>2. Alone(GiveUp(f))
    BY <1>4, AloneGiveUp
  <2>3. QED
    BY <1>4, <2>1, <2>2, SerialRead
<1>8. QED
  BY <1>6, <1>7

LEMMA ReadActionSerial ==
  ASSUME RunInv, SerialInv, NEW r \in Request, ReadAction(r)
  PROVE  SerialInv'
<1>1. PICK f : f = req[r]
  OBVIOUS
<1>2. PICK s : s = TopOf(f).cur
  OBVIOUS
<1>3. PICK row : row = Became(actions[s], f.to)
  OBVIOUS
<1>4. PICK q : q = [f EXCEPT !.pc = "action.save", !.act = row]
  OBVIOUS
<1>5. f.pc = "action.read" /\ UNCHANGED <<task, steps, actions>>
      /\ Goto(r, IF MayBecome(actions[s], s, f.to) THEN q ELSE GiveUp(f))
  <2>1. Top(r) = TopOf(f)
    BY <1>1 DEF Top, TopOf
  <2>2. QED
    BY <2>1, <1>1, <1>2, <1>3, <1>4 DEF ReadAction, At, rows
<1>6. /\ OthersIdle(r) /\ f \in ReqType /\ Solid(f) /\ SolidBelow(f) /\ Planned /\ f.to \in Status
      /\ TopOf(f).kind # "create"
  BY <1>1, <1>5, AloneFacts DEF OnRow, Moving, Knows
<1>7. CASE MayBecome(actions[s], s, f.to)
  <2>1. actions[s].status # "RESOLVED"
    BY <1>7 DEF MayBecome, ActionMoves
  <2>2. row.status = f.to
    BY <1>3 DEF Became
  <2>3. q.pc = "action.save" /\ q.act = row /\ q.to = f.to /\ q.frames = f.frames
    BY <1>4, <1>6 DEF ReqType
  <2>4. Solid(q) /\ SolidBelow(q) /\ TopOf(q) = TopOf(f)
    BY <1>6, <2>3 DEF Solid, SolidBelow, TopOf
  <2>5. Alone(q)
    BY <1>2, <1>6, <2>1, <2>2, <2>3, <2>4 DEF Alone
  <2>6. QED
    BY <1>5, <1>6, <1>7, <2>5, SerialRead
<1>8. CASE ~ MayBecome(actions[s], s, f.to)
  BY <1>5, <1>6, <1>8, AloneGiveUp, SerialRead
<1>9. QED
  BY <1>7, <1>8

LEMMA SaveActionSerial ==
  ASSUME RunInv, SerialInv, NEW r \in Request, SaveAction(r)
  PROVE  SerialInv'
<1>1. PICK q : q = req[r]
  OBVIOUS
<1>2. PICK f : f = TopOf(q)
  OBVIOUS
<1>3. PICK s : s = f.cur
  OBVIOUS
<1>4. PICK g : g = [f EXCEPT !.rows[s] = Became(@, q.to)]
  OBVIOUS
<1>5. PICK w : w = WithTop(q, g)
  OBVIOUS
<1>6. PICK p : p = [w EXCEPT !.pc = "step.save", !.act = NoRow]
  OBVIOUS
<1>7. /\ q.pc = "action.save"
      /\ actions' = [actions EXCEPT ![s] = q.act]
      /\ Goto(r, IF f.kind = "direct" THEN Idle
                 ELSE IF q.to = "DISPATCHING" THEN Move(q, "DISPATCHED") ELSE p)
      /\ UNCHANGED <<task, steps, notes, calls, failures>>
  <2>1. Top(r) = f
    BY <1>1, <1>2 DEF Top, TopOf
  <2>2. QED
    BY <2>1, <1>1, <1>3, <1>4, <1>5, <1>6, Zenon DEF SaveAction, At
<1>8. /\ OthersIdle(r) /\ Alone(q) /\ q \in ReqType /\ Solid(q) /\ SolidBelow(q) /\ Planned
      /\ f.kind # "create"
  BY <1>1, <1>2, <1>7, AloneFacts DEF OnRow, Moving
<1>9. q.frames # <<>> /\ s \in Step /\ q.to \in Status
  BY <1>1, <1>2, <1>3, <1>7, AloneFacts DEF Knows, OnStack, OnRow, Moving
<1>10. q.act.status = q.to /\ actions[s].status # "RESOLVED"
  BY <1>2, <1>3, <1>7, <1>8 DEF Alone
<1>11. f \in FrameType /\ Len(q.frames) \in Nat \ {0}
  BY <1>2, <1>8, <1>9, TopFacts
<1>12. SolidFrame(f)
  BY <1>2, <1>8, <1>11 DEF Solid, TopOf
<1>13. actions'[s] = q.act /\ \A t \in Step : t # s => actions'[t] = actions[t]
  BY <1>7, <1>9, RowFacts
<1>14. StepsLast' /\ CompletedIsDone'
  BY <1>7, <1>10, <1>13 DEF SerialInv, StepsLast, CompletedIsDone
<1>15. Keeps /\ Planned'
  BY <1>7, <1>8 DEF Keeps, Planned, Full, Live
<1>16. CASE f.kind = "direct"
  <2>1. Goto(r, Idle)
    BY <1>7, <1>16
  <2>2. Alone(Idle)'
    BY <1>15, ConstructorsAloneLater
  <2>3. QED
    BY <1>8, <1>14, <2>1, <2>2, SerialStep
<1>17. CASE f.kind # "direct" /\ q.to = "DISPATCHING"
  <2>1. Goto(r, Move(q, "DISPATCHED"))
    BY <1>7, <1>17
  <2>2. Solid(q)'
    BY <1>8, <1>15, StackStays
  <2>3. TopOf(q)' = f
    BY <1>2 DEF TopOf
  <2>4. Alone(Move(q, "DISPATCHED"))'
    BY <1>8, <1>15, <2>2, <2>3, ConstructorsAloneLater
  <2>5. QED
    BY <1>8, <1>14, <2>1, <2>4, SerialStep
<1>18. CASE f.kind # "direct" /\ q.to # "DISPATCHING"
  <2>1. Goto(r, p)
    BY <1>7, <1>18
  <2>2. PICK table : table = [f.rows EXCEPT ![s] = Became(@, q.to)]
    OBVIOUS
  <2>3. f.rows \in [Step -> Row] /\ f.rows[s] \in Row
    BY <1>9, <1>11 DEF FrameType
  <2>4. Became(f.rows[s], q.to) \in Row /\ Became(f.rows[s], q.to).status = q.to
    BY <1>9, <2>3, BecameFacts
  <2>5. table \in [Step -> Row] /\ table[s].status = q.to
        /\ \A t \in Step : t # s => table[t] = f.rows[t]
    BY <1>9, <2>2, <2>3, <2>4
  <2>6. g = [f EXCEPT !.rows = table]
    BY <1>4, <1>11, <2>2 DEF FrameType
  <2>7. g \in FrameType /\ g.rows = table /\ g.cur = s /\ g.kind = f.kind
    BY <1>3, <1>11, <2>5, <2>6 DEF FrameType
  <2>8. w \in ReqType /\ TopOf(w) = g /\ w.to = q.to
    BY <1>5, <1>8, <1>9, <2>7, WithTopFacts
  <2>9. p.pc = "step.save" /\ p.to = q.to /\ p.frames = w.frames
    BY <1>6, <2>8 DEF ReqType
  <2>10. TopOf(p) = g
    BY <2>8, <2>9 DEF TopOf
  <2>11. SolidBelow(p)
    <3>1. PICK n : n = Len(q.frames)
      OBVIOUS
    <3>2. q.frames \in Seq(FrameType) /\ n \in Nat \ {0} /\ n \in 1 .. n
      BY <1>8, <1>9, <3>1, TopFacts
    <3>3. PICK h : h = [q.frames EXCEPT ![n] = g]
      OBVIOUS
    <3>4. Len(h) = n /\ \A j \in 1 .. n : h[j] = IF j = n THEN g ELSE q.frames[j]
      BY <2>7, <3>1, <3>2, <3>3, ExceptSeq
    <3>5. p.frames = h
      BY <1>5, <1>8, <2>9, <3>1, <3>3 DEF WithTop, ReqType
    <3>6. \A j \in 1 .. Len(h) - 1 : SolidFrame(h[j])
      BY <1>8, <3>1, <3>2, <3>4 DEF SolidBelow
    <3>7. QED
      BY <3>5, <3>6 DEF SolidBelow
  <2>12. SolidBelow(p)'
    BY <1>15, <2>11, StackStays
  <2>13. f.kind \in OnSteps
    BY <1>8, <1>11, <1>18 DEF FrameType, OnSteps
  <2>14. SettledBut(table, {s})'
    BY <1>7, <1>12, <2>5 DEF SolidFrame, SettledBut
  <2>15. HasRead(g)'
    <3>1. Full(table) \/ ~ Full(f.rows)
      BY <1>9, <2>5, StatusFacts DEF Full
    <3>2. HasRead(f)
      BY <1>12 DEF SolidFrame
    <3>3. HasRead(g)
      BY <2>7, <3>1, <3>2 DEF HasRead
    <3>4. QED
      BY <1>7, <3>3 DEF HasRead, Full, Live
  <2>16. actions'[s].status = q.to
    BY <1>10, <1>13
  <2>17. TopOf(p)' = g
    BY <2>10 DEF TopOf
  <2>18. /\ TopOf(p)'.kind \in OnSteps /\ TopOf(p)'.kind # "create"
         /\ SettledBut(TopOf(p).rows, {TopOf(p).cur})'
         /\ TopOf(p)'.rows[TopOf(p)'.cur].status = p.to /\ actions'[TopOf(p)'.cur].status = p.to
    BY <1>8, <2>5, <2>7, <2>9, <2>13, <2>14, <2>16, <2>17 DEF SettledBut
  <2>19. HasRead(TopOf(p))'
    BY <2>15, <2>17 DEF HasRead, Full
  <2>20. Alone(p)'
    BY <1>15, <2>9, <2>12, <2>18, <2>19 DEF Alone
  <2>21. QED
    BY <1>8, <1>14, <2>1, <2>20, SerialStep
<1>19. QED
  BY <1>16, <1>17, <1>18

(* The step that is stored has the status of its action, so a resolved one *)
(* is stored as resolved.                                                  *)
LEMMA SaveStepSerial ==
  ASSUME RunInv, SerialInv, NEW r \in Request, SaveStep(r)
  PROVE  SerialInv'
<1>1. PICK f : f = req[r]
  OBVIOUS
<1>2. PICK t : t = TopOf(f)
  OBVIOUS
<1>3. PICK s : s = t.cur
  OBVIOUS
<1>4. PICK row : row = t.rows[s]
  OBVIOUS
<1>5. f.pc = "step.save" /\ steps' = [steps EXCEPT ![s] = row] /\ Goto(r, After(f, s))
      /\ UNCHANGED <<task, actions, notes, calls, failures, resolved>>
  <2>1. Top(r) = t
    BY <1>1, <1>2 DEF Top, TopOf
  <2>2. QED
    BY <2>1, <1>1, <1>3, <1>4 DEF SaveStep, At
<1>6. OthersIdle(r) /\ Alone(f) /\ f \in ReqType /\ SolidBelow(f) /\ Planned /\ t.kind # "create"
  BY <1>1, <1>2, <1>5, AloneFacts DEF OnRow, Moving
<1>7. f.frames # <<>> /\ s \in Step
  BY <1>1, <1>2, <1>3, <1>5, AloneFacts DEF Knows, OnStack, OnRow, Moving
<1>8. /\ t.kind \in OnSteps /\ HasRead(t) /\ SettledBut(t.rows, {s})
      /\ row.status = f.to /\ actions[s].status = f.to
  BY <1>2, <1>3, <1>4, <1>5, <1>6 DEF Alone
<1>9. t \in FrameType /\ row \in Row /\ Len(f.frames) \in Nat \ {0}
  BY <1>2, <1>4, <1>6, <1>7, TopFacts DEF FrameType
<1>10. row.status # "NONE"
  <2>1. f.to # "NONE"
    BY <1>6, StatusFacts DEF ReqType
  <2>2. QED
    BY <1>8, <2>1
<1>11. steps'[s] = row /\ \A x \in Step : x # s => steps'[x] = steps[x]
  BY <1>5, <1>7, RowFacts
<1>12. steps[s].status = "RESOLVED" => row.status = "RESOLVED"
  BY <1>7, <1>8 DEF SerialInv, StepsLast
<1>13. Full(steps) /\ Full(steps)'
  BY <1>8, <1>10, <1>11 DEF HasRead, Full
<1>14. Keeps /\ Planned'
  BY <1>5, <1>11, <1>12, <1>13 DEF Keeps, Planned, Live
<1>15. StepsLast' /\ CompletedIsDone'
  <2>1. StepsLast'
    BY <1>5, <1>8, <1>11 DEF SerialInv, StepsLast
  <2>2. CompletedIsDone'
    BY <1>5, <1>14 DEF SerialInv, CompletedIsDone, Keeps
  <2>3. QED
    BY <2>1, <2>2
<1>16. SolidFrame(t)'
  <2>1. SettledBut(t.rows, {})'
    BY <1>4, <1>8, <1>11, <1>14 DEF SettledBut, Keeps
  <2>2. HasRead(t)'
    BY <1>8, <1>14 DEF HasRead, Keeps
  <2>3. QED
    BY <2>1, <2>2 DEF SolidFrame
<1>17. Solid(f)'
  <2>1. SolidBelow(f)'
    BY <1>6, <1>14, StackStays
  <2>2. \A i \in 1 .. Len(f.frames) - 1 : SolidFrame(f.frames[i])'
    BY <2>1 DEF SolidBelow
  <2>3. PICK n : n = Len(f.frames)
    OBVIOUS
  <2>4. t = f.frames[n]
    BY <1>2, <2>3 DEF TopOf
  <2>5. SolidFrame(f.frames[n])'
    BY <1>16, <2>4 DEF SolidFrame, SettledBut, HasRead, Full
  <2>6. \A i \in 1 .. n : SolidFrame(f.frames[i])'
    BY <1>9, <2>2, <2>3, <2>5
  <2>7. QED
    BY <2>3, <2>6 DEF Solid
<1>18. ASSUME NEW pc \in {"action.get", "run", "note", "escalate"}, NEW q, q = [f EXCEPT !.pc = pc]
       PROVE  Alone(q)'
  <2>1. q.pc = pc /\ q.frames = f.frames /\ Len(q.frames) \in Nat
    BY <1>6, <1>9, <1>18 DEF ReqType
  <2>2. Solid(q)' /\ TopOf(q)' = t
    BY <1>2, <1>17, <2>1 DEF Solid, TopOf
  <2>3. q.pc \in Plainly
    BY <1>18, <2>1 DEF Plainly
  <2>4. QED
    BY <1>6, <1>14, <2>1, <2>2, <2>3, ConstructorsAloneLater
<1>19. Alone(Advance(f))'
  BY <1>6, <1>14, <1>17, ConstructorsAloneLater
<1>20. \A q : Goto(r, q) /\ Alone(q)' => SerialInv'
  BY <1>6, <1>15, SerialStep
<1>21. PICK q : q = After(f, s)
  OBVIOUS
<1>22. Goto(r, q)
  BY <1>5, <1>21
<1>23. CASE f.to = "CREATED"
  <2>1. q = [f EXCEPT !.pc = "action.get"]
    BY <1>21, <1>23 DEF After
  <2>2. QED
    BY <1>18, <1>20, <1>22, <2>1
<1>24. CASE f.to = "DISPATCHED"
  <2>1. q = [f EXCEPT !.pc = IF s \in Agent THEN "run" ELSE "note"]
    BY <1>21, <1>24 DEF After
  <2>2. QED
    BY <1>18, <1>20, <1>22, <2>1
<1>25. CASE f.to = "FAILED" /\ s \in Escalated
  <2>1. q = [f EXCEPT !.pc = "escalate"]
    BY <1>21, <1>25 DEF After
  <2>2. QED
    BY <1>18, <1>20, <1>22, <2>1
<1>26. CASE f.to \notin {"CREATED", "DISPATCHED"} /\ ~ (f.to = "FAILED" /\ s \in Escalated)
  <2>1. q = Advance(f)
    BY <1>21, <1>26 DEF After
  <2>2. Goto(r, Advance(f))
    BY <1>22, <2>1
  <2>3. QED
    BY <1>19, <1>20, <2>2
<1>27. QED
  BY <1>23, <1>24, <1>25, <1>26

LEMMA RunAgentSerial ==
  ASSUME RunInv, SerialInv, NEW r \in Request, RunAgent(r)
  PROVE  SerialInv'
<1>1. PICK f : f = req[r]
  OBVIOUS
<1>2. f.pc = "run" /\ UNCHANGED <<task, steps, actions>>
  BY <1>1 DEF RunAgent, At, rows
<1>3. OthersIdle(r) /\ f \in ReqType /\ Solid(f) /\ Planned /\ TopOf(f).kind # "create"
  BY <1>1, <1>2, AloneFacts DEF OnRow
<1>4. PICK to : Goto(r, Move(f, to))
  BY <1>1 DEF RunAgent
<1>5. QED
  BY <1>2, <1>3, <1>4, AloneMove, SerialRead

LEMMA NotifySerial ==
  ASSUME RunInv, SerialInv, NEW r \in Request, Notify(r)
  PROVE  SerialInv'
<1>1. PICK f : f = req[r]
  OBVIOUS
<1>2. f.pc = "note" /\ Goto(r, GiveUp(f)) /\ UNCHANGED <<task, steps, actions>>
  BY <1>1 DEF Notify, At
<1>3. OthersIdle(r) /\ f \in ReqType /\ Solid(f) /\ Planned
  BY <1>1, <1>2, AloneFacts
<1>4. QED
  BY <1>2, <1>3, AloneGiveUp, SerialRead

LEMMA EscalateSerial ==
  ASSUME RunInv, SerialInv, NEW r \in Request, Escalate(r)
  PROVE  SerialInv'
<1>1. PICK f : f = req[r]
  OBVIOUS
<1>2. f.pc = "escalate" /\ Goto(r, Advance(f)) /\ UNCHANGED <<task, steps, actions>>
  BY <1>1 DEF Escalate, At
<1>3. OthersIdle(r) /\ f \in ReqType /\ Solid(f) /\ Planned
  BY <1>1, <1>2, AloneFacts
<1>4. QED
  BY <1>2, <1>3, AloneAdvance, SerialRead

LEMMA SweepNextSerial ==
  ASSUME RunInv, SerialInv, NEW r \in Request, SweepNext(r)
  PROVE  SerialInv'
<1>1. PICK p : p = req[r]
  OBVIOUS
<1>2. PICK f : f = TopOf(p)
  OBVIOUS
<1>3. p.pc = "loop" /\ Top(r) = f /\ f.kind = "sweep" /\ UNCHANGED <<task, steps, actions>>
  BY <1>1, <1>2 DEF SweepNext, At, rows, Top, TopOf
<1>4. OthersIdle(r) /\ p \in ReqType /\ Solid(p) /\ SolidBelow(p) /\ Planned /\ p.frames # <<>>
  BY <1>1, <1>3, AloneFacts DEF Knows, OnStack
<1>5. f \in FrameType /\ Len(p.frames) \in Nat \ {0}
  BY <1>2, <1>4, TopFacts
<1>6. SolidFrame(f)
  BY <1>2, <1>4, <1>5 DEF Solid, TopOf
<1>7. CASE f.todo = {}
  <2>1. Goto(r, Idle)
    BY <1>3, <1>7 DEF SweepNext
  <2>2. QED
    BY <1>3, <1>4, <2>1, AloneIdle, SerialRead
<1>8. CASE f.todo # {}
  <2>1. PICK s \in f.todo : Goto(r, Move(WithTop(p, [f EXCEPT !.cur = s, !.todo = @ \ {s}]), "FAILED"))
    BY <1>1, <1>3, <1>8 DEF SweepNext
  <2>2. PICK g : g = [f EXCEPT !.cur = s, !.todo = @ \ {s}]
    OBVIOUS
  <2>3. g \in FrameType /\ g.rows = f.rows /\ g.kind = "sweep"
    BY <1>3, <1>5, <2>2 DEF FrameType
  <2>4. SolidFrame(g)
    BY <1>3, <1>6, <2>3 DEF SolidFrame, HasRead
  <2>5. PICK w : w = WithTop(p, g)
    OBVIOUS
  <2>6. w \in ReqType /\ TopOf(w) = g /\ Solid(w)
    BY <1>4, <2>3, <2>4, <2>5, WithTopFacts, SolidWithTop
  <2>7. Alone(Move(w, "FAILED"))
    BY <1>4, <2>3, <2>6, AloneMove
  <2>8. QED
    BY <1>3, <1>4, <2>1, <2>2, <2>5, <2>7, SerialRead
<1>9. QED
  BY <1>7, <1>8

-----------------------------------------------------------------------------
(* Safety of a service that takes one call at a time and does not fail.    *)

LEMMA InitSerial == Init => SerialInv
<1> SUFFICES ASSUME Init PROVE SerialInv
  OBVIOUS
<1>1. Planned
  BY DEF Init, Planned, Live
<1>2. Alone(Idle)
  BY <1>1, AloneIdle
<1>3. \A s \in Step : steps[s].status # "RESOLVED"
  BY NoRowsFacts DEF Init, NoRows
<1>4. StepsLast /\ CompletedIsDone
  BY <1>3 DEF Init, StepsLast, CompletedIsDone
<1>5. \A r \in Request : req[r] = Idle
  BY DEF Init
<1>6. QED
  BY <1>2, <1>4, <1>5 DEF SerialInv

LEMMA NextSerial ==
  Serial /\ MaxFailures = 0 => (RunInv /\ SerialInv /\ [Next]_vars => SerialInv')
<1> SUFFICES ASSUME Serial, MaxFailures = 0, RunInv, SerialInv, [Next]_vars PROVE SerialInv'
  OBVIOUS
<1>1. CASE UNCHANGED vars
  <2>1. UNCHANGED <<task, steps, actions, req>>
    BY <1>1 DEF vars
  <2>2. ASSUME NEW r \in Request, OthersIdle(r)' PROVE Alone(req[r])'
    <3>1. PICK k : k = req[r]
      OBVIOUS
    <3>2. OthersIdle(r)
      BY <2>1, <2>2 DEF OthersIdle
    <3>3. Alone(k)'
      BY <2>1, <3>1, <3>2, FrozenAlone DEF SerialInv
    <3>4. req'[r] = k
      BY <2>1, <3>1
    <3>5. QED
      BY <3>3, <3>4 DEF Alone, SolidBelow, Solid, TopOf
  <2>3. \A r, s \in Request : req'[r] # Idle /\ req'[s] # Idle => r = s
    BY <2>1 DEF SerialInv
  <2>4. StepsLast' /\ CompletedIsDone'
    BY <2>1 DEF SerialInv, StepsLast, CompletedIsDone
  <2>5. QED
    BY <2>2, <2>3, <2>4 DEF SerialInv
<1>2. ASSUME NEW r \in Request, Arrive(r) PROVE SerialInv'
  <2>1. CASE StartTask(r) \/ CancelTask(r)
    BY <2>1, ChangeTaskSerial DEF StartTask, CancelTask
  <2>2. CASE Nudge(r) \/ Sweep(r)
    BY <2>2, NudgeSerial, SweepSerial
  <2>3. CASE AckStep(r) \/ ResolveStep(r) \/ FailStep(r)
    BY <2>3, OnStepSerial DEF AckStep, ResolveStep, FailStep
  <2>4. CASE AckAction(r) \/ ResolveAction(r)
    BY <2>4, OnActionSerial DEF AckAction, ResolveAction
  <2>5. QED
    BY <1>2, <2>1, <2>2, <2>3, <2>4 DEF Arrive
<1>3. ASSUME NEW r \in Request, Proceed(r) PROVE SerialInv'
  BY <1>3, SaveTaskSerial, PlanStepsSerial, CreateStepSerial, ReadTaskSerial, ReadStepsSerial,
     LoopSerial, CompleteSerial, GetActionSerial, CreateActionSerial, ReadActionSerial,
     SaveActionSerial, SaveStepSerial, RunAgentSerial, NotifySerial, EscalateSerial,
     SweepNextSerial
  DEF Proceed
<1>4. ~ (failures < MaxFailures)
  BY CapAssumption DEF RunInv, TypeOK
<1>5. QED
  BY <1>1, <1>2, <1>3, <1>4 DEF Next, Fails, Crash

(* Only the statements that store the task can change its status.          *)
LEMMA TerminalStays ==
  ASSUME RunInv, SerialInv, [Next]_vars, TaskMoves[task] = {}
  PROVE  task' = task
<1>1. ASSUME NEW r \in Request, SaveTask(r) PROVE FALSE
  <2>1. req[r].pc = "task.save"
    BY <1>1 DEF SaveTask, At
  <2>2. Alone(req[r])
    BY <2>1, Busy
  <2>3. QED
    BY <2>1, <2>2 DEF Alone
<1>2. ASSUME NEW r \in Request, Complete(r) PROVE task' = task
  <2>1. Live /\ task' = "COMPLETED"
    BY <1>2, CompleteSerial DEF Complete
  <2>2. task # "RUNNING"
    BY DEF TaskMoves
  <2>3. QED
    BY <2>1, <2>2 DEF Live
<1>3. ASSUME NEW r \in Request, Arrive(r) PROVE task' = task
  BY <1>3 DEF Arrive, StartTask, CancelTask, ChangeTask, Nudge, Sweep, AckStep, ResolveStep,
              FailStep, OnStep, AckAction, ResolveAction, OnAction, rows
<1>4. ASSUME NEW r \in Request, Proceed(r), ~ SaveTask(r), ~ Complete(r) PROVE task' = task
  BY <1>4 DEF Proceed, PlanSteps, CreateStep, ReadTask, ReadSteps, Loop, GetAction, CreateAction,
              ReadAction, SaveAction, SaveStep, RunAgent, Notify, Escalate, SweepNext, rows
<1>5. CASE UNCHANGED vars
  BY <1>5 DEF vars
<1>6. ASSUME NEW r \in Request, Fails(r) PROVE task' = task
  BY <1>6 DEF Fails, rows
<1>7. CASE Crash
  BY <1>7 DEF Crash, rows
<1>8. QED
  BY <1>1, <1>2, <1>3, <1>4, <1>5, <1>6, <1>7 DEF Next

LEMMA SerialSafety == Serial /\ MaxFailures = 0 => (Spec => [](RunInv /\ SerialInv))
<1> SUFFICES ASSUME Serial, MaxFailures = 0 PROVE Spec => [](RunInv /\ SerialInv)
  OBVIOUS
<1>1. Init => RunInv /\ SerialInv
  BY InitEstablishes, InitSerial
<1>2. (RunInv /\ SerialInv) /\ [Next]_vars => (RunInv /\ SerialInv)'
  BY NextKeeps, NextSerial
<1>3. QED
  BY <1>1, <1>2, PTL DEF Spec

(* One call at a time, each to its end: a task is completed only when each *)
(* step of its workflow is resolved, although AdvanceTask decides it on    *)
(* rows that were read before the calls inside it ran.                     *)
THEOREM CompletionMeansDone == Serial /\ MaxFailures = 0 => (Spec => []CompletedIsDone)
<1> SUFFICES ASSUME Serial, MaxFailures = 0 PROVE Spec => []CompletedIsDone
  OBVIOUS
<1>1. Spec => [](RunInv /\ SerialInv)
  BY SerialSafety
<1>2. RunInv /\ SerialInv => CompletedIsDone
  BY DEF SerialInv
<1>3. QED
  BY <1>1, <1>2, PTL

(* One call at a time, each to its end: a task never leaves a status that  *)
(* has no moves out of it, although its row is written back as it was read *)
(* before (CancelTask, AdvanceTask).                                       *)
THEOREM TerminalTasksStay == Serial /\ MaxFailures = 0 => (Spec => TerminalIsFinal)
<1> SUFFICES ASSUME Serial, MaxFailures = 0 PROVE Spec => TerminalIsFinal
  OBVIOUS
<1>1. Spec => [](RunInv /\ SerialInv)
  BY SerialSafety
<1>2. (RunInv /\ SerialInv) /\ [Next]_vars => [TaskMoves[task] = {} => task' = task]_task
  BY TerminalStays
<1>3. QED
  BY <1>1, <1>2, PTL DEF Spec, TerminalIsFinal

-----------------------------------------------------------------------------
(* One request at a time, and no failures: a step follows its action, and  *)
(* nothing that could be dispatched is left when the calls have returned.  *)
(* The copies on the stack are stale, and what makes that harmless is that *)
(* a call of AdvanceTask returns only when nothing is left to dispatch: a  *)
(* row that differs from its copy was then dealt with by a call inside.    *)

(* What StepFollowsAction says of one step; and between two statements no  *)
(* action waits to be dispatched.                                          *)
Follows(s) ==
  \/ actions[s] = NoRow /\ steps[s] \in {NoRow, New}
  \/ actions[s].retry = steps[s].retry /\
     \/ actions[s].status = steps[s].status
     \/ "action" \in Operation /\
        <<steps[s].status, actions[s].status>> \in
          {<<"DISPATCHED", "ACKED">>, <<"DISPATCHED", "RESOLVED">>, <<"ACKED", "RESOLVED">>}
InStep(s) == Follows(s) /\ actions[s].status # "CREATED"
AllInStep(X) == \A s \in Step \ X : InStep(s)

(* What NothingForgotten says of a running task.                           *)
Due(s) == Dispatchable(steps[s], s) /\ Ready(steps, s)
AtRest == task = "RUNNING" => (\A s \in Step : ~ Due(s)) /\ ~ AllDone

(* The loop of AdvanceTask still has before it whatever is due, with true  *)
(* copies of it, and would notice that everything is resolved.             *)
Covers(f, X) ==
  \A s \in Step \ X : Due(s) => s \in f.todo /\ f.rows[s] = steps[s] /\ Ready(f.rows, s)
Closing(f) == task = "RUNNING" /\ AllDone => AllResolved(f.rows)
Rested(f, X) == IF f.kind = "advance" THEN Covers(f, X) /\ Closing(f) ELSE AtRest

(* A sweep has true copies of the steps before it: the calls inside it do  *)
(* not touch a step that was dispatched.  It is the first call of a stack. *)
Late(f) ==
  f.kind = "sweep" =>
    \A s \in f.todo : f.rows[s] = steps[s] /\ steps[s].status \in {"DISPATCHED", "ACKED"}
Swept(q) ==
  \A i \in 1 .. Len(q.frames) : Late(q.frames[i]) /\ (q.frames[i].kind = "sweep" => i = 1)
Apart(q, s) ==
  \A i \in 1 .. Len(q.frames) : q.frames[i].kind = "sweep" => s \notin q.frames[i].todo

(* What a request knows of the step in hand, statement by statement.       *)
Picked(f, s) ==
  /\ f.kind = "advance"
  /\ Ready(steps, s)
  /\ Due(s) => f.rows[s] = steps[s]
  /\ Rested(f, {s})

Getting(f, s) == Picked(f, s) /\ AllInStep({s}) /\ Follows(s) /\ f.rows[s].status = "CREATED"

Creating(f, s) == Getting(f, s) /\ actions[s] = NoRow

Retrying(f, s) ==
  Picked(f, s) /\ AllInStep({}) /\ f.rows[s].status = "FAILED" /\ f.rows[s].retry < MaxRetries[s]

Confirming(q, f, s) ==
  /\ f.kind = "advance" /\ Ready(steps, s)
  /\ f.rows[s].status = "CREATED" /\ f.rows[s].retry = actions[s].retry
  /\ actions[s].status = "DISPATCHING"
  /\ AllInStep({s}) /\ Covers(f, {s}) /\ Apart(q, s)

Settling(q, f, s) ==
  /\ AllInStep({}) /\ Rested(f, {})
  /\ IF f.kind = "direct" THEN q.to # "FAILED" /\ "action" \in Operation
     ELSE f.rows[s] = steps[s] /\ Apart(q, s)

Reading(q, f, s) ==
  /\ q.to = "DISPATCHING" => Getting(f, s) /\ actions[s] # NoRow
  /\ q.to = "CREATED" => Retrying(f, s)
  /\ q.to = "DISPATCHED" => Confirming(q, f, s)
  /\ q.to \notin {"DISPATCHING", "CREATED", "DISPATCHED"} => Settling(q, f, s)

Advancing == {"CREATED", "DISPATCHING", "DISPATCHED"}
Saving(q, f, s) ==
  /\ q.act = Became(actions[s], q.to) /\ MayBecome(actions[s], s, q.to)
  /\ AllInStep({s})
  /\ f.kind = "direct" =>
       /\ InStep(s) /\ AtRest
       /\ "action" \in Operation /\ q.to \in {"ACKED", "RESOLVED"}
  /\ f.kind # "direct" => f.rows[s].retry = actions[s].retry /\ Apart(q, s)
  /\ q.to \in Advancing =>
       f.kind = "advance" /\ Ready(steps, s) /\ Covers(f, {s}) /\ f.rows[s].status # "RESOLVED"
  /\ q.to = "DISPATCHING" => f.rows[s].status = "CREATED"

Storing(q, f, s) ==
  /\ AllInStep({s}) /\ Apart(q, s)
  /\ f.rows[s] = actions[s] /\ q.to # "DISPATCHING"
  /\ q.to \in Advancing => f.kind = "advance" /\ Ready(steps, s) /\ Covers(f, {s})

Running(q, f, s) ==
  /\ AllInStep({}) /\ Apart(q, s)
  /\ f.kind = "advance" /\ Covers(f, {})
  /\ f.rows[s] = steps[s] /\ steps[s].status = "DISPATCHED"

OnHand == {"action.get", "action.create"} \cup Moving
Kept(q) ==
  /\ Swept(q)
  /\ q.pc \notin OnHand => AllInStep({})
  /\ q.pc = "idle" => AtRest
  /\ q.pc = "loop" => Rested(TopOf(q), {})
  /\ q.pc = "action.get" => Getting(TopOf(q), TopOf(q).cur)
  /\ q.pc = "action.create" => Creating(TopOf(q), TopOf(q).cur)
  /\ q.pc = "action.read" => Reading(q, TopOf(q), TopOf(q).cur)
  /\ q.pc = "action.save" => Saving(q, TopOf(q), TopOf(q).cur)
  /\ q.pc = "step.save" => Storing(q, TopOf(q), TopOf(q).cur)
  /\ q.pc \in {"run", "note"} => Running(q, TopOf(q), TopOf(q).cur)

FollowInv == \A r \in Request : OthersIdle(r) => Kept(req[r])

(* Nothing of this changes with the other variables.                       *)
LEMMA FrozenRows ==
  ASSUME UNCHANGED <<task, steps, actions>>
  PROVE  /\ \A s : (Follows(s)' <=> Follows(s)) /\ (InStep(s)' <=> InStep(s)) /\ (Due(s)' <=> Due(s))
         /\ \A X : AllInStep(X)' <=> AllInStep(X)
         /\ AtRest' <=> AtRest
         /\ \A f, X : (Covers(f, X)' <=> Covers(f, X)) /\ (Rested(f, X)' <=> Rested(f, X))
         /\ \A f : Late(f)' <=> Late(f)
         /\ \A q : Swept(q)' <=> Swept(q)
         /\ \A s : Ready(steps, s)' <=> Ready(steps, s)
<1>1. \A s : (Follows(s)' <=> Follows(s)) /\ (InStep(s)' <=> InStep(s))
  BY DEF Follows, InStep
<1>2. \A s : (Due(s)' <=> Due(s)) /\ (Ready(steps, s)' <=> Ready(steps, s))
  BY DEF Due, Ready, Dispatchable
<1>3. \A X : AllInStep(X)' <=> AllInStep(X)
  BY <1>1 DEF AllInStep
<1>4. AllDone' <=> AllDone
  BY DEF AllDone
<1>5. AtRest' <=> AtRest
  BY <1>2, <1>4 DEF AtRest
<1>6. \A f, X : Covers(f, X)' <=> Covers(f, X)
  BY <1>2 DEF Covers
<1>7. \A f : Closing(f)' <=> Closing(f)
  BY <1>4 DEF Closing
<1>8. \A f, X : Rested(f, X)' <=> Rested(f, X)
  BY <1>5, <1>6, <1>7 DEF Rested
<1>9. \A f : Late(f)' <=> Late(f)
  BY DEF Late
<1>10. \A q : Swept(q)' <=> Swept(q)
  BY <1>9 DEF Swept
<1>11. QED
  BY <1>1, <1>2, <1>3, <1>5, <1>6, <1>8, <1>9, <1>10

LEMMA FrozenHand ==
  ASSUME UNCHANGED <<task, steps, actions>>, NEW q, NEW f, NEW s
  PROVE  /\ Getting(f, s)' <=> Getting(f, s)
         /\ Creating(f, s)' <=> Creating(f, s)
         /\ Reading(q, f, s)' <=> Reading(q, f, s)
         /\ Saving(q, f, s)' <=> Saving(q, f, s)
         /\ Storing(q, f, s)' <=> Storing(q, f, s)
         /\ Running(q, f, s)' <=> Running(q, f, s)
<1>1. Picked(f, s)' <=> Picked(f, s)
  BY FrozenRows DEF Picked
<1>2. (Getting(f, s)' <=> Getting(f, s)) /\ (Creating(f, s)' <=> Creating(f, s))
  BY <1>1, FrozenRows DEF Getting, Creating
<1>3. Retrying(f, s)' <=> Retrying(f, s)
  BY <1>1, FrozenRows DEF Retrying
<1>4. Apart(q, s)' <=> Apart(q, s)
  BY DEF Apart
<1>5. Confirming(q, f, s)' <=> Confirming(q, f, s)
  BY <1>4, FrozenRows DEF Confirming
<1>6. Settling(q, f, s)' <=> Settling(q, f, s)
  BY <1>4, FrozenRows DEF Settling
<1>7. Reading(q, f, s)' <=> Reading(q, f, s)
  BY <1>2, <1>3, <1>5, <1>6 DEF Reading
<1>8. Saving(q, f, s)' <=> Saving(q, f, s)
  BY <1>4, FrozenRows DEF Saving
<1>9. (Storing(q, f, s)' <=> Storing(q, f, s)) /\ (Running(q, f, s)' <=> Running(q, f, s))
  BY <1>4, FrozenRows DEF Storing, Running
<1>10. QED
  BY <1>2, <1>7, <1>8, <1>9

LEMMA FrozenKept ==
  ASSUME UNCHANGED <<task, steps, actions>>, NEW q
  PROVE  Kept(q)' <=> Kept(q)
<1>1. PICK f : f = TopOf(q)
  OBVIOUS
<1>2. PICK s : s = f.cur
  OBVIOUS
<1>3. TopOf(q)' = f /\ TopOf(q)'.cur = s
  BY <1>1, <1>2 DEF TopOf
<1>4. Kept(q) <=>
        /\ Swept(q)
        /\ q.pc \notin OnHand => AllInStep({})
        /\ q.pc = "idle" => AtRest
        /\ q.pc = "loop" => Rested(f, {})
        /\ q.pc = "action.get" => Getting(f, s)
        /\ q.pc = "action.create" => Creating(f, s)
        /\ q.pc = "action.read" => Reading(q, f, s)
        /\ q.pc = "action.save" => Saving(q, f, s)
        /\ q.pc = "step.save" => Storing(q, f, s)
        /\ q.pc \in {"run", "note"} => Running(q, f, s)
  BY <1>1, <1>2 DEF Kept
<1>5. QED
  BY <1>1, <1>2, <1>4, FrozenRows, FrozenHand DEF Kept, TopOf

LEMMA KeptThere ==
  ASSUME NEW r \in Request, NEW q, req'[r] = q, Kept(q)'
  PROVE  Kept(req[r])'
BY DEF Kept, Swept, TopOf, Reading, Saving, Storing, Running, Settling, Confirming, Apart

(* The request at work goes on to q; the others are idle.                  *)
LEMMA FollowStep ==
  ASSUME RunInv, NEW r \in Request, OthersIdle(r), NEW q, Goto(r, q), Kept(q)'
  PROVE  FollowInv'
<1>1. req'[r] = q /\ \A i \in Request : i # r => req'[i] = Idle
  BY DEF Goto, RunInv, TypeOK, OthersIdle
<1>2. ASSUME NEW i \in Request, OthersIdle(i)' PROVE Kept(req[i])'
  <2>1. req'[i] = q
    BY <1>1, <1>2 DEF OthersIdle
  <2>2. QED
    BY <2>1, KeptThere
<1>3. QED
  BY <1>2 DEF FollowInv

LEMMA FollowRead ==
  ASSUME RunInv, NEW r \in Request, OthersIdle(r), NEW q, Goto(r, q), Kept(q),
         UNCHANGED <<task, steps, actions>>
  PROVE  FollowInv'
BY FrozenKept, FollowStep

(* The constructors once more.                                             *)
LEMMA KeptIdle ==
  ASSUME AllInStep({}), AtRest
  PROVE  Kept(Idle)
<1>1. Swept(Idle)
  BY IdleFacts DEF Swept
<1>2. QED
  BY <1>1, IdleFacts DEF Kept

LEMMA KeptAdvance ==
  ASSUME NEW q \in ReqType, Swept(q), AllInStep({})
  PROVE  Kept(Advance(q))
<1> DEFINE f == Frame("advance", NoRows, {})
           g == Append(q.frames, f)
<1>1. f \in FrameType /\ f.kind = "advance"
  BY FrameFacts, NoRowsFacts
<1>2. q.frames \in Seq(FrameType) /\ Len(q.frames) \in Nat
  BY LenProperties DEF ReqType
<1>3. Advance(q).frames = g /\ Advance(q).pc = "advance.task"
  BY DEF Advance, ReqType
<1> HIDE DEF f
<1>4. /\ Len(g) = Len(q.frames) + 1 /\ \A i \in 1 .. Len(q.frames) : g[i] = q.frames[i]
      /\ g[Len(q.frames) + 1] = f
  BY <1>1, <1>2, AppendProperties
<1> HIDE DEF g
<1>5. Late(f)
  BY <1>1 DEF Late
<1>6. \A i \in 1 .. Len(g) : Late(g[i]) /\ (g[i].kind = "sweep" => i = 1)
  BY <1>1, <1>2, <1>4, <1>5 DEF Swept
<1>7. Swept(Advance(q))
  BY <1>3, <1>6 DEF Swept
<1>8. QED
  BY <1>3, <1>7 DEF Kept

LEMMA KeptLoop ==
  ASSUME NEW g, \A i \in 1 .. Len(g) : Late(g[i]) /\ (g[i].kind = "sweep" => i = 1),
         AllInStep({}), Rested(g[Len(g)], {}),
         NEW q, q = [Idle EXCEPT !.pc = "loop", !.frames = g]
  PROVE  Kept(q)
<1>1. q.pc = "loop" /\ q.frames = g
  BY DEF Idle
<1>2. Swept(q) /\ TopOf(q) = g[Len(g)]
  BY <1>1 DEF Swept, TopOf
<1>3. QED
  BY <1>1, <1>2 DEF Kept

LEMMA KeptGiveUp ==
  ASSUME NEW q \in ReqType, q.frames # <<>>, Swept(q), AllInStep({}), Rested(TopOf(q), {})
  PROVE  Kept(GiveUp(q))
<1>1. PICK p : p = [Idle EXCEPT !.pc = "loop", !.frames = q.frames]
  OBVIOUS
<1>2. Kept(p)
  BY <1>1, KeptLoop DEF Swept, TopOf
<1>3. CASE TopOf(q).kind \in {"advance", "sweep"}
  BY <1>1, <1>2, <1>3 DEF GiveUp, TopOf
<1>4. CASE TopOf(q).kind \notin {"advance", "sweep"}
  <2>1. GiveUp(q) = Idle
    BY <1>4 DEF GiveUp, TopOf
  <2>2. AtRest
    BY <1>4 DEF Rested
  <2>3. QED
    BY <2>1, <2>2, KeptIdle
<1>5. QED
  BY <1>3, <1>4

(* A call that returns leaves nothing due, so the loop that made it need   *)
(* not mind that its copies are old.                                       *)
LEMMA RestedBelow ==
  ASSUME AtRest, CompletedIsDone, NEW f, SolidFrame(f)
  PROVE  Rested(f, {})
<1>1. CASE f.kind # "advance"
  BY <1>1 DEF Rested
<1>2. CASE f.kind = "advance"
  <2>1. task \in {"RUNNING", "COMPLETED"}
    BY <1>2 DEF SolidFrame, HasRead, Live
  <2>2. \A s \in Step : ~ Due(s)
    <3>1. CASE task = "RUNNING"
      BY <3>1 DEF AtRest
    <3>2. CASE task = "COMPLETED"
      BY <3>2 DEF CompletedIsDone, Due, Dispatchable
    <3>3. QED
      BY <2>1, <3>1, <3>2
  <2>3. Covers(f, {}) /\ Closing(f)
    BY <2>2 DEF Covers, Closing, AtRest
  <2>4. QED
    BY <1>2, <2>3 DEF Rested
<1>3. QED
  BY <1>1, <1>2

LEMMA KeptReturn ==
  ASSUME NEW q \in ReqType, Swept(q), SolidBelow(q), AllInStep({}), AtRest, CompletedIsDone
  PROVE  Kept(Return(q))
<1>1. CASE Len(q.frames) <= 1 \/ q.frames[Len(q.frames) - 1].kind = "call"
  BY <1>1, KeptIdle DEF Return
<1>2. CASE ~ (Len(q.frames) <= 1 \/ q.frames[Len(q.frames) - 1].kind = "call")
  <2> DEFINE n == Len(q.frames)
             g == SubSeq(q.frames, 1, n - 1)
  <2>1. q.frames \in Seq(FrameType) /\ n \in Nat /\ n >= 2
    BY <1>2, LenProperties DEF ReqType
  <2>2. \A i \in 1 .. n : q.frames[i] \in FrameType
    BY <2>1, ElementOfSeq
  <2>3. 1 \in Int /\ n - 1 \in Int /\ \A i \in 1 .. (n - 1) : q.frames[i] \in FrameType
    BY <2>1, <2>2
  <2>4. /\ Len(g) = IF 1 <= n - 1 THEN (n - 1) - 1 + 1 ELSE 0
        /\ \A i \in 1 .. ((n - 1) - 1 + 1) : g[i] = q.frames[1 + i - 1]
    BY <2>3, SubSeqProperties
  <2>5. Len(g) = n - 1 /\ \A i \in 1 .. Len(g) : g[i] = q.frames[i] /\ i \in 1 .. n - 1 /\ i \in 1 .. n
    BY <2>1, <2>4
  <2>6. PICK p : p = [Idle EXCEPT !.pc = "loop", !.frames = g]
    OBVIOUS
  <2>7. Return(q) = p
    BY <1>2, <2>6 DEF Return, Below
  <2>8. n - 1 \in 1 .. n - 1
    BY <2>1
  <2> HIDE DEF g
  <2>9. \A i \in 1 .. Len(g) : Late(g[i]) /\ (g[i].kind = "sweep" => i = 1)
    BY <2>5 DEF Swept
  <2>10. g[Len(g)] = q.frames[n - 1]
    BY <2>5, <2>8
  <2>11. SolidFrame(q.frames[n - 1])
    BY <2>8 DEF SolidBelow
  <2>12. Rested(g[Len(g)], {})
    BY <2>10, <2>11, RestedBelow
  <2>13. Kept(p)
    BY <2>6, <2>9, <2>12, KeptLoop
  <2>14. QED
    BY <2>7, <2>13
<1>3. QED
  BY <1>1, <1>2

LEMMA SweptWithTop ==
  ASSUME NEW q \in ReqType, q.frames # <<>>, NEW f \in FrameType, NEW s
  PROVE  /\ Swept(q) /\ Late(f) /\ (f.kind = "sweep" => TopOf(q).kind = "sweep") =>
              Swept(WithTop(q, f))
         /\ Apart(q, s) /\ (f.kind = "sweep" => s \notin f.todo) => Apart(WithTop(q, f), s)
<1> DEFINE n == Len(q.frames)
           g == [q.frames EXCEPT ![n] = f]
<1>1. q.frames \in Seq(FrameType) /\ n \in Nat \ {0} /\ n \in 1 .. n
  BY TopFacts
<1>2. Len(g) = n /\ \A j \in 1 .. n : g[j] = IF j = n THEN f ELSE q.frames[j]
  BY <1>1, ExceptSeq
<1>3. WithTop(q, f).frames = g
  BY DEF WithTop, ReqType
<1> HIDE DEF g
<1>4. Swept(q) /\ Late(f) /\ (f.kind = "sweep" => TopOf(q).kind = "sweep") =>
        \A j \in 1 .. Len(g) : Late(g[j]) /\ (g[j].kind = "sweep" => j = 1)
  BY <1>1, <1>2 DEF Swept, TopOf
<1>5. Apart(q, s) /\ (f.kind = "sweep" => s \notin f.todo) =>
        \A j \in 1 .. Len(g) : g[j].kind = "sweep" => s \notin g[j].todo
  BY <1>2 DEF Apart
<1>6. QED
  BY <1>3, <1>4, <1>5 DEF Swept, Apart

LEMMA KeptMove ==
  ASSUME NEW q \in ReqType, Swept(q), NEW to, NEW p, p = Move(q, to),
         NEW f, f = TopOf(q), Reading(p, f, f.cur)
  PROVE  Kept(p)
<1>1. p.pc = "action.read" /\ p.frames = q.frames
  BY DEF Move, ReqType
<1>2. Swept(p) /\ TopOf(p) = f
  BY <1>1 DEF Swept, TopOf
<1>3. QED
  BY <1>1, <1>2 DEF Kept, OnHand, Moving

(* The same of the state after a step.                                     *)
LEMMA KeptLater ==
  ( /\ AllInStep({}) /\ AtRest => Kept(Idle)
    /\ \A q \in ReqType : Swept(q) /\ AllInStep({}) => Kept(Advance(q))
    /\ \A q \in ReqType :
         Swept(q) /\ SolidBelow(q) /\ AllInStep({}) /\ AtRest /\ CompletedIsDone => Kept(Return(q))
    /\ \A q \in ReqType : \A to, p, f :
         Swept(q) /\ p = Move(q, to) /\ f = TopOf(q) /\ Reading(p, f, f.cur) => Kept(p) )'
<1>1. AllInStep({}) /\ AtRest => Kept(Idle)
  BY KeptIdle
<1>2. \A q \in ReqType : Swept(q) /\ AllInStep({}) => Kept(Advance(q))
  BY KeptAdvance
<1>3. \A q \in ReqType :
        Swept(q) /\ SolidBelow(q) /\ AllInStep({}) /\ AtRest /\ CompletedIsDone => Kept(Return(q))
  BY KeptReturn
<1>4. \A q \in ReqType : \A to, p, f :
        Swept(q) /\ p = Move(q, to) /\ f = TopOf(q) /\ Reading(p, f, f.cur) => Kept(p)
  BY KeptMove
<1>5. QED
  BY <1>1, <1>2, <1>3, <1>4, PTL

(* What the request at work may rely on.                                   *)
LEMMA KeptFacts ==
  ASSUME RunInv, SerialInv, FollowInv, NEW r \in Request, NEW q, q = req[r], q.pc # "idle"
  PROVE  /\ OthersIdle(r) /\ q \in ReqType /\ Kept(q) /\ Swept(q)
         /\ q.pc \notin OnHand => AllInStep({})
<1>1. OthersIdle(r) /\ q \in ReqType
  BY AloneFacts
<1>2. Kept(q)
  BY <1>1 DEF FollowInv
<1>3. QED
  BY <1>1, <1>2 DEF Kept

LEMMA KeptArrives ==
  ASSUME SerialInv, FollowInv, Serial, NEW r \in Request, NEW op, Begin(r, op)
  PROVE  OthersIdle(r) /\ Planned /\ AllInStep({}) /\ AtRest
<1>1. OthersIdle(r) /\ Planned /\ req[r] = Idle
  BY Arrives DEF Begin
<1>2. Kept(Idle)
  BY <1>1 DEF FollowInv
<1>3. QED
  BY <1>1, <1>2, IdleFacts DEF Kept, OnHand, Moving

LEMMA FollowArrive ==
  ASSUME RunInv, SerialInv, FollowInv, Serial, NEW r \in Request, NEW op, NEW q, Begin(r, op),
         Goto(r, q), Kept(q), UNCHANGED <<rows, failures, resolved>>
  PROVE  FollowInv'
<1>1. OthersIdle(r)
  BY KeptArrives
<1>2. UNCHANGED <<task, steps, actions>>
  BY DEF rows
<1>3. QED
  BY <1>1, <1>2, FollowRead

(* Requests that arrive.                                                   *)
LEMMA ChangeTaskFollow ==
  ASSUME RunInv, SerialInv, FollowInv, Serial, NEW r \in Request, NEW op, NEW to,
         ChangeTask(r, op, to)
  PROVE  FollowInv'
<1>1. PICK q : q = [Idle EXCEPT !.pc = "task.save", !.to = to]
  OBVIOUS
<1>2. q.pc = "task.save" /\ q.frames = <<>> /\ Len(q.frames) = 0
  BY <1>1 DEF Idle
<1>3. AllInStep({})
  BY KeptArrives DEF ChangeTask
<1>4. Swept(q)
  BY <1>2 DEF Swept
<1>5. Kept(q)
  BY <1>2, <1>3, <1>4 DEF Kept
<1>6. QED
  BY <1>1, <1>5, FollowArrive DEF ChangeTask

LEMMA NudgeFollow ==
  ASSUME RunInv, SerialInv, FollowInv, Serial, NEW r \in Request, Nudge(r)
  PROVE  FollowInv'
<1>1. AllInStep({})
  BY KeptArrives DEF Nudge
<1>2. Swept(Idle)
  BY IdleFacts DEF Swept
<1>3. Kept(Advance(Idle))
  BY <1>1, <1>2, IdleFacts, KeptAdvance
<1>4. QED
  BY <1>3, FollowArrive DEF Nudge

LEMMA SweepFollow ==
  ASSUME RunInv, SerialInv, FollowInv, Serial, NEW r \in Request, Sweep(r)
  PROVE  FollowInv'
<1>1. PICK late \in (SUBSET {s \in Timed : steps[s].status \in {"DISPATCHED", "ACKED"}}) \ {{}} :
        Goto(r, [Idle EXCEPT !.pc = "loop", !.frames =
          <<Frame("sweep", [s \in Step |-> IF s \in late THEN steps[s] ELSE NoRow], late)>>])
  BY DEF Sweep
<1>2. PICK table : table = [s \in Step |-> IF s \in late THEN steps[s] ELSE NoRow]
  OBVIOUS
<1>3. PICK f : f = Frame("sweep", table, late)
  OBVIOUS
<1>4. PICK g : g = <<f>>
  OBVIOUS
<1>5. PICK q : q = [Idle EXCEPT !.pc = "loop", !.frames = g]
  OBVIOUS
<1>6. AllInStep({}) /\ AtRest
  BY KeptArrives DEF Sweep
<1>7. f.kind = "sweep" /\ f.rows = table /\ f.todo = late
  BY <1>3 DEF Frame
<1>8. \A s \in late : s \in Step /\ steps[s].status \in {"DISPATCHED", "ACKED"}
  BY SubsetAssumption
<1>9. Late(f) /\ Rested(f, {})
  BY <1>2, <1>6, <1>7, <1>8 DEF Late, Rested
<1>10. Len(g) = 1 /\ g[1] = f /\ g[Len(g)] = f
  BY <1>4
<1>11. \A i \in 1 .. Len(g) : Late(g[i]) /\ (g[i].kind = "sweep" => i = 1)
  BY <1>9, <1>10
<1>12. Kept(q)
  BY <1>5, <1>6, <1>9, <1>10, <1>11, KeptLoop
<1>13. QED
  BY <1>1, <1>2, <1>3, <1>4, <1>5, <1>12, FollowArrive DEF Sweep

(* A handler with one frame that is not a sweep's.                         *)
LEMMA HandlerKept ==
  ASSUME AllInStep({}), AtRest, NEW f \in FrameType, f.kind \in {"call", "direct"}, NEW to,
         to \in {"ACKED", "RESOLVED", "FAILED"},
         f.kind = "direct" => to # "FAILED" /\ "action" \in Operation,
         f.kind = "call" => f.rows[f.cur] = steps[f.cur],
         NEW q, q = Move([Idle EXCEPT !.frames = <<f>>], to)
  PROVE  Kept(q)
<1>1. PICK p : p = [Idle EXCEPT !.frames = <<f>>]
  OBVIOUS
<1>2. p.frames = <<f>> /\ Len(p.frames) = 1 /\ p.frames[1] = f /\ TopOf(p) = f
  BY <1>1 DEF Idle, TopOf
<1>3. <<f>> \in Seq(FrameType)
  OBVIOUS
<1>4. p \in ReqType
  BY <1>1, <1>3, IdleFacts DEF ReqType
<1>5. Swept(p)
  BY <1>2 DEF Swept, Late
<1>6. q.frames = p.frames /\ q.to = to
  BY <1>1, <1>4 DEF Move, ReqType
<1>7. Apart(q, f.cur)
  BY <1>2, <1>6 DEF Apart
<1>8. Rested(f, {})
  BY DEF Rested
<1>9. Reading(q, f, f.cur)
  BY <1>6, <1>7, <1>8 DEF Reading, Settling
<1>10. QED
  BY <1>1, <1>2, <1>4, <1>5, <1>9, KeptMove

LEMMA OnStepFollow ==
  ASSUME RunInv, SerialInv, FollowInv, Serial, NEW r \in Request, NEW op, NEW s \in Step,
         NEW to \in {"ACKED", "RESOLVED", "FAILED"}, OnStep(r, op, s, to)
  PROVE  FollowInv'
<1>1. PICK table : table = [NoRows EXCEPT ![s] = steps[s]]
  OBVIOUS
<1>2. PICK f : f = [Frame("call", table, {}) EXCEPT !.cur = s]
  OBVIOUS
<1>3. PICK q : q = Move([Idle EXCEPT !.frames = <<f>>], to)
  OBVIOUS
<1>4. AllInStep({}) /\ AtRest
  BY KeptArrives DEF OnStep
<1>5. table \in [Step -> Row] /\ table[s] = steps[s]
  BY <1>1, NoRowsFacts, RowFacts
<1>6. f \in FrameType /\ f.kind = "call" /\ f.cur = s /\ f.rows = table
  BY <1>2, <1>5 DEF Frame, FrameType
<1>7. Kept(q)
  BY <1>3, <1>4, <1>5, <1>6, HandlerKept
<1>8. QED
  BY <1>1, <1>2, <1>3, <1>7, FollowArrive DEF OnStep

LEMMA OnActionFollow ==
  ASSUME RunInv, SerialInv, FollowInv, Serial, NEW r \in Request,
         NEW to \in {"ACKED", "RESOLVED"}, OnAction(r, to)
  PROVE  FollowInv'
<1>1. PICK s \in Step : Goto(r, Move([Idle EXCEPT !.frames =
        <<[Frame("direct", NoRows, {}) EXCEPT !.cur = s]>>], to))
  BY DEF OnAction
<1>2. PICK f : f = [Frame("direct", NoRows, {}) EXCEPT !.cur = s]
  OBVIOUS
<1>3. PICK q : q = Move([Idle EXCEPT !.frames = <<f>>], to)
  OBVIOUS
<1>4. AllInStep({}) /\ AtRest /\ "action" \in Operation
  BY KeptArrives DEF OnAction, Begin
<1>5. f \in FrameType /\ f.kind = "direct"
  BY <1>2, NoRowsFacts DEF Frame, FrameType
<1>6. Kept(q)
  BY <1>3, <1>4, <1>5, HandlerKept
<1>7. QED
  BY <1>1, <1>2, <1>3, <1>6, FollowArrive DEF OnAction

(* The task is stored, its steps are planned and created.                  *)
LEMMA SaveTaskFollow ==
  ASSUME RunInv, SerialInv, FollowInv, NEW r \in Request, SaveTask(r)
  PROVE  FollowInv'
<1>1. PICK f : f = req[r]
  OBVIOUS
<1>2. PICK p : p = [Idle EXCEPT !.pc = "plan"]
  OBVIOUS
<1>3. f.pc = "task.save" /\ task' = f.to /\ Goto(r, IF f.to = "RUNNING" THEN p ELSE Idle)
      /\ UNCHANGED <<steps, actions>>
  BY <1>1, <1>2 DEF SaveTask, At
<1>4. OthersIdle(r) /\ AllInStep({}) /\ f.to \in {"RUNNING", "CANCELLED"}
  BY <1>1, <1>3, KeptFacts, AloneFacts DEF OnHand, Moving, Knows
<1>5. AllInStep({})'
  BY <1>3, <1>4 DEF AllInStep, InStep, Follows
<1>6. CASE f.to = "RUNNING"
  <2>1. p.pc = "plan" /\ p.frames = <<>> /\ Len(p.frames) = 0
    BY <1>2 DEF Idle
  <2>2. Kept(p)'
    BY <1>5, <2>1 DEF Kept, Swept
  <2>3. QED
    BY <1>3, <1>4, <1>6, <2>2, FollowStep
<1>7. CASE f.to = "CANCELLED"
  <2>1. AtRest'
    BY <1>3, <1>7 DEF AtRest
  <2>2. Kept(Idle)'
    BY <1>5, <2>1, KeptLater
  <2>3. QED
    BY <1>3, <1>4, <1>7, <2>2, FollowStep
<1>8. QED
  BY <1>4, <1>6, <1>7

LEMMA PlanStepsFollow ==
  ASSUME RunInv, SerialInv, FollowInv, NEW r \in Request, PlanSteps(r)
  PROVE  FollowInv'
<1>1. PICK f : f = Frame("create", NoRows, Step)
  OBVIOUS
<1>2. PICK q : q = [Idle EXCEPT !.pc = "create", !.frames = <<f>>]
  OBVIOUS
<1>3. req[r].pc = "plan" /\ Goto(r, IF steps = NoRows THEN q ELSE Advance(Idle))
      /\ UNCHANGED <<task, steps, actions>>
  BY <1>1, <1>2 DEF PlanSteps, At, rows
<1>4. OthersIdle(r) /\ AllInStep({})
  BY <1>3, KeptFacts DEF OnHand, Moving
<1>5. q.pc = "create" /\ q.frames = <<f>> /\ Len(q.frames) = 1 /\ q.frames[1] = f
  BY <1>2 DEF Idle
<1>6. f.kind = "create"
  BY <1>1 DEF Frame
<1>7. Kept(q)
  BY <1>4, <1>5, <1>6 DEF Kept, Swept, Late
<1>8. Swept(Idle)
  BY IdleFacts DEF Swept
<1>9. Kept(Advance(Idle))
  BY <1>4, <1>8, IdleFacts, KeptAdvance
<1>10. QED
  BY <1>3, <1>4, <1>7, <1>9, FollowRead

LEMMA CreateStepFollow ==
  ASSUME RunInv, SerialInv, FollowInv, NEW r \in Request, CreateStep(r)
  PROVE  FollowInv'
<1>1. PICK f : f = req[r]
  OBVIOUS
<1>2. PICK t : t = TopOf(f)
  OBVIOUS
<1>3. PICK s : s = First(Top(r).todo)
  OBVIOUS
<1>4. PICK left : left = t.todo \ {s}
  OBVIOUS
<1>5. PICK g : g = [t EXCEPT !.todo = left]
  OBVIOUS
<1>6. PICK q : q = WithTop(f, g)
  OBVIOUS
<1>7. f.pc = "create" /\ steps' = [steps EXCEPT ![s] = IF @ = NoRow THEN New ELSE @]
      /\ Goto(r, IF left = {} THEN Advance(Idle) ELSE q)
      /\ UNCHANGED <<task, actions>>
  <2>1. Top(r) = t
    BY <1>1, <1>2 DEF Top, TopOf
  <2>2. QED
    BY <2>1, <1>1, <1>3, <1>4, <1>5, <1>6, Zenon DEF CreateStep, At
<1>8. OthersIdle(r) /\ f \in ReqType /\ Swept(f) /\ AllInStep({})
  BY <1>1, <1>7, KeptFacts DEF OnHand, Moving
<1>9. Alone(f) /\ f.frames # <<>>
  BY <1>1, <1>7, AloneFacts DEF Knows, OnStack
<1>10. t \in FrameType /\ Len(f.frames) = 1 /\ t.kind = "create"
  BY <1>2, <1>7, <1>8, <1>9, TopFacts DEF Alone
<1>11. AllInStep({})'
  <2>1. ASSUME NEW x \in Step PROVE InStep(x)'
    <3>1. InStep(x)
      BY <1>8 DEF AllInStep
    <3>2. steps'[x] = steps[x] \/ (steps[x] = NoRow /\ steps'[x] = New)
      BY <1>7, RowFacts
    <3>3. actions[x] \in Row /\ actions'[x] = actions[x]
      BY <1>7, RowFacts
    <3>4. steps[x] = NoRow => actions[x] = NoRow
      BY <3>1, <3>3 DEF InStep, Follows, NoRow, Row
    <3>5. QED
      BY <3>1, <3>2, <3>3, <3>4 DEF InStep, Follows
  <2>2. QED
    BY <2>1 DEF AllInStep
<1>12. CASE left = {}
  <2>1. Swept(Idle)'
    BY IdleFacts DEF Swept
  <2>2. Kept(Advance(Idle))'
    BY <1>11, <2>1, IdleFacts, KeptLater
  <2>3. QED
    BY <1>7, <1>8, <1>12, <2>2, FollowStep
<1>13. CASE left # {}
  <2>1. g \in FrameType /\ g.kind = "create"
    BY <1>4, <1>5, <1>10 DEF FrameType
  <2>2. q.pc = "create"
    BY <1>6, <1>7, <1>8, <1>9, <2>1, WithTopFacts
  <2>3. Len(q.frames) = 1 /\ q.frames[1] = g
    <3>1. f.frames \in Seq(FrameType) /\ Len(f.frames) \in 1 .. Len(f.frames)
      BY <1>8, <1>10 DEF ReqType
    <3>2. q.frames = [f.frames EXCEPT ![Len(f.frames)] = g]
      BY <1>6, <1>8 DEF WithTop, ReqType
    <3>3. QED
      BY <1>10, <2>1, <3>1, <3>2, ExceptSeq
  <2>4. Swept(q)'
    BY <2>1, <2>3 DEF Swept, Late
  <2>5. Kept(q)'
    BY <1>11, <2>2, <2>4 DEF Kept
  <2>6. QED
    BY <1>7, <1>8, <1>13, <2>5, FollowStep
<1>14. QED
  BY <1>12, <1>13

-----------------------------------------------------------------------------
(* The loop of AdvanceTask.                                                *)

LEMMA ReadTaskFollow ==
  ASSUME RunInv, SerialInv, FollowInv, NEW r \in Request, ReadTask(r)
  PROVE  FollowInv'
<1>1. PICK f : f = req[r]
  OBVIOUS
<1>2. PICK q : q = [f EXCEPT !.pc = "advance.steps"]
  OBVIOUS
<1>3. f.pc = "advance.task" /\ Goto(r, IF task = "RUNNING" THEN q ELSE Return(f))
      /\ UNCHANGED <<task, steps, actions>>
  BY <1>1, <1>2 DEF ReadTask, At, rows
<1>4. OthersIdle(r) /\ f \in ReqType /\ Swept(f) /\ AllInStep({}) /\ SolidBelow(f)
  BY <1>1, <1>3, KeptFacts, AloneFacts DEF OnHand, Moving
<1>5. q.pc = "advance.steps" /\ q.frames = f.frames
  BY <1>2, <1>4 DEF ReqType
<1>6. Kept(q)
  BY <1>4, <1>5 DEF Kept, Swept
<1>7. task # "RUNNING" => Kept(Return(f))
  BY <1>4, KeptReturn DEF AtRest, SerialInv
<1>8. QED
  BY <1>3, <1>4, <1>6, <1>7, FollowRead

LEMMA ReadStepsFollow ==
  ASSUME RunInv, SerialInv, FollowInv, NEW r \in Request, ReadSteps(r)
  PROVE  FollowInv'
<1>1. PICK f : f = req[r]
  OBVIOUS
<1>2. PICK g : g = Frame("advance", steps, {s \in Step : steps[s] # NoRow})
  OBVIOUS
<1>3. PICK p : p = WithTop(f, g)
  OBVIOUS
<1>4. PICK q : q = [p EXCEPT !.pc = "loop"]
  OBVIOUS
<1>5. f.pc = "advance.steps" /\ Goto(r, q) /\ UNCHANGED <<task, steps, actions>>
  BY <1>1, <1>2, <1>3, <1>4 DEF ReadSteps, At, rows
<1>6. OthersIdle(r) /\ f \in ReqType /\ Swept(f) /\ AllInStep({}) /\ f.frames # <<>>
  BY <1>1, <1>5, KeptFacts, AloneFacts DEF OnHand, Moving, Knows, OnStack
<1>7. g \in FrameType /\ g.rows = steps /\ g.kind = "advance" /\ g.todo = {s \in Step : steps[s] # NoRow}
  <2>1. g.todo = {s \in Step : steps[s] # NoRow}
    BY <1>2 DEF Frame
  <2>2. QED
    BY <1>2, <2>1, FrameFacts, RowFacts
<1>8. Rested(g, {})
  <2>1. Covers(g, {})
    BY <1>7, NoRowsFacts DEF Covers, Due, Dispatchable
  <2>2. Closing(g)
    BY <1>7 DEF Closing, AllDone, AllResolved
  <2>3. QED
    BY <1>7, <2>1, <2>2 DEF Rested
<1>9. p \in ReqType /\ TopOf(p) = g /\ Swept(p)
  <2>1. Late(g)
    BY <1>7 DEF Late
  <2>2. QED
    BY <1>3, <1>6, <1>7, <2>1, WithTopFacts, SweptWithTop
<1>10. q.pc = "loop" /\ q.frames = p.frames
  BY <1>4, <1>9 DEF ReqType
<1>11. Swept(q) /\ TopOf(q) = g
  BY <1>9, <1>10 DEF Swept, TopOf
<1>12. Kept(q)
  BY <1>6, <1>8, <1>10, <1>11 DEF Kept
<1>13. QED
  BY <1>5, <1>6, <1>12, FollowRead

DueIn(f) == {s \in f.todo : Dispatchable(f.rows[s], s) /\ Ready(f.rows, s)}
Picking(f, s) == [f EXCEPT !.cur = s, !.todo = {t \in @ : Position[t] > Position[s]}]

(* What the loop picks is the first that is due, the others come later.    *)
LEMMA LoopPicks ==
  ASSUME RunInv, NEW f \in FrameType, f.kind = "advance", Rested(f, {}), SolidFrame(f),
         DueIn(f) # {}, NEW s, s = First(DueIn(f)), NEW g, g = Picking(f, s)
  PROVE  /\ s \in Step /\ g \in FrameType /\ g.kind = "advance" /\ g.cur = s /\ g.rows = f.rows
         /\ Dispatchable(f.rows[s], s) /\ Picked(g, s)
<1>1. PICK due : due = DueIn(f)
  OBVIOUS
<1>2. due = {x \in f.todo : Dispatchable(f.rows[x], x) /\ Ready(f.rows, x)}
  BY <1>1 DEF DueIn
<1>3. PICK later : later = {t \in f.todo : Position[t] > Position[s]}
  OBVIOUS
<1>4. g = [f EXCEPT !.cur = s, !.todo = later]
  BY <1>3, Zenon DEF Picking
<1>5. f.todo \in SUBSET Step
  BY DEF FrameType
<1>6. due \in SUBSET Step
  BY <1>5, <1>2
<1>7. s \in due /\ \A t \in due : Position[s] <= Position[t]
  BY <1>6, <1>1, FirstFacts
<1>8. s \in Step /\ Dispatchable(f.rows[s], s) /\ Ready(f.rows, s)
  BY <1>6, <1>7, <1>2
<1>9. g \in FrameType /\ g.kind = "advance" /\ g.cur = s /\ g.rows = f.rows /\ g.todo = later
  BY <1>5, <1>8, <1>3, <1>4 DEF FrameType
<1>10. Covers(f, {}) /\ Closing(f)
  BY DEF Rested
<1>11. Covers(g, {s})
  <2>1. ASSUME NEW t \in Step \ {s}, Due(t)
        PROVE  t \in later /\ f.rows[t] = steps[t] /\ Ready(f.rows, t)
    <3>1. t \in f.todo /\ f.rows[t] = steps[t] /\ Ready(f.rows, t)
      BY <1>10, <2>1 DEF Covers
    <3>2. t \in due
      BY <2>1, <3>1, <1>2 DEF Due
    <3>3. Position[t] \in Nat /\ Position[s] \in Nat /\ Position[t] # Position[s]
      BY <1>8, PositionAssumption
    <3>4. Position[t] > Position[s]
      BY <1>7, <3>2, <3>3
    <3>5. QED
      BY <3>1, <3>4, <1>3
  <2>2. QED
    BY <1>9, <2>1 DEF Covers
<1>12. Rested(g, {s})
  BY <1>9, <1>10, <1>11 DEF Rested, Closing
<1>13. Ready(steps, s)
  BY <1>8 DEF Ready, SolidFrame, SettledBut
<1>14. Due(s) => g.rows[s] = steps[s]
  BY <1>8, <1>9, <1>10 DEF Covers
<1>15. QED
  BY <1>8, <1>9, <1>12, <1>13, <1>14 DEF Picked

LEMMA LoopFollow ==
  ASSUME RunInv, SerialInv, FollowInv, NEW r \in Request, Loop(r)
  PROVE  FollowInv'
<1>1. PICK p : p = req[r]
  OBVIOUS
<1>2. PICK f : f = TopOf(p)
  OBVIOUS
<1>3. PICK due : due = DueIn(f)
  OBVIOUS
<1>4. PICK s : s = First(due)
  OBVIOUS
<1>5. PICK g : g = Picking(f, s)
  OBVIOUS
<1>6. PICK w : w = WithTop(p, g)
  OBVIOUS
<1>7. /\ p.pc = "loop" /\ f.kind = "advance"
      /\ Goto(r, IF due # {}
                 THEN IF f.rows[s].status = "FAILED" THEN Move(w, "CREATED")
                      ELSE [w EXCEPT !.pc = "action.get"]
                 ELSE IF AllResolved(f.rows) THEN [p EXCEPT !.pc = "complete"]
                 ELSE Return(p))
      /\ UNCHANGED <<task, steps, actions>>
  <2>1. Top(r) = f
    BY <1>1, <1>2 DEF Top, TopOf
  <2>2. UNCHANGED rows
    BY DEF Loop
  <2>3. QED
    BY <2>1, <2>2, <1>1, <1>3, <1>4, <1>5, <1>6, Zenon DEF Loop, At, rows, DueIn, Picking
<1>8. /\ OthersIdle(r) /\ p \in ReqType /\ Solid(p) /\ SolidBelow(p) /\ p.frames # <<>>
      /\ Swept(p) /\ Kept(p)
  BY <1>1, <1>7, AloneFacts, KeptFacts DEF Knows, OnStack
<1>9. AllInStep({}) /\ Rested(f, {})
  BY <1>2, <1>7, <1>8 DEF Kept, OnHand, Moving
<1>10. f \in FrameType /\ Len(p.frames) \in Nat \ {0}
  BY <1>2, <1>8, TopFacts
<1>11. SolidFrame(f)
  BY <1>2, <1>8, <1>10 DEF Solid, TopOf
<1>12. CASE due # {}
  <2>1. /\ s \in Step /\ g \in FrameType /\ g.kind = "advance" /\ g.cur = s /\ g.rows = f.rows
        /\ Dispatchable(f.rows[s], s) /\ Picked(g, s)
    BY <1>3, <1>4, <1>5, <1>7, <1>9, <1>10, <1>11, <1>12, LoopPicks
  <2>2. Late(g)
    BY <2>1 DEF Late
  <2>3. w \in ReqType /\ TopOf(w) = g /\ Swept(w)
    BY <1>6, <1>8, <2>1, <2>2, WithTopFacts, SweptWithTop
  <2>4. CASE f.rows[s].status = "FAILED"
    <3>1. PICK q : q = Move(w, "CREATED")
      OBVIOUS
    <3>2. q.to = "CREATED"
      BY <2>3, <3>1 DEF Move, ReqType
    <3>3. Reading(q, g, s)
      BY <1>9, <2>1, <2>4, <3>2 DEF Reading, Retrying, Dispatchable
    <3>4. Kept(q)
      BY <2>1, <2>3, <3>1, <3>3, KeptMove
    <3>5. Goto(r, q)
      BY <1>7, <1>12, <2>4, <3>1
    <3>6. QED
      BY <1>7, <1>8, <3>4, <3>5, FollowRead
  <2>5. CASE f.rows[s].status # "FAILED"
    <3>1. PICK q : q = [w EXCEPT !.pc = "action.get"]
      OBVIOUS
    <3>2. q.pc = "action.get" /\ q.frames = w.frames
      BY <2>3, <3>1 DEF ReqType
    <3>3. Swept(q) /\ TopOf(q) = g
      BY <2>3, <3>2 DEF Swept, TopOf
    <3>4. Getting(g, s)
      BY <1>9, <2>1, <2>5 DEF Getting, Dispatchable, AllInStep, InStep
    <3>5. Kept(q)
      BY <2>1, <3>2, <3>3, <3>4 DEF Kept, OnHand
    <3>6. Goto(r, q)
      BY <1>7, <1>12, <2>5, <3>1
    <3>7. QED
      BY <1>7, <1>8, <3>5, <3>6, FollowRead
  <2>6. QED
    BY <2>4, <2>5
<1>13. CASE due = {} /\ AllResolved(f.rows)
  <2>1. PICK q : q = [p EXCEPT !.pc = "complete"]
    OBVIOUS
  <2>2. q.pc = "complete" /\ q.frames = p.frames
    BY <1>8, <2>1 DEF ReqType
  <2>3. Kept(q)
    BY <1>8, <1>9, <2>2 DEF Kept, Swept
  <2>4. Goto(r, q)
    BY <1>7, <1>13, <2>1
  <2>5. QED
    BY <1>7, <1>8, <2>3, <2>4, FollowRead
<1>14. CASE due = {} /\ ~ AllResolved(f.rows)
  <2>1. Goto(r, Return(p))
    BY <1>7, <1>14
  <2>2. AtRest
    <3>1. Covers(f, {}) /\ Closing(f)
      BY <1>7, <1>9 DEF Rested
    <3>2. \A t \in Step : ~ Due(t)
      BY <1>3, <1>14, <3>1 DEF Covers, Due, DueIn
    <3>3. QED
      BY <1>14, <3>1, <3>2 DEF AtRest, Closing
  <2>3. Kept(Return(p))
    BY <1>8, <1>9, <2>2, KeptReturn DEF SerialInv
  <2>4. QED
    BY <1>7, <1>8, <2>1, <2>3, FollowRead
<1>15. QED
  BY <1>12, <1>13, <1>14

LEMMA CompleteFollow ==
  ASSUME RunInv, SerialInv, FollowInv, NEW r \in Request, Complete(r)
  PROVE  FollowInv'
<1>1. PICK f : f = req[r]
  OBVIOUS
<1>2. f.pc = "complete" /\ task' = "COMPLETED" /\ Goto(r, Return(f)) /\ UNCHANGED <<steps, actions>>
  BY <1>1 DEF Complete, At
<1>3. OthersIdle(r) /\ f \in ReqType /\ SolidBelow(f) /\ Swept(f) /\ AllInStep({}) /\ AllDone
  BY <1>1, <1>2, AloneFacts, KeptFacts DEF Alone, OnHand, Moving
<1>4. Keeps
  BY <1>2 DEF Keeps, Full, Live
<1>5. SolidBelow(f)' /\ Swept(f)'
  BY <1>2, <1>3, <1>4, StackStays DEF Swept, Late
<1>6. AllInStep({})' /\ AtRest' /\ CompletedIsDone'
  BY <1>2, <1>3 DEF AllInStep, InStep, Follows, AtRest, CompletedIsDone, AllDone
<1>7. Kept(Return(f))'
  BY <1>3, <1>5, <1>6, KeptLater
<1>8. QED
  BY <1>2, <1>3, <1>7, FollowStep

-----------------------------------------------------------------------------
(* The action of the step in hand.                                         *)

(* What is due depends on the steps only.                                  *)
LEMMA FrozenSteps ==
  ASSUME UNCHANGED <<task, steps>>
  PROVE  /\ \A s : Due(s)' <=> Due(s)
         /\ \A f, X : (Covers(f, X)' <=> Covers(f, X)) /\ (Rested(f, X)' <=> Rested(f, X))
         /\ \A f, s : Picked(f, s)' <=> Picked(f, s)
         /\ \A q : Swept(q)' <=> Swept(q)
         /\ \A s : Ready(steps, s)' <=> Ready(steps, s)
         /\ AtRest' <=> AtRest
<1>1. \A s : (Due(s)' <=> Due(s)) /\ (Ready(steps, s)' <=> Ready(steps, s))
  BY DEF Due, Ready, Dispatchable
<1>2. AllDone' <=> AllDone
  BY DEF AllDone
<1>3. AtRest' <=> AtRest
  BY <1>1, <1>2 DEF AtRest
<1>4. \A f, X : Covers(f, X)' <=> Covers(f, X)
  BY <1>1 DEF Covers
<1>5. \A f : Closing(f)' <=> Closing(f)
  BY <1>2 DEF Closing
<1>6. \A f, X : Rested(f, X)' <=> Rested(f, X)
  BY <1>3, <1>4, <1>5 DEF Rested
<1>7. \A f, s : Picked(f, s)' <=> Picked(f, s)
  BY <1>1, <1>6 DEF Picked
<1>8. \A f : Late(f)' <=> Late(f)
  BY DEF Late
<1>9. \A q : Swept(q)' <=> Swept(q)
  BY <1>8 DEF Swept
<1>10. QED
  BY <1>1, <1>3, <1>4, <1>6, <1>7, <1>9

(* A step that was not dispatched is not before a sweep.                   *)
LEMMA ApartFacts ==
  ASSUME NEW q, Swept(q), NEW s, steps[s].status \notin {"DISPATCHED", "ACKED"}
  PROVE  Apart(q, s)
BY DEF Swept, Late, Apart

LEMMA StepsThere ==
  ASSUME NEW f, f.kind \in OnSteps, SolidFrame(f), NEW s \in Step
  PROVE  steps[s].status # "NONE" /\ steps[s] # NoRow
BY NoRowsFacts DEF SolidFrame, HasRead, Full

LEMMA GetActionFollow ==
  ASSUME RunInv, SerialInv, FollowInv, NEW r \in Request, GetAction(r)
  PROVE  FollowInv'
<1>1. PICK f : f = req[r]
  OBVIOUS
<1>2. PICK t : t = TopOf(f)
  OBVIOUS
<1>3. PICK s : s = t.cur
  OBVIOUS
<1>4. PICK q : q = [f EXCEPT !.pc = "action.create"]
  OBVIOUS
<1>5. PICK p : p = Move(f, "DISPATCHING")
  OBVIOUS
<1>6. f.pc = "action.get" /\ UNCHANGED <<task, steps, actions>>
      /\ Goto(r, IF actions[s] = NoRow THEN q ELSE p)
  <2>1. Top(r) = t
    BY <1>1, <1>2 DEF Top, TopOf
  <2>2. QED
    BY <2>1, <1>1, <1>3, <1>4, <1>5 DEF GetAction, At, rows
<1>7. OthersIdle(r) /\ f \in ReqType /\ Swept(f) /\ Kept(f)
  BY <1>1, <1>6, KeptFacts
<1>8. Getting(t, s)
  BY <1>2, <1>3, <1>6, <1>7 DEF Kept
<1>9. actions[s] = NoRow => Kept(q)
  <2>1. q.pc = "action.create" /\ q.frames = f.frames
    BY <1>4, <1>7 DEF ReqType
  <2>2. Swept(q) /\ TopOf(q) = t
    BY <1>2, <1>7, <2>1 DEF Swept, TopOf
  <2>3. QED
    BY <1>3, <1>8, <2>1, <2>2 DEF Kept, Creating, OnHand
<1>10. actions[s] # NoRow => Kept(p)
  <2>1. p.to = "DISPATCHING"
    BY <1>5, <1>7 DEF Move, ReqType
  <2>2. actions[s] # NoRow => Reading(p, t, s)
    BY <1>8, <2>1 DEF Reading
  <2>3. QED
    BY <1>2, <1>3, <1>5, <1>7, <2>2, KeptMove
<1>11. QED
  BY <1>6, <1>7, <1>9, <1>10, FollowRead

LEMMA CreateActionFollow ==
  ASSUME RunInv, SerialInv, FollowInv, NEW r \in Request, CreateAction(r)
  PROVE  FollowInv'
<1>1. PICK f : f = req[r]
  OBVIOUS
<1>2. PICK t : t = TopOf(f)
  OBVIOUS
<1>3. PICK s : s = t.cur
  OBVIOUS
<1>4. PICK p : p = Move(f, "DISPATCHING")
  OBVIOUS
<1>5. f.pc = "action.create"
  BY <1>1 DEF CreateAction, At
<1>6. /\ OthersIdle(r) /\ f \in ReqType /\ Swept(f) /\ Kept(f)
      /\ f.frames # <<>> /\ s \in Step /\ Solid(f)
  BY <1>1, <1>2, <1>3, <1>5, KeptFacts, AloneFacts DEF Knows, OnStack, OnRow
<1>7. Creating(t, s)
  BY <1>2, <1>3, <1>5, <1>6 DEF Kept
<1>8. actions' = [actions EXCEPT ![s] = New] /\ Goto(r, p) /\ UNCHANGED <<task, steps>>
  <2>1. Top(r) = t /\ actions[s] = NoRow
    BY <1>1, <1>2, <1>7 DEF Top, TopOf, Creating
  <2>2. QED
    BY <2>1, <1>1, <1>3, <1>4 DEF CreateAction
<1>9. actions'[s] = New /\ \A x \in Step : x # s => actions'[x] = actions[x]
  BY <1>6, <1>8, RowFacts
<1>10. SolidFrame(t)
  BY <1>2, <1>6, TopFacts DEF Solid, TopOf
<1>11. steps[s] = New
  <2>1. Follows(s) /\ actions[s] = NoRow /\ t.kind = "advance"
    BY <1>7 DEF Creating, Getting, Picked
  <2>2. steps[s].status # "NONE" /\ steps[s] # NoRow
    BY <1>6, <1>10, <2>1, StepsThere DEF OnSteps
  <2>3. QED
    BY <2>1, <2>2 DEF Follows, NoRow
<1>12. Follows(s)'
  BY <1>8, <1>9, <1>11 DEF Follows
<1>13. AllInStep({s})'
  BY <1>7, <1>8, <1>9 DEF Creating, Getting, AllInStep, InStep, Follows
<1>14. Picked(t, s)'
  BY <1>7, <1>8, FrozenSteps DEF Creating, Getting
<1>15. actions'[s] # NoRow
  BY <1>9, NoRowsFacts
<1>16. p.to = "DISPATCHING"
  BY <1>4, <1>6 DEF Move, ReqType
<1>17. Reading(p, t, s)'
  BY <1>7, <1>12, <1>13, <1>14, <1>15, <1>16 DEF Reading, Getting, Creating
<1>18. Swept(f)' /\ TopOf(f)' = t
  BY <1>2, <1>6, <1>8, FrozenSteps DEF TopOf
<1>19. p = Move(f, "DISPATCHING")'
  BY <1>4 DEF Move
<1>20. Kept(p)'
  BY <1>3, <1>6, <1>17, <1>18, <1>19, KeptLater
<1>21. QED
  BY <1>6, <1>8, <1>20, FollowStep

(* An action refuses only when the copy that was picked is old: then the   *)
(* step is not due any more.                                               *)
LEMMA RefusedRests ==
  ASSUME RunInv, NEW q, NEW f, NEW s \in Step, q.to \in Status, Reading(q, f, s),
         ~ MayBecome(actions[s], s, q.to)
  PROVE  AllInStep({}) /\ Rested(f, {})
<1>1. actions[s] \in Row /\ steps[s] \in Row
  BY RowFacts
<1>2. MaxRetries[s] \in Nat
  BY RetriesAssumption
<1>3. CASE q.to = "DISPATCHING"
  <2>1. Getting(f, s) /\ actions[s] # NoRow
    BY <1>3 DEF Reading
  <2>2. actions[s].status # "CREATED"
    BY <1>3 DEF MayBecome, ActionMoves
  <2>3. AllInStep({})
    BY <2>1, <2>2 DEF Getting, AllInStep, InStep
  <2>4. ~ Due(s)
    <3>1. SUFFICES ASSUME Due(s) PROVE FALSE
      OBVIOUS
    <3>2. steps[s].status = "CREATED"
      BY <2>1, <3>1 DEF Getting, Picked
    <3>3. Follows(s)
      BY <2>1 DEF Getting
    <3>4. QED
      BY <2>1, <2>2, <3>2, <3>3 DEF Follows
  <2>5. f.kind = "advance" /\ Covers(f, {s}) /\ Closing(f)
    BY <2>1 DEF Getting, Picked, Rested
  <2>6. Covers(f, {})
    BY <2>4, <2>5 DEF Covers
  <2>7. QED
    BY <2>3, <2>5, <2>6 DEF Rested
<1>4. CASE q.to = "CREATED"
  <2>1. Retrying(f, s)
    BY <1>4 DEF Reading
  <2>2. ~ Due(s)
    <3>1. SUFFICES ASSUME Due(s) PROVE FALSE
      OBVIOUS
    <3>2. steps[s].status = "FAILED" /\ steps[s].retry < MaxRetries[s]
      BY <2>1, <3>1 DEF Retrying, Picked
    <3>3. Follows(s)
      BY <2>1 DEF Retrying, AllInStep, InStep
    <3>4. actions[s].status = "FAILED" /\ actions[s].retry < MaxRetries[s]
      BY <3>2, <3>3 DEF Follows, NoRow, New
    <3>5. ActionRetries(s) = MaxRetries[s]
      BY <1>1, <1>2, <3>4 DEF ActionRetries, Row
    <3>6. MayBecome(actions[s], s, q.to)
      BY <1>4, <3>4, <3>5 DEF MayBecome, ActionMoves
    <3>7. QED
      BY <3>6
  <2>3. f.kind = "advance" /\ Covers(f, {s}) /\ Closing(f)
    BY <2>1 DEF Retrying, Picked, Rested
  <2>4. Covers(f, {})
    BY <2>2, <2>3 DEF Covers
  <2>5. QED
    BY <2>1, <2>3, <2>4 DEF Rested, Retrying
<1>5. CASE q.to = "DISPATCHED"
  <2>1. Confirming(q, f, s)
    BY <1>5 DEF Reading
  <2>2. MayBecome(actions[s], s, q.to)
    BY <1>5, <2>1 DEF Confirming, MayBecome, ActionMoves
  <2>3. QED
    BY <2>2
<1>6. CASE q.to \notin {"DISPATCHING", "CREATED", "DISPATCHED"}
  BY <1>6 DEF Reading, Settling
<1>7. QED
  BY <1>3, <1>4, <1>5, <1>6

(* An action moves only when the copy that was picked is true.             *)
LEMMA AcceptedSaves ==
  ASSUME RunInv, NEW q, NEW f, f.rows \in [Step -> Row], NEW s \in Step, q.to \in Status,
         Reading(q, f, s), Swept(q), MayBecome(actions[s], s, q.to),
         q.act = Became(actions[s], q.to)
  PROVE  Saving(q, f, s)
<1>1. actions[s] \in Row /\ steps[s] \in Row
  BY RowFacts
<1>2. MaxRetries[s] \in Nat
  BY RetriesAssumption
<1>3. CASE q.to = "DISPATCHING"
  <2>1. Getting(f, s) /\ actions[s] # NoRow
    BY <1>3 DEF Reading
  <2>2. actions[s].status = "CREATED"
    BY <1>1, <1>3 DEF MayBecome, ActionMoves, Row, Status
  <2>3. steps[s].status = "CREATED" /\ steps[s].retry = actions[s].retry
    BY <2>1, <2>2 DEF Getting, Follows, NoRow
  <2>4. Due(s)
    BY <2>1, <2>3 DEF Due, Dispatchable, Getting, Picked
  <2>5. f.rows[s] = steps[s] /\ f.kind = "advance" /\ Covers(f, {s}) /\ Ready(steps, s)
    BY <2>1, <2>4 DEF Getting, Picked, Rested
  <2>6. Apart(q, s)
    BY <2>3, ApartFacts
  <2>7. QED
    BY <1>3, <2>1, <2>3, <2>5, <2>6 DEF Saving, Getting
<1>4. CASE q.to = "CREATED"
  <2>1. Retrying(f, s)
    BY <1>4 DEF Reading
  <2>2. actions[s].status = "FAILED" /\ actions[s].retry < ActionRetries(s)
    BY <1>1, <1>4 DEF MayBecome, ActionMoves, Row, Status
  <2>3. steps[s].status = "FAILED" /\ steps[s].retry = actions[s].retry
    BY <2>1, <2>2 DEF Retrying, AllInStep, InStep, Follows, NoRow
  <2>4. MaxRetries[s] # 0
    <3>1. f.rows[s].retry \in Nat /\ f.rows[s].retry < MaxRetries[s]
      BY <2>1 DEF Retrying, Row
    <3>2. QED
      BY <1>2, <3>1
  <2>5. Due(s)
    BY <2>1, <2>2, <2>3, <2>4 DEF Due, Dispatchable, Retrying, Picked, ActionRetries
  <2>6. f.rows[s] = steps[s] /\ f.kind = "advance" /\ Covers(f, {s}) /\ Ready(steps, s)
    BY <2>1, <2>5 DEF Retrying, Picked, Rested
  <2>7. AllInStep({s})
    BY <2>1 DEF Retrying, AllInStep
  <2>8. Apart(q, s)
    BY <2>3, ApartFacts
  <2>9. QED
    BY <1>4, <2>3, <2>6, <2>7, <2>8 DEF Saving
<1>5. CASE q.to = "DISPATCHED"
  BY <1>5 DEF Reading, Confirming, Saving
<1>6. CASE q.to \notin {"DISPATCHING", "CREATED", "DISPATCHED"}
  <2>1. Settling(q, f, s)
    BY <1>6 DEF Reading
  <2>2. q.to \in {"ACKED", "RESOLVED", "FAILED"}
    BY <1>6, StatusFacts
  <2>3. AllInStep({s}) /\ InStep(s)
    BY <2>1 DEF Settling, AllInStep
  <2>4. actions[s].retry = steps[s].retry
    BY <2>3 DEF InStep, Follows, MayBecome, NoRow
  <2>5. f.kind = "direct" => AtRest
    BY <2>1 DEF Settling, Rested
  <2>6. QED
    BY <1>6, <2>1, <2>2, <2>3, <2>4, <2>5 DEF Saving, Settling, Advancing
<1>7. QED
  BY <1>3, <1>4, <1>5, <1>6

LEMMA ReadActionFollow ==
  ASSUME RunInv, SerialInv, FollowInv, NEW r \in Request, ReadAction(r)
  PROVE  FollowInv'
<1>1. PICK p : p = req[r]
  OBVIOUS
<1>2. PICK f : f = TopOf(p)
  OBVIOUS
<1>3. PICK s : s = f.cur
  OBVIOUS
<1>4. PICK row : row = Became(actions[s], p.to)
  OBVIOUS
<1>5. PICK q : q = [p EXCEPT !.pc = "action.save", !.act = row]
  OBVIOUS
<1>6. p.pc = "action.read" /\ UNCHANGED <<task, steps, actions>>
      /\ Goto(r, IF MayBecome(actions[s], s, p.to) THEN q ELSE GiveUp(p))
  <2>1. Top(r) = f
    BY <1>1, <1>2 DEF Top, TopOf
  <2>2. QED
    BY <2>1, <1>1, <1>3, <1>4, <1>5 DEF ReadAction, At, rows
<1>7. /\ OthersIdle(r) /\ p \in ReqType /\ Swept(p) /\ Kept(p)
      /\ p.frames # <<>> /\ s \in Step /\ p.to \in Status
  BY <1>1, <1>2, <1>3, <1>6, KeptFacts, AloneFacts DEF Knows, OnStack, OnRow, Moving
<1>8. Reading(p, f, s) /\ f \in FrameType
  BY <1>2, <1>3, <1>6, <1>7, TopFacts DEF Kept
<1>9. CASE MayBecome(actions[s], s, p.to)
  <2>1. q.pc = "action.save" /\ q.act = row /\ q.to = p.to /\ q.frames = p.frames
    BY <1>5, <1>7 DEF ReqType
  <2>2. Swept(q) /\ TopOf(q) = f
    BY <1>2, <1>7, <2>1 DEF Swept, TopOf
  <2>3. Reading(q, f, s)
    BY <1>8, <2>1 DEF Reading, Confirming, Settling, Apart
  <2>4. Saving(q, f, s)
    BY <1>4, <1>7, <1>8, <1>9, <2>1, <2>2, <2>3, AcceptedSaves DEF FrameType
  <2>5. Kept(q)
    BY <1>3, <2>1, <2>2, <2>4 DEF Kept, OnHand, Moving
  <2>6. QED
    BY <1>6, <1>7, <1>9, <2>5, FollowRead
<1>10. CASE ~ MayBecome(actions[s], s, p.to)
  <2>1. AllInStep({}) /\ Rested(f, {})
    BY <1>7, <1>8, <1>10, RefusedRests
  <2>2. Kept(GiveUp(p))
    BY <1>2, <1>7, <2>1, KeptGiveUp
  <2>3. QED
    BY <1>6, <1>7, <1>10, <2>2, FollowRead
<1>11. QED
  BY <1>9, <1>10

(* An action that moves on its own leaves its step behind in the ways      *)
(* StepFollowsAction names.                                                *)
LEMMA DirectLag ==
  ASSUME RunInv, NEW q, NEW f, NEW s \in Step, Saving(q, f, s), f.kind = "direct",
         actions'[s] = q.act, UNCHANGED steps
  PROVE  InStep(s)'
<1>1. actions[s] \in Row /\ steps[s] \in Row
  BY RowFacts
<1>2. /\ InStep(s) /\ "action" \in Operation /\ q.to \in {"ACKED", "RESOLVED"}
      /\ MayBecome(actions[s], s, q.to) /\ q.act = Became(actions[s], q.to)
  BY DEF Saving
<1>3. actions'[s] = [status |-> q.to, retry |-> actions[s].retry]
  BY <1>2 DEF Became
<1>4. actions[s].status = "DISPATCHED" \/ (actions[s].status = "ACKED" /\ q.to = "RESOLVED")
  BY <1>1, <1>2 DEF MayBecome, ActionMoves, Row, Status
<1>5. steps[s].retry = actions[s].retry
      /\ <<steps[s].status, q.to>> \in
           {<<"DISPATCHED", "ACKED">>, <<"DISPATCHED", "RESOLVED">>, <<"ACKED", "RESOLVED">>}
  BY <1>2, <1>4 DEF InStep, Follows, NoRow
<1>6. QED
  BY <1>2, <1>3, <1>5 DEF InStep, Follows

LEMMA SaveActionFollow ==
  ASSUME RunInv, SerialInv, FollowInv, NEW r \in Request, SaveAction(r)
  PROVE  FollowInv'
<1>1. PICK q : q = req[r]
  OBVIOUS
<1>2. PICK f : f = TopOf(q)
  OBVIOUS
<1>3. PICK s : s = f.cur
  OBVIOUS
<1>4. PICK g : g = [f EXCEPT !.rows[s] = Became(@, q.to)]
  OBVIOUS
<1>5. PICK w : w = WithTop(q, g)
  OBVIOUS
<1>6. PICK p : p = [w EXCEPT !.pc = "step.save", !.act = NoRow]
  OBVIOUS
<1>7. PICK m : m = Move(q, "DISPATCHED")
  OBVIOUS
<1>8. /\ q.pc = "action.save"
      /\ actions' = [actions EXCEPT ![s] = q.act]
      /\ Goto(r, IF f.kind = "direct" THEN Idle
                 ELSE IF q.to = "DISPATCHING" THEN m ELSE p)
      /\ UNCHANGED <<task, steps>>
  <2>1. Top(r) = f
    BY <1>1, <1>2 DEF Top, TopOf
  <2>2. QED
    BY <2>1, <1>1, <1>3, <1>4, <1>5, <1>6, <1>7, Zenon DEF SaveAction, At
<1>9. /\ OthersIdle(r) /\ q \in ReqType /\ Swept(q) /\ Kept(q)
      /\ q.frames # <<>> /\ s \in Step /\ q.to \in Status
  BY <1>1, <1>2, <1>3, <1>8, KeptFacts, AloneFacts DEF Knows, OnStack, OnRow, Moving
<1>10. Saving(q, f, s)
  BY <1>2, <1>3, <1>8, <1>9 DEF Kept
<1>11. f \in FrameType /\ Len(q.frames) \in Nat \ {0}
  BY <1>2, <1>9, TopFacts
<1>12. actions'[s] = q.act /\ \A t \in Step : t # s => actions'[t] = actions[t]
  BY <1>8, <1>9, RowFacts
<1>13. q.act = Became(actions[s], q.to) /\ AllInStep({s})
  BY <1>10 DEF Saving
<1>14. AllInStep({s})'
  BY <1>8, <1>12, <1>13 DEF AllInStep, InStep, Follows
<1>15. Swept(q)'
  BY <1>8, <1>9, FrozenSteps
<1>16. CASE f.kind = "direct"
  <2>1. InStep(s)'
    BY <1>8, <1>9, <1>10, <1>12, <1>16, DirectLag
  <2>2. AllInStep({})'
    BY <1>14, <2>1 DEF AllInStep
  <2>3. AtRest'
    BY <1>8, <1>10, <1>16, FrozenSteps DEF Saving
  <2>4. Kept(Idle)'
    BY <2>2, <2>3, KeptLater
  <2>5. QED
    BY <1>8, <1>9, <1>16, <2>4, FollowStep
<1>17. CASE f.kind # "direct" /\ q.to = "DISPATCHING"
  <2>1. m.to = "DISPATCHED" /\ m.frames = q.frames
    BY <1>7, <1>9 DEF Move, ReqType
  <2>2. /\ f.rows[s].retry = actions[s].retry /\ Apart(q, s) /\ f.rows[s].status = "CREATED"
        /\ f.kind = "advance" /\ Ready(steps, s) /\ Covers(f, {s})
    BY <1>10, <1>17 DEF Saving, Advancing
  <2>3. actions'[s].status = "DISPATCHING" /\ actions'[s].retry = f.rows[s].retry
    BY <1>12, <1>13, <1>17, <2>2 DEF Became
  <2>4. (Ready(steps, s) /\ Covers(f, {s}))'
    BY <1>8, <2>2, FrozenSteps
  <2>5. Apart(m, s)'
    BY <2>1, <2>2 DEF Apart
  <2>6. Confirming(m, f, s)'
    BY <1>14, <2>2, <2>3, <2>4, <2>5 DEF Confirming
  <2>7. Reading(m, f, s)'
    BY <2>1, <2>6 DEF Reading
  <2>8. TopOf(q)' = f /\ m = Move(q, "DISPATCHED")'
    BY <1>2, <1>7 DEF TopOf, Move
  <2>9. Kept(m)'
    BY <1>3, <1>9, <1>15, <2>7, <2>8, KeptLater
  <2>10. QED
    BY <1>8, <1>9, <1>17, <2>9, FollowStep
<1>18. CASE f.kind # "direct" /\ q.to # "DISPATCHING"
  <2>1. PICK table : table = [f.rows EXCEPT ![s] = Became(@, q.to)]
    OBVIOUS
  <2>2. f.rows \in [Step -> Row] /\ f.rows[s] \in Row
    BY <1>9, <1>11 DEF FrameType
  <2>3. Became(f.rows[s], q.to) \in Row
    BY <1>9, <2>2, BecameFacts
  <2>4. table \in [Step -> Row] /\ table[s] = Became(f.rows[s], q.to)
        /\ \A t \in Step : t # s => table[t] = f.rows[t]
    BY <1>9, <2>1, <2>2, <2>3
  <2>5. g = [f EXCEPT !.rows = table]
    BY <1>4, <1>11, <2>1 DEF FrameType
  <2>6. g \in FrameType /\ g.rows = table /\ g.cur = s /\ g.kind = f.kind /\ g.todo = f.todo
    BY <1>3, <1>11, <2>4, <2>5 DEF FrameType
  <2>7. f.rows[s].retry = actions[s].retry /\ Apart(q, s)
    BY <1>10, <1>18 DEF Saving
  <2>8. PICK n : n = Len(q.frames)
    OBVIOUS
  <2>9. n \in 1 .. n /\ f = q.frames[n]
    BY <1>2, <1>11, <2>8 DEF TopOf
  <2>10. (f.kind = "sweep" => s \notin f.todo) /\ Late(f)
    BY <1>9, <2>7, <2>8, <2>9 DEF Apart, Swept
  <2>11. Late(g)
    BY <2>4, <2>6, <2>10, <1>11 DEF Late, FrameType
  <2>12. w \in ReqType /\ TopOf(w) = g /\ w.to = q.to /\ Swept(w) /\ Apart(w, s)
    BY <1>2, <1>5, <1>9, <2>6, <2>7, <2>10, <2>11, WithTopFacts, SweptWithTop
  <2>13. p.pc = "step.save" /\ p.to = q.to /\ p.frames = w.frames
    BY <1>6, <2>12 DEF ReqType
  <2>14. TopOf(p) = g /\ Swept(p) /\ Apart(p, s)
    BY <2>12, <2>13 DEF TopOf, Swept, Apart
  <2>15. g.rows[s] = actions'[s]
    BY <1>12, <1>13, <2>4, <2>6, <2>7 DEF Became
  <2>16. q.to \in Advancing => g.kind = "advance" /\ Ready(steps, s) /\ Covers(g, {s})
    <3>1. SUFFICES ASSUME q.to \in Advancing
                   PROVE  g.kind = "advance" /\ Ready(steps, s) /\ Covers(g, {s})
      OBVIOUS
    <3>2. f.kind = "advance" /\ Ready(steps, s) /\ Covers(f, {s}) /\ f.rows[s].status # "RESOLVED"
      BY <1>10, <3>1 DEF Saving
    <3>3. \A t : Ready(f.rows, t) => Ready(g.rows, t)
      BY <2>4, <2>6, <3>2 DEF Ready
    <3>4. Covers(g, {s})
      BY <2>4, <2>6, <3>2, <3>3 DEF Covers
    <3>5. QED
      BY <2>6, <3>2, <3>4
  <2>17. (q.to \in Advancing => g.kind = "advance" /\ Ready(steps, s) /\ Covers(g, {s}))'
    BY <1>8, <2>16, FrozenSteps
  <2>18. (Apart(p, s) /\ Swept(p))'
    BY <1>8, <2>14, FrozenSteps DEF Apart
  <2>19. Storing(p, g, s)'
    BY <1>14, <1>18, <2>13, <2>15, <2>17, <2>18 DEF Storing
  <2>20. TopOf(p)' = g
    BY <2>14 DEF TopOf
  <2>21. Kept(p)'
    BY <2>6, <2>13, <2>18, <2>19, <2>20 DEF Kept, OnHand, Moving
  <2>22. QED
    BY <1>8, <1>9, <1>18, <2>21, FollowStep
<1>19. QED
  BY <1>16, <1>17, <1>18

-----------------------------------------------------------------------------
(* The step is stored, and what follows.                                   *)

(* A step that is stored as not resolved makes nothing ready.              *)
LEMMA StoredCovers ==
  ASSUME NEW s \in Step, NEW f, Covers(f, {s}), UNCHANGED task,
         \A x \in Step : x # s => steps'[x] = steps[x], steps'[s].status # "RESOLVED"
  PROVE  /\ Covers(f, {s})' /\ Closing(f)' /\ ~ AllDone'
         /\ \A x : Ready(steps, x)' => Ready(steps, x)
<1>1. \A x : Ready(steps, x)' => Ready(steps, x)
  BY DEF Ready
<1>2. \A x \in Step \ {s} : Due(x)' => Due(x)
  BY <1>1 DEF Due, Dispatchable
<1>3. Covers(f, {s})'
  BY <1>2 DEF Covers
<1>4. ~ AllDone'
  BY DEF AllDone
<1>5. QED
  BY <1>1, <1>3, <1>4 DEF Closing

LEMMA SaveStepFollow ==
  ASSUME RunInv, SerialInv, FollowInv, NEW r \in Request, SaveStep(r)
  PROVE  FollowInv'
<1>1. PICK f : f = req[r]
  OBVIOUS
<1>2. PICK t : t = TopOf(f)
  OBVIOUS
<1>3. PICK s : s = t.cur
  OBVIOUS
<1>4. f.pc = "step.save" /\ steps' = [steps EXCEPT ![s] = t.rows[s]] /\ Goto(r, After(f, s))
      /\ UNCHANGED <<task, actions>>
  <2>1. Top(r) = t
    BY <1>1, <1>2 DEF Top, TopOf
  <2>2. QED
    BY <2>1, <1>1, <1>3 DEF SaveStep, At
<1>5. /\ OthersIdle(r) /\ f \in ReqType /\ Swept(f) /\ Kept(f) /\ Alone(f)
      /\ f.frames # <<>> /\ s \in Step
  BY <1>1, <1>2, <1>3, <1>4, KeptFacts, AloneFacts DEF Knows, OnStack, OnRow, Moving
<1>6. Storing(f, t, s)
  BY <1>2, <1>3, <1>4, <1>5 DEF Kept
<1>7. actions[s].status = f.to /\ f.to \in Status
  <2>1. actions[s].status = f.to
    BY <1>2, <1>3, <1>4, <1>5 DEF Alone
  <2>2. f.to # "NONE" /\ f.to \in Status \cup {"none", "RUNNING", "CANCELLED"}
    BY <1>5, StatusFacts DEF ReqType
  <2>3. actions[s] \in Row
    BY <1>5, RowFacts
  <2>4. QED
    BY <2>1, <2>2, <2>3, StatusFacts DEF Row
<1>8. t.rows[s] = actions[s] /\ f.to # "DISPATCHING"
      /\ steps'[s] = actions[s] /\ \A x \in Step : x # s => steps'[x] = steps[x]
  BY <1>4, <1>5, <1>6, RowFacts DEF Storing
<1>9. AllInStep({s})'
  BY <1>4, <1>6, <1>8 DEF Storing, AllInStep, InStep, Follows
<1>10. Follows(s)'
  BY <1>4, <1>8 DEF Follows
<1>11. f.to # "CREATED" => AllInStep({})'
  BY <1>4, <1>7, <1>9, <1>10 DEF AllInStep, InStep
<1>12. Swept(f)'
  <2>1. ASSUME NEW i \in 1 .. Len(f.frames) PROVE Late(f.frames[i])'
    <3>1. PICK g : g = f.frames[i]
      OBVIOUS
    <3>2. Late(g) /\ (g.kind = "sweep" => s \notin g.todo)
      BY <1>5, <1>6, <3>1 DEF Swept, Storing, Apart
    <3>3. g \in FrameType
      BY <1>5, <3>1, ElementOfSeq DEF ReqType
    <3>4. g.todo \subseteq Step
      BY <3>3 DEF FrameType
    <3>5. Late(g)'
      BY <1>8, <3>2, <3>4 DEF Late
    <3>6. QED
      BY <3>1, <3>5 DEF Late
  <2>2. QED
    BY <1>5, <2>1 DEF Swept
<1>13. f.to \in Advancing =>
         /\ t.kind = "advance" /\ Covers(t, {s})' /\ Closing(t)' /\ Ready(steps, s)
  BY <1>4, <1>5, <1>6, <1>7, <1>8, StoredCovers DEF Storing, Advancing
<1>14. \A q : Goto(r, q) /\ Kept(q)' => FollowInv'
  BY <1>5, FollowStep
<1>15. ASSUME NEW pc \in Pc, NEW q, q = [f EXCEPT !.pc = pc]
       PROVE  q.pc = pc /\ q.frames = f.frames /\ Swept(q)' /\ TopOf(q)' = t
  BY <1>2, <1>5, <1>12, <1>15 DEF ReqType, Swept, TopOf
<1>16. PICK q : q = After(f, s)
  OBVIOUS
<1>17. Goto(r, q)
  BY <1>4, <1>16
<1>18. CASE f.to = "CREATED"
  <2>1. q = [f EXCEPT !.pc = "action.get"]
    BY <1>16, <1>18 DEF After
  <2>2. q.pc = "action.get" /\ Swept(q)' /\ TopOf(q)' = t
    BY <1>15, <2>1 DEF Pc
  <2>3. t.kind = "advance" /\ Rested(t, {s})'
    BY <1>13, <1>18 DEF Rested, Advancing
  <2>4. Ready(steps, s)'
    <3>1. steps[s].status # "RESOLVED"
      BY <1>5, <1>7, <1>18 DEF SerialInv, StepsLast
    <3>2. Ready(steps, s)
      BY <1>13, <1>18 DEF Advancing
    <3>3. QED
      BY <1>8, <3>1, <3>2 DEF Ready
  <2>5. Getting(t, s)'
    BY <1>7, <1>8, <1>9, <1>10, <1>18, <2>3, <2>4 DEF Getting, Picked
  <2>6. Kept(q)'
    BY <1>3, <2>2, <2>5 DEF Kept, OnHand
  <2>7. QED
    BY <1>14, <1>17, <2>6
<1>19. CASE f.to = "DISPATCHED"
  <2>1. PICK pc \in {"run", "note"} : q = [f EXCEPT !.pc = pc]
    BY <1>16, <1>19 DEF After
  <2>2. q.pc = pc /\ q.frames = f.frames /\ Swept(q)' /\ TopOf(q)' = t
    BY <1>15, <2>1 DEF Pc
  <2>3. Covers(t, {})'
    BY <1>7, <1>8, <1>13, <1>19 DEF Covers, Due, Dispatchable, Advancing
  <2>4. Apart(q, s)'
    BY <1>6, <2>2 DEF Storing, Apart
  <2>5. Running(q, t, s)'
    BY <1>7, <1>8, <1>11, <1>13, <1>19, <2>3, <2>4 DEF Running, Advancing
  <2>6. Kept(q)'
    BY <1>3, <1>11, <1>19, <2>2, <2>5 DEF Kept
  <2>7. QED
    BY <1>14, <1>17, <2>6
<1>20. CASE f.to = "FAILED" /\ s \in Escalated
  <2>1. q = [f EXCEPT !.pc = "escalate"]
    BY <1>16, <1>20 DEF After
  <2>2. q.pc = "escalate" /\ Swept(q)'
    BY <1>15, <2>1 DEF Pc
  <2>3. Kept(q)'
    BY <1>11, <1>20, <2>2 DEF Kept
  <2>4. QED
    BY <1>14, <1>17, <2>3
<1>21. CASE f.to \notin {"CREATED", "DISPATCHED"} /\ ~ (f.to = "FAILED" /\ s \in Escalated)
  <2>1. q = Advance(f)
    BY <1>16, <1>21 DEF After
  <2>2. Kept(Advance(f))'
    BY <1>5, <1>11, <1>12, <1>21, KeptLater
  <2>3. Goto(r, Advance(f))
    BY <1>17, <2>1
  <2>4. QED
    BY <1>14, <2>2, <2>3
<1>22. QED
  BY <1>18, <1>19, <1>20, <1>21

(* A step that was dispatched leaves the loop as it was.                   *)
LEMMA RunningRests ==
  ASSUME NEW q, NEW f, NEW s \in Step, Running(q, f, s)
  PROVE  AllInStep({}) /\ Rested(f, {}) /\ f.kind = "advance" /\ f.rows[s] = steps[s] /\ Apart(q, s)
<1>1. ~ AllDone
  BY DEF Running, AllDone
<1>2. QED
  BY <1>1 DEF Running, Rested, Closing

LEMMA RunAgentFollow ==
  ASSUME RunInv, SerialInv, FollowInv, NEW r \in Request, RunAgent(r)
  PROVE  FollowInv'
<1>1. PICK f : f = req[r]
  OBVIOUS
<1>2. PICK t : t = TopOf(f)
  OBVIOUS
<1>3. PICK s : s = t.cur
  OBVIOUS
<1>4. f.pc = "run" /\ UNCHANGED <<task, steps, actions>>
  BY <1>1 DEF RunAgent, At, rows
<1>5. OthersIdle(r) /\ f \in ReqType /\ Swept(f) /\ Kept(f) /\ s \in Step
  BY <1>1, <1>2, <1>3, <1>4, KeptFacts, AloneFacts DEF Knows, OnRow
<1>6. Running(f, t, s)
  BY <1>2, <1>3, <1>4, <1>5 DEF Kept
<1>7. PICK to \in {"RESOLVED", "FAILED"} : Goto(r, Move(f, to))
  BY <1>1 DEF RunAgent
<1>8. PICK p : p = Move(f, to)
  OBVIOUS
<1>9. p.to = to /\ p.frames = f.frames
  BY <1>5, <1>8 DEF Move, ReqType
<1>10. Reading(p, t, s)
  BY <1>5, <1>6, <1>9, RunningRests DEF Reading, Settling, Apart
<1>11. Kept(p)
  BY <1>2, <1>3, <1>5, <1>8, <1>10, KeptMove
<1>12. QED
  BY <1>4, <1>5, <1>7, <1>8, <1>11, FollowRead

LEMMA NotifyFollow ==
  ASSUME RunInv, SerialInv, FollowInv, NEW r \in Request, Notify(r)
  PROVE  FollowInv'
<1>1. PICK f : f = req[r]
  OBVIOUS
<1>2. f.pc = "note" /\ Goto(r, GiveUp(f)) /\ UNCHANGED <<task, steps, actions>>
  BY <1>1 DEF Notify, At
<1>3. /\ OthersIdle(r) /\ f \in ReqType /\ Swept(f) /\ Kept(f)
      /\ f.frames # <<>> /\ TopOf(f).cur \in Step
  BY <1>1, <1>2, KeptFacts, AloneFacts DEF Knows, OnStack, OnRow
<1>4. AllInStep({}) /\ Rested(TopOf(f), {})
  BY <1>2, <1>3, RunningRests DEF Kept
<1>5. QED
  BY <1>2, <1>3, <1>4, KeptGiveUp, FollowRead

LEMMA EscalateFollow ==
  ASSUME RunInv, SerialInv, FollowInv, NEW r \in Request, Escalate(r)
  PROVE  FollowInv'
<1>1. PICK f : f = req[r]
  OBVIOUS
<1>2. f.pc = "escalate" /\ Goto(r, Advance(f)) /\ UNCHANGED <<task, steps, actions>>
  BY <1>1 DEF Escalate, At
<1>3. OthersIdle(r) /\ f \in ReqType /\ Swept(f) /\ AllInStep({})
  BY <1>1, <1>2, KeptFacts DEF OnHand, Moving
<1>4. QED
  BY <1>2, <1>3, KeptAdvance, FollowRead

LEMMA SweepNextFollow ==
  ASSUME RunInv, SerialInv, FollowInv, NEW r \in Request, SweepNext(r)
  PROVE  FollowInv'
<1>1. PICK p : p = req[r]
  OBVIOUS
<1>2. PICK f : f = TopOf(p)
  OBVIOUS
<1>3. p.pc = "loop" /\ Top(r) = f /\ f.kind = "sweep" /\ UNCHANGED <<task, steps, actions>>
  BY <1>1, <1>2 DEF SweepNext, At, rows, Top, TopOf
<1>4. /\ OthersIdle(r) /\ p \in ReqType /\ Swept(p) /\ Kept(p) /\ p.frames # <<>>
      /\ AllInStep({})
  BY <1>1, <1>3, KeptFacts, AloneFacts DEF Knows, OnStack, OnHand, Moving
<1>5. Rested(f, {}) /\ AtRest
  BY <1>2, <1>3, <1>4 DEF Kept, Rested
<1>6. f \in FrameType /\ Len(p.frames) \in Nat \ {0}
  BY <1>2, <1>4, TopFacts
<1>7. CASE f.todo = {}
  <2>1. Goto(r, Idle)
    BY <1>3, <1>7 DEF SweepNext
  <2>2. QED
    BY <1>3, <1>4, <1>5, <2>1, KeptIdle, FollowRead
<1>8. CASE f.todo # {}
  <2>1. PICK s \in f.todo : Goto(r, Move(WithTop(p, [f EXCEPT !.cur = s, !.todo = @ \ {s}]), "FAILED"))
    BY <1>1, <1>3, <1>8 DEF SweepNext
  <2>2. PICK g : g = [f EXCEPT !.cur = s, !.todo = @ \ {s}]
    OBVIOUS
  <2>3. /\ g \in FrameType /\ g.rows = f.rows /\ g.kind = "sweep" /\ g.cur = s
        /\ g.todo = f.todo \ {s}
    BY <1>3, <1>6, <2>2 DEF FrameType
  <2>4. Len(p.frames) = 1 /\ Late(f)
    <3>1. PICK n : n = Len(p.frames)
      OBVIOUS
    <3>2. n \in 1 .. n /\ f = p.frames[n]
      BY <1>2, <1>6, <3>1 DEF TopOf
    <3>3. Late(p.frames[n]) /\ (p.frames[n].kind = "sweep" => n = 1)
      BY <1>4, <3>1, <3>2 DEF Swept
    <3>4. QED
      BY <1>3, <3>1, <3>2, <3>3
  <2>5. Late(g) /\ g.rows[s] = steps[s]
    BY <1>3, <2>3, <2>4 DEF Late
  <2>6. PICK w : w = WithTop(p, g)
    OBVIOUS
  <2>7. w \in ReqType /\ TopOf(w) = g /\ Swept(w)
    BY <1>2, <1>3, <1>4, <2>3, <2>5, <2>6, WithTopFacts, SweptWithTop
  <2>8. Apart(w, s)
    <3>2. PICK h : h = [p.frames EXCEPT ![1] = g]
      OBVIOUS
    <3>3. w.frames = h
      BY <1>4, <2>4, <2>6, <3>2 DEF WithTop, ReqType
    <3>4. p.frames \in Seq(FrameType) /\ 1 \in 1 .. Len(p.frames)
      BY <1>4, <2>4 DEF ReqType
    <3>5. Len(h) = 1 /\ h[1] = g
      BY <2>3, <2>4, <3>2, <3>4, ExceptSeq
    <3>6. QED
      BY <2>3, <3>3, <3>5 DEF Apart
  <2>9. PICK q : q = Move(w, "FAILED")
    OBVIOUS
  <2>10. q.to = "FAILED" /\ q.frames = w.frames
    BY <2>7, <2>9 DEF Move, ReqType
  <2>11. Rested(g, {})
    BY <1>5, <2>3 DEF Rested
  <2>12. Reading(q, g, s)
    BY <1>4, <2>3, <2>5, <2>8, <2>10, <2>11 DEF Reading, Settling, Apart
  <2>13. Kept(q)
    BY <2>3, <2>7, <2>9, <2>12, KeptMove
  <2>14. QED
    BY <1>3, <1>4, <2>1, <2>2, <2>6, <2>9, <2>13, FollowRead
<1>9. QED
  BY <1>7, <1>8

-----------------------------------------------------------------------------
(* Steps follow their actions and nothing is forgotten.                    *)

LEMMA InitFollow == Init => FollowInv /\ AllInStep({}) /\ AtRest
<1> SUFFICES ASSUME Init PROVE FollowInv /\ AllInStep({}) /\ AtRest
  OBVIOUS
<1>1. \A s \in Step : InStep(s)
  BY NoRowsFacts DEF Init, InStep, Follows, NoRows
<1>2. AllInStep({})
  BY <1>1 DEF AllInStep
<1>3. AtRest
  BY DEF Init, AtRest
<1>4. Kept(Idle)
  BY <1>2, <1>3, KeptIdle
<1>5. QED
  BY <1>2, <1>3, <1>4 DEF Init, FollowInv

LEMMA NextFollow ==
  Serial /\ MaxFailures = 0 => (RunInv /\ SerialInv /\ FollowInv /\ [Next]_vars => FollowInv')
<1> SUFFICES ASSUME Serial, MaxFailures = 0, RunInv, SerialInv, FollowInv, [Next]_vars
             PROVE  FollowInv'
  OBVIOUS
<1>1. CASE UNCHANGED vars
  <2>1. UNCHANGED <<task, steps, actions, req>>
    BY <1>1 DEF vars
  <2>2. ASSUME NEW r \in Request, OthersIdle(r)' PROVE Kept(req[r])'
    <3>1. PICK k : k = req[r]
      OBVIOUS
    <3>2. OthersIdle(r)
      BY <2>1, <2>2 DEF OthersIdle
    <3>3. Kept(k)'
      BY <2>1, <3>1, <3>2, FrozenKept DEF FollowInv
    <3>4. req'[r] = k
      BY <2>1, <3>1
    <3>5. QED
      BY <3>3, <3>4, KeptThere
  <2>3. QED
    BY <2>2 DEF FollowInv
<1>2. ASSUME NEW r \in Request, Arrive(r) PROVE FollowInv'
  <2>1. CASE StartTask(r) \/ CancelTask(r)
    BY <2>1, ChangeTaskFollow DEF StartTask, CancelTask
  <2>2. CASE Nudge(r) \/ Sweep(r)
    BY <2>2, NudgeFollow, SweepFollow
  <2>3. CASE AckStep(r) \/ ResolveStep(r) \/ FailStep(r)
    BY <2>3, OnStepFollow DEF AckStep, ResolveStep, FailStep
  <2>4. CASE AckAction(r) \/ ResolveAction(r)
    BY <2>4, OnActionFollow DEF AckAction, ResolveAction
  <2>5. QED
    BY <1>2, <2>1, <2>2, <2>3, <2>4 DEF Arrive
<1>3. ASSUME NEW r \in Request, Proceed(r) PROVE FollowInv'
  BY <1>3, SaveTaskFollow, PlanStepsFollow, CreateStepFollow, ReadTaskFollow, ReadStepsFollow,
     LoopFollow, CompleteFollow, GetActionFollow, CreateActionFollow, ReadActionFollow,
     SaveActionFollow, SaveStepFollow, RunAgentFollow, NotifyFollow, EscalateFollow,
     SweepNextFollow
  DEF Proceed
<1>4. ~ (failures < MaxFailures)
  BY CapAssumption DEF RunInv, TypeOK
<1>5. QED
  BY <1>1, <1>2, <1>3, <1>4 DEF Next, Fails, Crash

(* Without requests nothing moves.                                         *)
Deserted == Request = {} => AllInStep({}) /\ AtRest

LEMMA DesertedStays ==
  Serial /\ MaxFailures = 0 => (RunInv /\ Deserted /\ [Next]_vars => Deserted')
<1> SUFFICES ASSUME MaxFailures = 0, RunInv, Deserted, [Next]_vars, Request = {}
             PROVE  (AllInStep({}) /\ AtRest)'
  BY DEF Deserted
<1>1. UNCHANGED vars
  BY DEF Next, Crash
<1>2. UNCHANGED <<task, steps, actions>>
  BY <1>1 DEF vars
<1>3. QED
  BY <1>2, FrozenRows DEF Deserted

(* When all calls have returned the invariant says what it says of a       *)
(* request that is idle.                                                   *)
LEMMA QuietKept ==
  ASSUME FollowInv, Deserted, Quiet
  PROVE  AllInStep({}) /\ AtRest
<1> SUFFICES ASSUME NEW r \in Request PROVE AllInStep({}) /\ AtRest
  BY DEF Deserted
<1>1. OthersIdle(r) /\ req[r] = Idle
  BY DEF Quiet, OthersIdle
<1>2. Kept(Idle)
  BY <1>1 DEF FollowInv
<1>3. QED
  BY <1>2, IdleFacts DEF Kept, OnHand, Moving

FollowSafe == RunInv /\ SerialInv /\ FollowInv /\ Deserted

LEMMA FollowSafety == Serial /\ MaxFailures = 0 => (Spec => []FollowSafe)
<1> SUFFICES ASSUME Serial, MaxFailures = 0 PROVE Spec => []FollowSafe
  OBVIOUS
<1>1. Init => FollowSafe
  BY InitEstablishes, InitSerial, InitFollow DEF FollowSafe, Deserted
<1>2. FollowSafe /\ [Next]_vars => FollowSafe'
  BY NextKeeps, NextSerial, NextFollow, DesertedStays DEF FollowSafe
<1>3. QED
  BY <1>1, <1>2, PTL DEF Spec

(* One call at a time, each to its end: when all calls have returned, a    *)
(* step's row has not fallen behind its action, although the row that is   *)
(* written comes from a copy that was read before the calls inside it ran  *)
(* and retried, failed or resolved the same step.                          *)
THEOREM StepsFollowActions ==
  Serial /\ MaxFailures = 0 => (Spec => []StepFollowsAction)
<1> SUFFICES ASSUME Serial, MaxFailures = 0 PROVE Spec => []StepFollowsAction
  OBVIOUS
<1>1. Spec => []FollowSafe
  BY FollowSafety
<1>2. FollowSafe => StepFollowsAction
  <2>1. SUFFICES ASSUME FollowInv, Deserted, Quiet, NEW s \in Step PROVE Follows(s)
    BY DEF FollowSafe, StepFollowsAction, Follows
  <2>2. QED
    BY <2>1, QuietKept DEF AllInStep, InStep
<1>3. QED
  BY <1>1, <1>2, PTL

(* One call at a time, each to its end: when all calls have returned, a    *)
(* running task has no step left that could be dispatched, and is not      *)
(* fully resolved; a step that failed was retried as often as it may be,   *)
(* by one of the calls inside the call that saw it fail.                   *)
THEOREM NothingIsForgotten ==
  Serial /\ MaxFailures = 0 => (Spec => []NothingForgotten)
<1> SUFFICES ASSUME Serial, MaxFailures = 0 PROVE Spec => []NothingForgotten
  OBVIOUS
<1>1. Spec => []FollowSafe
  BY FollowSafety
<1>2. FollowSafe => NothingForgotten
  <2>1. SUFFICES ASSUME FollowInv, Deserted, Quiet, task = "RUNNING"
                 PROVE  (\A s \in Step : ~ Due(s)) /\ ~ AllDone
    BY DEF FollowSafe, NothingForgotten, Due, AllDone
  <2>2. QED
    BY <2>1, QuietKept DEF AtRest
<1>3. QED
  BY <1>1, <1>2, PTL

=============================================================================
