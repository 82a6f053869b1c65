------------------------------ MODULE TaskRun ------------------------------
(***************************************************************************)
(* One task of a workflow: the task service (application/task), the        *)
(* orchestrator (application/orchestrator) and the action service          *)
(* (application/action) on the rows of the task, of its steps and of their *)
(* actions.  Requests run side by side with no transaction around them: an *)
(* action of this module is one statement with the computation around it.  *)
(* The orchestrator calls itself: a step that ends advances the task again *)
(* from inside the loop that dispatched it, so a request carries a stack   *)
(* of frames, each with its own copy of the rows it read.                  *)
(***************************************************************************)
EXTENDS Naturals, Sequences, Lifecycles

CONSTANTS
  Request,      \* handlers and sweeps that may be busy at the same time
  Step,         \* the steps of the workflow; a step and its action share an id
  Position,     \* their order in the definition
  DependsOn,    \* DependsOn[s]: the keys in s's depends_on, known or not
  Edge,         \* the edges [from, to, when]: "when" is what its condition
                \* evaluates to in the task's context
  Agent,        \* steps an agent runs; the others send a notification
  Timed,        \* steps with a timeout
  Escalated,    \* steps whose on_fail escalates
  MaxRetries,   \* max_retries of each step
  Operation,    \* which requests are sent
  Serial,       \* TRUE: a request begins only when no other is busy
  MaxCalls,     \* bound: how many requests are sent
  MaxFailures   \* bound: how many statements fail or crashes happen

ASSUME PositionAssumption ==
  /\ Position \in [Step -> Nat]
  /\ \A s, t \in Step : Position[s] = Position[t] => s = t
ASSUME SubsetAssumption == Agent \cup Timed \cup Escalated \subseteq Step
ASSUME RetriesAssumption == MaxRetries \in [Step -> Nat]
ASSUME CapAssumption == MaxCalls \in Nat /\ MaxFailures \in Nat /\ Serial \in BOOLEAN

VARIABLES
  task,      \* status in table tasks; CreateTask left it in DRAFT
  steps,     \* table task_steps: status and retry_count
  actions,   \* table actions: status and retry_count
  notes,     \* notes[s]: status of the latest notification of s's action
  req,       \* what each request is doing
  calls, failures,
  resolved   \* history: the steps whose action was once stored as RESOLVED

vars == <<task, steps, actions, notes, req, calls, failures, resolved>>

----------------------------------------------------------------------------
(* Rows.                                                                   *)

Status == DOMAIN ActionMoves
NoRow == [status |-> "NONE", retry |-> 0]
Row == [status: Status \cup {"NONE"}, retry: Nat]
New == [status |-> "CREATED", retry |-> 0]

\* The retries an action allows: CreateForStep turns none into three.
ActionRetries(s) == IF MaxRetries[s] = 0 THEN 3 ELSE MaxRetries[s]

\* Action a of step s may move to a status; back to CREATED only as a retry.
MayBecome(a, s, to) ==
  /\ a.status # "NONE"
  /\ to \in ActionMoves[a.status]
  /\ to = "CREATED" => a.retry < ActionRetries(s)

\* A row after the move; a failure counts.
Became(row, to) ==
  [status |-> to, retry |-> IF to = "FAILED" THEN row.retry + 1 ELSE row.retry]

----------------------------------------------------------------------------
(* The workflow.                                                           *)

\* An edge binds unless its condition is false or cannot be evaluated.
Binds(e) == e.when \in {"always", "true"}

Dependencies(s) == DependsOn[s] \cup {e.from : e \in {x \in Edge : x.to = s /\ Binds(x)}}

\* Mutant: a dependency counts as soon as its step was dispatched.
ReadyWhenDispatched(rows, s) ==
  \A d \in Dependencies(s) : d \in Step /\ rows[d].status \in {"DISPATCHED", "RESOLVED"}

\* Every dependency of s is a step, resolved in the rows at hand.
Ready(rows, s) ==
  \A d \in Dependencies(s) : d \in Step /\ rows[d].status = "RESOLVED"

Dispatchable(row, s) ==
  \/ row.status = "CREATED"
  \/ row.status = "FAILED" /\ row.retry < MaxRetries[s]

\* Mutant: failed steps do not keep the task from completing.
NoneLeft(rows) == \A s \in Step : rows[s].status \in {"RESOLVED", "NONE", "FAILED"}

\* Every step that was read is resolved; also so when none was read.
AllResolved(rows) == \A s \in Step : rows[s].status \in {"RESOLVED", "NONE"}

----------------------------------------------------------------------------
(* Requests.                                                               *)

\* A frame is a call with the rows it read: of AdvanceTask ("advance"), of
\* ProcessTimeouts ("sweep"), of createSteps ("create"), of a handler on a
\* step ("call") or on an action alone ("direct").  cur is the row in hand.
NoRows == [s \in Step |-> NoRow]
Frame(kind, rows, todo) == [kind |-> kind, rows |-> rows, todo |-> todo, cur |-> "none"]

Idle == [pc |-> "idle", to |-> "none", act |-> NoRow, frames |-> <<>>]
At(r, pc) == req[r].pc = pc
Top(r) == req[r].frames[Len(req[r].frames)]
Below(q) == SubSeq(q.frames, 1, Len(q.frames) - 1)
WithTop(q, f) == [q EXCEPT !.frames[Len(q.frames)] = f]
Goto(r, q) == req' = [req EXCEPT ![r] = q]

\* AdvanceTask is called: its first statement reads the task.
Advance(q) ==
  [q EXCEPT !.pc = "advance.task",
            !.frames = Append(@, Frame("advance", NoRows, {}))]

\* The call on top of the stack returns, with or without an error: the loop
\* that called it goes on, a handler is done.
Return(q) ==
  IF Len(q.frames) <= 1 \/ q.frames[Len(q.frames) - 1].kind = "call" THEN Idle
  ELSE [Idle EXCEPT !.pc = "loop", !.frames = Below(q)]

\* An error while a step is worked on: loops log it and go on.
GiveUp(q) ==
  IF q.frames # <<>> /\ q.frames[Len(q.frames)].kind \in {"advance", "sweep"}
  THEN [Idle EXCEPT !.pc = "loop", !.frames = q.frames]
  ELSE Idle

\* The action of the step in hand is to move.
Move(q, to) == [q EXCEPT !.pc = "action.read", !.to = to, !.act = NoRow]

Begin(r, op) ==
  /\ op \in Operation
  /\ req[r] = Idle
  /\ Serial => \A other \in Request : req[other] = Idle
  /\ calls < MaxCalls
  /\ calls' = calls + 1

rows == <<task, steps, actions, notes>>

\* StartTask and CancelTask read the task and check the move ...
ChangeTask(r, op, to) ==
  /\ Begin(r, op)
  /\ to \in TaskMoves[task]
  /\ Goto(r, [Idle EXCEPT !.pc = "task.save", !.to = to])
  /\ UNCHANGED <<rows, failures, resolved>>

StartTask(r) == ChangeTask(r, "start", "RUNNING")
CancelTask(r) == ChangeTask(r, "cancel", "CANCELLED")

\* ... and write the row they read.
SaveTask(r) ==
  /\ At(r, "task.save")
  /\ task' = req[r].to
  /\ Goto(r, IF req[r].to = "RUNNING" THEN [Idle EXCEPT !.pc = "plan"] ELSE Idle)
  /\ UNCHANGED <<steps, actions, notes, calls, failures, resolved>>

\* Orchestrator.StartTask: steps are created when the task has none.
PlanSteps(r) ==
  /\ At(r, "plan")
  /\ Goto(r, IF steps = NoRows
             THEN [Idle EXCEPT !.pc = "create", !.frames = <<Frame("create", NoRows, Step)>>]
             ELSE Advance(Idle))
  /\ UNCHANGED <<rows, calls, failures, resolved>>

First(S) == CHOOSE s \in S : \A t \in S : Position[s] <= Position[t]

\* createSteps: one insert per step, ON CONFLICT DO NOTHING.
CreateStep(r) ==
  /\ At(r, "create")
  /\ LET s == First(Top(r).todo)
         left == Top(r).todo \ {s}
     IN  /\ steps' = [steps EXCEPT ![s] = IF @ = NoRow THEN New ELSE @]
         /\ Goto(r, IF left = {} THEN Advance(Idle)
                    ELSE WithTop(req[r], [Top(r) EXCEPT !.todo = left]))
  /\ UNCHANGED <<task, actions, notes, calls, failures, resolved>>

\* DispatchStep: the manual nudge.
Nudge(r) ==
  /\ Begin(r, "dispatch")
  /\ Goto(r, Advance(Idle))
  /\ UNCHANGED <<rows, failures, resolved>>

\* Mutant: whatever the task's status, it is advanced.
AdvanceAnyTask(r) ==
  /\ At(r, "advance.task")
  /\ Goto(r, [req[r] EXCEPT !.pc = "advance.steps"])
  /\ UNCHANGED <<rows, calls, failures, resolved>>

\* AdvanceTask: nothing to do unless the task is running.
ReadTask(r) ==
  /\ At(r, "advance.task")
  /\ Goto(r, IF task = "RUNNING" THEN [req[r] EXCEPT !.pc = "advance.steps"] ELSE Return(req[r]))
  /\ UNCHANGED <<rows, calls, failures, resolved>>

ReadSteps(r) ==
  /\ At(r, "advance.steps")
  /\ Goto(r, [WithTop(req[r], Frame("advance", steps, {s \in Step : steps[s] # NoRow}))
                EXCEPT !.pc = "loop"])
  /\ UNCHANGED <<rows, calls, failures, resolved>>

\* The loop over the rows read: the next one to dispatch, with the rows as
\* this call has changed them; after the last, is every step resolved?
Loop(r) ==
  /\ At(r, "loop") /\ Top(r).kind = "advance"
  /\ LET f == Top(r)
         due == {s \in f.todo : Dispatchable(f.rows[s], s) /\ Ready(f.rows, s)}
         s == First(due)
         g == [f EXCEPT !.cur = s, !.todo = {t \in @ : Position[t] > Position[s]}]
     IN  Goto(r, IF due # {}
                 THEN IF f.rows[s].status = "FAILED" THEN Move(WithTop(req[r], g), "CREATED")
                      ELSE [WithTop(req[r], g) EXCEPT !.pc = "action.get"]
                 ELSE IF AllResolved(f.rows) THEN [req[r] EXCEPT !.pc = "complete"]
                 ELSE Return(req[r]))
  /\ UNCHANGED <<rows, calls, failures, resolved>>

\* The task row read at the start of the call is written as COMPLETED.
Complete(r) ==
  /\ At(r, "complete")
  /\ task' = "COMPLETED"
  /\ Goto(r, Return(req[r]))
  /\ UNCHANGED <<steps, actions, notes, calls, failures, resolved>>

\* dispatchStep: the action is created unless it exists, then dispatched.
GetAction(r) ==
  /\ At(r, "action.get")
  /\ Goto(r, IF actions[Top(r).cur] = NoRow THEN [req[r] EXCEPT !.pc = "action.create"]
             ELSE Move(req[r], "DISPATCHING"))
  /\ UNCHANGED <<rows, calls, failures, resolved>>

\* CreateForStep: action_id is unique, a second insert fails.
CreateAction(r) ==
  /\ At(r, "action.create")
  /\ LET s == Top(r).cur
     IN  IF actions[s] = NoRow
         THEN actions' = [actions EXCEPT ![s] = New] /\ Goto(r, Move(req[r], "DISPATCHING"))
         ELSE UNCHANGED actions /\ Goto(r, GiveUp(req[r]))
  /\ UNCHANGED <<task, steps, notes, calls, failures, resolved>>

\* Mutant: when the action refuses, the step moves all the same.
IgnoreRefusal(r) ==
  /\ At(r, "action.read")
  /\ LET s == Top(r).cur
         q == req[r]
     IN  Goto(r, IF MayBecome(actions[s], s, q.to)
                 THEN [q EXCEPT !.pc = "action.save", !.act = Became(actions[s], q.to)]
                 ELSE [WithTop(q, [Top(r) EXCEPT !.rows[s] = Became(@, q.to)])
                         EXCEPT !.pc = "step.save"])
  /\ UNCHANGED <<rows, calls, failures, resolved>>

\* Every operation of the action service reads the action and checks the
\* move ...
ReadAction(r) ==
  /\ At(r, "action.read")
  /\ LET s == Top(r).cur
         q == req[r]
     IN  Goto(r, IF MayBecome(actions[s], s, q.to)
                 THEN [q EXCEPT !.pc = "action.save", !.act = Became(actions[s], q.to)]
                 ELSE GiveUp(q))
  /\ UNCHANGED <<rows, calls, failures, resolved>>

\* ... and writes back the row it read.  Then the step in hand follows in
\* memory; a dispatch is confirmed first, a handler of the action is done.
SaveAction(r) ==
  /\ At(r, "action.save")
  /\ LET f == Top(r)
         s == f.cur
         q == req[r]
     IN  /\ actions' = [actions EXCEPT ![s] = q.act]
         /\ resolved' = IF q.to = "RESOLVED" THEN resolved \cup {s} ELSE resolved
         /\ Goto(r, IF f.kind = "direct" THEN Idle
                    ELSE IF q.to = "DISPATCHING" THEN Move(q, "DISPATCHED")
                    ELSE [WithTop(q, [f EXCEPT !.rows[s] = Became(@, q.to)])
                            EXCEPT !.pc = "step.save", !.act = NoRow])
  /\ UNCHANGED <<task, steps, notes, calls, failures>>

\* Mutant: after a failure the task is not advanced.
StopOnFailure(q, s) ==
  CASE q.to = "CREATED" -> [q EXCEPT !.pc = "action.get"]
    [] q.to = "DISPATCHED" -> [q EXCEPT !.pc = IF s \in Agent THEN "run" ELSE "note"]
    [] q.to = "FAILED" -> GiveUp(q)
    [] OTHER -> Advance(q)

\* What follows once the step is stored.
After(q, s) ==
  CASE q.to = "CREATED" -> [q EXCEPT !.pc = "action.get"]
    [] q.to = "DISPATCHED" -> [q EXCEPT !.pc = IF s \in Agent THEN "run" ELSE "note"]
    [] q.to = "FAILED" /\ s \in Escalated -> [q EXCEPT !.pc = "escalate"]
    [] OTHER -> Advance(q)

\* stepRepo.Update: the whole row as this call knows it.
SaveStep(r) ==
  /\ At(r, "step.save")
  /\ LET s == Top(r).cur
     IN  /\ steps' = [steps EXCEPT ![s] = Top(r).rows[s]]
         /\ Goto(r, After(req[r], s))
  /\ UNCHANGED <<task, actions, notes, calls, failures, resolved>>

\* The agent's run ends: resolveStep or failStep.
RunAgent(r) ==
  /\ At(r, "run")
  /\ \E to \in {"RESOLVED", "FAILED"} : Goto(r, Move(req[r], to))
  /\ UNCHANGED <<rows, calls, failures, resolved>>

\* CreateFromAction and SendNotification: what is there is not sent again
\* unless it is pending.
Notify(r) ==
  /\ At(r, "note")
  /\ LET s == Top(r).cur
     IN  IF notes[s] \in {"none", "PENDING"}
         THEN \E sent \in {"DELIVERED", "FAILED"} : notes' = [notes EXCEPT ![s] = sent]
         ELSE UNCHANGED notes
  /\ Goto(r, GiveUp(req[r]))
  /\ UNCHANGED <<task, steps, actions, calls, failures, resolved>>

\* handleOnFail: a notification of its own, then the task advances.
Escalate(r) ==
  /\ At(r, "escalate")
  /\ \E sent \in {"DELIVERED", "FAILED"} : notes' = [notes EXCEPT ![Top(r).cur] = sent]
  /\ Goto(r, Advance(req[r]))
  /\ UNCHANGED <<task, steps, actions, calls, failures, resolved>>

\* AckStep, ResolveStep, FailStep read the step, then its action.
OnStep(r, op, s, to) ==
  /\ Begin(r, op)
  /\ steps[s] # NoRow
  /\ Goto(r, Move([Idle EXCEPT !.frames =
       <<[Frame("call", [NoRows EXCEPT ![s] = steps[s]], {}) EXCEPT !.cur = s]>>], to))
  /\ UNCHANGED <<rows, failures, resolved>>

AckStep(r) == \E s \in Step : OnStep(r, "ack", s, "ACKED")
ResolveStep(r) == \E s \in Step : OnStep(r, "resolve", s, "RESOLVED")
FailStep(r) == \E s \in Step : OnStep(r, "fail", s, "FAILED")

\* AcknowledgeAction and ResolveAction called for an action, not for a step.
OnAction(r, to) ==
  /\ Begin(r, "action")
  /\ \E s \in Step : Goto(r, Move([Idle EXCEPT !.frames =
       <<[Frame("direct", NoRows, {}) EXCEPT !.cur = s]>>], to))
  /\ UNCHANGED <<rows, failures, resolved>>

AckAction(r) == OnAction(r, "ACKED")
ResolveAction(r) == OnAction(r, "RESOLVED")

\* ProcessTimeouts: the steps listed as late, failed one after the other.
Sweep(r) ==
  /\ Begin(r, "sweep")
  /\ \E late \in (SUBSET {s \in Timed : steps[s].status \in {"DISPATCHED", "ACKED"}}) \ {{}} :
       Goto(r, [Idle EXCEPT !.pc = "loop", !.frames =
         <<Frame("sweep", [s \in Step |-> IF s \in late THEN steps[s] ELSE NoRow], late)>>])
  /\ UNCHANGED <<rows, failures, resolved>>

\* Mutant: the sweep stays with a step until it has failed.
SweepInsists(r) ==
  /\ At(r, "loop") /\ Top(r).kind = "sweep"
  /\ IF \A s \in Top(r).todo : steps[s].status \notin {"DISPATCHED", "ACKED"} THEN Goto(r, Idle)
     ELSE \E s \in Top(r).todo : Goto(r, Move(WithTop(req[r], [Top(r) EXCEPT !.cur = s]), "FAILED"))
  /\ UNCHANGED <<rows, calls, failures, resolved>>

SweepNext(r) ==
  /\ At(r, "loop") /\ Top(r).kind = "sweep"
  /\ IF Top(r).todo = {} THEN Goto(r, Idle)
     ELSE \E s \in Top(r).todo :
            Goto(r, Move(WithTop(req[r], [Top(r) EXCEPT !.cur = s, !.todo = @ \ {s}]), "FAILED"))
  /\ UNCHANGED <<rows, calls, failures, resolved>>

\* A statement fails: the error ends the call it was made for.  A failed
\* escalation is logged, a failed completion ignored.
Fails(r) ==
  /\ failures < MaxFailures
  /\ req[r].pc \notin {"idle", "loop", "run"}
  /\ failures' = failures + 1
  /\ Goto(r, CASE req[r].pc \in {"advance.task", "advance.steps", "complete"} -> Return(req[r])
               [] req[r].pc = "escalate" -> Advance(req[r])
               [] OTHER -> GiveUp(req[r]))
  /\ UNCHANGED <<rows, calls, resolved>>

\* The process stops and comes back: what the requests held in memory is gone.
Crash ==
  /\ failures < MaxFailures
  /\ \E r \in Request : req[r] # Idle
  /\ failures' = failures + 1
  /\ req' = [r \in Request |-> Idle]
  /\ UNCHANGED <<rows, calls, resolved>>

----------------------------------------------------------------------------
Init ==
  /\ task = "DRAFT"
  /\ steps = NoRows
  /\ actions = NoRows
  /\ notes = [s \in Step |-> "none"]
  /\ req = [r \in Request |-> Idle]
  /\ calls = 0 /\ failures = 0
  /\ resolved = {}

\* The next statement of a request under way.
Proceed(r) ==
  \/ SaveTask(r) \/ PlanSteps(r) \/ CreateStep(r)
  \/ ReadTask(r) \/ ReadSteps(r) \/ Loop(r) \/ Complete(r)
  \/ GetAction(r) \/ CreateAction(r) \/ ReadAction(r) \/ SaveAction(r) \/ SaveStep(r)
  \/ RunAgent(r) \/ Notify(r) \/ Escalate(r) \/ SweepNext(r)

Arrive(r) ==
  \/ StartTask(r) \/ CancelTask(r) \/ Nudge(r) \/ Sweep(r)
  \/ AckStep(r) \/ ResolveStep(r) \/ FailStep(r) \/ AckAction(r) \/ ResolveAction(r)

Next == (\E r \in Request : Arrive(r) \/ Proceed(r) \/ Fails(r)) \/ Crash

Spec == Init /\ [][Next]_vars

\* A handler that can take its next statement eventually does.
Fairness == \A r \in Request : WF_vars(Proceed(r))
FairSpec == Spec /\ Fairness
----------------------------------------------------------------------------
(* Properties.                                                             *)

\* What the rows and the calls look like (tables tasks, task_steps, actions).
FrameType ==
  [kind: {"advance", "sweep", "create", "call", "direct"}, rows: [Step -> Row],
   todo: SUBSET Step, cur: Step \cup {"none"}]
Pc == {"idle", "task.save", "plan", "create", "advance.task", "advance.steps", "loop",
       "complete", "action.get", "action.create", "action.read", "action.save",
       "step.save", "run", "note", "escalate"}
ReqType ==
  [pc: Pc, to: Status \cup {"none", "RUNNING", "CANCELLED"}, act: Row, frames: Seq(FrameType)]

\* Type invariant of the service's rows and of its calls.
TypeOK ==
  /\ task \in DOMAIN TaskMoves
  /\ steps \in [Step -> Row] /\ actions \in [Step -> Row]
  /\ notes \in [Step -> {"none", "PENDING", "DELIVERED", "FAILED"}]
  /\ req \in [Request -> ReqType]
  /\ calls \in 0 .. MaxCalls /\ failures \in 0 .. MaxFailures
  /\ resolved \subseteq Step

Quiet == \A r \in Request : req[r] = Idle

\* A step has an action only after every step it depends on was resolved:
\* however many requests advance the task from rows they read earlier, from
\* inside one another, with failures in between (AdvanceTask's "ready").
DependenciesFirst ==
  \A s \in Step : actions[s] # NoRow => Dependencies(s) \subseteq resolved

\* A step is stored as resolved only after its action was (resolveStep and
\* ResolveStep move the action first), whichever stale row is written back.
StepsAreEarned == \A s \in Step : steps[s].status = "RESOLVED" => s \in resolved

\* A task is completed only when each step of its workflow is resolved (the
\* comment "Check if all steps resolved" of AdvanceTask), though the decision
\* is taken on rows read before the nested calls ran.
CompletedIsDone ==
  task = "COMPLETED" => \A s \in Step : steps[s].status = "RESOLVED"

\* Nothing is forgotten: when all calls have returned, a running task has no
\* step left that could be dispatched, and is not fully resolved.
NothingForgotten ==
  Quiet /\ task = "RUNNING" =>
    /\ \A s \in Step : ~ (Dispatchable(steps[s], s) /\ Ready(steps, s))
    /\ \E s \in Step : steps[s].status # "RESOLVED"

\* The step's row never falls behind its action once all calls have returned:
\* the two differ only before the first dispatch and after a direct call on
\* the action (AcknowledgeAction, ResolveAction leave the step as it is).
StepFollowsAction ==
  Quiet => \A s \in Step :
    \/ actions[s] = NoRow /\ steps[s] \in {NoRow, New}
    \/ actions[s].retry = steps[s].retry /\
       \/ actions[s].status = steps[s].status
       \/ "action" \in Operation /\
          <<steps[s].status, actions[s].status>> \in
            {<<"DISPATCHED", "ACKED">>, <<"DISPATCHED", "RESOLVED">>, <<"ACKED", "RESOLVED">>}

\* A task never leaves a status without moves out of it (CanTransitionTo).
TerminalIsFinal == [][TaskMoves[task] = {} => task' = task]_task

\* Every call returns: the retries inside the calls inside the calls end
\* (dispatchStep, failStep and AdvanceTask call one another).
EveryCallEnds == \A r \in Request : (req[r] # Idle) ~> (req[r] = Idle)
============================================================================
