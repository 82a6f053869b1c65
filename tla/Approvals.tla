----------------------------- MODULE Approvals -----------------------------
(***************************************************************************)
(* Approvals (application/approval and the handlers in front of it): an    *)
(* operation on a task or on an action that a workflow gates is stored as  *)
(* an approval; users decide it, and the decision that reaches the         *)
(* threshold runs the operation.  Handlers run side by side with no        *)
(* transaction: an action of this module is one statement with the         *)
(* computation around it.  What an operation does after its first write    *)
(* (module TaskRun) is one more statement here.                            *)
(***************************************************************************)
EXTENDS Naturals, FiniteSets, Lifecycles

CONSTANTS
  Request,      \* handlers that may be busy at the same time
  Approval,     \* ids of approvals
  User,         \* users, agents among them
  Role,         \* Role[u]
  Owner,        \* Owner[u]: the human an agent belongs to; "none" for humans
  Admin,        \* the role of administrators
  Gate,         \* Gate[op]: the requirement as the workflow spells it, roles in capitals
  Operation,    \* the operations requested
  MaxCalls,     \* bound: how many requests are sent
  MaxAsks,      \* bound: how many of them, the first ones, ask for an operation
  MaxFailures   \* bound: how many statements fail or crashes happen

AllOperations ==
  {"TASK_START", "TASK_CANCEL", "STEP_ACK", "STEP_RESOLVE", "ACTION_ACK", "ACTION_RESOLVE"}

ASSUME OperationAssumption == Operation \subseteq AllOperations
ASSUME CapAssumption == {MaxCalls, MaxAsks, MaxFailures} \subseteq Nat
ASSUME UserAssumption == IsFiniteSet(User) /\ "none" \notin User
ASSUME ApprovalAssumption == "none" \notin Approval
ASSUME GateAssumption == \A op \in AllOperations : Gate[op].enabled \in BOOLEAN /\ Gate[op].min \in Nat

VARIABLES
  approvals,  \* table approvals
  decisions,  \* table approval_decisions
  entity,     \* status of the task and of the action operated on
  req,        \* what each handler is doing
  calls, failures,
  effects,    \* history: the operations that took effect, by whom, for which approval
  runs,       \* history: how often an approval's operation took effect
  settled,    \* history: approvals once stored as EXECUTED or FAILED
  disturbed   \* history: approvals with overlapping decisions or a failed call

vars == <<approvals, decisions, entity, req, calls, failures, effects, runs, settled, disturbed>>
history == <<effects, runs, settled, disturbed>>

----------------------------------------------------------------------------
(* Who needs an approval, and from whom.                                   *)

IsAgent(u) == Owner[u] # "none"

\* X-Actor: a user acts as itself or as an agent it owns, an admin as any.
ActsAs(u) == {u} \cup {x \in User : IsAgent(x) /\ (Role[u] = Admin \/ Owner[x] = u)}

\* normalizeRequirement: what the workflow leaves out has a default.
Requirement(op) ==
  [enabled |-> Gate[op].enabled,
   applies |-> IF Gate[op].applies = "" THEN "BOTH" ELSE Gate[op].applies,
   min |-> IF Gate[op].min = 0 THEN 1 ELSE Gate[op].min,
   roles |-> IF Gate[op].roles = {} THEN {Admin} ELSE Gate[op].roles]

Requires(op, u) ==
  /\ Requirement(op).enabled
  /\ CASE Requirement(op).applies = "HUMAN" -> ~ IsAgent(u)
       [] Requirement(op).applies = "AGENT" -> IsAgent(u)
       [] OTHER -> TRUE

----------------------------------------------------------------------------
(* Rows.                                                                   *)

Decision == {"APPROVE", "REJECT"}
NoApproval ==
  [status |-> "NONE", op |-> "none", by |-> "none", min |-> 1, roles |-> {},
   yes |-> 0, no |-> 0]
NewApproval(op, u) ==
  [NoApproval EXCEPT !.status = "PENDING", !.op = op, !.by = u,
                     !.min = Requirement(op).min, !.roles = Requirement(op).roles]

Recorded(a, d) == {x \in decisions : x.approval = a /\ x.decision = d}

\* Mutant: every decision counts as an approval.
CountAll(row, a) ==
  [row EXCEPT !.yes = Cardinality({x \in decisions : x.approval = a}),
              !.no = Cardinality(Recorded(a, "REJECT"))]

\* Mutant: the count of the row that was read, plus one.
CountFromRow(row, a) == [row EXCEPT !.yes = @ + 1]

\* CountDecisions, into the row read before.
Counted(row, a) ==
  [row EXCEPT !.yes = Cardinality(Recorded(a, "APPROVE")),
              !.no = Cardinality(Recorded(a, "REJECT"))]

\* Mutant: more approvals than asked for are needed.
StrictVerdict(row, d) ==
  CASE d = "REJECT" -> "REJECTED"
    [] d = "APPROVE" /\ row.yes > row.min -> "APPROVED"
    [] OTHER -> row.status

\* The status a decision gives to the row; below the threshold it stays as
\* it was read.
Verdict(row, d) ==
  CASE d = "REJECT" -> "REJECTED"
    [] d = "APPROVE" /\ row.yes >= row.min -> "APPROVED"
    [] OTHER -> row.status

\* The entity an operation is about and the status it moves it to.
Target(op) == IF op \in {"TASK_START", "TASK_CANCEL"} THEN "task" ELSE "action"
Goal(op) ==
  CASE op = "TASK_START" -> "RUNNING"
    [] op = "TASK_CANCEL" -> "CANCELLED"
    [] op \in {"STEP_ACK", "ACTION_ACK"} -> "ACKED"
    [] op \in {"STEP_RESOLVE", "ACTION_RESOLVE"} -> "RESOLVED"
Allowed(op) ==
  Goal(op) \in IF Target(op) = "task" THEN TaskMoves[entity.task] ELSE ActionMoves[entity.action]

----------------------------------------------------------------------------
(* Requests.                                                               *)

Idle == [pc |-> "idle", op |-> "none", by |-> "none", id |-> "none",
         decision |-> "none", row |-> NoApproval]
At(r, pc) == req[r].pc = pc
Goto(r, q) == req' = [req EXCEPT ![r] = q]
Deciding(r, a) == req[r].id = a /\ req[r].decision # "none"

Begin(r) == req[r] = Idle /\ calls < MaxCalls /\ calls' = calls + 1

\* A handler of a gated operation reads the entity and the requirement of
\* its workflow: an approval is created, or the operation runs at once.
Ask(r, op) ==
  /\ op \in Operation
  /\ Begin(r) /\ calls < MaxAsks
  /\ \E u \in User : \E actor \in ActsAs(u) :
       Goto(r, [Idle EXCEPT !.pc = IF Requires(op, actor) THEN "create" ELSE "check",
                            !.op = op, !.by = actor])
  /\ UNCHANGED <<approvals, decisions, entity, failures, history>>

StartTask(r) == Ask(r, "TASK_START")
CancelTask(r) == Ask(r, "TASK_CANCEL")
AckStep(r) == Ask(r, "STEP_ACK")
ResolveStep(r) == Ask(r, "STEP_RESOLVE")
AckAction(r) == Ask(r, "ACTION_ACK")
ResolveAction(r) == Ask(r, "ACTION_RESOLVE")

CreateApproval(r) ==
  /\ At(r, "create")
  /\ \E a \in {x \in Approval : approvals[x] = NoApproval} :
       approvals' = [approvals EXCEPT ![a] = NewApproval(req[r].op, req[r].by)]
  /\ Goto(r, Idle)
  /\ UNCHANGED <<decisions, entity, calls, failures, history>>

\* Decide: nothing happens unless the approval is pending and the role fits.
Decide(r) ==
  /\ Begin(r)
  /\ \E u \in User, a \in Approval, d \in Decision :
       /\ approvals[a].status = "PENDING"
       /\ Role[u] \in approvals[a].roles
       /\ Goto(r, [Idle EXCEPT !.pc = "lookup", !.by = u, !.id = a, !.decision = d,
                               !.op = approvals[a].op, !.row = approvals[a]])
       /\ disturbed' = IF \E other \in Request : Deciding(other, a)
                       THEN disturbed \cup {a} ELSE disturbed
  /\ UNCHANGED <<approvals, decisions, entity, failures, effects, runs, settled>>

Decided(r) == \E x \in decisions : x.approval = req[r].id /\ x.by = req[r].by

HasDecision(r) ==
  /\ At(r, "lookup")
  /\ Goto(r, IF Decided(r) THEN Idle ELSE [req[r] EXCEPT !.pc = "record"])
  /\ UNCHANGED <<approvals, decisions, entity, calls, failures, history>>

\* (approval_id, decided_by) is unique: a second insert fails.
CreateDecision(r) ==
  /\ At(r, "record")
  /\ IF Decided(r) THEN UNCHANGED decisions /\ Goto(r, Idle)
     ELSE /\ decisions' = decisions \cup
               {[approval |-> req[r].id, by |-> req[r].by, decision |-> req[r].decision]}
          /\ Goto(r, [req[r] EXCEPT !.pc = "count"])
  /\ UNCHANGED <<approvals, entity, calls, failures, history>>

CountDecisions(r) ==
  /\ At(r, "count")
  /\ Goto(r, [req[r] EXCEPT !.pc = "update", !.row = Counted(@, req[r].id)])
  /\ UNCHANGED <<approvals, decisions, entity, calls, failures, history>>

\* The whole row as this call knows it, with the verdict.
UpdateApproval(r) ==
  /\ At(r, "update")
  /\ LET q == req[r]
         row == [q.row EXCEPT !.status = Verdict(q.row, q.decision)]
     IN  /\ approvals' = [approvals EXCEPT ![q.id] = row]
         /\ Goto(r, IF row.status = "APPROVED" THEN [q EXCEPT !.pc = "check", !.row = row] ELSE Idle)
  /\ UNCHANGED <<decisions, entity, calls, failures, history>>

\* The operation returns; the approval it was run for is EXECUTED or FAILED.
Ends(r, status) ==
  IF req[r].id = "none" THEN Idle ELSE [req[r] EXCEPT !.pc = "finish", !.row.status = status]

\* The operation: the entity is read and the move checked ...
Check(r) ==
  /\ At(r, "check")
  /\ Goto(r, IF Allowed(req[r].op) THEN [req[r] EXCEPT !.pc = "perform"] ELSE Ends(r, "FAILED"))
  /\ UNCHANGED <<approvals, decisions, entity, calls, failures, history>>

\* ... its status is written ...
Perform(r) ==
  /\ At(r, "perform")
  /\ LET q == req[r]
     IN  /\ entity' = [entity EXCEPT ![Target(q.op)] = Goal(q.op)]
         /\ effects' = effects \cup {[op |-> q.op, by |-> q.by, id |-> q.id]}
         /\ runs' = IF q.id = "none" THEN runs ELSE [runs EXCEPT ![q.id] = @ + 1]
         /\ Goto(r, [q EXCEPT !.pc = "follow"])
  /\ UNCHANGED <<approvals, decisions, calls, failures, settled, disturbed>>

\* ... and the rest of it runs.
FollowUp(r) ==
  /\ At(r, "follow")
  /\ Goto(r, Ends(r, "EXECUTED"))
  /\ UNCHANGED <<approvals, decisions, entity, calls, failures, history>>

Finish(r) ==
  /\ At(r, "finish")
  /\ approvals' = [approvals EXCEPT ![req[r].id] = req[r].row]
  /\ settled' = settled \cup {req[r].id}
  /\ Goto(r, Idle)
  /\ UNCHANGED <<decisions, entity, calls, failures, effects, runs, disturbed>>

\* A statement fails: an error in the operation fails the approval, one of
\* the last update is ignored, any other ends the call.
Fails(r) ==
  /\ failures < MaxFailures
  /\ ~ At(r, "idle")
  /\ failures' = failures + 1
  /\ Goto(r, IF req[r].pc \in {"check", "perform", "follow"} THEN Ends(r, "FAILED") ELSE Idle)
  /\ disturbed' = disturbed \cup ({req[r].id} \ {"none"})
  /\ UNCHANGED <<approvals, decisions, entity, calls, effects, runs, settled>>

\* The process stops and comes back: what the calls held in memory is gone.
Crash ==
  /\ failures < MaxFailures
  /\ \E r \in Request : req[r] # Idle
  /\ failures' = failures + 1
  /\ req' = [r \in Request |-> Idle]
  /\ disturbed' = disturbed \cup ({req[r].id : r \in Request} \ {"none"})
  /\ UNCHANGED <<approvals, decisions, entity, calls, effects, runs, settled>>

----------------------------------------------------------------------------
Init ==
  /\ approvals = [a \in Approval |-> NoApproval]
  /\ decisions = {}
  /\ entity = [task |-> "DRAFT", action |-> "DISPATCHED"]
  /\ req = [r \in Request |-> Idle]
  /\ calls = 0 /\ failures = 0
  /\ effects = {} /\ runs = [a \in Approval |-> 0] /\ settled = {} /\ disturbed = {}

Proceed(r) ==
  \/ CreateApproval(r) \/ HasDecision(r) \/ CreateDecision(r) \/ CountDecisions(r)
  \/ UpdateApproval(r) \/ Check(r) \/ Perform(r) \/ FollowUp(r) \/ Finish(r)

Next ==
  \/ \E r \in Request :
       \/ StartTask(r) \/ CancelTask(r) \/ AckStep(r) \/ ResolveStep(r)
       \/ AckAction(r) \/ ResolveAction(r) \/ Decide(r) \/ Proceed(r) \/ Fails(r)
  \/ Crash

Spec == Init /\ [][Next]_vars

\* A handler that can take its next statement eventually does.
FairSpec == Spec /\ \A r \in Request : WF_vars(Proceed(r))

----------------------------------------------------------------------------
(* Properties.                                                             *)

\* The approvals of an approval: distinct users whose role is asked for.
Voters(a) ==
  {u \in User : Role[u] \in approvals[a].roles /\ \E x \in Recorded(a, "APPROVE") : x.by = u}
Earned(a) == Cardinality(Voters(a)) >= approvals[a].min

RoleNames == {Role[u] : u \in User} \cup {Admin} \cup UNION {Gate[op].roles : op \in AllOperations}

\* Rows and calls are well formed (tables approvals, approval_decisions).
RowType ==
  [status: {"NONE", "PENDING", "APPROVED", "REJECTED", "EXECUTED", "FAILED"},
   op: AllOperations \cup {"none"}, by: User \cup {"none"}, min: Nat \ {0},
   roles: SUBSET RoleNames, yes: Nat, no: Nat]
RequestType ==
  [pc: {"idle", "create", "lookup", "record", "count", "update", "check", "perform", "follow",
        "finish"},
   op: AllOperations \cup {"none"}, by: User \cup {"none"}, id: Approval \cup {"none"},
   decision: Decision \cup {"none"}, row: RowType]
TypeOK ==
  /\ approvals \in [Approval -> RowType]
  /\ decisions \subseteq [approval: Approval, by: User, decision: Decision]
  /\ entity \in [task: DOMAIN TaskMoves, action: DOMAIN ActionMoves]
  /\ req \in [Request -> RequestType]
  /\ calls \in 0 .. MaxCalls /\ failures \in 0 .. MaxFailures
  /\ effects \subseteq [op: AllOperations, by: User, id: Approval \cup {"none"}]
  /\ runs \in [Approval -> Nat] /\ settled \cup disturbed \subseteq Approval

\* A gated operation takes effect only for an approval that enough distinct
\* users of the required roles approved, whatever else happens meanwhile; an
\* ungated one only for an actor the requirement exempts (requiresApproval).
NoBypass ==
  \A e \in effects :
    IF e.id = "none" THEN ~ Requires(e.op, e.by)
    ELSE approvals[e.id].op = e.op /\ Earned(e.id)

\* What a row says is what happened: a rejection is final and nothing ran,
\* enough approvals ran the operation exactly once, or it was refused.
SaysWhatHappened(a) ==
  LET row == approvals[a]
      rejected == Recorded(a, "REJECT") # {}
  IN  /\ row.yes = Cardinality(Recorded(a, "APPROVE"))
      /\ row.no = Cardinality(Recorded(a, "REJECT"))
      /\ CASE row.status = "EXECUTED" -> Earned(a) /\ ~ rejected /\ runs[a] = 1
           [] row.status = "FAILED" -> Earned(a) /\ ~ rejected /\ runs[a] = 0
           [] row.status = "REJECTED" -> rejected /\ runs[a] = 0
           [] row.status = "PENDING" -> ~ Earned(a) /\ ~ rejected /\ runs[a] = 0
           [] row.status = "APPROVED" -> FALSE
           [] OTHER -> runs[a] = 0

\* An approval decided by one call at a time, none of which failed, says what
\* happened whenever no call is at work on it: no decision is lost, none
\* counts twice and its operation never runs a second time.
DecidedOnce ==
  \A a \in Approval \ disturbed :
    (\A r \in Request : req[r].id # a) => SaysWhatHappened(a)

\* An approval with enough approvals is carried out and stored as executed or
\* failed (docs/21: once approved the operation is executed automatically),
\* however the deciders overlap, unless a statement fails or the process
\* crashes.  A decider that counted too early may store it as pending later.
EarnedIsExecuted ==
  \A a \in Approval :
    (approvals[a].status # "NONE" /\ Earned(a)) ~> (a \in settled \/ failures > 0)
=============================================================================
