--------------------------- MODULE CollabService ---------------------------
(***************************************************************************)
(* The v2 collaboration service (application/collab/service.go): requests  *)
(* that run side by side without a transaction around them, each a         *)
(* sequence of statements on the tables of CollabStore, and the scan for   *)
(* lapsed claims.  An action is one statement with the computation that    *)
(* precedes it; lookups of rows that never change (participant, session)   *)
(* go with the statement after them, time.Now() with the query it is       *)
(* passed to.  Between any two actions of a request others may run, time   *)
(* may pass, or the request may end: a failing statement, a cancelled      *)
(* context or a crash of the process.                                      *)
(***************************************************************************)
EXTENDS CollabStore, FiniteSetsExt

CONSTANTS
  Request,      \* handlers that may be busy at the same time
  Scanner,      \* callers of ProcessExpiredClaims; with Scanner = Request = {r},
                \* requests and scans come one at a time
  Roster,       \* the capabilities of those who joined before, None for the rest
  Leases,       \* lengths of leases: the lease asked for or the step's TTL
  Deadlines,    \* deadlines of decisions, None among them
  Operation,    \* which requests are sent
  MaxArtifacts, \* bound: versions of a step's artifact
  MaxStamp,     \* bound: how often a decision's creation time is taken
  MaxTime,      \* bound: the clock and every lease end here
  MaxFailures   \* bound: how many statements fail

ASSUME RosterAssumption == Roster \in [Participant -> SUBSET Capability \cup {None}]
ASSUME LeasesAssumption == Leases \subseteq Nat \ {0}
ASSUME DeadlinesAssumption == Deadlines \subseteq Nat \cup {None}
ASSUME BoundsAssumption == {MaxArtifacts, MaxStamp, MaxTime, MaxFailures} \subseteq Nat

VARIABLES
  clock,
  req,       \* req[r]: where the request is and what it remembers
  failures

steps == <<status, resolved>>
ballots == <<decisions, votes, cast>>
outcome == <<session, task>>
env == <<clock, failures>>
store == <<members, steps, claims, artifacts, ballots, outcome>>
vars == <<store, env, req>>

Proc == Request \cup Scanner
Idle == [pc |-> "idle"]

Local ==
  [pc: {"idle"}]
  \cup [pc: {"join"}, by: Participant, caps: SUBSET Capability]
  \cup [pc: {"claim.deps", "claim.look"}, step: Step, by: Participant]
  \cup [pc: {"claim.insert", "handoff.insert"}, step: Step, by: Participant, until: Nat]
  \cup [pc: {"claim.store", "release.store", "handoff.store", "submit.store"}, step: Step]
  \cup [pc: {"release"}, claim: ClaimId]
  \cup [pc: {"handoff"}, claim: ClaimId, to: Participant, until: Nat]
  \cup [pc: {"submit.version"}, step: Step, by: Participant]
  \cup [pc: {"submit.insert"}, step: Step, by: Participant, version: Nat]
  \cup [pc: {"open.look"}, step: Step]
  \cup [pc: {"open.insert"}, step: Step, created: Nat]
  \cup [pc: {"vote.insert"}, decision: DecisionId, by: Participant, choice: Choice]
  \cup [pc: {"vote.count"}, decision: DecisionId]
  \cup [pc: {"vote.store"}, decision: DecisionId, verdict: {"PENDING", "PASSED", "REJECTED"}]
  \cup [pc: {"resolve.gate", "resolve.find"}, step: Step, by: Participant \cup {None}]
  \cup [pc: {"resolve.release"}, step: Step, claim: ClaimId]
  \cup [pc: {"resolve.store"}, step: Step]
  \cup [pc: {"resolve.count", "resolve.session", "resolve.task"}]
  \cup [pc: {"scan"}, todo: SUBSET ClaimId]
  \cup [pc: {"scan.store"}, step: Step, todo: SUBSET ClaimId]

TypeOK ==
  /\ StoreTypeOK
  /\ clock \in 0..MaxTime
  /\ req \in [Proc -> Local]
  /\ failures \in 0..MaxFailures

(* What CreateSession leaves once all its inserts succeeded, and some      *)
(* participants joined.                                                    *)
Init ==
  /\ members = Roster
  /\ status = [s \in Step |-> "OPEN"]
  /\ claims = [c \in ClaimId |-> None]
  /\ artifacts = [s \in Step |-> <<>>]
  /\ decisions = [d \in DecisionId |-> None]
  /\ votes = [d \in DecisionId |-> [p \in Participant |-> None]]
  /\ session = "ACTIVE" /\ task = "RUNNING"
  /\ resolved = {} /\ cast = {}
  /\ clock = 0 /\ failures = 0
  /\ req = [r \in Proc |-> Idle]

At(r, pc) == req[r].pc = pc
Goto(r, local) == req' = [req EXCEPT ![r] = local]
Return(r) == Goto(r, Idle)

(* A request of kind op arrives.  One that is refused at once, having      *)
(* written nothing, is no step at all.                                     *)
Arrives(r, op) == r \in Request /\ op \in Operation /\ At(r, "idle")
Joined(p) == members[p] # None

-----------------------------------------------------------------------------
(* JoinSession: a ref that joined before is reused; of two that join at    *)
(* once, UNIQUE (session_id, ref) refuses the second.                      *)

JoinLook(r) ==
  \E p \in Participant, caps \in SUBSET Capability :
    /\ Arrives(r, "join") /\ ~Joined(p)
    /\ Goto(r, [pc |-> "join", by |-> p, caps |-> caps])
    /\ UNCHANGED <<store, env>>

JoinInsert(r) ==
  /\ At(r, "join")
  /\ members' = IF Joined(req[r].by) THEN members
                ELSE [members EXCEPT ![req[r].by] = req[r].caps]
  /\ Return(r)
  /\ UNCHANGED <<steps, claims, artifacts, ballots, outcome, env>>

-----------------------------------------------------------------------------
(* What ListOpenSteps and ClaimStep ask of a step. *)

(* Mutant: a dependency counts once somebody works on it. *)
DepsStarted(s) == \A n \in Needs[s] : status[n] # "OPEN"
DepsResolved(s) == \A n \in Needs[s] : status[n] = "RESOLVED"
HasCapabilities(s, p) == Required[s] \subseteq members[p]

(* ListOpenSteps, for a participant or for nobody in particular.           *)
OpenSteps(p) ==
  {s \in Step :
     /\ status[s] = "OPEN"
     /\ DepsResolved(s)
     /\ p # None => HasCapabilities(s, p)
     /\ RunningClaims(s, clock) = {}}

-----------------------------------------------------------------------------
(* ClaimStep *)

ClaimLoad(r) ==
  \E s \in Step, p \in Participant :
    /\ Arrives(r, "claim") /\ Joined(p)
    /\ status[s] = "OPEN"
    /\ Goto(r, [pc |-> "claim.deps", step |-> s, by |-> p])
    /\ UNCHANGED <<store, env>>

ClaimDeps(r) ==
  /\ At(r, "claim.deps")
  /\ IF DepsResolved(req[r].step) /\ HasCapabilities(req[r].step, req[r].by)
     THEN Goto(r, [req[r] EXCEPT !.pc = "claim.look"])
     ELSE Return(r)
  /\ UNCHANGED <<store, env>>

ClaimLook(r) ==
  /\ At(r, "claim.look")
  /\ \/ /\ RunningClaims(req[r].step, clock) = {}
        /\ \E secs \in Leases :
             /\ clock + secs <= MaxTime
             /\ Goto(r, [pc |-> "claim.insert", step |-> req[r].step, by |-> req[r].by,
                         until |-> clock + secs])
     \/ RunningClaims(req[r].step, clock) # {} /\ Return(r)
  /\ UNCHANGED <<store, env>>

ClaimInsert(r) ==
  /\ At(r, "claim.insert")
  /\ IF ClaimFits(req[r].step)
     THEN /\ CreateClaim(req[r].step, req[r].by, req[r].until)
          /\ Goto(r, [pc |-> "claim.store", step |-> req[r].step])
     ELSE Return(r) /\ UNCHANGED claims
  /\ UNCHANGED <<members, steps, artifacts, ballots, outcome, env>>

(* The last statement of four requests: the step's row is written over,    *)
(* whatever became of it since it was read.                                *)
Store(r, pc, st) ==
  /\ At(r, pc)
  /\ UpdateStep(req[r].step, st)
  /\ Return(r)
  /\ UNCHANGED <<members, claims, artifacts, ballots, outcome, env>>

ClaimStore(r) == Store(r, "claim.store", "CLAIMED")

-----------------------------------------------------------------------------
(* ReleaseStep *)

ReleaseLook(r) ==
  \E s \in Step, p \in Participant :
    /\ Arrives(r, "release") /\ Joined(p)
    /\ \E c \in RunningClaimsOf(s, p, clock) : Goto(r, [pc |-> "release", claim |-> c])
    /\ UNCHANGED <<store, env>>

ReleaseClaim(r) ==
  /\ At(r, "release")
  /\ UpdateClaimStatus(req[r].claim, "RELEASED")
  /\ Goto(r, [pc |-> "release.store", step |-> claims[req[r].claim].step])
  /\ UNCHANGED <<members, steps, artifacts, ballots, outcome, env>>

ReleaseStore(r) == Store(r, "release.store", "OPEN")

-----------------------------------------------------------------------------
(* HandoffStep.  The target has to have joined; its capabilities are not   *)
(* looked at.                                                              *)

HandoffLook(r) ==
  \E s \in Step, p, to \in Participant, secs \in Leases :
    /\ Arrives(r, "handoff") /\ Joined(p) /\ Joined(to)
    /\ clock + secs <= MaxTime
    /\ \E c \in RunningClaimsOf(s, p, clock) :
         Goto(r, [pc |-> "handoff", claim |-> c, to |-> to, until |-> clock + secs])
    /\ UNCHANGED <<store, env>>

HandoffRelease(r) ==
  /\ At(r, "handoff")
  /\ UpdateClaimStatus(req[r].claim, "RELEASED")
  /\ Goto(r, [pc |-> "handoff.insert", step |-> claims[req[r].claim].step,
              by |-> req[r].to, until |-> req[r].until])
  /\ UNCHANGED <<members, steps, artifacts, ballots, outcome, env>>

HandoffInsert(r) ==
  /\ At(r, "handoff.insert")
  /\ IF ClaimFits(req[r].step)
     THEN /\ CreateClaim(req[r].step, req[r].by, req[r].until)
          /\ Goto(r, [pc |-> "handoff.store", step |-> req[r].step])
     ELSE Return(r) /\ UNCHANGED claims
  /\ UNCHANGED <<members, steps, artifacts, ballots, outcome, env>>

HandoffStore(r) == Store(r, "handoff.store", "CLAIMED")

-----------------------------------------------------------------------------
(* SubmitArtifact *)

SubmitLook(r) ==
  \E s \in Step, p \in Participant :
    /\ Arrives(r, "submit") /\ Joined(p)
    /\ Len(artifacts[s]) < MaxArtifacts
    /\ RunningClaimsOf(s, p, clock) # {}
    /\ Goto(r, [pc |-> "submit.version", step |-> s, by |-> p])
    /\ UNCHANGED <<store, env>>

SubmitVersion(r) ==
  /\ At(r, "submit.version")
  /\ Goto(r, [pc |-> "submit.insert", step |-> req[r].step, by |-> req[r].by,
              version |-> Len(artifacts[req[r].step]) + 1])
  /\ UNCHANGED <<store, env>>

(* UNIQUE (step_id, version) refuses a version another request has taken.  *)
SubmitInsert(r) ==
  /\ At(r, "submit.insert")
  /\ IF req[r].version = Len(artifacts[req[r].step]) + 1
     THEN /\ artifacts' = [artifacts EXCEPT ![req[r].step] = Append(@, req[r].by)]
          /\ Goto(r, [pc |-> "submit.store", step |-> req[r].step])
     ELSE Return(r) /\ UNCHANGED artifacts
  /\ UNCHANGED <<members, steps, claims, ballots, outcome, env>>

SubmitStore(r) == Store(r, "submit.store", "IN_REVIEW")

-----------------------------------------------------------------------------
(* OpenDecision *)

OpenLoad(r) ==
  \E s \in Step :
    /\ Arrives(r, "open")
    /\ status[s] \in {"CLAIMED", "IN_REVIEW"}
    /\ Goto(r, [pc |-> "open.look", step |-> s])
    /\ UNCHANGED <<store, env>>

(* created_at is taken here and orders the decisions, not the insert: a    *)
(* number above those of the rows and of the requests on their way.        *)
TakenStamps ==
  {decisions[d].created : d \in {d \in DecisionId : decisions[d] # None}}
    \cup {req[q].created : q \in {q \in Request : At(q, "open.insert")}}

OpenLook(r) ==
  /\ At(r, "open.look")
  /\ IF \E d \in Latest(req[r].step) : decisions[d].status = "PENDING"
     THEN Return(r)
     ELSE LET now == 1 + Max({0} \cup TakenStamps)
          IN /\ now \in 1..MaxStamp
             /\ Goto(r, [pc |-> "open.insert", step |-> req[r].step, created |-> now])
  /\ UNCHANGED <<store, env>>

OpenInsert(r) ==
  /\ At(r, "open.insert")
  /\ IF DecisionFits(req[r].step)
     THEN \E policy \in Policy, deadline \in Deadlines :
            CreateDecision(req[r].step, policy, deadline, req[r].created)
     ELSE UNCHANGED decisions
  /\ Return(r)
  /\ UNCHANGED <<members, steps, claims, artifacts, votes, cast, outcome, env>>

-----------------------------------------------------------------------------
(* CastVote *)

VoteLoad(r) ==
  \E d \in DecisionId, p \in Participant, choice \in Choice :
    /\ Arrives(r, "vote") /\ Joined(p)
    /\ IsPending(d)
    /\ decisions[d].deadline # None => clock <= decisions[d].deadline
    /\ Goto(r, [pc |-> "vote.insert", decision |-> d, by |-> p, choice |-> choice])
    /\ UNCHANGED <<store, env>>

VoteInsert(r) ==
  /\ At(r, "vote.insert")
  /\ CreateVote(req[r].decision, req[r].by, req[r].choice)
  /\ Goto(r, [pc |-> "vote.count", decision |-> req[r].decision])
  /\ UNCHANGED <<members, steps, claims, artifacts, decisions, outcome, env>>

(* evaluateDecision.  A minimum below one counts as one; no quorum and no  *)
(* reject threshold are numbers below one.                                 *)
MinApprovals(policy) == IF policy.min <= 0 THEN 1 ELSE policy.min
(* Mutant: a decision passes before the quorum has voted. *)
EvaluateWithoutQuorum(policy, approves, rejects) ==
  CASE policy.reject > 0 /\ rejects >= policy.reject -> "REJECTED"
    [] /\ ~(policy.reject > 0 /\ rejects >= policy.reject)
       /\ approves >= MinApprovals(policy) -> "PASSED"
    [] OTHER -> "PENDING"
EvaluateDecision(policy, approves, rejects) ==
  CASE policy.reject > 0 /\ rejects >= policy.reject -> "REJECTED"
    [] /\ ~(policy.reject > 0 /\ rejects >= policy.reject)
       /\ approves >= MinApprovals(policy)
       /\ policy.quorum <= 0 \/ approves + rejects >= policy.quorum -> "PASSED"
    [] OTHER -> "PENDING"
Verdict(d) ==
  EvaluateDecision(decisions[d].policy,
                   Cardinality(Voters(d, "APPROVE")), Cardinality(Voters(d, "REJECT")))

VoteCount(r) ==
  /\ At(r, "vote.count")
  /\ Goto(r, [pc |-> "vote.store", decision |-> req[r].decision,
              verdict |-> Verdict(req[r].decision)])
  /\ UNCHANGED <<store, env>>

(* The row as it was read, PENDING, with this request's verdict.           *)
VoteStore(r) ==
  /\ At(r, "vote.store")
  /\ IF VerdictFits(req[r].decision, req[r].verdict)
     THEN UpdateDecision(req[r].decision, req[r].verdict)
     ELSE UNCHANGED decisions
  /\ Return(r)
  /\ UNCHANGED <<members, steps, claims, artifacts, votes, cast, outcome, env>>

-----------------------------------------------------------------------------
(* ResolveStep, with or without a participant.  *)

ResolveLoad(r) ==
  \E s \in Step, p \in Participant \cup {None} :
    /\ Arrives(r, "resolve")
    /\ status[s] \in {"CLAIMED", "IN_REVIEW"}
    /\ Goto(r, [pc |-> "resolve.gate", step |-> s, by |-> p])
    /\ UNCHANGED <<store, env>>

(* Mutant: only a pending decision stops the request. *)
ResolveGatePending(r) ==
  /\ At(r, "resolve.gate")
  /\ IF \E d \in Latest(req[r].step) : decisions[d].status = "PENDING"
     THEN Return(r)
     ELSE Goto(r, [req[r] EXCEPT !.pc = "resolve.find"])
  /\ UNCHANGED <<store, env>>
ResolveGate(r) ==
  /\ At(r, "resolve.gate")
  /\ IF \E d \in Latest(req[r].step) : decisions[d].status \in {"PENDING", "REJECTED"}
     THEN Return(r)
     ELSE Goto(r, [req[r] EXCEPT !.pc = "resolve.find"])
  /\ UNCHANGED <<store, env>>

(* The two queries for the claim share one `now`; the first is only a      *)
(* check.                                                                  *)
ResolveFind(r) ==
  LET s == req[r].step
      p == req[r].by
      holds == p = None \/ RunningClaimsOf(s, p, clock) # {}
  IN /\ At(r, "resolve.find")
     /\ \/ ~holds /\ Return(r)
        \/ holds /\ RunningClaims(s, clock) = {} /\ Goto(r, [pc |-> "resolve.store", step |-> s])
        \/ holds /\ \E c \in RunningClaims(s, clock) :
                      Goto(r, [pc |-> "resolve.release", step |-> s, claim |-> c])
     /\ UNCHANGED <<store, env>>

ResolveRelease(r) ==
  /\ At(r, "resolve.release")
  /\ UpdateClaimStatus(req[r].claim, "RELEASED")
  /\ Goto(r, [pc |-> "resolve.store", step |-> req[r].step])
  /\ UNCHANGED <<members, steps, artifacts, ballots, outcome, env>>

ResolveStore(r) ==
  /\ At(r, "resolve.store")
  /\ UpdateStep(req[r].step, "RESOLVED")
  /\ Goto(r, [pc |-> "resolve.count"])
  /\ UNCHANGED <<members, claims, artifacts, ballots, outcome, env>>

(* Mutant: a session with an ACTIVE claim is not completed. *)
ResolveCountUnclaimed(r) ==
  /\ At(r, "resolve.count")
  /\ IF AllResolved /\ \A s \in Step : ActiveClaims(s) = {}
     THEN Goto(r, [pc |-> "resolve.session"]) ELSE Return(r)
  /\ UNCHANGED <<store, env>>
ResolveCount(r) ==
  /\ At(r, "resolve.count")
  /\ IF AllResolved THEN Goto(r, [pc |-> "resolve.session"]) ELSE Return(r)
  /\ UNCHANGED <<store, env>>

ResolveSession(r) ==
  /\ At(r, "resolve.session")
  /\ session' = "COMPLETED"
  /\ Goto(r, [pc |-> "resolve.task"])
  /\ UNCHANGED <<members, steps, claims, artifacts, ballots, task, env>>

ResolveTask(r) ==
  /\ At(r, "resolve.task")
  /\ task' = "COMPLETED"
  /\ Return(r)
  /\ UNCHANGED <<members, steps, claims, artifacts, ballots, session, env>>

-----------------------------------------------------------------------------
(* ProcessExpiredClaims: the listed claims one after another, the one      *)
(* whose lease ended first first.                                          *)

ScanList(w) ==
  /\ At(w, "idle")
  /\ LapsedClaims(clock) # {}
  /\ Goto(w, [pc |-> "scan", todo |-> LapsedClaims(clock)])
  /\ UNCHANGED <<store, env>>

EarliestOf(todo) == {c \in todo : \A d \in todo : claims[c].lease <= claims[d].lease}
ScanRest(todo) == IF todo = {} THEN Idle ELSE [pc |-> "scan", todo |-> todo]

ScanExpire(w) ==
  /\ At(w, "scan")
  /\ \E c \in EarliestOf(req[w].todo) :
       /\ UpdateClaimStatus(c, "EXPIRED")
       /\ Goto(w, [pc |-> "scan.store", step |-> claims[c].step, todo |-> req[w].todo \ {c}])
  /\ UNCHANGED <<members, steps, artifacts, ballots, outcome, env>>

(* Mutant: the step of an expired claim is not reopened. *)
ScanStoreNothing(w) ==
  /\ At(w, "scan.store")
  /\ Goto(w, ScanRest(req[w].todo))
  /\ UNCHANGED <<store, env>>
ScanStore(w) ==
  /\ At(w, "scan.store")
  /\ UpdateStep(req[w].step, "OPEN")
  /\ Goto(w, ScanRest(req[w].todo))
  /\ UNCHANGED <<members, claims, artifacts, ballots, outcome, env>>

-----------------------------------------------------------------------------
(* What a statement that fails leads to. *)

Fails(r, local) ==
  /\ failures < MaxFailures
  /\ failures' = failures + 1
  /\ Goto(r, local)
  /\ UNCHANGED <<store, clock>>

(* An error is returned, or the process is gone.                           *)
Abort(r) == ~At(r, "idle") /\ Fails(r, Idle)

(* ResolveStep ignores three errors, the scan goes on to the next claim.   *)
ReleaseIgnored(r) ==
  At(r, "resolve.release") /\ Fails(r, [pc |-> "resolve.store", step |-> req[r].step])
SessionIgnored(r) == At(r, "resolve.session") /\ Fails(r, [pc |-> "resolve.task"])
ScanSkips(w) ==
  \/ At(w, "scan") /\ \E c \in EarliestOf(req[w].todo) : Fails(w, ScanRest(req[w].todo \ {c}))
  \/ At(w, "scan.store") /\ Fails(w, ScanRest(req[w].todo))

Tick == clock < MaxTime /\ clock' = clock + 1 /\ UNCHANGED <<store, req, failures>>

Arrive(r) ==
  \/ JoinLook(r) \/ ClaimLoad(r) \/ ReleaseLook(r) \/ HandoffLook(r) \/ SubmitLook(r)
  \/ OpenLoad(r) \/ VoteLoad(r) \/ ResolveLoad(r)

Continue(r) ==
  \/ JoinInsert(r)
  \/ ClaimDeps(r) \/ ClaimLook(r) \/ ClaimInsert(r) \/ ClaimStore(r)
  \/ ReleaseClaim(r) \/ ReleaseStore(r)
  \/ HandoffRelease(r) \/ HandoffInsert(r) \/ HandoffStore(r)
  \/ SubmitVersion(r) \/ SubmitInsert(r) \/ SubmitStore(r)
  \/ OpenLook(r) \/ OpenInsert(r)
  \/ VoteInsert(r) \/ VoteCount(r) \/ VoteStore(r)
  \/ ResolveGate(r) \/ ResolveFind(r) \/ ResolveRelease(r) \/ ResolveStore(r)
  \/ ResolveCount(r) \/ ResolveSession(r) \/ ResolveTask(r)

ScanOn(w) == ScanExpire(w) \/ ScanStore(w)
Scan(w) == ScanList(w) \/ ScanOn(w)

Next ==
  \/ \E r \in Request : Arrive(r) \/ Continue(r)
  \/ \E w \in Scanner : Scan(w)
  \/ \E r \in Proc : Abort(r) \/ ReleaseIgnored(r) \/ SessionIgnored(r) \/ ScanSkips(r)
  \/ Tick

Spec == Init /\ [][Next]_vars

(* The database calls of a scan under way return.  That the scan is ever    *)
(* called is not assumed: nothing in the repository calls it.              *)
Fairness == \A w \in Scanner : WF_vars(ScanOn(w))
FairSpec == Spec /\ Fairness

-----------------------------------------------------------------------------
(* Properties *)

Quiet == \A r \in Proc : At(r, "idle")
Holders(s) == {p \in Participant : \E c \in ClaimId :
                 claims[c] # None /\ claims[c].step = s /\ claims[c].by = p}

(* However requests and scans interleave or break off, a step has at most  *)
(* one ACTIVE claim: every path to an insert passes the unique index, and  *)
(* no update makes a claim ACTIVE again.                                   *)
OneActiveClaim == \A s \in Step : Cardinality(ActiveClaims(s)) <= 1

(* A step is claimed or passed on only after every step it needs was once  *)
(* resolved, although ClaimStep reads the dependencies two statements      *)
(* before it inserts, and a scan may reopen what it read.                  *)
DependenciesFirst ==
  \A c \in ClaimId : claims[c] # None => Needs[claims[c].step] \subseteq resolved

(* Work is handed in only by participants that held a claim on the step.   *)
ProducersHeldClaims ==
  \A s \in Step : \A i \in DOMAIN artifacts[s] : artifacts[s][i] \in Holders(s)

(* A scan never takes a claim away whose lease still runs, even when it    *)
(* works through its list while claims are released and made anew.         *)
NoEviction ==
  [][\A c \in ClaimId :
       IsActive(c) /\ claims'[c].status = "EXPIRED" => claims[c].lease <= clock]_vars

(* A claim stays with its step and participant, its lease does not move,   *)
(* and once it is RELEASED or EXPIRED it is never ACTIVE again, whatever   *)
(* a request that looked it up earlier writes.                             *)
ClaimsEndOnce ==
  [][\A c \in ClaimId : claims[c] # None =>
       /\ claims'[c] # None
       /\ claims'[c] = [claims[c] EXCEPT !.status = claims'[c].status]
       /\ claims'[c].status = "ACTIVE" => claims[c].status = "ACTIVE"]_vars

(* A PASSED decision was earned: enough participants approved it at some   *)
(* time and the quorum voted, although votes are counted and the verdict   *)
(* stored in separate statements and votes may be changed in between.      *)
PassedIsEarned ==
  \A d \in DecisionId : decisions[d] # None /\ decisions[d].status = "PASSED" =>
    /\ Cardinality({p \in Participant : <<d, p, "APPROVE">> \in cast})
         >= MinApprovals(decisions[d].policy)
    /\ Cardinality({p \in Participant : \E choice \in Choice : <<d, p, choice>> \in cast})
         >= decisions[d].policy.quorum

(* A step has at most one PENDING decision: openers race between their     *)
(* look and their insert, and a late voter may write PENDING over a        *)
(* verdict after another decision was opened.                              *)
OnePendingDecision == \A s \in Step : Cardinality(PendingOn(s)) <= 1

(* The session and its task are COMPLETED only if every step was resolved. *)
CompletionIsEarned ==
  session = "COMPLETED" \/ task = "COMPLETED" => resolved = Step

(* Claims exclude each other, and work begins and completes in order.      *)
WorkInOrder == OneActiveClaim /\ DependenciesFirst /\ CompletionIsEarned

(* No completion is lost: when the last steps are resolved side by side,   *)
(* one of the requests counts no step left.  Unless a statement failed,    *)
(* once all is quiet and resolved, session and task are COMPLETED.         *)
NoLostCompletion ==
  Quiet /\ failures = 0 /\ AllResolved => session = "COMPLETED" /\ task = "COMPLETED"

(* With one request at a time and none failing, between requests the three *)
(* tables agree: a step is CLAIMED or IN_REVIEW exactly when it has an     *)
(* ACTIVE claim.  A RESOLVED step may keep a claim whose lease was over.   *)
StatusMatchesClaims ==
  Quiet => \A s \in Step :
    IF status[s] = "RESOLVED"
    THEN RunningClaims(s, clock) = {}
    ELSE status[s] \in {"CLAIMED", "IN_REVIEW"} <=> ActiveClaims(s) # {}

(* Likewise: a step that ListOpenSteps shows can be claimed.          *)
(* The list leaves out running claims only; the insert is refused by a     *)
(* lapsed one too, so none may be left on an OPEN step.                    *)
ListedIsClaimable ==
  Quiet => \A p \in {q \in Participant : Joined(q)} \cup {None} :
    \A s \in OpenSteps(p) : ClaimFits(s)

(* Likewise, both of the above: what is said of a step, the claims bear    *)
(* out.                                                                    *)
StepsAgree == StatusMatchesClaims /\ ListedIsClaimable

(* Likewise: a step that is RESOLVED has no decision, or its latest one    *)
(* PASSED.                                                                 *)
ResolvedIsApproved ==
  Quiet => \A s \in Step : status[s] = "RESOLVED" =>
    \A d \in Latest(s) : decisions[d].status = "PASSED"

(* Likewise: a decision's status is what the policy says of its votes.     *)
VerdictMatchesVotes ==
  Quiet => \A d \in DecisionId : decisions[d] # None => decisions[d].status = Verdict(d)

(* Likewise, both of the above: the reviews of the steps agree.            *)
ReviewsAgree == ResolvedIsApproved /\ VerdictMatchesVotes

=============================================================================
