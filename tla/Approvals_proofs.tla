-------------------------- MODULE Approvals_proofs --------------------------
(***************************************************************************)
(* Theorems about Approvals, for any number of requests, approvals and     *)
(* users, any requirements, and however the requests interleave, fail and  *)
(* crash.                                                                  *)
(*                                                                         *)
(* A step moves one request (or stops them all) and writes at most one     *)
(* row.  The invariant is the tables' own consistency, what a request      *)
(* under way knows of them, and, for an approval decided by one call at a  *)
(* time, how far that call has come.                                       *)
(***************************************************************************)
EXTENDS Approvals, FiniteSetTheorems, FunctionTheorems, TLAPS

-----------------------------------------------------------------------------
(* The tables.  Every decision is on a stored approval, by a user whose    *)
(* role it asks for, and a user decides an approval once.                  *)

Stored(a) == approvals[a].status # "NONE"

DecisionsFit ==
  /\ IsFiniteSet(decisions)
  /\ \A x \in decisions : Stored(x.approval) /\ Role[x.by] \in approvals[x.approval].roles
  /\ \A x, y \in decisions : x.approval = y.approval /\ x.by = y.by => x = y

-----------------------------------------------------------------------------
(* A request under way, and what it knows: the row it read is older than   *)
(* the table's but asks for the same, the approvals it counted are there,  *)
(* and the operation it runs is exempt or earned.                          *)

Running == {"check", "perform", "follow"}
Voting == {"lookup", "record", "count", "update"}
Place == {"idle", "create", "finish"} \cup Running \cup Voting

Terms(row) == <<row.op, row.min, row.roles>>

Knows(q) ==
  /\ q.pc = "create" => q.op # "none" /\ q.by # "none"
  /\ q.id = "none" => q.decision = "none" /\ q.pc \in {"idle", "create"} \cup Running
  /\ q.id # "none" =>
       /\ Stored(q.id) /\ Terms(approvals[q.id]) = Terms(q.row)
       /\ q.op = q.row.op /\ q.op # "none"
       /\ q.row.status # "NONE" /\ q.decision # "none" /\ q.pc \notin {"idle", "create"}
  /\ q.pc \in Voting =>
       q.by # "none" /\ Role[q.by] \in q.row.roles /\ q.row.status = "PENDING"
  /\ q.pc = "update" => q.row.yes <= Cardinality(Recorded(q.id, "APPROVE"))
  /\ q.pc \in Running =>
       /\ q.op # "none" /\ q.by # "none"
       /\ IF q.id = "none" THEN ~ Requires(q.op, q.by) ELSE Earned(q.id)

FramesInv == \A r \in Request : Knows(req[r])

(* A row is stored together with its operation.                            *)
RowsInv == \A a \in Approval : Stored(a) <=> approvals[a].op # "none"

-----------------------------------------------------------------------------
(* An approval that is decided by one call at a time: when the row was     *)
(* read it said what happened; then a decision is recorded, counted and    *)
(* written, and the operation of an approved one runs once.                *)

NewVote(a, q) ==
  /\ runs[a] = 0
  /\ IF q.decision = "REJECT" THEN Recorded(a, "REJECT") # {} ELSE Recorded(a, "REJECT") = {}

Tallied(a, row) ==
  /\ row.yes = Cardinality(Recorded(a, "APPROVE"))
  /\ row.no = Cardinality(Recorded(a, "REJECT"))

Approved(a, row) == Tallied(a, row) /\ Earned(a) /\ Recorded(a, "REJECT") = {}

Phase(a, q) ==
  /\ q.pc \in {"lookup", "record"} => SaysWhatHappened(a) /\ q.row = approvals[a]
  /\ q.pc = "count" => NewVote(a, q)
  /\ q.pc = "update" => NewVote(a, q) /\ Tallied(a, q.row)
  /\ q.pc \in {"check", "perform"} => Approved(a, q.row) /\ runs[a] = 0
  /\ q.pc = "follow" => Approved(a, q.row) /\ runs[a] = 1
  /\ q.pc = "finish" =>
       /\ Approved(a, q.row)
       /\ \/ q.row.status = "EXECUTED" /\ runs[a] = 1
          \/ q.row.status = "FAILED" /\ runs[a] = 0

OneCall(a) ==
  /\ \A r, s \in Request : req[r].id = a /\ req[s].id = a => r = s
  /\ (\A r \in Request : req[r].id # a) => SaysWhatHappened(a)
  /\ \A r \in Request : req[r].id = a => Phase(a, req[r])

OnceInv == \A a \in Approval \ disturbed : OneCall(a)

ApprovalInv == TypeOK /\ RowsInv /\ DecisionsFit /\ FramesInv /\ NoBypass /\ OnceInv

-----------------------------------------------------------------------------
(* Counting.  A user decides an approval once, so as many users approved   *)
(* as approvals were recorded.                                             *)

LEMMA Tally ==
  ASSUME TypeOK, DecisionsFit, NEW a, NEW d
  PROVE  IsFiniteSet(Recorded(a, d)) /\ Cardinality(Recorded(a, d)) \in Nat
<1>1. Recorded(a, d) \subseteq decisions
  BY DEF Recorded
<1>2. QED
  BY <1>1, FS_Subset, FS_CardinalityType DEF DecisionsFit

LEMMA VotersFinite ==
  ASSUME NEW a
  PROVE  IsFiniteSet(Voters(a)) /\ Cardinality(Voters(a)) \in Nat
BY UserAssumption, FS_Subset, FS_CardinalityType DEF Voters

LEMMA VotersCounted ==
  ASSUME TypeOK, DecisionsFit, NEW a \in Approval
  PROVE  Cardinality(Voters(a)) = Cardinality(Recorded(a, "APPROVE"))
<1> DEFINE S == Recorded(a, "APPROVE")
           f == [x \in S |-> x.by]
<1>1. \A x \in S : x \in decisions /\ x.approval = a /\ x.by \in User
                   /\ Role[x.by] \in approvals[a].roles
  BY DEF Recorded, DecisionsFit, TypeOK
<1>2. \A x \in S : f[x] \in Voters(a)
  BY <1>1 DEF Voters
<1>3. \A x, y \in S : f[x] = f[y] => x = y
  BY <1>1 DEF DecisionsFit
<1>4. \A u \in Voters(a) : \E x \in S : f[x] = u
  BY DEF Voters
<1>5. f \in Bijection(S, Voters(a))
  BY <1>2, <1>3, <1>4, Fun_IsBij
<1>6. ExistsBijection(S, Voters(a))
  BY <1>5 DEF ExistsBijection
<1>7. QED
  BY <1>6, Tally, FS_Bijection

LEMMA EarnedIsCounted ==
  ASSUME TypeOK, DecisionsFit, NEW a \in Approval
  PROVE  Earned(a) <=> Cardinality(Recorded(a, "APPROVE")) >= approvals[a].min
BY VotersCounted DEF Earned

(* What every step keeps: decisions stay, and a stored approval stays      *)
(* stored and keeps what it asks for.                                      *)
Grows ==
  /\ decisions \subseteq decisions'
  /\ \A a \in Approval : Stored(a) => Stored(a)' /\ Terms(approvals'[a]) = Terms(approvals[a])

LEMMA NothingGrows ==
  ASSUME UNCHANGED <<approvals, decisions>>
  PROVE  Grows
BY DEF Grows, Stored

LEMMA EarnedStays ==
  ASSUME TypeOK, Grows, NEW a \in Approval, Stored(a), Earned(a)
  PROVE  Earned(a)'
<1>1. approvals'[a].roles = approvals[a].roles /\ approvals'[a].min = approvals[a].min
  BY DEF Grows, Terms
<1>2. Voters(a) \subseteq Voters(a)'
  BY <1>1 DEF Voters, Recorded, Grows
<1>3. Cardinality(Voters(a)) <= Cardinality(Voters(a)')
  BY <1>2, UserAssumption, FS_Subset DEF Voters
<1>4. approvals[a].min \in Nat
  BY DEF TypeOK, RowType
<1>5. Cardinality(Voters(a)) \in Nat /\ Cardinality(Voters(a)') \in Nat
  BY VotersFinite, UserAssumption, FS_Subset, FS_CardinalityType DEF Voters
<1>6. QED
  BY <1>1, <1>3, <1>4, <1>5 DEF Earned

LEMMA TallyGrows ==
  ASSUME Grows, IsFiniteSet(decisions'), NEW a, NEW d
  PROVE  /\ Cardinality(Recorded(a, d)) <= Cardinality(Recorded(a, d)')
         /\ Cardinality(Recorded(a, d)) \in Nat /\ Cardinality(Recorded(a, d)') \in Nat
<1>1. Recorded(a, d) \subseteq Recorded(a, d)' /\ Recorded(a, d)' \subseteq decisions'
  BY DEF Recorded, Grows
<1>2. QED
  BY <1>1, FS_Subset, FS_CardinalityType

LEMMA KnowsStays ==
  ASSUME TypeOK, Grows, IsFiniteSet(decisions'), NEW q \in RequestType, Knows(q)
  PROVE  Knows(q)'
<1>1. q.row.yes \in Nat
  BY DEF RequestType, RowType
<1>2. q.pc = "update" => q.row.yes <= Cardinality(Recorded(q.id, "APPROVE"))'
  BY <1>1, TallyGrows DEF Knows
<1>3. q.id # "none" => q.id \in Approval
  BY DEF RequestType
<1>4. q.id # "none" => Stored(q.id)' /\ Terms(approvals'[q.id]) = Terms(q.row)
  BY <1>3 DEF Grows, Knows
<1>5. q.pc \in Running /\ q.id # "none" => Earned(q.id)'
  BY <1>3, EarnedStays DEF Knows
<1>6. QED
  BY <1>2, <1>4, <1>5 DEF Knows

-----------------------------------------------------------------------------
(* What a step leaves alone.                                               *)

(* Request r goes on to q.                                                 *)
LEMMA FramesKept ==
  ASSUME TypeOK, FramesInv, Grows, IsFiniteSet(decisions'),
         NEW r \in Request, NEW q, Knows(q)', Goto(r, q)
  PROVE  FramesInv'
<1>1. ASSUME NEW i \in Request PROVE Knows(req[i])'
  <2>1. CASE i = r
    <3>1. req'[i] = q
      BY <2>1 DEF Goto, TypeOK
    <3>2. QED
      BY <3>1 DEF Knows
  <2>2. CASE i # r
    <3>1. PICK k : k = req[i]
      OBVIOUS
    <3>2. k \in RequestType /\ Knows(k)
      BY <3>1 DEF TypeOK, FramesInv
    <3>3. Knows(k)'
      BY <3>2, KnowsStays
    <3>4. req'[i] = k
      BY <2>2, <3>1 DEF Goto, TypeOK
    <3>5. QED
      BY <3>3, <3>4 DEF Knows
  <2>3. QED
    BY <2>1, <2>2
<1>2. QED
  BY <1>1 DEF FramesInv

LEMMA EffectsKept ==
  ASSUME TypeOK, RowsInv, NoBypass, Grows, UNCHANGED effects
  PROVE  NoBypass'
<1>1. ASSUME NEW e \in effects, e.id # "none"
      PROVE  approvals'[e.id].op = e.op /\ Earned(e.id)'
  <2>1. e.id \in Approval /\ e.op \in AllOperations
    BY <1>1 DEF TypeOK
  <2>2. approvals[e.id].op = e.op /\ Earned(e.id)
    BY <1>1 DEF NoBypass
  <2>3. Stored(e.id)
    BY <2>1, <2>2 DEF RowsInv, AllOperations
  <2>4. QED
    BY <2>1, <2>2, <2>3, EarnedStays DEF Grows, Terms
<1>2. QED
  BY <1>1 DEF NoBypass

(* An approval whose row, decisions and runs the step leaves alone.        *)
SameStory(a) ==
  /\ approvals'[a] = approvals[a]
  /\ runs'[a] = runs[a]
  /\ \A d \in Decision : Recorded(a, d)' = Recorded(a, d)

LEMMA StoryKept ==
  ASSUME NEW a, SameStory(a)
  PROVE  /\ SaysWhatHappened(a)' <=> SaysWhatHappened(a)
         /\ \A q : Phase(a, q)' <=> Phase(a, q)
<1>1. Recorded(a, "APPROVE")' = Recorded(a, "APPROVE")
      /\ Recorded(a, "REJECT")' = Recorded(a, "REJECT")
  BY DEF SameStory, Decision
<1>2. Earned(a)' <=> Earned(a)
  BY <1>1 DEF SameStory, Earned, Voters
<1>3. SaysWhatHappened(a)' <=> SaysWhatHappened(a)
  BY <1>1, <1>2 DEF SameStory, SaysWhatHappened
<1>4. \A q : NewVote(a, q)' <=> NewVote(a, q)
  BY <1>1 DEF SameStory, NewVote
<1>5. \A row : (Tallied(a, row)' <=> Tallied(a, row)) /\ (Approved(a, row)' <=> Approved(a, row))
  BY <1>1, <1>2 DEF Tallied, Approved
<1>6. runs'[a] = runs[a] /\ approvals'[a] = approvals[a]
  BY DEF SameStory
<1>7. \A q : Phase(a, q)' <=> Phase(a, q)
  BY <1>3, <1>4, <1>5, <1>6 DEF Phase
<1>8. QED
  BY <1>3, <1>7

(* The request is at work on another approval, before and after.           *)
LEMMA OneCallKept ==
  ASSUME TypeOK, NEW a \in Approval, OneCall(a), SameStory(a),
         NEW r \in Request, NEW q, Goto(r, q), req[r].id # a, q.id # a
  PROVE  OneCall(a)'
<1>1. \A i \in Request : (req'[i].id = a <=> req[i].id = a) /\ (req[i].id = a => req'[i] = req[i])
  BY DEF Goto, TypeOK
<1>2. SaysWhatHappened(a)' <=> SaysWhatHappened(a)
  BY StoryKept
<1>3. \A i \in Request : req[i].id = a => Phase(a, req[i])'
  <2>1. ASSUME NEW i \in Request, req[i].id = a PROVE Phase(a, req[i])'
    <3>1. PICK k : k = req[i]
      OBVIOUS
    <3>2. Phase(a, k)
      BY <2>1, <3>1 DEF OneCall
    <3>3. Phase(a, k)'
      BY <3>2, StoryKept
    <3>4. req'[i] = k
      BY <1>1, <2>1, <3>1
    <3>5. QED
      BY <3>3, <3>4 DEF Phase
  <2>2. QED
    BY <2>1
<1>4. \A i, s \in Request : req'[i].id = a /\ req'[s].id = a => i = s
  BY <1>1 DEF OneCall
<1>5. (\A i \in Request : req'[i].id # a) => SaysWhatHappened(a)'
  BY <1>1, <1>2 DEF OneCall
<1>6. \A i \in Request : req'[i].id = a => Phase(a, req[i])'
  BY <1>1, <1>3
<1>7. QED
  BY <1>4, <1>5, <1>6 DEF OneCall

(* The one call at work on it goes on, ...                                 *)
LEMMA OneCallMoves ==
  ASSUME TypeOK, NEW a \in Approval, NEW r \in Request, NEW q, Goto(r, q),
         \A i \in Request : req[i].id = a => i = r,
         q.id = a, Phase(a, q)'
  PROVE  OneCall(a)'
<1>1. req'[r] = q /\ \A i \in Request : i # r => req'[i] = req[i]
  BY DEF Goto, TypeOK
<1>2. \A i \in Request : req'[i].id = a => i = r
  BY <1>1
<1>3. \A i \in Request : req'[i].id = a => Phase(a, req[i])'
  <2>1. Phase(a, req[r])'
    BY <1>1 DEF Phase
  <2>2. QED
    BY <1>2, <2>1
<1>4. req'[r].id = a
  BY <1>1
<1>5. QED
  BY <1>2, <1>3, <1>4 DEF OneCall

(* ... or ends.                                                            *)
LEMMA OneCallEnds ==
  ASSUME TypeOK, NEW a \in Approval, NEW r \in Request, NEW q, Goto(r, q),
         \A i \in Request : req[i].id = a => i = r,
         q.id # a, SaysWhatHappened(a)'
  PROVE  OneCall(a)'
<1>1. req'[r] = q /\ \A i \in Request : i # r => req'[i] = req[i]
  BY DEF Goto, TypeOK
<1>2. \A i \in Request : req'[i].id # a
  BY <1>1
<1>3. QED
  BY <1>2 DEF OneCall

(* The step of a request that is at work on approval q.id, or on none, and *)
(* that disturbs nothing new.                                              *)
LEMMA OnceKept ==
  ASSUME TypeOK, OnceInv, NEW r \in Request, NEW q, Goto(r, q),
         disturbed \subseteq disturbed',
         q.id \in {req[r].id, "none"},
         \A a \in Approval : a # req[r].id => SameStory(a),
         \A a \in Approval \ disturbed' : a = req[r].id => OneCall(a)'
  PROVE  OnceInv'
<1>1. ASSUME NEW a \in Approval, a \notin disturbed' PROVE OneCall(a)'
  <2>1. CASE a = req[r].id
    BY <1>1, <2>1
  <2>2. CASE a # req[r].id
    <3>1. OneCall(a) /\ SameStory(a)
      BY <1>1, <2>2 DEF OnceInv
    <3>2. q.id # a
      BY <2>2, ApprovalAssumption
    <3>3. QED
      BY <2>2, <3>1, <3>2, OneCallKept
  <2>3. QED
    BY <2>1, <2>2
<1>2. QED
  BY <1>1 DEF OnceInv

LEMMA NothingHappens ==
  ASSUME UNCHANGED <<approvals, decisions, runs>>
  PROVE  Grows /\ \A a : SameStory(a)
BY NothingGrows DEF SameStory, Recorded

(* A statement that writes no row: it is enough that the request may be    *)
(* where it goes, and that the approval it works on agrees.                *)
LEMMA ReadStep ==
  ASSUME ApprovalInv, NEW r \in Request, NEW q \in RequestType, Knows(q), Goto(r, q),
         UNCHANGED <<approvals, decisions, entity, effects, runs, settled>>,
         calls' \in 0 .. MaxCalls, failures' \in 0 .. MaxFailures,
         disturbed \subseteq disturbed', disturbed' \subseteq Approval,
         q.id \in {req[r].id, "none"},
         \A a \in Approval \ disturbed' :
           OneCall(a) /\ a = req[r].id => IF q.id = a THEN Phase(a, q) ELSE SaysWhatHappened(a)
  PROVE  ApprovalInv'
<1>1. TypeOK'
  BY DEF ApprovalInv, TypeOK, Goto
<1>2. Grows /\ \A a : SameStory(a)
  BY NothingHappens
<1>3. RowsInv' /\ DecisionsFit'
  BY DEF ApprovalInv, RowsInv, DecisionsFit, Stored
<1>4. Knows(q)'
  BY <1>2, <1>3, KnowsStays DEF ApprovalInv, DecisionsFit
<1>5. FramesInv'
  BY <1>2, <1>3, <1>4, FramesKept DEF ApprovalInv, DecisionsFit
<1>6. NoBypass'
  BY <1>2, EffectsKept DEF ApprovalInv
<1>7. ASSUME NEW a \in Approval \ disturbed', a = req[r].id PROVE OneCall(a)'
  <2>1. OneCall(a)
    BY DEF ApprovalInv, OnceInv
  <2>2. \A i \in Request : req[i].id = a => i = r
    BY <1>7, <2>1 DEF OneCall
  <2>3. IF q.id = a THEN Phase(a, q) ELSE SaysWhatHappened(a)
    BY <1>7, <2>1
  <2>4. (SaysWhatHappened(a)' <=> SaysWhatHappened(a)) /\ (Phase(a, q)' <=> Phase(a, q))
    BY <1>2, StoryKept
  <2>5. CASE q.id = a
    BY <2>2, <2>3, <2>4, <2>5, OneCallMoves DEF ApprovalInv
  <2>6. CASE q.id # a
    BY <2>2, <2>3, <2>4, <2>6, OneCallEnds DEF ApprovalInv
  <2>7. QED
    BY <2>5, <2>6
<1>8. OnceInv'
  BY <1>2, <1>7, OnceKept DEF ApprovalInv
<1>9. QED
  BY <1>1, <1>3, <1>5, <1>6, <1>8 DEF ApprovalInv

-----------------------------------------------------------------------------
(* The statements.                                                         *)

LEMMA RequestFacts ==
  ASSUME ApprovalInv, NEW r \in Request
  PROVE  /\ req[r] \in RequestType /\ Knows(req[r])
         /\ \A a \in Approval : req[r].id = a /\ OneCall(a) => Phase(a, req[r])
         /\ calls \in 0 .. MaxCalls /\ failures \in 0 .. MaxFailures /\ disturbed \subseteq Approval
BY DEF ApprovalInv, TypeOK, FramesInv, OneCall

LEMMA IdleFacts ==
  /\ Idle \in RequestType /\ Knows(Idle) /\ Idle.id = "none"
  /\ Idle.pc = "idle" /\ Idle.decision = "none" /\ Idle.row = NoApproval
  /\ NoApproval \in RowType
<1>1. NoApproval \in RowType
  BY DEF NoApproval, RowType
<1>2. Idle \in RequestType
  BY <1>1 DEF Idle, RequestType
<1>3. Knows(Idle)
  BY DEF Idle, Knows, Voting, Running
<1>4. QED
  BY <1>1, <1>2, <1>3 DEF Idle

LEMMA AskKeeps ==
  ASSUME ApprovalInv, NEW r \in Request, NEW op, Ask(r, op)
  PROVE  ApprovalInv'
<1>1. PICK u \in User : \E actor \in ActsAs(u) :
        Goto(r, [Idle EXCEPT !.pc = IF Requires(op, actor) THEN "create" ELSE "check",
                             !.op = op, !.by = actor])
  BY DEF Ask
<1>2. PICK actor \in ActsAs(u) :
        Goto(r, [Idle EXCEPT !.pc = IF Requires(op, actor) THEN "create" ELSE "check",
                             !.op = op, !.by = actor])
  BY <1>1
<1> DEFINE q == [Idle EXCEPT !.pc = IF Requires(op, actor) THEN "create" ELSE "check",
                             !.op = op, !.by = actor]
<1>3. op \in AllOperations /\ op # "none" /\ actor \in User /\ actor # "none"
  BY OperationAssumption, UserAssumption DEF Ask, ActsAs, AllOperations
<1>4. q \in RequestType
  BY <1>3, IdleFacts DEF RequestType
<1>5. q.id = "none" /\ q.decision = "none" /\ q.op = op /\ q.by = actor
      /\ q.pc = IF Requires(op, actor) THEN "create" ELSE "check"
  BY DEF Idle
<1>6. req[r] = Idle /\ req[r].id = "none"
  BY IdleFacts DEF Ask, Begin
<1>7. calls' \in 0 .. MaxCalls
  BY RequestFacts, CapAssumption DEF Ask, Begin
<1>8. Goto(r, q)
  BY <1>2
<1> HIDE DEF q
<1>9. Knows(q)
  BY <1>3, <1>5 DEF Knows, Voting, Running
<1>10. QED
  BY <1>4, <1>5, <1>6, <1>7, <1>8, <1>9, RequestFacts, ReadStep, ApprovalAssumption
  DEF Ask, history

LEMMA HasDecisionKeeps ==
  ASSUME ApprovalInv, NEW r \in Request, HasDecision(r)
  PROVE  ApprovalInv'
<1> DEFINE f == req[r]
           q == [f EXCEPT !.pc = "record"]
<1>1. f \in RequestType /\ Knows(f) /\ f.pc = "lookup"
  BY RequestFacts DEF HasDecision, At
<1>2. \A a \in Approval : OneCall(a) /\ f.id = a => Phase(a, f)
  BY RequestFacts
<1>3. CASE Decided(r)
  <2>1. Goto(r, Idle)
    BY <1>3 DEF HasDecision
  <2>2. \A a \in Approval : OneCall(a) /\ f.id = a => SaysWhatHappened(a) /\ Idle.id # a
    BY <1>1, <1>2, IdleFacts, ApprovalAssumption DEF Phase
  <2>3. QED
    BY <2>1, <2>2, IdleFacts, RequestFacts, ReadStep DEF HasDecision, history
<1>4. CASE ~ Decided(r)
  <2>1. Goto(r, q)
    BY <1>4 DEF HasDecision
  <2>2. q \in RequestType
    BY <1>1 DEF RequestType
  <2>3. q.pc = "record" /\ q.op = f.op /\ q.by = f.by /\ q.id = f.id
        /\ q.decision = f.decision /\ q.row = f.row
    BY <1>1 DEF RequestType
  <2> HIDE DEF q, f
  <2>4. Knows(q)
    BY <1>1, <2>3 DEF Knows, Voting, Running
  <2>5. \A a \in Approval : OneCall(a) /\ f.id = a => Phase(a, q)
    BY <1>1, <1>2, <2>3 DEF Phase
  <2>6. QED
    BY <2>1, <2>2, <2>3, <2>4, <2>5, RequestFacts, ReadStep DEF HasDecision, history, f
<1>5. QED
  BY <1>3, <1>4

LEMMA CountDecisionsKeeps ==
  ASSUME ApprovalInv, NEW r \in Request, CountDecisions(r)
  PROVE  ApprovalInv'
<1> DEFINE f == req[r]
           row == Counted(f.row, f.id)
           q == [f EXCEPT !.pc = "update", !.row = row]
<1>1. f \in RequestType /\ Knows(f) /\ f.pc = "count"
  BY RequestFacts DEF CountDecisions, At
<1>2. \A a \in Approval : OneCall(a) /\ f.id = a => Phase(a, f)
  BY RequestFacts
<1>3. Goto(r, q)
  BY DEF CountDecisions
<1>4. row.yes = Cardinality(Recorded(f.id, "APPROVE")) /\ row.no = Cardinality(Recorded(f.id, "REJECT"))
      /\ Terms(row) = Terms(f.row) /\ row.status = f.row.status /\ row.roles = f.row.roles
      /\ row.op = f.row.op
  BY <1>1 DEF Counted, Terms, RequestType, RowType
<1>5. Cardinality(Recorded(f.id, "APPROVE")) \in Nat /\ Cardinality(Recorded(f.id, "REJECT")) \in Nat
  BY Tally DEF ApprovalInv
<1>6. row \in RowType
  BY <1>1, <1>5 DEF Counted, RequestType, RowType
<1> HIDE DEF row
<1>7. q \in RequestType
  BY <1>1, <1>6 DEF RequestType
<1>8. q.pc = "update" /\ q.op = f.op /\ q.by = f.by /\ q.id = f.id
      /\ q.decision = f.decision /\ q.row = row
  BY <1>1 DEF RequestType
<1> HIDE DEF q, f
<1>9. Knows(q)
  BY <1>1, <1>4, <1>5, <1>8 DEF Knows, Voting, Running
<1>10. \A a \in Approval : OneCall(a) /\ f.id = a => Phase(a, q)
  BY <1>1, <1>2, <1>4, <1>8 DEF Phase, NewVote, Tallied
<1>11. QED
  BY <1>3, <1>7, <1>8, <1>9, <1>10, RequestFacts, ReadStep DEF CountDecisions, history, f

LEMMA EndsFacts ==
  ASSUME ApprovalInv, NEW r \in Request, req[r].pc \in Running,
         NEW status \in {"EXECUTED", "FAILED"}
  PROVE  /\ Ends(r, status) \in RequestType /\ Knows(Ends(r, status))
         /\ req[r].id = "none" => Ends(r, status).id = "none"
         /\ req[r].id # "none" =>
              /\ Ends(r, status).id = req[r].id /\ Ends(r, status).pc = "finish"
              /\ Ends(r, status).row = [req[r].row EXCEPT !.status = status]
<1> DEFINE f == req[r]
           row == [f.row EXCEPT !.status = status]
           q == [f EXCEPT !.pc = "finish", !.row.status = status]
<1>1. f \in RequestType /\ Knows(f) /\ f.pc \in Running
  BY RequestFacts
<1>2. row \in RowType /\ Terms(row) = Terms(f.row) /\ row.status = status /\ row.op = f.row.op
  BY <1>1 DEF RequestType, RowType, Terms
<1>3. q \in RequestType
  BY <1>1 DEF RequestType, RowType
<1>4. q.pc = "finish" /\ q.op = f.op /\ q.by = f.by /\ q.id = f.id
      /\ q.decision = f.decision /\ q.row = row
  BY <1>1 DEF RequestType, RowType
<1>5. Ends(r, status) = IF f.id = "none" THEN Idle ELSE q
  BY DEF Ends
<1> HIDE DEF q, f, row
<1>6. f.id # "none" => Knows(q)
  BY <1>1, <1>2, <1>4 DEF Knows, Voting, Running
<1>7. QED
  BY <1>3, <1>4, <1>5, <1>6, IdleFacts DEF f, row

(* What a call that runs the operation knows stays said when it ends.      *)
LEMMA ApprovedEnds ==
  ASSUME NEW a, NEW row \in RowType, NEW status, Approved(a, row)
  PROVE  Approved(a, [row EXCEPT !.status = status])
BY DEF Approved, Tallied, RowType

LEMMA CheckKeeps ==
  ASSUME ApprovalInv, NEW r \in Request, Check(r)
  PROVE  ApprovalInv'
<1> DEFINE f == req[r]
           q == [f EXCEPT !.pc = "perform"]
<1>1. f \in RequestType /\ Knows(f) /\ f.pc = "check"
  BY RequestFacts DEF Check, At
<1>2. \A a \in Approval : OneCall(a) /\ f.id = a => Approved(a, f.row) /\ runs[a] = 0
  BY <1>1, RequestFacts DEF Phase
<1>3. CASE Allowed(f.op)
  <2>1. Goto(r, q)
    BY <1>3 DEF Check
  <2>2. q \in RequestType
    BY <1>1 DEF RequestType
  <2>3. q.pc = "perform" /\ q.op = f.op /\ q.by = f.by /\ q.id = f.id
        /\ q.decision = f.decision /\ q.row = f.row
    BY <1>1 DEF RequestType
  <2> HIDE DEF q, f
  <2>4. Knows(q)
    BY <1>1, <2>3 DEF Knows, Voting, Running
  <2>5. \A a \in Approval : OneCall(a) /\ f.id = a => Phase(a, q)
    BY <1>2, <2>3 DEF Phase
  <2>6. QED
    BY <2>1, <2>2, <2>3, <2>4, <2>5, RequestFacts, ReadStep DEF Check, history, f
<1>4. CASE ~ Allowed(f.op)
  <2>1. PICK e : e = Ends(r, "FAILED")
    OBVIOUS
  <2>2. Goto(r, e)
    BY <1>4, <2>1 DEF Check
  <2>3. /\ e \in RequestType /\ Knows(e)
        /\ f.id = "none" => e.id = "none"
        /\ f.id # "none" => e.id = f.id /\ e.pc = "finish" /\ e.row = [f.row EXCEPT !.status = "FAILED"]
    BY <1>1, <2>1, EndsFacts DEF Running
  <2>4. f.row \in RowType
    BY <1>1 DEF RequestType
  <2>5. f.id # "none" => e.row.status = "FAILED"
    BY <2>3, <2>4 DEF RowType
  <2>6. \A a \in Approval : OneCall(a) /\ f.id = a => e.id = a /\ Phase(a, e)
    <3>1. ASSUME NEW a \in Approval, OneCall(a), f.id = a PROVE e.id = a /\ Phase(a, e)
      <4>1. a # "none"
        BY ApprovalAssumption
      <4>2. Approved(a, e.row)
        BY <1>2, <2>3, <2>4, <3>1, <4>1, ApprovedEnds
      <4>3. runs[a] = 0 /\ e.pc = "finish" /\ e.row.status = "FAILED" /\ e.id = a
        BY <1>2, <2>3, <2>5, <3>1, <4>1
      <4>4. QED
        BY <4>2, <4>3 DEF Phase
    <3>2. QED
      BY <3>1
  <2> HIDE DEF f
  <2>7. e.id \in {f.id, "none"}
    BY <2>3
  <2>8. QED
    BY <2>2, <2>3, <2>6, <2>7, RequestFacts, ReadStep DEF Check, history, f
<1>5. QED
  BY <1>3, <1>4

LEMMA FollowUpKeeps ==
  ASSUME ApprovalInv, NEW r \in Request, FollowUp(r)
  PROVE  ApprovalInv'
<1> DEFINE f == req[r]
<1>1. f \in RequestType /\ Knows(f) /\ f.pc = "follow"
  BY RequestFacts DEF FollowUp, At
<1>2. \A a \in Approval : OneCall(a) /\ f.id = a => Approved(a, f.row) /\ runs[a] = 1
  BY <1>1, RequestFacts DEF Phase
<1>3. PICK e : e = Ends(r, "EXECUTED")
  OBVIOUS
<1>4. Goto(r, e)
  BY <1>3 DEF FollowUp
<1>5. /\ e \in RequestType /\ Knows(e)
      /\ f.id = "none" => e.id = "none"
      /\ f.id # "none" => e.id = f.id /\ e.pc = "finish" /\ e.row = [f.row EXCEPT !.status = "EXECUTED"]
  BY <1>1, <1>3, EndsFacts DEF Running
<1>6. f.row \in RowType
  BY <1>1 DEF RequestType
<1>7. f.id # "none" => e.row.status = "EXECUTED"
  BY <1>5, <1>6 DEF RowType
<1>8. \A a \in Approval : OneCall(a) /\ f.id = a => e.id = a /\ Phase(a, e)
  <2>1. ASSUME NEW a \in Approval, OneCall(a), f.id = a PROVE e.id = a /\ Phase(a, e)
    <3>1. a # "none"
      BY ApprovalAssumption
    <3>2. Approved(a, e.row)
      BY <1>2, <1>5, <1>6, <2>1, <3>1, ApprovedEnds
    <3>3. runs[a] = 1 /\ e.pc = "finish" /\ e.row.status = "EXECUTED" /\ e.id = a
      BY <1>2, <1>5, <1>7, <2>1, <3>1
    <3>4. QED
      BY <3>2, <3>3 DEF Phase
  <2>2. QED
    BY <2>1
<1> HIDE DEF f
<1>9. e.id \in {f.id, "none"}
  BY <1>5
<1>10. QED
  BY <1>4, <1>5, <1>8, <1>9, RequestFacts, ReadStep DEF FollowUp, history, f

LEMMA FailsKeeps ==
  ASSUME ApprovalInv, NEW r \in Request, Fails(r)
  PROVE  ApprovalInv'
<1> DEFINE f == req[r]
<1>1. f \in RequestType /\ Knows(f)
  BY RequestFacts
<1>2. PICK e : e = IF f.pc \in {"check", "perform", "follow"} THEN Ends(r, "FAILED") ELSE Idle
  OBVIOUS
<1>3. Goto(r, e)
  BY <1>2 DEF Fails
<1>4. e \in RequestType /\ Knows(e) /\ e.id \in {f.id, "none"}
  BY <1>2, IdleFacts, EndsFacts DEF Running
<1>5. disturbed' = disturbed \cup ({f.id} \ {"none"})
  BY DEF Fails
<1>6. failures' \in 0 .. MaxFailures
  BY RequestFacts, CapAssumption DEF Fails
<1>7. disturbed \subseteq disturbed' /\ disturbed' \subseteq Approval
  BY <1>1, <1>5, RequestFacts DEF RequestType
<1>8. \A a \in Approval \ disturbed' : a # f.id
  BY <1>5, ApprovalAssumption
<1>9. QED
  BY <1>3, <1>4, <1>6, <1>7, <1>8, RequestFacts, ReadStep DEF Fails

(* The requirement of an operation asks for at least one approval.         *)
LEMMA NewApprovalFacts ==
  ASSUME NEW op \in AllOperations, NEW u \in User
  PROVE  /\ NewApproval(op, u) \in RowType
         /\ NewApproval(op, u).status = "PENDING" /\ NewApproval(op, u).op = op
         /\ NewApproval(op, u).yes = 0 /\ NewApproval(op, u).no = 0
<1>1. Requirement(op).min \in Nat \ {0}
  BY GateAssumption DEF Requirement
<1>2. Requirement(op).roles \subseteq RoleNames
  BY DEF Requirement, RoleNames
<1>3. QED
  BY <1>1, <1>2 DEF NewApproval, NoApproval, RowType

LEMMA CreateApprovalKeeps ==
  ASSUME ApprovalInv, NEW r \in Request, CreateApproval(r)
  PROVE  ApprovalInv'
<1> DEFINE f == req[r]
<1>1. f \in RequestType /\ Knows(f) /\ f.pc = "create"
  BY RequestFacts DEF CreateApproval, At
<1>2. f.op \in AllOperations /\ f.by \in User /\ f.id = "none"
  BY <1>1 DEF Knows, RequestType
<1>3. PICK a \in {x \in Approval : approvals[x] = NoApproval} :
        approvals' = [approvals EXCEPT ![a] = NewApproval(f.op, f.by)]
  BY DEF CreateApproval
<1>4. PICK row : row = NewApproval(f.op, f.by)
  OBVIOUS
<1>5. row \in RowType /\ row.status = "PENDING" /\ row.op = f.op /\ row.yes = 0 /\ row.no = 0
  BY <1>2, <1>4, NewApprovalFacts
<1>6. /\ approvals'[a] = row /\ \A b \in Approval : b # a => approvals'[b] = approvals[b]
      /\ approvals' \in [Approval -> RowType]
  BY <1>3, <1>4, <1>5 DEF ApprovalInv, TypeOK
<1>7. a \in Approval /\ ~ Stored(a)
  BY <1>3 DEF Stored, NoApproval
<1>8. UNCHANGED <<decisions, entity, calls, failures, effects, runs, settled, disturbed>> /\ Goto(r, Idle)
  BY DEF CreateApproval, history
<1> HIDE DEF f
<1>9. TypeOK'
  BY <1>6, <1>8, IdleFacts DEF ApprovalInv, TypeOK, Goto
<1>10. Grows
  BY <1>6, <1>7, <1>8 DEF Grows, Stored
<1>11. RowsInv'
  BY <1>2, <1>5, <1>6 DEF RowsInv, ApprovalInv, Stored, AllOperations
<1>12. \A x \in decisions : x.approval # a /\ x.approval \in Approval
  BY <1>7 DEF ApprovalInv, DecisionsFit, TypeOK
<1>13. DecisionsFit'
  BY <1>6, <1>8, <1>12 DEF ApprovalInv, DecisionsFit, Stored
<1>14. FramesInv'
  <2>1. Knows(Idle)'
    BY DEF Knows, Idle, Voting, Running
  <2>2. QED
    BY <2>1, <1>8, <1>10, <1>13, FramesKept DEF ApprovalInv, DecisionsFit
<1>15. NoBypass'
  BY <1>8, <1>10, EffectsKept DEF ApprovalInv
<1>16. ASSUME NEW b \in Approval \ disturbed' PROVE OneCall(b)'
  <2>1. OneCall(b)
    BY <1>8 DEF ApprovalInv, OnceInv
  <2>2. CASE b # a
    <3>1. SameStory(b)
      BY <2>2, <1>6, <1>8 DEF SameStory, Recorded
    <3>2. req[r].id # b /\ Idle.id # b
      BY <1>2, ApprovalAssumption, IdleFacts DEF f
    <3>3. QED
      BY <2>1, <3>1, <3>2, <1>8, OneCallKept DEF ApprovalInv
  <2>3. CASE b = a
    <3>1. \A i \in Request : req[i].id # a
      BY <1>7, ApprovalAssumption DEF ApprovalInv, FramesInv, Knows
    <3>2. runs[a] = 0
      BY <2>1, <2>3, <3>1, <1>7, <1>3 DEF OneCall, SaysWhatHappened, NoApproval
    <3>3. Recorded(a, "APPROVE")' = {} /\ Recorded(a, "REJECT")' = {}
      BY <1>8, <1>12 DEF Recorded
    <3>4. Voters(a)' = {}
      BY <3>3 DEF Voters
    <3>5. Cardinality({}) = 0
      BY FS_EmptySet
    <3>6. ~ Earned(a)'
      BY <3>4, <3>5, <1>5, <1>6 DEF Earned, RowType
    <3>7. SaysWhatHappened(a)'
      BY <3>2, <3>3, <3>5, <3>6, <1>5, <1>6, <1>8 DEF SaysWhatHappened
    <3>8. \A i \in Request : req'[i].id # a
      BY <3>1, <1>8, IdleFacts, ApprovalAssumption, <1>7 DEF Goto, ApprovalInv, TypeOK
    <3>9. OneCall(a)'
      BY <3>7, <3>8 DEF OneCall
    <3>10. QED
      BY <2>3, <3>9
  <2>4. QED
    BY <2>2, <2>3
<1>17. OnceInv'
  BY <1>16 DEF OnceInv
<1>18. QED
  BY <1>9, <1>11, <1>13, <1>14, <1>15, <1>17 DEF ApprovalInv

LEMMA DecideKeeps ==
  ASSUME ApprovalInv, NEW r \in Request, Decide(r)
  PROVE  ApprovalInv'
<1>1. PICK u \in User, a \in Approval, d \in Decision :
        /\ approvals[a].status = "PENDING"
        /\ Role[u] \in approvals[a].roles
        /\ Goto(r, [Idle EXCEPT !.pc = "lookup", !.by = u, !.id = a, !.decision = d,
                                !.op = approvals[a].op, !.row = approvals[a]])
        /\ disturbed' = IF \E other \in Request : Deciding(other, a)
                        THEN disturbed \cup {a} ELSE disturbed
  BY DEF Decide
<1>2. PICK q : q = [Idle EXCEPT !.pc = "lookup", !.by = u, !.id = a, !.decision = d,
                               !.op = approvals[a].op, !.row = approvals[a]]
  OBVIOUS
<1>3. approvals[a] \in RowType /\ Stored(a) /\ approvals[a].op # "none"
  BY <1>1 DEF ApprovalInv, TypeOK, RowsInv, Stored
<1>4. q \in RequestType
  BY <1>2, <1>3, IdleFacts DEF RequestType, RowType
<1>5. q.pc = "lookup" /\ q.by = u /\ q.id = a /\ q.decision = d /\ q.op = approvals[a].op
      /\ q.row = approvals[a]
  BY <1>2 DEF Idle
<1>6. Goto(r, q)
  BY <1>2, <1>1
<1>7. UNCHANGED <<approvals, decisions, entity, failures, effects, runs, settled>>
  BY DEF Decide
<1>8. calls' \in 0 .. MaxCalls
  BY RequestFacts, CapAssumption DEF Decide, Begin
<1>9. req[r].id = "none"
  BY IdleFacts DEF Decide, Begin
<1>10. a # "none" /\ u # "none" /\ d # "none"
  BY ApprovalAssumption, UserAssumption DEF Decision
<1>11. Knows(q)
  BY <1>1, <1>3, <1>5, <1>10 DEF Knows, Voting, Running
<1>12. TypeOK'
  <2>1. disturbed' \subseteq Approval
    BY <1>1 DEF ApprovalInv, TypeOK
  <2>2. QED
    BY <2>1, <1>4, <1>6, <1>7, <1>8 DEF ApprovalInv, TypeOK, Goto
<1>13. Grows /\ \A b : SameStory(b)
  BY <1>7, NothingHappens
<1>14. RowsInv' /\ DecisionsFit'
  BY <1>7 DEF ApprovalInv, RowsInv, DecisionsFit, Stored
<1>15. FramesInv'
  <2>1. Knows(q)'
    BY <1>4, <1>11, <1>13, <1>14, KnowsStays DEF ApprovalInv, DecisionsFit
  <2>2. QED
    BY <2>1, <1>6, <1>13, <1>14, FramesKept DEF ApprovalInv, DecisionsFit
<1>16. NoBypass'
  BY <1>7, <1>13, EffectsKept DEF ApprovalInv
<1>17. ASSUME NEW b \in Approval \ disturbed' PROVE OneCall(b)'
  <2>1. OneCall(b)
    BY <1>1 DEF ApprovalInv, OnceInv
  <2>2. CASE b # a
    BY <2>1, <2>2, <1>5, <1>6, <1>9, <1>13, OneCallKept, ApprovalAssumption DEF ApprovalInv
  <2>3. CASE b = a
    <3>1. \A i \in Request : req[i].id # a
      BY <1>1, <1>10, <2>3 DEF Deciding, ApprovalInv, FramesInv, Knows
    <3>2. SaysWhatHappened(a)
      BY <2>1, <2>3, <3>1 DEF OneCall
    <3>3. Phase(a, q)
      BY <3>2, <1>5 DEF Phase
    <3>4. Phase(a, q)'
      BY <3>3, <1>13, StoryKept
    <3>5. QED
      BY <2>3, <3>1, <3>4, <1>5, <1>6, OneCallMoves DEF ApprovalInv
  <2>4. QED
    BY <2>2, <2>3
<1>18. OnceInv'
  BY <1>17 DEF OnceInv
<1>19. QED
  BY <1>12, <1>14, <1>15, <1>16, <1>18 DEF ApprovalInv

LEMMA CreateDecisionKeeps ==
  ASSUME ApprovalInv, NEW r \in Request, CreateDecision(r)
  PROVE  ApprovalInv'
<1>1. PICK f : f = req[r]
  OBVIOUS
<1>2. f \in RequestType /\ Knows(f) /\ f.pc = "record"
  BY <1>1, RequestFacts DEF CreateDecision, At
<1>3. \A a \in Approval : OneCall(a) /\ f.id = a => SaysWhatHappened(a) /\ f.row = approvals[a]
  BY <1>1, <1>2, RequestFacts DEF Phase
<1>4. f.id # "none" /\ f.id \in Approval /\ f.by \in User /\ f.decision \in Decision
      /\ f.row.status = "PENDING" /\ Stored(f.id) /\ Terms(approvals[f.id]) = Terms(f.row)
      /\ Role[f.by] \in f.row.roles
  BY <1>2 DEF Knows, RequestType, Voting, Running
<1>5. UNCHANGED <<approvals, entity, calls, failures, effects, runs, settled, disturbed>>
  BY DEF CreateDecision, history
<1>6. CASE Decided(r)
  <2>1. Goto(r, Idle) /\ UNCHANGED decisions
    BY <1>6 DEF CreateDecision
  <2>2. \A a \in Approval \ disturbed' :
          OneCall(a) /\ a = req[r].id => IF Idle.id = a THEN Phase(a, Idle) ELSE SaysWhatHappened(a)
    BY <1>1, <1>3, IdleFacts, ApprovalAssumption
  <2>3. QED
    BY <2>1, <2>2, <1>5, IdleFacts, RequestFacts, ReadStep
<1>7. CASE ~ Decided(r)
  <2>1. PICK x : x = [approval |-> f.id, by |-> f.by, decision |-> f.decision]
    OBVIOUS
  <2>2. PICK q : q = [f EXCEPT !.pc = "count"]
    OBVIOUS
  <2>3. decisions' = decisions \cup {x} /\ Goto(r, q)
    BY <1>1, <1>7, <2>1, <2>2 DEF CreateDecision
  <2>4. /\ x.approval = f.id /\ x.by = f.by /\ x.decision = f.decision
        /\ x \in [approval: Approval, by: User, decision: Decision]
    BY <1>4, <2>1
  <2>5. q \in RequestType
    BY <1>2, <2>2 DEF RequestType
  <2>6. q.pc = "count" /\ q.op = f.op /\ q.by = f.by /\ q.id = f.id
        /\ q.decision = f.decision /\ q.row = f.row
    BY <1>2, <2>2 DEF RequestType
  <2>7. Knows(q)
    BY <1>2, <2>6 DEF Knows, Voting, Running
  <2>8. TypeOK'
    BY <1>5, <2>3, <2>4, <2>5 DEF ApprovalInv, TypeOK, Goto
  <2>9. Grows
    BY <1>5, <2>3 DEF Grows, Stored
  <2>10. RowsInv'
    BY <1>5 DEF ApprovalInv, RowsInv, Stored
  <2>11. DecisionsFit'
    <3>1. IsFiniteSet(decisions')
      BY <2>3, FS_AddElement DEF ApprovalInv, DecisionsFit
    <3>2. \A y \in decisions : ~ (y.approval = x.approval /\ y.by = x.by)
      BY <1>1, <1>7, <2>4 DEF Decided
    <3>3. \A y, z \in decisions' : y.approval = z.approval /\ y.by = z.by => y = z
      BY <2>3, <3>2 DEF ApprovalInv, DecisionsFit
    <3>4. Stored(x.approval) /\ Role[x.by] \in approvals[x.approval].roles
      BY <1>4, <2>4 DEF Terms
    <3>5. \A y \in decisions' : Stored(y.approval) /\ Role[y.by] \in approvals[y.approval].roles
      BY <2>3, <3>4 DEF ApprovalInv, DecisionsFit
    <3>6. QED
      BY <1>5, <3>1, <3>3, <3>5 DEF DecisionsFit, Stored
  <2>12. FramesInv'
    <3>1. Knows(q)'
      BY <2>5, <2>7, <2>9, <2>11, KnowsStays DEF ApprovalInv, DecisionsFit
    <3>2. QED
      BY <3>1, <2>3, <2>9, <2>11, FramesKept DEF ApprovalInv, DecisionsFit
  <2>13. NoBypass'
    BY <1>5, <2>9, EffectsKept DEF ApprovalInv
  <2>14. \A a \in Approval : a # req[r].id => SameStory(a)
    BY <1>1, <1>5, <2>3, <2>4 DEF SameStory, Recorded
  <2>15. ASSUME NEW a \in Approval \ disturbed', a = req[r].id PROVE OneCall(a)'
    <3>1. OneCall(a) /\ SaysWhatHappened(a) /\ approvals[a].status = "PENDING"
      BY <1>1, <1>3, <1>4, <1>5, <2>15 DEF ApprovalInv, OnceInv
    <3>2. runs[a] = 0 /\ Recorded(a, "REJECT") = {}
      BY <3>1 DEF SaysWhatHappened
    <3>3. IF q.decision = "REJECT" THEN Recorded(a, "REJECT")' # {} ELSE Recorded(a, "REJECT")' = {}
      BY <1>1, <2>3, <2>4, <2>6, <2>15, <3>2 DEF Recorded
    <3>4. Phase(a, q)'
      BY <1>5, <2>6, <3>2, <3>3 DEF Phase, NewVote
    <3>5. \A i \in Request : req[i].id = a => i = r
      BY <2>15, <3>1 DEF OneCall
    <3>6. QED
      BY <1>1, <2>3, <2>6, <2>15, <3>4, <3>5, OneCallMoves DEF ApprovalInv
  <2>16. OnceInv'
    BY <1>1, <1>5, <2>3, <2>6, <2>14, <2>15, OnceKept DEF ApprovalInv
  <2>17. QED
    BY <2>8, <2>10, <2>11, <2>12, <2>13, <2>16 DEF ApprovalInv
<1>8. QED
  BY <1>6, <1>7

LEMMA UpdateApprovalKeeps ==
  ASSUME ApprovalInv, NEW r \in Request, UpdateApproval(r)
  PROVE  ApprovalInv'
<1>1. PICK f : f = req[r]
  OBVIOUS
<1>2. PICK row : row = [f.row EXCEPT !.status = Verdict(f.row, f.decision)]
  OBVIOUS
<1>3. PICK q : q = IF row.status = "APPROVED" THEN [f EXCEPT !.pc = "check", !.row = row] ELSE Idle
  OBVIOUS
<1>4. f \in RequestType /\ Knows(f) /\ f.pc = "update"
  BY <1>1, RequestFacts DEF UpdateApproval, At
<1>5. PICK a : a = f.id
  OBVIOUS
<1>6. a # "none" /\ a \in Approval /\ f.decision \in Decision /\ f.by # "none"
      /\ f.row.status = "PENDING" /\ Stored(a) /\ Terms(approvals[a]) = Terms(f.row)
      /\ f.row.yes <= Cardinality(Recorded(a, "APPROVE")) /\ f.row \in RowType
      /\ f.op = f.row.op /\ f.op # "none"
  BY <1>4, <1>5 DEF Knows, RequestType, Voting, Running
<1>7. \/ f.decision = "REJECT" /\ row.status = "REJECTED"
      \/ f.decision = "APPROVE" /\ f.row.yes >= f.row.min /\ row.status = "APPROVED"
      \/ f.decision = "APPROVE" /\ ~ (f.row.yes >= f.row.min) /\ row.status = "PENDING"
  BY <1>2, <1>6 DEF Verdict, Decision, RowType
<1>8. row \in RowType /\ Terms(row) = Terms(f.row) /\ row.yes = f.row.yes /\ row.no = f.row.no
      /\ row.op = f.row.op /\ row.min = f.row.min
  BY <1>2, <1>6, <1>7 DEF RowType, Terms
<1>9. approvals' = [approvals EXCEPT ![a] = row] /\ Goto(r, q)
  BY <1>1, <1>2, <1>3, <1>5 DEF UpdateApproval
<1>10. UNCHANGED <<decisions, entity, calls, failures, effects, runs, settled, disturbed>>
  BY DEF UpdateApproval, history
<1>11. approvals'[a] = row /\ \A b \in Approval : b # a => approvals'[b] = approvals[b]
  BY <1>6, <1>9 DEF ApprovalInv, TypeOK
<1>12. q \in RequestType
  BY <1>3, <1>4, <1>8, IdleFacts DEF RequestType
<1>13. /\ row.status = "APPROVED" => q.pc = "check" /\ q.op = f.op /\ q.by = f.by /\ q.id = a
                                     /\ q.decision = f.decision /\ q.row = row
       /\ row.status # "APPROVED" => q = Idle
  BY <1>3, <1>4, <1>5 DEF RequestType
<1>14. TypeOK'
  BY <1>8, <1>9, <1>10, <1>12 DEF ApprovalInv, TypeOK, Goto
<1>15. Grows
  BY <1>6, <1>7, <1>8, <1>10, <1>11 DEF Grows, Stored
<1>16. RowsInv'
  BY <1>6, <1>7, <1>8, <1>11 DEF ApprovalInv, RowsInv, Stored
<1>17. DecisionsFit'
  <2>1. \A x \in decisions : x.approval \in Approval
    BY DEF ApprovalInv, TypeOK
  <2>2. QED
    BY <2>1, <1>10, <1>15 DEF ApprovalInv, DecisionsFit, Grows, Terms
<1>18. row.status = "APPROVED" => Earned(a) /\ Earned(a)'
  <2>1. f.row.min = approvals[a].min /\ f.row.min \in Nat /\ f.row.yes \in Nat
    BY <1>6 DEF Terms, RowType
  <2>2. Cardinality(Recorded(a, "APPROVE")) \in Nat
    BY Tally DEF ApprovalInv
  <2>3. row.status = "APPROVED" => Earned(a)
    BY <2>1, <2>2, <1>6, <1>7, EarnedIsCounted DEF ApprovalInv
  <2>4. QED
    BY <2>3, <1>6, <1>15, EarnedStays DEF ApprovalInv
<1>19. FramesInv'
  <2>1. Knows(Idle)'
    BY DEF Knows, Idle, Voting, Running
  <2>2. CASE row.status = "APPROVED"
    <3>1. Stored(a)' /\ Terms(approvals'[a]) = Terms(row)
      BY <2>2, <1>11 DEF Stored
    <3>2. Knows(q)'
      BY <2>2, <3>1, <1>6, <1>8, <1>13, <1>18, ApprovalAssumption DEF Knows, Running, Voting, Decision
    <3>3. QED
      BY <3>2, <1>9, <1>15, <1>17, FramesKept DEF ApprovalInv, DecisionsFit
  <2>3. CASE row.status # "APPROVED"
    <3>1. Goto(r, Idle)
      BY <2>3, <1>9, <1>13
    <3>2. QED
      BY <2>1, <3>1, <1>15, <1>17, FramesKept DEF ApprovalInv, DecisionsFit
  <2>4. QED
    BY <2>2, <2>3
<1>20. NoBypass'
  BY <1>10, <1>15, EffectsKept DEF ApprovalInv
<1>21. \A b \in Approval : b # req[r].id => SameStory(b)
  BY <1>1, <1>5, <1>10, <1>11 DEF SameStory, Recorded
<1>22. ASSUME NEW b \in Approval \ disturbed', b = req[r].id PROVE OneCall(b)'
  <2>1. b = a /\ OneCall(a)
    BY <1>1, <1>5, <1>10, <1>22 DEF ApprovalInv, OnceInv
  <2>2. NewVote(a, f) /\ Tallied(a, f.row) /\ \A i \in Request : req[i].id = a => i = r
    BY <1>1, <1>4, <1>5, <2>1 DEF OneCall, Phase
  <2>3. Tallied(a, row)' /\ Tallied(a, row) /\ runs'[a] = 0
        /\ Recorded(a, "REJECT")' = Recorded(a, "REJECT")
    BY <2>2, <1>8, <1>10 DEF Tallied, Recorded, NewVote
  <2>4. Earned(a)' <=> Cardinality(Recorded(a, "APPROVE")) >= row.min
    <3>1. Voters(a)' = Voters(a)
      BY <1>6, <1>8, <1>10, <1>11 DEF Voters, Recorded, Terms
    <3>2. row.min = approvals[a].min
      BY <1>6, <1>8 DEF Terms
    <3>3. QED
      BY <3>1, <3>2, <1>6, <1>11, EarnedIsCounted DEF Earned, ApprovalInv
  <2>5. CASE row.status = "APPROVED"
    <3>1. Approved(a, row)' /\ runs'[a] = 0
      BY <1>7, <1>18, <2>2, <2>3, <2>5 DEF Approved, NewVote
    <3>2. Phase(a, q)'
      BY <3>1, <1>13, <2>5 DEF Phase
    <3>3. QED
      BY <3>2, <1>6, <1>9, <1>13, <2>1, <2>2, <2>5, OneCallMoves DEF ApprovalInv
  <2>6. CASE row.status = "PENDING"
    <3>1. ~ Earned(a)' /\ Recorded(a, "REJECT")' = {}
      BY <1>7, <1>8, <2>2, <2>3, <2>4, <2>6 DEF NewVote, Tallied
    <3>2. SaysWhatHappened(a)'
      BY <3>1, <1>11, <2>3, <2>6 DEF SaysWhatHappened, Tallied
    <3>3. q = Idle /\ Idle.id # a
      BY <1>6, <1>13, <2>6, IdleFacts
    <3>4. QED
      BY <3>2, <3>3, <1>6, <1>9, <2>1, <2>2, OneCallEnds DEF ApprovalInv
  <2>7. CASE row.status = "REJECTED"
    <3>1. Recorded(a, "REJECT")' # {}
      BY <1>7, <2>2, <2>3, <2>7 DEF NewVote
    <3>2. SaysWhatHappened(a)'
      BY <3>1, <1>11, <2>3, <2>7 DEF SaysWhatHappened, Tallied
    <3>3. q = Idle /\ Idle.id # a
      BY <1>6, <1>13, <2>7, IdleFacts
    <3>4. QED
      BY <3>2, <3>3, <1>6, <1>9, <2>1, <2>2, OneCallEnds DEF ApprovalInv
  <2>8. QED
    BY <1>7, <2>5, <2>6, <2>7
<1>23. q.id \in {req[r].id, "none"}
  BY <1>1, <1>5, <1>13, IdleFacts
<1>24. OnceInv'
  BY <1>9, <1>10, <1>21, <1>22, <1>23, OnceKept DEF ApprovalInv
<1>25. QED
  BY <1>14, <1>16, <1>17, <1>19, <1>20, <1>24 DEF ApprovalInv

LEMMA PerformKeeps ==
  ASSUME ApprovalInv, NEW r \in Request, Perform(r)
  PROVE  ApprovalInv'
<1>1. PICK f : f = req[r]
  OBVIOUS
<1>2. PICK q : q = [f EXCEPT !.pc = "follow"]
  OBVIOUS
<1>3. PICK e : e = [op |-> f.op, by |-> f.by, id |-> f.id]
  OBVIOUS
<1>4. f \in RequestType /\ Knows(f) /\ f.pc = "perform"
  BY <1>1, RequestFacts DEF Perform, At
<1>5. f.op \in AllOperations /\ f.by \in User /\ f.id \in Approval \cup {"none"}
      /\ IF f.id = "none" THEN ~ Requires(f.op, f.by) ELSE Earned(f.id)
  BY <1>4 DEF Knows, RequestType, Running
<1>6. /\ entity' = [entity EXCEPT ![Target(f.op)] = Goal(f.op)]
      /\ effects' = effects \cup {e}
      /\ runs' = IF f.id = "none" THEN runs ELSE [runs EXCEPT ![f.id] = @ + 1]
      /\ Goto(r, q)
  BY <1>1, <1>2, <1>3 DEF Perform
<1>7. UNCHANGED <<approvals, decisions, calls, failures, settled, disturbed>>
  BY DEF Perform
<1>8. q \in RequestType
  BY <1>2, <1>4 DEF RequestType
<1>9. q.pc = "follow" /\ q.op = f.op /\ q.by = f.by /\ q.id = f.id
      /\ q.decision = f.decision /\ q.row = f.row
  BY <1>2, <1>4 DEF RequestType
<1>10. Knows(q)
  BY <1>4, <1>9 DEF Knows, Voting, Running
<1>11. e.op = f.op /\ e.by = f.by /\ e.id = f.id
       /\ e \in [op: AllOperations, by: User, id: Approval \cup {"none"}]
  BY <1>3, <1>5
<1>12. runs' \in [Approval -> Nat]
  BY <1>5, <1>6 DEF ApprovalInv, TypeOK
<1>13. entity' \in [task: DOMAIN TaskMoves, action: DOMAIN ActionMoves]
  <2>1. /\ Target(f.op) = "task" => Goal(f.op) \in {"RUNNING", "CANCELLED"}
        /\ Target(f.op) = "action" => Goal(f.op) \in {"ACKED", "RESOLVED"}
        /\ Target(f.op) \in {"task", "action"}
    BY <1>5 DEF Target, Goal, AllOperations
  <2>2. {"RUNNING", "CANCELLED"} \subseteq DOMAIN TaskMoves
        /\ {"ACKED", "RESOLVED"} \subseteq DOMAIN ActionMoves
    BY DEF TaskMoves, ActionMoves
  <2>3. entity \in [task: DOMAIN TaskMoves, action: DOMAIN ActionMoves]
    BY DEF ApprovalInv, TypeOK
  <2>4. CASE Target(f.op) = "task"
    <3>1. entity' = [entity EXCEPT !.task = Goal(f.op)] /\ Goal(f.op) \in DOMAIN TaskMoves
      BY <1>6, <2>1, <2>2, <2>4
    <3>2. QED
      BY <2>3, <3>1
  <2>5. CASE Target(f.op) = "action"
    <3>1. entity' = [entity EXCEPT !.action = Goal(f.op)] /\ Goal(f.op) \in DOMAIN ActionMoves
      BY <1>6, <2>1, <2>2, <2>5
    <3>2. QED
      BY <2>3, <3>1
  <2>6. QED
    BY <2>1, <2>4, <2>5
<1>14. TypeOK'
  BY <1>6, <1>7, <1>8, <1>11, <1>12, <1>13 DEF ApprovalInv, TypeOK, Goto
<1>15. Grows
  BY <1>7, NothingGrows
<1>16. RowsInv' /\ DecisionsFit'
  BY <1>7 DEF ApprovalInv, RowsInv, DecisionsFit, Stored
<1>17. FramesInv'
  <2>1. Knows(q)'
    BY <1>8, <1>10, <1>15, <1>16, KnowsStays DEF ApprovalInv, DecisionsFit
  <2>2. QED
    BY <2>1, <1>6, <1>15, <1>16, FramesKept DEF ApprovalInv, DecisionsFit
<1>18. NoBypass'
  <2>1. \A a : Earned(a)' <=> Earned(a)
    BY <1>7 DEF Earned, Voters, Recorded
  <2>2. e.id # "none" => approvals[e.id].op = e.op
    BY <1>4, <1>11 DEF Knows, Terms
  <2>3. QED
    BY <2>1, <2>2, <1>5, <1>6, <1>7, <1>11 DEF ApprovalInv, NoBypass
<1>19. \A b \in Approval : b # req[r].id => SameStory(b)
  BY <1>1, <1>5, <1>6, <1>7 DEF SameStory, Recorded, ApprovalInv, TypeOK
<1>20. ASSUME NEW a \in Approval \ disturbed', a = req[r].id PROVE OneCall(a)'
  <2>1. OneCall(a) /\ a # "none" /\ a = f.id
    BY <1>1, <1>7, <1>20, ApprovalAssumption DEF ApprovalInv, OnceInv
  <2>2. Approved(a, f.row) /\ runs[a] = 0 /\ \A i \in Request : req[i].id = a => i = r
    BY <1>1, <1>4, <1>20, <2>1 DEF OneCall, Phase
  <2>3. runs'[a] = 1
    BY <1>6, <2>1, <2>2 DEF ApprovalInv, TypeOK
  <2>4. Approved(a, f.row)'
    BY <2>2, <1>7 DEF Approved, Tallied, Earned, Voters, Recorded
  <2>5. Phase(a, q)'
    BY <1>9, <2>3, <2>4 DEF Phase
  <2>6. QED
    BY <1>6, <1>9, <2>1, <2>2, <2>5, OneCallMoves DEF ApprovalInv
<1>21. OnceInv'
  BY <1>1, <1>6, <1>7, <1>9, <1>19, <1>20, OnceKept DEF ApprovalInv
<1>22. QED
  BY <1>14, <1>16, <1>17, <1>18, <1>21 DEF ApprovalInv

LEMMA FinishKeeps ==
  ASSUME ApprovalInv, NEW r \in Request, Finish(r)
  PROVE  ApprovalInv'
<1>1. PICK f : f = req[r]
  OBVIOUS
<1>2. f \in RequestType /\ Knows(f) /\ f.pc = "finish"
  BY <1>1, RequestFacts DEF Finish, At
<1>3. PICK a : a = f.id
  OBVIOUS
<1>4. a # "none" /\ a \in Approval /\ Stored(a) /\ Terms(approvals[a]) = Terms(f.row)
      /\ f.row \in RowType /\ f.row.status # "NONE" /\ f.op = f.row.op /\ f.op # "none"
  BY <1>2, <1>3 DEF Knows, RequestType, Running
<1>5. approvals' = [approvals EXCEPT ![a] = f.row] /\ Goto(r, Idle)
      /\ settled' = settled \cup {a}
  BY <1>1, <1>3 DEF Finish
<1>6. UNCHANGED <<decisions, entity, calls, failures, effects, runs, disturbed>>
  BY DEF Finish
<1>7. approvals'[a] = f.row /\ \A b \in Approval : b # a => approvals'[b] = approvals[b]
  BY <1>4, <1>5 DEF ApprovalInv, TypeOK
<1>8. TypeOK'
  BY <1>4, <1>5, <1>6, IdleFacts DEF ApprovalInv, TypeOK, Goto
<1>9. Grows
  BY <1>4, <1>6, <1>7 DEF Grows, Stored
<1>10. RowsInv'
  BY <1>4, <1>7 DEF ApprovalInv, RowsInv, Stored
<1>11. DecisionsFit'
  <2>1. \A x \in decisions : x.approval \in Approval
    BY DEF ApprovalInv, TypeOK
  <2>2. QED
    BY <2>1, <1>6, <1>9 DEF ApprovalInv, DecisionsFit, Grows, Terms
<1>12. FramesInv'
  <2>1. Knows(Idle)'
    BY DEF Knows, Idle, Voting, Running
  <2>2. QED
    BY <2>1, <1>5, <1>9, <1>11, FramesKept DEF ApprovalInv, DecisionsFit
<1>13. NoBypass'
  BY <1>6, <1>9, EffectsKept DEF ApprovalInv
<1>14. \A b \in Approval : b # req[r].id => SameStory(b)
  BY <1>1, <1>3, <1>6, <1>7 DEF SameStory, Recorded
<1>15. ASSUME NEW b \in Approval \ disturbed', b = req[r].id PROVE OneCall(b)'
  <2>1. b = a /\ OneCall(a)
    BY <1>1, <1>3, <1>6, <1>15 DEF ApprovalInv, OnceInv
  <2>2. Phase(a, f) /\ \A i \in Request : req[i].id = a => i = r
    BY <1>1, <1>3, <2>1 DEF OneCall
  <2>3. Approved(a, f.row) /\ \/ f.row.status = "EXECUTED" /\ runs[a] = 1
                              \/ f.row.status = "FAILED" /\ runs[a] = 0
    BY <2>2, <1>2 DEF Phase
  <2>4. Earned(a)' <=> Earned(a)
    <3>1. Voters(a)' = Voters(a)
      BY <1>4, <1>6, <1>7 DEF Voters, Recorded, Terms
    <3>2. approvals'[a].min = approvals[a].min
      BY <1>4, <1>7 DEF Terms
    <3>3. QED
      BY <3>1, <3>2 DEF Earned
  <2>5. Recorded(a, "REJECT")' = Recorded(a, "REJECT") /\ Recorded(a, "APPROVE")' = Recorded(a, "APPROVE")
    BY <1>6 DEF Recorded
  <2>6. SaysWhatHappened(a)'
    BY <1>6, <1>7, <2>3, <2>4, <2>5 DEF SaysWhatHappened, Approved, Tallied
  <2>7. Idle.id # a
    BY <1>4, IdleFacts
  <2>8. QED
    BY <1>4, <1>5, <2>1, <2>2, <2>6, <2>7, OneCallEnds DEF ApprovalInv
<1>16. OnceInv'
  BY <1>5, <1>6, <1>14, <1>15, IdleFacts, OnceKept DEF ApprovalInv
<1>17. QED
  BY <1>8, <1>10, <1>11, <1>12, <1>13, <1>16 DEF ApprovalInv

LEMMA CrashKeeps ==
  ASSUME ApprovalInv, Crash
  PROVE  ApprovalInv'
<1>1. /\ req' = [r \in Request |-> Idle]
      /\ disturbed' = disturbed \cup ({req[r].id : r \in Request} \ {"none"})
      /\ UNCHANGED <<approvals, decisions, entity, calls, effects, runs, settled>>
  BY DEF Crash
<1>2. failures' \in 0 .. MaxFailures
  BY CapAssumption DEF Crash, ApprovalInv, TypeOK
<1>3. disturbed' \subseteq Approval
  BY <1>1 DEF ApprovalInv, TypeOK, RequestType
<1>4. TypeOK'
  BY <1>1, <1>2, <1>3, IdleFacts DEF ApprovalInv, TypeOK
<1>5. RowsInv' /\ DecisionsFit'
  BY <1>1 DEF ApprovalInv, RowsInv, DecisionsFit, Stored
<1>6. FramesInv'
  <2>1. \A r \in Request : req'[r] = Idle
    BY <1>1
  <2>2. QED
    BY <2>1 DEF FramesInv, Knows, Idle, Voting, Running
<1>7. NoBypass'
  BY <1>1, NothingGrows, EffectsKept DEF ApprovalInv
<1>8. ASSUME NEW a \in Approval \ disturbed' PROVE OneCall(a)'
  <2>1. OneCall(a) /\ \A r \in Request : req[r].id # a
    BY <1>1, ApprovalAssumption DEF ApprovalInv, OnceInv
  <2>2. SaysWhatHappened(a)
    BY <2>1 DEF OneCall
  <2>3. SaysWhatHappened(a)'
    BY <2>2, <1>1, NothingHappens, StoryKept
  <2>4. \A r \in Request : req'[r].id # a
    BY <1>1, IdleFacts, ApprovalAssumption
  <2>5. QED
    BY <2>3, <2>4 DEF OneCall
<1>9. OnceInv'
  BY <1>8 DEF OnceInv
<1>10. QED
  BY <1>4, <1>5, <1>6, <1>7, <1>9 DEF ApprovalInv

-----------------------------------------------------------------------------
(* Safety.                                                                 *)

LEMMA InitEstablishes == Init => ApprovalInv
<1> SUFFICES ASSUME Init PROVE ApprovalInv
  OBVIOUS
<1>1. TypeOK
  <2>1. 0 \in 0 .. MaxCalls /\ 0 \in 0 .. MaxFailures
    BY CapAssumption
  <2>2. entity \in [task: DOMAIN TaskMoves, action: DOMAIN ActionMoves]
    <3>1. "DRAFT" \in DOMAIN TaskMoves /\ "DISPATCHED" \in DOMAIN ActionMoves
      BY DEF TaskMoves, ActionMoves
    <3>2. QED
      BY <3>1 DEF Init
  <2>3. QED
    BY <2>1, <2>2, IdleFacts DEF Init, TypeOK
<1>2. RowsInv
  BY DEF Init, RowsInv, Stored, NoApproval
<1>3. DecisionsFit
  BY FS_EmptySet DEF Init, DecisionsFit
<1>4. FramesInv
  BY IdleFacts DEF Init, FramesInv
<1>5. NoBypass
  BY DEF Init, NoBypass
<1>6. ASSUME NEW a \in Approval PROVE OneCall(a)
  <2>1. \A d : Recorded(a, d) = {}
    BY DEF Init, Recorded
  <2>2. approvals[a] = NoApproval /\ runs[a] = 0
    BY DEF Init
  <2>3. SaysWhatHappened(a)
    BY <2>1, <2>2, FS_EmptySet DEF SaysWhatHappened, NoApproval
  <2>4. \A r \in Request : req[r].id # a
    BY IdleFacts, ApprovalAssumption DEF Init
  <2>5. QED
    BY <2>3, <2>4 DEF OneCall
<1>7. QED
  BY <1>1, <1>2, <1>3, <1>4, <1>5, <1>6 DEF ApprovalInv, OnceInv

LEMMA NextKeeps == ApprovalInv /\ [Next]_vars => ApprovalInv'
<1> SUFFICES ASSUME ApprovalInv, [Next]_vars PROVE ApprovalInv'
  OBVIOUS
<1>1. CASE UNCHANGED vars
  <2>1. UNCHANGED <<approvals, decisions, entity, req, calls, failures, effects, runs, settled, disturbed>>
    BY <1>1 DEF vars
  <2>2. TypeOK' /\ RowsInv' /\ DecisionsFit'
    BY <2>1 DEF ApprovalInv, TypeOK, RowsInv, DecisionsFit, Stored
  <2>3. Grows /\ \A a : SameStory(a)
    BY <2>1, NothingHappens
  <2>4. \A r \in Request : Knows(req[r])'
    <3>1. ASSUME NEW r \in Request PROVE Knows(req[r])'
      <4>1. PICK k : k = req[r]
        OBVIOUS
      <4>2. k \in RequestType /\ Knows(k)
        BY <4>1, RequestFacts
      <4>3. Knows(k)' /\ req'[r] = k
        BY <2>1, <2>2, <2>3, <4>1, <4>2, KnowsStays DEF ApprovalInv, DecisionsFit
      <4>4. QED
        BY <4>3 DEF Knows
    <3>2. QED
      BY <3>1
  <2>5. NoBypass'
    BY <2>1, <2>3, EffectsKept DEF ApprovalInv
  <2>6. ASSUME NEW a \in Approval \ disturbed' PROVE OneCall(a)'
    <3>1. OneCall(a) /\ SameStory(a)
      BY <2>1, <2>3 DEF ApprovalInv, OnceInv
    <3>2. SaysWhatHappened(a)' <=> SaysWhatHappened(a)
      BY <3>1, StoryKept
    <3>3. ASSUME NEW r \in Request, req'[r].id = a PROVE Phase(a, req[r])'
      <4>1. PICK k : k = req[r]
        OBVIOUS
      <4>2. Phase(a, k)
        BY <2>1, <3>1, <3>3, <4>1 DEF OneCall
      <4>3. Phase(a, k)' /\ req'[r] = k
        BY <2>1, <3>1, <4>1, <4>2, StoryKept
      <4>4. QED
        BY <4>3 DEF Phase
    <3>4. \A r, s \in Request : req'[r].id = a /\ req'[s].id = a => r = s
      BY <2>1, <3>1 DEF OneCall
    <3>5. (\A r \in Request : req'[r].id # a) => SaysWhatHappened(a)'
      BY <2>1, <3>1, <3>2 DEF OneCall
    <3>6. QED
      BY <3>3, <3>4, <3>5 DEF OneCall
  <2>7. QED
    BY <2>2, <2>4, <2>5, <2>6 DEF ApprovalInv, FramesInv, OnceInv
<1>2. ASSUME NEW r \in Request, NEW op, Ask(r, op) PROVE ApprovalInv'
  BY <1>2, AskKeeps
<1>3. ASSUME NEW r \in Request, Decide(r) PROVE ApprovalInv'
  BY <1>3, DecideKeeps
<1>4. ASSUME NEW r \in Request, Proceed(r) PROVE ApprovalInv'
  BY <1>4, CreateApprovalKeeps, HasDecisionKeeps, CreateDecisionKeeps, CountDecisionsKeeps,
     UpdateApprovalKeeps, CheckKeeps, PerformKeeps, FollowUpKeeps, FinishKeeps DEF Proceed
<1>5. ASSUME NEW r \in Request, Fails(r) PROVE ApprovalInv'
  BY <1>5, FailsKeeps
<1>6. CASE Crash
  BY <1>6, CrashKeeps
<1>7. QED
  BY <1>1, <1>2, <1>3, <1>4, <1>5, <1>6
  DEF Next, StartTask, CancelTask, AckStep, ResolveStep, AckAction, ResolveAction

(* The tables and the requests stay consistent with one another: the       *)
(* inductive invariant.                                                    *)
THEOREM ApprovalSafety == Spec => []ApprovalInv
<1>1. Init => ApprovalInv
  BY InitEstablishes
<1>2. ApprovalInv /\ [Next]_vars => ApprovalInv'
  BY NextKeeps
<1>3. QED
  BY <1>1, <1>2, PTL DEF Spec

(* However deciders interleave, fail and crash: a gated operation takes    *)
(* effect only for an approval of that operation which enough distinct     *)
(* users of the required roles approved, an ungated one only for an actor  *)
(* whom its requirement exempts.                                           *)
THEOREM GatesHold == Spec => []NoBypass
<1>1. ApprovalInv => NoBypass
  BY DEF ApprovalInv
<1>2. QED
  BY <1>1, ApprovalSafety, PTL

(* An approval decided by one call at a time, with no failure, is at rest  *)
(* exactly what its decisions make it: its operation ran once, was refused *)
(* or never ran, and its counts are those of the recorded decisions.       *)
THEOREM DecidedApprovalsSayWhatHappened == Spec => []DecidedOnce
<1>1. ApprovalInv => DecidedOnce
  BY DEF ApprovalInv, OnceInv, OneCall, DecidedOnce
<1>2. QED
  BY <1>1, ApprovalSafety, PTL
=============================================================================
