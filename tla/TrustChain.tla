----------------------------- MODULE TrustChain -----------------------------
(***************************************************************************)
(* Trust in ingested events (application/trust): each source has a hash    *)
(* chain, a gateway signs batches of events, and both raise the trust      *)
(* level of an event: T1 stored, T2 chained, T3 signed.  Requests run side *)
(* by side with no transaction: an action is one statement.  A hash is the *)
(* value hashed, for no two are taken to collide.                          *)
(* The hash of an event is made of the request as it was sent.  The row    *)
(* keeps less: JSONB drops the order of keys, doubled keys and the way     *)
(* numbers are written, TIMESTAMPTZ the zone and the nanoseconds.  So the  *)
(* hash cannot be made again from the row.                                 *)
(***************************************************************************)
EXTENDS Naturals, SequencesExt

CONSTANTS
  None,
  Request,      \* handlers that may be busy at the same time
  Event,        \* event ids; the sender chooses them
  Source,       \* sources of events
  Content,      \* what an event says, as it was sent
  Value,        \* what the columns of a row keep of it
  ValueOf,      \* ValueOf[d]: the value the columns keep of content d
  Batch,        \* ids of batches
  Evaluations,  \* table rule_evaluations: the events each one cites
  MaxCalls,     \* bound: how many requests are sent
  MaxFailures   \* bound: how many statements fail or crashes happen

ASSUME LimitAssumption == {MaxCalls, MaxFailures} \subseteq Nat
ASSUME ValueAssumption == ValueOf \in [Content -> Value]
ASSUME EvaluationsAssumption == Evaluations \subseteq SUBSET Event

VARIABLES
  events,     \* table events
  chain,      \* table trust_hash_chain_entries
  batches,    \* table trust_batch_signatures
  metadata,   \* table trust_metadata: the level of an event, or None
  req,        \* what each handler is doing
  calls, failures,
  bundles,    \* history: <<e, level>>, what a bundle said of an event in it
  disputed    \* history: events stored over a row that said something else

tables == <<events, chain, batches, metadata>>
history == <<bundles, disputed>>
vars == <<tables, req, calls, failures, history>>

Genesis == <<>>
Level == 0 .. 3

\* A row of events, and one of trust_batch_signatures.
EventRow == [source: Source, value: Value, level: Level]
BatchRow == [events: SUBSET Event, key: {"known", "unknown"}, genuine: BOOLEAN,
             status: {"PENDING", "VERIFIED", "FAILED"}]

ASSUME NoneAssumption == None \notin Level \cup EventRow \cup BatchRow

----------------------------------------------------------------------------
(* Hashes, chains and signatures.                                          *)

\* ComputeEventHash: of the request, its payload and times as they were sent.
EventHash(s, d) == [source |-> s, content |-> d]
ChainHash(h, prev) == <<h, prev>>

EntriesOf(s) == {x \in chain : x.source = s}
Verifies(x) == x.chained = ChainHash(x.hash, x.prev)

\* VerifyHashChain on the entries of a source from one number to another:
\* each is what it claims, and continues the one listed before it.
RangeValid(s, from, to) ==
  LET range == {x \in EntriesOf(s) : x.seq \in from .. to}
      Before(x) == {y \in range : y.seq < x.seq}
  IN  \A x \in range :
        /\ Verifies(x)
        /\ \A y \in Before(x) : (\A z \in Before(x) : z.seq <= y.seq) => x.prev = y.chained

\* VerifyHMAC under the key the signature names.
Good(b) == batches[b].key = "known" /\ batches[b].genuine
SignedFor(e) == {b \in Batch : batches[b] # None /\ e \in batches[b].events}

\* The same of the entries in a bundle, in the order they were read.
ListValid(list) ==
  \A s \in Source :
    LET own == SelectSeq(list, LAMBDA x : x.source = s)
    IN  \A i \in DOMAIN own :
          Verifies(own[i]) /\ (i > 1 => own[i].prev = own[i - 1].chained)

\* computeVerificationSummary: a broken chain lowers to T1, a signature that
\* is not VERIFIED to T2.
Summary(q) ==
  LET chained == IF ~q.valid /\ q.level >= 2 THEN 1 ELSE q.level
      trusted == \A x \in q.signed : x[2] = "VERIFIED"
  IN  IF chained = 3 /\ ~trusted THEN 2 ELSE chained

----------------------------------------------------------------------------
(* Requests.                                                               *)

Idle == [pc |-> "idle", event |-> None, source |-> None, content |-> None,
         seq |-> 0, prev |-> Genesis, level |-> 0, todo |-> {}, batch |-> None,
         held |-> {}, valid |-> TRUE, signed |-> {}]
At(r, pc) == req[r].pc = pc
Goto(r, q) == req' = [req EXCEPT ![r] = q]
Begin(r) == req[r] = Idle /\ calls < MaxCalls /\ calls' = calls + 1

\* The row of an event, which replaces an earlier one with its id.
Stored(s, d) == [source |-> s, value |-> ValueOf[d], level |-> 1]
SaysTheSame(e, s, d) == events[e].source = s /\ events[e].value = ValueOf[d]

\* Mutant: the first row of an event is kept, a second call chains its own.
InsertEventOnce(r) ==
  /\ Begin(r)
  /\ \E e \in Event, s \in Source, d \in Content :
       /\ events' = IF events[e] # None THEN events
                    ELSE [events EXCEPT ![e] = Stored(s, d)]
       /\ Goto(r, [Idle EXCEPT !.pc = "latest", !.event = e, !.source = s, !.content = d])
  /\ UNCHANGED <<chain, batches, metadata, failures, history>>

\* AddToHashChain: the event is stored, over an earlier one with its id, ...
InsertEvent(r) ==
  /\ Begin(r)
  /\ \E e \in Event, s \in Source, d \in Content :
       /\ events' = [events EXCEPT ![e] = Stored(s, d)]
       /\ disputed' = IF events[e] = None \/ SaysTheSame(e, s, d) THEN disputed
                      ELSE disputed \cup {e}
       /\ Goto(r, [Idle EXCEPT !.pc = "latest", !.event = e, !.source = s, !.content = d])
  /\ UNCHANGED <<chain, batches, metadata, failures, bundles>>

\* ... the end of its source's chain is read, ...
GetLatestChainEntry(r) ==
  /\ At(r, "latest")
  /\ LET last == {x \in EntriesOf(req[r].source) :
                    \A y \in EntriesOf(req[r].source) : y.seq <= x.seq}
     IN  \/ /\ last = {}
            /\ Goto(r, [req[r] EXCEPT !.pc = "entry", !.seq = 1])
         \/ \E x \in last :
              Goto(r, [req[r] EXCEPT !.pc = "entry", !.seq = x.seq + 1, !.prev = x.chained])
  /\ UNCHANGED <<tables, calls, failures, history>>

\* Mutant: the number of an entry need not be new in its source.
FreeEvent(q) == \A x \in chain : x.event # q.event

\* UNIQUE (event_id) and UNIQUE (source_id, sequence_num).
Free(q) == \A x \in chain : x.event # q.event /\ <<x.source, x.seq>> # <<q.source, q.seq>>

NewEntry(q) ==
  LET h == EventHash(q.source, q.content)
  IN  [event |-> q.event, source |-> q.source, seq |-> q.seq, hash |-> h,
       prev |-> q.prev, chained |-> ChainHash(h, q.prev)]

\* ... and the entry added, unless another request took its number.
InsertHashChainEntry(r) ==
  /\ At(r, "entry")
  /\ IF Free(req[r])
     THEN /\ chain' = chain \cup {NewEntry(req[r])}
          /\ Goto(r, [req[r] EXCEPT !.pc = "metadata", !.level = 2, !.todo = {req[r].event}])
     ELSE UNCHANGED chain /\ Goto(r, Idle)
  /\ UNCHANGED <<events, batches, metadata, calls, failures, history>>

\* UpdateEventTrustLevel, for the events still to be done: the metadata first,
Done(q) ==
  LET left == q.todo \ {q.event}
  IN  IF left = {} THEN Idle ELSE [q EXCEPT !.pc = "next", !.todo = left]

NextEvent(r) ==
  /\ At(r, "next")
  /\ \E e \in req[r].todo : Goto(r, [req[r] EXCEPT !.pc = "metadata", !.event = e])
  /\ UNCHANGED <<tables, calls, failures, history>>

SaveMetadata(r) ==
  /\ At(r, "metadata")
  /\ metadata' = [metadata EXCEPT ![req[r].event] = req[r].level]
  /\ Goto(r, [req[r] EXCEPT !.pc = "level"])
  /\ UNCHANGED <<events, chain, batches, calls, failures, history>>

\* then the event, if it is stored.
SaveLevel(r) ==
  /\ At(r, "level")
  /\ LET e == req[r].event
     IN  events' = IF events[e] = None THEN events
                   ELSE [events EXCEPT ![e].level = req[r].level]
  /\ Goto(r, Done(req[r]))
  /\ UNCHANGED <<chain, batches, metadata, calls, failures, history>>

\* RegisterBatchSignature takes the gateway's word for all of it.
RegisterBatchSignature(r) ==
  /\ Begin(r)
  /\ \E b \in {x \in Batch : batches[x] = None}, es \in SUBSET Event,
        key \in {"known", "unknown"}, genuine \in BOOLEAN :
       batches' = [batches EXCEPT ![b] =
         [events |-> es, key |-> key, genuine |-> genuine, status |-> "PENDING"]]
  /\ UNCHANGED <<events, chain, metadata, req, failures, history>>

\* VerifyBatchSignature computes the verdict ...
VerifyBatchSignature(r) ==
  /\ Begin(r)
  /\ \E b \in {x \in Batch : batches[x] # None} :
       Goto(r, [Idle EXCEPT !.pc = "status", !.batch = b,
                            !.todo = IF Good(b) THEN batches[b].events ELSE {}])
  /\ UNCHANGED <<tables, failures, history>>

\* Mutant: the events are raised whatever the verdict was.
RaiseAll(q) == IF batches[q.batch].events = {} THEN Idle
               ELSE [q EXCEPT !.pc = "next", !.level = 3, !.todo = batches[q.batch].events]
Raise(q) == IF q.todo = {} THEN Idle ELSE [q EXCEPT !.pc = "next", !.level = 3]

\* ... stores it, and raises the events of a good batch one by one.
UpdateBatchStatus(r) ==
  /\ At(r, "status")
  /\ batches' = [batches EXCEPT ![req[r].batch].status =
                   IF Good(req[r].batch) THEN "VERIFIED" ELSE "FAILED"]
  /\ Goto(r, Raise(req[r]))
  /\ UNCHANGED <<events, chain, metadata, calls, failures, history>>

\* DowngradeEventTrust: to a level below the one in the metadata.
DowngradeEventTrust(r) ==
  /\ Begin(r)
  /\ \E e \in {x \in Event : metadata[x] # None}, to \in Level :
       /\ metadata[e] > to
       /\ Goto(r, [Idle EXCEPT !.pc = "metadata", !.event = e, !.level = to, !.todo = {e}])
  /\ UNCHANGED <<tables, failures, history>>

----------------------------------------------------------------------------
(* GenerateEvidenceBundle: GetEvidenceBundleData gathers what there is of   *)
(* the subject with a statement each, and a summary is made of it.          *)

\* EVENT: the event is read.
BundleEvent(r) ==
  /\ Begin(r)
  /\ \E e \in {x \in Event : events[x] # None} :
       Goto(r, [Idle EXCEPT !.pc = "links", !.todo = {e}, !.held = {e},
                            !.level = events[e].level])
  /\ UNCHANGED <<tables, failures, history>>

\* ACTION: the events of its evaluation, if it has one.
BundleAction(r) ==
  /\ Begin(r)
  /\ \E es \in Evaluations :
       Goto(r, [Idle EXCEPT !.pc = "members", !.todo = es])
  /\ UNCHANGED <<tables, failures, history>>

\* TASK: the events of the evaluations of all its actions.
BundleTask(r) ==
  /\ Begin(r)
  /\ \E ess \in SUBSET Evaluations :
       Goto(r, [Idle EXCEPT !.pc = "members", !.todo = UNION ess])
  /\ UNCHANGED <<tables, failures, history>>

\* BATCH: the signature comes first and lists the events.
BundleBatch(r) ==
  /\ Begin(r)
  /\ \E b \in {x \in Batch : batches[x] # None} :
       Goto(r, [Idle EXCEPT !.pc = "members", !.batch = b, !.todo = batches[b].events,
                            !.signed = {<<b, batches[b].status>>}])
  /\ UNCHANGED <<tables, failures, history>>

\* The least level of the events found; T3 if there are none.
GetEvents(r) ==
  /\ At(r, "members")
  /\ LET found == {e \in req[r].todo : events[e] # None}
     IN  Goto(r, [req[r] EXCEPT !.pc = "links", !.held = found,
                                !.level = Min({3} \cup {events[e].level : e \in found})])
  /\ UNCHANGED <<tables, calls, failures, history>>

\* Only a BATCH has its signature already.
Linked(q, valid) ==
  IF q.batch = None THEN [q EXCEPT !.pc = "signed", !.valid = valid]
  ELSE [q EXCEPT !.pc = "report", !.valid = valid]

\* The entries come back in no particular order.
GetChainEntries(r) ==
  /\ At(r, "links")
  /\ \E list \in SetToSeqs({x \in chain : x.event \in req[r].todo}) :
       Goto(r, Linked(req[r], ListValid(list)))
  /\ UNCHANGED <<tables, calls, failures, history>>

\* Event by event, the last signature over it; a batch is kept once, as it
\* was first read.
Kept(q, e, b) ==
  [q EXCEPT !.todo = @ \ {e},
            !.signed = IF \E x \in @ : x[1] = b THEN @ ELSE @ \cup {<<b, batches[b].status>>}]

GetSignature(r) ==
  /\ At(r, "signed")
  /\ \E e \in req[r].todo :
       \/ /\ SignedFor(e) = {}
          /\ Goto(r, [req[r] EXCEPT !.todo = @ \ {e}])
       \/ \E b \in SignedFor(e) : Goto(r, Kept(req[r], e, b))
  /\ UNCHANGED <<tables, calls, failures, history>>

Report(r) ==
  /\ At(r, "report") \/ (At(r, "signed") /\ req[r].todo = {})
  /\ bundles' = bundles \cup {<<e, Summary(req[r])>> : e \in req[r].held}
  /\ Goto(r, Idle)
  /\ UNCHANGED <<tables, calls, failures, disputed>>

\* A statement fails: raising levels and gathering evidence go on, everything
\* else returns.
Fails(r) ==
  /\ failures < MaxFailures
  /\ req[r].pc \notin {"idle", "next", "report"}
  /\ failures' = failures + 1
  /\ \/ req[r].pc \in {"latest", "entry"} /\ Goto(r, Idle)
     \/ req[r].pc \in {"metadata", "level"} /\ Goto(r, Done(req[r]))
     \/ At(r, "status") /\ Goto(r, Raise(req[r]))
     \/ At(r, "members") /\ Goto(r, [req[r] EXCEPT !.pc = "links", !.level = 3])
     \/ At(r, "links") /\ Goto(r, Linked(req[r], TRUE))
     \/ At(r, "signed") /\ \E e \in req[r].todo : Goto(r, [req[r] EXCEPT !.todo = @ \ {e}])
  /\ UNCHANGED <<tables, calls, history>>

Crash ==
  /\ failures < MaxFailures
  /\ \E r \in Request : req[r] # Idle
  /\ failures' = failures + 1
  /\ req' = [r \in Request |-> Idle]
  /\ UNCHANGED <<tables, calls, history>>

----------------------------------------------------------------------------
Init ==
  /\ events = [e \in Event |-> None]
  /\ chain = {}
  /\ batches = [b \in Batch |-> None]
  /\ metadata = [e \in Event |-> None]
  /\ req = [r \in Request |-> Idle]
  /\ calls = 0 /\ failures = 0
  /\ bundles = {} /\ disputed = {}

Next ==
  \/ \E r \in Request :
       \/ InsertEvent(r) \/ GetLatestChainEntry(r) \/ InsertHashChainEntry(r)
       \/ NextEvent(r) \/ SaveMetadata(r) \/ SaveLevel(r)
       \/ RegisterBatchSignature(r) \/ VerifyBatchSignature(r) \/ UpdateBatchStatus(r)
       \/ DowngradeEventTrust(r)
       \/ BundleEvent(r) \/ BundleAction(r) \/ BundleTask(r) \/ BundleBatch(r)
       \/ GetEvents(r) \/ GetChainEntries(r) \/ GetSignature(r) \/ Report(r)
       \/ Fails(r)
  \/ Crash

Spec == Init /\ [][Next]_vars

----------------------------------------------------------------------------
(* Properties.                                                             *)

\* However requests interleave, fail and stop, the entries of a source are
\* numbered 1, 2, ... and every range of them passes VerifyHashChain: two
\* requests that read the same end of the chain never both extend it.
ChainIsLinear ==
  \A s \in Source :
    LET n == Cardinality(EntriesOf(s))
    IN  /\ {x.seq : x \in EntriesOf(s)} = 1 .. n
        /\ \A from, to \in 1 .. n : RangeValid(s, from, to)

\* The chain vouches for the rows as far as rows keep what was hashed: whoever
\* has the request behind a chain entry finds in the row the source and the
\* value it had.  Failures, crashes and sending an event again, spelled the same
\* way or another, do not change that; only a sender who says something else
\* under the same id does.
ChainMatchesEvents ==
  \A x \in chain : x.event \notin disputed =>
    /\ events[x.event] # None
    /\ x.source = x.hash.source
    /\ SaysTheSame(x.event, x.hash.source, x.hash.content)

\* "T3 - Gateway signed + server verified": no event is at T3, and no bundle
\* says so, without a batch that lists it and whose signature is good.
SignedIsVerified ==
  \A e \in Event :
    \/ events[e] # None /\ events[e].level = 3
    \/ metadata[e] = 3
    \/ <<e, 3>> \in bundles
    => \E b \in SignedFor(e) : Good(b)
=============================================================================
