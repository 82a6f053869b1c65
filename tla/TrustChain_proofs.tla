-------------------------- MODULE TrustChain_proofs --------------------------
(***************************************************************************)
(* Theorems about TrustChain, for any number of requests, events, sources  *)
(* and batches, however the requests interleave, fail and crash.           *)
(*                                                                         *)
(* A step moves one request and writes at most one row.  Each invariant is *)
(* a fact about the tables plus what a request under way remembers of them *)
(* (the end of the chain it read, the batch it verified), and stays true   *)
(* because the tables it speaks of only grow.                              *)
(***************************************************************************)
EXTENDS TrustChain, FiniteSetTheorems, TLAPS

-----------------------------------------------------------------------------
(* The tables.  The chain of a source is numbered from 1 without a gap,    *)
(* each entry is what it claims to be and continues the one before it.     *)

TablesTyped ==
  /\ events \in [Event -> EventRow \cup {None}]
  /\ batches \in [Batch -> BatchRow \cup {None}]
  /\ metadata \in [Event -> Level \cup {None}]
  /\ \A x \in chain : x.event \in Event /\ x.source \in Source /\ x.seq \in Nat

Continues(x, y) == x.source = y.source /\ x.seq = y.seq + 1

Numbered ==
  /\ IsFiniteSet(chain)
  /\ \A s \in Source : {x.seq : x \in EntriesOf(s)} = 1 .. Cardinality(EntriesOf(s))
  /\ \A x, y \in chain : x.source = y.source /\ x.seq = y.seq => x = y

Hashed ==
  /\ \A x \in chain : Verifies(x)
  /\ \A x, y \in chain : Continues(x, y) => x.prev = y.chained

TablesInv ==
  TablesTyped /\ Numbered /\ Hashed /\ ChainMatchesEvents /\ SignedIsVerified

(* A good signature lists the event.                                       *)
Vouched(e) == \E b \in SignedFor(e) : Good(b)

-----------------------------------------------------------------------------
(* A request under way, and what it knows: the end of the chain it read is *)
(* still in the chain, the event it stored is stored, the batch it         *)
(* verified vouches for the events it raises, and events it reports at T3  *)
(* are vouched for.  A hash nests the hashes before it and has no type.    *)

Place == {"idle", "latest", "entry", "metadata", "level", "next", "status", "members",
          "links", "signed", "report"}
Ingesting == {"latest", "entry"}
Raising == {"next", "metadata", "level"}
Reporting == {"links", "signed", "report"}

Shape(q) ==
  q \in [pc: Place, event: Event \cup {None}, source: Source \cup {None},
         content: Content \cup {None}, seq: Nat, prev: {q.prev}, level: Level,
         todo: SUBSET Event, batch: Batch \cup {None}, held: SUBSET Event,
         valid: BOOLEAN, signed: {q.signed}]

IsFrame(q) ==
  /\ Shape(q)
  /\ q.pc \in Ingesting => q.event \in Event /\ q.source \in Source /\ q.content \in Content
  /\ q.pc \in {"metadata", "level"} => q.event \in q.todo
  /\ q.pc = "status" => q.batch \in Batch

ReadEnd(q) ==
  q.seq = 1 \/ \E y \in chain : Continues(q, y) /\ q.prev = y.chained

Remembers(e, s, d) ==
  /\ events[e] # None
  /\ e \notin disputed => SaysTheSame(e, s, d)

Knows(q) ==
  /\ q.pc = "entry" => ReadEnd(q)
  /\ q.pc \in Ingesting => Remembers(q.event, q.source, q.content)
  /\ q.pc = "status" => batches[q.batch] # None /\ \A e \in q.todo : Vouched(e)
  /\ q.pc \in Raising /\ q.level = 3 => \A e \in q.todo : Vouched(e)
  /\ q.pc = "members" => q.held = {}
  /\ q.pc \in Reporting /\ q.level = 3 => \A e \in q.held : Vouched(e)

FramesInv ==
  /\ req = [r \in Request |-> req[r]]
  /\ \A r \in Request : IsFrame(req[r]) /\ Knows(req[r])

TrustInv == TablesInv /\ FramesInv

LEMMA IdleKnows ==
  /\ IsFrame(Idle) /\ Knows(Idle) /\ Knows(Idle)'
  /\ Idle.todo = {} /\ Idle.held = {} /\ Idle.level = 0 /\ Idle.batch = None
  /\ Idle.signed = {} /\ Idle.valid
<1>1. IsFrame(Idle)
  BY DEF IsFrame, Shape, Idle, Place, Ingesting, Level
<1>2. Idle.pc = "idle" /\ Idle.todo = {} /\ Idle.held = {} /\ Idle.level = 0
      /\ Idle.batch = None /\ Idle.signed = {} /\ Idle.valid
  BY DEF Idle
<1>3. QED
  BY <1>1, <1>2 DEF Knows, Ingesting, Raising, Reporting

(* What every step keeps of the tables: entries stay, signatures stay as   *)
(* they were registered, a stored event stays stored and keeps what it     *)
(* says unless another row replaces it, which is recorded.                 *)
Grows ==
  /\ chain \subseteq chain'
  /\ \A b \in Batch : batches[b] # None =>
       /\ batches'[b] # None
       /\ batches'[b].events = batches[b].events
       /\ batches'[b].key = batches[b].key
       /\ batches'[b].genuine = batches[b].genuine
  /\ disputed \subseteq disputed'
  /\ \A e \in Event : events[e] # None =>
       /\ events'[e] # None
       /\ e \notin disputed' => /\ events'[e].source = events[e].source
                                /\ events'[e].value = events[e].value

LEMMA NothingGrows ==
  ASSUME UNCHANGED <<chain, batches, events, disputed>>
  PROVE  Grows
BY DEF Grows

LEMMA VouchedStays ==
  ASSUME Grows, NEW e, Vouched(e)
  PROVE  Vouched(e)'
BY DEF Grows, Vouched, SignedFor, Good

LEMMA KnowsStays ==
  ASSUME Grows, NEW q, IsFrame(q), Knows(q)
  PROVE  Knows(q)'
<1>1. \A e : Vouched(e) => Vouched(e)'
  BY VouchedStays
<1>2. q.pc = "entry" => ReadEnd(q)'
  BY DEF Knows, ReadEnd, Grows
<1>3. q.pc \in Ingesting => Remembers(q.event, q.source, q.content)'
  BY DEF Knows, Remembers, SaysTheSame, Grows, IsFrame
<1>4. q.pc = "status" => batches'[q.batch] # None
  BY DEF Knows, Grows, IsFrame
<1>5. QED
  BY <1>1, <1>2, <1>3, <1>4 DEF Knows

(* Request r goes on to q.                                                 *)
LEMMA FramesKept ==
  ASSUME FramesInv, Grows, NEW r \in Request, NEW q, IsFrame(q), Knows(q)', Goto(r, q)
  PROVE  FramesInv'
<1>1. /\ req' = [i \in Request |-> req'[i]]
      /\ req'[r] = q /\ \A i \in Request : i # r => req'[i] = req[i]
  BY DEF FramesInv, Goto
<1>2. ASSUME NEW i \in Request
      PROVE  (IsFrame(req[i]) /\ Knows(req[i]))'
  <2>1. CASE i = r
    BY <1>1, <2>1
  <2>2. CASE i # r
    <3>1. PICK k : k = req[i]
      OBVIOUS
    <3>2. IsFrame(k) /\ Knows(k)
      BY <3>1 DEF FramesInv
    <3>3. Knows(k)'
      BY <3>2, KnowsStays
    <3>4. req'[i] = k
      BY <1>1, <2>2, <3>1
    <3>5. QED
      BY <3>2, <3>3, <3>4
  <2>3. QED
    BY <2>1, <2>2
<1>3. QED
  BY <1>1, <1>2 DEF FramesInv

(* The requests stand still.                                               *)
LEMMA FramesStay ==
  ASSUME FramesInv, Grows, req' = req
  PROVE  FramesInv'
<1>1. ASSUME NEW i \in Request
      PROVE  (IsFrame(req[i]) /\ Knows(req[i]))'
  <2>1. PICK k : k = req[i]
    OBVIOUS
  <2>2. IsFrame(k) /\ Knows(k)
    BY <2>1 DEF FramesInv
  <2>3. Knows(k)'
    BY <2>2, KnowsStays
  <2>4. req'[i] = k
    BY <2>1
  <2>5. QED
    BY <2>2, <2>3, <2>4
<1>2. QED
  BY <1>1 DEF FramesInv

-----------------------------------------------------------------------------
(* The tables, statement by statement.                                     *)

LEMMA FrameRead ==
  ASSUME FramesInv, NEW r \in Request
  PROVE  IsFrame(req[r]) /\ Knows(req[r])
BY DEF FramesInv

LEMMA SignedStays ==
  ASSUME SignedIsVerified, Grows,
         \A e \in Event :
           \/ events'[e] # None /\ events'[e].level = 3
           \/ metadata'[e] = 3
           \/ <<e, 3>> \in bundles'
           => \/ events[e] # None /\ events[e].level = 3
              \/ metadata[e] = 3
              \/ <<e, 3>> \in bundles
              \/ Vouched(e)
  PROVE  SignedIsVerified'
<1>1. \A e \in Event : Vouched(e) => Vouched(e)'
  BY VouchedStays
<1>2. QED
  BY <1>1 DEF SignedIsVerified, Vouched

LEMMA MatchesStays ==
  ASSUME TablesTyped, ChainMatchesEvents, Grows, chain' = chain
  PROVE  ChainMatchesEvents'
BY DEF TablesTyped, ChainMatchesEvents, SaysTheSame, Grows

LEMMA ChainStays ==
  ASSUME Numbered, Hashed, chain' = chain
  PROVE  Numbered' /\ Hashed'
BY DEF Numbered, Hashed, EntriesOf, Verifies

(* A statement that writes no row.                                         *)
LEMMA TablesStay ==
  ASSUME TablesInv, UNCHANGED <<tables, history>>
  PROVE  TablesInv' /\ Grows
<1>1. Grows
  BY NothingGrows DEF tables, history
<1>2. TablesTyped'
  BY DEF TablesInv, TablesTyped, tables
<1>3. SignedIsVerified'
  BY <1>1, SignedStays DEF TablesInv, tables, history
<1>4. QED
  BY <1>1, <1>2, <1>3, MatchesStays, ChainStays DEF TablesInv, tables

LEMMA Reads ==
  ASSUME TrustInv, UNCHANGED <<tables, history>>, NEW r \in Request, NEW q,
         IsFrame(q), Knows(q), Goto(r, q)
  PROVE  TrustInv'
<1>1. TablesInv' /\ Grows
  BY TablesStay DEF TrustInv
<1>2. Knows(q)'
  BY <1>1, KnowsStays
<1>3. QED
  BY <1>1, <1>2, FramesKept DEF TrustInv

(* The entry that continues the end of the chain read earlier, if its      *)
(* number is still free: the end read is then still the end.               *)
LEMMA EntryAdded ==
  ASSUME TablesTyped, Numbered, Hashed, NEW q, IsFrame(q), q.pc = "entry", ReadEnd(q),
         Free(q), chain' = chain \cup {NewEntry(q)}
  PROVE  Numbered' /\ Hashed'
<1> DEFINE x == NewEntry(q)
           own(s) == EntriesOf(s)
<1>1. q.source \in Source /\ q.seq \in Nat
  BY DEF IsFrame, Shape, Ingesting
<1>2. x.source = q.source /\ x.seq = q.seq /\ x.prev = q.prev /\ Verifies(x)
  BY DEF NewEntry, Verifies
<1>3. \A y \in chain : y.source = q.source => y.seq # q.seq
  BY DEF Free
<1> HIDE DEF x
<1>4. chain' = chain \cup {x}
  BY DEF x
<1>5. x \notin chain
  BY <1>2, <1>3
<1>6. \A s \in Source : own(s)' = IF s = q.source THEN own(s) \cup {x} ELSE own(s)
  BY <1>2, <1>4 DEF EntriesOf
<1>7. IsFiniteSet(chain') /\ \A s \in Source : IsFiniteSet(own(s))
  <2>1. \A s \in Source : own(s) \in SUBSET chain
    BY DEF EntriesOf
  <2>2. QED
    BY <1>4, <2>1, FS_AddElement, FS_Subset DEF Numbered
<1>8. \A s \in Source : Cardinality(own(s)) \in Nat
  BY <1>7, FS_CardinalityType
<1> DEFINE n == Cardinality(own(q.source))
<1>9. {y.seq : y \in own(q.source)} = 1 .. n /\ n \in Nat
  BY <1>1, <1>8 DEF Numbered
<1>10. Cardinality(own(q.source)') = n + 1
  <2>1. x \notin own(q.source)
    BY <1>5 DEF EntriesOf
  <2>2. own(q.source)' = own(q.source) \cup {x}
    BY <1>1, <1>6
  <2>3. QED
    BY <1>1, <1>7, <2>1, <2>2, FS_AddElement
<1>11. q.seq = n + 1
  <2>1. q.seq \notin 1 .. n
    <3>1. SUFFICES ASSUME q.seq \in 1 .. n PROVE FALSE
      OBVIOUS
    <3>2. PICK y \in own(q.source) : y.seq = q.seq
      BY <1>9, <3>1
    <3>3. QED
      BY <1>3, <3>2 DEF EntriesOf
  <2>2. q.seq = 1 \/ q.seq - 1 \in 1 .. n
    <3>1. CASE q.seq # 1
      <4>1. PICK y \in chain : Continues(q, y)
        BY <3>1 DEF ReadEnd
      <4>2. y \in own(q.source) /\ q.seq = y.seq + 1 /\ y.seq \in Nat
        BY <4>1 DEF Continues, EntriesOf, TablesTyped
      <4>3. y.seq \in 1 .. n
        BY <1>9, <4>2
      <4>4. QED
        BY <4>2, <4>3
    <3>2. QED
      BY <3>1
  <2>3. QED
    BY <1>1, <1>9, <2>1, <2>2
<1>12. ASSUME NEW s \in Source
       PROVE  {y.seq : y \in own(s)'} = 1 .. Cardinality(own(s)')
  <2>1. CASE s = q.source
    <3>1. {y.seq : y \in own(s)'} = {y.seq : y \in own(s)} \cup {q.seq}
      BY <1>2, <1>6, <2>1
    <3>2. {y.seq : y \in own(s)'} = (1 .. n) \cup {n + 1}
      BY <1>9, <1>11, <2>1, <3>1
    <3>3. QED
      BY <1>9, <1>10, <2>1, <3>2
  <2>2. CASE s # q.source
    BY <1>6, <2>2 DEF Numbered
  <2>3. QED
    BY <2>1, <2>2
<1>13. \A y, z \in chain' : y.source = z.source /\ y.seq = z.seq => y = z
  BY <1>2, <1>3, <1>4 DEF Numbered
<1>14. \A y \in chain' : Verifies(y)
  BY <1>2, <1>4 DEF Hashed
<1>15. ASSUME NEW y \in chain', NEW z \in chain', Continues(y, z)
       PROVE  y.prev = z.chained
  <2>1. CASE y \in chain /\ z \in chain
    BY <1>15, <2>1 DEF Hashed
  <2>2. CASE y = x
    <3>1. z \in chain
      BY <1>1, <1>2, <1>4, <1>15, <2>2 DEF Continues
    <3>2. z.source = q.source /\ q.seq = z.seq + 1 /\ z.seq \in 1 .. n
      BY <1>2, <1>9, <1>15, <2>2, <3>1 DEF Continues, EntriesOf
    <3>3. PICK e \in chain : Continues(q, e) /\ q.prev = e.chained
      BY <3>2 DEF ReadEnd
    <3>4. e.source = z.source /\ e.seq = z.seq
      BY <3>1, <3>2, <3>3 DEF Continues, TablesTyped
    <3>5. e = z
      BY <3>1, <3>3, <3>4 DEF Numbered
    <3>6. QED
      BY <1>2, <2>2, <3>3, <3>5
  <2>3. CASE z = x
    <3>1. y \in chain /\ y.source = q.source /\ y.seq = n + 2
      BY <1>1, <1>2, <1>4, <1>9, <1>11, <1>15, <2>3 DEF Continues
    <3>2. y.seq \in 1 .. n
      BY <1>9, <3>1 DEF EntriesOf
    <3>3. QED
      BY <1>9, <3>1, <3>2
  <2>4. QED
    BY <1>4, <2>1, <2>2, <2>3
<1>16. Numbered'
  BY <1>7, <1>12, <1>13 DEF Numbered
<1>17. Hashed'
  BY <1>14, <1>15 DEF Hashed, Verifies, Continues
<1>18. QED
  BY <1>16, <1>17

-----------------------------------------------------------------------------
(* Ingestion.                                                              *)

LEMMA InsertEventKeeps ==
  ASSUME TrustInv, NEW r \in Request, InsertEvent(r)
  PROVE  TrustInv'
<1>1. PICK e \in Event, s \in Source, d \in Content :
        /\ events' = [events EXCEPT ![e] = Stored(s, d)]
        /\ disputed' = IF events[e] = None \/ SaysTheSame(e, s, d) THEN disputed
                       ELSE disputed \cup {e}
        /\ Goto(r, [Idle EXCEPT !.pc = "latest", !.event = e, !.source = s, !.content = d])
  BY DEF InsertEvent
<1> DEFINE q == [Idle EXCEPT !.pc = "latest", !.event = e, !.source = s, !.content = d]
<1>2. UNCHANGED <<chain, batches, metadata, bundles>>
  BY DEF InsertEvent
<1>3. TablesTyped /\ ChainMatchesEvents /\ events \in [Event -> EventRow \cup {None}]
  BY DEF TrustInv, TablesInv, TablesTyped
<1>4. /\ events'[e] = Stored(s, d)
      /\ \A i \in Event : i # e => events'[i] = events[i]
  BY <1>1, <1>3
<1>5. /\ Stored(s, d) \in EventRow /\ Stored(s, d) # None
      /\ Stored(s, d).level = 1 /\ Stored(s, d).source = s /\ Stored(s, d).value = ValueOf[d]
  BY NoneAssumption, ValueAssumption DEF Stored, EventRow, Level
<1>6. Grows
  <2>1. /\ disputed \subseteq disputed'
        /\ events[e] # None /\ e \notin disputed' => SaysTheSame(e, s, d)
    BY <1>1
  <2>2. QED
    BY <1>2, <1>4, <1>5, <2>1 DEF Grows, SaysTheSame
<1>7. TablesTyped'
  BY <1>1, <1>2, <1>3, <1>5 DEF TablesTyped
<1>8. SignedIsVerified'
  <2>1. SignedIsVerified
    BY DEF TrustInv, TablesInv
  <2>2. \A i \in Event : events'[i].level = 3 => events'[i] = events[i]
    BY <1>4, <1>5
  <2>3. QED
    BY <1>2, <1>6, <2>1, <2>2, SignedStays
<1>9. TablesInv'
  BY <1>2, <1>3, <1>6, <1>7, <1>8, MatchesStays, ChainStays DEF TrustInv, TablesInv
<1>10. /\ q.pc = "latest" /\ q.event = e /\ q.source = s /\ q.content = d
       /\ Shape(q)
  BY IdleKnows DEF IsFrame, Shape, Place
<1> HIDE DEF q
<1>11. Knows(q)'
  <2>1. Remembers(q.event, q.source, q.content)'
    BY <1>4, <1>5, <1>10 DEF Remembers, SaysTheSame
  <2>2. QED
    BY <1>10, <2>1 DEF Knows, Ingesting, Raising, Reporting
<1>12. IsFrame(q)
  BY <1>10 DEF IsFrame, Ingesting
<1>13. QED
  BY <1>1, <1>6, <1>9, <1>11, <1>12, FramesKept DEF TrustInv, q

LEMMA GetLatestChainEntryKeeps ==
  ASSUME TrustInv, NEW r \in Request, GetLatestChainEntry(r)
  PROVE  TrustInv'
<1>1. PICK f : f = req[r]
  OBVIOUS
<1> DEFINE first == [f EXCEPT !.pc = "entry", !.seq = 1]
           after(y) == [f EXCEPT !.pc = "entry", !.seq = y.seq + 1, !.prev = y.chained]
<1>2. f.pc = "latest" /\ UNCHANGED <<tables, history>>
  BY <1>1 DEF GetLatestChainEntry, At
<1>3. Goto(r, first) \/ \E y \in EntriesOf(f.source) : Goto(r, after(y))
  BY <1>1 DEF GetLatestChainEntry
<1>4. IsFrame(f) /\ Shape(f) /\ Knows(f)
  BY <1>1, FrameRead DEF TrustInv, IsFrame
<1>5. Remembers(f.event, f.source, f.content)
  BY <1>2, <1>4 DEF Knows, Ingesting
<1>6. CASE Goto(r, first)
  <2>1. Shape(first) /\ first.pc = "entry" /\ first.seq = 1
        /\ first.event = f.event /\ first.source = f.source /\ first.content = f.content
    BY <1>4 DEF Shape, Place
  <2> HIDE DEF first
  <2>2. IsFrame(first)
    BY <1>2, <1>4, <2>1 DEF IsFrame, Ingesting
  <2>3. Knows(first)
    BY <1>5, <2>1 DEF Knows, ReadEnd, Ingesting, Raising, Reporting
  <2>4. QED
    BY <1>2, <1>6, <2>2, <2>3, Reads
<1>7. ASSUME NEW y \in EntriesOf(f.source), Goto(r, after(y))
      PROVE  TrustInv'
  <2>1. y \in chain /\ y.source = f.source /\ y.seq \in Nat
    BY DEF EntriesOf, TrustInv, TablesInv, TablesTyped
  <2>2. y.seq + 1 \in Nat
    BY <2>1
  <2> DEFINE q == [f EXCEPT !.pc = "entry", !.seq = y.seq + 1, !.prev = y.chained]
  <2>3. Shape(q) /\ q.pc = "entry" /\ q.seq = y.seq + 1 /\ q.prev = y.chained
        /\ q.event = f.event /\ q.source = f.source /\ q.content = f.content
    BY <1>4, <2>2 DEF Shape, Place
  <2>4. Goto(r, q)
    BY <1>7
  <2> HIDE DEF q
  <2>5. IsFrame(q)
    BY <1>2, <1>4, <2>3 DEF IsFrame, Ingesting
  <2>6. ReadEnd(q)
    BY <2>1, <2>3 DEF ReadEnd, Continues
  <2>7. Knows(q)
    BY <1>5, <2>3, <2>6 DEF Knows, Ingesting, Raising, Reporting
  <2>8. QED
    BY <1>2, <2>4, <2>7, <2>5, Reads
<1>8. QED
  BY <1>3, <1>6, <1>7

LEMMA InsertHashChainEntryKeeps ==
  ASSUME TrustInv, NEW r \in Request, InsertHashChainEntry(r)
  PROVE  TrustInv'
<1>1. PICK f : f = req[r]
  OBVIOUS
<1> DEFINE q == [f EXCEPT !.pc = "metadata", !.level = 2, !.todo = {f.event}]
<1>2. f.pc = "entry" /\ UNCHANGED <<events, batches, metadata, history>>
  BY <1>1 DEF InsertHashChainEntry, At
<1>3. \/ Free(f) /\ chain' = chain \cup {NewEntry(f)} /\ Goto(r, q)
      \/ chain' = chain /\ Goto(r, Idle)
  BY <1>1 DEF InsertHashChainEntry
<1>4. IsFrame(f) /\ Shape(f) /\ Knows(f)
  BY <1>1, FrameRead DEF TrustInv, IsFrame
<1>5. CASE chain' = chain /\ Goto(r, Idle)
  BY <1>2, <1>5, Reads, IdleKnows DEF tables
<1>6. CASE Free(f) /\ chain' = chain \cup {NewEntry(f)} /\ Goto(r, q)
  <2>1. /\ ReadEnd(f) /\ Remembers(f.event, f.source, f.content)
        /\ f.event \in Event /\ f.source \in Source /\ f.seq \in Nat
    BY <1>2, <1>4 DEF Knows, Ingesting, IsFrame, Shape
  <2>2. Grows
    BY <1>2, <1>6 DEF Grows, history
  <2>3. Numbered' /\ Hashed'
    BY <1>2, <1>4, <1>6, <2>1, EntryAdded DEF TrustInv, TablesInv
  <2>4. NewEntry(f).event = f.event /\ NewEntry(f).source = f.source
        /\ NewEntry(f).seq = f.seq /\ NewEntry(f).hash = EventHash(f.source, f.content)
    BY DEF NewEntry
  <2>5. TablesTyped'
    BY <1>2, <1>6, <2>1, <2>4 DEF TrustInv, TablesInv, TablesTyped
  <2>6. ChainMatchesEvents'
    BY <1>2, <1>6, <2>1, <2>4 DEF TrustInv, TablesInv, ChainMatchesEvents, Remembers, SaysTheSame, tables, history, EventHash
  <2>7. SignedIsVerified'
    BY <1>2, <2>2, SignedStays DEF TrustInv, TablesInv, history
  <2>8. /\ Shape(q) /\ q.pc = "metadata" /\ q.level = 2
        /\ q.event = f.event /\ q.todo = {f.event}
    <3>1. 2 \in Level /\ {f.event} \in SUBSET Event
      BY <2>1 DEF Level
    <3>2. QED
      BY <1>4, <3>1 DEF Shape, Place
  <2>9. Goto(r, q)
    BY <1>6
  <2> HIDE DEF q
  <2>10. IsFrame(q)
    BY <2>8 DEF IsFrame, Ingesting
  <2>11. Knows(q)'
    BY <2>8 DEF Knows, Ingesting, Raising, Reporting
  <2>12. TablesInv'
    BY <2>3, <2>5, <2>6, <2>7 DEF TablesInv
  <2>13. QED
    BY <2>2, <2>9, <2>11, <2>12, <2>10, FramesKept DEF TrustInv
<1>7. QED
  BY <1>3, <1>5, <1>6

-----------------------------------------------------------------------------
(* Raising and lowering levels.                                            *)

(* The next event, or the end of the request.                              *)
LEMMA DoneKnows ==
  ASSUME NEW q, IsFrame(q), Knows(q), q.pc \in {"metadata", "level"}
  PROVE  IsFrame(Done(q)) /\ Knows(Done(q))
<1> DEFINE left == q.todo \ {q.event}
           n == [q EXCEPT !.pc = "next", !.todo = left]
<1>1. Done(q) = Idle \/ Done(q) = n
  BY DEF Done
<1>2. Shape(q) /\ left \in SUBSET Event
  BY DEF IsFrame, Shape
<1>3. Shape(n) /\ n.pc = "next" /\ n.todo = left /\ n.level = q.level
  BY <1>2 DEF Shape, Place
<1> HIDE DEF n
<1>4. IsFrame(n)
  BY <1>3 DEF IsFrame, Ingesting
<1>5. Knows(n)
  BY <1>3 DEF Knows, Ingesting, Raising, Reporting
<1>6. QED
  BY <1>1, <1>4, <1>5, IdleKnows

(* A verdict that is over: a good batch raises its events.                 *)
LEMMA RaiseKnows ==
  ASSUME NEW q, IsFrame(q), Knows(q), q.pc = "status"
  PROVE  IsFrame(Raise(q)) /\ Knows(Raise(q))
<1> DEFINE n == [q EXCEPT !.pc = "next", !.level = 3]
<1>1. Raise(q) = Idle \/ Raise(q) = n
  BY DEF Raise
<1>2. Shape(q) /\ 3 \in Level
  BY DEF IsFrame, Level
<1>3. Shape(n) /\ n.pc = "next" /\ n.todo = q.todo /\ n.level = 3
  BY <1>2 DEF Shape, Place
<1> HIDE DEF n
<1>4. IsFrame(n)
  BY <1>3 DEF IsFrame, Ingesting
<1>5. Knows(n)
  BY <1>3 DEF Knows, Ingesting, Raising, Reporting
<1>6. QED
  BY <1>1, <1>4, <1>5, IdleKnows

LEMMA NextEventKeeps ==
  ASSUME TrustInv, NEW r \in Request, NextEvent(r)
  PROVE  TrustInv'
<1>1. PICK f : f = req[r]
  OBVIOUS
<1>2. f.pc = "next" /\ UNCHANGED <<tables, history>>
  BY <1>1 DEF NextEvent, At
<1>3. IsFrame(f) /\ Shape(f) /\ Knows(f)
  BY <1>1, FrameRead DEF TrustInv, IsFrame
<1>4. PICK e \in f.todo : Goto(r, [f EXCEPT !.pc = "metadata", !.event = e])
  BY <1>1 DEF NextEvent
<1> DEFINE q == [f EXCEPT !.pc = "metadata", !.event = e]
<1>5. e \in Event \cup {None}
  BY <1>3 DEF Shape
<1>6. Shape(q) /\ q.pc = "metadata" /\ q.event = e /\ q.todo = f.todo /\ q.level = f.level
  BY <1>3, <1>5 DEF Shape, Place
<1>7. Goto(r, q)
  BY <1>4
<1> HIDE DEF q
<1>8. IsFrame(q)
  BY <1>6 DEF IsFrame, Ingesting
<1>9. Knows(q)
  BY <1>2, <1>3, <1>6 DEF Knows, Ingesting, Raising, Reporting
<1>10. QED
  BY <1>2, <1>7, <1>8, <1>9, Reads

(* A request that raises an event knows that it is vouched for.            *)
LEMMA RaisedIsVouched ==
  ASSUME NEW q, IsFrame(q), Knows(q), q.pc \in {"metadata", "level"}
  PROVE  /\ q.event \in Event /\ q.level \in Level
         /\ q.level = 3 => Vouched(q.event)
<1>1. q.event \in q.todo /\ q.todo \subseteq Event /\ q.level \in Level
  BY DEF IsFrame, Shape
<1>2. QED
  BY <1>1 DEF Knows, Raising

LEMMA SaveMetadataKeeps ==
  ASSUME TrustInv, NEW r \in Request, SaveMetadata(r)
  PROVE  TrustInv'
<1>1. PICK f : f = req[r]
  OBVIOUS
<1> DEFINE q == [f EXCEPT !.pc = "level"]
<1>2. /\ f.pc = "metadata" /\ UNCHANGED <<events, chain, batches, history>>
      /\ metadata' = [metadata EXCEPT ![f.event] = f.level] /\ Goto(r, q)
  BY <1>1 DEF SaveMetadata, At
<1>3. IsFrame(f) /\ Shape(f) /\ Knows(f)
  BY <1>1, FrameRead DEF TrustInv, IsFrame
<1>4. f.event \in Event /\ f.level \in Level /\ (f.level = 3 => Vouched(f.event))
  BY <1>2, <1>3, RaisedIsVouched
<1>5. Grows
  BY <1>2, NothingGrows DEF history
<1>6. TablesInv'
  <2>1. TablesTyped /\ metadata \in [Event -> Level \cup {None}]
    BY DEF TrustInv, TablesInv, TablesTyped
  <2>2. TablesTyped'
    BY <1>2, <1>4, <2>1 DEF TablesTyped
  <2>3. \A e \in Event : metadata'[e] = 3 => metadata[e] = 3 \/ Vouched(e)
    BY <1>2, <1>4, <2>1
  <2>4. SignedIsVerified'
    BY <1>2, <1>5, <2>3, SignedStays DEF TrustInv, TablesInv, history
  <2>5. QED
    BY <1>2, <1>5, <2>1, <2>2, <2>4, MatchesStays, ChainStays DEF TrustInv, TablesInv
<1>7. /\ Shape(q) /\ q.pc = "level" /\ q.event = f.event /\ q.todo = f.todo
      /\ q.level = f.level
  BY <1>3 DEF Shape, Place
<1>8. Goto(r, q)
  BY <1>2
<1> HIDE DEF q
<1>9. IsFrame(q)
  BY <1>2, <1>3, <1>7 DEF IsFrame, Ingesting
<1>10. Knows(q)
  BY <1>2, <1>3, <1>7 DEF Knows, Ingesting, Raising, Reporting
<1>11. Knows(q)'
  BY <1>5, <1>9, <1>10, KnowsStays
<1>12. QED
  BY <1>5, <1>6, <1>8, <1>9, <1>11, FramesKept DEF TrustInv

LEMMA SaveLevelKeeps ==
  ASSUME TrustInv, NEW r \in Request, SaveLevel(r)
  PROVE  TrustInv'
<1>1. PICK f : f = req[r]
  OBVIOUS
<1>2. /\ f.pc = "level" /\ UNCHANGED <<chain, batches, metadata, history>>
      /\ events' = IF events[f.event] = None THEN events
                   ELSE [events EXCEPT ![f.event].level = f.level]
      /\ Goto(r, Done(f))
  BY <1>1 DEF SaveLevel, At
<1>3. IsFrame(f) /\ Knows(f)
  BY <1>1, FrameRead DEF TrustInv
<1>4. f.event \in Event /\ f.level \in Level /\ (f.level = 3 => Vouched(f.event))
  BY <1>2, <1>3, RaisedIsVouched
<1>5. TablesTyped /\ events \in [Event -> EventRow \cup {None}]
  BY DEF TrustInv, TablesInv, TablesTyped
<1>6. \A e \in Event :
        \/ events'[e] = events[e]
        \/ /\ e = f.event /\ events[e] # None /\ events'[e] \in EventRow
           /\ events'[e].source = events[e].source
           /\ events'[e].value = events[e].value
           /\ events'[e].level = f.level
  <2>1. CASE events[f.event] = None
    BY <1>2, <2>1
  <2>2. CASE events[f.event] # None
    <3>1. events[f.event] \in EventRow
      BY <1>4, <1>5, <2>2
    <3>2. events' = [events EXCEPT ![f.event] = [@ EXCEPT !.level = f.level]]
      BY <1>2, <2>2
    <3>3. /\ events'[f.event] = [events[f.event] EXCEPT !.level = f.level]
          /\ \A e \in Event : e # f.event => events'[e] = events[e]
      BY <1>4, <1>5, <3>2
    <3>4. /\ [events[f.event] EXCEPT !.level = f.level] \in EventRow
          /\ [events[f.event] EXCEPT !.level = f.level].source = events[f.event].source
          /\ [events[f.event] EXCEPT !.level = f.level].value = events[f.event].value
          /\ [events[f.event] EXCEPT !.level = f.level].level = f.level
      BY <1>4, <3>1 DEF EventRow
    <3>5. QED
      BY <2>2, <3>3, <3>4
  <2>3. QED
    BY <2>1, <2>2
<1>7. events' \in [Event -> EventRow \cup {None}]
  <2>1. events' = [e \in Event |-> events'[e]]
    BY <1>2, <1>5
  <2>2. \A e \in Event : events'[e] \in EventRow \cup {None}
    BY <1>5, <1>6
  <2>3. QED
    BY <2>1, <2>2
<1>8. Grows
  <2>1. \A e \in EventRow : e # None
    BY NoneAssumption
  <2>2. QED
    BY <1>2, <1>6, <2>1 DEF Grows, history
<1>9. TablesInv'
  <2>1. TablesTyped'
    BY <1>2, <1>5, <1>7 DEF TablesTyped
  <2>2. \A e \in Event : events'[e] # None /\ events'[e].level = 3 =>
          (events[e] # None /\ events[e].level = 3) \/ Vouched(e)
    BY <1>4, <1>6
  <2>3. SignedIsVerified'
    BY <1>2, <1>8, <2>2, SignedStays DEF TrustInv, TablesInv, history
  <2>4. QED
    BY <1>2, <1>5, <1>8, <2>1, <2>3, MatchesStays, ChainStays DEF TrustInv, TablesInv
<1>10. PICK q : q = Done(f)
  OBVIOUS
<1>11. IsFrame(q) /\ Knows(q)
  BY <1>2, <1>3, <1>10, DoneKnows
<1>12. Knows(q)'
  BY <1>8, <1>11, KnowsStays
<1>13. QED
  BY <1>2, <1>8, <1>9, <1>10, <1>11, <1>12, FramesKept DEF TrustInv

LEMMA DowngradeEventTrustKeeps ==
  ASSUME TrustInv, NEW r \in Request, DowngradeEventTrust(r)
  PROVE  TrustInv'
<1>1. PICK e \in Event, to \in Level :
        /\ metadata[e] # None /\ metadata[e] > to
        /\ Goto(r, [Idle EXCEPT !.pc = "metadata", !.event = e, !.level = to, !.todo = {e}])
  BY DEF DowngradeEventTrust
<1> DEFINE q == [Idle EXCEPT !.pc = "metadata", !.event = e, !.level = to, !.todo = {e}]
<1>2. UNCHANGED <<tables, history>>
  BY DEF DowngradeEventTrust
<1>3. metadata[e] \in Level
  BY <1>1 DEF TrustInv, TablesInv, TablesTyped
<1>4. to # 3
  BY <1>1, <1>3 DEF Level
<1>5. Shape(q) /\ q.pc = "metadata" /\ q.event = e /\ q.level = to /\ q.todo = {e}
  <2>1. {e} \in SUBSET Event /\ Shape(Idle)
    BY IdleKnows DEF IsFrame
  <2>2. QED
    BY <2>1 DEF Shape, Place
<1>6. Goto(r, q)
  BY <1>1
<1> HIDE DEF q
<1>7. IsFrame(q)
  BY <1>5 DEF IsFrame, Ingesting
<1>8. Knows(q)
  BY <1>4, <1>5 DEF Knows, Ingesting, Raising, Reporting
<1>9. QED
  BY <1>2, <1>6, <1>7, <1>8, Reads

-----------------------------------------------------------------------------
(* Batches.                                                                *)

LEMMA RegisterBatchSignatureKeeps ==
  ASSUME TrustInv, NEW r \in Request, RegisterBatchSignature(r)
  PROVE  TrustInv'
<1>1. PICK b \in Batch, es \in SUBSET Event, key \in {"known", "unknown"},
           genuine \in BOOLEAN :
        /\ batches[b] = None
        /\ batches' = [batches EXCEPT ![b] =
             [events |-> es, key |-> key, genuine |-> genuine, status |-> "PENDING"]]
  BY DEF RegisterBatchSignature
<1> DEFINE row == [events |-> es, key |-> key, genuine |-> genuine, status |-> "PENDING"]
<1>2. UNCHANGED <<events, chain, metadata, req, history>>
  BY DEF RegisterBatchSignature
<1>3. row \in BatchRow
  BY DEF BatchRow
<1>4. TablesTyped /\ batches \in [Batch -> BatchRow \cup {None}]
  BY DEF TrustInv, TablesInv, TablesTyped
<1>5. \A i \in Batch : i # b => batches'[i] = batches[i]
  BY <1>1, <1>4
<1>6. Grows
  BY <1>1, <1>2, <1>5 DEF Grows, history
<1>7. TablesTyped'
  BY <1>1, <1>2, <1>3, <1>4 DEF TablesTyped
<1>8. SignedIsVerified'
  BY <1>2, <1>6, SignedStays DEF TrustInv, TablesInv, history
<1>9. TablesInv'
  BY <1>2, <1>4, <1>6, <1>7, <1>8, MatchesStays, ChainStays DEF TrustInv, TablesInv
<1>10. QED
  BY <1>2, <1>6, <1>9, FramesStay DEF TrustInv

LEMMA VerifyBatchSignatureKeeps ==
  ASSUME TrustInv, NEW r \in Request, VerifyBatchSignature(r)
  PROVE  TrustInv'
<1>1. PICK b \in Batch :
        /\ batches[b] # None
        /\ Goto(r, [Idle EXCEPT !.pc = "status", !.batch = b,
                                !.todo = IF Good(b) THEN batches[b].events ELSE {}])
  BY DEF VerifyBatchSignature
<1>2. PICK es : es = IF Good(b) THEN batches[b].events ELSE {}
  OBVIOUS
<1> DEFINE q == [Idle EXCEPT !.pc = "status", !.batch = b, !.todo = es]
<1>3. UNCHANGED <<tables, history>>
  BY DEF VerifyBatchSignature
<1>4. es \in SUBSET Event /\ \A e \in es : Vouched(e)
  <2>1. batches[b] \in BatchRow
    BY <1>1 DEF TrustInv, TablesInv, TablesTyped
  <2>2. batches[b].events \in SUBSET Event
    BY <2>1 DEF BatchRow
  <2>3. QED
    BY <1>1, <1>2, <2>2 DEF Vouched, SignedFor
<1>5. Shape(q) /\ q.pc = "status" /\ q.batch = b /\ q.todo = es
  <2>1. Shape(Idle) /\ b \in Batch \cup {None}
    BY IdleKnows DEF IsFrame
  <2>2. QED
    BY <1>4, <2>1 DEF Shape, Place
<1>6. Goto(r, q)
  BY <1>1, <1>2
<1> HIDE DEF q
<1>7. IsFrame(q)
  BY <1>5 DEF IsFrame, Ingesting
<1>8. Knows(q)
  BY <1>1, <1>4, <1>5 DEF Knows, Ingesting, Raising, Reporting
<1>9. QED
  BY <1>3, <1>6, <1>7, <1>8, Reads

LEMMA UpdateBatchStatusKeeps ==
  ASSUME TrustInv, NEW r \in Request, UpdateBatchStatus(r)
  PROVE  TrustInv'
<1>1. PICK f : f = req[r]
  OBVIOUS
<1>2. /\ f.pc = "status" /\ UNCHANGED <<events, chain, metadata, history>>
      /\ batches' = [batches EXCEPT ![f.batch].status =
                       IF Good(f.batch) THEN "VERIFIED" ELSE "FAILED"]
      /\ Goto(r, Raise(f))
  BY <1>1 DEF UpdateBatchStatus, At
<1>3. IsFrame(f) /\ Knows(f)
  BY <1>1, FrameRead DEF TrustInv
<1>4. TablesTyped /\ batches \in [Batch -> BatchRow \cup {None}]
  BY DEF TrustInv, TablesInv, TablesTyped
<1>5. f.batch \in Batch /\ batches[f.batch] # None /\ batches[f.batch] \in BatchRow
  BY <1>2, <1>3, <1>4 DEF IsFrame, Knows
<1>6. PICK status \in {"VERIFIED", "FAILED"} :
        batches' = [batches EXCEPT ![f.batch] = [@ EXCEPT !.status = status]]
  BY <1>2
<1> DEFINE row == [batches[f.batch] EXCEPT !.status = status]
<1>7. /\ row \in BatchRow /\ row.events = batches[f.batch].events
      /\ row.key = batches[f.batch].key /\ row.genuine = batches[f.batch].genuine
  BY <1>5 DEF BatchRow
<1>8. batches'[f.batch] = row /\ \A b \in Batch : b # f.batch => batches'[b] = batches[b]
  BY <1>4, <1>5, <1>6
<1>9. batches' \in [Batch -> BatchRow \cup {None}]
  BY <1>4, <1>5, <1>6, <1>7
<1> HIDE DEF row
<1>10. Grows
  <2>1. row # None
    BY <1>7, NoneAssumption
  <2>2. QED
    BY <1>2, <1>7, <1>8, <2>1 DEF Grows, history
<1>11. TablesInv'
  <2>1. TablesTyped'
    BY <1>2, <1>4, <1>9 DEF TablesTyped
  <2>2. SignedIsVerified'
    BY <1>2, <1>10, SignedStays DEF TrustInv, TablesInv, history
  <2>3. QED
    BY <1>2, <1>4, <1>10, <2>1, <2>2, MatchesStays, ChainStays DEF TrustInv, TablesInv
<1>12. PICK q : q = Raise(f)
  OBVIOUS
<1>13. IsFrame(q) /\ Knows(q)
  BY <1>2, <1>3, <1>12, RaiseKnows
<1>14. Knows(q)'
  BY <1>10, <1>13, KnowsStays
<1>15. QED
  BY <1>2, <1>10, <1>11, <1>12, <1>13, <1>14, FramesKept DEF TrustInv

-----------------------------------------------------------------------------
(* Evidence.                                                               *)

(* The least of some levels.                                               *)
LEMMA LeastLevel ==
  ASSUME NEW S \in SUBSET Level, S # {}
  PROVE  Min(S) \in S /\ \A x \in S : Min(S) <= x
<1>1. \E x \in S : \A y \in S : x <= y
  <2>1. \A x \in S : x \in {0, 1, 2, 3}
    BY DEF Level
  <2>2. CASE 0 \in S
    BY <2>1, <2>2
  <2>3. CASE 0 \notin S /\ 1 \in S
    BY <2>1, <2>3
  <2>4. CASE 0 \notin S /\ 1 \notin S /\ 2 \in S
    BY <2>1, <2>4
  <2>5. CASE 0 \notin S /\ 1 \notin S /\ 2 \notin S
    BY <2>1, <2>5
  <2>6. QED
    BY <2>2, <2>3, <2>4, <2>5
<1>2. QED
  BY <1>1 DEF Min

(* The subjects that list events to gather.                                *)
LEMMA BundleEventKeeps ==
  ASSUME TrustInv, NEW r \in Request, BundleEvent(r)
  PROVE  TrustInv'
<1>1. PICK e \in Event :
        /\ events[e] # None
        /\ Goto(r, [Idle EXCEPT !.pc = "links", !.todo = {e}, !.held = {e},
                                !.level = events[e].level])
  BY DEF BundleEvent
<1>2. PICK level : level = events[e].level
  OBVIOUS
<1> DEFINE q == [Idle EXCEPT !.pc = "links", !.todo = {e}, !.held = {e}, !.level = level]
<1>3. UNCHANGED <<tables, history>>
  BY DEF BundleEvent
<1>4. level \in Level /\ (level = 3 => Vouched(e))
  <2>1. events[e] \in EventRow /\ SignedIsVerified
    BY <1>1 DEF TrustInv, TablesInv, TablesTyped
  <2>2. QED
    BY <1>1, <1>2, <2>1 DEF EventRow, SignedIsVerified, Vouched
<1>5. Shape(q) /\ q.pc = "links" /\ q.held = {e} /\ q.level = level
  <2>1. {e} \in SUBSET Event /\ Shape(Idle)
    BY IdleKnows DEF IsFrame
  <2>2. QED
    BY <1>4, <2>1 DEF Shape, Place
<1>6. Goto(r, q)
  BY <1>1, <1>2
<1> HIDE DEF q
<1>7. IsFrame(q)
  BY <1>5 DEF IsFrame, Ingesting
<1>8. Knows(q)
  BY <1>4, <1>5 DEF Knows, Ingesting, Raising, Reporting
<1>9. QED
  BY <1>3, <1>6, <1>7, <1>8, Reads

(* A request that goes on to read the events of `todo`.                    *)
LEMMA ToMembers ==
  ASSUME TrustInv, NEW r \in Request, NEW q, UNCHANGED <<tables, history>>, Goto(r, q),
         Shape(q), q.pc = "members", q.held = {}
  PROVE  TrustInv'
<1>1. IsFrame(q)
  BY DEF IsFrame, Ingesting
<1>2. Knows(q)
  BY DEF Knows, Ingesting, Raising, Reporting
<1>3. QED
  BY <1>1, <1>2, Reads

LEMMA BundleActionKeeps ==
  ASSUME TrustInv, NEW r \in Request, BundleAction(r)
  PROVE  TrustInv'
<1>1. PICK es \in Evaluations : Goto(r, [Idle EXCEPT !.pc = "members", !.todo = es])
  BY DEF BundleAction
<1> DEFINE q == [Idle EXCEPT !.pc = "members", !.todo = es]
<1>2. UNCHANGED <<tables, history>>
  BY DEF BundleAction
<1>3. es \in SUBSET Event
  BY EvaluationsAssumption
<1>4. Shape(q) /\ q.pc = "members" /\ q.held = {}
  BY <1>3, IdleKnows DEF IsFrame, Shape, Place
<1>5. Goto(r, q)
  BY <1>1
<1> HIDE DEF q
<1>6. QED
  BY <1>2, <1>4, <1>5, ToMembers

LEMMA BundleTaskKeeps ==
  ASSUME TrustInv, NEW r \in Request, BundleTask(r)
  PROVE  TrustInv'
<1>1. PICK ess \in SUBSET Evaluations :
        Goto(r, [Idle EXCEPT !.pc = "members", !.todo = UNION ess])
  BY DEF BundleTask
<1>2. PICK es : es = UNION ess
  OBVIOUS
<1> DEFINE q == [Idle EXCEPT !.pc = "members", !.todo = es]
<1>3. UNCHANGED <<tables, history>>
  BY DEF BundleTask
<1>4. es \in SUBSET Event
  BY <1>2, EvaluationsAssumption
<1>5. Shape(q) /\ q.pc = "members" /\ q.held = {}
  BY <1>4, IdleKnows DEF IsFrame, Shape, Place
<1>6. Goto(r, q)
  BY <1>1, <1>2
<1> HIDE DEF q
<1>7. QED
  BY <1>3, <1>5, <1>6, ToMembers

LEMMA BundleBatchKeeps ==
  ASSUME TrustInv, NEW r \in Request, BundleBatch(r)
  PROVE  TrustInv'
<1>1. PICK b \in Batch :
        /\ batches[b] # None
        /\ Goto(r, [Idle EXCEPT !.pc = "members", !.batch = b, !.todo = batches[b].events,
                                !.signed = {<<b, batches[b].status>>}])
  BY DEF BundleBatch
<1>2. PICK es, signed : es = batches[b].events /\ signed = {<<b, batches[b].status>>}
  OBVIOUS
<1> DEFINE q == [Idle EXCEPT !.pc = "members", !.batch = b, !.todo = es, !.signed = signed]
<1>3. UNCHANGED <<tables, history>>
  BY DEF BundleBatch
<1>4. es \in SUBSET Event
  <2>1. batches[b] \in BatchRow
    BY <1>1 DEF TrustInv, TablesInv, TablesTyped
  <2>2. QED
    BY <1>2, <2>1 DEF BatchRow
<1>5. Shape(q) /\ q.pc = "members" /\ q.held = {}
  <2>1. Shape(Idle) /\ Idle.held = {} /\ b \in Batch \cup {None}
    BY IdleKnows DEF IsFrame
  <2>2. QED
    BY <1>4, <2>1 DEF Shape, Place
<1>6. Goto(r, q)
  BY <1>1, <1>2
<1> HIDE DEF q
<1>7. QED
  BY <1>3, <1>5, <1>6, ToMembers

(* The level of a bundle is the least of its events: T3 says they all are. *)
LEMMA GetEventsKeeps ==
  ASSUME TrustInv, NEW r \in Request, GetEvents(r)
  PROVE  TrustInv'
<1>1. PICK f : f = req[r]
  OBVIOUS
<1>2. PICK found : found = {e \in f.todo : events[e] # None}
  OBVIOUS
<1>3. PICK level : level = Min({3} \cup {events[e].level : e \in found})
  OBVIOUS
<1> DEFINE q == [f EXCEPT !.pc = "links", !.held = found, !.level = level]
<1>4. UNCHANGED <<tables, history>> /\ Goto(r, q)
  BY <1>1, <1>2, <1>3 DEF GetEvents
<1>5. IsFrame(f) /\ Shape(f)
  BY <1>1, FrameRead DEF TrustInv, IsFrame
<1>6. found \in SUBSET Event /\ \A e \in found : events[e] # None
  BY <1>2, <1>5 DEF Shape
<1>7. \A e \in found : events[e].level \in Level
  BY <1>6 DEF TrustInv, TablesInv, TablesTyped, EventRow
<1>8. level \in Level /\ \A e \in found : level <= events[e].level
  <2> DEFINE S == {3} \cup {events[e].level : e \in found}
  <2>1. S \in SUBSET Level /\ S # {}
    BY <1>7 DEF Level
  <2>2. \A e \in found : events[e].level \in S
    OBVIOUS
  <2>3. level = Min(S)
    BY <1>3
  <2> HIDE DEF S
  <2>4. QED
    BY <2>1, <2>2, <2>3, LeastLevel
<1>9. level = 3 => \A e \in found : Vouched(e)
  <2>1. level = 3 => \A e \in found : events[e].level = 3
    BY <1>7, <1>8 DEF Level
  <2>2. QED
    BY <1>6, <2>1 DEF TrustInv, TablesInv, SignedIsVerified, Vouched
<1>10. Shape(q) /\ q.pc = "links" /\ q.held = found /\ q.level = level
  BY <1>5, <1>6, <1>8 DEF Shape, Place
<1> HIDE DEF q
<1>11. IsFrame(q)
  BY <1>10 DEF IsFrame, Ingesting
<1>12. Knows(q)
  BY <1>9, <1>10 DEF Knows, Ingesting, Raising, Reporting
<1>13. QED
  BY <1>4, <1>11, <1>12, Reads

(* From one reading of the evidence to the next, what is held and the      *)
(* level stay.                                                             *)
LEMMA StillReporting ==
  ASSUME NEW f, IsFrame(f), Knows(f), f.pc \in Reporting,
         NEW q, Shape(q), q.pc \in Reporting, q.held = f.held, q.level = f.level
  PROVE  IsFrame(q) /\ Knows(q)
BY DEF IsFrame, Knows, Ingesting, Raising, Reporting

LEMMA LinkedKnows ==
  ASSUME NEW q, IsFrame(q), Knows(q), q.pc = "links", NEW valid \in BOOLEAN
  PROVE  IsFrame(Linked(q, valid)) /\ Knows(Linked(q, valid))
<1>1. PICK pc \in {"signed", "report"} : Linked(q, valid) = [q EXCEPT !.pc = pc, !.valid = valid]
  BY DEF Linked
<1> DEFINE n == [q EXCEPT !.pc = pc, !.valid = valid]
<1>2. Shape(n) /\ n.pc = pc /\ n.held = q.held /\ n.level = q.level
  BY DEF IsFrame, Shape, Place
<1> HIDE DEF n
<1>3. IsFrame(n) /\ Knows(n)
  BY <1>2, StillReporting DEF Reporting
<1>4. QED
  BY <1>1, <1>3 DEF n

LEMMA GetChainEntriesKeeps ==
  ASSUME TrustInv, NEW r \in Request, GetChainEntries(r)
  PROVE  TrustInv'
<1>1. PICK f : f = req[r]
  OBVIOUS
<1>2. f.pc = "links" /\ UNCHANGED <<tables, history>>
  BY <1>1 DEF GetChainEntries, At
<1>3. PICK valid \in BOOLEAN : Goto(r, Linked(f, valid))
  <2>1. \A list : ListValid(list) \in BOOLEAN
    BY DEF ListValid
  <2>2. \E list : Goto(r, Linked(f, ListValid(list)))
    BY <1>1 DEF GetChainEntries
  <2>3. QED
    BY <2>1, <2>2
<1>4. IsFrame(f) /\ Knows(f)
  BY <1>1, FrameRead DEF TrustInv
<1>5. PICK q : q = Linked(f, valid)
  OBVIOUS
<1>6. IsFrame(q) /\ Knows(q)
  BY <1>2, <1>4, <1>5, LinkedKnows
<1>7. QED
  BY <1>2, <1>3, <1>5, <1>6, Reads

(* A signature found, or not looked for any more.                          *)
LEMMA FewerToSign ==
  ASSUME NEW f, IsFrame(f), Knows(f), f.pc = "signed", NEW todo \in SUBSET f.todo, NEW signed
  PROVE  /\ IsFrame([f EXCEPT !.todo = todo, !.signed = signed])
         /\ Knows([f EXCEPT !.todo = todo, !.signed = signed])
         /\ IsFrame([f EXCEPT !.todo = todo])
         /\ Knows([f EXCEPT !.todo = todo])
<1> DEFINE q == [f EXCEPT !.todo = todo, !.signed = signed]
           p == [f EXCEPT !.todo = todo]
<1>1. Shape(f) /\ todo \in SUBSET Event
  BY DEF IsFrame, Shape
<1>2. Shape(q) /\ q.pc = "signed" /\ q.held = f.held /\ q.level = f.level
  BY <1>1 DEF Shape
<1>3. Shape(p) /\ p.pc = "signed" /\ p.held = f.held /\ p.level = f.level
  BY <1>1 DEF Shape
<1> HIDE DEF q, p
<1>4. IsFrame(q) /\ Knows(q) /\ IsFrame(p) /\ Knows(p)
  BY <1>2, <1>3, StillReporting DEF Reporting
<1>5. QED
  BY <1>4 DEF q, p

LEMMA GetSignatureKeeps ==
  ASSUME TrustInv, NEW r \in Request, GetSignature(r)
  PROVE  TrustInv'
<1>1. PICK f : f = req[r]
  OBVIOUS
<1>2. f.pc = "signed" /\ UNCHANGED <<tables, history>>
  BY <1>1 DEF GetSignature, At
<1>3. IsFrame(f) /\ Shape(f) /\ Knows(f)
  BY <1>1, FrameRead DEF TrustInv, IsFrame
<1>4. PICK todo \in SUBSET f.todo :
        \/ Goto(r, [f EXCEPT !.todo = todo])
        \/ \E signed : Goto(r, [f EXCEPT !.todo = todo, !.signed = signed])
  <2>1. PICK e \in f.todo :
          \/ Goto(r, [f EXCEPT !.todo = f.todo \ {e}])
          \/ \E b \in SignedFor(e) : Goto(r, Kept(f, e, b))
    BY <1>1, <1>3 DEF GetSignature, Shape
  <2>2. \A b \in SignedFor(e) : \E signed :
          Kept(f, e, b) = [f EXCEPT !.todo = f.todo \ {e}, !.signed = signed]
    BY <1>3 DEF Kept, Shape
  <2>3. PICK todo \in SUBSET f.todo : todo = f.todo \ {e}
    OBVIOUS
  <2>4. \/ Goto(r, [f EXCEPT !.todo = todo])
        \/ \E signed : Goto(r, [f EXCEPT !.todo = todo, !.signed = signed])
    BY <2>1, <2>2, <2>3
  <2>5. QED
    BY <2>4
<1>5. QED
  BY <1>2, <1>3, <1>4, FewerToSign, Reads

LEMMA ReportKeeps ==
  ASSUME TrustInv, NEW r \in Request, Report(r)
  PROVE  TrustInv'
<1>1. PICK f : f = req[r]
  OBVIOUS
<1>2. /\ f.pc \in Reporting /\ UNCHANGED <<tables, disputed>> /\ Goto(r, Idle)
      /\ bundles' = bundles \cup {<<e, Summary(f)>> : e \in f.held}
  BY <1>1 DEF Report, At, Reporting
<1>3. IsFrame(f) /\ Knows(f)
  BY <1>1, FrameRead DEF TrustInv
<1>4. \A e \in Event : <<e, 3>> \in bundles' => <<e, 3>> \in bundles \/ Vouched(e)
  <2>1. Summary(f) = 3 => f.level = 3
    BY DEF Summary
  <2>2. QED
    BY <1>2, <1>3, <2>1 DEF Knows
<1>5. Grows
  BY <1>2, NothingGrows DEF tables
<1>6. TablesInv'
  <2>1. TablesTyped /\ TablesTyped'
    BY <1>2 DEF TrustInv, TablesInv, TablesTyped, tables
  <2>2. SignedIsVerified'
    BY <1>2, <1>4, <1>5, SignedStays DEF TrustInv, TablesInv, tables
  <2>3. QED
    BY <1>2, <1>5, <2>1, <2>2, MatchesStays, ChainStays DEF TrustInv, TablesInv, tables
<1>7. QED
  BY <1>2, <1>5, <1>6, IdleKnows, FramesKept DEF TrustInv

LEMMA FailsKeeps ==
  ASSUME TrustInv, NEW r \in Request, Fails(r)
  PROVE  TrustInv'
<1>1. PICK f : f = req[r]
  OBVIOUS
<1>2. UNCHANGED <<tables, history>>
  BY DEF Fails
<1>3. IsFrame(f) /\ Shape(f) /\ Knows(f)
  BY <1>1, FrameRead DEF TrustInv, IsFrame
<1>4. CASE f.pc \in {"latest", "entry"} /\ Goto(r, Idle)
  BY <1>2, <1>4, IdleKnows, Reads
<1>5. CASE f.pc \in {"metadata", "level"} /\ Goto(r, Done(f))
  BY <1>2, <1>3, <1>5, DoneKnows, Reads
<1>6. CASE f.pc = "status" /\ Goto(r, Raise(f))
  BY <1>2, <1>3, <1>6, RaiseKnows, Reads
<1>7. CASE f.pc = "members" /\ Goto(r, [f EXCEPT !.pc = "links", !.level = 3])
  <2> DEFINE q == [f EXCEPT !.pc = "links", !.level = 3]
  <2>1. 3 \in Level
    BY DEF Level
  <2>2. Shape(q) /\ q.pc = "links" /\ q.held = f.held
    BY <1>3, <2>1 DEF Shape, Place
  <2>3. f.held = {} /\ Goto(r, q)
    BY <1>3, <1>7 DEF Knows
  <2> HIDE DEF q
  <2>4. IsFrame(q) /\ Knows(q)
    BY <2>2, <2>3 DEF IsFrame, Knows, Ingesting, Raising, Reporting
  <2>5. QED
    BY <1>2, <2>3, <2>4, Reads
<1>8. CASE f.pc = "links" /\ Goto(r, Linked(f, TRUE))
  BY <1>2, <1>3, <1>8, LinkedKnows, Reads
<1>9. CASE f.pc = "signed" /\ \E e \in f.todo : Goto(r, [f EXCEPT !.todo = @ \ {e}])
  <2>1. PICK e \in f.todo : Goto(r, [f EXCEPT !.todo = f.todo \ {e}])
    BY <1>3, <1>9 DEF Shape
  <2>2. QED
    BY <1>2, <1>3, <1>9, <2>1, FewerToSign, Reads
<1>10. QED
  BY <1>1, <1>4, <1>5, <1>6, <1>7, <1>8, <1>9 DEF Fails, At

LEMMA CrashKeeps ==
  ASSUME TrustInv, Crash
  PROVE  TrustInv'
<1>1. req' = [r \in Request |-> Idle] /\ UNCHANGED <<tables, history>>
  BY DEF Crash
<1>2. TablesInv'
  BY <1>1, TablesStay DEF TrustInv
<1>3. \A r \in Request : req'[r] = Idle
  BY <1>1
<1>4. \A r \in Request : (IsFrame(req[r]) /\ Knows(req[r]))'
  BY <1>3, IdleKnows
<1>5. QED
  BY <1>1, <1>2, <1>4 DEF TrustInv, FramesInv

-----------------------------------------------------------------------------
(* The theorems.                                                           *)

LEMMA TrustInvInit == Init => TrustInv
<1> SUFFICES ASSUME Init PROVE TrustInv
  OBVIOUS
<1>1. TablesTyped
  BY DEF Init, TablesTyped
<1>2. Numbered /\ Hashed
  <2>1. \A s \in Source : EntriesOf(s) = {}
    BY DEF Init, EntriesOf
  <2>2. Cardinality({}) = 0 /\ IsFiniteSet({})
    BY FS_EmptySet
  <2>3. \A s \in Source : {x.seq : x \in EntriesOf(s)} = 1 .. Cardinality(EntriesOf(s))
    BY <2>1, <2>2
  <2>4. QED
    BY <2>2, <2>3 DEF Init, Numbered, Hashed
<1>3. ChainMatchesEvents
  BY DEF Init, ChainMatchesEvents
<1>4. SignedIsVerified
  BY NoneAssumption DEF Init, SignedIsVerified, Level
<1>5. FramesInv
  <2>1. \A r \in Request : req[r] = Idle
    BY DEF Init
  <2>2. QED
    BY <2>1, IdleKnows DEF Init, FramesInv
<1>6. QED
  BY <1>1, <1>2, <1>3, <1>4, <1>5 DEF TrustInv, TablesInv

(* TrustInv is inductive, whatever step comes next.                        *)
THEOREM TrustSafety == Spec => []TrustInv
<1>1. ASSUME TrustInv, [Next]_vars PROVE TrustInv'
  <2>1. CASE UNCHANGED vars
    <3>1. UNCHANGED <<tables, history>> /\ req' = req
      BY <2>1 DEF vars
    <3>2. QED
      BY <1>1, <3>1, TablesStay, FramesStay DEF TrustInv
  <2>2. CASE Crash
    BY <1>1, <2>2, CrashKeeps
  <2>3. ASSUME NEW r \in Request,
               \/ InsertEvent(r) \/ GetLatestChainEntry(r) \/ InsertHashChainEntry(r)
               \/ NextEvent(r) \/ SaveMetadata(r) \/ SaveLevel(r)
               \/ RegisterBatchSignature(r) \/ VerifyBatchSignature(r)
               \/ UpdateBatchStatus(r) \/ DowngradeEventTrust(r)
        PROVE  TrustInv'
    BY <1>1, <2>3, InsertEventKeeps, GetLatestChainEntryKeeps, InsertHashChainEntryKeeps,
       NextEventKeeps, SaveMetadataKeeps, SaveLevelKeeps, RegisterBatchSignatureKeeps,
       VerifyBatchSignatureKeeps, UpdateBatchStatusKeeps, DowngradeEventTrustKeeps
  <2>4. ASSUME NEW r \in Request,
               \/ BundleEvent(r) \/ BundleAction(r) \/ BundleTask(r) \/ BundleBatch(r)
               \/ GetEvents(r) \/ GetChainEntries(r) \/ GetSignature(r) \/ Report(r)
               \/ Fails(r)
        PROVE  TrustInv'
    BY <1>1, <2>4, BundleEventKeeps, BundleActionKeeps, BundleTaskKeeps, BundleBatchKeeps,
       GetEventsKeeps, GetChainEntriesKeeps, GetSignatureKeeps, ReportKeeps, FailsKeeps
  <2>5. QED
    BY <1>1, <2>1, <2>2, <2>3, <2>4 DEF Next
<1>2. QED
  BY <1>1, TrustInvInit, PTL DEF Spec

(* Any range of a chain passes VerifyHashChain.                            *)
LEMMA RangesVerify ==
  ASSUME TablesTyped, Numbered, Hashed, NEW s \in Source,
         NEW from \in Nat, from >= 1, NEW to \in Nat
  PROVE  RangeValid(s, from, to)
<1> DEFINE range == {x \in EntriesOf(s) : x.seq \in from .. to}
           before(x) == {y \in range : y.seq < x.seq}
<1>1. ASSUME NEW x \in range
      PROVE  Verifies(x)
  BY DEF EntriesOf, Hashed
<1>2. ASSUME NEW x \in range, NEW y \in before(x), \A z \in before(x) : z.seq <= y.seq
      PROVE  x.prev = y.chained
  <2>1. /\ x \in chain /\ y \in chain /\ x.source = s /\ y.source = s
        /\ x.seq \in Nat /\ y.seq \in Nat /\ y.seq < x.seq /\ from <= y.seq /\ x.seq <= to
    BY DEF EntriesOf, TablesTyped
  <2>2. x.seq \in 1 .. Cardinality(EntriesOf(s)) /\ Cardinality(EntriesOf(s)) \in Nat
    <3>1. EntriesOf(s) \in SUBSET chain /\ IsFiniteSet(chain)
      BY DEF EntriesOf, Numbered
    <3>2. Cardinality(EntriesOf(s)) \in Nat
      BY <3>1, FS_Subset, FS_CardinalityType
    <3>3. x \in EntriesOf(s)
      BY <2>1 DEF EntriesOf
    <3>4. QED
      BY <3>2, <3>3 DEF Numbered
  <2>3. x.seq - 1 \in 1 .. Cardinality(EntriesOf(s))
    BY <2>1, <2>2
  <2>4. PICK z \in EntriesOf(s) : z.seq = x.seq - 1
    BY <2>3 DEF Numbered
  <2>5. z \in before(x)
    BY <2>1, <2>4
  <2>6. y.seq = x.seq - 1
    BY <1>2, <2>1, <2>4, <2>5
  <2>7. Continues(x, y)
    BY <2>1, <2>6 DEF Continues
  <2>8. QED
    BY <2>1, <2>7 DEF Hashed
<1>3. QED
  BY <1>1, <1>2 DEF RangeValid

(* However requests interleave, fail and stop, the entries of a source are *)
(* numbered 1, 2, ... and every range of them passes VerifyHashChain.      *)
THEOREM ChainsAreLinear == Spec => []ChainIsLinear
<1>1. TrustInv => ChainIsLinear
  <2> SUFFICES ASSUME TrustInv, NEW s \in Source
               PROVE  LET n == Cardinality(EntriesOf(s))
                      IN  /\ {x.seq : x \in EntriesOf(s)} = 1 .. n
                          /\ \A from, to \in 1 .. n : RangeValid(s, from, to)
    BY DEF ChainIsLinear
  <2>1. TablesTyped /\ Numbered /\ Hashed
    BY DEF TrustInv, TablesInv
  <2>2. Cardinality(EntriesOf(s)) \in Nat
    <3>1. EntriesOf(s) \in SUBSET chain /\ IsFiniteSet(chain)
      BY <2>1 DEF EntriesOf, Numbered
    <3>2. QED
      BY <3>1, FS_Subset, FS_CardinalityType
  <2>3. \A from, to \in 1 .. Cardinality(EntriesOf(s)) : RangeValid(s, from, to)
    BY <2>1, <2>2, RangesVerify
  <2>4. QED
    BY <2>1, <2>3 DEF Numbered
<1>2. QED
  BY <1>1, TrustSafety, PTL

(* An event that was stored once has the content, and is of the source,    *)
(* whose hash the chain holds.                                             *)
THEOREM ChainsMatchEvents == Spec => []ChainMatchesEvents
<1>1. TrustInv => ChainMatchesEvents
  BY DEF TrustInv, TablesInv
<1>2. QED
  BY <1>1, TrustSafety, PTL

(* T3 is never given, to an event, its metadata or in a bundle, without a  *)
(* batch that lists the event and whose signature is good.                 *)
THEOREM T3IsSigned == Spec => []SignedIsVerified
<1>1. TrustInv => SignedIsVerified
  BY DEF TrustInv, TablesInv
<1>2. QED
  BY <1>1, TrustSafety, PTL

=============================================================================
