--------------------------- MODULE Delivery_proofs ---------------------------
(***************************************************************************)
(* Theorems about Delivery and the hub of server-sent events it uses, for  *)
(* any number of connections, workers, notifications, calls, failures and  *)
(* crashes.  HubInv is the inductive invariant of the hub, SendingInv that *)
(* of the rows and the workers' copies; what each step does to either is a *)
(* lemma of its own.                                                       *)
(***************************************************************************)
EXTENDS Delivery, TLAPS

-----------------------------------------------------------------------------
(* The hub.  A registered connection is served under the client id it      *)
(* asked for and its channel is open; two connections served under one id  *)
(* have both met the other.                                                *)

HubInv ==
  /\ clients \in [Client -> Connection \cup {"none"}]
  /\ conn \in [Connection -> {"new", "open", "leaving", "ended"}]
  /\ queue \in [Connection -> Seq(Notification)]
  /\ \A c \in Connection : Len(queue[c]) <= Capacity
  /\ closed \subseteq Connection /\ shared \subseteq Connection
  /\ \A c \in Registered : Served(c) /\ c \notin closed
  /\ \A i \in Client : clients[i] # "none" => ClientOf[clients[i]] = i
  /\ \A c \in closed : conn[c] # "new"
  /\ \A c, o \in Connection :
       c # o /\ Served(c) /\ Served(o) /\ ClientOf[c] = ClientOf[o] => c \in shared
  /\ ServedUntilGone

-----------------------------------------------------------------------------
(* The workers.  What one holds or has listed exists, each row once, and   *)
(* what two of them hold is crowded.                                       *)

Handling == {"read", "expire", "reset", "sent", "send", "settle", "attempt", "dlq"}
WorkerType ==
  [pc: {"idle", "dedupe", "insert", "loop"} \cup Handling,
   kind: {"none", "one", "pending", "retryable"},
   id: Notification \cup {"none"}, row: RowType, act: Action \cup {"none"},
   todo: SUBSET [id: Notification, row: RowType]]

Shaped(q) ==
  /\ q \in WorkerType
  /\ q.pc \in Handling => q.id \in Notification
  /\ \A a, b \in q.todo : a.id = b.id => a = b
  /\ \A a \in q.todo : a.id # q.id

TablesOK ==
  /\ notes \in [Notification -> RowType]
  /\ sends \in [Notification -> Nat] /\ attempts \in [Notification -> Nat]
  /\ overdue \subseteq Notification /\ crowded \subseteq Notification
  /\ rejected \subseteq Notification /\ resent \subseteq Notification
  /\ calls \in 0 .. MaxCalls /\ failures \in 0 .. MaxFailures

WorkersOK == work \in [Worker -> WorkerType] /\ \A w \in Worker : Shaped(work[w])

HeldInv ==
  /\ \A w \in Worker : \A n \in Held(work[w]) : Exists(n)
  /\ \A v, w \in Worker : v # w => Held(work[v]) \cap Held(work[w]) \subseteq crowded

-----------------------------------------------------------------------------
(* A row, r, and how often its notification was sent, k: at most once for  *)
(* each retry counted, and once more until the last outcome is stored.     *)
RowOK(r, k) ==
  /\ k <= MaxRetries
  /\ r.status = "NONE" => r = NoNote /\ k = 0
  /\ r.status = "PENDING" => k <= r.retry /\ r.retry < MaxRetries
  /\ r.status = "FAILED" => k <= r.retry /\ r.retry <= MaxRetries

(* What a worker's copy has to do with the row it read, as long as the     *)
(* worker is the only one to handle it.                                    *)
CopyOK(q, r, k) ==
  /\ q.pc = "expire" => q.row = MarkExpired(r)
  /\ q.pc = "reset" => /\ r.status = "FAILED" /\ r.retry < MaxRetries
                       /\ q.row = [r EXCEPT !.status = "PENDING"]
  /\ q.pc = "sent" => r.status = "PENDING" /\ q.row = [r EXCEPT !.status = "SENT"]
  /\ q.pc = "send" => r.status = "SENT" /\ q.row = r /\ r.retry < MaxRetries /\ k <= r.retry
  /\ q.pc = "settle" => /\ r.status = "SENT" /\ k <= r.retry + 1 /\ r.retry < MaxRetries
                        /\ q.row.status = "FAILED" => q.row.retry = r.retry + 1

(* What its copy says whoever else writes the row.                         *)
CopySays(q) ==
  /\ q.pc = "reset" => q.row.status = "PENDING"
  /\ q.pc \in {"sent", "send"} => q.row.status = "SENT"
  /\ q.pc = "settle" => q.row.status \in {"DELIVERED", "EXPIRED", "FAILED"}
  /\ q.pc = "expire" => q.row.status # "NONE" /\ q.id \in overdue
  /\ q.pc = "expire" /\ q.row.status = "SENT" => failures > 0 \/ q.id \in crowded

RowsInv == \A n \in Notification : n \notin crowded => RowOK(notes[n], sends[n])

CopyInv ==
  \A w \in Worker :
    /\ CopySays(work[w])
    /\ work[w].pc \in Handling /\ work[w].id \notin crowded =>
         CopyOK(work[w], notes[work[w].id], sends[work[w].id])
    /\ \A a \in work[w].todo : a.id \notin crowded => a.row = notes[a.id]

StatusInv == \A n \in Notification : notes[n].status = "NONE" => notes[n] = NoNote

(* Everything but the hub.                                                 *)
SendingInv ==
  TablesOK /\ WorkersOK /\ HeldInv /\ RowsInv /\ CopyInv /\ StatusInv /\ SentIsSettled

DeliveryInv == HubInv /\ SendingInv

-----------------------------------------------------------------------------
(* Each operation of the hub keeps it as it should be.                     *)

LEMMA RegisteredAreConnections == Registered \subseteq Connection
BY DEF Registered

LEMMA HubStarts == HubInit => HubInv
<1> SUFFICES ASSUME HubInit PROVE HubInv
  OBVIOUS
<1>1. Registered = {} /\ \A c \in Connection : ~ Served(c)
  BY NobodyAssumption DEF HubInit, Registered, Client, Served
<1>2. queue \in [Connection -> Seq(Notification)] /\ \A c \in Connection : Len(queue[c]) = 0
  BY DEF HubInit
<1> QED
  BY <1>1, <1>2, CapacityAssumption DEF HubInit, HubInv, ServedUntilGone

LEMMA ConnectKeeps ==
  ASSUME HubInv, NEW c \in Connection, Connect(c)
  PROVE  HubInv'
<1> DEFINE same == {o \in Connection \ {c} : Served(o) /\ ClientOf[o] = ClientOf[c]}
<1>1. ClientOf[c] \in Client
  BY DEF Client
<1>2. /\ clients \in [Client -> Connection \cup {"none"}]
      /\ conn \in [Connection -> {"new", "open", "leaving", "ended"}]
  BY DEF HubInv
<1>3. /\ conn' = [conn EXCEPT ![c] = "open"]
      /\ clients' = [clients EXCEPT ![ClientOf[c]] = c]
      /\ shared' = IF same = {} THEN shared ELSE shared \cup same \cup {c}
      /\ queue' = queue /\ closed' = closed /\ conn[c] = "new"
  BY DEF Connect
<1>4. \A o \in Connection : Served(o)' <=> Served(o) \/ o = c
  BY <1>2, <1>3 DEF Served
<1>5. Registered' = (Registered \ {o \in Connection : ClientOf[o] = ClientOf[c]}) \cup {c}
  BY <1>1, <1>2, <1>3, NobodyAssumption DEF Registered, Client
<1>6. shared \subseteq shared' /\ same \subseteq shared' /\ shared' \subseteq Connection
  BY <1>3 DEF HubInv
<1>7. same # {} => c \in shared'
  BY <1>3
<1>8. \A o \in Registered' : Served(o)' /\ o \notin closed'
  BY <1>3, <1>4, <1>5, RegisteredAreConnections DEF HubInv
<1>9. \A i \in Client : clients'[i] # "none" => ClientOf[clients'[i]] = i
  BY <1>1, <1>2, <1>3 DEF HubInv
<1>10. \A a, o \in Connection :
         a # o /\ Served(a)' /\ Served(o)' /\ ClientOf[a] = ClientOf[o] => a \in shared'
  <2> SUFFICES ASSUME NEW a \in Connection, NEW o \in Connection,
                      a # o, Served(a)', Served(o)', ClientOf[a] = ClientOf[o]
               PROVE  a \in shared'
    OBVIOUS
  <2>1. CASE a = c
    BY <2>1, <1>4, <1>7
  <2>2. CASE o = c
    BY <2>2, <1>4, <1>6
  <2>3. CASE a # c /\ o # c
    BY <2>3, <1>4, <1>6 DEF HubInv
  <2> QED
    BY <2>1, <2>2, <2>3
<1>11. ServedUntilGone'
  <2> SUFFICES ASSUME NEW o \in Connection, o \notin shared', Served(o)'
               PROVE  o \in Registered'
    BY DEF ServedUntilGone
  <2>1. CASE o = c
    BY <2>1, <1>5
  <2>2. CASE o # c
    <3>1. Served(o) /\ o \in Registered
      BY <2>2, <1>4, <1>6 DEF HubInv, ServedUntilGone
    <3>2. ClientOf[o] # ClientOf[c]
      BY <3>1, <2>2, <1>6
    <3> QED
      BY <3>1, <3>2, <1>5
  <2> QED
    BY <2>1, <2>2
<1>12. \A o \in closed' : conn'[o] # "new"
  BY <1>2, <1>3 DEF HubInv
<1> HIDE DEF same
<1> QED
  BY <1>1, <1>2, <1>3, <1>6, <1>8, <1>9, <1>10, <1>11, <1>12 DEF HubInv

LEMMA ReceiveKeeps ==
  ASSUME HubInv, NEW c \in Connection, Receive(c)
  PROVE  HubInv'
<1>1. queue[c] \in Seq(Notification) /\ queue[c] # <<>> /\ Len(queue[c]) <= Capacity
  BY DEF Receive, HubInv
<1>2. Tail(queue[c]) \in Seq(Notification) /\ Len(Tail(queue[c])) <= Capacity
  BY <1>1, CapacityAssumption
<1>3. queue' = [queue EXCEPT ![c] = Tail(queue[c])]
  BY DEF Receive
<1>4. queue' \in [Connection -> Seq(Notification)] /\ \A o \in Connection : Len(queue'[o]) <= Capacity
  BY <1>2, <1>3 DEF HubInv
<1> QED
  BY <1>4 DEF Receive, HubInv, ServedUntilGone, Registered, Served

LEMMA LeaveKeeps ==
  ASSUME HubInv, NEW c \in Connection, Leave(c)
  PROVE  HubInv'
<1>1. \A o \in Connection : Served(o)' <=> Served(o)
  BY DEF Leave, HubInv, Served
<1>2. Registered' = Registered
  BY DEF Leave, Registered
<1>3. \A o \in closed : conn'[o] # "new"
  BY DEF Leave, HubInv
<1>4. conn' \in [Connection -> {"new", "open", "leaving", "ended"}]
  BY DEF Leave, HubInv
<1> QED
  BY <1>1, <1>2, <1>3, <1>4, RegisteredAreConnections DEF Leave, HubInv, ServedUntilGone

LEMMA UnregisterKeeps ==
  ASSUME HubInv, NEW c \in Connection, Unregister(c)
  PROVE  HubInv'
<1> DEFINE held == clients[ClientOf[c]]
<1>1. ClientOf[c] \in Client
  BY DEF Client
<1>2. /\ clients \in [Client -> Connection \cup {"none"}]
      /\ conn \in [Connection -> {"new", "open", "leaving", "ended"}]
  BY DEF HubInv
<1>3. /\ conn[c] = "leaving" /\ conn' = [conn EXCEPT ![c] = "ended"]
      /\ closed' = closed \cup ({held} \ {"none"})
      /\ clients' = [clients EXCEPT ![ClientOf[c]] = "none"]
      /\ queue' = queue /\ shared' = shared
  BY DEF Unregister
<1>4. \A o \in Connection : Served(o)' <=> Served(o) /\ o # c
  BY <1>2, <1>3 DEF Served
<1>5. Registered' = Registered \ {o \in Connection : ClientOf[o] = ClientOf[c]}
  BY <1>1, <1>2, <1>3, NobodyAssumption DEF Registered, Client
<1>6. Served(c)
  BY <1>3 DEF Served
<1>7. held # "none" => held \in Registered /\ ClientOf[held] = ClientOf[c]
  BY <1>1, <1>2 DEF HubInv, Registered
<1>8. \A o \in Registered' : Served(o)' /\ o \notin closed'
  BY <1>3, <1>4, <1>5, <1>7, RegisteredAreConnections DEF HubInv
<1>9. \A i \in Client : clients'[i] # "none" => ClientOf[clients'[i]] = i
  BY <1>1, <1>2, <1>3 DEF HubInv
<1>10. \A o \in closed' : conn'[o] # "new"
  BY <1>2, <1>3, <1>7 DEF HubInv, Served
<1>11. ServedUntilGone'
  <2> SUFFICES ASSUME NEW o \in Connection, o \notin shared', Served(o)'
               PROVE  o \in Registered'
    BY DEF ServedUntilGone
  <2>1. Served(o) /\ o # c /\ o \in Registered
    BY <1>3, <1>4 DEF HubInv, ServedUntilGone
  <2>2. ClientOf[o] # ClientOf[c]
    BY <2>1, <1>3, <1>6 DEF HubInv
  <2> QED
    BY <2>1, <2>2, <1>5
<1>12. closed' \subseteq Connection
  BY <1>1, <1>2, <1>3 DEF HubInv
<1>13. \A a, o \in Connection :
         a # o /\ Served(a)' /\ Served(o)' /\ ClientOf[a] = ClientOf[o] => a \in shared'
  BY <1>3, <1>4 DEF HubInv
<1> HIDE DEF held
<1> QED
  BY <1>1, <1>2, <1>3, <1>8, <1>9, <1>10, <1>11, <1>12, <1>13 DEF HubInv

LEMMA StopKeeps ==
  ASSUME HubInv, StopHub
  PROVE  HubInv'
<1>1. Registered' = {}
  BY NobodyAssumption DEF StopHub, Registered, Client
<1>2. \A o \in Connection : Served(o)' <=> Served(o)
  BY DEF StopHub, Served
<1>3. ServedUntilGone'
  BY <1>2 DEF StopHub, HubInv, ServedUntilGone
<1>4. \A o \in closed' : conn'[o] # "new"
  BY DEF StopHub, HubInv, Served
<1> QED
  BY <1>1, <1>2, <1>3, <1>4 DEF StopHub, HubInv, Registered

LEMMA BroadcastKeeps ==
  ASSUME HubInv, NEW n \in Notification, NEW t, Broadcast(n, t)
  PROVE  HubInv'
<1>1. ASSUME NEW c \in Connection
      PROVE  queue'[c] \in Seq(Notification) /\ Len(queue'[c]) <= Capacity
  <2>1. queue[c] \in Seq(Notification) /\ Len(queue[c]) <= Capacity
    BY DEF HubInv
  <2>2. Append(queue[c], n) \in Seq(Notification) /\ Len(Append(queue[c], n)) = Len(queue[c]) + 1
    BY <2>1
  <2> QED
    BY <2>1, <2>2, CapacityAssumption DEF Broadcast
<1>2. queue' \in [Connection -> Seq(Notification)]
  BY <1>1 DEF Broadcast
<1> QED
  BY <1>1, <1>2 DEF Broadcast, HubInv, ServedUntilGone, Registered, Served

(* After a crash nobody is registered and nobody served.                   *)
LEMMA CrashKeepsHub ==
  ASSUME HubInv, Crash
  PROVE  HubInv'
<1>1. Registered' = {}
  BY NobodyAssumption DEF Crash, Registered, Client
<1>2. \A c \in Connection : ~ Served(c)'
  BY DEF Crash, Served
<1>3. /\ \A c \in Connection : queue'[c] = <<>>
      /\ queue' \in [Connection -> Seq(Notification)]
  BY DEF Crash
<1>4. /\ conn' \in [Connection -> {"new", "open", "leaving", "ended"}]
      /\ \A c \in closed' : conn'[c] # "new"
  BY DEF Crash, HubInv
<1>5. clients' \in [Client -> Connection \cup {"none"}] /\ \A i \in Client : clients'[i] = "none"
  BY DEF Crash
<1>6. ServedUntilGone'
  BY <1>2 DEF ServedUntilGone
<1> QED
  BY <1>1, <1>2, <1>3, <1>4, <1>5, <1>6, CapacityAssumption DEF Crash, HubInv

LEMMA HubStepKeeps ==
  ASSUME HubInv, Hub
  PROVE  HubInv'
BY ConnectKeeps, ReceiveKeeps, LeaveKeeps, UnregisterKeeps, StopKeeps
DEF Hub, GoAway, SeeClosed, Serve

-----------------------------------------------------------------------------
(* Rows and workers.                                                       *)

LEMMA IdleFacts ==
  /\ Shaped(Idle) /\ Held(Idle) = {} /\ Idle.todo = {} /\ Idle.pc = "idle"
  /\ Idle.id = "none" /\ NoNote \in RowType
BY DEF Shaped, WorkerType, Handling, Idle, Held, NoNote, RowType

LEMMA NextFacts ==
  ASSUME NEW q, Shaped(q)
  PROVE  /\ Shaped(Next1(q)) /\ Held(Next1(q)) \subseteq Held(q)
         /\ Next1(q).todo \subseteq q.todo /\ Next1(q).pc \in {"idle", "loop"}
<1>1. CASE q.kind \in {"pending", "retryable"}
  <2>1. Next1(q) = [pc |-> "loop", kind |-> q.kind, id |-> "none", row |-> NoNote,
                    act |-> "none", todo |-> q.todo]
    BY <1>1 DEF Next1, Idle
  <2>2. Held(Next1(q)) = {x.id : x \in q.todo}
    BY <2>1 DEF Held
  <2>3. Next1(q) \in WorkerType
    BY <1>1, <2>1, IdleFacts DEF Shaped, WorkerType
  <2>4. \A a \in q.todo : a.id # "none"
    BY NoneAssumption DEF Shaped, WorkerType
  <2> QED
    BY <2>1, <2>2, <2>3, <2>4 DEF Shaped, Handling, Held
<1>2. CASE q.kind \notin {"pending", "retryable"}
  BY <1>2, IdleFacts DEF Next1
<1> QED
  BY <1>1, <1>2

LEMMA NewRow ==
  ASSUME NEW a \in Action \cup {"none"}
  PROVE  New(a) \in RowType /\ New(a).status = "PENDING" /\ New(a).retry = 0
BY DEF New, NoNote, RowType, NotificationMoves

(* Storing another status keeps a row a row.                               *)
LEMMA StatusTyped ==
  ASSUME NEW r \in RowType, NEW t \in DOMAIN NotificationMoves
  PROVE  /\ [r EXCEPT !.status = t] \in RowType
         /\ [r EXCEPT !.status = t].status = t
         /\ [r EXCEPT !.status = t].retry = r.retry
BY DEF RowType

LEMMA Moves ==
  /\ DOMAIN NotificationMoves = {"PENDING", "SENT", "FAILED", "DELIVERED", "EXPIRED"}
  /\ \A t \in DOMAIN NotificationMoves :
       /\ "SENT" \in NotificationMoves[t] <=> t = "PENDING"
       /\ "EXPIRED" \in NotificationMoves[t] <=> t = "PENDING"
BY DEF NotificationMoves

LEMMA FailedRow ==
  ASSUME NEW r \in RowType, NEW n
  PROVE  /\ MarkFailed(r, n) \in RowType
         /\ MarkFailed(r, n).status \in {"EXPIRED", "FAILED"}
         /\ MarkFailed(r, n).status = "FAILED" => MarkFailed(r, n).retry = r.retry + 1
<1>1. CASE Expired(n)
  <2>1. MarkFailed(r, n) = [r EXCEPT !.status = "EXPIRED"]
    BY <1>1 DEF MarkFailed
  <2>2. "EXPIRED" \in DOMAIN NotificationMoves
    BY Moves
  <2>3. [r EXCEPT !.status = "EXPIRED"] \in RowType /\ [r EXCEPT !.status = "EXPIRED"].status = "EXPIRED"
    BY <2>2, StatusTyped
  <2> QED
    BY <2>1, <2>3
<1>2. CASE ~ Expired(n)
  <2>1. MarkFailed(r, n) = [r EXCEPT !.status = "FAILED", !.retry = @ + 1]
    BY <1>2 DEF MarkFailed
  <2>2. "FAILED" \in DOMAIN NotificationMoves
    BY Moves
  <2>3. MarkFailed(r, n) = [status |-> "FAILED", action |-> r.action, retry |-> r.retry + 1]
    BY <2>1 DEF RowType
  <2> QED
    BY <2>2, <2>3 DEF RowType
<1> QED
  BY <1>1, <1>2

LEMMA ExpiredRow ==
  ASSUME NEW r \in RowType, r.status # "NONE"
  PROVE  /\ MarkExpired(r) \in RowType /\ MarkExpired(r).status # "NONE"
         /\ MarkExpired(r).retry = r.retry
         /\ r.status # "PENDING" => MarkExpired(r) = r
         /\ r.status = "PENDING" => MarkExpired(r).status = "EXPIRED"
         /\ MarkExpired(r).status = "SENT" => r.status = "SENT"
<1>1. r.status \in DOMAIN NotificationMoves
  BY DEF RowType
<1>2. CASE r.status = "PENDING"
  <2>1. MarkExpired(r) = [r EXCEPT !.status = "EXPIRED"]
    BY <1>1, <1>2, Moves DEF MarkExpired, MayMove
  <2>2. "EXPIRED" \in DOMAIN NotificationMoves
    BY Moves
  <2>3. /\ [r EXCEPT !.status = "EXPIRED"] \in RowType
        /\ [r EXCEPT !.status = "EXPIRED"].status = "EXPIRED"
        /\ [r EXCEPT !.status = "EXPIRED"].retry = r.retry
    BY <2>2, StatusTyped
  <2> QED
    BY <1>2, <2>1, <2>3
<1>3. CASE r.status # "PENDING"
  BY <1>1, <1>3, Moves DEF MarkExpired, MayMove
<1> QED
  BY <1>2, <1>3

-----------------------------------------------------------------------------
(* A worker goes from work[w] to q; of the tables it changes at most the   *)
(* row it has in hand, which becomes r, sent k times.                      *)

StepOf(w, q) ==
  /\ work' = [work EXCEPT ![w] = q]
  /\ Held(q) \subseteq Held(work[w]) /\ q.todo \subseteq work[w].todo
  /\ \A n \in Notification : n # work[w].id => notes'[n] = notes[n] /\ sends'[n] = sends[n]
  /\ crowded' = crowded /\ overdue' = overdue /\ failures' >= failures

LEMMA StepKeepsHeld ==
  ASSUME SendingInv, NEW w \in Worker, NEW q, Shaped(q), StepOf(w, q), TablesOK',
         work[w].id \in Notification => notes'[work[w].id].status # "NONE"
  PROVE  WorkersOK' /\ HeldInv' /\ StatusInv'
<1>1. WorkersOK'
  BY DEF SendingInv, WorkersOK, StepOf, Shaped
<1>2. \A v \in Worker : work'[v] = IF v = w THEN q ELSE work[v]
  BY DEF SendingInv, WorkersOK, StepOf
<1>3. \A v \in Worker : Held(work'[v]) \subseteq Held(work[v])
  BY <1>2 DEF StepOf
<1>4. \A n \in Notification : Exists(n) => Exists(n)'
  BY DEF Exists, StepOf, NoNote
<1>5. \A v \in Worker : Held(work[v]) \subseteq Notification
  BY DEF SendingInv, WorkersOK, WorkerType, Held
<1>6. HeldInv'
  BY <1>3, <1>4, <1>5 DEF SendingInv, HeldInv, StepOf
<1>7. StatusInv'
  BY DEF SendingInv, StatusInv, StepOf
<1> QED
  BY <1>1, <1>6, <1>7

(* Another worker's copy of a row that only it handles is not touched.     *)
LEMMA StepKeepsCopies ==
  ASSUME SendingInv, NEW w \in Worker, NEW q, Shaped(q), StepOf(w, q), TablesOK',
         CopySays(q)',
         NEW r, NEW k, q.pc \in Handling => r = notes'[q.id] /\ k = sends'[q.id],
         q.pc \in Handling /\ q.id \notin crowded => CopyOK(q, r, k)
  PROVE  CopyInv'
<1>1. \A v \in Worker : work'[v] = IF v = w THEN q ELSE work[v]
  BY DEF SendingInv, WorkersOK, StepOf
<1>2. ASSUME NEW v \in Worker, v # w, NEW n \in Held(work[v]), n \notin crowded
      PROVE  n \in Notification /\ notes'[n] = notes[n] /\ sends'[n] = sends[n]
  <2>1. n \in Notification
    BY DEF SendingInv, WorkersOK, WorkerType, Held
  <2>2. n # work[w].id
    BY <1>2, <2>1, NoneAssumption DEF SendingInv, HeldInv, Held
  <2> QED
    BY <2>1, <2>2 DEF StepOf
<1>3. ASSUME NEW v \in Worker, v # w
      PROVE  /\ CopySays(work[v])'
             /\ work[v].pc \in Handling /\ work[v].id \notin crowded =>
                  notes'[work[v].id] = notes[work[v].id] /\ sends'[work[v].id] = sends[work[v].id]
             /\ \A a \in work[v].todo : a.id \notin crowded => a.row = notes'[a.id]
  <2>1. work'[v] = work[v]
    BY <1>1, <1>3
  <2>2. CopySays(work[v])
    BY DEF SendingInv, CopyInv
  <2>3. CopySays(work[v])'
    BY <2>1, <2>2 DEF CopySays, StepOf, SendingInv, TablesOK
  <2>4. \A a \in work[v].todo : a.id \in Held(work[v])
    BY DEF Held
  <2>5. work[v].pc \in Handling => work[v].id \in Held(work[v])
    BY NoneAssumption DEF Held, SendingInv, WorkersOK, Shaped
  <2> QED
    BY <1>2, <1>3, <2>3, <2>4, <2>5 DEF SendingInv, CopyInv
<1>4. ASSUME NEW a \in q.todo, a.id \notin crowded
      PROVE  a.row = notes'[a.id]
  <2>1. a \in work[w].todo /\ a.id \in Notification
    BY DEF StepOf, SendingInv, WorkersOK, WorkerType
  <2>2. a.id # work[w].id
    BY <2>1 DEF SendingInv, WorkersOK, Shaped
  <2> QED
    BY <1>4, <2>1, <2>2 DEF StepOf, SendingInv, CopyInv
<1> QED
  BY <1>1, <1>3, <1>4 DEF SendingInv, CopyInv, StepOf

LEMMA StepKeepsRows ==
  ASSUME SendingInv, NEW w \in Worker, NEW q, StepOf(w, q),
         NEW r, NEW k, work[w].id \in Notification => r = notes'[work[w].id] /\ k = sends'[work[w].id],
         work[w].id \in Notification \ crowded => RowOK(r, k)
  PROVE  RowsInv'
<1> SUFFICES ASSUME NEW n \in Notification, n \notin crowded'
             PROVE  RowOK(notes'[n], sends'[n])
  BY DEF RowsInv
<1>1. CASE n = work[w].id
  BY <1>1 DEF StepOf
<1>2. CASE n # work[w].id
  BY <1>2 DEF StepOf, SendingInv, RowsInv
<1> QED
  BY <1>1, <1>2

(* The row in hand may become or stay SENT only if its worker goes on to   *)
(* settle it, or was not the one that settles it.                          *)
LEMMA StepKeepsSent ==
  ASSUME SendingInv, NEW w \in Worker, NEW q, StepOf(w, q), TablesOK',
         NEW r, work[w].id \in Notification => r = notes'[work[w].id],
         work[w].id \in Notification /\ r.status = "SENT" =>
           \/ q.id = work[w].id /\ q.pc \in {"send", "settle"}
           \/ failures' > 0
           \/ work[w].id \in crowded \cap overdue
           \/ notes[work[w].id].status = "SENT" /\ work[w].pc \notin {"send", "settle"}
  PROVE  SentIsSettled'
<1>1. \A v \in Worker : work'[v] = IF v = w THEN q ELSE work[v]
  BY DEF SendingInv, WorkersOK, StepOf
<1> SUFFICES ASSUME NEW n \in Notification, notes'[n].status = "SENT"
             PROVE  \/ \E v \in Worker : work'[v].id = n /\ work'[v].pc \in {"send", "settle"}
                    \/ failures' > 0
                    \/ n \in crowded' \cap overdue'
  BY DEF SentIsSettled
<1>2. failures > 0 => failures' > 0
  BY DEF StepOf, SendingInv, TablesOK
<1>3. CASE n # work[w].id
  <2>1. notes[n].status = "SENT"
    BY <1>3 DEF StepOf
  <2>2. ASSUME NEW v \in Worker, work[v].id = n
        PROVE  work'[v] = work[v]
    BY <2>2, <1>1, <1>3
  <2> QED
    BY <2>1, <2>2, <1>2 DEF StepOf, SendingInv, SentIsSettled
<1>4. CASE n = work[w].id
  <2>1. CASE q.id = n /\ q.pc \in {"send", "settle"}
    BY <2>1, <1>1
  <2>2. CASE notes[n].status = "SENT" /\ work[w].pc \notin {"send", "settle"}
    <3>1. ASSUME NEW v \in Worker, work[v].pc \in {"send", "settle"}
          PROVE  work'[v] = work[v]
      BY <3>1, <2>2, <1>1
    <3> QED
      BY <2>2, <3>1, <1>2 DEF StepOf, SendingInv, SentIsSettled
  <2> QED
    BY <1>4, <2>1, <2>2 DEF StepOf
<1> QED
  BY <1>3, <1>4

(* A step that only changes what the worker knows.                         *)
LEMMA ReadKeeps ==
  ASSUME SendingInv, NEW w \in Worker, NEW q, Shaped(q), StepOf(w, q), TablesOK',
         notes' = notes, sends' = sends, CopySays(q)',
         q.pc \in Handling /\ q.id \notin crowded => CopyOK(q, notes[q.id], sends[q.id]),
         work[w].pc \in {"send", "settle"} => failures' > 0
  PROVE  SendingInv'
<1>1. work[w].id \in Notification => notes[work[w].id].status # "NONE"
  <2>1. work[w].id \in Notification => work[w].id \in Held(work[w])
    BY NoneAssumption DEF Held
  <2> QED
    BY <2>1 DEF SendingInv, HeldInv, StatusInv, Exists
<1>2. work[w].id \in Notification \ crowded => RowOK(notes[work[w].id], sends[work[w].id])
  BY DEF SendingInv, RowsInv
<1>3. PICK r, k : r = notes[work[w].id] /\ k = sends[work[w].id]
  OBVIOUS
<1>4. PICK x, j : x = notes[q.id] /\ j = sends[q.id]
  OBVIOUS
<1>5. WorkersOK' /\ HeldInv' /\ StatusInv'
  BY <1>1, StepKeepsHeld
<1>6. CopyInv'
  <2>1. q.pc \in Handling => x = notes'[q.id] /\ j = sends'[q.id]
    BY <1>4
  <2>2. q.pc \in Handling /\ q.id \notin crowded => CopyOK(q, x, j)
    BY <1>4
  <2> QED
    BY <2>1, <2>2, StepKeepsCopies
<1>7. RowsInv'
  BY <1>2, <1>3, StepKeepsRows
<1>8. SentIsSettled'
  BY <1>3, StepKeepsSent
<1> QED
  BY <1>5, <1>6, <1>7, <1>8 DEF SendingInv

(* A step on the row in hand.                                              *)
LEMMA WriteKeeps ==
  ASSUME SendingInv, NEW w \in Worker, NEW q, Shaped(q), StepOf(w, q), TablesOK',
         CopySays(q)', work[w].pc \in Handling,
         NEW r, NEW k, r = notes'[work[w].id], k = sends'[work[w].id], r.status # "NONE",
         q.pc \in Handling => q.id = work[w].id,
         work[w].id \notin crowded => RowOK(r, k) /\ (q.pc \in Handling => CopyOK(q, r, k)),
         r.status = "SENT" =>
           \/ q.id = work[w].id /\ q.pc \in {"send", "settle"}
           \/ failures' > 0
           \/ work[w].id \in crowded \cap overdue
           \/ notes[work[w].id].status = "SENT" /\ work[w].pc \notin {"send", "settle"}
  PROVE  SendingInv'
<1>1. work[w].id \in Notification
  BY DEF SendingInv, WorkersOK, Shaped
<1>2. WorkersOK' /\ HeldInv' /\ StatusInv'
  BY StepKeepsHeld
<1>3. CopyInv'
  BY StepKeepsCopies
<1>4. RowsInv'
  BY StepKeepsRows
<1>5. SentIsSettled'
  BY StepKeepsSent
<1> QED
  BY <1>2, <1>3, <1>4, <1>5 DEF SendingInv

(* What is known of the row in hand.                                       *)
InHand(q) ==
  /\ q = [pc |-> q.pc, kind |-> q.kind, id |-> q.id, row |-> q.row, act |-> q.act, todo |-> q.todo]
  /\ q \in WorkerType /\ q.id \in Notification /\ q.row \in RowType
  /\ notes[q.id] \in RowType /\ notes[q.id].status # "NONE" /\ Exists(q.id)
  /\ sends[q.id] \in Nat /\ CopySays(q)
  /\ q.id \notin crowded => /\ RowOK(notes[q.id], sends[q.id])
                            /\ CopyOK(q, notes[q.id], sends[q.id])

LEMMA HandFacts ==
  ASSUME SendingInv, NEW w \in Worker, work[w].pc \in Handling
  PROVE  InHand(work[w]) /\ Shaped(work[w])
<1>1. Shaped(work[w]) /\ work[w] \in WorkerType /\ work[w].id \in Notification
  BY DEF SendingInv, WorkersOK, Shaped
<1>2. work[w].id \in Held(work[w])
  BY <1>1, NoneAssumption DEF Held
<1>3. notes[work[w].id].status # "NONE" /\ Exists(work[w].id)
  BY <1>1, <1>2 DEF SendingInv, HeldInv, StatusInv, Exists
<1> QED
  BY <1>1, <1>3 DEF InHand, SendingInv, TablesOK, RowsInv, CopyInv, WorkerType

(* The worker goes on with the row in hand.                                *)
Moved(p, q, pc, row) == q = [p EXCEPT !.pc = pc, !.row = row]

LEMMA GoOn ==
  ASSUME SendingInv, NEW w \in Worker, work[w].pc \in Handling,
         NEW pc \in Handling, NEW row \in RowType,
         NEW q, Moved(work[w], q, pc, row)
  PROVE  /\ Shaped(q) /\ Held(q) = Held(work[w]) /\ q.todo = work[w].todo
         /\ q.pc = pc /\ q.row = row /\ q.id = work[w].id
<1>1. Shaped(work[w]) /\ work[w] \in WorkerType
  BY HandFacts DEF InHand
<1>2. /\ q = [pc |-> pc, kind |-> work[w].kind, id |-> work[w].id, row |-> row,
              act |-> work[w].act, todo |-> work[w].todo]
      /\ q \in WorkerType
  BY <1>1 DEF WorkerType, Moved
<1> QED
  BY <1>1, <1>2 DEF Shaped, Held

LEMMA SamePlace ==
  ASSUME SendingInv, NEW w \in Worker, work[w].pc \in Handling, NEW pc \in Handling,
         NEW q, q = [work[w] EXCEPT !.pc = pc]
  PROVE  Moved(work[w], q, pc, work[w].row) /\ work[w].row \in RowType
BY HandFacts DEF InHand, WorkerType, Moved

-----------------------------------------------------------------------------
(* Each step of a request or a sweep.                                      *)

LEMMA BusyWith ==
  ASSUME NEW pc \in {"dedupe", "insert"}, NEW a \in Action
  PROVE  /\ Shaped([Idle EXCEPT !.pc = pc, !.act = a])
         /\ Held([Idle EXCEPT !.pc = pc, !.act = a]) = {}
         /\ [Idle EXCEPT !.pc = pc, !.act = a].todo = {}
         /\ [Idle EXCEPT !.pc = pc, !.act = a].pc = pc
BY IdleFacts DEF Shaped, WorkerType, Handling, Idle, Held

LEMMA CreateFromActionKeeps ==
  ASSUME SendingInv, NEW w \in Worker, CreateFromAction(w)
  PROVE  SendingInv'
<1>1. PICK a \in Action :
        Goto(w, [Idle EXCEPT !.pc = IF DedupeKey[a] = "none" THEN "insert" ELSE "dedupe", !.act = a])
  BY DEF CreateFromAction
<1>2. PICK pc \in {"dedupe", "insert"} : pc = IF DedupeKey[a] = "none" THEN "insert" ELSE "dedupe"
  OBVIOUS
<1>3. PICK q : q = [Idle EXCEPT !.pc = pc, !.act = a]
  OBVIOUS
<1>4. Shaped(q) /\ Held(q) = {} /\ q.todo = {} /\ q.pc \in {"dedupe", "insert"}
  BY <1>3, BusyWith
<1>5. work' = [work EXCEPT ![w] = q] /\ work[w] = Idle
  BY <1>1, <1>2, <1>3 DEF Goto, CreateFromAction
<1>6. notes' = notes /\ sends' = sends /\ overdue' = overdue /\ crowded' = crowded /\ failures' = failures
  BY DEF CreateFromAction, rows, history
<1>7. TablesOK'
  BY BoundAssumption DEF CreateFromAction, rows, history, Begin, SendingInv, TablesOK
<1>8. StepOf(w, q) /\ CopySays(q)' /\ q.pc \notin Handling
  BY <1>4, <1>5, <1>6 DEF StepOf, CopySays, Handling, SendingInv, TablesOK
<1>9. work[w].pc = "idle"
  BY <1>5, IdleFacts
<1> QED
  BY <1>4, <1>6, <1>7, <1>8, <1>9, ReadKeeps

LEMMA CreateEscalationKeeps ==
  ASSUME SendingInv, NEW w \in Worker, CreateEscalation(w)
  PROVE  SendingInv'
<1>1. PICK a \in Action : Goto(w, [Idle EXCEPT !.pc = "insert", !.act = a])
  BY DEF CreateEscalation
<1>2. PICK q : q = [Idle EXCEPT !.pc = "insert", !.act = a]
  OBVIOUS
<1>3. Shaped(q) /\ Held(q) = {} /\ q.todo = {} /\ q.pc = "insert"
  BY <1>2, BusyWith
<1>4. work' = [work EXCEPT ![w] = q] /\ work[w] = Idle
  BY <1>1, <1>2 DEF Goto, CreateEscalation
<1>5. notes' = notes /\ sends' = sends /\ overdue' = overdue /\ crowded' = crowded /\ failures' = failures
  BY DEF CreateEscalation, rows, history
<1>6. TablesOK'
  BY BoundAssumption DEF CreateEscalation, rows, history, Begin, SendingInv, TablesOK
<1>7. StepOf(w, q) /\ CopySays(q)' /\ q.pc \notin Handling
  BY <1>3, <1>4, <1>5 DEF StepOf, CopySays, Handling, SendingInv, TablesOK
<1>8. work[w].pc = "idle"
  BY <1>4, IdleFacts
<1> QED
  BY <1>3, <1>5, <1>6, <1>7, <1>8, ReadKeeps

(* The worker returns.                                                     *)
LEMMA ReturnKeeps ==
  ASSUME SendingInv, NEW w \in Worker, Goto(w, Idle), TablesOK',
         notes' = notes, sends' = sends, overdue' = overdue, crowded' = crowded, failures' = failures,
         work[w].pc \notin {"send", "settle"}
  PROVE  SendingInv'
<1>1. PICK q : q = Idle
  OBVIOUS
<1>2. Shaped(q) /\ Held(q) = {} /\ q.todo = {} /\ q.pc = "idle"
  BY <1>1, IdleFacts
<1>3. StepOf(w, q) /\ CopySays(q)' /\ q.pc \notin Handling
  BY <1>1, <1>2 DEF Goto, StepOf, CopySays, Handling, SendingInv, TablesOK
<1> QED
  BY <1>2, <1>3, ReadKeeps

LEMMA FindByDedupeKeyKeeps ==
  ASSUME SendingInv, NEW w \in Worker, FindByDedupeKey(w)
  PROVE  SendingInv'
<1>1. work[w].pc = "dedupe" /\ (Goto(w, Idle) \/ Goto(w, [work[w] EXCEPT !.pc = "insert"]))
  BY DEF FindByDedupeKey, At
<1>2. notes' = notes /\ sends' = sends /\ overdue' = overdue /\ crowded' = crowded /\ failures' = failures
  BY DEF FindByDedupeKey, rows, history
<1>3. TablesOK'
  BY DEF FindByDedupeKey, rows, history, SendingInv, TablesOK
<1>4. CASE Goto(w, Idle)
  BY <1>1, <1>2, <1>3, <1>4, ReturnKeeps
<1>5. CASE Goto(w, [work[w] EXCEPT !.pc = "insert"])
  <2>1. PICK q : q = [work[w] EXCEPT !.pc = "insert"]
    OBVIOUS
  <2>2. work[w] \in WorkerType /\ Shaped(work[w])
    BY DEF SendingInv, WorkersOK
  <2>3. /\ q = [pc |-> "insert", kind |-> work[w].kind, id |-> work[w].id, row |-> work[w].row,
                act |-> work[w].act, todo |-> work[w].todo]
        /\ q \in WorkerType
    BY <2>1, <2>2 DEF WorkerType
  <2>4. Shaped(q) /\ Held(q) = Held(work[w]) /\ q.pc = "insert" /\ q.todo = work[w].todo
    BY <2>2, <2>3 DEF Shaped, Held, Handling
  <2>5. StepOf(w, q) /\ CopySays(q)' /\ q.pc \notin Handling
    BY <1>2, <1>5, <2>1, <2>4 DEF Goto, StepOf, CopySays, Handling, SendingInv, TablesOK
  <2> QED
    BY <1>1, <1>2, <1>3, <2>4, <2>5, ReadKeeps
<1> QED
  BY <1>1, <1>4, <1>5

(* A new row takes an id nobody holds.                                     *)
LEMMA InsertKeeps ==
  ASSUME SendingInv, NEW w \in Worker, Insert(w)
  PROVE  SendingInv'
<1>1. PICK n \in Notification : ~ Exists(n) /\ notes' = [notes EXCEPT ![n] = New(work[w].act)]
  BY DEF Insert
<1>2. work[w].pc = "insert" /\ work' = [work EXCEPT ![w] = Idle]
  BY DEF Insert, At, Goto
<1>3. sends' = sends /\ overdue' = overdue /\ crowded' = crowded /\ failures' = failures
  BY DEF Insert, history
<1>4. work[w].act \in Action \cup {"none"} /\ work \in [Worker -> WorkerType]
  BY DEF SendingInv, WorkersOK, WorkerType
<1>5. PICK r : r = New(work[w].act)
  OBVIOUS
<1>6. r \in RowType /\ r.status = "PENDING" /\ r.retry = 0
  BY <1>4, <1>5, NewRow
<1>7. notes' = [notes EXCEPT ![n] = r] /\ notes \in [Notification -> RowType]
  BY <1>1, <1>5 DEF SendingInv, TablesOK
<1>8. TablesOK'
  BY <1>6, <1>7 DEF Insert, history, SendingInv, TablesOK
<1>9. \A v \in Worker : work'[v] = IF v = w THEN Idle ELSE work[v]
  BY <1>2, <1>4
<1>10. \A v \in Worker : n \notin Held(work[v])
  BY <1>1 DEF SendingInv, HeldInv
<1>11. \A v \in Worker : Held(work[v]) \subseteq Notification
  BY DEF SendingInv, WorkersOK, WorkerType, Held
<1>12. WorkersOK'
  BY <1>2, <1>9, IdleFacts DEF SendingInv, WorkersOK, Shaped
<1>13. \A m \in Notification : Exists(m) => Exists(m)'
  BY <1>6, <1>7 DEF Exists, NoNote
<1>14. \A v \in Worker : Held(work'[v]) \subseteq Held(work[v])
  BY <1>9, IdleFacts
<1>15. HeldInv'
  BY <1>3, <1>11, <1>13, <1>14 DEF SendingInv, HeldInv
<1>16. StatusInv'
  BY <1>6, <1>7 DEF SendingInv, StatusInv
<1>17. RowsInv'
  <2>1. n \notin crowded => sends[n] = 0
    BY <1>1 DEF SendingInv, RowsInv, RowOK, Exists, NoNote
  <2>2. n \notin crowded => RowOK(r, sends[n])
    BY <1>6, <2>1, RetriesAssumption DEF RowOK
  <2> QED
    BY <1>3, <1>7, <2>2 DEF SendingInv, RowsInv
<1>18. CopyInv'
  <2>1. ASSUME NEW v \in Worker, v # w
        PROVE  /\ CopySays(work[v])'
               /\ work[v].pc \in Handling /\ work[v].id \notin crowded =>
                    CopyOK(work[v], notes'[work[v].id], sends'[work[v].id])
               /\ \A a \in work[v].todo : a.id \notin crowded => a.row = notes'[a.id]
    <3>1. CopySays(work[v])'
      BY <1>3, <1>9, <2>1 DEF CopySays, SendingInv, CopyInv
    <3>2. \A a \in work[v].todo : a.id \in Notification /\ a.id # n
      BY <1>10, <1>11 DEF Held
    <3>3. work[v].pc \in Handling => work[v].id \in Notification /\ work[v].id # n
      BY <1>10, <1>11, NoneAssumption DEF Held, SendingInv, WorkersOK, Shaped
    <3> QED
      BY <1>3, <1>7, <3>1, <3>2, <3>3 DEF SendingInv, CopyInv
  <2>2. CopySays(Idle)' /\ Idle.pc \notin Handling /\ Idle.todo = {}
    BY IdleFacts DEF CopySays, Handling
  <2> QED
    BY <1>3, <1>9, <2>1, <2>2 DEF SendingInv, CopyInv, CopySays
<1>19. SentIsSettled'
  BY <1>2, <1>3, <1>6, <1>7, <1>9 DEF SendingInv, SentIsSettled
<1> QED
  BY <1>8, <1>12, <1>15, <1>16, <1>17, <1>18, <1>19 DEF SendingInv

(* A call that takes rows up: what another holds of them becomes crowded.  *)
LEMMA BeginKeeps ==
  ASSUME SendingInv, NEW w \in Worker, work[w] = Idle, TablesOK',
         NEW q, Shaped(q), Goto(w, q), Crowding(w, Held(q)), q.pc \in {"read", "loop"},
         \A n \in Held(q) : Exists(n), \A a \in q.todo : a.row = notes[a.id],
         notes' = notes, sends' = sends, overdue' = overdue, failures' = failures
  PROVE  SendingInv'
<1>1. \A v \in Worker : work'[v] = IF v = w THEN q ELSE work[v]
  BY DEF SendingInv, WorkersOK, Goto
<1>2. crowded \subseteq crowded'
  BY DEF Crowding
<1>3. WorkersOK'
  BY <1>1 DEF SendingInv, WorkersOK, Goto, Shaped
<1>4. HeldInv'
  <2>1. \A n : Exists(n) <=> Exists(n)'
    BY DEF Exists
  <2>2. \A v \in Worker : v # w => Held(q) \cap Held(work[v]) \subseteq crowded'
    BY DEF Crowding
  <2>3. \A v \in Worker : \A n \in Held(work'[v]) : Exists(n)'
    BY <1>1, <2>1 DEF SendingInv, HeldInv
  <2>4. \A u, v \in Worker : u # v => Held(work'[u]) \cap Held(work'[v]) \subseteq crowded'
    <3> SUFFICES ASSUME NEW u \in Worker, NEW v \in Worker, u # v
                 PROVE  Held(work'[u]) \cap Held(work'[v]) \subseteq crowded'
      OBVIOUS
    <3>1. CASE u = w
      BY <3>1, <1>1, <2>2
    <3>2. CASE v = w
      BY <3>2, <1>1, <2>2
    <3>3. CASE u # w /\ v # w
      BY <3>3, <1>1, <1>2 DEF SendingInv, HeldInv
    <3> QED
      BY <3>1, <3>2, <3>3
  <2> QED
    BY <2>3, <2>4 DEF HeldInv
<1>5. RowsInv' /\ StatusInv'
  BY <1>2 DEF SendingInv, RowsInv, StatusInv
<1>6. CopyInv'
  <2>1. ASSUME NEW v \in Worker, v # w
        PROVE  /\ CopySays(work[v])'
               /\ work[v].pc \in Handling /\ work[v].id \notin crowded' =>
                    CopyOK(work[v], notes[work[v].id], sends[work[v].id])
               /\ \A a \in work[v].todo : a.id \notin crowded' => a.row = notes[a.id]
    <3>1. CopySays(work[v])'
      BY <1>1, <1>2, <2>1 DEF CopySays, SendingInv, CopyInv
    <3> QED
      BY <1>2, <3>1 DEF SendingInv, CopyInv
  <2>2. CopySays(q)' /\ \A r, k : CopyOK(q, r, k)
    BY DEF CopySays, CopyOK
  <2> QED
    BY <1>1, <2>1, <2>2 DEF CopyInv, CopySays
<1>7. SentIsSettled'
  <2>1. Idle.pc \notin {"send", "settle"}
    BY IdleFacts
  <2>2. ASSUME NEW v \in Worker, work[v].pc \in {"send", "settle"}
        PROVE  work'[v] = work[v]
    BY <2>1, <2>2, <1>1
  <2> QED
    BY <2>2, <1>2 DEF SendingInv, SentIsSettled
<1> QED
  BY <1>3, <1>4, <1>5, <1>6, <1>7 DEF SendingInv

LEMMA SendOneKeeps ==
  ASSUME SendingInv, NEW w \in Worker, SendOne(w)
  PROVE  SendingInv'
<1>1. PICK n \in Notification :
        Exists(n) /\ Goto(w, [Idle EXCEPT !.pc = "read", !.kind = "one", !.id = n]) /\ Crowding(w, {n})
  BY DEF SendOne
<1>2. PICK q : q = [Idle EXCEPT !.pc = "read", !.kind = "one", !.id = n]
  OBVIOUS
<1>3. /\ q = [pc |-> "read", kind |-> "one", id |-> n, row |-> NoNote, act |-> "none", todo |-> {}]
      /\ q \in WorkerType
  BY <1>2, IdleFacts DEF Idle, WorkerType, Handling
<1>4. Shaped(q) /\ Held(q) = {n} /\ q.pc = "read" /\ q.todo = {}
  BY <1>3, NoneAssumption DEF Shaped, Held
<1>5. notes' = notes /\ sends' = sends /\ overdue' = overdue /\ failures' = failures /\ work[w] = Idle
  BY DEF SendOne, rows
<1>6. crowded' \subseteq Notification
  BY <1>1 DEF Crowding, SendingInv, TablesOK
<1>7. TablesOK'
  BY <1>6, BoundAssumption DEF SendOne, rows, Begin, SendingInv, TablesOK
<1> QED
  BY <1>1, <1>2, <1>4, <1>5, <1>7, BeginKeeps

LEMMA SweepKeeps ==
  ASSUME SendingInv, NEW w \in Worker, NEW kind \in {"pending", "retryable"},
         NEW ids \in SUBSET Notification, \A n \in ids : notes[n].status # "NONE",
         Sweep(w, kind, ids)
  PROVE  SendingInv'
<1> DEFINE listed == {[id |-> n, row |-> notes[n]] : n \in ids}
<1>1. PICK q : q = [Idle EXCEPT !.pc = "loop", !.kind = kind, !.todo = listed]
  OBVIOUS
<1>2. listed \subseteq [id: Notification, row: RowType]
  BY DEF SendingInv, TablesOK
<1>3. q = [pc |-> "loop", kind |-> kind, id |-> "none", row |-> NoNote, act |-> "none", todo |-> listed]
  BY <1>1 DEF Idle
<1>4. q \in WorkerType
  BY <1>2, <1>3, IdleFacts DEF WorkerType
<1>5. \A a \in listed : a.id \in ids /\ a.row = notes[a.id] /\ a = [id |-> a.id, row |-> notes[a.id]]
  OBVIOUS
<1>6. q.pc = "loop" /\ q.todo = listed /\ q.id = "none"
  BY <1>3
<1>7. Held(q) = ids
  <2>1. ASSUME NEW n \in ids
        PROVE  \E a \in listed : a.id = n
    <3>1. [id |-> n, row |-> notes[n]] \in listed
      OBVIOUS
    <3> QED
      BY <3>1
  <2>2. {a.id : a \in listed} = ids
    BY <1>5, <2>1
  <2>3. Held(q) = {a.id : a \in listed}
    BY <1>6 DEF Held
  <2> QED
    BY <2>2, <2>3
<1>8. Shaped(q)
  BY <1>4, <1>5, <1>6, NoneAssumption DEF Shaped, Handling
<1>9. notes' = notes /\ sends' = sends /\ overdue' = overdue /\ failures' = failures /\ work[w] = Idle
  BY DEF Sweep, rows
<1>10. Goto(w, q) /\ Crowding(w, Held(q))
  BY <1>1, <1>7 DEF Sweep
<1>11. crowded' \subseteq Notification
  BY <1>7, <1>10 DEF Crowding, SendingInv, TablesOK
<1>12. TablesOK'
  BY <1>11, BoundAssumption DEF Sweep, rows, Begin, SendingInv, TablesOK
<1>13. \A n \in Held(q) : Exists(n)
  BY <1>7 DEF Exists, NoNote
<1>14. \A a \in q.todo : a.row = notes[a.id]
  BY <1>5, <1>6
<1> QED
  BY <1>6, <1>8, <1>9, <1>10, <1>12, <1>13, <1>14, BeginKeeps

LEMMA ProcessKeeps ==
  ASSUME SendingInv, NEW w \in Worker, ProcessPending(w) \/ ProcessRetryable(w)
  PROVE  SendingInv'
<1>1. CASE ProcessPending(w)
  BY <1>1, SweepKeeps DEF ProcessPending
<1>2. CASE ProcessRetryable(w)
  BY <1>2, SweepKeeps DEF ProcessRetryable, CanRetry
<1> QED
  BY <1>1, <1>2

LEMMA TakeRowKeeps ==
  ASSUME SendingInv, NEW w \in Worker, TakeRow(w)
  PROVE  SendingInv'
<1>1. notes' = notes /\ sends' = sends /\ overdue' = overdue /\ crowded' = crowded /\ failures' = failures
  BY DEF TakeRow, rows, history
<1>2. TablesOK' /\ work[w].pc = "loop"
  BY DEF TakeRow, At, rows, history, SendingInv, TablesOK
<1>3. CASE work[w].todo = {}
  <2>1. Goto(w, Idle)
    BY <1>3 DEF TakeRow
  <2> QED
    BY <1>1, <1>2, <2>1, ReturnKeeps
<1>4. CASE work[w].todo # {}
  <2>1. PICK x \in work[w].todo :
          Goto(w, [work[w] EXCEPT !.todo = @ \ {x}, !.id = x.id,
                                  !.row = [x.row EXCEPT !.status = "PENDING"],
                                  !.pc = IF work[w].kind = "pending" THEN "read"
                                         ELSE IF CanRetry(x.row, x.id) THEN "reset" ELSE "loop"])
    BY <1>4, Zenon DEF TakeRow
  <2>2. PICK row : row = [x.row EXCEPT !.status = "PENDING"]
    OBVIOUS
  <2>3. PICK pc : pc = IF work[w].kind = "pending" THEN "read"
                       ELSE IF CanRetry(x.row, x.id) THEN "reset" ELSE "loop"
    OBVIOUS
  <2>4. PICK q : q = [work[w] EXCEPT !.todo = @ \ {x}, !.id = x.id, !.row = row, !.pc = pc]
    OBVIOUS
  <2>5. Goto(w, q)
    BY <2>1, <2>2, <2>3, <2>4
  <2>6. work[w] \in WorkerType /\ Shaped(work[w])
    BY DEF SendingInv, WorkersOK
  <2>7. x.id \in Notification /\ x.row \in RowType
    BY <2>6 DEF WorkerType
  <2>8. row \in RowType /\ row.status = "PENDING" /\ pc \in {"read", "reset", "loop"}
    <3>1. "PENDING" \in DOMAIN NotificationMoves
      BY Moves
    <3> QED
      BY <2>2, <2>3, <2>7, <3>1, StatusTyped
  <2>9. /\ q = [pc |-> pc, kind |-> work[w].kind, id |-> x.id, row |-> row, act |-> work[w].act,
                todo |-> work[w].todo \ {x}]
        /\ q \in WorkerType
    BY <2>4, <2>6, <2>7, <2>8 DEF WorkerType, Handling
  <2>10. Shaped(q)
    BY <2>6, <2>7, <2>9 DEF Shaped
  <2>11. Held(q) \subseteq Held(work[w]) /\ q.todo \subseteq work[w].todo
    BY <2>9, NoneAssumption DEF Held
  <2>12. StepOf(w, q)
    BY <1>1, <2>5, <2>11 DEF StepOf, Goto, SendingInv, TablesOK
  <2>13. q.pc \in {"read", "reset", "loop"} /\ q.row = row /\ q.pc = pc /\ q.id = x.id
    BY <2>8, <2>9
  <2>14. CopySays(q)'
    BY <2>8, <2>13 DEF CopySays
  <2>15. q.id \notin crowded => CopyOK(q, notes[q.id], sends[q.id])
    <3>1. q.id \notin crowded => x.row = notes[q.id]
      BY <2>13 DEF SendingInv, CopyInv
    <3>2. pc = "reset" => x.row.status = "FAILED" /\ x.row.retry < MaxRetries
      BY <2>3 DEF CanRetry
    <3> QED
      BY <2>2, <2>13, <3>1, <3>2 DEF CopyOK
  <2> QED
    BY <1>1, <1>2, <2>10, <2>12, <2>14, <2>15, ReadKeeps
<1> QED
  BY <1>3, <1>4

(* SaveReset, SaveExpired, SaveSent and SaveOutcome store the copy.        *)
LEMMA StoredRow ==
  ASSUME SendingInv, NEW w \in Worker, work[w].pc \in Handling, WriteRow(w, work[w].row),
         sends' = sends, attempts' = attempts, overdue' = overdue, crowded' = crowded,
         rejected' = rejected, resent' = resent, calls' = calls, failures' = failures
  PROVE  /\ TablesOK'
         /\ notes'[work[w].id] = work[w].row
         /\ \A n \in Notification : n # work[w].id => notes'[n] = notes[n] /\ sends'[n] = sends[n]
<1>1. InHand(work[w])
  BY HandFacts
<1> QED
  BY <1>1 DEF InHand, WriteRow, SendingInv, TablesOK

LEMMA SaveResetKeeps ==
  ASSUME SendingInv, NEW w \in Worker, SaveReset(w)
  PROVE  SendingInv'
<1>1. /\ work[w].pc = "reset" /\ WriteRow(w, work[w].row)
      /\ work' = [work EXCEPT ![w] = [work[w] EXCEPT !.pc = "read"]]
      /\ sends' = sends /\ attempts' = attempts /\ overdue' = overdue /\ crowded' = crowded
      /\ rejected' = rejected /\ resent' = resent /\ calls' = calls /\ failures' = failures
  BY DEF SaveReset, At, Goto, history
<1>2. work[w].pc \in Handling /\ "read" \in Handling
  BY <1>1 DEF Handling
<1>3. PICK q : q = [work[w] EXCEPT !.pc = "read"]
  OBVIOUS
<1>4. InHand(work[w]) /\ work[w].row \in RowType
  BY <1>2, HandFacts DEF InHand
<1>5. Moved(work[w], q, "read", work[w].row)
  BY <1>2, <1>3, SamePlace
<1>6. /\ Shaped(q) /\ Held(q) = Held(work[w]) /\ q.pc = "read" /\ q.id = work[w].id
      /\ q.todo = work[w].todo
  BY <1>2, <1>4, <1>5, GoOn
<1>7. PICK r, k : r = work[w].row /\ k = sends[work[w].id]
  OBVIOUS
<1>8. /\ TablesOK' /\ notes'[work[w].id] = r /\ sends'[work[w].id] = k
      /\ \A n \in Notification : n # work[w].id => notes'[n] = notes[n] /\ sends'[n] = sends[n]
  BY <1>1, <1>2, <1>7, StoredRow
<1>9. StepOf(w, q) /\ CopySays(q)'
  BY <1>1, <1>3, <1>6, <1>8 DEF StepOf, CopySays, SendingInv, TablesOK
<1>10. r.status = "PENDING"
  BY <1>1, <1>4, <1>7 DEF InHand, CopySays
<1>11. work[w].id \notin crowded => RowOK(r, k) /\ CopyOK(q, r, k)
  <2>1. CopyOK(q, r, k)
    BY <1>6 DEF CopyOK
  <2>2. work[w].id \notin crowded => r.retry = notes[work[w].id].retry /\ r.retry < MaxRetries /\ k <= r.retry
    BY <1>1, <1>4, <1>7 DEF InHand, CopyOK, RowOK, RowType
  <2> QED
    BY <1>4, <1>7, <1>10, <2>1, <2>2, RetriesAssumption DEF RowOK, InHand, RowType
<1> QED
  BY <1>2, <1>6, <1>8, <1>9, <1>10, <1>11, WriteKeeps

LEMMA ReadNoteKeeps ==
  ASSUME SendingInv, NEW w \in Worker, ReadNote(w)
  PROVE  SendingInv'
<1>1. /\ work[w].pc = "read" /\ notes' = notes /\ sends' = sends /\ overdue' = overdue
      /\ crowded' = crowded /\ failures' = failures
  BY DEF ReadNote, At, rows, history
<1>2. TablesOK'
  BY DEF ReadNote, rows, history, SendingInv, TablesOK
<1>3. work[w].pc \in Handling /\ "expire" \in Handling /\ "sent" \in Handling
  BY <1>1 DEF Handling
<1>4. InHand(work[w]) /\ Shaped(work[w])
  BY <1>3, HandFacts
<1>5. PICK r : r = notes[work[w].id]
  OBVIOUS
<1>6. r \in RowType /\ r.status # "NONE"
  BY <1>4, <1>5 DEF InHand
<1>7. CASE Expired(work[w].id)
  <2>1. PICK row : row = MarkExpired(r)
    OBVIOUS
  <2>2. PICK q : q = [work[w] EXCEPT !.pc = "expire", !.row = row]
    OBVIOUS
  <2>10. Moved(work[w], q, "expire", row)
    BY <2>2 DEF Moved
  <2>3. work' = [work EXCEPT ![w] = q]
    BY <1>5, <1>7, <2>1, <2>2 DEF ReadNote, Goto
  <2>4. row \in RowType /\ row.status # "NONE" /\ (row.status = "SENT" => r.status = "SENT")
    BY <1>6, <2>1, ExpiredRow
  <2>5. /\ Shaped(q) /\ Held(q) = Held(work[w]) /\ q.pc = "expire" /\ q.id = work[w].id
        /\ q.todo = work[w].todo /\ q.row = row
    BY <1>3, <2>10, <2>4, GoOn
  <2>6. StepOf(w, q)
    BY <1>1, <2>3, <2>5 DEF StepOf, SendingInv, TablesOK
  <2>7. r.status = "SENT" => failures > 0 \/ work[w].id \in crowded
    <3> SUFFICES ASSUME r.status = "SENT", ~ (failures > 0)
                 PROVE  work[w].id \in crowded
      OBVIOUS
    <3>1. work[w].id \in Notification
      BY <1>4 DEF InHand
    <3>2. CASE work[w].id \in crowded \cap overdue
      BY <3>2
    <3>3. CASE \E v \in Worker : work[v].id = work[w].id /\ work[v].pc \in {"send", "settle"}
      <4>1. PICK v \in Worker : work[v].id = work[w].id /\ work[v].pc \in {"send", "settle"}
        BY <3>3
      <4>2. v # w
        BY <4>1, <1>1
      <4>3. work[w].id \in Held(work[v]) \cap Held(work[w])
        BY <3>1, <4>1, NoneAssumption DEF Held
      <4> QED
        BY <4>2, <4>3 DEF SendingInv, HeldInv
    <3> QED
      BY <1>5, <3>1, <3>2, <3>3 DEF SendingInv, SentIsSettled
  <2>8. CopySays(q)'
    BY <1>1, <1>7, <2>4, <2>5, <2>7 DEF CopySays, Expired
  <2>9. CopyOK(q, notes[q.id], sends[q.id])
    BY <1>5, <2>1, <2>5 DEF CopyOK
  <2> QED
    BY <1>1, <1>2, <2>5, <2>6, <2>8, <2>9, ReadKeeps
<1>8. CASE ~ Expired(work[w].id) /\ MayMove(r, "SENT")
  <2>1. PICK row : row = [r EXCEPT !.status = "SENT"]
    OBVIOUS
  <2>2. PICK q : q = [work[w] EXCEPT !.pc = "sent", !.row = row]
    OBVIOUS
  <2>10. Moved(work[w], q, "sent", row)
    BY <2>2 DEF Moved
  <2>3. work' = [work EXCEPT ![w] = q]
    BY <1>5, <1>8, <2>1, <2>2 DEF ReadNote, Goto
  <2>4. row \in RowType /\ row.status = "SENT"
    <3>1. "SENT" \in DOMAIN NotificationMoves
      BY Moves
    <3> QED
      BY <1>6, <2>1, <3>1, StatusTyped
  <2>5. r.status = "PENDING"
    BY <1>6, <1>8, Moves DEF MayMove, RowType
  <2>6. /\ Shaped(q) /\ Held(q) = Held(work[w]) /\ q.pc = "sent" /\ q.id = work[w].id
        /\ q.todo = work[w].todo /\ q.row = row
    BY <1>3, <2>10, <2>4, GoOn
  <2>7. StepOf(w, q) /\ CopySays(q)'
    BY <1>1, <2>3, <2>4, <2>6 DEF StepOf, CopySays, SendingInv, TablesOK
  <2>8. CopyOK(q, notes[q.id], sends[q.id])
    BY <1>5, <2>1, <2>5, <2>6 DEF CopyOK
  <2> QED
    BY <1>1, <1>2, <2>6, <2>7, <2>8, ReadKeeps
<1>9. CASE ~ Expired(work[w].id) /\ ~ MayMove(r, "SENT")
  <2>1. PICK q : q = Next1(work[w])
    OBVIOUS
  <2>2. work' = [work EXCEPT ![w] = q]
    BY <1>5, <1>9, <2>1 DEF ReadNote, Goto
  <2>3. /\ Shaped(q) /\ Held(q) \subseteq Held(work[w]) /\ q.todo \subseteq work[w].todo
        /\ q.pc \in {"idle", "loop"}
    BY <1>4, <2>1, NextFacts
  <2>4. StepOf(w, q) /\ CopySays(q)' /\ q.pc \notin Handling
    BY <1>1, <2>2, <2>3 DEF StepOf, CopySays, Handling, SendingInv, TablesOK
  <2> QED
    BY <1>1, <1>2, <2>3, <2>4, ReadKeeps
<1> QED
  BY <1>7, <1>8, <1>9

LEMMA SaveExpiredKeeps ==
  ASSUME SendingInv, NEW w \in Worker, SaveExpired(w)
  PROVE  SendingInv'
<1>1. /\ work[w].pc = "expire" /\ WriteRow(w, work[w].row)
      /\ work' = [work EXCEPT ![w] = Next1(work[w])]
      /\ sends' = sends /\ attempts' = attempts /\ overdue' = overdue /\ crowded' = crowded
      /\ rejected' = rejected /\ resent' = resent /\ calls' = calls /\ failures' = failures
  BY DEF SaveExpired, At, Goto, history
<1>2. work[w].pc \in Handling
  BY <1>1 DEF Handling
<1>3. PICK q : q = Next1(work[w])
  OBVIOUS
<1>4. InHand(work[w]) /\ Shaped(work[w])
  BY <1>2, HandFacts
<1>5. /\ Shaped(q) /\ Held(q) \subseteq Held(work[w]) /\ q.todo \subseteq work[w].todo
      /\ q.pc \notin Handling /\ q.pc \in {"idle", "loop"}
  BY <1>3, <1>4, NextFacts DEF Handling
<1>6. PICK r, k : r = work[w].row /\ k = sends[work[w].id]
  OBVIOUS
<1>7. /\ TablesOK' /\ notes'[work[w].id] = r /\ sends'[work[w].id] = k
      /\ \A n \in Notification : n # work[w].id => notes'[n] = notes[n] /\ sends'[n] = sends[n]
  BY <1>1, <1>2, <1>6, StoredRow
<1>8. StepOf(w, q) /\ CopySays(q)'
  BY <1>1, <1>3, <1>5, <1>7 DEF StepOf, CopySays, SendingInv, TablesOK
<1>9. r.status # "NONE" /\ (r.status = "SENT" => failures' > 0 \/ work[w].id \in crowded \cap overdue)
  BY <1>1, <1>4, <1>6 DEF InHand, CopySays
<1>10. work[w].id \notin crowded => RowOK(r, k)
  <2> SUFFICES ASSUME work[w].id \notin crowded PROVE RowOK(r, k)
    OBVIOUS
  <2>1. PICK old : old = notes[work[w].id]
    OBVIOUS
  <2>2. r = MarkExpired(old) /\ RowOK(old, k) /\ old \in RowType /\ old.status # "NONE"
    BY <1>1, <1>4, <1>6, <2>1 DEF InHand, CopyOK
  <2>3. CASE old.status = "PENDING"
    BY <1>9, <2>2, <2>3, ExpiredRow DEF RowOK
  <2>4. CASE old.status # "PENDING"
    BY <2>2, <2>4, ExpiredRow
  <2> QED
    BY <2>3, <2>4
<1> QED
  BY <1>2, <1>5, <1>7, <1>8, <1>9, <1>10, WriteKeeps

LEMMA SaveSentKeeps ==
  ASSUME SendingInv, NEW w \in Worker, SaveSent(w)
  PROVE  SendingInv'
<1>1. /\ work[w].pc = "sent" /\ WriteRow(w, work[w].row)
      /\ work' = [work EXCEPT ![w] = [work[w] EXCEPT !.pc = "send"]]
      /\ sends' = sends /\ attempts' = attempts /\ overdue' = overdue /\ crowded' = crowded
      /\ rejected' = rejected /\ resent' = resent /\ calls' = calls /\ failures' = failures
  BY DEF SaveSent, At, Goto, history
<1>2. work[w].pc \in Handling /\ "send" \in Handling
  BY <1>1 DEF Handling
<1>3. PICK q : q = [work[w] EXCEPT !.pc = "send"]
  OBVIOUS
<1>4. InHand(work[w])
  BY <1>2, HandFacts
<1>5. Moved(work[w], q, "send", work[w].row) /\ work[w].row \in RowType
  BY <1>2, <1>3, SamePlace
<1>6. /\ Shaped(q) /\ Held(q) = Held(work[w]) /\ q.pc = "send" /\ q.id = work[w].id
      /\ q.todo = work[w].todo /\ q.row = work[w].row
  BY <1>2, <1>5, GoOn
<1>7. PICK r, k : r = work[w].row /\ k = sends[work[w].id]
  OBVIOUS
<1>8. /\ TablesOK' /\ notes'[work[w].id] = r /\ sends'[work[w].id] = k
      /\ \A n \in Notification : n # work[w].id => notes'[n] = notes[n] /\ sends'[n] = sends[n]
  BY <1>1, <1>2, <1>7, StoredRow
<1>9. r.status = "SENT"
  BY <1>1, <1>4, <1>7 DEF InHand, CopySays
<1>10. StepOf(w, q) /\ CopySays(q)'
  BY <1>1, <1>3, <1>6, <1>7, <1>8, <1>9 DEF StepOf, CopySays, SendingInv, TablesOK
<1>11. work[w].id \notin crowded => RowOK(r, k) /\ CopyOK(q, r, k)
  <2> SUFFICES ASSUME work[w].id \notin crowded PROVE RowOK(r, k) /\ CopyOK(q, r, k)
    OBVIOUS
  <2>1. PICK old : old = notes[work[w].id]
    OBVIOUS
  <2>2. /\ old.status = "PENDING" /\ r = [old EXCEPT !.status = "SENT"] /\ RowOK(old, k)
        /\ old \in RowType
    BY <1>1, <1>4, <1>7, <2>1 DEF InHand, CopyOK
  <2>3. r.retry = old.retry
    BY <2>2 DEF RowType
  <2> QED
    BY <1>6, <1>7, <1>9, <2>2, <2>3 DEF RowOK, CopyOK
<1> QED
  BY <1>2, <1>6, <1>8, <1>9, <1>10, <1>11, WriteKeeps

(* The sending: the row stays, the copy takes the outcome.                 *)
LEMMA OutKeeps ==
  ASSUME SendingInv, NEW w \in Worker, At(w, "send"), NEW ok, NEW reached, Out(w, ok, reached),
         rejected' \subseteq Notification
  PROVE  SendingInv'
<1>1. work[w].pc = "send" /\ work[w].pc \in Handling /\ "settle" \in Handling
  BY DEF At, Handling
<1>2. InHand(work[w]) /\ work[w].id \in Notification
  BY <1>1, HandFacts DEF InHand
<1>3. PICK row : row = IF ok THEN MarkDelivered(work[w].row) ELSE MarkFailed(work[w].row, work[w].id)
  OBVIOUS
<1>4. /\ row \in RowType /\ row.status \in {"DELIVERED", "EXPIRED", "FAILED"}
      /\ row.status = "FAILED" => row.retry = work[w].row.retry + 1
  <2>1. work[w].row \in RowType
    BY <1>2 DEF InHand
  <2>2. CASE ok
    <3>1. "DELIVERED" \in DOMAIN NotificationMoves
      BY Moves
    <3>2. row = [work[w].row EXCEPT !.status = "DELIVERED"]
      BY <1>3, <2>2 DEF MarkDelivered
    <3> QED
      BY <2>1, <3>1, <3>2, StatusTyped
  <2>3. CASE ~ ok
    BY <1>3, <2>1, <2>3, FailedRow
  <2> QED
    BY <2>2, <2>3
<1>5. PICK q : q = [work[w] EXCEPT !.pc = "settle", !.row = row]
  OBVIOUS
<1>6. /\ work' = [work EXCEPT ![w] = q]
      /\ notes' = notes /\ overdue' = overdue /\ attempts' = attempts /\ crowded' = crowded
      /\ calls' = calls /\ failures' = failures
  BY <1>3, <1>5 DEF Out, Goto, rows
<1>7. Moved(work[w], q, "settle", row)
  BY <1>5 DEF Moved
<1>8. /\ Shaped(q) /\ Held(q) = Held(work[w]) /\ q.pc = "settle" /\ q.id = work[w].id
      /\ q.todo = work[w].todo /\ q.row = row
  BY <1>1, <1>4, <1>7, GoOn
<1>9. PICK r, k : r = notes[work[w].id] /\ k = sends'[work[w].id]
  OBVIOUS
<1>10. /\ sends' \in [Notification -> Nat] /\ k \in {sends[work[w].id], sends[work[w].id] + 1}
       /\ \A n \in Notification : n # work[w].id => sends'[n] = sends[n]
  BY <1>2, <1>9 DEF Out, SendingInv, TablesOK
<1>11. resent' \subseteq Notification
  BY <1>2 DEF Out, SendingInv, TablesOK
<1>12. TablesOK'
  BY <1>6, <1>10, <1>11 DEF SendingInv, TablesOK
<1>13. StepOf(w, q) /\ CopySays(q)'
  BY <1>4, <1>6, <1>8, <1>10 DEF StepOf, CopySays, SendingInv, TablesOK
<1>14. work[w].id \notin crowded => RowOK(r, k) /\ CopyOK(q, r, k)
  <2> SUFFICES ASSUME work[w].id \notin crowded PROVE RowOK(r, k) /\ CopyOK(q, r, k)
    OBVIOUS
  <2>1. /\ r.status = "SENT" /\ work[w].row = r /\ r.retry < MaxRetries /\ r.retry \in Nat
        /\ sends[work[w].id] <= r.retry /\ sends[work[w].id] \in Nat
    BY <1>1, <1>2, <1>9 DEF InHand, CopyOK, RowType
  <2>2. k <= r.retry + 1 /\ k <= MaxRetries
    BY <1>10, <2>1, RetriesAssumption
  <2> QED
    BY <1>4, <1>8, <2>1, <2>2 DEF RowOK, CopyOK
<1>15. r = notes'[work[w].id] /\ r.status # "NONE"
  BY <1>2, <1>6, <1>9 DEF InHand
<1> QED
  BY <1>1, <1>8, <1>9, <1>12, <1>13, <1>14, <1>15, WriteKeeps

LEMMA SendKeeps ==
  ASSUME SendingInv, NEW w \in Worker, SendViaSSE(w) \/ SendViaWebhook(w) \/ SendUnsupported(w)
  PROVE  SendingInv'
<1>1. rejected \subseteq Notification
  BY DEF SendingInv, TablesOK
<1>2. CASE SendViaSSE(w)
  BY <1>1, <1>2, OutKeeps DEF SendViaSSE
<1>3. CASE SendViaWebhook(w)
  <2>1. work[w].id \in Notification
    BY <1>3, HandFacts DEF SendViaWebhook, At, Handling, InHand
  <2>2. PICK answer \in {"2xx", "4xx", "5xx", "lost"} :
          /\ Out(w, answer = "2xx", answer # "lost")
          /\ rejected' = IF answer = "4xx" THEN rejected \cup {work[w].id} ELSE rejected
    BY <1>3 DEF SendViaWebhook
  <2>3. PICK ok : ok = (answer = "2xx")
    OBVIOUS
  <2>4. PICK reached : reached = (answer # "lost")
    OBVIOUS
  <2>5. Out(w, ok, reached)
    BY <2>2, <2>3, <2>4
  <2>6. rejected' \subseteq Notification
    BY <1>1, <2>1, <2>2
  <2> QED
    BY <1>3, <2>5, <2>6, OutKeeps DEF SendViaWebhook
<1>4. CASE SendUnsupported(w)
  BY <1>1, <1>4, OutKeeps DEF SendUnsupported
<1> QED
  BY <1>2, <1>3, <1>4

LEMMA SaveOutcomeKeeps ==
  ASSUME SendingInv, NEW w \in Worker, SaveOutcome(w)
  PROVE  SendingInv'
<1>1. /\ work[w].pc = "settle" /\ WriteRow(w, work[w].row)
      /\ work' = [work EXCEPT ![w] = [work[w] EXCEPT !.pc = "attempt"]]
      /\ sends' = sends /\ attempts' = attempts /\ overdue' = overdue /\ crowded' = crowded
      /\ rejected' = rejected /\ resent' = resent /\ calls' = calls /\ failures' = failures
  BY DEF SaveOutcome, At, Goto, history
<1>2. work[w].pc \in Handling /\ "attempt" \in Handling
  BY <1>1 DEF Handling
<1>3. PICK q : q = [work[w] EXCEPT !.pc = "attempt"]
  OBVIOUS
<1>4. InHand(work[w])
  BY <1>2, HandFacts
<1>5. Moved(work[w], q, "attempt", work[w].row) /\ work[w].row \in RowType
  BY <1>2, <1>3, SamePlace
<1>6. /\ Shaped(q) /\ Held(q) = Held(work[w]) /\ q.pc = "attempt" /\ q.id = work[w].id
      /\ q.todo = work[w].todo
  BY <1>2, <1>5, GoOn
<1>7. PICK r, k : r = work[w].row /\ k = sends[work[w].id]
  OBVIOUS
<1>8. /\ TablesOK' /\ notes'[work[w].id] = r /\ sends'[work[w].id] = k
      /\ \A n \in Notification : n # work[w].id => notes'[n] = notes[n] /\ sends'[n] = sends[n]
  BY <1>1, <1>2, <1>7, StoredRow
<1>9. r.status \in {"DELIVERED", "EXPIRED", "FAILED"}
  BY <1>1, <1>4, <1>7 DEF InHand, CopySays
<1>10. StepOf(w, q) /\ CopySays(q)'
  BY <1>1, <1>3, <1>6, <1>8 DEF StepOf, CopySays, SendingInv, TablesOK
<1>11. work[w].id \notin crowded => RowOK(r, k) /\ CopyOK(q, r, k)
  <2> SUFFICES ASSUME work[w].id \notin crowded PROVE RowOK(r, k) /\ CopyOK(q, r, k)
    OBVIOUS
  <2>1. PICK old : old = notes[work[w].id]
    OBVIOUS
  <2>2. /\ k <= old.retry + 1 /\ old.retry < MaxRetries /\ old.retry \in Nat /\ k \in Nat
        /\ r.status = "FAILED" => r.retry = old.retry + 1
    BY <1>1, <1>4, <1>7, <2>1 DEF InHand, CopyOK, RowType
  <2> QED
    BY <1>6, <1>9, <2>2, RetriesAssumption DEF RowOK, CopyOK
<1> QED
  BY <1>2, <1>6, <1>8, <1>9, <1>10, <1>11, WriteKeeps

LEMMA RecordAttemptKeeps ==
  ASSUME SendingInv, NEW w \in Worker, RecordAttempt(w)
  PROVE  SendingInv'
<1>1. /\ work[w].pc \in Handling /\ work[w].pc \notin {"send", "settle"}
      /\ work' = [work EXCEPT ![w] = Next1(work[w])]
      /\ attempts' = [attempts EXCEPT ![work[w].id] = @ + 1]
      /\ notes' = notes /\ sends' = sends /\ overdue' = overdue /\ crowded' = crowded
      /\ failures' = failures /\ calls' = calls /\ rejected' = rejected /\ resent' = resent
  BY DEF RecordAttempt, Handling, Goto, history
<1>2. InHand(work[w]) /\ Shaped(work[w]) /\ work[w].id \in Notification
  BY <1>1, HandFacts DEF InHand
<1>3. TablesOK'
  BY <1>1, <1>2 DEF SendingInv, TablesOK
<1>4. PICK q : q = Next1(work[w])
  OBVIOUS
<1>5. /\ Shaped(q) /\ Held(q) \subseteq Held(work[w]) /\ q.todo \subseteq work[w].todo
      /\ q.pc \in {"idle", "loop"}
  BY <1>2, <1>4, NextFacts
<1>6. StepOf(w, q) /\ CopySays(q)' /\ q.pc \notin Handling
  BY <1>1, <1>4, <1>5 DEF StepOf, CopySays, Handling, SendingInv, TablesOK
<1> QED
  BY <1>1, <1>3, <1>5, <1>6, ReadKeeps

(* A failed statement: the row stays as it was.                            *)
LEMMA FailsKeeps ==
  ASSUME SendingInv, NEW w \in Worker, Fails(w)
  PROVE  SendingInv'
<1>1. /\ work[w].pc \notin {"idle", "loop", "send"}
      /\ notes' = notes /\ sends' = sends /\ overdue' = overdue /\ crowded' = crowded
      /\ failures' = failures + 1 /\ failures < MaxFailures
  BY DEF Fails, rows, history
<1>2. TablesOK'
  BY <1>1, BoundAssumption DEF Fails, rows, history, SendingInv, TablesOK
<1>3. failures' > 0 /\ failures' >= failures
  BY <1>1, BoundAssumption DEF SendingInv, TablesOK
<1>4. ASSUME NEW pc \in {"attempt", "dlq"}, work[w].pc \in {"settle", "attempt"},
             Goto(w, [work[w] EXCEPT !.pc = pc])
      PROVE  SendingInv'
  <2>1. work[w].pc \in Handling /\ pc \in Handling
    BY <1>4 DEF Handling
  <2>2. PICK q : q = [work[w] EXCEPT !.pc = pc]
    OBVIOUS
  <2>3. Moved(work[w], q, pc, work[w].row) /\ work[w].row \in RowType
    BY <2>1, <2>2, SamePlace
  <2>4. /\ Shaped(q) /\ Held(q) = Held(work[w]) /\ q.pc = pc /\ q.id = work[w].id
        /\ q.todo = work[w].todo
    BY <2>1, <2>3, GoOn
  <2>5. StepOf(w, q) /\ CopySays(q)' /\ CopyOK(q, notes[q.id], sends[q.id])
    BY <1>1, <1>3, <1>4, <2>2, <2>4 DEF StepOf, CopySays, CopyOK, Goto
  <2> QED
    BY <1>1, <1>2, <1>3, <2>4, <2>5, ReadKeeps
<1>5. CASE Goto(w, Next1(work[w]))
  <2>1. PICK q : q = Next1(work[w])
    OBVIOUS
  <2>2. Shaped(work[w])
    BY DEF SendingInv, WorkersOK
  <2>3. /\ Shaped(q) /\ Held(q) \subseteq Held(work[w]) /\ q.todo \subseteq work[w].todo
        /\ q.pc \in {"idle", "loop"}
    BY <2>1, <2>2, NextFacts
  <2>4. StepOf(w, q) /\ CopySays(q)' /\ q.pc \notin Handling
    BY <1>1, <1>3, <1>5, <2>1, <2>3 DEF StepOf, CopySays, Handling, Goto
  <2> QED
    BY <1>1, <1>2, <1>3, <2>3, <2>4, ReadKeeps
<1>6. CASE work[w].pc = "settle"
  <2>1. Goto(w, [work[w] EXCEPT !.pc = "attempt"])
    BY <1>6 DEF Fails
  <2> QED
    BY <1>4, <1>6, <2>1
<1>7. CASE work[w].pc = "attempt"
  <2>1. Goto(w, [work[w] EXCEPT !.pc = "dlq"])
    BY <1>7 DEF Fails
  <2> QED
    BY <1>4, <1>7, <2>1
<1>8. CASE work[w].pc \notin {"settle", "attempt"}
  <2>1. Goto(w, Next1(work[w]))
    BY <1>8 DEF Fails
  <2> QED
    BY <1>5, <2>1
<1> QED
  BY <1>6, <1>7, <1>8

(* ExpireNotifications goes past the workers: what one holds is crowded.   *)
LEMMA ExpireNotificationsKeeps ==
  ASSUME SendingInv, ExpireNotifications
  PROVE  SendingInv'
<1> DEFINE due == {n \in overdue : notes[n].status \notin {"NONE", "DELIVERED", "EXPIRED"}}
<1>1. /\ notes' = [n \in Notification |->
           IF n \in due THEN [notes[n] EXCEPT !.status = "EXPIRED"] ELSE notes[n]]
      /\ crowded' = crowded \cup (due \cap UNION {Held(work[w]) : w \in Worker})
      /\ overdue' = overdue /\ work' = work /\ sends' = sends /\ failures' = failures
  BY DEF ExpireNotifications
<1>2. due \subseteq Notification /\ notes \in [Notification -> RowType]
  BY DEF SendingInv, TablesOK
<1>3. crowded \subseteq crowded' /\ crowded' \subseteq Notification
  BY <1>1, <1>2 DEF SendingInv, TablesOK
<1>4. \A n \in due : notes'[n] \in RowType /\ notes'[n].status = "EXPIRED"
  <2>1. "EXPIRED" \in DOMAIN NotificationMoves
    BY Moves
  <2>2. ASSUME NEW n \in due
        PROVE  notes'[n] \in RowType /\ notes'[n].status = "EXPIRED"
    <3>1. PICK r \in RowType : r = notes[n]
      BY <1>2
    <3>2. notes'[n] = [r EXCEPT !.status = "EXPIRED"]
      BY <1>1, <1>2, <3>1
    <3> QED
      BY <2>1, <3>2, StatusTyped
  <2> QED
    BY <2>2
<1>5. \A n \in Notification \ due : notes'[n] = notes[n]
  BY <1>1
<1>6. \A w \in Worker : \A n \in Held(work[w]) : n \notin crowded' => n \notin due
  BY <1>1
<1> HIDE DEF due
<1>7. notes' \in [Notification -> RowType]
  <2>1. \A n \in Notification : notes'[n] \in RowType
    BY <1>2, <1>4, <1>5
  <2> QED
    BY <1>1, <2>1
<1>8. TablesOK'
  BY <1>3, <1>7, BoundAssumption DEF ExpireNotifications, Begin, SendingInv, TablesOK
<1>9. WorkersOK'
  BY <1>1 DEF SendingInv, WorkersOK, Shaped
<1>10. HeldInv'
  <2>1. \A n \in Notification : Exists(n) => Exists(n)'
    BY <1>4, <1>5 DEF Exists, NoNote
  <2>2. \A w \in Worker : Held(work[w]) \subseteq Notification
    BY DEF SendingInv, WorkersOK, WorkerType, Held
  <2> QED
    BY <1>1, <1>3, <2>1, <2>2 DEF SendingInv, HeldInv
<1>11. RowsInv'
  <2> SUFFICES ASSUME NEW n \in Notification, n \notin crowded'
               PROVE  RowOK(notes'[n], sends[n])
    BY <1>1 DEF RowsInv
  <2>1. RowOK(notes[n], sends[n])
    BY <1>3 DEF SendingInv, RowsInv
  <2>2. CASE n \in due
    BY <2>1, <2>2, <1>4 DEF RowOK
  <2>3. CASE n \notin due
    BY <2>1, <2>3, <1>5
  <2> QED
    BY <2>2, <2>3
<1>12. CopyInv'
  <2> SUFFICES ASSUME NEW w \in Worker
               PROVE  /\ CopySays(work[w])'
                      /\ work[w].pc \in Handling /\ work[w].id \notin crowded' =>
                           CopyOK(work[w], notes'[work[w].id], sends[work[w].id])
                      /\ \A a \in work[w].todo : a.id \notin crowded' => a.row = notes'[a.id]
    BY <1>1 DEF CopyInv
  <2>1. CopySays(work[w])'
    BY <1>1, <1>3 DEF CopySays, SendingInv, CopyInv
  <2>2. \A a \in work[w].todo : a.id \in Held(work[w]) /\ a.id \in Notification
    BY DEF Held, SendingInv, WorkersOK, WorkerType
  <2>3. work[w].pc \in Handling => work[w].id \in Held(work[w]) /\ work[w].id \in Notification
    BY NoneAssumption DEF Held, SendingInv, WorkersOK, Shaped
  <2> QED
    BY <1>3, <1>5, <1>6, <2>1, <2>2, <2>3 DEF SendingInv, CopyInv
<1>13. StatusInv'
  BY <1>4, <1>5 DEF SendingInv, StatusInv
<1>14. SentIsSettled'
  BY <1>1, <1>3, <1>4, <1>5 DEF SendingInv, SentIsSettled
<1> QED
  BY <1>8, <1>9, <1>10, <1>11, <1>12, <1>13, <1>14 DEF SendingInv

LEMMA ExpireKeeps ==
  ASSUME SendingInv, NEW n \in Notification, Expire(n)
  PROVE  SendingInv'
<1>1. /\ overdue' = overdue \cup {n} /\ notes' = notes /\ attempts' = attempts /\ work' = work
      /\ calls' = calls /\ failures' = failures /\ sends' = sends /\ rejected' = rejected
      /\ resent' = resent /\ crowded' = crowded
  BY DEF Expire, history
<1>2. TablesOK' /\ WorkersOK' /\ StatusInv' /\ RowsInv'
  BY <1>1 DEF SendingInv, TablesOK, WorkersOK, Shaped, StatusInv, RowsInv
<1>3. HeldInv'
  BY <1>1 DEF SendingInv, HeldInv, Exists
<1>4. CopyInv'
  BY <1>1 DEF SendingInv, CopyInv, CopySays
<1>5. SentIsSettled'
  BY <1>1 DEF SendingInv, SentIsSettled
<1> QED
  BY <1>2, <1>3, <1>4, <1>5 DEF SendingInv

LEMMA CrashKeepsSending ==
  ASSUME SendingInv, Crash
  PROVE  SendingInv'
<1>1. /\ work' = [w \in Worker |-> Idle] /\ failures' = failures + 1 /\ failures < MaxFailures
      /\ overdue' = overdue /\ notes' = notes /\ attempts' = attempts /\ calls' = calls
      /\ sends' = sends /\ rejected' = rejected /\ resent' = resent /\ crowded' = crowded
  BY DEF Crash, rows, history
<1>2. TablesOK' /\ failures' > 0
  BY <1>1, BoundAssumption DEF SendingInv, TablesOK
<1>3. \A w \in Worker : work'[w] = Idle
  BY <1>1
<1>4. WorkersOK' /\ HeldInv'
  BY <1>1, <1>3, IdleFacts DEF WorkersOK, HeldInv, Shaped
<1>5. RowsInv' /\ StatusInv'
  BY <1>1 DEF SendingInv, RowsInv, StatusInv
<1>6. CopyInv'
  <2>1. CopySays(Idle)' /\ Idle.pc \notin Handling /\ Idle.todo = {}
    BY IdleFacts DEF CopySays, Handling
  <2> QED
    BY <1>3, <2>1 DEF CopyInv, CopySays
<1>7. SentIsSettled'
  BY <1>2 DEF SentIsSettled
<1> QED
  BY <1>2, <1>4, <1>5, <1>6, <1>7 DEF SendingInv

LEMMA IdleSteps ==
  ASSUME SendingInv, UNCHANGED <<rows, work, calls, failures, history>>
  PROVE  SendingInv'
<1>1. /\ notes' = notes /\ overdue' = overdue /\ attempts' = attempts /\ work' = work
      /\ calls' = calls /\ failures' = failures /\ sends' = sends /\ rejected' = rejected
      /\ resent' = resent /\ crowded' = crowded
  BY DEF rows, history
<1>2. TablesOK' /\ WorkersOK' /\ StatusInv' /\ RowsInv'
  BY <1>1 DEF SendingInv, TablesOK, WorkersOK, Shaped, StatusInv, RowsInv
<1>3. HeldInv'
  BY <1>1 DEF SendingInv, HeldInv, Exists
<1>4. CopyInv'
  BY <1>1 DEF SendingInv, CopyInv, CopySays
<1>5. SentIsSettled'
  BY <1>1 DEF SendingInv, SentIsSettled
<1> QED
  BY <1>2, <1>3, <1>4, <1>5 DEF SendingInv

LEMMA SendingStarts == Init => SendingInv
<1> SUFFICES ASSUME Init PROVE SendingInv
  OBVIOUS
<1>1. /\ \A n \in Notification : notes[n] = NoNote /\ sends[n] = 0
      /\ \A w \in Worker : work[w] = Idle
  BY DEF Init
<1>2. TablesOK
  BY IdleFacts, BoundAssumption DEF Init, TablesOK
<1>3. WorkersOK /\ HeldInv
  BY <1>1, IdleFacts DEF Init, WorkersOK, HeldInv, Shaped
<1>4. RowsInv /\ StatusInv
  <2>1. NoNote.status = "NONE"
    BY DEF NoNote
  <2> QED
    BY <1>1, <2>1, RetriesAssumption DEF RowsInv, StatusInv, RowOK
<1>5. CopyInv
  <2>1. CopySays(Idle) /\ Idle.pc \notin Handling /\ Idle.todo = {}
    BY IdleFacts DEF CopySays, Handling
  <2> QED
    BY <1>1, <2>1 DEF CopyInv, CopySays
<1>6. SentIsSettled
  BY <1>1 DEF SentIsSettled, NoNote
<1> QED
  BY <1>2, <1>3, <1>4, <1>5, <1>6 DEF SendingInv

LEMMA NextKeepsSending ==
  ASSUME SendingInv, [Next]_vars
  PROVE  SendingInv'
<1>1. ASSUME NEW w \in Worker, Proceed(w)
      PROVE  SendingInv'
  BY <1>1, FindByDedupeKeyKeeps, InsertKeeps, TakeRowKeeps, SaveResetKeeps, ReadNoteKeeps,
     SaveExpiredKeeps, SaveSentKeeps, SendKeeps, SaveOutcomeKeeps, RecordAttemptKeeps DEF Proceed
<1>2. CASE \E w \in Worker :
             \/ CreateFromAction(w) \/ CreateEscalation(w) \/ SendOne(w)
             \/ ProcessPending(w) \/ ProcessRetryable(w) \/ Proceed(w) \/ Fails(w)
  BY <1>1, <1>2, CreateFromActionKeeps, CreateEscalationKeeps, SendOneKeeps, ProcessKeeps, FailsKeeps
<1>3. CASE ExpireNotifications
  BY <1>3, ExpireNotificationsKeeps
<1>4. CASE \E n \in Notification : Expire(n)
  BY <1>4, ExpireKeeps
<1>5. CASE Crash
  BY <1>5, CrashKeepsSending
<1>6. CASE Hub
  BY <1>6, IdleSteps DEF Hub
<1>7. CASE UNCHANGED vars
  BY <1>7, IdleSteps DEF vars
<1> QED
  BY <1>2, <1>3, <1>4, <1>5, <1>6, <1>7 DEF Next

(* A worker leaves the hub alone, unless it broadcasts.                    *)
LEMMA HubRests ==
  ASSUME HubInv, UNCHANGED hub
  PROVE  HubInv'
BY DEF HubInv, hub, ServedUntilGone, Registered, Served

LEMMA WorkersLeaveHub ==
  ASSUME SendingInv, HubInv, NEW w \in Worker,
         \/ CreateFromAction(w) \/ CreateEscalation(w) \/ SendOne(w)
         \/ ProcessPending(w) \/ ProcessRetryable(w) \/ Proceed(w) \/ Fails(w)
  PROVE  HubInv'
<1>1. CASE SendViaSSE(w)
  <2>1. work[w].id \in Notification
    BY <1>1, HandFacts DEF SendViaSSE, At, Handling, InHand
  <2>2. PICK n \in Notification : n = work[w].id
    BY <2>1
  <2>3. PICK t : t = TargetOf[work[w].row.action]
    OBVIOUS
  <2>4. Broadcast(n, t)
    BY <1>1, <2>2, <2>3 DEF SendViaSSE
  <2> QED
    BY <2>4, BroadcastKeeps
<1>2. CASE UNCHANGED hub
  BY <1>2, HubRests
<1>3. SendViaSSE(w) \/ UNCHANGED hub
  BY DEF CreateFromAction, CreateEscalation, SendOne, ProcessPending, ProcessRetryable, Sweep,
         Fails, Proceed, FindByDedupeKey, Insert, TakeRow, SaveReset, ReadNote, SaveExpired,
         SaveSent, SendViaWebhook, SendUnsupported, SaveOutcome, RecordAttempt
<1> QED
  BY <1>1, <1>2, <1>3

LEMMA NextKeepsHub ==
  ASSUME SendingInv, HubInv, [Next]_vars
  PROVE  HubInv'
<1>1. CASE ExpireNotifications \/ (\E n \in Notification : Expire(n)) \/ UNCHANGED vars
  BY <1>1, HubRests DEF ExpireNotifications, Expire, vars
<1> QED
  BY <1>1, WorkersLeaveHub, CrashKeepsHub, HubStepKeeps DEF Next

-----------------------------------------------------------------------------
(* Safety.                                                                 *)

(* Whatever the order of connections, broadcasts, sweeps, requests, failed  *)
(* statements and crashes: DeliveryInv, the inductive invariant.            *)
THEOREM DeliverySafety == Spec => []DeliveryInv
<1>1. Init => DeliveryInv
  BY HubStarts, SendingStarts DEF Init, DeliveryInv
<1>2. DeliveryInv /\ [Next]_vars => DeliveryInv'
  BY NextKeepsHub, NextKeepsSending DEF DeliveryInv
<1> QED
  BY <1>1, <1>2, PTL DEF Spec

(* Rows, copies, connections and channels are well formed.                 *)
THEOREM DeliveryTypeCorrect == Spec => []TypeOK
<1>1. DeliveryInv => TypeOK
  <2> SUFFICES ASSUME DeliveryInv PROVE TypeOK
    OBVIOUS
  <2>1. HubTypeOK
    BY DEF DeliveryInv, HubInv, HubTypeOK
  <2>2. \A w \in Worker : /\ work[w].row \in RowType
                          /\ work[w].id \in Notification \cup {"none"}
                          /\ work[w].todo \subseteq [id: Notification, row: RowType]
    BY DEF DeliveryInv, SendingInv, WorkersOK, WorkerType
  <2> QED
    BY <2>1, <2>2 DEF DeliveryInv, SendingInv, TablesOK, TypeOK
<1> QED
  BY <1>1, DeliverySafety, PTL

(* Clients of the hub: no broadcast goes to a closed channel, and nobody    *)
(* is cut off unless its client id was taken over or the hub stopped.       *)
THEOREM ClientsStayServed == Spec => []ClientsAreServed
<1>1. DeliveryInv => ClientsAreServed
  BY DEF DeliveryInv, HubInv, ClientsAreServed, RegisteredIsOpen
<1> QED
  BY <1>1, DeliverySafety, PTL

(* A notification goes out at most once per attempt counted, and at most    *)
(* MaxRetries times, through failed statements and crashes, as long as no   *)
(* two calls handle it at once.                                             *)
THEOREM SentOncePerAttempt == Spec => []OncePerAttempt
<1>1. DeliveryInv => OncePerAttempt
  BY DEF DeliveryInv, SendingInv, RowsInv, RowOK, OncePerAttempt
<1> QED
  BY <1>1, DeliverySafety, PTL

(* A row stored as SENT has a call under way that will settle it, unless a  *)
(* statement failed or the process crashed, or an expired copy of it was    *)
(* written over another call's outcome.                                     *)
THEOREM SentRowsAreSettled == Spec => []SentIsSettled
<1>1. DeliveryInv => SentIsSettled
  BY DEF DeliveryInv, SendingInv
<1> QED
  BY <1>1, DeliverySafety, PTL

-----------------------------------------------------------------------------
(* What no step takes back.                                                *)

Final(r) == r.status \in {"DELIVERED", "EXPIRED"}

LEMMA SavesKeepFinal ==
  ASSUME SendingInv, NEW w \in Worker,
         SaveReset(w) \/ SaveExpired(w) \/ SaveSent(w) \/ SaveOutcome(w),
         NEW n \in Notification, Final(notes[n]), n \notin crowded
  PROVE  notes'[n] = notes[n]
<1>1. /\ work[w].pc \in {"reset", "expire", "sent", "settle"} /\ work[w].pc \in Handling
      /\ notes' = [notes EXCEPT ![work[w].id] = work[w].row]
  BY DEF SaveReset, SaveExpired, SaveSent, SaveOutcome, At, WriteRow, Handling
<1>2. InHand(work[w])
  BY <1>1, HandFacts
<1>3. CASE work[w].id = n
  <2>1. PICK r : r = notes[n]
    OBVIOUS
  <2>2. CopyOK(work[w], r, sends[n]) /\ Final(r) /\ r \in RowType
    BY <1>2, <1>3, <2>1 DEF InHand
  <2>3. work[w].pc = "expire" /\ work[w].row = MarkExpired(r)
    BY <1>1, <2>2 DEF CopyOK, Final
  <2>4. work[w].row = r
    BY <2>2, <2>3, ExpiredRow DEF Final
  <2> QED
    BY <1>1, <1>3, <2>1, <2>4 DEF SendingInv, TablesOK
<1>4. CASE work[w].id # n
  BY <1>1, <1>4 DEF SendingInv, TablesOK
<1> QED
  BY <1>3, <1>4

LEMMA StepsKeepFinal ==
  ASSUME SendingInv, [Next]_vars,
         NEW n \in Notification, Final(notes[n]), n \notin crowded'
  PROVE  notes'[n] = notes[n]
<1>1. CASE notes' = notes
  BY <1>1
<1>2. ASSUME NEW w \in Worker, Insert(w)
      PROVE  notes'[n] = notes[n]
  <2>1. Exists(n)
    BY DEF Final, Exists, NoNote
  <2> QED
    BY <1>2, <2>1 DEF Insert, SendingInv, TablesOK
<1>3. ASSUME NEW w \in Worker, SaveReset(w) \/ SaveExpired(w) \/ SaveSent(w) \/ SaveOutcome(w)
      PROVE  notes'[n] = notes[n]
  <2>1. crowded' = crowded
    BY <1>3 DEF SaveReset, SaveExpired, SaveSent, SaveOutcome, history
  <2> QED
    BY <1>3, <2>1, SavesKeepFinal
<1>4. CASE ExpireNotifications
  BY <1>4 DEF ExpireNotifications, Final
<1>5. ASSUME NEW w \in Worker, Proceed(w)
      PROVE  notes'[n] = notes[n]
  <2>1. CASE SendViaSSE(w) \/ SendViaWebhook(w) \/ SendUnsupported(w)
    BY <2>1, <1>1 DEF SendViaSSE, SendViaWebhook, SendUnsupported, Out, rows
  <2>2. CASE FindByDedupeKey(w) \/ TakeRow(w) \/ ReadNote(w) \/ RecordAttempt(w)
    BY <2>2, <1>1 DEF FindByDedupeKey, TakeRow, ReadNote, RecordAttempt, rows
  <2> QED
    BY <1>2, <1>3, <1>5, <2>1, <2>2 DEF Proceed
<1>6. ASSUME NEW w \in Worker,
             \/ CreateFromAction(w) \/ CreateEscalation(w) \/ SendOne(w)
             \/ ProcessPending(w) \/ ProcessRetryable(w) \/ Fails(w)
      PROVE  notes'[n] = notes[n]
  BY <1>1, <1>6 DEF CreateFromAction, CreateEscalation, SendOne, ProcessPending, ProcessRetryable,
                    Sweep, Fails, rows
<1>7. CASE (\E m \in Notification : Expire(m)) \/ Crash \/ Hub \/ UNCHANGED vars
  BY <1>1, <1>7 DEF Expire, Crash, Hub, vars, rows
<1> QED
  BY <1>4, <1>5, <1>6, <1>7 DEF Next

(* DELIVERED and EXPIRED stay, as long as no two calls handle the           *)
(* notification at once.                                                    *)
THEOREM FinalRowsStay == Spec => FinalStays
<1>1. SendingInv /\ [Next]_vars =>
        [\A n \in Notification :
           notes[n].status \in {"DELIVERED", "EXPIRED"} /\ n \notin crowded' =>
             notes'[n] = notes[n]]_vars
  BY StepsKeepFinal DEF Final
<1>2. DeliveryInv => SendingInv
  BY DEF DeliveryInv
<1> QED
  BY <1>1, <1>2, DeliverySafety, PTL DEF Spec, FinalStays
=============================================================================
