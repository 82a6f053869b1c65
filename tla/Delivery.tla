----------------------------- MODULE Delivery -----------------------------
(***************************************************************************)
(* Notifications (application/notification) and their way to a webhook or  *)
(* through the hub of server-sent events.  Requests and sweeps run side by *)
(* side with no transaction: an action is one statement, or one call to    *)
(* the outside, with the computation around it.  A notification is read,   *)
(* changed in memory and written back as a whole row.                      *)
(***************************************************************************)
EXTENDS SSEHub, FiniteSets, Lifecycles

CONSTANTS
  Worker,        \* requests and sweeps that may be busy at the same time
  Notification,  \* ids of notifications
  Action,        \* the actions notifications are created for
  ChannelOf,     \* ChannelOf[a]: "SSE", "WEBHOOK" or a channel without a sender
  TargetOf,      \* TargetOf[a]: the user, the group or "all"
  DedupeKey,     \* DedupeKey[a]: key with channel and target, or "none"
  Expiring,      \* actions whose notifications have a time to live
  MaxRetries,    \* of a notification (3 in the code)
  MaxCalls,      \* bound: how many requests and sweeps begin
  MaxFailures    \* bound: how many statements fail or crashes happen

ASSUME BoundAssumption == {MaxCalls, MaxFailures} \subseteq Nat
ASSUME RetriesAssumption == MaxRetries \in Nat \ {0}
ASSUME NoneAssumption == "none" \notin Notification

VARIABLES
  notes,      \* table notifications
  overdue,    \* the notifications whose expires_at has passed
  attempts,   \* table notification_attempts: how many rows of each
  work,       \* what each worker is doing
  calls, failures,
  sends,      \* history: how often each notification reached its channel
  rejected,   \* history: notifications a webhook refused for good (4xx)
  resent,     \* history: those of them that were sent again
  crowded     \* history: notifications handled by two calls at the same time

rows == <<notes, overdue, attempts>>
history == <<sends, rejected, resent, crowded>>
vars == <<hub, rows, work, calls, failures, history>>

----------------------------------------------------------------------------
(* Rows.                                                                   *)

NoNote == [status |-> "NONE", action |-> "none", retry |-> 0]
New(a) == [NoNote EXCEPT !.status = "PENDING", !.action = a]
Exists(n) == notes[n] # NoNote
Expired(n) == n \in overdue
\* Mutant: any row may be sent again.
MayAlways(row, to) == TRUE
MayMove(row, to) == to \in NotificationMoves[row.status]

\* MarkExpired: only a pending one; any other row is written as it was read.
MarkExpired(row) ==
  IF MayMove(row, "EXPIRED") THEN [row EXCEPT !.status = "EXPIRED"] ELSE row

\* MarkFailed: an expired notification expires, any other counts a retry.
MarkFailed(row, n) ==
  IF Expired(n) THEN [row EXCEPT !.status = "EXPIRED"]
  ELSE [row EXCEPT !.status = "FAILED", !.retry = @ + 1]

MarkDelivered(row) == [row EXCEPT !.status = "DELIVERED"]

CanRetry(row, n) == row.status = "FAILED" /\ row.retry < MaxRetries /\ ~ Expired(n)

----------------------------------------------------------------------------
(* Workers.                                                                *)

\* kind: what the worker runs; todo: the rows a sweep listed; id, row: the
\* notification in hand and its copy; act: the action a notification is for.
Idle == [pc |-> "idle", kind |-> "none", id |-> "none", row |-> NoNote,
         act |-> "none", todo |-> {}]
At(w, pc) == work[w].pc = pc
Goto(w, q) == work' = [work EXCEPT ![w] = q]
Begin == calls < MaxCalls /\ calls' = calls + 1

\* A sweep goes on with the next row, a request is done.
Next1(q) ==
  IF q.kind \in {"pending", "retryable"}
  THEN [Idle EXCEPT !.pc = "loop", !.kind = q.kind, !.todo = q.todo] ELSE Idle

\* The notifications a worker holds or has listed.
Held(q) == ({q.id} \ {"none"}) \cup {x.id : x \in q.todo}
Crowding(w, ids) ==
  crowded' = crowded \cup (ids \cap UNION {Held(work[o]) : o \in Worker \ {w}})

\* CreateFromAction: an action that has a notification keeps it ...
CreateFromAction(w) ==
  /\ work[w] = Idle /\ Begin
  /\ \E a \in Action :
       /\ \A n \in Notification : notes[n].action # a
       /\ Goto(w, [Idle EXCEPT !.pc = IF DedupeKey[a] = "none" THEN "insert" ELSE "dedupe",
                               !.act = a])
  /\ UNCHANGED <<hub, rows, failures, history>>

\* ... and so does one whose key was used within the cooldown.
FindByDedupeKey(w) ==
  /\ At(w, "dedupe")
  /\ LET same == {n \in Notification : Exists(n) /\ ~ Expired(n)
                                       /\ DedupeKey[notes[n].action] = DedupeKey[work[w].act]}
     IN  \E recent \in BOOLEAN :
           Goto(w, IF same # {} /\ recent THEN Idle ELSE [work[w] EXCEPT !.pc = "insert"])
  /\ UNCHANGED <<hub, rows, calls, failures, history>>

\* CreateEscalation inserts without looking.
CreateEscalation(w) ==
  /\ work[w] = Idle /\ Begin
  /\ \E a \in Action : Goto(w, [Idle EXCEPT !.pc = "insert", !.act = a])
  /\ UNCHANGED <<hub, rows, failures, history>>

Insert(w) ==
  /\ At(w, "insert")
  /\ \E n \in {x \in Notification : ~ Exists(x)} :
       notes' = [notes EXCEPT ![n] = New(work[w].act)]
  /\ Goto(w, Idle)
  /\ UNCHANGED <<hub, overdue, attempts, calls, failures, history>>

\* SendNotification for one notification.
SendOne(w) ==
  /\ work[w] = Idle /\ Begin
  /\ \E n \in Notification :
       /\ Exists(n)
       /\ Goto(w, [Idle EXCEPT !.pc = "read", !.kind = "one", !.id = n])
       /\ Crowding(w, {n})
  /\ UNCHANGED <<hub, rows, failures, sends, rejected, resent>>

\* ProcessPendingNotifications and ProcessRetryableNotifications list rows.
Sweep(w, kind, ids) ==
  /\ work[w] = Idle /\ Begin
  /\ ids # {}
  /\ Goto(w, [Idle EXCEPT !.pc = "loop", !.kind = kind,
                          !.todo = {[id |-> n, row |-> notes[n]] : n \in ids}])
  /\ Crowding(w, ids)
  /\ UNCHANGED <<hub, rows, failures, sends, rejected, resent>>

ProcessPending(w) ==
  Sweep(w, "pending", {n \in Notification : notes[n].status = "PENDING"})
ProcessRetryable(w) ==
  Sweep(w, "retryable", {n \in Notification : CanRetry(notes[n], n)})

\* A pending row is sent from its stored state; a retryable one is first
\* reset, on the copy that was listed.
TakeRow(w) ==
  /\ At(w, "loop")
  /\ LET q == work[w]
     IN  IF q.todo = {} THEN Goto(w, Idle)
         ELSE \E x \in q.todo :
           Goto(w, [q EXCEPT !.todo = @ \ {x}, !.id = x.id,
                             !.row = [x.row EXCEPT !.status = "PENDING"],
                             !.pc = IF q.kind = "pending" THEN "read"
                                    ELSE IF CanRetry(x.row, x.id) THEN "reset" ELSE "loop"])
  /\ UNCHANGED <<hub, rows, calls, failures, history>>

WriteRow(w, row) == notes' = [notes EXCEPT ![work[w].id] = row]

SaveReset(w) ==
  /\ At(w, "reset")
  /\ WriteRow(w, work[w].row)
  /\ Goto(w, [work[w] EXCEPT !.pc = "read"])
  /\ UNCHANGED <<hub, overdue, attempts, calls, failures, history>>

\* SendNotification reads the row: an expired one is marked so, a pending one
\* is marked sent, any other is left alone.
ReadNote(w) ==
  /\ At(w, "read")
  /\ LET q == work[w]
         row == notes[q.id]
     IN  Goto(w, IF Expired(q.id) THEN [q EXCEPT !.pc = "expire", !.row = MarkExpired(row)]
                 ELSE IF MayMove(row, "SENT")
                 THEN [q EXCEPT !.pc = "sent", !.row = [row EXCEPT !.status = "SENT"]]
                 ELSE Next1(q))
  /\ UNCHANGED <<hub, rows, calls, failures, history>>

SaveExpired(w) ==
  /\ At(w, "expire")
  /\ WriteRow(w, work[w].row)
  /\ Goto(w, Next1(work[w]))
  /\ UNCHANGED <<hub, overdue, attempts, calls, failures, history>>

\* Mutant: the row is not stored as sent before it goes out.
SendUnsaved(w) ==
  /\ At(w, "sent")
  /\ Goto(w, [work[w] EXCEPT !.pc = "send"])
  /\ UNCHANGED <<hub, rows, calls, failures, history>>

\* "must be persisted before actual sending".
SaveSent(w) ==
  /\ At(w, "sent")
  /\ WriteRow(w, work[w].row)
  /\ Goto(w, [work[w] EXCEPT !.pc = "send"])
  /\ UNCHANGED <<hub, overdue, attempts, calls, failures, history>>

\* The notification goes out.  The hub never reports an error; a webhook
\* accepts, refuses for good (4xx), fails, or never hears of it.
Out(w, ok, reached) ==
  LET q == work[w]
  IN  /\ Goto(w, [q EXCEPT !.pc = "settle",
                           !.row = IF ok THEN MarkDelivered(@) ELSE MarkFailed(@, q.id)])
      /\ sends' = IF reached THEN [sends EXCEPT ![q.id] = @ + 1] ELSE sends
      /\ resent' = IF reached /\ q.id \in rejected THEN resent \cup {q.id} ELSE resent
      /\ UNCHANGED <<rows, calls, failures, crowded>>

Channel(w) == ChannelOf[work[w].row.action]

SendViaSSE(w) ==
  /\ At(w, "send") /\ Channel(w) = "SSE"
  /\ Broadcast(work[w].id, TargetOf[work[w].row.action])
  /\ Out(w, TRUE, TRUE)
  /\ UNCHANGED rejected

SendViaWebhook(w) ==
  /\ At(w, "send") /\ Channel(w) = "WEBHOOK"
  /\ \E answer \in {"2xx", "4xx", "5xx", "lost"} :
       /\ Out(w, answer = "2xx", answer # "lost")
       /\ rejected' = IF answer = "4xx" THEN rejected \cup {work[w].id} ELSE rejected
  /\ UNCHANGED hub

SendUnsupported(w) ==
  /\ At(w, "send") /\ Channel(w) \notin {"SSE", "WEBHOOK"}
  /\ Out(w, FALSE, FALSE)
  /\ UNCHANGED <<hub, rejected>>

\* Mutant: the outcome is not written back.
ForgetOutcome(w) ==
  /\ At(w, "settle")
  /\ Goto(w, [work[w] EXCEPT !.pc = "attempt"])
  /\ UNCHANGED <<hub, rows, calls, failures, history>>

SaveOutcome(w) ==
  /\ At(w, "settle")
  /\ WriteRow(w, work[w].row)
  /\ Goto(w, [work[w] EXCEPT !.pc = "attempt"])
  /\ UNCHANGED <<hub, overdue, attempts, calls, failures, history>>

\* RecordAttempt; when it fails, the dead letter queue is the same table.
RecordAttempt(w) ==
  /\ work[w].pc \in {"attempt", "dlq"}
  /\ attempts' = [attempts EXCEPT ![work[w].id] = @ + 1]
  /\ Goto(w, Next1(work[w]))
  /\ UNCHANGED <<hub, notes, overdue, calls, failures, history>>

\* ExpireNotifications: one statement, whatever else is under way.
ExpireNotifications ==
  /\ Begin
  /\ LET due == {n \in overdue : notes[n].status \notin {"NONE", "DELIVERED", "EXPIRED"}}
     IN  /\ due # {}
         /\ notes' = [n \in Notification |->
              IF n \in due THEN [notes[n] EXCEPT !.status = "EXPIRED"] ELSE notes[n]]
         /\ crowded' = crowded \cup (due \cap UNION {Held(work[w]) : w \in Worker})
  /\ UNCHANGED <<hub, overdue, attempts, work, failures, sends, rejected, resent>>

\* The time to live of a notification runs out.
Expire(n) ==
  /\ Exists(n) /\ notes[n].action \in Expiring /\ n \notin overdue
  /\ overdue' = overdue \cup {n}
  /\ UNCHANGED <<hub, notes, attempts, work, calls, failures, history>>

\* A statement fails: before the sending the call for this row ends; after
\* it the error is noted and the call goes on.
Fails(w) ==
  /\ failures < MaxFailures
  /\ work[w].pc \notin {"idle", "loop", "send"}
  /\ failures' = failures + 1
  /\ Goto(w, CASE work[w].pc = "settle" -> [work[w] EXCEPT !.pc = "attempt"]
               [] work[w].pc = "attempt" -> [work[w] EXCEPT !.pc = "dlq"]
               [] OTHER -> Next1(work[w]))
  /\ UNCHANGED <<hub, rows, calls, history>>

\* The process stops and comes back: connections, channels and calls are gone.
Crash ==
  /\ failures < MaxFailures
  /\ \E w \in Worker : work[w] # Idle
  /\ failures' = failures + 1
  /\ work' = [w \in Worker |-> Idle]
  /\ clients' = [i \in Client |-> "none"]
  /\ conn' = [c \in Connection |-> IF conn[c] = "new" THEN "new" ELSE "ended"]
  /\ queue' = [c \in Connection |-> <<>>]
  /\ UNCHANGED <<closed, shared, rows, calls, history>>

----------------------------------------------------------------------------
Init ==
  /\ HubInit
  /\ notes = [n \in Notification |-> NoNote]
  /\ overdue = {}
  /\ attempts = [n \in Notification |-> 0]
  /\ work = [w \in Worker |-> Idle]
  /\ calls = 0 /\ failures = 0
  /\ sends = [n \in Notification |-> 0]
  /\ rejected = {} /\ resent = {} /\ crowded = {}

Hub ==
  /\ StopHub \/ \E c \in Connection : Connect(c) \/ GoAway(c) \/ Serve(c)
  /\ UNCHANGED <<rows, work, calls, failures, history>>

Proceed(w) ==
  \/ FindByDedupeKey(w) \/ Insert(w) \/ TakeRow(w) \/ SaveReset(w) \/ ReadNote(w)
  \/ SaveExpired(w) \/ SaveSent(w) \/ SendViaSSE(w) \/ SendViaWebhook(w)
  \/ SendUnsupported(w) \/ SaveOutcome(w) \/ RecordAttempt(w)

Next ==
  \/ \E w \in Worker :
       \/ CreateFromAction(w) \/ CreateEscalation(w) \/ SendOne(w)
       \/ ProcessPending(w) \/ ProcessRetryable(w) \/ Proceed(w) \/ Fails(w)
  \/ ExpireNotifications
  \/ \E n \in Notification : Expire(n)
  \/ Crash
  \/ Hub

Spec == Init /\ [][Next]_vars

----------------------------------------------------------------------------
(* Properties.                                                             *)

\* Rows and workers are well formed (tables notifications, ..._attempts).
RowType ==
  [status: DOMAIN NotificationMoves \cup {"NONE"}, action: Action \cup {"none"}, retry: Nat]
TypeOK ==
  /\ HubTypeOK
  /\ notes \in [Notification -> RowType]
  /\ overdue \cup rejected \cup resent \cup crowded \subseteq Notification
  /\ attempts \in [Notification -> Nat] /\ sends \in [Notification -> Nat]
  /\ \A w \in Worker :
       /\ work[w].row \in RowType
       /\ work[w].id \in Notification \cup {"none"}
       /\ work[w].todo \subseteq [id: Notification, row: RowType]
  /\ calls \in 0 .. MaxCalls /\ failures \in 0 .. MaxFailures

\* A notification reaches its channel at most once per attempt, and at most
\* MaxRetries times in all, also when statements fail and the process stops
\* between the sending and the update ("must be persisted before actual
\* sending"), as long as no two calls handle it at the same time.
OncePerAttempt ==
  \A n \in Notification \ crowded :
    /\ sends[n] <= MaxRetries
    /\ notes[n].status \in {"PENDING", "FAILED"} => sends[n] <= notes[n].retry

\* DELIVERED and EXPIRED are left by nobody (docs/20: EXPIRED is terminal),
\* as long as no two calls handle the notification at the same time.
FinalStays ==
  [][\A n \in Notification :
       notes[n].status \in {"DELIVERED", "EXPIRED"} /\ n \notin crowded' =>
         notes'[n] = notes[n]]_vars

\* A notification stored as SENT is about to get its outcome from the call that
\* sent it, unless a statement failed or the process crashed: then it stays SENT,
\* for no sweep lists it.  Two calls on one notification do no harm to that,
\* except that one which finds it expired may write the SENT row it read over
\* the other's outcome.
SentIsSettled ==
  \A n \in Notification : notes[n].status = "SENT" =>
    \/ \E w \in Worker : work[w].id = n /\ work[w].pc \in {"send", "settle"}
    \/ failures > 0
    \/ n \in crowded \cap overdue

\* sendViaWebhook: "4xx errors are permanent failures (client error, don't
\* retry)".
PermanentIsNotRetried == resent = {}
=============================================================================
