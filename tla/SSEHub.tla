------------------------------ MODULE SSEHub ------------------------------
(***************************************************************************)
(* The hub of server-sent events (infrastructure/sse) and the connections  *)
(* served by sseEndpoint.  The hub maps a client id to one connection; its *)
(* lock makes each operation one step.  A connection has a channel of      *)
(* bounded capacity; when its request ends, the handler unregisters its    *)
(* client id, whichever connection is registered under it by then.         *)
(***************************************************************************)
EXTENDS Naturals, Sequences

CONSTANTS
  Connection,   \* connections; each is opened once
  ClientOf,     \* ClientOf[c]: the client_id c asks for
  TargetsOf,    \* TargetsOf[c]: the user, the groups and "all" c listens to
  Capacity      \* room in a connection's channel (100 in the code)

ASSUME CapacityAssumption == Capacity \in Nat \ {0}
ASSUME NobodyAssumption == "none" \notin Connection

VARIABLES
  clients,   \* clients[id]: the registered connection, or "none"
  conn,      \* "new", "open", "leaving" (its handler returns) or "ended"
  queue,     \* the channel of a connection
  closed,    \* the connections whose channel is closed
  shared     \* history: connections whose client id another one held meanwhile

hub == <<clients, conn, queue, closed, shared>>

Client == {ClientOf[c] : c \in Connection}
Served(c) == conn[c] \in {"open", "leaving"}
Registered == {c \in Connection : clients[ClientOf[c]] = c}

\* sseEndpoint: a new connection takes the client id over.
Connect(c) ==
  /\ conn[c] = "new"
  /\ conn' = [conn EXCEPT ![c] = "open"]
  /\ clients' = [clients EXCEPT ![ClientOf[c]] = c]
  /\ LET same == {o \in Connection \ {c} : Served(o) /\ ClientOf[o] = ClientOf[c]}
     IN  shared' = IF same = {} THEN shared ELSE shared \cup same \cup {c}
  /\ UNCHANGED <<queue, closed>>

\* The handler's loop takes the next message and writes it out.
Receive(c) ==
  /\ conn[c] = "open" /\ queue[c] # <<>>
  /\ queue' = [queue EXCEPT ![c] = Tail(@)]
  /\ UNCHANGED <<clients, conn, closed, shared>>

\* The loop ends: the client has gone, or the closed channel is drained.
Leave(c) ==
  /\ conn[c] = "open"
  /\ conn' = [conn EXCEPT ![c] = "leaving"]
  /\ UNCHANGED <<clients, queue, closed, shared>>
GoAway(c) == Leave(c)
SeeClosed(c) == c \in closed /\ queue[c] = <<>> /\ Leave(c)

\* Mutant: the channel is closed, the entry stays.
UnregisterLeavesEntry(c) ==
  /\ conn[c] = "leaving"
  /\ conn' = [conn EXCEPT ![c] = "ended"]
  /\ closed' = closed \cup ({clients[ClientOf[c]]} \ {"none"})
  /\ UNCHANGED <<clients, queue, shared>>

\* The deferred Unregister: whoever holds the client id is closed and removed.
Unregister(c) ==
  /\ conn[c] = "leaving"
  /\ conn' = [conn EXCEPT ![c] = "ended"]
  /\ closed' = closed \cup ({clients[ClientOf[c]]} \ {"none"})
  /\ clients' = [clients EXCEPT ![ClientOf[c]] = "none"]
  /\ UNCHANGED <<queue, shared>>

\* BroadcastToAll, ToUser and ToGroup: a full channel loses the message.
Broadcast(msg, target) ==
  /\ queue' = [c \in Connection |->
       IF c \in Registered /\ target \in TargetsOf[c] /\ Len(queue[c]) < Capacity
       THEN Append(queue[c], msg) ELSE queue[c]]
  /\ UNCHANGED <<clients, conn, closed, shared>>

\* Stop: every registered connection is closed and removed.
StopHub ==
  /\ Registered # {}
  /\ closed' = closed \cup Registered
  /\ clients' = [i \in Client |-> "none"]
  /\ shared' = shared \cup Registered
  /\ UNCHANGED <<conn, queue>>

HubInit ==
  /\ clients = [i \in Client |-> "none"]
  /\ conn = [c \in Connection |-> "new"]
  /\ queue = [c \in Connection |-> <<>>]
  /\ closed = {} /\ shared = {}

\* What a connection's handler does by itself.
Serve(c) == Receive(c) \/ SeeClosed(c) \/ Unregister(c)

----------------------------------------------------------------------------
(* Properties.                                                             *)

HubTypeOK ==
  /\ clients \in [Client -> Connection \cup {"none"}]
  /\ conn \in [Connection -> {"new", "open", "leaving", "ended"}]
  /\ \A c \in Connection : Len(queue[c]) <= Capacity
  /\ closed \cup shared \subseteq Connection

\* Broadcasts write only to open channels and none is closed twice (either
\* would end the process): a registered connection is never a closed one,
\* though any connection with the same client id may close it.
RegisteredIsOpen == Registered \cap closed = {}

\* A connection stays registered, its channel open, until its own client goes
\* away, if no other connection with its client id was served meanwhile.
ServedUntilGone ==
  \A c \in Connection \ shared : Served(c) => c \in Registered

\* Both: no client is written to that is not there, none is cut off by others.
ClientsAreServed == RegisteredIsOpen /\ ServedUntilGone
=============================================================================
