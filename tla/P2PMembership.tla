--------------------------- MODULE P2PMembership ---------------------------
(***************************************************************************)
(* Joining and leaving the raft group (cmd/p2pnode, internal/p2p): a node  *)
(* that starts asks the leader to make it a voter and asks again until it  *)
(* is told so; the leader reads its configuration and changes it one       *)
(* server at a time.  A call the node no longer waits for goes on.  Each   *)
(* change of the configuration is a committed raft entry (external).       *)
(***************************************************************************)
EXTENDS Naturals, FiniteSets

CONSTANTS
  None,
  Node,         \* nodes that join
  Boot,         \* the node that founded the group
  Address,      \* raft addresses
  BootAddress,
  Call,         \* calls the leader may be working on at the same time
  JoinRetries,  \* how often a node asks
  MaxStarts,    \* bound: how many times a process starts
  MaxFailures,  \* bound: how many calls end with an error of raft's
  MaxRemovals   \* bound: how many servers an operator removes

ASSUME GroupAssumption ==
  /\ Boot \notin Node /\ BootAddress \in Address
  /\ None \notin Node \cup Address \cup Call
ASSUME LimitAssumption == {JoinRetries, MaxStarts, MaxFailures, MaxRemovals} \subseteq Nat

VARIABLES
  servers,    \* the configuration: the address of each voter, None of others
  proc,       \* what each process is doing
  call,       \* what the leader does for each call
  starts, failures,
  used,       \* history: the addresses a node has had
  removed,    \* history: servers an operator asked to remove
  overlapped  \* history: nodes that asked while an earlier call of theirs ran

vars == <<servers, proc, call, starts, failures, used, removed, overlapped>>

Server == Node \cup {Boot}
Voters == {m \in Server : servers[m] # None}

Process(pc, x, tries, c) == [pc |-> pc, addr |-> x, tries |-> tries, call |-> c]
Join(pc, n, x, todo) == [pc |-> pc, node |-> n, addr |-> x, todo |-> todo]
Down == Process("off", None, 0, None)
Free == Join("free", None, None, {})
CallsFor(n) == {c \in Call : call[c].node = n}

----------------------------------------------------------------------------
(* The process of a node.                                                  *)

\* It starts under its id with the address it is now given; one that is no
\* bootstrap node joins before it serves.
Start(n) ==
  /\ proc[n] = Down /\ starts < MaxStarts
  /\ \E x \in Address :
       /\ proc' = [proc EXCEPT ![n] = Process("joining", x, 0, None)]
       /\ used' = [used EXCEPT ![n] = @ \cup {x}]
  /\ starts' = starts + 1
  /\ UNCHANGED <<servers, call, failures, removed, overlapped>>

Stop(n) ==
  /\ proc[n] # Down
  /\ proc' = [proc EXCEPT ![n] = Down]
  /\ UNCHANGED <<servers, call, starts, failures, used, removed, overlapped>>

\* joinCluster: a request, ...
Ask(n) ==
  /\ proc[n].pc = "joining" /\ proc[n].tries < JoinRetries
  /\ \E c \in {x \in Call : call[x] = Free} :
       /\ call' = [call EXCEPT ![c] = Join("read", n, proc[n].addr, {})]
       /\ proc' = [proc EXCEPT ![n] = Process("waiting", @.addr, @.tries + 1, c)]
  /\ overlapped' = IF CallsFor(n) = {} THEN overlapped ELSE overlapped \cup {n}
  /\ UNCHANGED <<servers, starts, failures, used, removed>>

\* ... which the client gives up after 5 seconds, whatever becomes of it, ...
TimeOut(n) ==
  /\ proc[n].pc = "waiting"
  /\ proc' = [proc EXCEPT ![n] = Process("joining", @.addr, @.tries, None)]
  /\ UNCHANGED <<servers, call, starts, failures, used, removed, overlapped>>

\* ... and after the last of them the node serves without having joined.
GiveUp(n) ==
  /\ proc[n].pc = "joining" /\ proc[n].tries = JoinRetries
  /\ proc' = [proc EXCEPT ![n].pc = "alone"]
  /\ UNCHANGED <<servers, call, starts, failures, used, removed, overlapped>>

----------------------------------------------------------------------------
(* The leader.  raft refuses a configuration without voters, or with two   *)
(* of them at an address; removing who is not there changes nothing.       *)

\* raftJoin answers, if somebody still waits.
Answer(c, pc) ==
  /\ call' = [call EXCEPT ![c] = Free]
  /\ proc' = [n \in Node |-> IF proc[n].call = c
                             THEN Process(pc, proc[n].addr, proc[n].tries, None)
                             ELSE proc[n]]

Goto(c, q) == call' = [call EXCEPT ![c] = q] /\ UNCHANGED proc

\* Mutant: a voter with the id and the address is removed and added again.
Never(q) == FALSE
\* Mutant: only the ids are compared.
SameId(q) == servers[q.node] # None

\* The id and the address are those of a voter already.
Same(q) == servers[q.node] = q.addr

Clashing(q) == {m \in Voters : m = q.node \/ servers[m] = q.addr}

\* AddVoter reads the configuration, ...
GetConfiguration(c) ==
  LET q == call[c] IN
  /\ q.pc = "read"
  /\ IF Same(q) THEN Answer(c, "joined")
     ELSE Goto(c, Join("change", q.node, q.addr, Clashing(q)))
  /\ UNCHANGED <<servers, starts, failures, used, removed, overlapped>>

\* ... removes who had the id or the address then, ...
RemoveClashing(c) ==
  /\ call[c].pc = "change"
  /\ \E m \in call[c].todo :
       IF Voters = {m} THEN Answer(c, "joining") /\ UNCHANGED servers
       ELSE /\ servers' = [servers EXCEPT ![m] = None]
            /\ Goto(c, Join("change", call[c].node, call[c].addr, call[c].todo \ {m}))
  /\ UNCHANGED <<starts, failures, used, removed, overlapped>>

\* ... and adds the node, or gives it its new address.
AddVoter(c) ==
  LET q == call[c]
      taken == \E m \in Server \ {q.node} : servers[m] = q.addr
  IN
  /\ q.pc = "change" /\ q.todo = {}
  /\ IF taken THEN Answer(c, "joining") /\ UNCHANGED servers
     ELSE Answer(c, "joined") /\ servers' = [servers EXCEPT ![q.node] = q.addr]
  /\ UNCHANGED <<starts, failures, used, removed, overlapped>>

\* raftRemove.
RemoveServer(m) ==
  /\ Cardinality(removed) < MaxRemovals
  /\ removed' = removed \cup {m}
  /\ servers' = IF Voters = {m} THEN servers ELSE [servers EXCEPT ![m] = None]
  /\ UNCHANGED <<proc, call, starts, failures, used, overlapped>>

\* The leader is no longer one, or raft takes too long: the call ends with an
\* error, and the change it was making may have been committed all the same.
Fails(c) ==
  LET q == call[c] IN
  /\ q # Free /\ failures < MaxFailures
  /\ failures' = failures + 1
  /\ Answer(c, "joining")
  /\ \/ UNCHANGED servers
     \/ /\ q.pc = "change"
        /\ \E m \in q.todo :
             Voters # {m} /\ servers' = [servers EXCEPT ![m] = None]
     \/ /\ q.pc = "change" /\ q.todo = {}
        /\ \A m \in Server \ {q.node} : servers[m] # q.addr
        /\ servers' = [servers EXCEPT ![q.node] = q.addr]
  /\ UNCHANGED <<starts, used, removed, overlapped>>

----------------------------------------------------------------------------
Init ==
  /\ servers = [m \in Server |-> IF m = Boot THEN BootAddress ELSE None]
  /\ proc = [n \in Node |-> Down]
  /\ call = [c \in Call |-> Free]
  /\ starts = 0 /\ failures = 0
  /\ used = [n \in Node |-> {}]
  /\ removed = {} /\ overlapped = {}

Next ==
  \/ \E n \in Node : Start(n) \/ Stop(n) \/ Ask(n) \/ TimeOut(n) \/ GiveUp(n)
  \/ \E c \in Call : GetConfiguration(c) \/ RemoveClashing(c) \/ AddVoter(c) \/ Fails(c)
  \/ \E m \in Server : RemoveServer(m)

Spec == Init /\ [][Next]_vars

----------------------------------------------------------------------------
(* Properties.                                                             *)

\* Type invariant: the configuration, the processes and the calls.
TypeOK ==
  /\ servers \in [Server -> Address \cup {None}]
  /\ proc \in [Node -> [pc: {"off", "joining", "waiting", "joined", "alone"},
                        addr: Address \cup {None}, tries: Nat, call: Call \cup {None}]]
  /\ call \in [Call -> [pc: {"free", "read", "change"}, node: Node \cup {None},
                        addr: Address \cup {None}, todo: SUBSET Server]]
  /\ starts \in Nat /\ failures \in Nat
  /\ used \in [Node -> SUBSET Address]
  /\ removed \subseteq Server /\ overlapped \subseteq Node

\* Nobody else had an address of the node, and nobody removed it.
LeftAlone(n) ==
  /\ \A m \in Node \ {n} : used[m] \cap used[n] = {}
  /\ BootAddress \notin used[n]
  /\ n \notin removed
OneAddress(n) == \A x, y \in used[n] : x = y
Voting(n) == servers[n] = proc[n].addr

\* A node that comes back at the address it always had keeps its seat: once
\* it was told that it joined it is a voter, whatever calls it repeated, gave
\* up or left behind, and whether or not they failed.
RetryKeepsSeat ==
  \A n \in Node :
    proc[n].pc = "joined" /\ OneAddress(n) /\ LeftAlone(n) => Voting(n)

\* A node that comes back at another address and was told that it joined is a
\* voter at the new one, though a call may stop between removing it and adding
\* it, unless an earlier call for it was still running when it made the next.
MoveTakesSeat ==
  \A n \in Node \ overlapped : proc[n].pc = "joined" /\ LeftAlone(n) => Voting(n)
=============================================================================
