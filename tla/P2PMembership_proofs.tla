------------------------ MODULE P2PMembership_proofs ------------------------
(***************************************************************************)
(* Who was told that it joined is a voter, for any number of nodes, calls, *)
(* addresses, restarts and failures.                                       *)
(***************************************************************************)
EXTENDS P2PMembership, TLAPS

(* What a call was asked to do is what its node once was.                  *)
CallsKnown ==
  \A c \in Call :
    \/ call[c] = Free
    \/ /\ call[c].pc \in {"read", "change"}
       /\ call[c].node \in Node /\ call[c].addr \in used[call[c].node]

(* A process waits for a call of its own, made under its present address.  *)
WaitersKnown ==
  \A n \in Node :
    /\ proc[n].pc # "off" => proc[n].addr \in used[n]
    /\ proc[n].call # None =>
         /\ proc[n].pc = "waiting"
         /\ call[proc[n].call].node = n /\ call[proc[n].call].addr = proc[n].addr

(* A seat is at an address its node has had.                               *)
SeatsKnown ==
  /\ \A n \in Node : servers[n] # None => servers[n] \in used[n]
  /\ servers[Boot] \in {None, BootAddress}

(* A node nobody else disturbs is removed only by a call of its own, and   *)
(* only if it moved.                                                       *)
TodoKnown ==
  \A n \in Node, c \in Call :
    n \in call[c].todo /\ LeftAlone(n) => call[c].node = n /\ ~OneAddress(n)

(* One call at a time, and none once the node was told.                    *)
OneCall ==
  \A n \in Node \ overlapped :
    /\ \A c, d \in Call : call[c].node = n /\ call[d].node = n => c = d
    /\ proc[n].pc = "joined" => \A c \in Call : call[c].node # n

IInv ==
  /\ TypeOK /\ CallsKnown /\ WaitersKnown /\ SeatsKnown /\ TodoKnown /\ OneCall
  /\ RetryKeepsSeat /\ MoveTakesSeat


ProcType == [pc: {"off", "joining", "waiting", "joined", "alone"},
             addr: Address \cup {None}, tries: Nat, call: Call \cup {None}]
CallType == [pc: {"free", "read", "change"}, node: Node \cup {None},
             addr: Address \cup {None}, todo: SUBSET Server]

----------------------------------------------------------------------------
(* The histories only grow, so who is left alone now always was.           *)
LEMMA AloneBefore ==
  ASSUME TypeOK, NEW n \in Node,
         \A m \in Node : used[m] \subseteq used'[m], removed \subseteq removed'
  PROVE  /\ LeftAlone(n)' => LeftAlone(n)
         /\ OneAddress(n)' => OneAddress(n)
  BY DEF LeftAlone, OneAddress

LEMMA InitInv == Init => IInv
<1> SUFFICES ASSUME Init PROVE IInv
  OBVIOUS
<1>1. TypeOK
  BY GroupAssumption DEF Init, TypeOK, Server, Down, Free, Process, Join
<1>2. CallsKnown /\ WaitersKnown /\ TodoKnown
  BY DEF Init, CallsKnown, WaitersKnown, TodoKnown, Down, Free, Process, Join
<1>3. SeatsKnown
  BY GroupAssumption DEF Init, SeatsKnown, Server
<1>4. OneCall
  BY GroupAssumption DEF Init, OneCall, Down, Free, Process, Join
<1>5. RetryKeepsSeat /\ MoveTakesSeat
  BY DEF Init, RetryKeepsSeat, MoveTakesSeat, Down, Process
<1> QED
  BY <1>1, <1>2, <1>3, <1>4, <1>5 DEF IInv

(* What one process does by itself, short of being told that it joined.    *)
LEMMA ProcessStep ==
  ASSUME IInv, NEW n \in Node, TypeOK',
         UNCHANGED <<servers, call, removed, overlapped>>,
         \A m \in Node : used[m] \subseteq used'[m],
         \A m \in Node \ {n} : proc'[m] = proc[m],
         proc'[n].call = None, proc'[n].pc # "joined",
         proc'[n].pc # "off" => proc'[n].addr \in used'[n]
  PROVE  IInv'
<1> USE DEF IInv
<1>1. CallsKnown'
  BY DEF CallsKnown
<1>2. WaitersKnown'
  BY DEF WaitersKnown
<1>3. SeatsKnown'
  BY DEF SeatsKnown
<1>4. \A m \in Node : (LeftAlone(m)' => LeftAlone(m)) /\ (OneAddress(m)' => OneAddress(m))
  BY AloneBefore
<1>5. TodoKnown'
  BY <1>4 DEF TodoKnown
<1>6. OneCall'
  BY DEF OneCall
<1>7. RetryKeepsSeat' /\ MoveTakesSeat'
  BY <1>4 DEF RetryKeepsSeat, MoveTakesSeat, Voting
<1> QED
  BY <1>1, <1>2, <1>3, <1>5, <1>6, <1>7

LEMMA StartInv == ASSUME IInv, NEW n \in Node, Start(n) PROVE IInv'
<1>1. PICK x \in Address :
        /\ proc' = [proc EXCEPT ![n] = Process("joining", x, 0, None)]
        /\ used' = [used EXCEPT ![n] = @ \cup {x}]
  BY DEF Start
<1>2. /\ UNCHANGED <<servers, call, failures, removed, overlapped>>
      /\ starts' = starts + 1
  BY DEF Start
<1>5. TypeOK'
  <2>1. proc' \in [Node -> ProcType]
    BY <1>1 DEF IInv, TypeOK, ProcType, Process
  <2>2. used' \in [Node -> SUBSET Address]
    BY <1>1 DEF IInv, TypeOK, ProcType
  <2> QED
    BY <1>2, <2>1, <2>2 DEF IInv, TypeOK, ProcType
<1>6. /\ \A m \in Node : used[m] \subseteq used'[m]
      /\ \A m \in Node \ {n} : proc'[m] = proc[m]
  BY <1>1 DEF IInv, TypeOK, Process
<1>7. /\ proc'[n].call = None /\ proc'[n].pc # "joined"
      /\ proc'[n].pc # "off" => proc'[n].addr \in used'[n]
  BY <1>1 DEF IInv, TypeOK, Process
<1> QED
  BY <1>2, <1>5, <1>6, <1>7, ProcessStep

LEMMA StopInv == ASSUME IInv, NEW n \in Node, Stop(n) PROVE IInv'
<1>1. /\ proc' = [proc EXCEPT ![n] = Process("off", None, 0, None)]
      /\ UNCHANGED <<servers, call, starts, failures, used, removed, overlapped>>
  BY DEF Stop, Down
<1>2. TypeOK'
  <2>1. proc' \in [Node -> ProcType]
    BY <1>1 DEF IInv, TypeOK, ProcType, Process
  <2> QED
    BY <1>1, <2>1 DEF IInv, TypeOK, ProcType, Process
<1>3. /\ \A m \in Node : used[m] \subseteq used'[m]
      /\ \A m \in Node \ {n} : proc'[m] = proc[m]
  BY <1>1 DEF IInv, TypeOK, ProcType, Process
<1>4. proc'[n].call = None /\ proc'[n].pc = "off"
  BY <1>1 DEF IInv, TypeOK, ProcType, Process
<1> QED
  BY <1>1, <1>2, <1>3, <1>4, ProcessStep

LEMMA TimeOutInv == ASSUME IInv, NEW n \in Node, TimeOut(n) PROVE IInv'
<1>1. /\ proc' = [proc EXCEPT ![n] = Process("joining", @.addr, @.tries, None)]
      /\ UNCHANGED <<servers, call, starts, failures, used, removed, overlapped>>
  BY DEF TimeOut
<1>2. TypeOK'
  <2>1. proc' \in [Node -> ProcType]
    BY <1>1 DEF IInv, TypeOK, ProcType, Process
  <2> QED
    BY <1>1, <2>1 DEF IInv, TypeOK, ProcType, Process
<1>3. /\ \A m \in Node : used[m] \subseteq used'[m]
      /\ \A m \in Node \ {n} : proc'[m] = proc[m]
  BY <1>1 DEF IInv, TypeOK, ProcType, Process
<1>4. proc[n].addr \in used[n]
  BY DEF TimeOut, IInv, WaitersKnown
<1>5. /\ proc'[n].call = None /\ proc'[n].pc = "joining"
      /\ proc'[n].addr \in used'[n]
  BY <1>1, <1>4 DEF IInv, TypeOK, ProcType, Process
<1> QED
  BY <1>1, <1>2, <1>3, <1>5, ProcessStep

LEMMA GiveUpInv == ASSUME IInv, NEW n \in Node, GiveUp(n) PROVE IInv'
<1>1. /\ proc' = [proc EXCEPT ![n].pc = "alone"]
      /\ UNCHANGED <<servers, call, starts, failures, used, removed, overlapped>>
  BY DEF GiveUp
<1>2. TypeOK'
  <2>1. proc' \in [Node -> ProcType]
    BY <1>1 DEF IInv, TypeOK, ProcType, Process
  <2> QED
    BY <1>1, <2>1 DEF IInv, TypeOK, ProcType, Process
<1>3. /\ \A m \in Node : used[m] \subseteq used'[m]
      /\ \A m \in Node \ {n} : proc'[m] = proc[m]
  BY <1>1 DEF IInv, TypeOK, ProcType, Process
<1>4. proc[n].addr \in used[n] /\ proc[n].call = None
  BY DEF GiveUp, IInv, WaitersKnown
<1>5. /\ proc'[n].call = None /\ proc'[n].pc = "alone"
      /\ proc'[n].addr \in used'[n]
  BY <1>1, <1>4 DEF IInv, TypeOK, ProcType, Process
<1> QED
  BY <1>1, <1>2, <1>3, <1>5, ProcessStep

LEMMA AskInv == ASSUME IInv, NEW n \in Node, Ask(n) PROVE IInv'
<1> USE DEF IInv
<1>1. PICK c \in Call :
        /\ call[c] = Free
        /\ call' = [call EXCEPT ![c] = Join("read", n, proc[n].addr, {})]
        /\ proc' = [proc EXCEPT ![n] = Process("waiting", @.addr, @.tries + 1, c)]
  BY DEF Ask
<1>2. /\ UNCHANGED <<servers, starts, failures, used, removed>>
      /\ overlapped' = IF CallsFor(n) = {} THEN overlapped ELSE overlapped \cup {n}
      /\ proc[n].pc = "joining"
  BY DEF Ask
<1>4. /\ call'[c] = [pc |-> "read", node |-> n, addr |-> proc[n].addr, todo |-> {}]
      /\ \A d \in Call \ {c} : call'[d] = call[d]
  BY <1>1 DEF TypeOK, Join
<1>5. /\ \A m \in Node \ {n} : proc'[m] = proc[m]
      /\ proc'[n].pc = "waiting" /\ proc'[n].call = c /\ proc'[n].addr = proc[n].addr
  BY <1>1 DEF TypeOK, Process
<1>6. proc[n].addr \in used[n]
  BY <1>2 DEF WaitersKnown
<1>7. proc[n].addr \in Address
  BY <1>6 DEF TypeOK
<1>8. TypeOK'
  <2>1. call' \in [Call -> CallType]
    BY <1>1, <1>7 DEF TypeOK, CallType, Join
  <2>2. proc' \in [Node -> ProcType]
    BY <1>1 DEF TypeOK, ProcType, Process
  <2> QED
    BY <1>2, <2>1, <2>2 DEF TypeOK, ProcType, CallType
<1>9. CallsKnown'
  BY <1>2, <1>4, <1>6 DEF CallsKnown
<1>10. \A m \in Node : proc[m].call # c
  BY <1>1, GroupAssumption DEF WaitersKnown, Free, Join
<1>11. WaitersKnown'
  BY <1>2, <1>4, <1>5, <1>6, <1>10 DEF WaitersKnown, TypeOK
<1>12. SeatsKnown'
  BY <1>2 DEF SeatsKnown
<1>13. \A m \in Node : (LeftAlone(m)' <=> LeftAlone(m)) /\ (OneAddress(m)' <=> OneAddress(m))
  BY <1>2 DEF LeftAlone, OneAddress
<1>14. TodoKnown'
  BY <1>4, <1>13 DEF TodoKnown
<1>15. OneCall'
  <2>1. \A m \in Node \ overlapped' : m \notin overlapped
    BY <1>2
  <2>2. n \notin overlapped' => \A d \in Call : call[d].node # n
    BY <1>2 DEF CallsFor
  <2> QED
    BY <1>4, <1>5, <2>1, <2>2 DEF OneCall
<1>16. RetryKeepsSeat' /\ MoveTakesSeat'
  BY <1>2, <1>5, <1>13 DEF RetryKeepsSeat, MoveTakesSeat, Voting
<1> QED
  BY <1>8, <1>9, <1>11, <1>12, <1>14, <1>15, <1>16

----------------------------------------------------------------------------
(* The last step of a call: it is answered, and a seat it changes belongs  *)
(* to its node, unless that node was not left alone.                       *)
LEMMA AnswerStep ==
  ASSUME IInv, NEW c \in Call, NEW pc \in {"joining", "joined"},
         call[c] # Free, Answer(c, pc),
         UNCHANGED <<used, removed, overlapped>>,
         starts' \in Nat, failures' \in Nat,
         servers' \in [Server -> Address \cup {None}], SeatsKnown',
         pc = "joined" => servers'[call[c].node] = call[c].addr,
         \A n \in Node : LeftAlone(n) /\ servers'[n] # servers[n] =>
           /\ call[c].node = n
           /\ OneAddress(n) => servers'[n] = call[c].addr
  PROVE  IInv'
<1> USE DEF IInv
<1>1. /\ call' = [call EXCEPT ![c] = Free]
      /\ proc' = [n \in Node |-> IF proc[n].call = c
                                 THEN Process(pc, proc[n].addr, proc[n].tries, None)
                                 ELSE proc[n]]
  BY DEF Answer
<1>2. /\ call'[c] = Free
      /\ \A d \in Call \ {c} : call'[d] = call[d]
  BY <1>1 DEF TypeOK
<1>3. /\ call[c].node \in Node /\ call[c].addr \in used[call[c].node]
  BY DEF CallsKnown
<1>4. TypeOK'
  <2>1. call' \in [Call -> CallType]
    BY <1>1 DEF TypeOK, CallType, Free, Join
  <2>2. proc' \in [Node -> ProcType]
    BY <1>1 DEF TypeOK, ProcType, Process
  <2> QED
    BY <2>1, <2>2 DEF TypeOK, ProcType, CallType
<1>5. CallsKnown'
  BY <1>2 DEF CallsKnown
<1>6. \A n \in Node :
        \/ /\ proc[n].call = c /\ proc[n].pc = "waiting" /\ call[c].node = n
           /\ proc'[n].pc = pc /\ proc'[n].addr = proc[n].addr /\ proc'[n].call = None
           /\ proc[n].addr = call[c].addr
        \/ proc[n].call # c /\ proc'[n] = proc[n]
  BY <1>1, GroupAssumption DEF WaitersKnown, Process
<1>7. WaitersKnown'
  BY <1>2, <1>6 DEF WaitersKnown, TypeOK
<1>8. \A n \in Node : (LeftAlone(n)' <=> LeftAlone(n)) /\ (OneAddress(n)' <=> OneAddress(n))
  BY DEF LeftAlone, OneAddress
<1>9. TodoKnown'
  BY <1>2, <1>8 DEF TodoKnown, Free, Join
<1>10. OneCall'
  BY <1>2, <1>3, <1>6, GroupAssumption DEF OneCall, Free, Join
<1>11. RetryKeepsSeat'
  <2> SUFFICES ASSUME NEW n \in Node, proc'[n].pc = "joined", OneAddress(n), LeftAlone(n)
               PROVE  servers'[n] = proc'[n].addr
    BY <1>8 DEF RetryKeepsSeat, Voting
  <2>1. CASE proc[n].call = c
    BY <2>1, <1>6
  <2>2. CASE proc[n].call # c
    <3>1. proc'[n] = proc[n] /\ servers[n] = proc[n].addr /\ proc[n].addr \in used[n]
      BY <2>2, <1>6 DEF RetryKeepsSeat, Voting, WaitersKnown
    <3>2. servers'[n] # servers[n] => servers'[n] \in used[n]
      BY <1>3
    <3> QED
      BY <3>1, <3>2 DEF OneAddress
  <2> QED
    BY <2>1, <2>2
<1>12. MoveTakesSeat'
  <2> SUFFICES ASSUME NEW n \in Node \ overlapped, proc'[n].pc = "joined", LeftAlone(n)
               PROVE  servers'[n] = proc'[n].addr
    BY <1>8 DEF MoveTakesSeat, Voting
  <2>1. CASE proc[n].call = c
    BY <2>1, <1>6
  <2>2. CASE proc[n].call # c
    <3>1. proc'[n] = proc[n] /\ servers[n] = proc[n].addr
      BY <2>2, <1>6 DEF MoveTakesSeat, Voting
    <3>2. call[c].node # n
      BY <3>1 DEF OneCall
    <3> QED
      BY <3>1, <3>2
  <2> QED
    BY <2>1, <2>2
<1> QED
  BY <1>4, <1>5, <1>7, <1>9, <1>10, <1>11, <1>12

(* A call that goes on, to change the configuration.                       *)
LEMMA GotoStep ==
  ASSUME IInv, NEW c \in Call, NEW todo \in SUBSET Server,
         call[c] # Free, Goto(c, Join("change", call[c].node, call[c].addr, todo)),
         UNCHANGED <<starts, failures, used, removed, overlapped>>,
         servers' \in [Server -> Address \cup {None}], SeatsKnown',
         \A n \in Node : LeftAlone(n) /\ n \in todo => call[c].node = n /\ ~OneAddress(n),
         \A n \in Node : LeftAlone(n) /\ servers'[n] # servers[n] =>
           call[c].node = n /\ ~OneAddress(n)
  PROVE  IInv'
<1> USE DEF IInv
<1>1. /\ call' = [call EXCEPT ![c] = Join("change", call[c].node, call[c].addr, todo)]
      /\ UNCHANGED proc
  BY DEF Goto
<1>2. /\ call'[c].pc = "change" /\ call'[c].node = call[c].node
      /\ call'[c].addr = call[c].addr /\ call'[c].todo = todo
      /\ \A d \in Call \ {c} : call'[d] = call[d]
  BY <1>1 DEF TypeOK, Join
<1>3. call[c].node \in Node /\ call[c].addr \in used[call[c].node]
  BY DEF CallsKnown
<1>4. TypeOK'
  <2>1. call' \in [Call -> CallType]
    BY <1>1 DEF TypeOK, CallType, Join
  <2> QED
    BY <1>1, <2>1 DEF TypeOK, CallType
<1>5. CallsKnown'
  BY <1>2, <1>3 DEF CallsKnown
<1>6. WaitersKnown'
  BY <1>1, <1>2 DEF WaitersKnown, TypeOK
<1>7. \A n \in Node : (LeftAlone(n)' <=> LeftAlone(n)) /\ (OneAddress(n)' <=> OneAddress(n))
  BY DEF LeftAlone, OneAddress
<1>8. TodoKnown'
  BY <1>2, <1>7 DEF TodoKnown
<1>9. OneCall'
  BY <1>1, <1>2 DEF OneCall
<1>10. RetryKeepsSeat' /\ MoveTakesSeat'
  BY <1>1, <1>7 DEF RetryKeepsSeat, MoveTakesSeat, Voting, OneCall
<1> QED
  BY <1>4, <1>5, <1>6, <1>8, <1>9, <1>10

(* Taking a seat away.                                                     *)
LEMMA Unseat ==
  ASSUME IInv, NEW m \in Server, servers' = [servers EXCEPT ![m] = None],
         \A n \in Node : used[n] \subseteq used'[n]
  PROVE  /\ servers' \in [Server -> Address \cup {None}]
         /\ SeatsKnown'
         /\ \A n \in Server \ {m} : servers'[n] = servers[n]
  BY DEF IInv, TypeOK, SeatsKnown, Server

(* Giving a node a seat at an address it had.                              *)
LEMMA Seat ==
  ASSUME IInv, NEW n \in Node, NEW x \in used[n], servers' = [servers EXCEPT ![n] = x],
         UNCHANGED used
  PROVE  /\ servers' \in [Server -> Address \cup {None}]
         /\ SeatsKnown'
         /\ servers'[n] = x
         /\ \A m \in Server \ {n} : servers'[m] = servers[m]
  BY GroupAssumption DEF IInv, TypeOK, SeatsKnown, Server

LEMMA GetConfigurationInv ==
  ASSUME IInv, NEW c \in Call, GetConfiguration(c) PROVE IInv'
<1> USE DEF IInv
<1>1. /\ call[c].pc = "read"
      /\ UNCHANGED <<servers, starts, failures, used, removed, overlapped>>
  BY DEF GetConfiguration
<1>2. call[c] # Free /\ call[c].node \in Node /\ call[c].addr \in used[call[c].node]
  BY <1>1 DEF CallsKnown, Free, Join
<1>3. servers' \in [Server -> Address \cup {None}] /\ SeatsKnown'
  BY <1>1 DEF TypeOK, SeatsKnown
<1>4. CASE Same(call[c])
  <2>1. Answer(c, "joined") /\ servers'[call[c].node] = call[c].addr
    BY <1>1, <1>4 DEF GetConfiguration, Same
  <2>2. starts' \in Nat /\ failures' \in Nat
    BY <1>1 DEF TypeOK
  <2> QED
    BY <1>1, <1>2, <1>3, <2>1, <2>2, AnswerStep
<1>5. CASE ~Same(call[c])
  <2>1. Goto(c, Join("change", call[c].node, call[c].addr, Clashing(call[c])))
    BY <1>5 DEF GetConfiguration
  <2>2. Clashing(call[c]) \in SUBSET Server
    BY DEF Clashing, Voters
  <2>3. ASSUME NEW n \in Node, LeftAlone(n), n \in Clashing(call[c])
        PROVE  call[c].node = n /\ ~OneAddress(n)
    <3>1. servers[n] \in used[n]
      BY <2>3 DEF Clashing, Voters, SeatsKnown
    <3>2. call[c].node = n
      BY <1>2, <2>3, <3>1 DEF Clashing, LeftAlone
    <3> QED
      BY <1>2, <1>5, <3>1, <3>2 DEF OneAddress, Same
  <2> QED
    BY <1>1, <1>2, <1>3, <2>1, <2>2, <2>3, GotoStep
<1> QED
  BY <1>4, <1>5

LEMMA RemoveClashingInv ==
  ASSUME IInv, NEW c \in Call, RemoveClashing(c) PROVE IInv'
<1> USE DEF IInv
<1>1. /\ call[c].pc = "change"
      /\ UNCHANGED <<starts, failures, used, removed, overlapped>>
  BY DEF RemoveClashing
<1>2. call[c] # Free
  BY <1>1 DEF Free, Join
<1>3. PICK m \in call[c].todo :
        IF Voters = {m} THEN Answer(c, "joining") /\ UNCHANGED servers
        ELSE /\ servers' = [servers EXCEPT ![m] = None]
             /\ Goto(c, Join("change", call[c].node, call[c].addr, call[c].todo \ {m}))
  BY DEF RemoveClashing
<1>4. m \in Server
  BY <1>3 DEF TypeOK
<1>5. starts' \in Nat /\ failures' \in Nat
  BY <1>1 DEF TypeOK
<1>6. CASE Voters = {m}
  <2>1. servers' \in [Server -> Address \cup {None}] /\ SeatsKnown'
    BY <1>1, <1>3, <1>6 DEF TypeOK, SeatsKnown
  <2>2. Answer(c, "joining") /\ UNCHANGED servers
    BY <1>3, <1>6
  <2> QED
    BY <1>1, <1>2, <1>5, <2>1, <2>2, AnswerStep
<1>7. CASE Voters # {m}
  <2>1. servers' = [servers EXCEPT ![m] = None]
    BY <1>3, <1>7
  <2>2. Goto(c, Join("change", call[c].node, call[c].addr, call[c].todo \ {m}))
    BY <1>3, <1>7
  <2>3. call[c].todo \ {m} \in SUBSET Server
    BY DEF TypeOK
  <2>4. /\ servers' \in [Server -> Address \cup {None}] /\ SeatsKnown'
        /\ \A n \in Server \ {m} : servers'[n] = servers[n]
    BY <1>1, <1>4, <2>1, Unseat
  <2>5. \A n \in Node : LeftAlone(n) /\ servers'[n] # servers[n] =>
          call[c].node = n /\ ~OneAddress(n)
    BY <1>3, <2>4 DEF TodoKnown, Server
  <2>6. \A n \in Node : LeftAlone(n) /\ n \in call[c].todo \ {m} =>
          call[c].node = n /\ ~OneAddress(n)
    BY DEF TodoKnown
  <2> QED
    BY <1>1, <1>2, <2>2, <2>3, <2>4, <2>5, <2>6, GotoStep
<1> QED
  BY <1>6, <1>7

LEMMA AddVoterInv == ASSUME IInv, NEW c \in Call, AddVoter(c) PROVE IInv'
<1> USE DEF IInv
<1>1. /\ call[c].pc = "change"
      /\ UNCHANGED <<starts, failures, used, removed, overlapped>>
  BY DEF AddVoter
<1>2. call[c] # Free /\ call[c].node \in Node /\ call[c].addr \in used[call[c].node]
  BY <1>1 DEF CallsKnown, Free, Join
<1>3. starts' \in Nat /\ failures' \in Nat
  BY <1>1 DEF TypeOK
<1>4. CASE Answer(c, "joining") /\ UNCHANGED servers
  <2>1. servers' \in [Server -> Address \cup {None}] /\ SeatsKnown'
    BY <1>1, <1>4 DEF TypeOK, SeatsKnown
  <2> QED
    BY <1>1, <1>2, <1>3, <1>4, <2>1, AnswerStep
<1>5. CASE /\ Answer(c, "joined")
           /\ servers' = [servers EXCEPT ![call[c].node] = call[c].addr]
  <2>1. /\ servers' \in [Server -> Address \cup {None}] /\ SeatsKnown'
        /\ servers'[call[c].node] = call[c].addr
        /\ \A m \in Server \ {call[c].node} : servers'[m] = servers[m]
    BY <1>1, <1>2, <1>5, Seat
  <2>2. \A n \in Node : LeftAlone(n) /\ servers'[n] # servers[n] =>
          call[c].node = n /\ (OneAddress(n) => servers'[n] = call[c].addr)
    BY <2>1 DEF Server
  <2> QED
    BY <1>1, <1>2, <1>3, <1>5, <2>1, <2>2, AnswerStep
<1> QED
  BY <1>4, <1>5 DEF AddVoter

LEMMA FailsInv == ASSUME IInv, NEW c \in Call, Fails(c) PROVE IInv'
<1> USE DEF IInv
<1>1. /\ call[c] # Free /\ Answer(c, "joining")
      /\ UNCHANGED <<starts, used, removed, overlapped>> /\ failures' = failures + 1
  BY DEF Fails
<1>2. call[c].node \in Node /\ call[c].addr \in used[call[c].node]
  BY <1>1 DEF CallsKnown
<1>3. starts' \in Nat /\ failures' \in Nat
  BY <1>1 DEF TypeOK
<1>4. CASE UNCHANGED servers
  <2>1. servers' \in [Server -> Address \cup {None}] /\ SeatsKnown'
    BY <1>1, <1>4 DEF TypeOK, SeatsKnown
  <2> QED
    BY <1>1, <1>3, <1>4, <2>1, AnswerStep
<1>5. ASSUME NEW m \in call[c].todo, servers' = [servers EXCEPT ![m] = None] PROVE IInv'
  <2>1. m \in Server
    BY <1>5 DEF TypeOK
  <2>2. /\ servers' \in [Server -> Address \cup {None}] /\ SeatsKnown'
        /\ \A n \in Server \ {m} : servers'[n] = servers[n]
    BY <1>1, <1>5, <2>1, Unseat
  <2>3. \A n \in Node : LeftAlone(n) /\ servers'[n] # servers[n] =>
          call[c].node = n /\ (OneAddress(n) => servers'[n] = call[c].addr)
    BY <1>5, <2>2 DEF TodoKnown, Server
  <2> QED
    BY <1>1, <1>3, <2>2, <2>3, AnswerStep
<1>6. CASE servers' = [servers EXCEPT ![call[c].node] = call[c].addr]
  <2>1. /\ servers' \in [Server -> Address \cup {None}] /\ SeatsKnown'
        /\ servers'[call[c].node] = call[c].addr
        /\ \A m \in Server \ {call[c].node} : servers'[m] = servers[m]
    BY <1>1, <1>2, <1>6, Seat
  <2>2. \A n \in Node : LeftAlone(n) /\ servers'[n] # servers[n] =>
          call[c].node = n /\ (OneAddress(n) => servers'[n] = call[c].addr)
    BY <2>1 DEF Server
  <2> QED
    BY <1>1, <1>3, <2>1, <2>2, AnswerStep
<1> QED
  BY <1>4, <1>5, <1>6 DEF Fails

LEMMA RemoveServerInv == ASSUME IInv, NEW m \in Server, RemoveServer(m) PROVE IInv'
<1> USE DEF IInv
<1>1. /\ removed' = removed \cup {m}
      /\ UNCHANGED <<proc, call, starts, failures, used, overlapped>>
      /\ UNCHANGED servers \/ servers' = [servers EXCEPT ![m] = None]
  BY DEF RemoveServer
<1>2. /\ servers' \in [Server -> Address \cup {None}] /\ SeatsKnown'
      /\ \A n \in Server \ {m} : servers'[n] = servers[n]
  <2>1. CASE UNCHANGED servers
    BY <1>1, <2>1 DEF TypeOK, SeatsKnown
  <2>2. CASE servers' = [servers EXCEPT ![m] = None]
    BY <1>1, <2>2, Unseat
  <2> QED
    BY <1>1, <2>1, <2>2
<1>3. TypeOK'
  BY <1>1, <1>2 DEF TypeOK
<1>4. CallsKnown' /\ WaitersKnown' /\ OneCall'
  BY <1>1 DEF CallsKnown, WaitersKnown, OneCall
<1>5. \A n \in Node : (LeftAlone(n)' => LeftAlone(n) /\ n # m) /\ (OneAddress(n)' <=> OneAddress(n))
  BY <1>1 DEF LeftAlone, OneAddress
<1>6. TodoKnown'
  BY <1>1, <1>5 DEF TodoKnown
<1>7. RetryKeepsSeat' /\ MoveTakesSeat'
  BY <1>1, <1>2, <1>5 DEF RetryKeepsSeat, MoveTakesSeat, Voting, Server
<1> QED
  BY <1>2, <1>3, <1>4, <1>6, <1>7

----------------------------------------------------------------------------
LEMMA NextInv == IInv /\ [Next]_vars => IInv'
<1> SUFFICES ASSUME IInv, [Next]_vars PROVE IInv'
  OBVIOUS
<1>1. CASE UNCHANGED vars
  BY <1>1 DEF vars, IInv, TypeOK, CallsKnown, WaitersKnown, SeatsKnown, TodoKnown, OneCall,
              RetryKeepsSeat, MoveTakesSeat, LeftAlone, OneAddress, Voting
<1>2. CASE \E n \in Node : Start(n) \/ Stop(n) \/ Ask(n) \/ TimeOut(n) \/ GiveUp(n)
  BY <1>2, StartInv, StopInv, AskInv, TimeOutInv, GiveUpInv
<1>3. CASE \E c \in Call :
             GetConfiguration(c) \/ RemoveClashing(c) \/ AddVoter(c) \/ Fails(c)
  BY <1>3, GetConfigurationInv, RemoveClashingInv, AddVoterInv, FailsInv
<1>4. CASE \E m \in Server : RemoveServer(m)
  BY <1>4, RemoveServerInv
<1> QED
  BY <1>1, <1>2, <1>3, <1>4 DEF Next

(* The inductive invariant holds: of the group's bookkeeping and of what   *)
(* calls remember while others run.                                        *)
THEOREM MembershipSafety == Spec => []IInv
<1>1. Init => IInv
  BY InitInv
<1>2. IInv /\ [Next]_vars => IInv'
  BY NextInv
<1> QED
  BY <1>1, <1>2, PTL DEF Spec

(* Type correctness of the membership protocol.                            *)
THEOREM MembershipTypeCorrect == Spec => []TypeOK
<1>1. IInv => TypeOK
  BY DEF IInv
<1> QED
  BY <1>1, MembershipSafety, PTL

(* A node that comes back at the address it always had keeps its seat,     *)
(* whatever calls of its are repeated, given up or fail.                   *)
THEOREM RetriesKeepSeats == Spec => []RetryKeepsSeat
<1>1. IInv => RetryKeepsSeat
  BY DEF IInv
<1> QED
  BY <1>1, MembershipSafety, PTL

(* A node that moved and whose calls did not overlap votes at its new      *)
(* address once it was told that it joined.                                *)
THEOREM MovesTakeSeats == Spec => []MoveTakesSeat
<1>1. IInv => MoveTakesSeat
  BY DEF IInv
<1> QED
  BY <1>1, MembershipSafety, PTL
=============================================================================
