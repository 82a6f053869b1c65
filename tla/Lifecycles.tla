----------------------------- MODULE Lifecycles -----------------------------
(***************************************************************************)
(* The tables of allowed moves that the domain types check before a status *)
(* is changed (CanTransitionTo of task, action and notification).  A row   *)
(* is read, checked against its table and written back later.              *)
(***************************************************************************)

TaskMoves ==
  [DRAFT |-> {"RUNNING", "CANCELLED"},
   RUNNING |-> {"COMPLETED", "FAILED", "CANCELLED", "BLOCKED"},
   BLOCKED |-> {"RUNNING", "CANCELLED", "FAILED"},
   COMPLETED |-> {}, FAILED |-> {}, CANCELLED |-> {}]

ActionMoves ==
  [CREATED |-> {"DISPATCHING", "FAILED"},
   DISPATCHING |-> {"DISPATCHED", "FAILED"},
   DISPATCHED |-> {"ACKED", "RESOLVED", "FAILED"},
   ACKED |-> {"RESOLVED"},
   RESOLVED |-> {},
   FAILED |-> {"CREATED"}]

NotificationMoves ==
  [PENDING |-> {"SENT", "FAILED", "EXPIRED"},
   SENT |-> {"DELIVERED", "FAILED"},
   FAILED |-> {"PENDING"},
   DELIVERED |-> {}, EXPIRED |-> {}]
=============================================================================
