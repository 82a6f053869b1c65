SPECIFICATION FairSpec
CONSTANTS
  a1 = a1
  ann = ann
  bob = bob
  bot = bot
  Request = {r1, r2}
  Approval = {a1}
  User = {ann, bob, bot}
  Role <- RoleOf
  Owner <- OwnerOf
  Admin = "ADMIN"
  Gate <- Gates
  Operation = {"TASK_START", "TASK_CANCEL", "STEP_ACK", "STEP_RESOLVE", "ACTION_ACK", "ACTION_RESOLVE"}
  MaxCalls = 4
  MaxAsks = 2
  MaxFailures = 1
INVARIANTS NoBypass DecidedOnce
PROPERTIES EarnedIsExecuted
CHECK_DEADLOCK FALSE
