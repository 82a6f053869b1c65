---------------------------- MODULE MCTaskRun ----------------------------
(* Instances of TaskRun: three steps, the third after the first by an edge   *)
(* and, when chained, after the second by depends_on.                        *)
EXTENDS TaskRun, TLC

CONSTANTS r1, r2, s1, s2, s3

Position3 == [s \in {s1, s2, s3} |-> CASE s = s1 -> 1 [] s = s2 -> 2 [] s = s3 -> 3]
Position2 == [s \in {s1, s2} |-> IF s = s1 THEN 1 ELSE 2]
\* s3 waits for s2; one of the edges into it is skipped.
DependsOn3 == [s \in {s1, s2, s3} |-> IF s = s3 THEN {s2} ELSE {}]
Edge3 == {[from |-> s1, to |-> s3, when |-> "true"],
          [from |-> s3, to |-> s1, when |-> "false"],
          [from |-> s3, to |-> s2, when |-> "error"]}
DependsOn2 == [s \in {s1, s2} |-> {}]
Edge2 == {[from |-> s1, to |-> s2, when |-> "always"]}
Retries3 == [s \in {s1, s2, s3} |-> CASE s = s1 -> 2 [] s = s2 -> 1 [] s = s3 -> 0]
Retries2 == [s \in {s1, s2} |-> IF s = s1 THEN 1 ELSE 0]

Symmetry == Permutations(Request)
=============================================================================
