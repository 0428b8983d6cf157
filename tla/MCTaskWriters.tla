--------------------------- MODULE MCTaskWriters ---------------------------
(***************************************************************************)
(* Requests against one or two tasks: r1 and r2 report, b is an item of a  *)
(* bulk update, m changes the department, c1 to c4 claim, a assigns.  Ann  *)
(* claims a task twice (c1, c3), Bob the same one (c2) and another (c4).   *)
(***************************************************************************)
EXTENDS TaskWriters

CONSTANTS r1, r2, b, m, c1, c2, c3, c4, a, t1, t2, ann, bob

AllRequests == Reports \cup Bulks \cup Moves \cup Claims \cup Assigns

OneTask == [r \in AllRequests |-> t1]
TwoTasks == [r \in AllRequests |-> IF r \in {r2, c4} THEN t2 ELSE t1]
Ones == [r \in Reports \cup Bulks |-> 1]
Mixed == [r \in Reports \cup Bulks |-> IF r = r1 THEN 4 ELSE 1]
Persons == [r \in Claims \cup Assigns |-> IF r \in {c1, c3} THEN ann ELSE bob]
=============================================================================
