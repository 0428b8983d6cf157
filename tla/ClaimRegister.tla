--------------------------- MODULE ClaimRegister ---------------------------
(***************************************************************************)
(* What claiming promises, whatever the implementation: a task has at most *)
(* one owner, a claim is granted only for a task that has none, or has the *)
(* claimant, and makes the claimant the owner, and an assignment by a      *)
(* supervisor hands the task over, all in one step.                        *)
(***************************************************************************)
CONSTANTS Tasks, Claims, Assigns, Subject, Person, Nobody

VARIABLES
    owner,      \* the owner of each task
    granted     \* the claims and assignments answered with success

Init ==
    /\ owner = [t \in Tasks |-> Nobody]
    /\ granted = {}

Grant(r) ==
    /\ r \notin granted
    /\ r \in Claims => owner[Subject[r]] \in {Nobody, Person[r]}
    /\ owner' = [owner EXCEPT ![Subject[r]] = Person[r]]
    /\ granted' = granted \cup {r}

Next == \E r \in Claims \cup Assigns : Grant(r)

Spec == Init /\ [][Next]_<<owner, granted>>
=============================================================================
