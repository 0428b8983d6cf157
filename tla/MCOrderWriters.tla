--------------------------- MODULE MCOrderWriters ---------------------------
(* Two processes in a chain, the first with two tasks, the second with     *)
(* one.                                                                    *)
EXTENDS OrderWriters, TLC

CONSTANTS print, pack, plate, die, box

MCProcesses == {print, pack}
MCEarlier == print :> {} @@ pack :> {print}
MCTasks == {plate, die, box}
MCHome == plate :> print @@ die :> print @@ box :> pack

Symmetry == Permutations(Users) \cup Permutations({plate, die})
=============================================================================
