------------------------ MODULE MCWorkOrderExecution ------------------------
(***************************************************************************)
(* Small orders for WorkOrderExecution:                                    *)
(*   Pack   - one packaging process whose only task may be split in two;   *)
(*   Flow   - plate making and then cutting, chained, with two materials   *)
(*            to cut, one of them under a plan.                            *)
(* Every quantity is at most 2: one unit, all units, and too many differ.  *)
(***************************************************************************)
EXTENDS WorkOrderExecution

CONSTANTS plate, sheet, roll, box

PackKind == [p \in {1} |-> "pack"]
PackProcOf == [t \in {box} |-> 1]
PackTarget == [t \in {box} |-> 2]
PackUsage == [t \in {box} |-> 0]

FlowKind == [p \in {1, 2} |-> IF p = 1 THEN "plate" ELSE "cut"]
FlowTasks == {plate, sheet, roll}
FlowProcOf == [t \in FlowTasks |-> IF t = plate THEN 1 ELSE 2]
FlowTarget == [t \in FlowTasks |-> IF t = roll THEN 2 ELSE 1]
FlowUsage == [t \in FlowTasks |->
                CASE t = roll -> 2 [] t = sheet -> 1 [] OTHER -> 0]

PackDeletable == {<<box, 1>>}

(* Quantities the split and update requests carry.                         *)
Units == {1}
UnitSteps == {-1, 1}
Sizes == {-1, 1, 3}
=============================================================================
