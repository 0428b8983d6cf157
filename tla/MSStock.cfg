CONSTANTS
    Plans = {w1, w2}
    Orders = {o1}
    Records = {k1, k2}
    Buyers = {b1}
    Reviewers = {r1}
    Keepers = {r1}
    Demands = {2}
    Quantities = {1, 2}
    InitialStock = 1
    None = None
SYMMETRY Symmetry
SPECIFICATION Spec
CHECK_DEADLOCK FALSE
INVARIANTS TypeOK ReservedIsSum ReservedInStock PlanIsCovered OrderedIsNotPending
PROPERTIES ServedInTurn ImplementsLedger
