CONSTANTS
    Deliveries = {d1, d2}
    Outs = {o1}
    Ins = {i1}
    b1 = b1
    b2 = b2
    FirstBatches <- TwoBatches
    Released = {b1}
    Users = {u1, u2}
    Ordered = 2
    InitialQuantity = 2
    Produced = 1
    Loads <- OneOrTwoLines
    Cap = 1
    Requests = 4
    None = None
SYMMETRY Symmetry
SPECIFICATION Spec
CHECK_DEADLOCK FALSE
INVARIANTS TypeOK GoodsConserved DeliveredIsSent
PROPERTIES CancelledIsFinal OldestFirst
