SPECIFICATION MCSpec
CONSTANTS
    None = None
    o1 = o1
    o2 = o2
    first = first
    second = second
    Users = {u1, u2}
    Orders = {o1, o2}
    Items <- MCItems
    Product <- MCProduct
    Works = {w1, w2}
    Quantities = {1, 2}
    Stocks = {0, 1}
    Requests = 3
SYMMETRY Symmetry
INVARIANTS TypeOK AllocatedWithinOrdered
PROPERTY SourcesKeepItems
CHECK_DEADLOCK FALSE
