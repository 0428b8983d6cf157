SPECIFICATION MCSpec
CONSTANTS
    None = None
    deposit = deposit
    balance = balance
    bill = bill
    Users = {u1, u2}
    Payments <- MCPayments
    Of <- MCOf
    PlanCount = 2
    Amounts <- MCAmounts
    Totals = {1, 2}
    Requests = 4
SYMMETRY Symmetry
INVARIANTS TypeOK OrderShowsPayments PlansFillInOrder
CHECK_DEADLOCK FALSE
