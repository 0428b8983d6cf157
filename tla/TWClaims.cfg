CONSTANTS
    r1 = r1
    r2 = r2
    b = b
    m = m
    c1 = c1
    c2 = c2
    c3 = c3
    c4 = c4
    a = a
    t1 = t1
    t2 = t2
    ann = ann
    bob = bob
    Nobody = Nobody
    Tasks = {t1, t2}
    Reports = {}
    Bulks = {}
    Moves = {}
    Claims = {c1, c2, c3, c4}
    Assigns = {a}
    Subject <- TwoTasks
    Increment <- Ones
    Person <- Persons
    Operators = {ann, bob}
    Target = 2
    Capacity = 1
SPECIFICATION FairSpec
CHECK_DEADLOCK FALSE
PROPERTIES EveryRequestEnds ImplementsRegister
INVARIANTS ClaimsKeepApart
