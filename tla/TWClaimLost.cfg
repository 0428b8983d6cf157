CONSTANTS
    r1 = r1
    r2 = r2
    b = b
    m = m
    c1 = c1
    c2 = c2
    c3 = c3
    c4 = c4
    a = a
    t1 = t1
    t2 = t2
    ann = ann
    bob = bob
    Nobody = Nobody
    Tasks = {t1}
    Reports = {r1}
    Bulks = {}
    Moves = {}
    Claims = {c1, c2}
    Assigns = {}
    Subject <- OneTask
    Increment <- Ones
    Person <- Persons
    Operators = {ann, bob}
    Target = 2
    Capacity = 1
SPECIFICATION Spec
CHECK_DEADLOCK FALSE
INVARIANTS ClaimsExclude
