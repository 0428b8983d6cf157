CONSTANTS
    plate = plate
    box = box
    sheet = sheet
    roll = roll
    Procs = {1}
    Kind <- PackKind
    Free = {}
    Chain = {1}
    Tasks = {box}
    ProcOf <- PackProcOf
    Target <- PackTarget
    Usage <- PackUsage
    Planned = {}
    Splittable = {box}
    SplitSizes <- Sizes
    EditedTo = {}
    Increments <- UnitSteps
    Deletable <- PackDeletable
    PatchQuantities = {}
    StockBound = 3
SPECIFICATION Spec
CHECK_DEADLOCK FALSE
INVARIANTS TypeOK  LedgerMatchesAccounted AccountedWithinReported 
PROPERTIES FinishedProcessIsClosed
