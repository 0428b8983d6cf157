CONSTANTS
    plate = plate
    box = box
    sheet = sheet
    roll = roll
    Procs = {1}
    Kind <- PackKind
    Free = {}
    Chain = {1}
    Tasks = {box}
    ProcOf <- PackProcOf
    Target <- PackTarget
    Usage <- PackUsage
    Planned = {}
    Splittable = {}
    SplitSizes <- Units
    EditedTo = {}
    Increments <- UnitSteps
    Deletable = {box}
    PatchQuantities = {0, 1, 3}
    StockBound = 3
SPECIFICATION PatchSpec
CHECK_DEADLOCK FALSE
INVARIANTS LedgerCoversAccounted
