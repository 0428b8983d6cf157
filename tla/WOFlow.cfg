CONSTANTS
    plate = plate
    box = box
    sheet = sheet
    roll = roll
    Procs = {1, 2}
    Kind <- FlowKind
    Free = {}
    Chain = {1, 2}
    Tasks <- FlowTasks
    ProcOf <- FlowProcOf
    Target <- FlowTarget
    Usage <- FlowUsage
    Planned = {sheet}
    Splittable = {}
    SplitSizes <- Units
    EditedTo = {"in_progress", "paused", "completed", "cancelled"}
    Increments <- UnitSteps
    Deletable = {plate}
    PatchQuantities = {}
    StockBound = 3
SPECIFICATION Spec
CHECK_DEADLOCK FALSE
INVARIANTS InProductionWasApproved RunsAfterPredecessor
PROPERTIES FinishedProcessIsClosed
