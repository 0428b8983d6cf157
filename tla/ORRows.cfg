SPECIFICATION Spec
CONSTANTS
    None = None
    print = print
    pack = pack
    plate = plate
    die = die
    box = box
    Users = {u1, u2}
    Processes <- MCProcesses
    Earlier <- MCEarlier
    Tasks <- MCTasks
    Home <- MCHome
    Requests = 5
SYMMETRY Symmetry
INVARIANTS TypeOK ApprovedHasTasks LastOneCloses
PROPERTY ApprovalFollowsRules
CHECK_DEADLOCK FALSE
