SPECIFICATION Spec
CONSTANTS
    Pid = {1, 2}
    INITIAL_PID = 0
    INITIAL_NAME = "sh"
    CallName = {"read", "fork"}
    Part = {"sh"}
    Path <- NoPaths
    Number = {0}
    Args <- Args0
    Result <- Returns
    None = None
    MIN_GAP_FRAMES = 6
    ENTER_HOLD_FRAMES = 20
    STATUS_TTL = 0
    Root = 1
    MaxQuiet = 45
    MaxResultAge = 0
    Released <- Family
INVARIANTS
    SceneTypeOK
    LastEnterShown
    SettlesAfterExit
    ResultAfterReturn
    StatusIsLastCall
    BoxesTellTheTruth
    PulseFromItsBox
    NudgedOnScreen
PROPERTIES
    DescentUndisturbed
