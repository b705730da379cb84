SPECIFICATION MCSpec
CONSTANTS
    EnterEvent = {enter}
    ExitEvent = {exit}
    ProcessEvent = {death}
    None = None
    MIN_GAP_FRAMES = 2
    ENTER_HOLD_FRAMES = 4
    MaxFed = 4
    LastFeedFrame = 4
INVARIANTS
    TypeOK
    ExactlyOnceInOrder
    Paced
    Prompt
PROPERTIES
    ImplementsChannel
    EveryEventReleased
