CONSTANTS
    Panel <- Panels
    Bars = {"A", "D"}
    Offered = {1, 2}
    MaxCommands = 3
    MaxMessages = 2
SPECIFICATION Spec
INVARIANTS PanelsFollow NoStrayStream
CHECK_DEADLOCK FALSE
