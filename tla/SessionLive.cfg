CONSTANTS
    Directors = {68}
    SensorTypes = {1}
    RxCap = 11
    Ticks = 1
    MaxBytes = 40
    MaxCommands = 3
    MaxFailures = 0
    Buttons = {"connect", "disconnect", "upload", "delay", "time", "start", "stop"}
SPECIFICATION Spec
PROPERTY KeysLookedAt
PROPERTY StreamEnds
PROPERTY ReaderReleased
CHECK_DEADLOCK FALSE
