CONSTANTS
    Directors = {68}
    SensorTypes = {1, 2}
    RxCap = 63
    Ticks = 1
    MaxBytes = 40
    MaxCommands = 3
    MaxFailures = 1
    Buttons = {"connect", "upload", "exit"}
SPECIFICATION Spec
INVARIANT ValuesMeetTheirTypes
INVARIANT InSync
INVARIANT ClientServed
