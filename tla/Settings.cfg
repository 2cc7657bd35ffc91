CONSTANTS
    AnalogPins = {3}
    DigitalPins = {}
    AnalogTypes = {1, 2}
    DigitalTypes = {1, 4}
    I2CTypes = {1, 3}
    PHPins = {2}
    ECPins = {0}
    Delays = {0, 500, 1000, 30000, 66000, 256000, 6000000, 15360000}
    UpLimit = 58
    MaxFailures = 2
    Calibrations <- MCCalibrations
SPECIFICATION MCSpec
INVARIANT TypeOK
INVARIANT StoredWhenIdle
PROPERTY OthersUntouched
PROPERTY PromiseKept
PROPERTY RegisteredIsKept
PROPERTY WaitKept
PROPERTY ConfirmedDelay
