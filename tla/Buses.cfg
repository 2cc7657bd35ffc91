CONSTANTS
    Address = {"RTC"}
    BufferLength = 3
    Byte = {0, 1}
    EraseTimeout = 3
    InitTimeout = 3
    MaxChanges = 2
    MaxQuantity = 4
    ReadTimeout = 2
    Wrap = 16
    WriteTimeout = 2
SPECIFICATION Spec
INVARIANT BusLeftByMaster
INVARIANT CardKept
PROPERTY ResultsTrue
PROPERTY SlaveServed
PROPERTY CallsReturn
PROPERTY CallsEnd
