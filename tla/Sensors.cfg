CONSTANTS
    Wrap = 48
    IntWrap = 16
    SensorDelay = 5
    PingTime = 6
    ECTime = 4
    Overhead = 2
    CheckLimit = 3
    Samples = 1
    Scale = 12
    Tick = 2
    ByteBits = 2
    Readings <- MCReadings
    Count = 2
    Forever = 9
    Roms <- MCRoms
    FamilyBits = 2
    TempBits = 2
    Temps = {1, 2}
    MaxChanges = 2
    LongWrap = 2048
    Probe = {0, 1, 613, 1024, 1101, 2046}
    CalSteps = 1
    Celsius <- MCCelsius
    Humidity = {0, 5, 994, 995, 1000}
    Raw16 <- MCRaw16
    Lights = {0, 1, 11999, 32767, 32768, 65535}
SPECIFICATION Spec
INVARIANT Measured
INVARIANT DataRight
PROPERTY MeasuringEnds
