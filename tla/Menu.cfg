CONSTANTS
    PinMenuLength <- MCPinMenuLength
    TypeMenuLength <- MCTypeMenuLength
    Outside = {1}
    MaxDepth = 7
SPECIFICATION Spec
INVARIANT TypeOK
INVARIANT KeysMeanOpen
INVARIANT PathIsTheWay
INVARIANT CalibratedHasType
PROPERTY ClosedMeansLoop
