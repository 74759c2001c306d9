CONSTANTS
    WordSize = 2
    IntMax = 127
    UIntMax = 255
    NewLine = 3
    CarriageReturn = 4
    ExpBits = 4
    MantBits = 4
    HighBits = 3
    LowBits = 6
    MaxFuncs = 4
    DayWrap = 1000000
    DstSeconds = 7200
    Letters = {1, 2}
    MaxText = 7
    MaxWord = 5
    LastDay = 48000
    Years <- SetYears
    Settings <- SomeSettings
    Registrations <- SomeRegistrations
    StrayDays = {0, 999999}
    Moments <- SomeMoments
    DayTimes <- SomeTimes
    MaxBuffer = 5
    MaxSet = 2
    BlockLists <- SomeBlocks
    MaxBlocks = 2
    MaxBlock = 3
    MaxRegs = 2
    MaxArgs = 4
    MaxNumeral = 4
    MaxRoot = 255
    MaxMemory = 6
    MaxLines = 6
SPECIFICATION Spec
CHECK_DEADLOCK FALSE
INVARIANTS
    StrStrFinds WcsStrFinds ScansFindFirst ComparisonsOrder PiecesInOrder
    NumbersConvert ConSearchSound ConCopyInPlace
    DatesFollow SetTimesNormalize DifferencesElapse
    ClassesAgree RootsAreNearest FoundAreNamed ExitsReverse
