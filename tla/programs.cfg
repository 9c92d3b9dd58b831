SPECIFICATION ProgramsSpec
CONSTANTS
    MaxMirrors = 3
    MaxThreads = 2
    Top = 2
    Times = {1, 2}
    Buffer = 2
    Sizes = {1, 2, 3, 4}
    Size = 2
    MaxRedir = 2
    MaxFaults = 3
INVARIANTS ProgramsTyped CountersAgree FastestChosen ServedInPlace FullCallsSuffice WholeUnlessUpset
PROPERTIES ProgramsEnd
CHECK_DEADLOCK FALSE
