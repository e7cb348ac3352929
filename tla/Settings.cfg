\* The settings tools over a bus that changes twice, with one failing access;
\* and the functions of the codec.
CONSTANTS
    AtFirst <- SomeBuses
    Nodes = {0, 1, 2}
    Faults = {"pipe", "denied"}
    MaxFaults = 1
    MaxChanges = 2
    SeqMax = 2
    FocusRange <- ShortRange
    ImageRange <- SignedRange
    KelvinRange <- Temperatures
    Levels <- SomeLevels
    Asked <- SomeRequests
    Kelvins = {10, 43}
    MaxCalls = 2
SPECIFICATION FairSpec
INVARIANTS TypeOK InForce OnlyPassed OnlyTheCamera NumbersDiffer SteadyIsFound ResetIsTold
    ParseInvertsBuild DamageIsCaught ValuesReturn
PROPERTIES SettingsAnswered
CHECK_DEADLOCK FALSE
