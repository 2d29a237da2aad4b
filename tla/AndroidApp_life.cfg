\* Three taps and one death of the process.
SPECIFICATION FairSpec
CHECK_DEADLOCK FALSE   \* an app nobody touches rests
CONSTANTS
    None = None
    MaxTaps = 3
    MaxKills = 1
INVARIANTS
    OneWorker
    RefusedOnlyWhileStopping
    LinkOfLiveRun
PROPERTIES
    StopClears
    StopEndsRun
