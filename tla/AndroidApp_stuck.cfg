\* One start, whose run ends at once.
SPECIFICATION Spec
CHECK_DEADLOCK FALSE   \* an app nobody touches rests
CONSTANTS
    None = None
    MaxTaps = 1
    MaxKills = 0
INVARIANT RunningHasWorker
