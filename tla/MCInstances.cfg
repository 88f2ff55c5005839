\* Up to two instances, a timeout that fits an int32 and one that wraps.
SPECIFICATION FairSpec
CONSTANTS
    MaxInstances = 2
    Environments <- MCEnvironments
    Timeouts = {3, 9}
    MsPerSecond = 2
    Period = 1
    IntBound = 4
    MaxEvents = 1
CHECK_DEADLOCK FALSE
INVARIANT
    RunsAsAsked
    InstancesInv
PROPERTY
    TimeToStart
    InstancesComeUp
