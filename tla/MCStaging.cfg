\* One staging of at most three pods, with crashes and lost answers.
SPECIFICATION FairSpec
CONSTANTS
    g1 = g1
    Stagings = {g1}
    MaxPods = 3
CHECK_DEADLOCK FALSE
INVARIANTS
    SuccessHasDroplet
    JobKeptUntilTold
    ToldOnce
    NeverStuck
    StagingInv
PROPERTIES
    ImplementsVerdicts
    StagingEnds
