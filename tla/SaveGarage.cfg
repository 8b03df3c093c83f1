CONSTANTS
    MaxImages = 2
    MaxFaults = 3
    MaxProgress = 2
    MaxTasks = 2
SPECIFICATION GarageSpec
INVARIANT AdventureKept
INVARIANT PakKept
INVARIANT AllOrNothing
PROPERTY OpensOrLeavesBackup
CHECK_DEADLOCK FALSE
