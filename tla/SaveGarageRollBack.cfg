CONSTANTS
    MaxImages = 2
    MaxFaults = 2
    MaxProgress = 1
    MaxTasks = 1
SPECIFICATION GarageSpec
INVARIANT RolledBackSafely
CHECK_DEADLOCK FALSE
