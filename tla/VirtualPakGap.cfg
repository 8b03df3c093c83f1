CONSTANTS
    MaxImages = 3
    MaxFaults = 3
SPECIFICATION Spec
PROPERTY OpensAcknowledged
