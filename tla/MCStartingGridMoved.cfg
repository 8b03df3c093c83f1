CONSTANTS
    Host = host
    Guests = {g1, g2}
    MaxGuests = 2
    Admissions = {}
    NoAdmission = none
    Cases <- LeavingCase
SPECIFICATION FairSpec
PROPERTY ReadyIsObserved
CHECK_DEADLOCK FALSE
