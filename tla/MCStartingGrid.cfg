CONSTANTS
    Host = host
    Guests = {g1, g2}
    MaxGuests = 2
    Admissions = {a1}
    NoAdmission = none
    Cases <- AllCases
SPECIFICATION Spec
SYMMETRY Symmetry
INVARIANT AdmissionUsedOnce
INVARIANT LockedAdmitsNobody
INVARIANT GridIsVerified
INVARIANT NotReadyStays
CHECK_DEADLOCK FALSE
