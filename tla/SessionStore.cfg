CONSTANTS
    c1 = c1
    c2 = c2
    s1 = s1
    s2 = s2
    NoServer = NoServer
    Caller <- MCCaller
    Server <- MCServer
    MaxAccepted = 3
    KindOf <- MCKindOf
    MaxFailures = 1
SPECIFICATION Spec
SYMMETRY StoreSymmetry
INVARIANTS TypeOK ReleasedIsDurable LogsContinueState OneRecoverer RecoveryIsWhole
PROPERTY DurableLogPromise
CHECK_DEADLOCK FALSE
