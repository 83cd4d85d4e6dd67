SPECIFICATION Spec
CONSTANTS
    Threads = {t1, t2}
    Handles = {h1, h2}
    Null = null
    MaxRefs = 2
    Sessions = {s1}
    MaxCalls = 2
INVARIANTS
    TypeOK
    NoSendAfterSignOut
    FirstConnectionSafe
    ConfigurationInOrder
PROPERTIES
    ConfigurationOnlyNewer
    GuardReleased
    ConfigurationApplied
CHECK_DEADLOCK FALSE
