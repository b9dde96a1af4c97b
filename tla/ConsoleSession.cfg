\* The page is used in every way while answers are overtaken or lost, sessions
\* end and S3 clients change the buckets.
SPECIFICATION Spec
CONSTANTS
    b1 = b1
    b2 = b2
    Buckets = {b1, b2}
    NoBucket = NoBucket
    MaxCalls = 3
    Pages <- OneFull
    Visits <- EachVisit
INVARIANTS
    OnePoll
    BrowserTrue
PROPERTIES
    EndedSessionNoticed
    ControlsReleased
CHECK_DEADLOCK FALSE
