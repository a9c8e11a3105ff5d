SPECIFICATION Spec
CONSTANTS
    Tabs = {t1, t2}
    MaxMessages = 4
    MaxRequests = 3
    MaxLapses = 2
SYMMETRY Views
CHECK_DEADLOCK FALSE
INVARIANTS
    TypeOK
    DiscardedStaysGone
    RecordedTurnsStay
