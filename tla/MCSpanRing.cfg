\* Two subscribers whose channels fill up, and a ring that wraps twice.
CONSTANTS
    Capacity = 2  Subs = {a, b}  Buffer = 2  MaxSpans = 4
SPECIFICATION Spec
INVARIANTS NoSendOnClosed NothingLost
PROPERTY KeepsLastSpans
CHECK_DEADLOCK FALSE
