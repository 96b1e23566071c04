\* One subscriber that falls behind by more than its channel.
CONSTANTS
    Capacity = 2  Subs = {a}  Buffer = 2  MaxSpans = 5
SPECIFICATION Spec
INVARIANT GapOnNextDelivery
CHECK_DEADLOCK FALSE
