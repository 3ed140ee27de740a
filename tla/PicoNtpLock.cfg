SPECIFICATION Spec
CONSTANTS
    RtcAccepts = TRUE
INVARIANT LwipLockReleased
