\* The recovery thread cannot be started.
SPECIFICATION FairSpec
CONSTANTS
    Requests = {q1, q2}
    None = None
    Recovery = Recovery
    MaxSlots = 2
PROPERTY
    RecoveryFailureExits
