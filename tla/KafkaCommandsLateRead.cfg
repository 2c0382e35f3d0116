\* A connect, an export, a second connect and a read.
SPECIFICATION Spec
CONSTANTS
    MaxCommands = 5
    Profiles = {plain, plugged}
    Managed = {plugged}
    None = None
    Bounds <- OnlyLateRead
INVARIANTS
    PresentedReadIsServed
CHECK_DEADLOCK FALSE
