\* Repository calls may reject and the process may restart once; the event bus and audit log answer.
CONSTANTS
    s1 = s1
    s2 = s2
    Slots <- MCSlots
    AdapterOutcomes = {"ok", "error"}
    DbMayFail = TRUE
    SideEffectsMayFail = FALSE
    MaxRestarts = 1

SPECIFICATION AISpec

INVARIANT AITypeOK
PROPERTY ImplementsLifecycle

CHECK_DEADLOCK FALSE
