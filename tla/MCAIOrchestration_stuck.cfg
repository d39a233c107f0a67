\* The event bus and audit log may reject; the database answers.
CONSTANTS
    s1 = s1
    s2 = s2
    Slots <- MCSlots
    AdapterOutcomes = {"ok", "error"}
    DbMayFail = FALSE
    SideEffectsMayFail = TRUE
    MaxRestarts = 0

SPECIFICATION AIFairSpec

PROPERTY EveryScoringSettles

CHECK_DEADLOCK FALSE
