\* The process may restart once; every awaited call answers.
CONSTANTS
    s1 = s1
    s2 = s2
    Slots <- MCSlots
    AdapterOutcomes = {"ok", "error"}
    DbMayFail = FALSE
    SideEffectsMayFail = FALSE
    MaxRestarts = 1

SPECIFICATION AIFairSpec

PROPERTY EveryScoringSettles

CHECK_DEADLOCK FALSE
