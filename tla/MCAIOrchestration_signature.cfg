\* Everything answers: the adapter scores, the database saves, publish and
\* the audit log succeed, and no restart happens.
CONSTANTS
    s1 = s1
    s2 = s2
    Slots <- MCSlots
    AdapterOutcomes = {"ok"}
    DbMayFail = FALSE
    SideEffectsMayFail = FALSE
    MaxRestarts = 0

SPECIFICATION AISpec

INVARIANT SignatureVerifies

CHECK_DEADLOCK FALSE
