\* The database answers and no restart happens; the adapter, publish and
\* the audit log may fail.
CONSTANTS
    s1 = s1
    s2 = s2
    Slots <- MCSlots
    AdapterOutcomes = {"ok", "error"}
    DbMayFail = FALSE
    SideEffectsMayFail = TRUE
    MaxRestarts = 0

SPECIFICATION AIFairSpec

INVARIANT AuditTrailMatchesRow
PROPERTY AcceptedScoringSettles

CHECK_DEADLOCK FALSE
