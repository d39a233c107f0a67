\* Up to three of the ordering decorators stacked in any order over one
\* method: the guards, the descriptor wrappers and the interceptor phases
\* run as DECORATOR_PRIORITY says only if the stacking order does not matter.
CONSTANTS
    Kinds = {"AUTH", "RATE_LIMIT", "CACHE", "LOG", "COMPOSABLE", "TRANSFORM", "COMPRESS"}
    Options = {o1, o2}
    o1 = o1
    o2 = o2
    MaxDecorators = 3
    NULL = NULL
SPECIFICATION DecSpec
INVARIANT PhasesRunInPriorityOrder
CHECK_DEADLOCK FALSE
