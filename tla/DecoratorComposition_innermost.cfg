\* @Transform or @Validate written twice: which mapper or schema the request runs.
CONSTANTS
    Kinds = {"COMPOSABLE", "TRANSFORM", "VALIDATE"}
    Options = {o1, o2}
    o1 = o1
    o2 = o2
    MaxDecorators = 3
    NULL = NULL
SPECIFICATION DecSpec
INVARIANT InnermostConfigWins
CHECK_DEADLOCK FALSE
