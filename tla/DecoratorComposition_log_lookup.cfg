\* @Log stacked with @Validate on a composable method: the interceptor looks
\* the registry up by the name of the function @Log put in place.
CONSTANTS
    Kinds = {"COMPOSABLE", "VALIDATE", "LOG"}
    Options = {o1, o2}
    MaxDecorators = 3
    NULL = NULL
SPECIFICATION DecSpec
INVARIANT ValidatedBeforeHandler
CHECK_DEADLOCK FALSE
