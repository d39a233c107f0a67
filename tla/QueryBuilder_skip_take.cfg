\* skip and take over the arguments of the builder's own test (20 and 10)
\* and one off the default page size (5, 15): the query against the
\* offset and count the caller named.
CONSTANTS
    Counts = {5, 10, 15, 20}
    Pages = {1, 2}
    Limits = {10}
    Totals = {0, 20}
    NULL = NULL
    MaxCalls = 3
SPECIFICATION QBSpec
INVARIANT SkipTakeHonoured
CHECK_DEADLOCK FALSE
