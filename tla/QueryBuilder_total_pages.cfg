\* getManyAndCount with or without pagination, over an empty and a
\* non-empty result: the meta a client loops over.
CONSTANTS
    Counts = {5, 10}
    Pages = {1, 3}
    Limits = {10}
    Totals = {0, 20}
    NULL = NULL
    MaxCalls = 3
SPECIFICATION QBSpec
INVARIANT TotalPagesCountable
CHECK_DEADLOCK FALSE
