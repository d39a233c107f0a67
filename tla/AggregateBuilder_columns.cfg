\* Up to four builder calls, with default or given aliases: one result
\* column per aggregate.
CONSTANTS
    Fields = {amount, category}
    Aliases = {total}
    Values = {v1}
    Undefined = Undefined
    NULL = NULL
    MaxCalls = 4
SPECIFICATION AggSpec
INVARIANT ColumnPerAggregate
CHECK_DEADLOCK FALSE
