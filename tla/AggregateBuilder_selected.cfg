\* Up to four builder calls over two fields: the built query against the
\* selectors it was built from.
CONSTANTS
    Fields = {amount, category}
    Aliases = {total}
    Values = {v1}
    Undefined = Undefined
    NULL = NULL
    MaxCalls = 4
SPECIFICATION AggSpec
INVARIANT BuiltAsSelected
CHECK_DEADLOCK FALSE
