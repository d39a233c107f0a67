\* Two creates and two metric updates over two agents: updates of
\* different metrics of one agent race between findOne and save.
CONSTANTS
    Ids = {i1, i2}
    Names = {n1, n2}
    MetricKeys = {total_tasks, success_rate}
    MetricValues = {v1}
    NULL = NULL
    MaxCreates = 2
    MaxUpdates = 2
SPECIFICATION IndexerSpec
INVARIANT MetricsNotLost
CHECK_DEADLOCK FALSE
