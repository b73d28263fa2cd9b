SPECIFICATION Spec
CONSTANTS
    Threads = {"thread"}
    Main = "main"
    QUEUE_CAPACITY = 2
    HasNul = {2}
    MaxCalls = 4
    NumRuns = 1
    Capacities = {0, 1}
    MaxSends = 2
INVARIANTS TypeOK DropsAreCounted PrintedInOrder LogsBeforeMessage
    ReturnedMeansPumped JoinedUnlessJumped
PROPERTIES RunEnds RecordsLeaveQueue
CHECK_DEADLOCK FALSE
