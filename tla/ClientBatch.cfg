\* Batches of three subjects in waves of two, while requests are refused, lost
\* or served late, connections break and the caller cancels.
SPECIFICATION Spec
CONSTANTS
    Plans <- PairThenOne
    WorkerLimit = 2
    MaxFaults = 2
INVARIANTS
    ResultsTrue
    OrphansExplained
    StopsAfterFailure
    JoinedReturn
PROPERTIES
    InterruptedReturns
CHECK_DEADLOCK FALSE
