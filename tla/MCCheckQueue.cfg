SPECIFICATION FairQueueSpec
CONSTANTS
    w1 = w1
    w2 = w2
    c1 = c1
    c2 = c2
    c3 = c3
    Worker = {w1, w2}
    Master = Master
    Check = {c1, c2, c3}
    Bad = {c3}
    nBatchSize = 2
INVARIANTS TypeOK VerdictIsExact TodoIsOutstanding UnusedBetweenBlocks
PROPERTIES WaitReturns WorkersDrain
