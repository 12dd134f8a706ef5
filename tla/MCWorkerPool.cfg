SPECIFICATION FairSpec
CONSTANTS
    Size = 2
    MaxJobsPerWorker = 2
    Jobs = {j1, j2}
CHECK_DEADLOCK FALSE
INVARIANTS PoolInv NoOrphans
PROPERTIES EveryJobSettles ShutdownEnds
