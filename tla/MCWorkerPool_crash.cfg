SPECIFICATION Spec
CONSTANTS
    Size = 1
    MaxJobsPerWorker = 2
    Jobs = {j1, j2}
CHECK_DEADLOCK FALSE
INVARIANT CrashedAreReplaced
