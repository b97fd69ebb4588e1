SPECIFICATION FairSpec

CONSTANTS
    Cpus = {1}
    MaxMapCount = 1
    MaxJobId = 2
    Submits = {1, 2}
    MaxCandidates = 3
    MaxWorks = 4

INVARIANTS
    JobIsSubmittedOnce

PROPERTIES
    StoppedJobsStaySilent
    WorkFollowsCandidate
    CandidateIsBuilt

CHECK_DEADLOCK FALSE
