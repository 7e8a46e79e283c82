SPECIFICATION FairSpec
CONSTANTS
    leader = leader
    w1 = w1
    w2 = w2
    w3 = w3
    r1 = r1
    r2 = r2
    Leader = leader
    Workers = {w1, w2, w3}
    Nobody = nobody
    Resource = {r1, r2}
    Requires <- MCRequires
    Free = free
    FanOut = 3
    TaskBound = 4
    MaxReruns = 1
CHECK_DEADLOCK FALSE
INVARIANTS ExclusiveAtBest NoOrphans
PROPERTIES NothingHeldForNobody DelegationsAnswered
