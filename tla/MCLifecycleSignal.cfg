CONSTANT Requests = {r1, r2}
SPECIFICATION FairSpec
PROPERTY SignalLeadsToExit
CHECK_DEADLOCK FALSE
