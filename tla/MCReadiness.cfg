CONSTANTS
    Budget <- DefaultBudget
    ConnectTimeout <- DefaultConnectTimeout
    SocketTimeout <- DefaultSocketTimeout
    MaxWaits = 2
    Probers = {p1, p2}
SPECIFICATION FairSpec
INVARIANTS TypeOK OnlyUnwindingOutlives AnswerFollowsPostgres
PROPERTIES EveryProbeAnswered EveryCheckEnds
