CONSTANTS
    Requests = {r1, r2}
    Supplied = supplied
SPECIFICATION FairSpec
INVARIANTS TypeOK InFlightExact TalliedAsAnswered FailuresCounted IdsAgree 
PROPERTY InFlightDrains CountedBeforeTold
