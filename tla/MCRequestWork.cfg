CONSTANTS
    r1 = r1
    r2 = r2
    Requests = {r1, r2}
    Tasks = {r1, r2}
    Fields = {"request_id"}
    Values = {r1, r2}
    Bound = {r2}
    Limit = 1
    Chunks = {0, 1, 2}
    MaxSent = 2
    MaxDepth <- MCDepth
    HttpStatuses = {503}
    Raised <- MCRaised
SPECIFICATION Spec
INVARIANTS TypeOK NeverMoreThanLimit OnlyExcessIsRefused SizesAreTrue InnermostWins EnvelopeKeepsId TooLargeMeansExcess RetryNotTooEarly
