CONSTANTS
    Budget <- DefaultBudget
    ConnectTimeout <- DefaultConnectTimeout
    SocketTimeout <- DefaultSocketTimeout
    MaxWaits = 2
    Probers = {p1, p2}
SYMMETRY ProberSymmetry
SPECIFICATION Spec
INVARIANT OptionalNeverFailsProbe
