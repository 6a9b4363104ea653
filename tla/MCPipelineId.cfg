CONSTANTS
    Requests = {r1, r2}
    Supplied = supplied
SYMMETRY RequestSymmetry
SPECIFICATION Spec
INVARIANT EveryErrorCarriesId
