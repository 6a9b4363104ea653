CONSTANT Requests = {r1, r2}
SYMMETRY RequestSymmetry
SPECIFICATION Spec
PROPERTY DrainingReportsNotReady
CHECK_DEADLOCK FALSE
