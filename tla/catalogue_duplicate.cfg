SPECIFICATION Spec
CONSTANTS
    None = None
    Original = original
    Requests = {q1, q2}
    Sellers = {s1}
    Names = {n1, n2}
    Files = {f1}
    MaxFaults = 0
INVARIANTS
    ProductNamesAreUnique
SYMMETRY RequestSymmetry
CHECK_DEADLOCK FALSE
