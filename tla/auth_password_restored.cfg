SPECIFICATION Spec
CONSTANTS
    None = None
    Registration = registration
    Requests = {q1, q2}
    Passwords = {pw1, pw2}
    Names = {n1}
    MaxFaults = 0
INVARIANTS
    PasswordChangeIsKept
SYMMETRY RequestSymmetry
CHECK_DEADLOCK FALSE
