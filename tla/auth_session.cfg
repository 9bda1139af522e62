SPECIFICATION FairSpec
CONSTANTS
    None = None
    Registration = registration
    Requests = {q1, q2, q3}
    Passwords = {pw1, pw2}
    Names = {n1}
    MaxFaults = 1
INVARIANTS
    IInv
PROPERTIES
    AvatarIsKept
    LogoutIsFinal
    OnlyLoginOpensSession
    RequestsAnswered
CHECK_DEADLOCK FALSE
