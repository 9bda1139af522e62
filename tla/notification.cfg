SPECIFICATION FairSpec
CONSTANTS
    Topics <- MCTopics
    Fresh <- MCFresh
    Users = {u1}
    Sockets = {c1}
    MaxEvents = 3
    MaxFaults = 1
    None = None
INVARIANTS
    CommittedIsHandled
    NewestMailIsLast
    ConnectedUserIsPushed
PROPERTIES
    EventsAreConsumed
