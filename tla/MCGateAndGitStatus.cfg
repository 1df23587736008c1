\* Three calls before, during and after the end of start-up; two browsers and
\* a refresh that stream one repository's status.
SPECIFICATION PartsSpec
CONSTANTS
    Caller = {c1, c2, c3}
    Nobody = Nobody
    Client = {b1, b2}
    RefreshCall = {r1}
    Poller = Poller
    s1 = s1
    Status = {s1, s2}
    None = None
    MaxChanges = 1
    MaxFailures = 1
INVARIANTS
    AnswersAreTrue
    StreamsFollowTheCache
PROPERTIES
    GateServesEveryone
    RemoteStatusConverges
\* The calls come to an end.
CHECK_DEADLOCK FALSE
