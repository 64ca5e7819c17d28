SPECIFICATION Spec
CONSTANTS
    Micros = 3
    FracMod = 4
    SecMod = 64
    EpochDelta = 51
    c1 = c1
    c2 = c2
    s1 = s1
    p1 = p1
    Hosts = {c1, c2, s1}
    Client = c1
    Senders = {c1, c2}
    Ports = {p1}
    Servers = {s1}
    Subseconds = {0, 1}
    StartSec = 10
    MaxInFlight = 2
    MaxPackets = 2
    MaxSec = 11
    ReplyFrom <- MCReplyFrom
    Skew <- MCSkew
    FirstBytes <- MCFirstBytes
INVARIANTS
    TypeOK
    AnswersItsRequest
    ReplyTimesOrdered
CHECK_DEADLOCK FALSE
