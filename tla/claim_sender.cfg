SPECIFICATION Spec
CONSTANTS
    Micros = 3
    FracMod = 4
    SecMod = 64
    EpochDelta = 52
    c = c
    s1 = s1
    s2 = s2
    o1 = o1
    p1 = p1
    p2 = p2
    Hosts = {c, s1, s2, o1}
    Client = c
    Ports = {p1, p2}
    Servers = {s1}
    OtherServers = {o1}
    Subseconds = {0}
    StartSec = 10
    MaxInFlight = 2
    MaxLag = 1
    ClientSettings <- OneSetting
    Resolve <- MCResolve
    ReplyFrom <- MultihomedReplyFrom
    Skew <- MCSkew
    Garbage = {0}
    OtherHeaders <- MCOtherHeaders
INVARIANT RepliesFromServerAsked
CHECK_DEADLOCK FALSE
