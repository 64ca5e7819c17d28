SPECIFICATION ManycastSpec
CONSTANTS
    Micros = 3
    FracMod = 4
    SecMod = 64
    EpochDelta = 52
    c = c
    s1 = s1
    o1 = o1
    g = g
    p1 = p1
    p2 = p2
    Hosts = {c, s1, o1, g}
    Client = c
    Group = g
    Ports = {p1}
    Servers = {s1}
    OtherServers = {o1}
    Members = {s1, o1}
    Subseconds = {0}
    StartSec = 10
    MaxInFlight = 2
    MaxLag = 2
    ManycastWaitTime = 0
    MaxStored = 2
    ClientSettings <- OnePoll
    Resolve <- MCResolve
    ReplyFrom <- MCReplyFrom
    Skew <- MCSkew
    Garbage = {0}
    OtherHeaders <- Healthy
INVARIANT UsesFirstServer
CHECK_DEADLOCK FALSE
