-------------------------- MODULE MCManycastSystem --------------------------
(***************************************************************************)
(* Instances of ManycastSystem for TLC.                                    *)
(***************************************************************************)
EXTENDS ManycastSystem

CONSTANTS c, s1, o1, g, p1, p2

MCResolve == [x \in {"unset"} |-> {c}]
MCReplyFrom == [x \in Servers |-> {x}]
MCSkew == [x \in Hosts |-> 0]

\* server_host is written by main before it is read.
Set(retries, repeat, limit) ==
    [server_host |-> "unset", recv_uni_timeout |-> 1, max_unicast_retries |-> retries,
     poll_wait |-> 0, timed_repeat_updates_enabled |-> repeat,
     timed_repeat_updates_limit |-> limit]

OnePoll == {Set(1, 1, 1)}

Header(version, mode, stratum, synced) ==
    [li_vn_mode |-> version * 8 + mode, stratum |-> stratum, synced |-> synced]

\* A healthy server, and one that has no stratum to give.
Healthy == {Header(4, 4, 1, TRUE)}
HealthyOrNot == {Header(4, 4, 1, TRUE), Header(4, 4, 16, TRUE)}
=============================================================================
