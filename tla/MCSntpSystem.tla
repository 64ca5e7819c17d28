---------------------------- MODULE MCSntpSystem ----------------------------
(***************************************************************************)
(* Instances of SntpSystem for TLC.                                        *)
(***************************************************************************)
EXTENDS PollRefinement

CONSTANTS c, s1, s2, o1, p1, p2

\* Three names: a host that runs sntpserver, one that runs something else and
\* one that runs no server.
MCResolve == [x \in {"ours", "other", "silent"} |->
                 CASE x = "ours" -> {s1} [] x = "other" -> {o1} [] x = "silent" -> {s2}]
MCReplyFrom == [x \in Servers |-> {x}]
MCSkew == [x \in Hosts |-> IF x = s1 THEN 1 ELSE IF x = o1 THEN -1 ELSE 0]

\* s1 has a second address, s2, that its replies may carry.
MultihomedReplyFrom == [x \in Servers |-> {x, s2}]

Set(host, timeout, retries, wait, repeat, limit) ==
    [server_host |-> host, recv_uni_timeout |-> timeout, max_unicast_retries |-> retries,
     poll_wait |-> wait, timed_repeat_updates_enabled |-> repeat,
     timed_repeat_updates_limit |-> limit]

\* Two requests to sntpserver: of one poll, and of two polls; single polls of
\* the other server, once outside the repeat mode; and the limits at which
\* there is no poll, or no request; and two polls with a wait that nobody answers.
UnicastSettings ==
    {Set("silent", 1, 2, 1, 1, 2),
     Set("ours", 1, 2, 0, 1, 1), Set("ours", 1, 1, 0, 1, 2),
     Set("other", 1, 2, 0, 0, 5), Set("other", 1, 1, 0, 1, 1),
     Set("ours", 1, 2, 0, 1, 0), Set("other", 1, 0, 0, 1, 2)}

OneSetting == {Set("ours", 1, 1, 1, 1, 1)}

Header(version, mode, stratum, synced) ==
    [li_vn_mode |-> version * 8 + mode, stratum |-> stratum, synced |-> synced]

\* A healthy server; the next version; a broadcast server; a server with no
\* stratum to give; a server that has not set its clock.
MCOtherHeaders ==
    {Header(4, 4, 1, TRUE), Header(3, 4, 1, TRUE), Header(4, 5, 1, TRUE),
     Header(4, 4, 16, TRUE), Header(4, 4, 1, FALSE)}
=============================================================================
