---------------------------- MODULE MCServerLoad ----------------------------
(***************************************************************************)
(* An instance of ServerLoad for TLC.                                      *)
(***************************************************************************)
EXTENDS ServerLoad

CONSTANTS c1, c2, s1, p1

MCReplyFrom == [x \in Servers |-> {x}]
MCSkew == [x \in Hosts |-> IF x = s1 THEN 2 ELSE 0]

\* Requests of versions 4 and 3, a version 5 request, and a server's packet.
MCFirstBytes == {4 * 8 + 3, 3 * 8 + 3, 5 * 8 + 3, 4 * 8 + 4}
=============================================================================
