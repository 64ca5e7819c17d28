--------------------------- MODULE PollRefinement ---------------------------
(***************************************************************************)
(* The client of SntpSystem implements TimePoll.                           *)
(***************************************************************************)
EXTENDS SntpSystem

\* Outside the repeat mode main calls unicast_mode once and counts nothing.
Repeats == c_set.timed_repeat_updates_enabled = 1

Ordered == [polls |-> IF Repeats THEN c_set.timed_repeat_updates_limit ELSE 1,
            tries |-> c_set.max_unicast_retries]

PollPhase == CASE cpc = "wait" -> "idle"
               [] cpc = "exit" -> "over"
               [] OTHER        -> "polling"

PollsEnded == IF Repeats THEN counter ELSE IF cpc = "exit" THEN 1 ELSE 0

Polls == INSTANCE TimePoll WITH
             order  <- Ordered,
             phase  <- PollPhase,
             polls  <- PollsEnded,
             asked  <- requests,
             tries  <- attempts,
             answer <- [i \in 1..Len(accepted) |-> accepted[i].id]

\* The client makes exactly the polls asked for, one after the other, failed
\* ones counted; each sends at most max_unicast_retries requests, and ends
\* with nothing or with the reply to its own last request, whatever the
\* network did with the datagrams of this and of earlier polls.
ImplementsTimePoll == Polls!Spec
=============================================================================
