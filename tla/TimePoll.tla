------------------------------ MODULE TimePoll ------------------------------
(***************************************************************************)
(* What a run of the client promises, without network, clock or sockets:   *)
(* a number of polls, one after the other, each of which puts at most so   *)
(* many questions and ends without a result or with the answer to the      *)
(* question it put last.                                                   *)
(***************************************************************************)
EXTENDS Integers

VARIABLES
    order,  \* what was asked for: polls, and questions a poll may put
    phase,  \* "idle" between polls, "polling", "over"
    polls,  \* polls ended
    asked,  \* questions put so far
    tries,  \* of these, by the current poll
    answer  \* << >>, or the one question this poll has the answer to

vars == <<order, phase, polls, asked, tries, answer>>

Orders == [polls : Int, tries : Int]

\* Between two polls, or after the last one.
PhaseAfter(n) == IF n < order.polls THEN "idle" ELSE "over"

Init ==
    /\ order \in Orders
    /\ phase = PhaseAfter(0)
    /\ polls = 0
    /\ asked = 0
    /\ tries = 0
    /\ answer = << >>

\* A poll begins, with no question put and nothing known.
Begin ==
    /\ phase = "idle"
    /\ phase' = "polling"
    /\ tries' = 0
    /\ answer' = << >>
    /\ UNCHANGED <<order, polls, asked>>

\* The poll ends, and is counted.
End ==
    /\ phase' = PhaseAfter(polls + 1)
    /\ polls' = polls + 1

\* There is not even a socket: the poll ends where it began.
EndAtOnce ==
    /\ phase = "idle"
    /\ End
    /\ tries' = 0
    /\ answer' = << >>
    /\ UNCHANGED <<order, asked>>

Ask ==
    /\ phase = "polling"
    /\ tries < order.tries
    /\ asked' = asked + 1
    /\ tries' = tries + 1
    /\ UNCHANGED <<order, phase, polls, answer>>

\* The answer to the question put last, by this poll.
Answer ==
    /\ phase = "polling"
    /\ tries > 0
    /\ answer' = <<asked>>
    /\ End
    /\ UNCHANGED <<order, asked, tries>>

Fail ==
    /\ phase = "polling"
    /\ End
    /\ UNCHANGED <<order, asked, tries, answer>>

Next == Begin \/ EndAtOnce \/ Ask \/ Answer \/ Fail

Spec == Init /\ [][Next]_vars
=============================================================================
