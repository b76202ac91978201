------------------------------ MODULE Lifecycle ------------------------------
(* What the server promises each client, without descriptors, processes or   *)
(* the event loop: the head of a request is read, then its body, a script may *)
(* work on it, and it is answered, in that order and at most once, and the    *)
(* client is let go of.                                                       *)
CONSTANT Conns

VARIABLE stage

Stages == {"none", "heading", "receiving", "working", "answering"}

TypeOK == stage \in [Conns -> Stages]

Init == stage = [c \in Conns |-> "none"]

Move(c, from, to) ==
    /\ stage[c] \in from
    /\ stage' = [stage EXCEPT ![c] = to]

Arrive(c) == Move(c, {"none"}, "heading")
Receive(c) == Move(c, {"heading"}, "receiving")
Delegate(c) == Move(c, {"heading", "receiving"}, "working")
Reply(c) == Move(c, {"heading", "receiving", "working"}, "answering")

\* A client may be let go of at any stage, several of them at once.
Release(D) == stage' = [c \in Conns |-> IF c \in D THEN "none" ELSE stage[c]]

Next ==
    \/ \E c \in Conns : Arrive(c) \/ Receive(c) \/ Delegate(c) \/ Reply(c)
    \/ \E D \in SUBSET Conns : Release(D)

Spec == Init /\ [][Next]_stage

\* A client whose head was read is not kept for ever. One that sends its head
\* line by line may be.
FairSpec ==
    /\ Spec
    /\ \A c \in Conns :
        WF_stage(stage[c] # "heading" /\ \E D \in SUBSET Conns : c \in D /\ Release(D))

=============================================================================
