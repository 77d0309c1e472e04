---------------------------- MODULE TracyDelivery ----------------------------
(***************************************************************************)
(* What the agent promises about trace events, whatever the threads,      *)
(* timers and connections do: an event enters the pipeline when            *)
(* tracy_submit hands it to the tracer thread, and leaves it in the order  *)
(* it entered.  A batch of events leaves at once (one flush); some of the  *)
(* batch may be lost (a frame dropped on WouldBlock or on a failed write), *)
(* but what reaches the collectors is never reordered, duplicated or       *)
(* invented (spec.md 4.1, 4.3, 5 Ordering, 8.1).                           *)
(***************************************************************************)
EXTENDS Sequences, SequencesExt

VARIABLES
    pending,   \* events handed to the tracer thread and not yet flushed
    sent       \* events written to the collectors, in order

vars == <<pending, sent>>

(* t is s with some elements left out (greedy matching decides it).       *)
RECURSIVE IsSubsequence(_, _)
IsSubsequence(t, s) ==
    IF t = <<>> THEN TRUE
    ELSE IF s = <<>> THEN FALSE
    ELSE IF Head(t) = Head(s) THEN IsSubsequence(Tail(t), Tail(s))
    ELSE IsSubsequence(t, Tail(s))

Init == pending = <<>> /\ sent = <<>>

\* A producer hands one event to the tracer thread.
Submit ==
    /\ IsPrefix(pending, pending') /\ Len(pending') = Len(pending) + 1
    /\ UNCHANGED sent

\* A flush takes the k oldest events; a subsequence of them is written.
Transmit ==
    \E k \in 1..Len(pending) :
        /\ pending' = SubSeq(pending, k + 1, Len(pending))
        /\ IsPrefix(sent, sent')
        /\ IsSubsequence(SubSeq(sent', Len(sent) + 1, Len(sent')),
                         SubSeq(pending, 1, k))

Spec == Init /\ [][Submit \/ Transmit]_vars
=============================================================================
