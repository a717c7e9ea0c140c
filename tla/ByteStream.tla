----------------------------- MODULE ByteStream -----------------------------
(***************************************************************************)
(* What a TCP connection promises the two applications: each reads, in     *)
(* order and without gaps or repetitions, what the other one wrote, and no *)
(* byte counts as acknowledged before the other end has passed it on.      *)
(***************************************************************************)
EXTENDS Integers, Sequences, SequencesExt

CONSTANT Ends, Peer(_)

VARIABLES
    written,    \* written[e]: how many bytes, 1, 2, ..., e has written
    delivered,  \* delivered[e]: the bytes passed on to e's application
    acked       \* acked[e]: how many of its bytes e knows to have arrived

vars == <<written, delivered, acked>>

Bytes(e) == [k \in 1..written[e] |-> k]

Init ==
    /\ written = [e \in Ends |-> 0]
    /\ delivered = [e \in Ends |-> <<>>]
    /\ acked = [e \in Ends |-> 0]

Write(e) ==
    /\ written' = [written EXCEPT ![e] = @ + 1]
    /\ UNCHANGED <<delivered, acked>>

Deliver(e) ==
    /\ \E n \in 1..written[Peer(e)] :
          /\ n > Len(delivered[e])
          /\ delivered' = [delivered EXCEPT ![e] = SubSeq(Bytes(Peer(e)), 1, n)]
    /\ UNCHANGED written

Acknowledge(e) ==
    /\ \E n \in acked[e]..Len(delivered[Peer(e)]) : acked' = [acked EXCEPT ![e] = n]
    /\ UNCHANGED written

\* A segment may carry data, an acknowledgement, or both.
Next ==
    \E e \in Ends :
       \/ Write(e)
       \/ Deliver(e) /\ UNCHANGED acked
       \/ Acknowledge(e) /\ UNCHANGED delivered
       \/ Deliver(e) /\ Acknowledge(e)

Spec == Init /\ [][Next]_vars
=============================================================================
