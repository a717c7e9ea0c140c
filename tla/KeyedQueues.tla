----------------------------- MODULE KeyedQueues -----------------------------
(***************************************************************************)
(* What multi_queue promises: a queue of values for each key.  A push puts *)
(* a value at the end of its queue, a pop answers with the oldest value of *)
(* its queue and removes it, a front only answers with it.                 *)
(***************************************************************************)
EXTENDS Sequences

CONSTANTS Keys, Values

VARIABLES
    queues,     \* [Keys -> Seq(Values)]
    answers     \* Seq(Values), what multiQueue_pop_rsp was given

vars == <<queues, answers>>

Init ==
    /\ queues = [k \in Keys |-> <<>>]
    /\ answers = <<>>

Push(k, v) ==
    /\ queues' = [queues EXCEPT ![k] = Append(@, v)]
    /\ UNCHANGED answers

Front(k) ==
    /\ queues[k] # <<>>
    /\ answers' = Append(answers, Head(queues[k]))
    /\ UNCHANGED queues

Pop(k) ==
    /\ queues[k] # <<>>
    /\ answers' = Append(answers, Head(queues[k]))
    /\ queues' = [queues EXCEPT ![k] = Tail(@)]

Next == \E k \in Keys : (\E v \in Values : Push(k, v)) \/ Front(k) \/ Pop(k)

Spec == Init /\ [][Next]_vars

=============================================================================
