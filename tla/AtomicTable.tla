----------------------------- MODULE AtomicTable ------------------------------
(***************************************************************************)
(* What the state table promises its clients: reads and the writes that    *)
(* follow them are transactions, and a transaction on a session excludes   *)
(* every other change of that session.  No FIFOs, no waiting, no locks.    *)
(***************************************************************************)
CONSTANTS Sessions, States, Clients, None

VARIABLES
    table,      \* the state of each session
    txn         \* txn[c]: the session c has read and the state it was told

Idle == [id |-> None, told |-> None]

Init == /\ table = [s \in Sessions |-> "CLOSED"]
        /\ txn = [c \in Clients |-> Idle]

Free(s) == \A c \in Clients : txn[c].id # s

Begin(c, s) ==
    /\ txn[c] = Idle /\ Free(s)
    /\ txn' = [txn EXCEPT ![c] = [id |-> s, told |-> table[s]]]
    /\ UNCHANGED table

\* A transaction ends with a write, based on a state that still holds.
Commit(c, s) ==
    /\ txn[c] = [id |-> s, told |-> table[s]]
    /\ \E v \in States : table' = [table EXCEPT ![s] = v]
    /\ txn' = [txn EXCEPT ![c] = Idle]

\* A write outside a transaction: the active open of a session, by tx, and the
\* close of a session that timed out.
Open(s) ==
    /\ txn["tx"] = Idle /\ Free(s)
    /\ table' = [table EXCEPT ![s] = "SYN_SENT"]
    /\ UNCHANGED txn

Close(s) ==
    /\ Free(s)
    /\ table' = [table EXCEPT ![s] = "CLOSED"]
    /\ UNCHANGED txn

Next == \E s \in Sessions : \/ \E c \in Clients : Begin(c, s) \/ Commit(c, s)
                            \/ Open(s) \/ Close(s)

Spec == Init /\ [][Next]_<<table, txn>>
=============================================================================
