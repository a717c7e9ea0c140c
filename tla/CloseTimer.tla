------------------------------ MODULE CloseTimer ------------------------------
(***************************************************************************)
(* close_timer(): a session in TIME_WAIT is released CloseTime scans after *)
(* it was put in; and the merge of its releases with those of the          *)
(* retransmit timer on their way to the state table.                       *)
(***************************************************************************)
EXTENDS Integers, Sequences

CONSTANTS
    MaxSessions,    \* MAX_SESSIONS
    CloseTime,      \* TIME_60s in scans of the table
    Depth,          \* depth of the FIFOs
    MaxSets         \* bound: sessions put into TIME_WAIT

VARIABLES
    entry,      \* closeTimerTable
    curr,       \* ct_currSessionID
    set,        \* ct_setSessionID
    prev,       \* ct_prevSessionID, which a cycle that waits decrements
    waiting,    \* ct_waitForWrite
    setQ,       \* rxEng2timer_setCloseTimer
    closedQ,    \* closeTimer2stateTable_releaseState
    abortedQ,   \* rtTimer2stateTable_releaseState
    releaseQ,   \* timer2stateTable_releaseState
    sets,       \* bound: number of sets so far
    since       \* history: scans of a session since it was put in, or -1

vars == <<entry, curr, set, prev, waiting, setQ, closedQ, abortedQ, releaseQ, sets, since>>

Session == 0 .. MaxSessions - 1
IdSpace == 65536    \* ap_uint<16>

Init ==
    /\ entry = [s \in Session |-> [active |-> FALSE, time |-> 0]]
    /\ curr = 0 /\ set = 0 /\ prev = 0
    /\ waiting = FALSE
    /\ setQ = <<>> /\ closedQ = <<>> /\ abortedQ = <<>> /\ releaseQ = <<>>
    /\ sets = 0
    /\ since = [s \in Session |-> -1]

Room(q) == Len(q) < Depth

-----------------------------------------------------------------------------
(* The latched session is written unless the row is the one of the last    *)
(* scan; a cycle later prev has moved on.                                  *)

Restart == [active |-> TRUE, time |-> CloseTime]

(* The history counts from the first put of a timer that runs already.     *)
Started(s) == [since EXCEPT ![s] = IF @ < 0 THEN 0 ELSE @]

BeforeSame(id) == id     \* mistake: the row compared with never moves on
Before(id) == (id - 1) % IdSpace

WriteSet ==
    /\ waiting
    /\ IF set # prev
         THEN /\ entry' = [entry EXCEPT ![set] = Restart]
              /\ since' = Started(set)
              /\ waiting' = FALSE
         ELSE UNCHANGED <<entry, since, waiting>>
    /\ prev' = Before(prev)
    /\ UNCHANGED <<curr, set, setQ, closedQ>>

LatchSet ==
    /\ ~waiting /\ setQ # <<>>
    /\ set' = Head(setQ)
    /\ setQ' = Tail(setQ)
    /\ waiting' = TRUE
    /\ UNCHANGED <<entry, curr, prev, closedQ, since>>

Advance == IF curr + 1 = MaxSessions THEN 0 ELSE curr + 1

ExpiresEarly == entry[curr].active /\ entry[curr].time <= 1   \* mistake: off by one
Expires == entry[curr].active /\ entry[curr].time = 0

Tick ==
    /\ entry[curr].active /\ entry[curr].time > 0
    /\ entry' = [entry EXCEPT ![curr].time = @ - 1]
    /\ UNCHANGED closedQ

Expire ==
    /\ Expires
    /\ Room(closedQ)
    /\ entry' = [entry EXCEPT ![curr] = [active |-> FALSE, time |-> 0]]
    /\ closedQ' = Append(closedQ, curr)

Scan ==
    /\ ~waiting /\ setQ = <<>>
    /\ \/ ~entry[curr].active /\ UNCHANGED <<entry, closedQ>>
       \/ Tick
       \/ Expire
    /\ since' = [since EXCEPT ![curr] = IF Expires \/ @ < 0 THEN -1 ELSE @ + 1]
    /\ prev' = curr
    /\ curr' = Advance
    /\ UNCHANGED <<set, waiting, setQ>>

CloseTimerCycle == (WriteSet \/ LatchSet \/ Scan) /\ UNCHANGED <<abortedQ, releaseQ, sets>>

-----------------------------------------------------------------------------
(* stream_merger: the releases of the close timer first                    *)

Merge ==
    /\ Room(releaseQ)
    /\ \/ /\ closedQ # <<>>
          /\ releaseQ' = Append(releaseQ, Head(closedQ))
          /\ closedQ' = Tail(closedQ)
          /\ UNCHANGED abortedQ
       \/ /\ closedQ = <<>> /\ abortedQ # <<>>
          /\ releaseQ' = Append(releaseQ, Head(abortedQ))
          /\ abortedQ' = Tail(abortedQ)
          /\ UNCHANGED closedQ
    /\ UNCHANGED <<entry, curr, set, prev, waiting, setQ, sets, since>>

-----------------------------------------------------------------------------
(* The rx engine, the retransmit timer and the state table                 *)

Put(s) ==
    /\ sets < MaxSets /\ Room(setQ)
    /\ setQ' = Append(setQ, s)
    /\ sets' = sets + 1
    /\ since' = Started(s)
    /\ UNCHANGED <<entry, curr, set, prev, waiting, closedQ, abortedQ, releaseQ>>

Abort(s) ==
    /\ Room(abortedQ)
    /\ abortedQ' = Append(abortedQ, s)
    /\ UNCHANGED <<entry, curr, set, prev, waiting, setQ, closedQ, releaseQ, sets, since>>

TakeRelease ==
    /\ releaseQ # <<>>
    /\ releaseQ' = Tail(releaseQ)
    /\ UNCHANGED <<entry, curr, set, prev, waiting, setQ, closedQ, abortedQ, sets, since>>

Next == CloseTimerCycle \/ Merge \/ TakeRelease \/ \E s \in Session : Put(s) \/ Abort(s)

Spec == Init /\ [][Next]_vars

Fairness == WF_vars(CloseTimerCycle) /\ WF_vars(Merge) /\ WF_vars(TakeRelease)

FairSpec == Spec /\ Fairness

-----------------------------------------------------------------------------
(* Properties                                                              *)

(* What is latched or in the table is a session of the table.              *)
TypeOK ==
    /\ entry \in [Session -> [active : BOOLEAN, time : 0 .. CloseTime]]
    /\ curr \in Session /\ set \in Session /\ prev \in 0 .. IdSpace - 1

(* A session that was put into TIME_WAIT is released CloseTime scans later *)
(* and not before, whatever is latched or queued meanwhile - unless its    *)
(* timer was running already, from an earlier put or an earlier owner.     *)
StaysItsTime ==
    [][\A s \in Session :
          closedQ' = Append(closedQ, s) => since[s] >= CloseTime]_vars

(* A session put into TIME_WAIT is released in the end: time and again     *)
(* none is left waiting.                                                   *)
ClosesInTheEnd == \A s \in Session : []<>(since[s] = -1)

=============================================================================
