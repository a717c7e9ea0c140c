--------------------------- MODULE RetransmitTimer ---------------------------
(***************************************************************************)
(* retransmit_timer(): one table row per session, scanned by a pointer.    *)
(* The rx engine clears a row, the tx engine sets one; a row that runs out *)
(* posts an event and, after MaxRetries events in a row, gives the session *)
(* up.  One action is one call of the function, that is one clock cycle.   *)
(* A latched clear is applied in a later cycle, and only when the cycle    *)
(* before did not touch the same row.                                      *)
(***************************************************************************)
EXTENDS Naturals, Sequences

CONSTANTS
    MaxSessions,    \* MAX_SESSIONS
    MaxRetries,     \* 4: events posted in a row before the session is given up
    Interval,       \* what a row is set to, by the number of retries so far
    TimerDepth      \* depth of each FIFO at the timer

ASSUME TimerAssumption ==
    /\ MaxSessions \in Nat \ {0}
    /\ MaxRetries \in Nat
    /\ Interval \in [0 .. MaxRetries -> Nat]
    /\ TimerDepth \in Nat \ {0}

VARIABLES
    row,        \* retransmitTimerTable
    position,   \* rt_position
    prev,       \* rt_prevPosition
    update,     \* rt_update; meaningful while waiting
    waiting,    \* rt_waitForWrite
    clearQ,     \* rxEng2timer_clearRetransmitTimer
    setQ,       \* txEng2timer_setRetransmitTimer
    expiredQ,   \* rtTimer2eventEng_setEvent
    abortQ      \* rtTimer2stateTable_releaseState with the notification written along

timerVars == <<row, position, prev, update, waiting, clearQ, setQ, expiredQ, abortQ>>

Skip == 5
Near == 3

Session == 0 .. MaxSessions - 1
(* Rows behind the last session exist in the block RAM: the skip may reach *)
(* them, nothing ever sets one.                                            *)
Rows == 0 .. MaxSessions - 1 + Skip
Kind == {"TX", "RT", "SYN", "SYN_ACK", "FIN"}
Row == [active : BOOLEAN, time : Nat, retries : 0 .. MaxRetries, type : Kind]

Idle == [active |-> FALSE, time |-> 0, retries |-> 0, type |-> "TX"]

TimerInit ==
    /\ row = [s \in Rows |-> Idle]
    /\ position = 0
    /\ prev = 0
    /\ update = [session |-> 0, stop |-> FALSE]
    /\ waiting = FALSE
    /\ clearQ = <<>>
    /\ setQ = <<>>
    /\ expiredQ = <<>>
    /\ abortQ = <<>>

-----------------------------------------------------------------------------
(* A latched clear                                                         *)

MayApply == waiting /\ update.session # prev

ClearedAlways(r) == [r EXCEPT !.active = FALSE, !.time = 0, !.retries = 0]   \* mistake: always stops
Cleared(r) ==
    IF update.stop THEN [r EXCEPT !.active = FALSE, !.time = 0, !.retries = 0]
                   ELSE [r EXCEPT !.time = Interval[0], !.retries = 0]

ApplyClear ==
    /\ MayApply
    /\ row' = [row EXCEPT ![update.session] = Cleared(@)]
    /\ waiting' = FALSE
    /\ UNCHANGED <<position, prev, update, clearQ, setQ, expiredQ, abortQ>>

LatchClear ==
    /\ ~MayApply
    /\ clearQ # <<>> /\ ~waiting
    /\ update' = Head(clearQ)
    /\ clearQ' = Tail(clearQ)
    /\ waiting' = TRUE
    /\ UNCHANGED <<row, position, prev, setQ, expiredQ, abortQ>>

NoClear == ~MayApply /\ (clearQ = <<>> \/ waiting)

-----------------------------------------------------------------------------
(* A set: the row is armed, with an interval that grows with the retries   *)
(* unless it is running already.  A pointer just behind the row jumps.     *)

Jumps(s) == s < position + Near /\ position <= s

Armed(r, type) ==
    [r EXCEPT !.type = type,
              !.time = IF r.active THEN @ ELSE Interval[r.retries],
              !.active = TRUE]

TakeSet ==
    /\ NoClear
    /\ setQ # <<>>
    /\ LET set == Head(setQ) IN
         /\ row' = [row EXCEPT ![set.session] = Armed(@, set.type)]
         /\ position' = IF Jumps(set.session) THEN position + Skip ELSE position
         /\ prev' = set.session
    /\ setQ' = Tail(setQ)
    /\ UNCHANGED <<update, waiting, clearQ, expiredQ, abortQ>>

-----------------------------------------------------------------------------
(* The scan of one row                                                     *)

AdvanceExact == IF position + 1 = MaxSessions THEN 0 ELSE position + 1         \* mistake: misses the skip
Advance == IF position + 1 >= MaxSessions THEN 0 ELSE position + 1

Expire(s) == [row[s] EXCEPT !.active = FALSE, !.time = 0]

GivesUp(r) == r.retries >= MaxRetries

ScanRow(s) ==
    LET r == row[s] IN
    \/ /\ ~r.active
       /\ UNCHANGED <<row, expiredQ, abortQ>>
    \/ /\ r.active /\ r.time > 0
       /\ row' = [row EXCEPT ![s].time = @ - 1]
       /\ UNCHANGED <<expiredQ, abortQ>>
    \/ /\ r.active /\ r.time = 0 /\ Len(expiredQ) = TimerDepth
       /\ UNCHANGED <<row, expiredQ, abortQ>>
    \/ /\ r.active /\ r.time = 0 /\ Len(expiredQ) < TimerDepth /\ ~GivesUp(r)
       /\ row' = [row EXCEPT ![s] = [Expire(s) EXCEPT !.retries = @ + 1]]
       /\ expiredQ' = Append(expiredQ, [type |-> r.type, session |-> s, count |-> r.retries + 1])
       /\ UNCHANGED abortQ
    \/ /\ r.active /\ r.time = 0 /\ Len(expiredQ) < TimerDepth /\ GivesUp(r)
       /\ Len(abortQ) < TimerDepth
       /\ row' = [row EXCEPT ![s] = [Expire(s) EXCEPT !.retries = 0]]
       /\ abortQ' = Append(abortQ, [session |-> s, opening |-> r.type = "SYN"])
       /\ UNCHANGED expiredQ

Scan ==
    /\ NoClear
    /\ setQ = <<>>
    /\ ScanRow(position)
    /\ position' = Advance
    /\ prev' = position
    /\ UNCHANGED <<update, waiting, clearQ, setQ>>

TimerCycle == ApplyClear \/ LatchClear \/ TakeSet \/ Scan

-----------------------------------------------------------------------------
(* The other ends of the FIFOs                                             *)

PutClear(s, stop) ==
    /\ Len(clearQ) < TimerDepth
    /\ clearQ' = Append(clearQ, [session |-> s, stop |-> stop])

PutSet(s, type) ==
    /\ Len(setQ) < TimerDepth
    /\ setQ' = Append(setQ, [session |-> s, type |-> type])

=============================================================================
