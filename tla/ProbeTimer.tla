------------------------------ MODULE ProbeTimer ------------------------------
(***************************************************************************)
(* probe_timer(): a session whose peer has closed its window is probed     *)
(* ProbeTime scans after the tx engine set the timer, or at once when the  *)
(* rx engine says that the window has opened (a "clear" with fast resume). *)
(***************************************************************************)
EXTENDS Integers, Sequences

CONSTANTS
    MaxSessions,    \* MAX_SESSIONS
    ProbeTime,      \* TIME_50ms in scans of the table
    Depth,          \* depth of the FIFOs
    MaxSets         \* bound: timers set

VARIABLES
    entry,      \* probeTimerTable
    curr,       \* pt_currSessionID
    set,        \* pt_updSessionID
    prev,       \* pt_prevSessionID, which a cycle that waits decrements
    waiting,    \* pt_WaitForWrite
    setQ,       \* txEng2timer_setProbeTimer
    clearQ,     \* rxEng2timer_clearProbeTimer
    eventQ,     \* probeTimer2eventEng_setEvent
    sets,       \* bound: number of sets so far
    wanted      \* history: sessions set whose event is not posted yet

vars == <<entry, curr, set, prev, waiting, setQ, clearQ, eventQ, sets, wanted>>

Session == 0 .. MaxSessions - 1
IdSpace == 65536    \* ap_uint<16>

Init ==
    /\ entry = [s \in Session |-> [active |-> FALSE, time |-> 0]]
    /\ curr = 0 /\ set = 0 /\ prev = 0
    /\ waiting = FALSE
    /\ setQ = <<>> /\ clearQ = <<>> /\ eventQ = <<>>
    /\ sets = 0
    /\ wanted = {}

Room(q) == Len(q) < Depth

-----------------------------------------------------------------------------
Restart == [active |-> TRUE, time |-> ProbeTime]
Before(id) == (id - 1) % IdSpace

WriteSet ==
    /\ waiting
    /\ IF set # prev
         THEN entry' = [entry EXCEPT ![set] = Restart] /\ waiting' = FALSE
         ELSE UNCHANGED <<entry, waiting>>
    /\ prev' = Before(prev)
    /\ UNCHANGED <<curr, set, setQ, clearQ, eventQ, wanted>>

LatchesOver == setQ # <<>>        \* mistake: over the one that waits
Latches == ~waiting /\ setQ # <<>>
LatchSet ==
    /\ Latches
    /\ set' = Head(setQ)
    /\ setQ' = Tail(setQ)
    /\ waiting' = TRUE
    /\ UNCHANGED <<entry, curr, prev, clearQ, eventQ, wanted>>

Advance == IF curr + 1 = MaxSessions THEN 0 ELSE curr + 1

(* One row is looked at: it fires, ticks, or - without room for its event, *)
(* or when it does not run - stays.                                        *)
Check(s, fastResume) ==
    \/ /\ ~entry[s].active \/ ~Room(eventQ)
       /\ UNCHANGED <<entry, eventQ, wanted>>
    \/ /\ entry[s].active /\ Room(eventQ)
       /\ entry[s].time = 0 \/ fastResume
       /\ entry' = [entry EXCEPT ![s] = [active |-> FALSE, time |-> 0]]
       /\ eventQ' = Append(eventQ, s)
       /\ wanted' = wanted \ {s}
    \/ /\ entry[s].active /\ Room(eventQ)
       /\ entry[s].time > 0 /\ ~fastResume
       /\ entry' = [entry EXCEPT ![s].time = @ - 1]
       /\ UNCHANGED <<eventQ, wanted>>

Resume ==
    /\ ~waiting /\ setQ = <<>> /\ clearQ # <<>>
    /\ Check(Head(clearQ), TRUE)
    /\ clearQ' = Tail(clearQ)
    /\ prev' = Head(clearQ)
    /\ UNCHANGED <<curr, set, waiting, setQ>>

Scan ==
    /\ ~waiting /\ setQ = <<>> /\ clearQ = <<>>
    /\ Check(curr, FALSE)
    /\ curr' = Advance
    /\ prev' = curr
    /\ UNCHANGED <<set, waiting, setQ, clearQ>>

ProbeTimerCycle == (WriteSet \/ LatchSet \/ Resume \/ Scan) /\ UNCHANGED sets

-----------------------------------------------------------------------------
(* The tx engine, the rx engine and the merge of events                    *)

Put(s) ==
    /\ sets < MaxSets /\ Room(setQ)
    /\ setQ' = Append(setQ, s)
    /\ sets' = sets + 1
    /\ wanted' = wanted \union {s}
    /\ UNCHANGED <<entry, curr, set, prev, waiting, clearQ, eventQ>>

Clear(s) ==
    /\ Room(clearQ)
    /\ clearQ' = Append(clearQ, s)
    /\ UNCHANGED <<entry, curr, set, prev, waiting, setQ, eventQ, sets, wanted>>

TakeEvent ==
    /\ eventQ # <<>>
    /\ eventQ' = Tail(eventQ)
    /\ UNCHANGED <<entry, curr, set, prev, waiting, setQ, clearQ, sets, wanted>>

Next == ProbeTimerCycle \/ TakeEvent \/ \E s \in Session : Put(s) \/ Clear(s)

Spec == Init /\ [][Next]_vars

FairSpec == Spec /\ WF_vars(ProbeTimerCycle) /\ WF_vars(TakeEvent)

-----------------------------------------------------------------------------
(* Properties                                                              *)

TypeOK ==
    /\ entry \in [Session -> [active : BOOLEAN, time : 0 .. ProbeTime]]
    /\ curr \in Session /\ set \in Session /\ prev \in 0 .. IdSpace - 1

(* A session that waits for its probe has a timer that runs, or one that is*)
(* about to be set: a resume whose event finds no room is dropped          *)
(* (probe_timer.cpp:99), the timer behind it is not.                       *)
ProbeIsTimed ==
    \A s \in wanted :
        \/ entry[s].active
        \/ waiting /\ set = s
        \/ \E i \in DOMAIN setQ : setQ[i] = s

(* While the rx engine pauses, every session set is probed in the end:     *)
(* none waits for its probe for ever.                                      *)
ProbesAreSent ==
    \A s \in Session : []<>(s \notin wanted) \/ []<>(clearQ # <<>>)

=============================================================================
