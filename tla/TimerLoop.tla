------------------------------ MODULE TimerLoop ------------------------------
(***************************************************************************)
(* The loop of the toe in which everything waits on everything: the        *)
(* retransmit timer posts events, the event engine and ack_delay pass them *)
(* to the tx engine, the tx engine sends and sets the timer again.  The rx *)
(* engine, which clears the timers and posts events of its own, and the    *)
(* application stand at the edge.  Of a session only this is kept: is it   *)
(* open, and has it sent data that is not acknowledged.                    *)
(***************************************************************************)
EXTENDS RetransmitTimer, Events

CONSTANTS
    MaxEdge,    \* bound: how often the application and the rx engine act
    Strays,     \* are there segments for no session, which are answered by a reset
    Silent      \* sessions whose peer never answers

ASSUME LoopAssumption ==
    /\ Sessions = Session
    /\ MaxRetries < 7       \* rt_count has three bits
    /\ MaxEdge \in Nat /\ Strays \in BOOLEAN /\ Silent \subseteq Sessions

VARIABLES
    tx,         \* the event the tx engine works on (ml_curEvent), or <<>>
    alive,      \* sessions that are ESTABLISHED
    unacked,    \* sessions with data that is sent and not acknowledged
    edge,       \* bound: how often application and rx engine have acted
    owed,       \* history: sessions with an acknowledgement to send
    overtaken   \* history: sessions whose set was undone by an older clear

loopVars == <<tx, alive, unacked, edge, owed, overtaken>>
vars == <<timerVars, eventVars, loopVars>>

Init ==
    /\ TimerInit
    /\ EventInit
    /\ tx = <<>>
    /\ alive = Sessions
    /\ unacked = {}
    /\ edge = 0
    /\ owed = {}
    /\ overtaken = {}

-----------------------------------------------------------------------------
(* The processes of the loop                                               *)

(* A set that is taken while a clear of the same session, which is older,  *)
(* is latched or still queued behind the latched one: the clear is applied *)
(* after it.                                                               *)
Overtakes(s) ==
    \/ waiting /\ update = [session |-> s, stop |-> TRUE]
    \/ \E i \in DOMAIN clearQ : clearQ[i] = [session |-> s, stop |-> TRUE]

RetransmitTimerCycle ==
    /\ TimerCycle
    /\ overtaken' = overtaken \union
           {s \in Sessions : setQ' # setQ /\ Head(setQ).session = s /\ Overtakes(s)}
    /\ UNCHANGED <<eventVars, tx, alive, unacked, edge, owed>>

MergeTimers ==
    /\ expiredQ # <<>>
    /\ PutTimer(Head(expiredQ))
    /\ expiredQ' = Tail(expiredQ)
    /\ UNCHANGED <<row, position, prev, update, waiting, clearQ, setQ, abortQ,
                   rxQ, appQ, pipe, out, counters, ackTable, pointer, loopVars>>

EventEngineCycle == EventEngine /\ UNCHANGED <<timerVars, loopVars>>

AckDelayStep == AckDelayCycle /\ UNCHANGED <<timerVars, loopVars>>

(* metaLoader takes an event.  Whatever it sends for a session carries the *)
(* acknowledgement number, so that nothing is owed any more.               *)
TxTake ==
    /\ tx = <<>>
    /\ TakeEvent
    /\ tx' = <<Head(out)>>
    /\ owed' = {s \in owed : ~IsAbout(Head(out), s)}
    /\ UNCHANGED <<timerVars, alive, unacked, edge, overtaken>>

(* A segment with data goes out and its timer is set: a new one (TX), or   *)
(* all that is not acknowledged (RT).                                      *)
Transmits(e) == e.type = "TX" \/ (e.type = "RT" /\ e.session \in unacked)

TxSend ==
    /\ tx # <<>> /\ Transmits(tx[1])
    /\ PutSet(tx[1].session, "RT")
    /\ unacked' = unacked \union {tx[1].session}
    /\ tx' = <<>>
    /\ UNCHANGED <<row, position, prev, update, waiting, clearQ, expiredQ, abortQ,
                   eventVars, alive, edge, owed, overtaken>>

TxOther ==
    /\ tx # <<>> /\ ~Transmits(tx[1])
    /\ tx' = <<>>
    /\ UNCHANGED <<timerVars, eventVars, alive, unacked, edge, owed, overtaken>>

(* The state table closes a session that was given up.                     *)
CloseAborted ==
    /\ abortQ # <<>>
    /\ abortQ' = Tail(abortQ)
    /\ alive' = alive \ {Head(abortQ).session}
    /\ unacked' = unacked \ {Head(abortQ).session}
    /\ UNCHANGED <<row, position, prev, update, waiting, clearQ, setQ, expiredQ,
                   eventVars, tx, edge, owed, overtaken>>

-----------------------------------------------------------------------------
(* The edge                                                                *)

Acts == edge < MaxEdge /\ edge' = edge + 1

AppWrites(s) ==
    /\ s \in alive
    /\ Acts
    /\ PutApp([type |-> "TX", session |-> s, count |-> 0])
    /\ UNCHANGED <<timerVars, rxQ, timerQ, pipe, out, counters, ackTable, pointer,
                   tx, alive, unacked, owed, overtaken>>

RxMay(s) == s \in alive \ Silent /\ Acts

(* An acknowledgement of everything stops the timer, one of a part of it   *)
(* restarts it.                                                            *)
RxAck(s, all) ==
    /\ RxMay(s) /\ s \in unacked
    /\ PutClear(s, all)
    /\ unacked' = IF all THEN unacked \ {s} ELSE unacked
    /\ UNCHANGED <<row, position, prev, update, waiting, setQ, expiredQ, abortQ,
                   eventVars, tx, alive, owed, overtaken>>

RxData(s) ==
    /\ RxMay(s)
    /\ PutRx([type |-> "ACK", session |-> s, count |-> 0])
    /\ owed' = owed \union {s}
    /\ UNCHANGED <<timerVars, timerQ, appQ, pipe, out, counters, ackTable, pointer,
                   tx, alive, unacked, overtaken>>

(* Three duplicate acknowledgements.                                       *)
RxFastRetransmit(s) ==
    /\ RxMay(s) /\ s \in unacked
    /\ PutRx([type |-> "RT", session |-> s, count |-> 0])
    /\ UNCHANGED <<timerVars, timerQ, appQ, pipe, out, counters, ackTable, pointer,
                   tx, alive, unacked, owed, overtaken>>

RxStray ==
    /\ Strays /\ Acts
    /\ PutRx(StrayRst)
    /\ UNCHANGED <<timerVars, timerQ, appQ, pipe, out, counters, ackTable, pointer,
                   tx, alive, unacked, owed, overtaken>>

Toe == RetransmitTimerCycle \/ MergeTimers \/ EventEngineCycle \/ AckDelayStep
       \/ TxTake \/ TxSend \/ TxOther \/ CloseAborted

Edge == \/ \E s \in Sessions : AppWrites(s) \/ RxData(s) \/ RxFastRetransmit(s)
        \/ \E s \in Sessions, all \in BOOLEAN : RxAck(s, all)
        \/ RxStray

Next == Toe \/ Edge

Spec == Init /\ [][Next]_vars

(* Every process runs in every clock cycle; nothing makes the application  *)
(* write or the peer answer.                                               *)
Fairness ==
    /\ WF_vars(RetransmitTimerCycle) /\ WF_vars(MergeTimers)
    /\ WF_vars(EventEngineCycle) /\ WF_vars(AckDelayStep)
    /\ WF_vars(TxTake) /\ WF_vars(TxSend \/ TxOther)
    /\ WF_vars(CloseAborted)

FairSpec == Spec /\ Fairness

-----------------------------------------------------------------------------
(* Properties                                                              *)

TypeOK ==
    /\ row \in [Rows -> Row]
    /\ position \in Rows /\ prev \in Rows
    /\ update \in [session : Session, stop : BOOLEAN] /\ waiting \in BOOLEAN
    /\ clearQ \in Seq([session : Session, stop : BOOLEAN])
    /\ setQ \in Seq([session : Session, type : {"RT"}])
    /\ abortQ \in Seq([session : Session, opening : BOOLEAN])
    /\ rxQ \in Seq(Event) /\ timerQ \in Seq(Event) /\ appQ \in Seq(Event)
    /\ expiredQ \in Seq(Event) /\ tx \in Seq(Event)
    /\ pipe \in Seq(Event) /\ Len(pipe) <= EventDepth
    /\ out \in Seq(Event) /\ Len(out) <= EventDepth
    /\ \A c \in {written, adRead, adWritten, txRead} : c \in 0 .. CountSpace - 1
    /\ \A c \in {readC, writeC, takenC} : c \in 0 .. CountDepth
    /\ ackTable \in [Sessions -> 0 .. AckDelay]
    /\ pointer \in Sessions
    /\ Len(tx) <= 1
    /\ \A some \in {alive, unacked, owed, overtaken} : some \subseteq Sessions
    /\ edge \in 0 .. MaxEdge

(* Only a set arms a row, so that a row that runs is one of a session, not *)
(* one of those the skip may reach.                                        *)
RunningRowsAreSessions ==
    \A s \in Rows : row[s].active => s \in Session /\ row[s].type = "RT"

About(q, s) == \E i \in DOMAIN q : q[i].session = s

(* An event that makes the tx engine send data of the session.             *)
Sends(e, s) == e.session = s /\ e.type \in {"TX", "RT"}
SendsIn(q, s) == \E i \in DOMAIN q : Sends(q[i], s)

Posted(s) ==
    \/ SendsIn(rxQ, s) \/ SendsIn(timerQ, s) \/ SendsIn(appQ, s)
    \/ SendsIn(pipe, s) \/ SendsIn(out, s) \/ SendsIn(expiredQ, s) \/ SendsIn(tx, s)

(* Data that is not acknowledged is never forgotten: its timer runs or is  *)
(* about to be set, an event will send it again, or the session is being   *)
(* given up.  The exception is the race of retransmit_timer.cpp:80: a set  *)
(* taken between the arrival of an older clear and its application is lost.*)
UnackedIsTimed ==
    \A s \in unacked \ overtaken :
        \/ row[s].active
        \/ About(setQ, s)
        \/ Posted(s)
        \/ About(abortQ, s)

(* A clear that is still to be applied is older than the data: the set for *)
(* that data has not been taken.                                           *)
ClearsAreOlder == \A s \in unacked \ overtaken : Overtakes(s) => About(setQ, s)

(* An acknowledgement the rx engine asked for is delayed or under way until*)
(* a segment of the session goes out: ack_delay drops one only in favour   *)
(* of another segment of the same session.  Session 0 is left out, whose   *)
(* delayed acknowledgement a stray reset drops (see AckOfZeroIsPending).   *)
AckIsPending(s) ==
    \/ ackTable[s] > 0
    \/ \E q \in {rxQ, pipe, out} : \E i \in DOMAIN q : IsAbout(q[i], s)

AcksArePending == \A s \in owed \ {0} : AckIsPending(s)

(* The same of session 0: "Assumption no SYN/RST" (ack_delay.cpp:59).      *)
AckOfZeroIsPending == 0 \in owed => AckIsPending(0)

(* A peer that never answers does not hold a session forever: the loop     *)
(* timer - event engine - tx engine - timer turns until it is given up.    *)
SilentPeerIsGivenUp == \A s \in Silent : s \in unacked ~> s \notin alive

(* What is asked to be acknowledged is acknowledged.                       *)
AcksAreSent == \A s \in Sessions \ {0} : s \in owed ~> s \notin owed

=============================================================================
