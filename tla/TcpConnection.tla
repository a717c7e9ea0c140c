---------------------------- MODULE TcpConnection ----------------------------
(***************************************************************************)
(* One TCP connection between two TCP offload engines, from open to close: *)
(* hls/toe/rx_engine (rxMetadataHandler, rxTcpFSM), tx_engine (metaLoader),*)
(* tx_app_if, the SAR tables, event_engine, ack_delay, retransmit_timer    *)
(* and close_timer, seen from one session of each engine, in the default   *)
(* build (TCP_NODELAY, RX_DDR_BYPASS, FAST_RETRANSMIT).                    *)
(*                                                                         *)
(* A step of the receive FSM is two steps here as in the code: LOAD reads  *)
(* the tables and locks the session's state, TRANSITION decides on what was*)
(* read; the tx engine and the timers run in between.  A step of the tx    *)
(* engine is one action: nothing else writes what it writes, and what it   *)
(* reads too early only makes the segment look delayed.                    *)
(* Sequence numbers are counted modulo SeqSpace and start so that they wrap. *)
(***************************************************************************)
EXTENDS Integers, Sequences, SequencesExt

CONSTANTS
    Openers,        \* ends whose application opens a connection to the other
    Listeners,      \* ends that listen on the connection's port
    Senders,        \* ends whose application writes data
    Closers,        \* ends whose application closes
    Gentle,         \* BOOLEAN: applications do one thing at a time, see MayWrite
    Long,           \* the time-outs that outlast what is under way, see TimeIsUp
    RxMayFill,      \* ends whose receive buffer may be too full for a segment
    StartOpen,      \* BOOLEAN: start after the handshake, A the active side
    MaxData,        \* bytes written in all; they fit in one segment (MSS)
    Retries,        \* time-outs in a row before a session is aborted (4)
    DupAcks,        \* duplicate ACKs that trigger a fast retransmit (3)
    Network,        \* what the network does: lose, duplicate, reorder
    MaxFaults,      \* how often it does so
    SeqSpace,         \* sequence numbers are 0 .. SeqSpace-1 (2^32)
    FirstIsn        \* initial sequence number of the first handshake

Ends == {"A", "B"}
Peer(e) == IF e = "A" THEN "B" ELSE "A"
Junk == 0           \* a byte no application wrote

ASSUME EndsAssumption ==
    Openers \cup Listeners \cup Senders \cup Closers \cup RxMayFill \subseteq Ends
ASSUME NetworkAssumption == Network \subseteq {"lose", "duplicate", "reorder"}
ASSUME BoundsAssumption ==
    /\ {MaxData, Retries, MaxFaults, FirstIsn} \subseteq Nat
    /\ DupAcks \in 1..3 /\ SeqSpace \in Nat \ {0}

VARIABLES
    tcb,        \* tcb[e]: the session's rows in the state, SAR and lookup tables
    timer,      \* timer[e]: its rows in retransmit_timer, close_timer, ack_delay
    events,     \* events[e]: events between event_engine and the tx engine
    rx,         \* rx[e]: what the receive FSM has loaded, <<>> in LOAD
    net,        \* net[e]: segments on their way to e
    app,        \* app[e]: the application's side, see FreshApp
    faults      \* faults the network has made

vars == <<tcb, timer, events, rx, net, app, faults>>

(* Sequence numbers.                                                       *)
Plus(a, n) == (a + n) % SeqSpace
Dist(a, b) == (b - a) % SeqSpace
FreshIsn(e) == Plus(tcb[e].isn, 5)

(* Segments and events.                                                    *)
Seg(kind, seq, ack, data) == [kind |-> kind, seq |-> seq, ack |-> ack, data |-> data]
Event(type, rt) == [type |-> type, rt |-> rt, ack |-> 0]
\* rstEvent: the acknowledgement number travels in the event, rt is a flag.
RstEvent(hasSession, ack) ==
    [type |-> "RST", rt |-> IF hasSession THEN 1 ELSE 0, ack |-> ack]

FreshTcb(i) ==
    [state |-> "CLOSED", lookup |-> "none", recvd |-> 0, isn |-> i,
     ackd |-> 0, nxt |-> 0, count |-> 0, fast |-> FALSE, fin |-> FALSE]
FreshTimer ==
    [active |-> FALSE, type |-> "RT", retries |-> 0, close |-> FALSE, ack |-> FALSE]
\* conn: SYN and FIN events not yet taken by the merger; offered, sent: TX
\* events taken by the event engine, and turned into segments; answers: what
\* the open request was told; closed: the application was told of the end.
FreshApp ==
    [conn |-> <<>>, wrote |-> 0, offered |-> 0, sent |-> 0, got |-> <<>>,
     answers |-> <<>>, opened |-> FALSE, closes |-> 0, closed |-> FALSE]

\* The state after a handshake that A opened and both ends completed.
OpenTcb(i, j) ==
    [FreshTcb(i) EXCEPT !.state = "ESTABLISHED", !.lookup = "live",
                        !.recvd = Plus(j, 1), !.ackd = Plus(i, 1), !.nxt = Plus(i, 1)]

Init ==
    LET i == [e \in Ends |-> IF e = "A" THEN FirstIsn ELSE Plus(FirstIsn, 3)] IN
    /\ tcb = [e \in Ends |-> IF StartOpen THEN OpenTcb(i[e], i[Peer(e)])
                             ELSE FreshTcb(i[e])]
    /\ timer = [e \in Ends |-> FreshTimer]
    /\ events = [e \in Ends |-> <<>>]
    /\ rx = [e \in Ends |-> <<>>]
    /\ net = [e \in Ends |-> <<>>]
    /\ app = [e \in Ends |->
                [FreshApp EXCEPT !.opened = StartOpen /\ e = "A",
                                 !.answers = IF StartOpen /\ e = "A" THEN <<"ok">> ELSE <<>>]]
    /\ faults = 0

-----------------------------------------------------------------------------
(* Tables.                                                                 *)

\* A write to the state table: CLOSED also releases the session's identifier.
SetState(c, v) ==
    [c EXCEPT !.state = v,
              !.lookup = IF v = "CLOSED" /\ @ = "live" THEN "release" ELSE @]

\* tx_sar_table, a write of the tx engine with init: a new sequence number.
InitTxSar(c, i) ==
    [c EXCEPT !.isn = i, !.nxt = Plus(i, 1), !.ackd = i, !.fin = FALSE]

\* retransmit_timer: what the rx engine's clear and the tx engine's set do.
ClearCount(t, stop) == [t EXCEPT !.retries = 0]  \* mistake: the row runs on
Clear(t, stop) == [t EXCEPT !.active = @ /\ ~stop, !.retries = 0]
SetTypeOnly(t, type) == [t EXCEPT !.type = type] \* mistake: never activated
Set(t, type)   == [t EXCEPT !.active = TRUE, !.type = type]

\* ack_delay: an ACK waits if none waits yet; any other event, and a second
\* ACK, goes on to the tx engine and carries the waiting one.
IsDelayed(t, evs) == evs # <<>> /\ evs[1].type = "ACK" /\ ~t.ack
Post(e, t, evs) ==
    /\ timer' = [timer EXCEPT ![e] =
                    IF evs = <<>> THEN t ELSE [t EXCEPT !.ack = IsDelayed(t, evs)]]
    /\ events' = [events EXCEPT ![e] = IF IsDelayed(t, evs) THEN @ ELSE @ \o evs]

-----------------------------------------------------------------------------
(* The receive path: rxMetadataHandler, then rxTcpFSM.                     *)

\* The port is listened on, or in use by the session itself.
PortIsOpen(e) == e \in Listeners \/ tcb[e].lookup \in {"live", "release"}
Found(e) == tcb[e].lookup \in {"live", "release"}
\* A SYN and a SYN_ACK create a session; identifiers run out after one (the bound).
MayCreate(e, m) == m.kind \in {"SYN", "SYN_ACK"} /\ tcb[e].lookup = "none"

Arriving(e) == net[e] # <<>> /\ rx[e] = <<>>
TakeSegment(e) == net' = [net EXCEPT ![e] = Tail(@)]

\* A closed port: answer with a RST that belongs to no session.
RefusePort(e) ==
    /\ Arriving(e) /\ ~PortIsOpen(e)
    /\ TakeSegment(e)
    /\ LET m == Head(net[e])
           n == Len(m.data) + (IF m.kind \in {"SYN", "SYN_ACK", "FIN"} THEN 1 ELSE 0)
       IN  Post(e, timer[e], IF m.kind = "RST" THEN <<>>
                             ELSE <<RstEvent(FALSE, Plus(m.seq, n))>>)
    /\ UNCHANGED <<tcb, rx, app, faults>>

\* The port is open, but no session fits and none may be created.
DropUnknown(e) ==
    /\ Arriving(e) /\ PortIsOpen(e)
    /\ ~Found(e) /\ ~MayCreate(e, Head(net[e]))
    /\ TakeSegment(e)
    /\ UNCHANGED <<tcb, timer, events, rx, app, faults>>

\* LOAD: read (and lock) the state, read both SAR tables.
Load(e) ==
    /\ Arriving(e) /\ PortIsOpen(e)
    /\ Found(e) \/ MayCreate(e, Head(net[e]))
    /\ TakeSegment(e)
    /\ rx' = [rx EXCEPT ![e] = <<[seg |-> Head(net[e]), ackd |-> tcb[e].ackd, nxt |-> tcb[e].nxt]>>]
    /\ tcb' = [tcb EXCEPT ![e].lookup = IF @ = "none" THEN "live" ELSE @]
    /\ UNCHANGED <<timer, events, app, faults>>

\* What TRANSITION finds: the segment and the SAR values read in LOAD.
In(e, kind) == rx[e] # <<>> /\ rx[e][1].seg.kind = kind
M(e) == rx[e][1].seg
AcksAll(e) == M(e).ack = rx[e][1].nxt

\* Every TRANSITION writes the state, which unlocks the session.
Transition(e, c, v, t, evs, a) ==
    /\ tcb' = [tcb EXCEPT ![e] = SetState(c, v)]
    /\ Post(e, t, evs)
    /\ app' = [app EXCEPT ![e] = a]
    /\ rx' = [rx EXCEPT ![e] = <<>>]
    /\ UNCHANGED <<net, faults>>

\* The acknowledgement lies between the last one and the next byte, modulo
\* 2^32, as the code's comparisons put it.
BelowNext(ackd, ack, nxt) == ack <= nxt \/ nxt < ackd    \* mistake: no lower bound
InFlight(ackd, ack, nxt) ==
    \/ ackd <= ack /\ ack <= nxt
    \/ (ackd <= ack \/ ack <= nxt) /\ nxt < ackd

LastAckStays(v) ==                              \* mistake: the last ACK changes nothing
    CASE v = "SYN_RECEIVED" -> "ESTABLISHED" [] v = "CLOSING" -> "TIME_WAIT" [] OTHER -> v
AfterFullAck(v) == CASE v = "SYN_RECEIVED" -> "ESTABLISHED"
                     [] v = "CLOSING" -> "TIME_WAIT"
                     [] v = "LAST_ACK" -> "CLOSED"
                     [] OTHER -> v

AckStates == {"ESTABLISHED", "SYN_RECEIVED", "FIN_WAIT_1", "CLOSING", "LAST_ACK"}

Ack(c, m, old) ==
    LET repeated == m.ack = old.ackd /\ old.ackd # old.nxt
        count == IF ~repeated THEN 0
                 ELSE IF m.data = <<>> THEN (c.count + 1) % 4 ELSE c.count
        fast == repeated /\ c.fast
    IN  [count |-> count, fast |-> fast,
         fire  |-> count = DupAcks /\ ~fast,
         row   |-> IF InFlight(old.ackd, m.ack, old.nxt)
                   THEN [c EXCEPT !.ackd = m.ack, !.count = count,
                                  !.fast = fast \/ count = DupAcks]
                   ELSE c]

\* In order and, as long as the buffer is not nearly full, taken; anything
\* else is dropped (without DDR there is no out-of-order receive).
AnyOrder(c, m) == m.data # <<>>                \* mistake: no check of the number
InOrder(c, m) == m.data # <<>> /\ m.seq = c.recvd

\* rxEng2rxApp_notification and rxEng2txApp conEstablished.
Notify(a, data) == [a EXCEPT !.got = @ \o data]
Answer(a, status) == [a EXCEPT !.answers = Append(@, status)]

RxAck(e) ==
    /\ In(e, "ACK") /\ tcb[e].state \in AckStates
    /\ \E room \in (IF e \in RxMayFill THEN BOOLEAN ELSE {TRUE}) :
          LET m == M(e)
              a == Ack(tcb[e], m, rx[e][1])
              accepted == InOrder(tcb[e], m) /\ room
              v == IF AcksAll(e) THEN AfterFullAck(tcb[e].state) ELSE tcb[e].state
              t == Clear(timer[e], AcksAll(e))
          IN  Transition(e,
                IF accepted THEN [a.row EXCEPT !.recvd = Plus(m.seq, Len(m.data))] ELSE a.row,
                v,
                [t EXCEPT !.close = @ \/ (v = "TIME_WAIT" /\ tcb[e].state = "CLOSING")],
                IF a.fire THEN <<Event("RT", 0)>>
                ELSE IF m.data = <<>> THEN <<>>
                ELSE IF accepted THEN <<Event("ACK", 0)>> ELSE <<Event("ACK_NODELAY", 0)>>,
                IF accepted THEN Notify(app[e], m.data) ELSE app[e])

RxAckRefused(e) ==
    /\ In(e, "ACK") /\ tcb[e].state \notin AckStates
    /\ Transition(e, tcb[e], tcb[e].state, Clear(timer[e], AcksAll(e)),
                  <<RstEvent(TRUE, Plus(M(e).seq, Len(M(e).data)))>>, app[e])

\* A SYN opens, or meets a session that is being opened.
RxSyn(e) ==
    /\ In(e, "SYN") /\ tcb[e].state \in {"CLOSED", "SYN_SENT"}
    /\ Transition(e, [tcb[e] EXCEPT !.recvd = Plus(M(e).seq, 1), !.ackd = 0,
                                    !.count = 0, !.fast = FALSE],
                  "SYN_RECEIVED", timer[e], <<Event("SYN_ACK", 0)>>, app[e])

RxSynAgain(e) ==
    /\ In(e, "SYN") /\ tcb[e].state = "SYN_RECEIVED"
    /\ IF Plus(M(e).seq, 1) = tcb[e].recvd
       THEN Transition(e, tcb[e], "SYN_RECEIVED", timer[e], <<Event("SYN_ACK", 1)>>, app[e])
       ELSE Transition(e, tcb[e], "CLOSED", timer[e],
                       <<RstEvent(TRUE, Plus(M(e).seq, 1))>>, app[e])

RxSynLate(e) ==
    /\ In(e, "SYN") /\ tcb[e].state \notin {"CLOSED", "SYN_SENT", "SYN_RECEIVED"}
    /\ Transition(e, tcb[e], tcb[e].state, timer[e], <<Event("ACK_NODELAY", 0)>>, app[e])

RxSynAck(e) ==
    /\ In(e, "SYN_ACK") /\ tcb[e].state = "SYN_SENT"
    /\ LET m == M(e) t == Clear(timer[e], AcksAll(e)) IN
       IF AcksAll(e)
       THEN Transition(e, [tcb[e] EXCEPT !.recvd = Plus(m.seq, 1), !.ackd = m.ack,
                                         !.count = 0, !.fast = FALSE],
                       "ESTABLISHED", t, <<Event("ACK_NODELAY", 0)>>,
                       Answer(app[e], "ok"))
       ELSE Transition(e, tcb[e], "CLOSED", t, <<RstEvent(TRUE, Plus(m.seq, 1))>>, app[e])

RxSynAckLate(e) ==
    /\ In(e, "SYN_ACK") /\ tcb[e].state # "SYN_SENT"
    /\ Transition(e, tcb[e], tcb[e].state, Clear(timer[e], AcksAll(e)),
                  <<Event("ACK_NODELAY", 0)>>, app[e])

\* A FIN in order: the peer sends no more.  From ESTABLISHED the own FIN
\* follows at once (there is no CLOSE_WAIT).
RxFin(e) ==
    /\ In(e, "FIN") /\ M(e).seq = tcb[e].recvd
    /\ tcb[e].state \in {"ESTABLISHED", "FIN_WAIT_1", "FIN_WAIT_2"}
    /\ LET m == M(e)
           passive == tcb[e].state = "ESTABLISHED"
           v == IF passive THEN "LAST_ACK" ELSE IF AcksAll(e) THEN "TIME_WAIT" ELSE "CLOSING"
       IN  Transition(e, [tcb[e] EXCEPT !.ackd = m.ack, !.recvd = Plus(m.seq, Len(m.data) + 1)],
                      v, [Clear(timer[e], AcksAll(e)) EXCEPT !.close = @ \/ v = "TIME_WAIT"],
                      <<Event(IF passive THEN "FIN" ELSE "ACK", 0)>>,
                      [Notify(app[e], m.data) EXCEPT !.closed = @ \/ passive \/ m.data # <<>>])

RxFinLate(e) ==
    /\ In(e, "FIN")
    /\ \/ M(e).seq # tcb[e].recvd
       \/ tcb[e].state \notin {"ESTABLISHED", "FIN_WAIT_1", "FIN_WAIT_2"}
    /\ Transition(e, tcb[e], tcb[e].state, Clear(timer[e], AcksAll(e)),
                  <<Event("ACK", 0)>>, app[e])

\* A RST counts if it answers the SYN, or else if it is the next in order.
RstMatches(e) == IF tcb[e].state = "SYN_SENT" THEN AcksAll(e) ELSE M(e).seq = tcb[e].recvd

RxRst(e) ==
    /\ In(e, "RST") /\ RstMatches(e)
    /\ Transition(e, tcb[e], "CLOSED", Clear(timer[e], TRUE), <<>>,
                  IF tcb[e].state = "SYN_SENT"
                  THEN Answer(app[e], "failed")
                  ELSE [app[e] EXCEPT !.closed = TRUE])

RxRstIgnored(e) ==
    /\ In(e, "RST") /\ ~RstMatches(e)
    /\ Transition(e, tcb[e], tcb[e].state, timer[e], <<>>, app[e])

Receive(e) ==
    \/ RefusePort(e) \/ DropUnknown(e) \/ Load(e)
    \/ RxAck(e) \/ RxAckRefused(e)
    \/ RxSyn(e) \/ RxSynAgain(e) \/ RxSynLate(e)
    \/ RxSynAck(e) \/ RxSynAckLate(e)
    \/ RxFin(e) \/ RxFinLate(e)
    \/ RxRst(e) \/ RxRstIgnored(e)

-----------------------------------------------------------------------------
(* The transmit path: metaLoader on the events of the session.             *)

Pending(e, types) == events[e] # <<>> /\ Head(events[e]).type \in types
Ev(e) == Head(events[e])

Transmit(e, c, t, segs) ==
    /\ tcb' = [tcb EXCEPT ![e] = c]
    /\ timer' = [timer EXCEPT ![e] = t]
    /\ net' = [net EXCEPT ![Peer(e)] = @ \o segs]
    /\ events' = [events EXCEPT ![e] = Tail(@)]
    /\ UNCHANGED <<rx, faults>>

\* TX: the next bytes of the application, straight from its stream.
SendData(e) ==
    /\ Pending(e, {"TX"})
    /\ LET c == tcb[e] n == app[e].sent + 1 IN
       /\ Transmit(e, [c EXCEPT !.nxt = Plus(@, 1)], Set(timer[e], "RT"),
                   <<Seg("ACK", c.nxt, c.recvd, <<n>>)>>)
       /\ app' = [app EXCEPT ![e].sent = n]

SendAck(e) ==
    /\ Pending(e, {"ACK", "ACK_NODELAY"})
    /\ Transmit(e, tcb[e], timer[e], <<Seg("ACK", tcb[e].nxt, tcb[e].recvd, <<>>)>>)
    /\ UNCHANGED app

\* The transmit buffer at a sequence number: the byte written there, if any.
Payload(e, s) ==
    LET k == Dist(tcb[e].isn, s) IN IF k \in 1..app[e].wrote THEN k ELSE Junk

\* FIN: a new one takes a sequence number, a retransmitted one reuses it.
FinRow(c, rt)    == IF rt = 0 THEN [c EXCEPT !.nxt = Plus(@, 1), !.fin = TRUE] ELSE c
FinSeg(c, rt)    == Seg("FIN", IF rt = 0 THEN c.nxt ELSE Plus(c.nxt, -1), c.recvd, <<>>)

SendFin(e) ==
    /\ Pending(e, {"FIN"})
    /\ Transmit(e, FinRow(tcb[e], Ev(e).rt), Set(timer[e], "RT"),
                <<FinSeg(tcb[e], Ev(e).rt)>>)
    /\ UNCHANGED app

\* RT: everything not acknowledged, from the transmit buffer; then the FIN,
\* if it was sent before.  The length counts the FIN's sequence number too.
Retransmit(e) ==
    /\ Pending(e, {"RT"})
    /\ LET c == tcb[e]
           used == Dist(c.ackd, c.nxt)
           data == [k \in 1..used |-> Payload(e, Plus(c.ackd, k - 1))]
           segs == (IF used > 0 THEN <<Seg("ACK", c.ackd, c.recvd, data)>> ELSE <<>>)
                   \o (IF c.fin THEN <<FinSeg(c, Ev(e).rt)>> ELSE <<>>)
       IN  Transmit(e, IF c.fin THEN FinRow(c, Ev(e).rt) ELSE c,
                    IF segs = <<>> THEN timer[e] ELSE Set(timer[e], "RT"), segs)
    /\ UNCHANGED app

\* SYN and SYN_ACK: the first one draws a sequence number, a retransmitted
\* one takes that of the last acknowledgement.
SynRow(e)   == IF Ev(e).rt = 0 THEN InitTxSar(tcb[e], FreshIsn(e)) ELSE tcb[e]
SendSyn(e) ==
    /\ Pending(e, {"SYN"})
    /\ Transmit(e, SynRow(e), Set(timer[e], "SYN"), <<Seg("SYN", SynRow(e).ackd, 0, <<>>)>>)
    /\ UNCHANGED app

SendSynAck(e) ==
    /\ Pending(e, {"SYN_ACK"})
    /\ Transmit(e, SynRow(e), Set(timer[e], "SYN_ACK"),
                <<Seg("SYN_ACK", SynRow(e).ackd, tcb[e].recvd, <<>>)>>)
    /\ UNCHANGED app

SendRst(e) ==
    /\ Pending(e, {"RST"})
    /\ Transmit(e, tcb[e], timer[e],
                <<Seg("RST", IF Ev(e).rt = 0 THEN 0 ELSE tcb[e].nxt, Ev(e).ack, <<>>)>>)
    /\ UNCHANGED app

TxEngine(e) ==
    \/ SendData(e) \/ SendAck(e) \/ SendFin(e) \/ Retransmit(e)
    \/ SendSyn(e) \/ SendSynAck(e) \/ SendRst(e)

-----------------------------------------------------------------------------
(* Timers.  event_engine takes their events, and the applications', only   *)
(* when everything before has reached the tx engine.                       *)

\* The retransmission time-out is 1 s, an abort takes five of them (1 s to
\* 31 s), the close timer 60 s.  One that is in Long does not run out while a
\* segment or an event of the connection is still under way.
Quiet ==
    \A e \in Ends : events[e] = <<>> /\ rx[e] = <<>> /\ net[e] = <<>> /\ ~timer[e].ack
TimeIsUp(kind) == kind \in Long => Quiet

\* retransmit_timer: time is up; ask for a retransmission of the kind set.
TimeOut(e) ==
    /\ timer[e].active /\ timer[e].retries < Retries /\ events[e] = <<>> /\ TimeIsUp("retransmit")
    /\ LET n == timer[e].retries + 1 IN
       Post(e, [timer[e] EXCEPT !.active = FALSE, !.retries = n],
            <<Event(timer[e].type, n)>>)
    /\ UNCHANGED <<tcb, rx, net, app, faults>>

\* Too many in a row: close the session (once it is unlocked), tell the
\* application that opened it or the one that listens to it.
Abort(e) ==
    /\ timer[e].active /\ timer[e].retries >= Retries /\ rx[e] = <<>> /\ TimeIsUp("abort")
    /\ timer' = [timer EXCEPT ![e].active = FALSE, ![e].retries = 0]
    /\ tcb' = [tcb EXCEPT ![e] = SetState(@, "CLOSED")]
    /\ app' = [app EXCEPT ![e] =
                 IF timer[e].type = "SYN" THEN Answer(@, "failed")
                 ELSE [@ EXCEPT !.closed = TRUE]]
    /\ UNCHANGED <<events, rx, net, faults>>

\* close_timer: the time in TIME_WAIT is over.
CloseTimeOut(e) ==
    /\ timer[e].close /\ rx[e] = <<>> /\ TimeIsUp("close")
    /\ timer' = [timer EXCEPT ![e].close = FALSE]
    /\ tcb' = [tcb EXCEPT ![e] = SetState(@, "CLOSED")]
    /\ UNCHANGED <<events, rx, net, app, faults>>

\* ack_delay: the delayed ACK has waited long enough.
AckTimeOut(e) ==
    /\ timer[e].ack
    /\ timer' = [timer EXCEPT ![e].ack = FALSE]
    /\ events' = [events EXCEPT ![e] = Append(@, Event("ACK", 0))]
    /\ UNCHANGED <<tcb, rx, net, app, faults>>

\* The session lookup forgets the session that a CLOSED released.
Release(e) ==
    /\ tcb[e].lookup = "release"
    /\ tcb' = [tcb EXCEPT ![e].lookup = "gone"]
    /\ UNCHANGED <<timer, events, rx, net, app, faults>>

-----------------------------------------------------------------------------
(* The applications: tx_app_if, tasi_metaLoader, txEventMerger.            *)

Open(e) ==
    /\ e \in Openers /\ ~app[e].opened /\ tcb[e].lookup = "none"
    /\ tcb' = [tcb EXCEPT ![e] = [SetState(@, "SYN_SENT") EXCEPT !.lookup = "live"]]
    /\ app' = [app EXCEPT ![e].opened = TRUE, ![e].conn = Append(@, Event("SYN", 0))]
    /\ UNCHANGED <<timer, events, rx, net, faults>>

\* Gentle applications write when the other end is established and nothing is
\* under way; they close when what they both write has been acknowledged, and
\* no fault comes after a close.
OthersAreUp == \A e \in Ends : tcb[e].state \notin {"SYN_SENT", "SYN_RECEIVED"}
MayWrite == Gentle => OthersAreUp /\ Quiet
Written == app["A"].wrote + app["B"].wrote
MayClose ==
    Gentle => /\ OthersAreUp /\ Written = MaxData
              /\ \A e \in Senders : Dist(Plus(tcb[e].isn, 1), tcb[e].ackd) >= app[e].wrote

\* A write is accepted in ESTABLISHED only.
Write(e) ==
    /\ MayWrite /\ e \in Senders /\ tcb[e].state = "ESTABLISHED" /\ Written < MaxData
    /\ app' = [app EXCEPT ![e].wrote = @ + 1]
    /\ UNCHANGED <<tcb, timer, events, rx, net, faults>>

\* CLOSE_CONN reads and writes the state under its lock.
Close(e) ==
    /\ e \in Closers /\ rx[e] = <<>> /\ app[e].closes = 0
    /\ tcb[e].state \in {"ESTABLISHED", "FIN_WAIT_2", "FIN_WAIT_1"}
    /\ MayClose
    /\ tcb' = [tcb EXCEPT ![e] = SetState(@, "FIN_WAIT_1")]
    /\ app' = [app EXCEPT ![e].closes = 1, ![e].conn = Append(@, Event("FIN", 0))]
    /\ UNCHANGED <<timer, events, rx, net, faults>>

\* txEventMerger and event_engine: SYN and FIN before data.
OfferEvent(e) ==
    /\ events[e] = <<>>
    /\ \/ /\ app[e].conn # <<>>
          /\ Post(e, timer[e], <<Head(app[e].conn)>>)
          /\ app' = [app EXCEPT ![e].conn = Tail(@)]
       \/ /\ app[e].conn = <<>> /\ app[e].offered < app[e].wrote
          /\ Post(e, timer[e], <<Event("TX", 0)>>)
          /\ app' = [app EXCEPT ![e].offered = @ + 1]
    /\ UNCHANGED <<tcb, rx, net, faults>>

-----------------------------------------------------------------------------
(* The network: first in, first out, but for MaxFaults faults.             *)

Fault(kind) ==
    /\ kind \in Network
    /\ faults < MaxFaults /\ (Gentle => \A d \in Ends : app[d].closes = 0)
    /\ faults' = faults + 1
    /\ UNCHANGED <<tcb, timer, events, rx, app>>

Lose(e) ==
    /\ Fault("lose")
    /\ \E i \in 1..Len(net[e]) : net' = [net EXCEPT ![e] = RemoveAt(@, i)]
Duplicate(e) ==
    /\ Fault("duplicate")
    /\ \E i \in 1..Len(net[e]) : net' = [net EXCEPT ![e] = Append(@, @[i])]
Reorder(e) ==
    /\ Fault("reorder")
    /\ \E i \in 1..Len(net[e]) - 1 :
          net' = [net EXCEPT ![e] = Append(RemoveAt(@, i), @[i])]

Engine(e) == Receive(e) \/ TxEngine(e)
Timers(e) == TimeOut(e) \/ Abort(e) \/ CloseTimeOut(e) \/ AckTimeOut(e) \/ Release(e)
Application(e) == Open(e) \/ Write(e) \/ Close(e) \/ OfferEvent(e)
Faults(e) == Lose(e) \/ Duplicate(e) \/ Reorder(e)

Next == \E e \in Ends : Engine(e) \/ Timers(e) \/ Application(e) \/ Faults(e)

Spec == Init /\ [][Next]_vars

\* The engines and timers are hardware processes that never stop.
Fairness ==
    \A e \in Ends :
       /\ WF_vars(Receive(e)) /\ WF_vars(TxEngine(e)) /\ SF_vars(OfferEvent(e))
       /\ WF_vars(TimeOut(e)) /\ WF_vars(Abort(e)) /\ WF_vars(CloseTimeOut(e))
       /\ WF_vars(AckTimeOut(e)) /\ WF_vars(Release(e))
FairSpec == Spec /\ Fairness
-----------------------------------------------------------------------------
(* Properties.                                                             *)

TcpStates == {"CLOSED", "SYN_SENT", "SYN_RECEIVED", "ESTABLISHED", "FIN_WAIT_1",
              "CLOSING", "TIME_WAIT", "LAST_ACK"}
Numbers == 0..(SeqSpace - 1)

\* Every variable holds values of its type; FIN_WAIT_2 is never entered, as
\* the comment on sessionState says.
TypeOK ==
    \A e \in Ends :
       /\ tcb[e].state \in TcpStates
       /\ tcb[e].lookup \in {"none", "live", "release", "gone"}
       /\ {tcb[e].recvd, tcb[e].isn, tcb[e].ackd, tcb[e].nxt} \subseteq Numbers
       /\ tcb[e].count \in 0..3 /\ {tcb[e].fast, tcb[e].fin} \subseteq BOOLEAN
       /\ timer[e].retries \in 0..Retries
       /\ Len(rx[e]) <= 1
       /\ \A i \in 1..Len(net[e]) : {net[e][i].seq, net[e][i].ack} \subseteq Numbers

\* Both ends of an established connection count the bytes alike: what one
\* expects next is what the other one's stream has at that place; what e takes
\* for acknowledged has been received, and what was received has been sent.
\* Each number is kept by another process (rx FSM, metaLoader) of another end.
EstablishedAgree ==
    \A e \in Ends :
       LET p == Peer(e)
           first == Plus(tcb[e].isn, 1)
       IN  tcb[e].state = "ESTABLISHED" /\ tcb[p].state = "ESTABLISHED" =>
              /\ Dist(first, tcb[p].recvd) = Len(app[p].got)
              /\ Dist(first, tcb[e].ackd) <= Len(app[p].got)
              /\ Len(app[p].got) <= Dist(first, tcb[e].nxt)
              /\ Dist(first, tcb[e].nxt) = app[e].sent

\* An open request is answered once: an application that was told that its
\* connection is open is not told later that opening it failed, nor is a
\* failure told twice.  The answers come from three processes: the receive FSM
\* on a SYN_ACK, the receive FSM on a RST, and the retransmission timer, whose
\* row may still be that of a SYN when the state has moved on.
AnsweredOnce == \A e \in Ends : Len(app[e].answers) <= 1

\* How many bytes are acknowledged: none, before ackd is a number of the stream.
Acked(e) ==
    LET n == Dist(Plus(tcb[e].isn, 1), tcb[e].ackd) IN IF n <= app[e].wrote THEN n ELSE 0

Stream == INSTANCE ByteStream WITH
    written   <- [e \in Ends |-> app[e].wrote],
    delivered <- [e \in Ends |-> app[e].got],
    acked     <- [e \in Ends |-> Acked(e)]

\* What an application reads is what the other one wrote, up to some point.
StreamIsPrefix == \A e \in Ends : IsPrefix(app[e].got, Stream!Bytes(Peer(e)))

\* While bytes are not acknowledged and nothing is under way, the
\* retransmission timer the tx engine set with them runs.
UnackedIsTimed ==
    \A e \in Ends :
       tcb[e].state = "ESTABLISHED" /\ tcb[e].ackd # tcb[e].nxt /\ Quiet => timer[e].active

\* An application told that its connection has ended (by the peer's FIN, an
\* abort or a RST) has received everything the other one wrote.
CloseIsOrderly ==
    \A e \in Ends : app[e].closed => Len(app[e].got) = app[Peer(e)].wrote

\* What must happen in the end.  As an application's requests stay in its counts,
\* `request ~> answer' is `time and again, request => answer'.

\* Every request to open is answered, however the handshake goes.
OpenIsAnswered == \A e \in Openers : []<>(app[e].opened => app[e].answers # <<>>)

\* No end stays half open: SYN_SENT and SYN_RECEIVED are left.
HandshakeEnds ==
    \A e \in Ends : []<>(tcb[e].state \notin {"SYN_SENT", "SYN_RECEIVED"})

\* After a close both ends reach CLOSED and give their identifiers back.
BothClose ==
    \A e \in Closers : []<>(app[e].closes > 0 =>
       \A d \in Ends : tcb[d].state = "CLOSED" /\ tcb[d].lookup = "gone")

\* What is written arrives, if the network makes fewer faults in a row than
\* the timer allows retransmissions.
DataArrives ==
    \A e \in Senders : []<>(Len(app[Peer(e)].got) >= app[e].wrote)

=============================================================================
