------------------------------- MODULE SendPath -------------------------------
(***************************************************************************)
(* The way of the application's bytes through the toe: admission of a      *)
(* write (tx_app_stream_if, tx_app_table), the copy kept in external       *)
(* memory, one ring of BufferSize bytes per session, the segment that      *)
(* bypasses the memory (TCP_NODELAY), and the segments that retransmission *)
(* reads back from it.  A byte is the session and its offset in the        *)
(* stream, so that a byte in the wrong place can be told.                  *)
(***************************************************************************)
EXTENDS Integers, Sequences, FiniteSets, FiniteSetsExt

CONSTANTS
    Sessions,       \* identifiers in use
    BufferSize,     \* BUFFER_SIZE: 2^WINDOW_BITS
    First,          \* offset in the ring at which the streams start
    MSS,            \* longest segment
    Window,         \* the receive buffer of the peer, by session
    Lengths,        \* lengths of the application's writes
    PushDepth,      \* depth of txSar2txApp_ack_push (16)
    MaxBytes,       \* bound: bytes written, of all sessions
    MaxRetransmits, \* bound: retransmissions
    NoReply

ASSUME SizeAssumption == BufferSize \in Nat \ {0} /\ MSS \in Nat \ {0} /\ First \in Nat
ASSUME WindowAssumption == Window \in [Sessions -> Nat]
ASSUME LengthAssumption == Lengths \subseteq Nat \ {0}
ASSUME NoReplyAssumption == NoReply \notin [ackd : Nat, mempt : Nat, window : Nat]

VARIABLES
    request,    \* tasi_writeMeta, while the reply is awaited
    appReqQ,    \* txApp2txSar_upd_req: what the meta loader asks the app table
    appReply,   \* txSar2txApp_upd_rsp, or NoReply
    ackPushQ,   \* txSar2txApp_ack_push
    appTable,   \* app_table: ackd, mempt, min_window
    pushQ,      \* tasi_meta2pkgPushCmd: the writes that are not yet in memory
    statuses,   \* how many statuses wait in txBufferWriteStatus
    cacheQ,     \* txApp_txEventCache
    handler,    \* txAppStatusHandler: statuses it waits for, and the event
    app,        \* tx_sar_table: app
    memory,     \* the external memory
    txQ,        \* events on their way to the tx engine
    bypassQ,    \* txApp2txEng_data_stream
    ackd, notAckd,  \* tx_sar_table: ackd, not_ackd
    engine,     \* metaLoader: what is left of a retransmission
    readCmdQ,   \* txBufferReadCmd before the breakdown
    segmentQ,   \* txEng_isDDRbypass with the meta data of the segment
    written,    \* bound and history: bytes accepted from the application
    wire,       \* segments sent, the last one only
    reached,    \* history: what the wire has carried in order
    edge,       \* history: the rightmost byte the peer has granted
    retransmits \* bound: retransmissions so far

appVars == <<request, appReqQ, appReply, pushQ, cacheQ, bypassQ, written>>
storeVars == <<statuses, handler, app, memory>>
engineVars == <<txQ, notAckd, engine, readCmdQ, segmentQ, wire, reached>>
peerVars == <<ackd, ackPushQ, edge, retransmits>>
vars == <<appVars, appTable, storeVars, engineVars, peerVars>>

Ring(i) == i % BufferSize
Byte(s, i) == <<s, i>>
Bytes(s, from, n) == [k \in 1 .. n |-> Byte(s, from + k - 1)]

Init ==
    /\ request = <<>> /\ appReqQ = <<>> /\ appReply = NoReply
    /\ ackPushQ = <<>> /\ pushQ = <<>> /\ statuses = 0
    /\ cacheQ = <<>> /\ handler = <<>>
    /\ appTable = [s \in Sessions |->
                     [ackd |-> Ring(First), mempt |-> Ring(First), window |-> Window[s]]]
    /\ app = [s \in Sessions |-> Ring(First)]
    /\ memory = [s \in Sessions |-> [a \in 0 .. BufferSize - 1 |-> <<>>]]
    /\ txQ = <<>> /\ bypassQ = <<>>
    /\ ackd = [s \in Sessions |-> First] /\ notAckd = ackd
    /\ engine = <<>> /\ readCmdQ = <<>> /\ segmentQ = <<>>
    /\ written = ackd
    /\ wire = <<>>
    /\ reached = ackd
    /\ edge = [s \in Sessions |-> First + Window[s]]
    /\ retransmits = 0

-----------------------------------------------------------------------------
(* tasi_metaLoader and tx_app_table                                        *)

AskWrite(s, n) ==
    /\ request = <<>>
    /\ MapThenSumSet(LAMBDA r : written[r] - First, Sessions) + n <= MaxBytes
    /\ request' = [session |-> s, length |-> n]
    /\ appReqQ' = Append(appReqQ, [session |-> s, write |-> FALSE, mempt |-> 0])
    /\ UNCHANGED <<appReply, pushQ, cacheQ, bypassQ, written, appTable, storeVars, engineVars, peerVars>>

AppTablePush ==
    /\ ackPushQ # <<>>
    /\ LET push == Head(ackPushQ) IN
         appTable' = [appTable EXCEPT ![push.session].ackd = push.ackd,
                                      ![push.session].window = push.window]
    /\ ackPushQ' = Tail(ackPushQ)
    /\ UNCHANGED <<appVars, storeVars, engineVars, ackd, edge, retransmits>>

AppTableServe ==
    /\ ackPushQ = <<>> /\ appReqQ # <<>>
    /\ LET q == Head(appReqQ) IN
         IF q.write
           THEN /\ appTable' = [appTable EXCEPT ![q.session].mempt = q.mempt]
                /\ UNCHANGED appReply
           ELSE /\ appReply' = appTable[q.session]
                /\ UNCHANGED appTable
    /\ appReqQ' = Tail(appReqQ)
    /\ UNCHANGED <<request, pushQ, cacheQ, bypassQ, written, storeVars, engineVars, peerVars>>

MaxWriteLength(r) == Ring(r.ackd - r.mempt - 1)
UsableWindow(r) ==
    LET used == Ring(r.mempt - r.ackd)
    IN  IF r.window > used THEN r.window - used ELSE 0

NextFree(r, n) == Ring(r.mempt + n)

FitsRing(n, r) == n <= MaxWriteLength(r)    \* mistake: the window is not looked at
Fits(n, r) == n <= MaxWriteLength(r) /\ n <= UsableWindow(r)

Refuse ==
    /\ appReply # NoReply
    /\ ~Fits(request.length, appReply)
    /\ request' = <<>> /\ appReply' = NoReply
    /\ UNCHANGED <<appReqQ, pushQ, cacheQ, bypassQ, written, appTable, storeVars, engineVars, peerVars>>

(* The application answers the acceptance with its data, which goes to the *)
(* memory and past it.  The field from of an event is history: the offset  *)
(* of its first byte in the stream.                                        *)
Accept ==
    /\ appReply # NoReply
    /\ Fits(request.length, appReply)
    /\ LET s == request.session
           n == request.length
           event == [type |-> "TX", session |-> s, address |-> appReply.mempt, length |-> n,
                     from |-> written[s]]
       IN  /\ pushQ' = Append(pushQ, event)
           /\ txQ' = Append(txQ, event)
           /\ cacheQ' = Append(cacheQ, event)
           /\ appReqQ' = Append(appReqQ, [session |-> s, write |-> TRUE, mempt |-> NextFree(appReply, n)])
           /\ bypassQ' = Append(bypassQ, Bytes(s, written[s], n))
           /\ written' = [written EXCEPT ![s] = @ + n]
    /\ request' = <<>> /\ appReply' = NoReply
    /\ UNCHANGED <<appTable, storeVars, notAckd, engine, readCmdQ, segmentQ, wire, reached, peerVars>>

-----------------------------------------------------------------------------
(* The copy in memory: tasi_pkg_pusher cuts a write that crosses the end   *)
(* of the ring, txAppStatusHandler waits for as many statuses              *)

Crosses(address, n) == address + n > BufferSize

SecondWriteOfZero(s, data) == [session |-> 0, address |-> 0, data |-> data]     \* mistake: as SecondRead
SecondWrite(s, data) == [session |-> s, address |-> 0, data |-> data]
Cut(s, address, data) ==
    LET first == BufferSize - address IN
    IF Crosses(address, Len(data))
      THEN <<[session |-> s, address |-> address, data |-> SubSeq(data, 1, first)],
             SecondWrite(s, SubSeq(data, first + 1, Len(data)))>>
      ELSE <<[session |-> s, address |-> address, data |-> data]>>

Write(m, w) ==
    [m EXCEPT ![w.session] = [a \in DOMAIN @ |->
        IF a \in w.address .. w.address + Len(w.data) - 1 THEN w.data[a - w.address + 1] ELSE @[a]]]

(* The data mover answers each write command with a status.                *)
Store ==
    /\ pushQ # <<>>
    /\ LET p == Head(pushQ)
           parts == Cut(p.session, p.address, Bytes(p.session, p.from, p.length))
           once == Write(memory, parts[1])
       IN  /\ memory' = IF Len(parts) = 1 THEN once ELSE Write(once, parts[2])
           /\ statuses' = statuses + Len(parts)
    /\ pushQ' = Tail(pushQ)
    /\ UNCHANGED <<request, appReqQ, appReply, cacheQ, bypassQ, written, appTable,
                   handler, app, engineVars, peerVars>>

StatusesForOne(e) == 1       \* mistake: one for each event
StatusesFor(e) == IF Crosses(e.address, e.length) THEN 2 ELSE 1

HandleEvent ==
    /\ handler = <<>> /\ cacheQ # <<>>
    /\ handler' = [event |-> Head(cacheQ), missing |-> StatusesFor(Head(cacheQ))]
    /\ cacheQ' = Tail(cacheQ)
    /\ UNCHANGED <<request, appReqQ, appReply, pushQ, bypassQ, written, appTable,
                   statuses, app, memory, engineVars, peerVars>>

HandleStatus ==
    /\ handler # <<>> /\ statuses > 0
    /\ statuses' = statuses - 1
    /\ IF handler.missing = 2
         THEN handler' = [handler EXCEPT !.missing = 1] /\ UNCHANGED app
         ELSE LET e == handler.event IN
              /\ app' = [app EXCEPT ![e.session] = Ring(e.address + e.length)]
              /\ handler' = <<>>
    /\ UNCHANGED <<appVars, appTable, memory, engineVars, peerVars>>

-----------------------------------------------------------------------------
(* The tx engine: new data bypasses the memory, a retransmission reads it  *)

SendNew ==
    /\ engine = <<>> /\ txQ # <<>> /\ Head(txQ).type = "TX"
    /\ LET e == Head(txQ) IN
         /\ segmentQ' = Append(segmentQ, [session |-> e.session, seq |-> notAckd[e.session],
                                          length |-> e.length, bypass |-> TRUE])
         /\ notAckd' = [notAckd EXCEPT ![e.session] = @ + e.length]
    /\ txQ' = Tail(txQ)
    /\ UNCHANGED <<appVars, appTable, storeVars, engine, readCmdQ, wire, reached, peerVars>>

BeginRetransmit ==
    /\ engine = <<>> /\ txQ # <<>> /\ Head(txQ).type = "RT"
    /\ LET s == Head(txQ).session IN
         engine' = [session |-> s, ackd |-> ackd[s], left |-> Ring(notAckd[s] - ackd[s]), count |-> 0]
    /\ txQ' = Tail(txQ)
    /\ UNCHANGED <<appVars, appTable, storeVars, notAckd, readCmdQ, segmentQ, wire, reached, peerVars>>

(* One segment of at most MSS; the fourth ends the retransmission, as does *)
(* the one that carries the rest.                                          *)
SendAgain ==
    /\ engine # <<>>
    /\ LET s == engine.session
           n == IF engine.left > MSS THEN MSS ELSE engine.left
       IN  /\ IF n # 0
                THEN /\ readCmdQ' = Append(readCmdQ, [session |-> s, address |-> Ring(engine.ackd), length |-> n])
                     /\ segmentQ' = Append(segmentQ, [session |-> s, seq |-> engine.ackd,
                                                      length |-> n, bypass |-> FALSE])
                ELSE UNCHANGED <<readCmdQ, segmentQ>>
           /\ engine' = IF engine.left > MSS /\ engine.count < 3
                          THEN [engine EXCEPT !.ackd = @ + MSS, !.left = @ - MSS, !.count = @ + 1]
                          ELSE <<>>
    /\ UNCHANGED <<appVars, appTable, storeVars, txQ, notAckd, wire, reached, peerVars>>

(* txEngMemAccessBreakdown and read_data_stitching.  The second access     *)
(* starts at address 0 of the memory, without the session's bits.          *)
SecondRead(s, n) == [session |-> 0, address |-> 0, length |-> n]

Reads(c) ==
    LET first == BufferSize - c.address IN
    IF Crosses(c.address, c.length)
      THEN <<[c EXCEPT !.length = first], SecondRead(c.session, c.length - first)>>
      ELSE <<c>>

Read(c) == [k \in 1 .. c.length |-> memory[c.session][c.address + k - 1]]

Stitched(c) ==
    LET rs == Reads(c) IN IF Len(rs) = 1 THEN Read(rs[1]) ELSE Read(rs[1]) \o Read(rs[2])

Emit(seg, data) ==
    /\ wire' = [session |-> seg.session, seq |-> seg.seq, bypass |-> seg.bypass, data |-> data]
    /\ reached' = [reached EXCEPT ![seg.session] = Max({@, seg.seq + seg.length})]
    /\ segmentQ' = Tail(segmentQ)

(* read_data_arbiter                                                       *)
EmitBypass ==
    /\ segmentQ # <<>> /\ Head(segmentQ).bypass
    /\ bypassQ # <<>>
    /\ Emit(Head(segmentQ), Head(bypassQ))
    /\ bypassQ' = Tail(bypassQ)
    /\ UNCHANGED <<request, appReqQ, appReply, pushQ, cacheQ, written, appTable, storeVars,
                   txQ, notAckd, engine, readCmdQ, peerVars>>

EmitStored ==
    /\ segmentQ # <<>> /\ ~Head(segmentQ).bypass
    /\ readCmdQ # <<>>
    /\ Emit(Head(segmentQ), Stitched(Head(readCmdQ)))
    /\ readCmdQ' = Tail(readCmdQ)
    /\ UNCHANGED <<appVars, appTable, storeVars, txQ, notAckd, engine, peerVars>>

-----------------------------------------------------------------------------
(* The rx engine: acknowledgements and the causes of a retransmission.  The*)
(* peer opens its window in full or leaves the right edge where it was.    *)

Acknowledge(s, a, w) ==
    /\ a \in ackd[s] .. reached[s]
    /\ Len(ackPushQ) < PushDepth
    /\ w \in {Window[s], edge[s] - a}
    /\ <<a, a + w>> # <<ackd[s], edge[s]>>
    /\ ackd' = [ackd EXCEPT ![s] = a]
    /\ ackPushQ' = Append(ackPushQ, [session |-> s, ackd |-> Ring(a), window |-> w])
    /\ edge' = [edge EXCEPT ![s] = a + w]
    /\ UNCHANGED <<appVars, appTable, storeVars, engineVars, retransmits>>

(* Assumed of the memory: a write is stored long before its segment can    *)
(* time out or be acknowledged three times.                                *)
Stored(s) == \A i \in DOMAIN pushQ : pushQ[i].session # s

Retransmit(s) ==
    /\ retransmits < MaxRetransmits
    /\ ackd[s] < reached[s] /\ Stored(s)
    /\ txQ' = Append(txQ, [type |-> "RT", session |-> s])
    /\ retransmits' = retransmits + 1
    /\ UNCHANGED <<appVars, appTable, storeVars, notAckd, engine, readCmdQ, segmentQ, wire, reached,
                   ackd, ackPushQ, edge>>

Next ==
    \/ \E s \in Sessions, n \in Lengths : AskWrite(s, n)
    \/ AppTablePush \/ AppTableServe \/ Refuse \/ Accept
    \/ Store \/ HandleEvent \/ HandleStatus
    \/ SendNew \/ BeginRetransmit \/ SendAgain \/ EmitBypass \/ EmitStored
    \/ \E s \in Sessions : \E a \in ackd[s] .. reached[s], w \in 0 .. Window[s] : Acknowledge(s, a, w)
    \/ \E s \in Sessions : Retransmit(s)

Spec == Init /\ [][Next]_vars

-----------------------------------------------------------------------------
(* Properties                                                              *)

TypeOK ==
    /\ \A s \in Sessions :
          /\ appTable[s] \in [ackd : 0 .. BufferSize - 1, mempt : 0 .. BufferSize - 1, window : 0 .. Window[s]]
          /\ app[s] \in 0 .. BufferSize - 1
          /\ ackd[s] <= reached[s] /\ reached[s] <= notAckd[s] /\ notAckd[s] <= written[s]

(* A write is admitted only into bytes of the ring that are acknowledged:  *)
(* however late the acknowledgements come to tx_app_table, the ring never  *)
(* holds more than fits.                                                   *)
RingHoldsAll == \A s \in Sessions : written[s] - ackd[s] < BufferSize

(* Nothing is sent beyond what the peer has granted.                       *)
WindowIsKept == \A s \in Sessions : notAckd[s] <= edge[s]

(* tx_app_stream_if.cpp:78: "tasi_writeSar.mempt and txSar.not_ackd are    *)
(* supposed to be equal (with a few cycles delay)": the segment that       *)
(* leaves for an event starts where its bytes were put in the ring.        *)
IsNext(i) ==
    /\ txQ[i].type = "TX"
    /\ \A j \in 1 .. i - 1 : txQ[j].type = "TX" => txQ[j].session # txQ[i].session
PointersInStep ==
    \A i \in DOMAIN txQ : IsNext(i) =>
        LET s == txQ[i].session IN txQ[i].from = notAckd[s] /\ txQ[i].address = Ring(notAckd[s])

(* What is admitted fits: neither the ring nor the peer's window is        *)
(* overrun, and what is sent starts where it was put in the ring.          *)
AdmissionIsSafe == TypeOK /\ RingHoldsAll /\ WindowIsKept /\ PointersInStep

(* The statuses of the data mover are counted off against the right        *)
(* events, although a write that crosses the end of the ring is answered   *)
(* twice: the app pointer is where the first event begins that waits for   *)
(* its statuses, and what lies before it and is not acknowledged is in     *)
(* memory.                                                                 *)
Held == IF handler = <<>> THEN cacheQ ELSE <<handler.event>> \o cacheQ
Released(s) == Min({written[s]} \cup {Held[i].from : i \in {j \in DOMAIN Held : Held[j].session = s}})

AppIsStored ==
    \A s \in Sessions :
        /\ app[s] = Ring(Released(s))
        /\ \A i \in ackd[s] .. Released(s) - 1 : memory[s][Ring(i)] = Byte(s, i)

(* A segment carries the bytes the application wrote at its sequence       *)
(* numbers, except for those its peer has acknowledged meanwhile, whose    *)
(* place in the ring may hold newer ones.                                  *)
Original(k) ==
    LET i == wire.seq + k - 1 IN i >= ackd[wire.session] => wire.data[k] = Byte(wire.session, i)

SegmentsAreOriginal == wire # <<>> => \A k \in DOMAIN wire.data : Original(k)

(* The same without the part of a retransmission that lies behind the end  *)
(* of the ring of a session other than 0 (see SegmentsAreOriginal).        *)
BehindTheEnd(k) == ~wire.bypass /\ wire.session # 0 /\ Ring(wire.seq) + k > BufferSize

SegmentsAreOriginalInTheRing ==
    wire # <<>> => \A k \in DOMAIN wire.data : Original(k) \/ BehindTheEnd(k)

=============================================================================
