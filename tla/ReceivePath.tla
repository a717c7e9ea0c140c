------------------------------ MODULE ReceivePath ------------------------------
(***************************************************************************)
(* The way of received bytes through the toe: the two drop decisions that  *)
(* rxMetadataHandler and rxTcpFSM take for a payload and rxPackageDropper  *)
(* applies, the receive window of rx_sar_table, and the application's read.*)
(* Three builds are modelled.  In "bypass" (RX_DDR_BYPASS, the default) a  *)
(* payload waits in one FIFO of all sessions; in "memory" and "scaled" it  *)
(* is written to the session's ring, also out of order, and the            *)
(* notification waits for the status of the write; in "scaled"             *)
(* (WINDOW_SCALE) the ring has several blocks of 64K, in "memory" it is    *)
(* one.  A payload is the sequence of its bytes, a byte is the session and *)
(* its offset in the stream, or Foreign.                                   *)
(***************************************************************************)
EXTENDS Integers, Sequences, SequencesExt, FiniteSets

CONSTANTS
    Sessions,       \* sessions that are established
    Builds,         \* subset of {"bypass", "memory", "scaled"}
    BufferSize,     \* BUFFER_SIZE: 2^WINDOW_BITS
    AccessSize,     \* 65536 in the scaled build, where rxAppMemAccessBreakdown cuts
    FifoSize, Margin, \* rxbuffer_max_data_count, 375
    NoteDepth,      \* rand_notificationBuffer: 31 are let in
    First,          \* sequence number of the first byte
    Cuts,           \* how the peer of a session cuts its stream: <<offset, length, kind>>
    Strays,         \* segments that arrive besides: <<session, kind, length>>
    Depth,          \* depth of the FIFOs between the processes of rx_engine (2)
    MaxArrivals,    \* bound: segments
    Foreign

VARIABLES
    build,      \* the build
    arrived,    \* bound: segments so far, their number is the segment's name
    payloadQ,   \* rxEng_dataBuffer3
    metaQ,      \* rx_metaDataFifo with the answer of the port table
    looking,    \* mh_meta, in state LOOKUP
    fsmQ,       \* rxEng_fsmMetaDataFifo
    loaded,     \* fsm_meta with what was read, in state TRANSITION
    drop1Q, drop2Q, \* rxEng_metaHandlerDropFifo, rxEng_fsmDropFifo
    dropper,    \* tpf_state, and the decision it is in
    sar,        \* rx_sar_table: recvd, appd, head, offset, gap
    open,       \* the session's state takes data (ESTABLISHED, FIN_WAIT)
    fifo,       \* bypass: the FIFO of received payloads
    writeQ,     \* memory: rxTcpFsm2wrAccessBreakdown
    accessQ,    \* memory: rxBufferWriteCmd and its data
    ring,       \* memory: the external memory
    statuses,   \* memory: rxBufferWriteStatus
    doubleQ,    \* memory: rxEngDoubleAccess
    noteQ,      \* memory: rx_internalNotificationFifo
    delayed,    \* memory: rand_notificationBuffer
    half,       \* memory: rxAppNotification, while the second status is awaited
    notes,      \* notifications on their way to the application
    asked,      \* appRxDataReq, one at a time
    readQ,      \* the read command
    got,        \* the application's last read and how far it has read
    closed      \* sessions whose end the application has been told

decisionVars == <<payloadQ, metaQ, looking, fsmQ, loaded, drop1Q, drop2Q, dropper>>
memoryVars == <<accessQ, ring, statuses, doubleQ>>
noteVars == <<delayed, half>>
appVars == <<asked, readQ, got, closed>>
vars == <<build, arrived, decisionVars, sar, open, fifo, writeQ, memoryVars, noteQ, noteVars, notes, appVars>>

Ring(i) == i % BufferSize
Byte(s, i) == <<s, i>>
Bytes(s, from, n) == [k \in 1 .. n |-> Byte(s, from + k - 1)]

Init ==
    /\ build \in Builds
    /\ arrived = 0
    /\ payloadQ = <<>> /\ metaQ = <<>> /\ looking = <<>> /\ fsmQ = <<>> /\ loaded = <<>>
    /\ drop1Q = <<>> /\ drop2Q = <<>> /\ dropper = [state |-> "READ_DROP1", of |-> 0]
    /\ sar = [s \in Sessions |-> [recvd |-> First, appd |-> Ring(First), head |-> First,
                                  offset |-> 0, gap |-> FALSE]]
    /\ open = Sessions
    /\ fifo = <<>> /\ writeQ = <<>> /\ accessQ = <<>>
    /\ ring = [s \in Sessions |-> [a \in 0 .. BufferSize - 1 |-> Foreign]]
    /\ statuses = 0 /\ doubleQ = <<>>
    /\ noteQ = <<>> /\ delayed = <<>> /\ half = <<>> /\ notes = <<>>
    /\ asked = <<>> /\ readQ = <<>> /\ closed = {}
    /\ got = [upto |-> [s \in Sessions |-> First], last |-> <<>>, session |-> 0]

-----------------------------------------------------------------------------
(* Segments.  The peer sends what its window allows, in any order and more *)
(* than once; a segment of another kind carries bytes of no stream.        *)

LengthOf(s, seq) == FoldLeft(LAMBDA t, n : IF n.session = s THEN t + n.length ELSE t, 0, seq)

(* The window ends a ring behind the application's pointer, which is moved *)
(* when a read begins, so that the peer may send over bytes being read.    *)
Granted(s) == got.upto[s] + LengthOf(s, readQ) + BufferSize - 1

Data(s, c) ==
    [kind |-> c[3], session |-> s, seq |-> First + c[1], length |-> c[2], data |-> Bytes(s, First + c[1], c[2])]

Stray(s, k, n) ==
    [kind |-> k, session |-> s, seq |-> First, length |-> n, data |-> [i \in 1 .. n |-> Foreign]]

Segments ==
    (UNION {{Data(s, c) : c \in Cuts[s]} : s \in Sessions}) \cup {Stray(x[1], x[2], x[3]) : x \in Strays}

Named(n, g) == [id |-> n, kind |-> g.kind, session |-> g.session, seq |-> g.seq, length |-> g.length]

(* What processPseudoHeader and drop_optional_header_fields pass on of a   *)
(* segment with a correct checksum.                                        *)
Arrive(g) ==
    /\ arrived < MaxArrivals /\ Len(metaQ) < Depth
    /\ g.seq + g.length <= Granted(g.session)
    /\ arrived' = arrived + 1
    /\ metaQ' = Append(metaQ, Named(arrived + 1, g))
    /\ payloadQ' = IF g.length = 0 THEN payloadQ
                     ELSE Append(payloadQ, [id |-> arrived + 1, data |-> g.data])
    /\ UNCHANGED <<build, looking, fsmQ, loaded, drop1Q, drop2Q, dropper, sar, open, fifo, writeQ,
                   memoryVars, noteQ, noteVars, notes, appVars>>

-----------------------------------------------------------------------------
(* rxMetadataHandler: the first decision                                   *)

Decision(g, d) == [drop |-> d, id |-> g.id]

MetaClosedPort ==
    /\ looking = <<>> /\ metaQ # <<>> /\ Head(metaQ).kind = "PORT" /\ Len(drop1Q) < Depth
    /\ drop1Q' = IF Head(metaQ).length = 0 THEN drop1Q ELSE Append(drop1Q, Decision(Head(metaQ), TRUE))
    /\ metaQ' = Tail(metaQ)
    /\ UNCHANGED <<build, arrived, payloadQ, looking, fsmQ, loaded, drop2Q, dropper, sar, open, fifo,
                   writeQ, memoryVars, noteQ, noteVars, notes, appVars>>

MetaLookup ==
    /\ looking = <<>> /\ metaQ # <<>> /\ Head(metaQ).kind # "PORT"
    /\ looking' = Head(metaQ)
    /\ metaQ' = Tail(metaQ)
    /\ UNCHANGED <<build, arrived, payloadQ, fsmQ, loaded, drop1Q, drop2Q, dropper, sar, open, fifo,
                   writeQ, memoryVars, noteQ, noteVars, notes, appVars>>

MetaAnswered ==
    /\ looking # <<>> /\ Len(drop1Q) < Depth /\ Len(fsmQ) < Depth
    /\ LET hit == looking.kind # "MISS" IN
         /\ fsmQ' = IF hit THEN Append(fsmQ, looking) ELSE fsmQ
         /\ drop1Q' = IF looking.length = 0 THEN drop1Q ELSE Append(drop1Q, Decision(looking, ~hit))
    /\ looking' = <<>>
    /\ UNCHANGED <<build, arrived, payloadQ, metaQ, loaded, drop2Q, dropper, sar, open, fifo, writeQ,
                   memoryVars, noteQ, noteVars, notes, appVars>>

-----------------------------------------------------------------------------
(* rxTcpFSM: the second decision.  An ACK without data takes none.         *)

FsmLoad ==
    /\ loaded = <<>> /\ fsmQ # <<>>
    /\ loaded' = [segment |-> Head(fsmQ), row |-> sar[Head(fsmQ).session]]
    /\ fsmQ' = Tail(fsmQ)
    /\ UNCHANGED <<build, arrived, payloadQ, metaQ, looking, drop1Q, drop2Q, dropper, sar, open, fifo,
                   writeQ, memoryVars, noteQ, noteVars, notes, appVars>>

FreeSpace(r) == Ring(r.appd - r.head - 1)

(* The branches of the memory build, by name; "none" is the branch that    *)
(* takes no decision: bytes that fill the gap and go beyond it.            *)
Branch(g, r) ==
    LET end == g.seq + g.length IN
    CASE ~r.gap /\ g.seq = r.recvd /\ FreeSpace(r) > g.length -> "in_order"
      [] ~r.gap /\ g.seq > r.recvd /\ FreeSpace(r) > Ring(end - r.head) -> "opens_gap"
      [] r.gap /\ g.seq = r.head /\ FreeSpace(r) > g.length -> "after_gap"
      [] r.gap /\ g.seq = r.recvd /\ end = r.offset -> "fills_gap"
      [] r.gap /\ g.seq = r.recvd /\ end < r.offset -> "into_gap"
      [] r.gap /\ g.seq = r.recvd /\ end > r.offset -> "none"
      [] OTHER -> "drop"

NewRow(b, g, r) ==
    LET end == g.seq + g.length IN
    CASE b = "in_order" -> [r EXCEPT !.recvd = end, !.head = end]
      [] b = "opens_gap" -> [r EXCEPT !.head = end, !.offset = g.seq, !.gap = TRUE]
      [] b = "after_gap" -> [r EXCEPT !.head = end]
      [] b = "fills_gap" -> [r EXCEPT !.recvd = r.head, !.gap = FALSE]
      [] b = "into_gap" -> [r EXCEPT !.recvd = end]

(* How many bytes the application is told of.                              *)
Told(b, g, r) ==
    CASE b \in {"in_order", "into_gap"} -> g.length
      [] b \in {"opens_gap", "after_gap"} -> 0
      [] b = "fills_gap" -> Ring(r.head - g.seq)

Note(s, n, c) == [session |-> s, length |-> n, closed |-> c]

(* The payload is kept: row, decision and notification of one branch.      *)
Keep(g, row, note) ==
    /\ sar' = [sar EXCEPT ![g.session] = [row EXCEPT !.appd = sar[g.session].appd]]
    /\ drop2Q' = IF g.length = 0 THEN drop2Q ELSE Append(drop2Q, Decision(g, FALSE))
    /\ IF build # "bypass"
         THEN /\ writeQ' = IF g.length = 0 THEN writeQ
                            ELSE Append(writeQ, [session |-> g.session, address |-> Ring(g.seq),
                                                 length |-> g.length])
              /\ noteQ' = Append(noteQ, note)
              /\ UNCHANGED notes
         ELSE /\ notes' = Append(notes, note)
              /\ UNCHANGED <<writeQ, noteQ>>

RefuseSilently(g) ==         \* mistake: no decision
    UNCHANGED <<drop2Q, sar, writeQ, noteQ, notes>>
Refuse(g) ==
    /\ drop2Q' = IF g.length = 0 THEN drop2Q ELSE Append(drop2Q, Decision(g, TRUE))
    /\ UNCHANGED <<sar, writeQ, noteQ, notes>>

NoDecision == UNCHANGED <<drop2Q, sar, writeQ, noteQ, notes>>

RoomInFifo == FifoSize - Len(fifo) > Margin

NotOld(g, r) == g.seq >= r.recvd      \* mistake: a hole is accepted
AnyOrder(g, r) == TRUE                \* mistake: so is what was received already
Expected(g, r) == g.seq = r.recvd
FsmAck(g, r) ==
    /\ g.kind = "ACK"
    /\ IF g.length = 0 THEN NoDecision
       ELSE IF build = "bypass"
         THEN IF Expected(g, r) /\ RoomInFifo
                THEN Keep(g, NewRow("in_order", g, r), Note(g.session, g.length, FALSE))
                ELSE Refuse(g)
         ELSE LET b == Branch(g, r) IN
              CASE b = "drop" -> Refuse(g)
                [] b = "none" -> NoDecision
                [] OTHER -> Keep(g, NewRow(b, g, r), Note(g.session, Told(b, g, r), FALSE))
    /\ UNCHANGED open

FsmFin(g, r) ==
    /\ g.kind = "FIN"
    /\ IF g.session \in open /\ Expected(g, r)
         THEN /\ Keep(g, [r EXCEPT !.recvd = g.seq + g.length + 1, !.head = g.seq + g.length + 1],
                      Note(g.session, g.length, TRUE))
              /\ open' = open \ {g.session}
         ELSE Refuse(g) /\ UNCHANGED open

(* SYN, SYN-ACK, RST and what has other flags: no line of their branches   *)
(* writes dropDataFifoOut.                                                 *)
FsmOther(g, r) ==
    /\ g.kind \in {"SYN", "RST"}
    /\ NoDecision
    /\ UNCHANGED open

FsmTransition ==
    /\ loaded # <<>> /\ Len(drop2Q) < Depth
    /\ FsmAck(loaded.segment, loaded.row) \/ FsmFin(loaded.segment, loaded.row)
         \/ FsmOther(loaded.segment, loaded.row)
    /\ loaded' = <<>>
    /\ UNCHANGED <<build, arrived, payloadQ, metaQ, looking, fsmQ, drop1Q, dropper, fifo, memoryVars,
                   noteVars, appVars>>

-----------------------------------------------------------------------------
(* rxPackageDropper                                                        *)

ReadDrop1 ==
    /\ dropper.state = "READ_DROP1" /\ drop1Q # <<>>
    /\ dropper' = [state |-> IF Head(drop1Q).drop THEN "DROP" ELSE "READ_DROP2", of |-> Head(drop1Q).id]
    /\ drop1Q' = Tail(drop1Q)
    /\ UNCHANGED drop2Q

ReadDrop2 ==
    /\ dropper.state = "READ_DROP2" /\ drop2Q # <<>>
    /\ dropper' = [state |-> IF Head(drop2Q).drop THEN "DROP" ELSE "FWD", of |-> Head(drop2Q).id]
    /\ drop2Q' = Tail(drop2Q)
    /\ UNCHANGED drop1Q

ReadDecision ==
    /\ ReadDrop1 \/ ReadDrop2
    /\ UNCHANGED <<build, arrived, payloadQ, metaQ, looking, fsmQ, loaded, sar, open, fifo, writeQ,
                   memoryVars, noteQ, noteVars, notes, appVars>>

DropPayload ==
    /\ dropper.state = "DROP" /\ payloadQ # <<>>
    /\ payloadQ' = Tail(payloadQ)
    /\ dropper' = [state |-> "READ_DROP1", of |-> 0]
    /\ UNCHANGED <<build, arrived, metaQ, looking, fsmQ, loaded, drop1Q, drop2Q, sar, open, fifo, writeQ,
                   memoryVars, noteQ, noteVars, notes, appVars>>

(* rxEngMemWrite cuts what crosses the end of the ring.                    *)
Crosses(w) == w.address + w.length > BufferSize

NeverTwice(w) == FALSE        \* mistake: the second status is not waited for
IsDouble(w) == Crosses(w)
Access(s, a, data) == [session |-> s, address |-> a, data |-> data]
Accesses(w, data) ==
    LET first == BufferSize - w.address IN
    IF Crosses(w)
      THEN <<Access(w.session, w.address, SubSeq(data, 1, first)),
             Access(w.session, 0, SubSeq(data, first + 1, Len(data)))>>
      ELSE <<Access(w.session, w.address, data)>>

ForwardPayload ==
    /\ dropper.state = "FWD" /\ payloadQ # <<>>
    /\ LET p == Head(payloadQ) IN
         IF build = "bypass"
           THEN /\ Len(fifo) < FifoSize
                /\ fifo' = Append(fifo, p.data)
                /\ UNCHANGED <<writeQ, memoryVars>>
           ELSE /\ writeQ # <<>>
                /\ accessQ' = accessQ \o Accesses(Head(writeQ), p.data)
                /\ doubleQ' = Append(doubleQ, IsDouble(Head(writeQ)))
                /\ writeQ' = Tail(writeQ)
                /\ UNCHANGED <<fifo, ring, statuses>>
    /\ payloadQ' = Tail(payloadQ)
    /\ dropper' = [state |-> "READ_DROP1", of |-> 0]
    /\ UNCHANGED <<build, arrived, metaQ, looking, fsmQ, loaded, drop1Q, drop2Q, sar, open,
                   noteQ, noteVars, notes, appVars>>

(* The data mover answers each access with a status.                       *)
MoverWrites ==
    /\ accessQ # <<>>
    /\ LET w == Head(accessQ) IN
         ring' = [ring EXCEPT ![w.session] = [a \in DOMAIN @ |->
                    IF a \in w.address .. w.address + Len(w.data) - 1 THEN w.data[a - w.address + 1] ELSE @[a]]]
    /\ statuses' = statuses + 1
    /\ accessQ' = Tail(accessQ)
    /\ UNCHANGED <<build, arrived, decisionVars, sar, open, fifo, writeQ, doubleQ, noteQ, noteVars, notes, appVars>>

-----------------------------------------------------------------------------
(* rxAppNotificationDelayer                                                *)

Tell(n) == notes' = IF n.length # 0 THEN Append(notes, n) ELSE notes

SecondStatus ==
    /\ half # <<>> /\ statuses > 0
    /\ statuses' = statuses - 1
    /\ Tell(half)
    /\ half' = <<>>
    /\ UNCHANGED <<doubleQ, noteQ, delayed>>

FirstStatus ==
    /\ half = <<>> /\ statuses > 0 /\ delayed # <<>> /\ doubleQ # <<>>
    /\ statuses' = statuses - 1
    /\ IF Head(doubleQ)
         THEN half' = Head(delayed) /\ UNCHANGED notes
         ELSE Tell(Head(delayed)) /\ UNCHANGED half
    /\ delayed' = Tail(delayed) /\ doubleQ' = Tail(doubleQ)
    /\ UNCHANGED noteQ

Delay ==
    /\ half = <<>> /\ ~(statuses > 0 /\ delayed # <<>> /\ doubleQ # <<>>)
    /\ noteQ # <<>> /\ Len(delayed) < NoteDepth
    /\ IF Head(noteQ).closed /\ Head(noteQ).length = 0
         THEN notes' = Append(notes, Head(noteQ)) /\ UNCHANGED delayed
         ELSE delayed' = Append(delayed, Head(noteQ)) /\ UNCHANGED notes
    /\ noteQ' = Tail(noteQ)
    /\ UNCHANGED <<statuses, doubleQ, half>>

Delayer ==
    /\ SecondStatus \/ FirstStatus \/ Delay
    /\ UNCHANGED <<build, arrived, decisionVars, sar, open, fifo, writeQ, accessQ, ring, appVars>>

-----------------------------------------------------------------------------
(* rx_app_stream_if and the read; the application reads what each          *)
(* notification announced                                                  *)

AskRead ==
    /\ asked = <<>> /\ notes # <<>>
    /\ LET n == Head(notes) IN
         /\ asked' = IF n.length = 0 THEN <<>>
                      ELSE [session |-> n.session, length |-> n.length, appd |-> sar[n.session].appd]
         /\ closed' = IF n.closed THEN closed \cup {n.session} ELSE closed
    /\ notes' = Tail(notes)
    /\ UNCHANGED <<build, arrived, decisionVars, sar, open, fifo, writeQ, memoryVars, noteQ, noteVars,
                   readQ, got>>

StartRead ==
    /\ asked # <<>> /\ Len(readQ) < 1
    /\ readQ' = Append(readQ, [session |-> asked.session, address |-> asked.appd, length |-> asked.length])
    /\ sar' = [sar EXCEPT ![asked.session].appd = Ring(asked.appd + asked.length)]
    /\ asked' = <<>>
    /\ UNCHANGED <<build, arrived, decisionVars, open, fifo, writeQ, memoryVars, noteQ, noteVars, notes, got, closed>>

(* rxAppMemAccessBreakdown: the second access begins where the low sixteen *)
(* bits of the address are zero, at the start of the same block.           *)
BlockSize == IF build = "scaled" THEN AccessSize ELSE BufferSize
BlockOf(a) == (a \div BlockSize) * BlockSize
ReadAddress(c, k) ==
    IF c.address + k - 1 < BlockOf(c.address) + BlockSize
      THEN c.address + k - 1
      ELSE c.address + k - 1 - BlockSize

ReadMemory(c) == [k \in 1 .. c.length |-> ring[c.session][ReadAddress(c, k)]]

Deliver(c, data) ==
    got' = [got EXCEPT !.upto[c.session] = @ + c.length, !.last = data, !.session = c.session]

Read ==
    /\ readQ # <<>>
    /\ IF build = "bypass"
         THEN /\ fifo # <<>>
              /\ Deliver(Head(readQ), Head(fifo))
              /\ fifo' = Tail(fifo)
         ELSE Deliver(Head(readQ), ReadMemory(Head(readQ))) /\ UNCHANGED fifo
    /\ readQ' = Tail(readQ)
    /\ UNCHANGED <<build, arrived, decisionVars, sar, open, writeQ, memoryVars, noteQ, noteVars, notes, asked, closed>>

Next ==
    \/ \E g \in Segments : Arrive(g)
    \/ MetaClosedPort \/ MetaLookup \/ MetaAnswered
    \/ FsmLoad \/ FsmTransition
    \/ ReadDecision \/ DropPayload \/ ForwardPayload \/ MoverWrites
    \/ Delayer
    \/ AskRead \/ StartRead \/ Read

Spec == Init /\ [][Next]_vars

-----------------------------------------------------------------------------
(* Properties                                                              *)

TypeOK ==
    /\ dropper.state \in {"READ_DROP1", "READ_DROP2", "FWD", "DROP"}
    /\ \A s \in Sessions :
          /\ sar[s].appd \in 0 .. BufferSize - 1
          /\ sar[s].recvd <= sar[s].head
    /\ statuses \in 0 .. 2 * MaxArrivals
    /\ Len(fifo) <= FifoSize

(* rx_engine.cpp:1602: "Drops packets if their metadata did not match": a  *)
(* payload is forwarded or dropped by the decisions taken for its own      *)
(* segment.                                                                *)
DecisionsMeetTheirPayload ==
    dropper.state # "READ_DROP1" /\ payloadQ # <<>> => dropper.of = Head(payloadQ).id

(* What the application reads is its session's stream: no hole, no byte of *)
(* another session.                                                        *)
StreamIsRead ==
    got.last # <<>> =>
        got.last = Bytes(got.session, got.upto[got.session] - Len(got.last), Len(got.last))

(* From the ring it reads its session's stream too, but for bytes that the *)
(* peer has sent meanwhile into the room this very read gave back: such a  *)
(* byte is the one that is a whole ring further in the same stream.  A read*)
(* that goes beyond a block of a ring with several gets the start of that  *)
(* block again; it is left out.                                            *)
IsReadInPlace(from, n) == BlockSize = BufferSize \/ (Ring(from) % BlockSize) + n <= BlockSize
RingIsRead ==
    LET s == got.session
        n == Len(got.last)
        from == got.upto[s] - n
    IN  n > 0 /\ IsReadInPlace(from, n) =>
            \A k \in 1 .. n : got.last[k] \in {Byte(s, from + k - 1), Byte(s, from + k - 1 + BufferSize)}

(* Bytes the application has been told of, and has not begun to read, are  *)
(* in the ring, although their write was cut in two or was done before the *)
(* gap in front was filled, and whatever has been sent into room given back*)
(* since.                                                                  *)
ToldIsStored ==
    build # "bypass" =>
        \A s \in Sessions :
            LET pending == IF asked # <<>> /\ asked.session = s THEN asked.length ELSE 0
                from == got.upto[s] + LengthOf(s, readQ)
            IN  \A k \in from .. from + pending + LengthOf(s, notes) - 1 : ring[s][Ring(k)] = Byte(s, k)

(* The application is told of everything that is acknowledged, once: what  *)
(* it has read and what is announced adds up to recvd.                     *)
AnnouncedOnce ==
    \A s \in Sessions :
        got.upto[s] + LengthOf(s, readQ) + (IF asked # <<>> /\ asked.session = s THEN asked.length ELSE 0)
          + LengthOf(s, notes) + LengthOf(s, delayed) + LengthOf(s, noteQ)
          + (IF half # <<>> /\ half.session = s THEN half.length ELSE 0)
          = sar[s].recvd - (IF s \in open THEN 0 ELSE 1)

(* In the bypass build the end of a stream is announced after its bytes.   *)
EndIsLast ==
    build = "bypass" =>
        \A s \in closed : s \notin open /\ \A i \in DOMAIN notes : notes[i].session = s => notes[i].length = 0

=============================================================================
