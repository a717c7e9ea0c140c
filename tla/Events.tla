------------------------------- MODULE Events -------------------------------
(***************************************************************************)
(* event_engine() and ack_delay(): what the rx engine, the timers and the  *)
(* application ask the tx engine to send goes through two FIFOs, pipe and  *)
(* out, with the delay of acknowledgements between them.  Events of timers *)
(* and application are let in only when nothing is on its way, which the   *)
(* engine derives from four counters that wrap and that are told to it     *)
(* through FIFOs of their own.                                             *)
(***************************************************************************)
EXTENDS Naturals, Sequences

CONSTANTS
    Sessions,       \* 0 .. MAX_SESSIONS - 1
    EventDepth,     \* depth of the FIFOs of events (64; 512 for rxQ)
    CountDepth,     \* depth of the FIFOs that return counts (64)
    CountSpace,     \* 2^8: where the counters wrap
    AckDelay        \* TIME_64us in scans of ack_table

ASSUME EventAssumption ==
    /\ 0 \in Sessions /\ \A s \in Sessions : s \in Nat
    /\ EventDepth \in Nat \ {0} /\ CountDepth \in Nat \ {0} /\ CountSpace \in Nat
    /\ EventDepth + CountDepth < CountSpace
    /\ AckDelay \in Nat \ {0}

VARIABLES
    rxQ, timerQ, appQ,  \* rxEng2eventEng_, timer2eventEng_, txApp2eventEng_setEvent
    pipe,               \* eventEng2ackDelay_event
    out,                \* eventEng2txEng_event
    written,            \* ee_writeCounter
    adRead,             \* ee_adReadCounter
    adWritten,          \* ee_adWriteCounter
    txRead,             \* ee_txEngReadCounter
    readC, writeC, takenC,  \* how many counts wait in ackDelayFifoReadCount,
                            \* ackDelayFifoWriteCount and txEngFifoReadCount
    ackTable,           \* ack_table
    pointer             \* ad_pointer

counters == <<written, adRead, adWritten, txRead, readC, writeC, takenC>>
eventVars == <<rxQ, timerQ, appQ, pipe, out, counters, ackTable, pointer>>

Event == [type : {"TX", "RT", "ACK", "SYN", "SYN_ACK", "FIN", "RST", "ACK_NODELAY"},
          session : Sessions, count : 0 .. 7]

(* A reset that answers a segment without session carries session 0 and    *)
(* count 0, where the reset of a session carries count 1.                  *)
StrayRst == [type |-> "RST", session |-> 0, count |-> 0]
IsAbout(e, s) == e.session = s /\ ~(e.type = "RST" /\ e.count = 0)

EventInit ==
    /\ rxQ = <<>> /\ timerQ = <<>> /\ appQ = <<>> /\ pipe = <<>> /\ out = <<>>
    /\ written = 0 /\ adRead = 0 /\ adWritten = 0 /\ txRead = 0
    /\ readC = 0 /\ writeC = 0 /\ takenC = 0
    /\ ackTable = [s \in Sessions |-> 0]
    /\ pointer = 0

-----------------------------------------------------------------------------
(* The event engine: one event, and one count of each kind, per cycle      *)

Inc(n) == IF n + 1 = CountSpace THEN 0 ELSE n + 1
Dec(n) == IF n > 0 THEN n - 1 ELSE 0

FromRx == rxQ # <<>> /\ Len(pipe) < EventDepth
Drained == written = adRead /\ adWritten = txRead

Forward(q) ==
    /\ Len(pipe) < EventDepth
    /\ pipe' = Append(pipe, Head(q))
    /\ written' = Inc(written)

ForwardRx ==
    /\ FromRx
    /\ Forward(rxQ)
    /\ rxQ' = Tail(rxQ)
    /\ UNCHANGED <<timerQ, appQ>>

ForwardTimer ==
    /\ ~FromRx /\ Drained /\ timerQ # <<>>
    /\ Forward(timerQ)
    /\ timerQ' = Tail(timerQ)
    /\ UNCHANGED <<rxQ, appQ>>

ForwardApp ==
    /\ ~FromRx /\ Drained /\ timerQ = <<>> /\ appQ # <<>>
    /\ Forward(appQ)
    /\ appQ' = Tail(appQ)
    /\ UNCHANGED <<rxQ, timerQ>>

ForwardNone ==
    /\ ~FromRx /\ (Drained => timerQ = <<>> /\ appQ = <<>>)
    /\ UNCHANGED <<rxQ, timerQ, appQ, pipe, written>>

TakeCounts ==
    /\ adRead' = IF readC > 0 THEN Inc(adRead) ELSE adRead
    /\ adWritten' = IF writeC > 0 THEN Inc(adWritten) ELSE adWritten
    /\ txRead' = IF takenC > 0 THEN Inc(txRead) ELSE txRead
    /\ readC' = Dec(readC) /\ writeC' = Dec(writeC) /\ takenC' = Dec(takenC)

EventEngine ==
    /\ ForwardRx \/ ForwardTimer \/ ForwardApp \/ ForwardNone
    /\ TakeCounts
    /\ UNCHANGED <<out, ackTable, pointer>>

-----------------------------------------------------------------------------
(* The delay of acknowledgements                                           *)

HoldsBack(e) == e.type = "ACK" /\ ackTable[e.session] = 0

EmitUncounted(e) ==     \* mistake: the event is not counted
    /\ Len(out) < EventDepth
    /\ out' = Append(out, e)
    /\ UNCHANGED writeC
Emit(e) ==
    /\ Len(out) < EventDepth
    /\ out' = Append(out, e)
    /\ writeC < CountDepth
    /\ writeC' = writeC + 1

TakeInput ==
    /\ pipe # <<>>
    /\ pipe' = Tail(pipe)
    /\ readC < CountDepth
    /\ readC' = readC + 1

AckHold ==
    /\ TakeInput
    /\ HoldsBack(Head(pipe))
    /\ ackTable' = [ackTable EXCEPT ![Head(pipe).session] = AckDelay]
    /\ UNCHANGED <<rxQ, timerQ, appQ, out, written, adRead, adWritten, txRead, writeC, takenC, pointer>>

AckPass ==
    /\ TakeInput
    /\ ~HoldsBack(Head(pipe))
    /\ ackTable' = [ackTable EXCEPT ![Head(pipe).session] = 0]
    /\ Emit(Head(pipe))
    /\ UNCHANGED <<rxQ, timerQ, appQ, written, adRead, adWritten, txRead, takenC, pointer>>

NextPointerEarly == IF pointer + 2 \in Sessions THEN pointer + 1 ELSE 0      \* mistake: misses the last
NextPointer == IF pointer + 1 \in Sessions THEN pointer + 1 ELSE 0

AckScan ==
    /\ pipe = <<>>
    /\ pointer' = NextPointer
    /\ \/ /\ ackTable[pointer] = 0 \/ Len(out) = EventDepth
          /\ UNCHANGED <<ackTable, out, writeC>>
       \/ /\ ackTable[pointer] > 0 /\ Len(out) < EventDepth
          /\ ackTable' = [ackTable EXCEPT ![pointer] = @ - 1]
          /\ IF ackTable[pointer] = 1
               THEN Emit([type |-> "ACK", session |-> pointer, count |-> 0])
               ELSE UNCHANGED <<out, writeC>>
    /\ UNCHANGED <<rxQ, timerQ, appQ, pipe, written, adRead, adWritten, txRead, readC, takenC>>

AckDelayCycle == AckHold \/ AckPass \/ AckScan

-----------------------------------------------------------------------------
(* The other ends: the tx engine takes an event, the sources put theirs    *)

TakeEvent ==
    /\ out # <<>>
    /\ out' = Tail(out)
    /\ takenC < CountDepth
    /\ takenC' = takenC + 1
    /\ UNCHANGED <<rxQ, timerQ, appQ, pipe, written, adRead, adWritten, txRead, readC, writeC, ackTable, pointer>>

PutRx(e) ==
    /\ Len(rxQ) < EventDepth
    /\ rxQ' = Append(rxQ, e)

PutTimer(e) ==
    /\ Len(timerQ) < EventDepth
    /\ timerQ' = Append(timerQ, e)

PutApp(e) ==
    /\ Len(appQ) < EventDepth
    /\ appQ' = Append(appQ, e)

-----------------------------------------------------------------------------
(* What the counters mean                                                  *)

Plus(a, n) == IF a + n >= CountSpace THEN a + n - CountSpace ELSE a + n
Gap(a, b) == IF a >= b THEN a - b ELSE a + CountSpace - b

(* The wrapped counters, with the counts still on their way, say how many  *)
(* events are in pipe and in out.                                          *)
CountersAgree ==
    /\ Gap(written, adRead) = Len(pipe) + readC
    /\ Gap(Plus(adWritten, writeC), Plus(txRead, takenC)) = Len(out)

(* The event engine writes an event of the timers or the application       *)
(* without asking whether pipe has room (event_engine.cpp:83-99): when it *)
(* does, pipe is empty, so it never stalls with the rx events behind it.   *)
WritesNeverBlock == Drained => pipe = <<>>

=============================================================================
