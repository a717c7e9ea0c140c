------------------------------- MODULE MCReceive -------------------------------
(***************************************************************************)
(* The way of received bytes in one build, for any sessions and any way to *)
(* cut their streams.                                                      *)
(***************************************************************************)
EXTENDS Integers

CONSTANTS
    RxSessions, RxBuilds, RxBuffer, RxAccess, RxFifo, RxMargin, RxNotes, RxFirst, RxDepth,
    Cuts, Strays, Foreign, MaxArrivals

(* A peer that repeats a piece of its stream cuts it as before, and the    *)
(* FIN is at its end; no SYN or RST carries data.  Without the first two   *)
(* bytes that fill a gap may go beyond it, without the third there is data *)
(* in a branch that takes no decision (section 3 of README).               *)
ASSUME ReceiveAssumption ==
    /\ RxBuilds \subseteq {"bypass", "memory", "scaled"}
    /\ RxBuffer \in Nat \ {0} /\ RxFirst \in Nat
    /\ \A s \in RxSessions : \A c \in Cuts[s] :
          /\ c \in Nat \X Nat \X {"ACK", "FIN"}
          /\ \A d \in Cuts[s] : d = c \/ c[1] + c[2] <= d[1] \/ d[1] + d[2] <= c[1]
          /\ c[3] = "FIN" => \A d \in Cuts[s] : d[1] <= c[1]
    /\ \A x \in Strays :
          /\ x \in RxSessions \X {"PORT", "MISS", "SYN", "RST"} \X Nat
          /\ x[2] \in {"SYN", "RST"} => x[3] = 0

VARIABLES
    build, arrived, payloadQ, metaQ, looking, fsmQ, loaded, drop1Q, drop2Q, dropper,
    sar, open, fifo, writeQ, accessQ, ring, rxStatuses, doubleQ, noteQ, delayed, half,
    notes, rxAsked, readQ, got, closed

receiveVars == <<build, arrived, payloadQ, metaQ, looking, fsmQ, loaded, drop1Q, drop2Q,
                 dropper, sar, open, fifo, writeQ, accessQ, ring, rxStatuses, doubleQ, noteQ,
                 delayed, half, notes, rxAsked, readQ, got, closed>>

Receive == INSTANCE ReceivePath WITH
    Sessions <- RxSessions, Builds <- RxBuilds, BufferSize <- RxBuffer, AccessSize <- RxAccess,
    FifoSize <- RxFifo, Margin <- RxMargin, NoteDepth <- RxNotes, First <- RxFirst, Depth <- RxDepth,
    statuses <- rxStatuses, asked <- rxAsked

ReceiveSpec == Receive!Init /\ [][Receive!Next]_receiveVars

DecisionsMeetTheirPayload == Receive!DecisionsMeetTheirPayload
StreamIsRead ==
    /\ IF build = "bypass" THEN Receive!StreamIsRead ELSE Receive!RingIsRead
    /\ Receive!EndIsLast
ToldOnceStored == Receive!TypeOK /\ Receive!ToldIsStored /\ Receive!AnnouncedOnce

=============================================================================
