------------------------------ MODULE EchoKernel ------------------------------
(***************************************************************************)
(* The kernel this repository adds to the stack (top_k_krnl): pkt_receiver *)
(* asks the toe for the data of each notification, pkt_sender asks it for  *)
(* room to send the same words back and hands them over when the answer    *)
(* comes.  Clock is one rising edge: every process of both modules at      *)
(* once, on the values of before the edge.  The other actions are the toe  *)
(* with DDR bypass - it keeps received data in one FIFO for all sessions - *)
(* and the clients behind it.                                              *)
(***************************************************************************)
EXTENDS EchoService, FiniteSets, FiniteSetsExt

CONSTANTS
    Lengths,        \* lengths of packets, in words of 64 bytes
    Outstanding,    \* packets under way, of all clients
    EarlyClose,     \* may a client close before its echo is back
    Room,           \* does the toe always have room
    Depth,          \* of the kernel's FIFOs (4096)
    MaxPackets      \* bound: packets of each client

VARIABLES
    notifQ,     \* pkt_receiver fifo_notif
    rxMetaQ,    \* pkt_receiver fifo_metadata
    rxQ,        \* pkt_receiver fifo_payload
    txQ,        \* pkt_sender fifo_payload
    txMetaQ,    \* pkt_sender fifo_metadata
    statusQ,    \* pkt_sender fifo_status: one bit of each answer
    hold,       \* payload_tx_ready_hold
    readQ,      \* read requests at the toe
    storeQ,     \* the toe's data that is not read yet
    grantedQ,   \* requests the toe has accepted and has no data for yet
    dataQ,      \* words handed to the toe that it has not taken yet
    open        \* clients whose connection is open

kernelVars == <<notifQ, rxMetaQ, rxQ, txQ, txMetaQ, statusQ, hold>>
vars == <<kernelVars, readQ, storeQ, grantedQ, dataQ, open, sent, echoed>>

Init ==
    /\ notifQ = <<>> /\ rxMetaQ = <<>> /\ rxQ = <<>>
    /\ txQ = <<>> /\ txMetaQ = <<>> /\ statusQ = <<>>
    /\ hold = FALSE
    /\ readQ = <<>> /\ storeQ = <<>> /\ grantedQ = <<>> /\ dataQ = <<>>
    /\ open = Clients
    /\ ServiceInit

Valid(q) == q # <<>>
Ready(q) == Len(q) < Depth
Popped(q, pop) == IF pop /\ Valid(q) THEN Tail(q) ELSE q

-----------------------------------------------------------------------------
(* The wires between the FIFOs.  A notification without data, or with one  *)
(* longer than 4096 bytes or no multiple of 64, asks for nothing.          *)

DiscardsNone == FALSE        \* mistake: the notice of a close is taken for one of data
Discards == Valid(notifQ) /\ Head(notifQ).length = 0
Requests == Valid(notifQ) /\ ~Discards /\ Ready(rxMetaQ)

Moves == Valid(rxQ) /\ Ready(txQ)
MovesLast == Moves /\ Head(rxQ).last

(* A refusal because the connection is gone: one word and one answer are   *)
(* taken and dropped.                                                      *)
Refused == Valid(statusQ) /\ Valid(txQ) /\ Head(statusQ) = 1
TakesStatus == Valid(statusQ) /\ Valid(txQ)
TakesWord == Refused \/ hold
HandsWord == hold /\ ~Refused /\ Valid(txQ)

(* The bit for "last" of an empty FIFO is whatever its output register     *)
(* holds.                                                                  *)
AtLast == IF Valid(txQ) THEN {Head(txQ).last} ELSE BOOLEAN

NextHold(atLast) == TakesStatus \/ (hold /\ ~atLast)

Clock ==
    /\ notifQ' = Popped(notifQ, Discards \/ Requests)
    /\ readQ' = IF Requests THEN Append(readQ, Head(notifQ)) ELSE readQ
    /\ rxMetaQ' = LET q == Popped(rxMetaQ, MovesLast)
                  IN  IF Requests THEN Append(q, Head(notifQ)) ELSE q
    /\ rxQ' = Popped(rxQ, Moves)
    /\ txQ' = LET q == Popped(txQ, TakesWord)
              IN  IF Moves THEN Append(q, Head(rxQ)) ELSE q
    /\ txMetaQ' = IF MovesLast THEN Append(txMetaQ, Head(rxMetaQ)) ELSE txMetaQ
    /\ statusQ' = Popped(statusQ, TakesStatus)
    /\ dataQ' = IF HandsWord THEN Append(dataQ, Head(txQ)) ELSE dataQ
    /\ \E atLast \in AtLast : hold' = NextHold(atLast)
    /\ UNCHANGED <<storeQ, grantedQ, open, sent, echoed>>

-----------------------------------------------------------------------------
(* The toe                                                                 *)

(* A read request is answered with what is first in the one FIFO there is. *)
ToeDeliver ==
    /\ readQ # <<>> /\ storeQ # <<>> /\ Ready(rxQ)
    /\ rxQ' = Append(rxQ, Head(storeQ))
    /\ storeQ' = Tail(storeQ)
    /\ readQ' = Popped(readQ, Head(storeQ).last)
    /\ UNCHANGED <<notifQ, rxMetaQ, txQ, txMetaQ, statusQ, hold, grantedQ, dataQ, open, sent, echoed>>

(* NO_ERROR 0, ERROR_NOCONNCECTION 1, ERROR_NOSPACE 2; the kernel keeps    *)
(* bit 62 of the answer, the lower one.                                    *)
StatusBit(error) == error % 2

ToeAnswer ==
    /\ txMetaQ # <<>> /\ Ready(statusQ)
    /\ LET request == Head(txMetaQ) IN
         \E error \in IF request.session \notin open THEN {1} ELSE IF Room THEN {0} ELSE {0, 2} :
            /\ statusQ' = Append(statusQ, StatusBit(error))
            /\ grantedQ' = IF error = 0 THEN Append(grantedQ, request) ELSE grantedQ
    /\ txMetaQ' = Tail(txMetaQ)
    /\ UNCHANGED <<notifQ, rxMetaQ, rxQ, txQ, hold, readQ, storeQ, dataQ, open, sent, echoed>>

(* The data of the oldest request it accepted, up to the word marked last. *)
ToeTake ==
    /\ grantedQ # <<>> /\ dataQ # <<>>
    /\ echoed' = [echoed EXCEPT ![Head(grantedQ).session] = Append(@, Head(dataQ))]
    /\ grantedQ' = Popped(grantedQ, Head(dataQ).last)
    /\ dataQ' = Tail(dataQ)
    /\ UNCHANGED <<kernelVars, readQ, storeQ, open, sent>>

-----------------------------------------------------------------------------
(* The clients                                                             *)

Packets(words) == Cardinality({i \in DOMAIN words : words[i].last})
UnderWay == MapThenSumSet(LAMBDA c : Packets(sent[c]) - Packets(echoed[c]), Clients)

ClientSends(c, n) ==
    /\ c \in open
    /\ Packets(sent[c]) < MaxPackets /\ UnderWay < Outstanding
    /\ LET from == Len(sent[c])
           packet == [i \in 1 .. n |-> [client |-> c, number |-> from + i, last |-> i = n]]
       IN  /\ sent' = [sent EXCEPT ![c] = @ \o packet]
           /\ storeQ' = storeQ \o packet
    /\ notifQ' = Append(notifQ, [session |-> c, length |-> n])
    /\ UNCHANGED <<rxMetaQ, rxQ, txQ, txMetaQ, statusQ, hold, readQ, grantedQ, dataQ, open, echoed>>

ClientCloses(c) ==
    /\ c \in open
    /\ EarlyClose \/ echoed[c] = sent[c]
    /\ open' = open \ {c}
    /\ notifQ' = Append(notifQ, [session |-> c, length |-> 0])
    /\ UNCHANGED <<rxMetaQ, rxQ, txQ, txMetaQ, statusQ, hold, readQ, storeQ, grantedQ, dataQ, sent, echoed>>

Next ==
    \/ Clock \/ ToeDeliver \/ ToeAnswer \/ ToeTake
    \/ \E c \in Clients : ClientCloses(c) \/ \E n \in Lengths : ClientSends(c, n)

Spec == Init /\ [][Next]_vars

(* The clock runs and the toe works; no client has to send or to close.    *)
Fairness == WF_vars(Clock) /\ WF_vars(ToeDeliver) /\ WF_vars(ToeAnswer) /\ WF_vars(ToeTake)

FairSpec == Spec /\ Fairness

-----------------------------------------------------------------------------
(* Properties                                                              *)

(* Nothing is handed to the toe for a request it has not accepted: before  *)
(* the first one in line gets its data, it has been granted.               *)
WordsAreGranted == Len(dataQ) > 0 => Len(grantedQ) > 0

(* Every packet comes back.                                                *)
PacketsAreEchoed == \A c \in Clients : [](sent[c] # echoed[c] => <>(echoed[c] = sent[c] \/ c \notin open))

=============================================================================
