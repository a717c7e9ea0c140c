-------------------------------- MODULE MCTcp --------------------------------
(***************************************************************************)
(* The connections: TCP and, below, reliable connections of RoCE and the   *)
(* multi queue they keep their reads in.  Nothing is shared: turn, chosen  *)
(* once, says which of them a behaviour is about.  Four instances of       *)
(* TcpConnection over the same variables.  Opening: a handshake and data   *)
(* one way, time-outs that outlast what is under way, a receive buffer     *)
(* that may be full.  Both: a handshake and data both ways.  Transfer: an  *)
(* open connection, whose time-outs may come at any moment.  Crossing:     *)
(* both ends open, and their SYNs may meet.  And two of RcTransport, with  *)
(* FIFOs of one package and of two.                                        *)
(***************************************************************************)
EXTENDS TcpConnection

VARIABLES
    work, todo, qp, dma, readAddrs, tx, rcRx, rcNet, stored, rcFaults,
    pushQ, popQ, answers, pushes, pops, ptrTable, ptrLock, metaTable, fresh, mq, fsm,
    turn

rcVars == <<work, todo, qp, dma, readAddrs, tx, rcRx, rcNet, stored, rcFaults>>
queueVars == <<pushQ, popQ, answers, pushes, pops, ptrTable, ptrLock, metaTable, fresh, mq, fsm>>

Both == INSTANCE TcpConnection WITH
    Senders <- {"A", "B"}, MaxFaults <- 1

Transfer == INSTANCE TcpConnection WITH
    Senders <- {"A", "B"}, MaxFaults <- 1, RxMayFill <- {}, StartOpen <- TRUE,
    Long <- {"abort"}, Retries <- 1, FirstIsn <- 13

Crossing == INSTANCE TcpConnection WITH
    Openers <- {"A", "B"}, Listeners <- {}, Senders <- {}, MaxFaults <- 1, RxMayFill <- {}

RcWrite(local, remote, len) == [op |-> "WRITE", local |-> local, remote |-> remote, len |-> len]
RcRead(local, remote, len) == [op |-> "READ", local |-> local, remote |-> remote, len |-> len]

(* The requests of both ends, and the ends toward which the network may    *)
(* lose, repeat or delay packets.                                          *)
RcAsks(byA, byB, disturbed) == [A |-> byA, B |-> byB, disturbed |-> disturbed]

(* Writes and reads, one way and both ways, the first packets on either    *)
(* side of the end of the sequence numbers, with and without faults.  Left *)
(* out is what the code does not get right: an end that is written to or   *)
(* read from while it reads several packages, as rx_exh_fsm has only one   *)
(* address for the two.                                                    *)
Work == {
    RcAsks(<<RcWrite(1, 100, 3), RcWrite(10, 110, 1)>>, <<>>, {"A", "B"}),
    RcAsks(<<RcWrite(1, 100, 1)>>, <<RcWrite(20, 120, 2)>>, {"A", "B"}),
    RcAsks(<<RcRead(1, 100, 5), RcRead(10, 110, 1)>>, <<>>, {"A"}),
    RcAsks(<<RcRead(1, 100, 1), RcWrite(10, 110, 1)>>, <<>>, {"B"}),
    RcAsks(<<RcRead(1, 100, 1), RcRead(10, 110, 1)>>, <<RcWrite(20, 120, 1)>>, {}),
    RcAsks(<<RcRead(1, 100, 4), RcRead(10, 110, 1)>>, <<>>, {}),
    RcAsks(<<RcWrite(1, 100, 5)>>, <<>>, {}),
    RcAsks(<<RcWrite(1, 100, 3)>>, <<RcWrite(20, 120, 2)>>, {})}

Rc == INSTANCE RcTransport WITH
    Workloads <- Work, PsnSpace <- 16, FirstPsn <- 14, Depth <- 1, MaxFaults <- 1,
    rx <- rcRx, net <- rcNet, faults <- rcFaults

(* Ends with two sources each, answers to reads and writes, where FIFOs of *)
(* two packages have room for what they send; all that is left out is what *)
(* StopsWhenDone leaves out.                                               *)
TwoSources == {
    RcAsks(<<RcWrite(1, 100, 1), RcWrite(10, 110, 1)>>, <<RcRead(20, 120, 1)>>, {}),
    RcAsks(<<RcWrite(1, 100, 1)>>, <<RcRead(20, 120, 1), RcRead(30, 130, 2)>>, {}),
    RcAsks(<<RcWrite(1, 100, 3)>>, <<RcRead(20, 120, 3)>>, {})}

RcDeep == INSTANCE RcTransport WITH
    Workloads <- TwoSources, PsnSpace <- 16, FirstPsn <- 14, Depth <- 2, MaxFaults <- 0,
    rx <- rcRx, net <- rcNet, faults <- rcFaults

NoRc ==
    /\ work = 0 /\ todo = 0 /\ qp = 0 /\ dma = 0 /\ readAddrs = 0
    /\ tx = 0 /\ rcRx = 0 /\ rcNet = 0 /\ stored = 0 /\ rcFaults = 0

(* Two queues in a memory of two rows.                                     *)
Queue == INSTANCE MultiQueue WITH
    Keys <- {"k1", "k2"}, Size <- 2, MaxPushes <- 3, MaxPops <- 2

NoQueue == Queue!Init /\ ptrLock.key = "k1"

MCInit ==
    \/ turn = "opening" /\ Init /\ NoRc /\ NoQueue
    \/ turn = "both" /\ Both!Init /\ NoRc /\ NoQueue
    \/ turn = "transfer" /\ Transfer!Init /\ NoRc /\ NoQueue
    \/ turn = "crossing" /\ Crossing!Init /\ NoRc /\ NoQueue
    \/ turn = "rc" /\ Init /\ Rc!Init /\ NoQueue
    \/ turn = "rcDeep" /\ Init /\ RcDeep!Init /\ NoQueue
    \/ turn = "queue" /\ Init /\ NoRc /\ Queue!Init

InTcp(t, A) == turn = t /\ A /\ UNCHANGED <<rcVars, queueVars, turn>>
InRc(t, A) == turn = t /\ A /\ UNCHANGED <<vars, queueVars, turn>>
InQueue == turn = "queue" /\ Queue!Next /\ UNCHANGED <<vars, rcVars, turn>>

MCNext ==
    \/ InTcp("opening", Next) \/ InTcp("both", Both!Next) \/ InTcp("transfer", Transfer!Next)
    \/ InTcp("crossing", Crossing!Next)
    \/ InRc("rc", Rc!Next) \/ InRc("rcDeep", RcDeep!Next)
    \/ InQueue

MCSpec == MCInit /\ [][MCNext]_<<vars, rcVars, queueVars, turn>>

-----------------------------------------------------------------------------

(* Ends that are both established agree on every number, unless their SYNs *)
(* crossed, when they do not; and no variable leaves its type.             *)
EndsAgree == TypeOK /\ (turn # "crossing" => EstablishedAgree)

(* The two ends implement the byte stream, whatever the network does: the  *)
(* receive FSM's and the tx engine's work on the SAR tables adds up to it, *)
(* again unless their SYNs crossed.                                        *)
ImplementsByteStream ==
    /\ turn # "crossing" => Stream!Init
    /\ [][turn # "crossing" => [Stream!Next]_(Stream!vars)]_vars

(* On a reliable connection memory receives what was asked for, in order;  *)
(* what is taken for acknowledged was accepted; and the ends do not stop   *)
(* before all of it is done.                                               *)
StoredAsAsked == turn = "rc" => Rc!StoredAsAsked
AckedIsAccepted ==
    /\ turn = "rc" => Rc!TypeOK /\ Rc!AckedIsAccepted
    /\ turn = "rcDeep" => RcDeep!TypeOK /\ RcDeep!AckedIsAccepted

(* The rows of the multi queue are neither lost nor in two places, and it  *)
(* is a queue for each key.                                                *)
EachRowIsInOnePlace == turn = "queue" => Queue!EachRowIsInOnePlace
ImplementsQueues ==
    /\ turn = "queue" => Queue!Abstract!Init
    /\ [][turn = "queue" => [Queue!Abstract!Next]_(Queue!Abstract!vars)]_queueVars

=============================================================================
