----------------------------- MODULE RcTransport -----------------------------
(***************************************************************************)
(* The reliable connection of ib_transport_protocol, as it is built (no    *)
(* retransmission, RETRANS_EN 0): two ends, one queue pair each, that write*)
(* to and read from each other's memory over a network that may lose,      *)
(* repeat and delay packets.  A piece of memory is named by its owner,     *)
(* address and length, and stands for what is stored there.                *)
(***************************************************************************)
EXTENDS Integers, Sequences, SequencesExt

CONSTANTS
    Workloads,      \* what the applications at the two ends may ask for
    PsnSpace,       \* 2^24
    FirstPsn,       \* local_psn and remote_psn of both queue pairs
    Depth,          \* of the FIFOs, in packages or headers
    MaxFaults       \* bound: packets lost, repeated or delayed

VARIABLES
    work,       \* one of Workloads
    todo,       \* s_axis_tx_meta: requests not yet taken
    qp,         \* state_table: [respEpsn, nextPsn, oldUnack, retry]
    dma,        \* msn_table: [vaddr, length]
    readAddrs,  \* multi_queue: where the answers to the reads go
    tx,         \* the FIFOs and registers of the transmit path
    rx,         \* the FIFOs and registers of the receive path
    net,        \* packets on their way to an end
    stored,     \* what was written to an end's memory: Seq([addr, len, piece])
    faults

vars == <<work, todo, qp, dma, readAddrs, tx, rx, net, stored, faults>>

(* The two ends.  A length counts half packages, so that a package can be  *)
(* full or short.  Address 0 is not used: it stands for data that comes    *)
(* with the request.                                                       *)
Ends == {"A", "B"}
Peer(e) == IF e = "A" THEN "B" ELSE "A"
Pmtu == 2

None == [len |-> 0]
Idle == [fifo |-> "idle"]

Init ==
    /\ work \in Workloads
    /\ todo = [e \in Ends |-> work[e]]
    /\ qp = [e \in Ends |-> [respEpsn |-> FirstPsn, nextPsn |-> FirstPsn, oldUnack |-> FirstPsn, retry |-> 7]]
    /\ dma = [e \in Ends |-> [vaddr |-> 0, length |-> 0]]
    /\ readAddrs = [e \in Ends |-> <<>>]
    /\ tx = [e \in Ends |-> [request |-> None, localCmd |-> <<>>, remoteCmd |-> <<>>, memory |-> <<>>,
                             pkgInfo |-> <<>>, arbiter |-> Idle, aeth |-> <<>>, reth |-> <<>>, raw |-> <<>>,
                             appMeta |-> <<>>, readEvents |-> <<>>, acks |-> <<>>, metas |-> <<>>, headers |-> <<>>]]
    /\ rx = [e \in Ends |-> [payloads |-> <<>>, decisions |-> <<>>, metas |-> <<>>, kept |-> <<>>, cmds |-> <<>>,
                             exhAcks |-> <<>>, ibhAcks |-> <<>>, readReqs |-> <<>>, answer |-> None]]
    /\ net = [e \in Ends |-> <<>>]
    /\ stored = [e \in Ends |-> <<>>]
    /\ faults = 0

HasRoom(q) == Len(q) < Depth
Least(a, b) == IF a < b THEN a ELSE b

Sum(a, b) == (a + b) % PsnSpace

-----------------------------------------------------------------------------
(* Operation codes                                                         *)

WriteOps == {"WRITE_ONLY", "WRITE_FIRST", "WRITE_MIDDLE", "WRITE_LAST"}
ResponseOps == {"RESP_ONLY", "RESP_FIRST", "RESP_MIDDLE", "RESP_LAST", "ACK"}

IsResponse(op) == op \in ResponseOps
HasPayload(op) == op \notin {"ACK", "READ_REQUEST"}

(* The FIFO of the transmit path from which a packet's payload comes.      *)
PayloadFifo(op) ==
    CASE op \in {"WRITE_ONLY", "WRITE_FIRST"} -> "reth"
      [] op \in {"RESP_ONLY", "RESP_FIRST", "RESP_LAST"} -> "aeth"
      [] OTHER -> "raw"

-----------------------------------------------------------------------------
(* The transmit path                                                       *)

Event(op, addr, len, psn, valid, nak) ==
    [op |-> op, addr |-> addr, len |-> len, psn |-> psn, valid |-> valid, nak |-> nak]

(* local_req_handler in META: a request of the application.  A read leaves *)
(* the address for its answer in the multi_queue.                          *)
TakeRead(e, r) ==
    /\ r.op = "READ"
    /\ tx' = [tx EXCEPT ![e].appMeta = Append(@, Event("READ_REQUEST", r.remote, r.len, 0, FALSE, FALSE))]
    /\ readAddrs' = [readAddrs EXCEPT ![e] = Append(@, r.local)]

TakeWrite(e, r) ==
    /\ r.op = "WRITE" /\ HasRoom(tx[e].localCmd)
    /\ LET op == IF r.len > Pmtu THEN "WRITE_FIRST" ELSE "WRITE_ONLY"
           rest == IF r.len > Pmtu THEN [remote |-> r.remote + Pmtu, len |-> r.len - Pmtu] ELSE None
       IN tx' = [tx EXCEPT ![e].localCmd = Append(@, [addr |-> r.local, len |-> r.len]),
                           ![e].appMeta = Append(@, Event(op, r.remote, r.len, 0, FALSE, FALSE)),
                           ![e].request = rest]
    /\ UNCHANGED readAddrs

TakeRequest(e) ==
    /\ todo[e] # <<>> /\ tx[e].request = None /\ HasRoom(tx[e].appMeta)
    /\ TakeRead(e, Head(todo[e])) \/ TakeWrite(e, Head(todo[e]))
    /\ todo' = [todo EXCEPT ![e] = Tail(@)]
    /\ UNCHANGED <<work, qp, dma, rx, net, stored, faults>>

(* local_req_handler in GENERATE: one event for each further package.      *)
GenerateEvent(e) ==
    /\ tx[e].request # None /\ HasRoom(tx[e].appMeta)
    /\ LET r == tx[e].request
           op == IF r.len > Pmtu THEN "WRITE_MIDDLE" ELSE "WRITE_LAST"
           rest == IF r.len > Pmtu THEN [remote |-> r.remote + Pmtu, len |-> r.len - Pmtu] ELSE None
       IN tx' = [tx EXCEPT ![e].appMeta = Append(@, Event(op, r.remote, Least(r.len, Pmtu), 0, FALSE, FALSE)),
                           ![e].request = rest]
    /\ UNCHANGED <<work, todo, qp, dma, readAddrs, rx, net, stored, faults>>

LocalReqHandler(e) == TakeRequest(e) \/ GenerateEvent(e)

(* mem_cmd_merger: what the peer reads before what this end writes.  The   *)
(* memory answers in order.                                                *)
Command(e, source, type) ==
    LET cmd == Head(tx[e][source]) IN
      tx' = [tx EXCEPT ![e][source] = Tail(@), ![e].memory = Append(@, cmd),
                       ![e].pkgInfo = Append(@, [type |-> type, words |-> cmd.len])]

MemCmdMerger(e) ==
    /\ HasRoom(tx[e].pkgInfo)
    /\ \/ tx[e].remoteCmd # <<>> /\ Command(e, "remoteCmd", "aeth")
       \/ tx[e].remoteCmd = <<>> /\ tx[e].localCmd # <<>> /\ Command(e, "localCmd", "reth")
    /\ UNCHANGED <<work, todo, qp, dma, readAddrs, rx, net, stored, faults>>

(* tx_pkg_arbiter: cuts the data of the memory into packages.  After a full*)
(* one it may change the FIFO they go to, though it was the last one; after*)
(* the last one it is IDLE otherwise.                                      *)
StartArbiter(e) ==
    /\ tx[e].arbiter = Idle /\ tx[e].pkgInfo # <<>>
    /\ LET info == Head(tx[e].pkgInfo) IN
         tx' = [tx EXCEPT ![e].arbiter = info @@ [fifo |-> info.type], ![e].pkgInfo = Tail(@)]
    /\ UNCHANGED <<work, todo, qp, dma, readAddrs, rx, net, stored, faults>>

NextFifo(a) ==
    LET words == a.words - Pmtu IN
      CASE a.fifo = "reth" -> "raw"
        [] a.fifo = "aeth" -> IF words > Pmtu THEN "raw" ELSE "aeth"
        [] a.fifo = "raw" -> IF a.type = "aeth" /\ words <= Pmtu THEN "aeth" ELSE "raw"

AfterPackage(a, isFull, isLast) ==
    IF isLast /\ (~isFull \/ NextFifo(a) = a.fifo)
    THEN Idle
    ELSE [a EXCEPT !.words = @ - Pmtu, !.fifo = NextFifo(a)]

ForwardPackage(e) ==
    /\ tx[e].arbiter # Idle /\ tx[e].memory # <<>>
    /\ LET a == tx[e].arbiter
           data == Head(tx[e].memory)
           len == Least(data.len, Pmtu)
           isLast == data.len <= Pmtu
           rest == [addr |-> data.addr + Pmtu, len |-> data.len - Pmtu]
       IN /\ HasRoom(tx[e][a.fifo])
          /\ tx' = [tx EXCEPT ![e][a.fifo] = Append(@, <<e, data.addr, len>>),
                              ![e].arbiter = AfterPackage(a, len = Pmtu, isLast),
                              ![e].memory = IF isLast THEN Tail(@) ELSE <<rest>> \o Tail(@)]
    /\ UNCHANGED <<work, todo, qp, dma, readAddrs, rx, net, stored, faults>>

PkgArbiter(e) == StartArbiter(e) \/ ForwardPackage(e)

(* stream_merger: acknowledgements of packets that were taken, then those  *)
(* of repeated and of refused ones.                                        *)
AckMerger(e) ==
    /\ HasRoom(tx[e].acks)
    /\ \/ /\ rx[e].exhAcks # <<>>
          /\ tx' = [tx EXCEPT ![e].acks = Append(@, Head(rx[e].exhAcks))]
          /\ rx' = [rx EXCEPT ![e].exhAcks = Tail(@)]
       \/ /\ rx[e].exhAcks = <<>> /\ rx[e].ibhAcks # <<>>
          /\ tx' = [tx EXCEPT ![e].acks = Append(@, Head(rx[e].ibhAcks))]
          /\ rx' = [rx EXCEPT ![e].ibhAcks = Tail(@)]
    /\ UNCHANGED <<work, todo, qp, dma, readAddrs, net, stored, faults>>

(* meta_merger: acknowledgements, then answers to reads, then requests.    *)
FirstOf(e) ==
    CASE tx[e].acks # <<>> -> "acks"
      [] tx[e].acks = <<>> /\ tx[e].readEvents # <<>> -> "readEvents"
      [] OTHER -> "appMeta"

MetaMerger(e) ==
    /\ HasRoom(tx[e].metas)
    /\ LET source == FirstOf(e) IN
         /\ tx[e][source] # <<>>
         /\ tx' = [tx EXCEPT ![e].metas = Append(@, Head(tx[e][source])), ![e][source] = Tail(@)]
    /\ UNCHANGED <<work, todo, qp, dma, readAddrs, rx, net, stored, faults>>

NumPkg(m) == IF m.op = "READ_REQUEST" THEN (m.len + Pmtu - 1) \div Pmtu ELSE 1

AckPsnNext(e) == qp[e].respEpsn
AckPsn(e) == Sum(qp[e].respEpsn, -1)

PsnOf(e, m) ==
    CASE m.valid -> m.psn
      [] ~m.valid /\ m.op = "ACK" -> AckPsn(e)
      [] OTHER -> qp[e].nextPsn

(* generate_exh and generate_ibh: the headers of the oldest event.         *)
(* Acknowledgements and requests take their number from the state table.   *)
GenerateHeaders(e) ==
    /\ tx[e].metas # <<>> /\ HasRoom(tx[e].headers)
    /\ LET m == Head(tx[e].metas) IN
         /\ tx' = [tx EXCEPT ![e].metas = Tail(@), ![e].headers = Append(@, [m EXCEPT !.psn = PsnOf(e, m)])]
         /\ qp' = IF m.valid \/ m.op = "ACK" THEN qp ELSE [qp EXCEPT ![e].nextPsn = Sum(@, NumPkg(m))]
    /\ UNCHANGED <<work, todo, dma, readAddrs, rx, net, stored, faults>>

(* The length in the UDP header, less the headers.                         *)
UdpLength(h) ==
    CASE ~HasPayload(h.op) -> 0
      [] h.op = "WRITE_FIRST" -> Pmtu
      [] OTHER -> h.len

(* prepend_ibh_header: the headers of a packet and its payload.            *)
Packet(h, piece) ==
    [op |-> h.op, psn |-> h.psn, addr |-> h.addr, len |-> h.len, nak |-> h.nak, udp |-> UdpLength(h), piece |-> piece]

(* append_payload: the next header goes out with the next payload of its   *)
(* FIFO.                                                                   *)
SendPacket(e) ==
    /\ tx[e].headers # <<>>
    /\ LET h == Head(tx[e].headers)
           fifo == PayloadFifo(h.op)
       IN IF HasPayload(h.op)
          THEN /\ tx[e][fifo] # <<>>
               /\ net' = [net EXCEPT ![Peer(e)] = Append(@, Packet(h, Head(tx[e][fifo])))]
               /\ tx' = [tx EXCEPT ![e].headers = Tail(@), ![e][fifo] = Tail(@)]
          ELSE /\ net' = [net EXCEPT ![Peer(e)] = Append(@, Packet(h, <<>>))]
               /\ tx' = [tx EXCEPT ![e].headers = Tail(@)]
    /\ UNCHANGED <<work, todo, qp, dma, readAddrs, rx, stored, faults>>

-----------------------------------------------------------------------------
(* The receive path                                                        *)

AckEvent == Event("ACK", 0, 0, 0, FALSE, FALSE)
NakEvent(psn) == Event("ACK", 0, 0, psn, TRUE, TRUE)

(* rxStateRsp: what the state table says of a response or of a request.    *)
Epsn(e, p) == IF IsResponse(p.op) THEN qp[e].oldUnack ELSE qp[e].respEpsn
MaxForward(e, p) == IF IsResponse(p.op) THEN Sum(qp[e].nextPsn, -1) ELSE qp[e].respEpsn
OldestPsn == FirstPsn

(* An acknowledgement may run ahead, between the oldest unacknowledged and *)
(* the newest request.                                                     *)
InAckRange(psn, epsn, max) ==
    \/ epsn <= psn /\ psn <= max
    \/ (epsn <= psn \/ psn <= max) /\ max < epsn

IsInOrder(e, p) == p.psn = Epsn(e, p) \/ (p.op = "ACK" /\ InAckRange(p.psn, Epsn(e, p), MaxForward(e, p)))

IsDuplicate(e, p) ==
    LET epsn == Epsn(e, p) IN
      \/ OldestPsn < epsn /\ p.psn < epsn /\ p.psn >= OldestPsn
      \/ OldestPsn > epsn /\ (p.psn < epsn \/ p.psn >= OldestPsn)

(* What rx_ibh_fsm does with a packet: whether rx_exh_fsm is to see it, the*)
(* decision on a payload that it writes for drop_ooo_ibh, if any, and the  *)
(* acknowledgement it asks for.                                            *)
Verdict(fwd, decisions, acks) == [fwd |-> fwd, decisions |-> decisions, acks |-> acks]

OfAccepted(p) == Verdict(TRUE, IF HasPayload(p.op) THEN <<"keep">> ELSE <<>>, <<>>)

OfDuplicateAgain(p) == Verdict(TRUE, IF HasPayload(p.op) THEN <<"keep">> ELSE <<>>, <<>>)

OfDuplicate(p) ==
    CASE p.op = "READ_REQUEST" -> Verdict(TRUE, <<"keep">>, <<>>)
      [] p.op \in WriteOps -> Verdict(FALSE, <<"drop">>, <<AckEvent>>)
      [] OTHER -> Verdict(FALSE, IF p.op = "ACK" THEN <<>> ELSE <<"drop">>, <<>>)

MayNak(e, p) == ~IsResponse(p.op) /\ qp[e].retry = 7

OfInvalid(e, p) ==
    Verdict(FALSE, IF p.op = "ACK" THEN <<>> ELSE <<"drop">>,
            IF MayNak(e, p) THEN <<NakEvent(qp[e].respEpsn)>> ELSE <<>>)

VerdictOn(e, p) ==
    CASE IsInOrder(e, p) -> OfAccepted(p)
      [] ~IsInOrder(e, p) /\ IsDuplicate(e, p) -> OfDuplicate(p)
      [] OTHER -> OfInvalid(e, p)

(* The row of the state table afterwards.  Only a request that is taken or *)
(* refused touches the retry counter.                                      *)
QpAfter(e, p) ==
    CASE IsInOrder(e, p) /\ p.nak -> qp[e]
      [] IsInOrder(e, p) /\ ~p.nak /\ IsResponse(p.op) -> [qp[e] EXCEPT !.oldUnack = Sum(p.psn, 1)]
      [] IsInOrder(e, p) /\ ~p.nak /\ ~IsResponse(p.op) -> [qp[e] EXCEPT !.respEpsn = Sum(p.psn, NumPkg(p)), !.retry = 7]
      [] ~IsInOrder(e, p) /\ ~IsDuplicate(e, p) /\ MayNak(e, p) -> [qp[e] EXCEPT !.retry = 6]
      [] OTHER -> qp[e]

(* rx_process_ibh, rx_process_exh, rx_ibh_fsm and ipUdpMetaHandler: one    *)
(* FIFO entry per packet between them, so that they are one step.          *)
RxIbhFsm(e) ==
    /\ net[e] # <<>>
    /\ HasRoom(rx[e].payloads) /\ HasRoom(rx[e].decisions) /\ HasRoom(rx[e].metas) /\ HasRoom(rx[e].ibhAcks)
    /\ LET p == Head(net[e])
           v == VerdictOn(e, p)
       IN /\ rx' = [rx EXCEPT ![e].payloads = IF HasPayload(p.op) THEN Append(@, p.piece) ELSE @,
                              ![e].decisions = @ \o v.decisions,
                              ![e].ibhAcks = @ \o v.acks,
                              ![e].metas = IF v.fwd THEN Append(@, p) ELSE @]
          /\ qp' = [qp EXCEPT ![e] = QpAfter(e, p)]
    /\ net' = [net EXCEPT ![e] = Tail(@)]
    /\ UNCHANGED <<work, todo, dma, readAddrs, tx, stored, faults>>

(* drop_ooo_ibh: the next decision, on the next payload.                   *)
DropOoo(e) ==
    /\ rx[e].decisions # <<>> /\ rx[e].payloads # <<>> /\ HasRoom(rx[e].kept)
    /\ rx' = [rx EXCEPT ![e].decisions = Tail(@), ![e].payloads = Tail(@),
                        ![e].kept = IF Head(rx[e].decisions) = "keep" THEN Append(@, Head(rx[e].payloads)) ELSE @]
    /\ UNCHANGED <<work, todo, qp, dma, readAddrs, tx, net, stored, faults>>

(* rx_exh_fsm, by operation code.  The address of a later package, and how *)
(* much of a write is still to come, are kept in the msn table.            *)
Store(e, addr, len, acks, at) ==
    /\ rx' = [rx EXCEPT ![e].metas = Tail(@), ![e].cmds = Append(@, [addr |-> addr, len |-> len]),
                        ![e].exhAcks = @ \o acks]
    /\ dma' = [dma EXCEPT ![e] = at]

FirstWrite(e, p) ==
    /\ p.op \in {"WRITE_ONLY", "WRITE_FIRST"} /\ HasRoom(rx[e].exhAcks)
    /\ Store(e, p.addr, p.udp, <<AckEvent>>, [vaddr |-> p.addr + p.udp, length |-> p.len - p.udp])
    /\ UNCHANGED readAddrs

NextWrite(e, p) ==
    /\ p.op \in {"WRITE_MIDDLE", "WRITE_LAST"} /\ HasRoom(rx[e].exhAcks)
    /\ Store(e, dma[e].vaddr, p.udp, <<AckEvent>>, [vaddr |-> dma[e].vaddr + p.udp, length |-> dma[e].length - p.udp])
    /\ UNCHANGED readAddrs

FirstResponse(e, p) ==
    /\ p.op \in {"RESP_ONLY", "RESP_FIRST"} /\ readAddrs[e] # <<>>
    /\ Store(e, Head(readAddrs[e]), p.udp, <<>>, [vaddr |-> Head(readAddrs[e]) + p.udp, length |-> 0])
    /\ readAddrs' = [readAddrs EXCEPT ![e] = Tail(@)]

NextResponse(e, p) ==
    /\ p.op = "RESP_MIDDLE"
    /\ Store(e, dma[e].vaddr, p.udp, <<>>, [vaddr |-> dma[e].vaddr + p.udp, length |-> 0])
    /\ UNCHANGED readAddrs

LastResponse(e, p) ==
    /\ p.op = "RESP_LAST"
    /\ Store(e, dma[e].vaddr, p.udp, <<>>, dma[e])
    /\ UNCHANGED readAddrs

(* rxMsnReq with no address clears the address and the length.             *)
ReadAsked(e, p) ==
    /\ p.op = "READ_REQUEST" /\ HasRoom(rx[e].readReqs)
    /\ rx' = [rx EXCEPT ![e].metas = Tail(@),
                        ![e].readReqs = Append(@, [addr |-> p.addr, len |-> p.len, psn |-> p.psn])]
    /\ dma' = [dma EXCEPT ![e] = [vaddr |-> 0, length |-> 0]]
    /\ UNCHANGED readAddrs

Acked(e, p) ==
    /\ p.op = "ACK"
    /\ rx' = [rx EXCEPT ![e].metas = Tail(@)]
    /\ UNCHANGED <<dma, readAddrs>>

RxExhFsm(e) ==
    /\ rx[e].metas # <<>> /\ HasRoom(rx[e].cmds)
    /\ LET p == Head(rx[e].metas) IN
         \/ FirstWrite(e, p)
         \/ NextWrite(e, p)
         \/ FirstResponse(e, p)
         \/ NextResponse(e, p)
         \/ LastResponse(e, p)
         \/ ReadAsked(e, p)
         \/ Acked(e, p)
    /\ UNCHANGED <<work, todo, qp, tx, net, stored, faults>>

(* merge_rx_pkgs and the memory: payloads go with commands in order.       *)
Written(cmd, piece) == cmd @@ [piece |-> piece]

(* rx_exh_payload: the next payload, for the next command.                 *)
StorePayload(e) ==
    /\ rx[e].cmds # <<>> /\ rx[e].kept # <<>>
    /\ stored' = [stored EXCEPT ![e] = Append(@, Written(Head(rx[e].cmds), Head(rx[e].kept)))]
    /\ rx' = [rx EXCEPT ![e].cmds = Tail(@), ![e].kept = Tail(@)]
    /\ UNCHANGED <<work, todo, qp, dma, readAddrs, tx, net, faults>>

(* handle_read_requests: one command for the memory and the first event in *)
(* META, an event for each further package in GENERATE.                    *)
TakeReadRequest(e) ==
    /\ rx[e].answer = None /\ rx[e].readReqs # <<>>
    /\ HasRoom(tx[e].remoteCmd) /\ HasRoom(tx[e].readEvents)
    /\ LET r == Head(rx[e].readReqs)
           op == IF r.len > Pmtu THEN "RESP_FIRST" ELSE "RESP_ONLY"
       IN /\ tx' = [tx EXCEPT ![e].remoteCmd = Append(@, [addr |-> r.addr, len |-> r.len]),
                              ![e].readEvents = Append(@, Event(op, 0, Least(r.len, Pmtu), r.psn, TRUE, FALSE))]
          /\ rx' = [rx EXCEPT ![e].readReqs = Tail(@),
                              ![e].answer = IF r.len > Pmtu THEN [len |-> r.len - Pmtu, psn |-> r.psn] ELSE None]
    /\ UNCHANGED <<work, todo, qp, dma, readAddrs, net, stored, faults>>

GenerateAnswer(e) ==
    /\ rx[e].answer # None /\ HasRoom(tx[e].readEvents)
    /\ LET a == rx[e].answer
           op == IF a.len > Pmtu THEN "RESP_MIDDLE" ELSE "RESP_LAST"
           psn == Sum(a.psn, 1)
       IN /\ tx' = [tx EXCEPT ![e].readEvents = Append(@, Event(op, 0, Least(a.len, Pmtu), psn, TRUE, FALSE))]
          /\ rx' = [rx EXCEPT ![e].answer = IF a.len > Pmtu THEN [len |-> a.len - Pmtu, psn |-> psn] ELSE None]
    /\ UNCHANGED <<work, todo, qp, dma, readAddrs, net, stored, faults>>

HandleReadRequests(e) == TakeReadRequest(e) \/ GenerateAnswer(e)

-----------------------------------------------------------------------------
(* The network toward an end                                               *)

Disturb(e, packets) ==
    /\ e \in work.disturbed /\ faults < MaxFaults
    /\ net' = [net EXCEPT ![e] = packets]
    /\ faults' = faults + 1
    /\ UNCHANGED <<work, todo, qp, dma, readAddrs, tx, rx, stored>>

Lose(e) == net[e] # <<>> /\ Disturb(e, Tail(net[e]))
Repeat(e) == net[e] # <<>> /\ Disturb(e, Append(net[e], Head(net[e])))
Delay(e) == Len(net[e]) > 1 /\ Disturb(e, Append(Tail(net[e]), Head(net[e])))

-----------------------------------------------------------------------------
Step(e) ==
    \/ LocalReqHandler(e)
    \/ MemCmdMerger(e)
    \/ PkgArbiter(e)
    \/ AckMerger(e)
    \/ MetaMerger(e)
    \/ GenerateHeaders(e)
    \/ SendPacket(e)
    \/ RxIbhFsm(e)
    \/ DropOoo(e)
    \/ RxExhFsm(e)
    \/ StorePayload(e)
    \/ HandleReadRequests(e)

Interfere(e) == Lose(e) \/ Repeat(e) \/ Delay(e)

Next == \E e \in Ends : Step(e) \/ Interfere(e)

Spec == Init /\ [][Next]_vars

-----------------------------------------------------------------------------
(* What the applications asked for, package by package.                    *)

Package(owner, from, to, length, k) ==
    [addr |-> to + k * Pmtu, len |-> Least(length - k * Pmtu, Pmtu),
     piece |-> <<owner, from + k * Pmtu, Least(length - k * Pmtu, Pmtu)>>]

Packages(owner, from, to, length) ==
    [i \in 1 .. (length + Pmtu - 1) \div Pmtu |-> Package(owner, from, to, length, i - 1)]

AskedBy(e, op) ==
    FlattenSeq([i \in DOMAIN work[e] |->
        LET r == work[e][i] IN
          CASE r.op # op -> <<>>
            [] op = "WRITE" -> Packages(e, r.local, r.remote, r.len)
            [] OTHER -> Packages(Peer(e), r.remote, r.local, r.len)])

TypeOK ==
    \A e \in Ends :
        /\ qp[e] \in [respEpsn : 0 .. PsnSpace - 1, nextPsn : 0 .. PsnSpace - 1, oldUnack : 0 .. PsnSpace - 1, retry : {6, 7}]
        /\ tx[e].arbiter.fifo \in {"idle", "aeth", "reth", "raw"}
        /\ \A f \in {"aeth", "reth", "raw", "metas", "headers", "acks"} : Len(tx[e][f]) <= Depth
        /\ \A f \in {"payloads", "decisions", "metas", "kept", "cmds", "exhAcks", "ibhAcks"} : Len(rx[e][f]) <= Depth

(* How far a sequence number is from the first one.                        *)
Ahead(psn) == (psn - FirstPsn) % PsnSpace

IsDone(e) ==
    /\ qp[e].oldUnack = qp[e].nextPsn
    /\ Len(stored[e]) = Len(AskedBy(e, "READ")) + Len(AskedBy(Peer(e), "WRITE"))

-----------------------------------------------------------------------------
(* Whatever the network does, what an end's memory receives is the start   *)
(* of what its peer asked to write, in order, interleaved with the start of*)
(* what it asked to read itself, in order: every piece once, at its        *)
(* address, with its own data.                                             *)
StoredAsAsked ==
    \A e \in Ends :
        LET writes == AskedBy(Peer(e), "WRITE")
            reads == AskedBy(e, "READ")
            of(asked) == SelectSeq(stored[e], LAMBDA s : s \in ToSet(asked))
        IN /\ ToSet(stored[e]) \subseteq ToSet(writes) \cup ToSet(reads)
           /\ IsPrefix(of(writes), writes)
           /\ IsPrefix(of(reads), reads)

(* What an end takes for acknowledged its peer has accepted, and no request*)
(* is accepted that was not sent.                                          *)
AckedIsAccepted ==
    \A e \in Ends :
        /\ Ahead(qp[e].oldUnack) <= Ahead(qp[Peer(e)].respEpsn)
        /\ Ahead(qp[Peer(e)].respEpsn) <= Ahead(qp[e].nextPsn)

(* Three things may stop a connection for good.  An end that answers reads *)
(* and writes has two orders, of the headers (meta_merger) and of the data *)
(* (mem_cmd_merger), which may differ: each waits for the other when what  *)
(* it sends has no room in its FIFOs.  Of an end that reads and writes, the*)
(* acknowledgement of the write may overtake the answer to the read, which *)
(* is then taken for old.  And after a write of one full package the       *)
(* arbiter puts the next data where no header looks for it.                *)
Writes(e) == Len(AskedBy(e, "WRITE"))
Answers(e) == Len(AskedBy(Peer(e), "READ"))
FitsItsFifos(e) == Writes(e) > 0 /\ Answers(e) > 0 => Writes(e) <= Depth /\ Answers(e) <= Depth
ReadsAndWrites(e) == AskedBy(e, "READ") # <<>> /\ AskedBy(e, "WRITE") # <<>>
WritesOneFullOfMore(e) ==
    /\ Writes(e) + Answers(e) > 1
    /\ \E i \in DOMAIN work[e] : work[e][i].op = "WRITE" /\ work[e][i].len = Pmtu


=============================================================================
