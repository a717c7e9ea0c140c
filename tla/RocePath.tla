------------------------------- MODULE RocePath -------------------------------
(***************************************************************************)
(* rocev2 around its transport: how a packet goes from the transport of one*)
(* station through udp, ipv4 and the insertion of the checksum (ICRC), over*)
(* the wire, and through the check, ipv4 and udp to the transport of       *)
(* another.  What is known of a packet goes by FIFOs of its own, past its  *)
(* words; the checksums are computed by two units that take turns.         *)
(*                                                                         *)
(* A unit is two bytes: <<part, packet, position>>.  The words have 512    *)
(* bits.                                                                   *)
(***************************************************************************)
EXTENDS AxiStream, FiniteSets

CONSTANTS
    Workloads,      \* sequences of packets
    Depth,          \* of the FIFOs with depth 2
    PkgDepth,       \* of the FIFOs that have to keep a packet
    Ip, Udp         \* units of the headers

VARIABLES
    work,           \* one of Workloads: what the packets are
    raw,            \* payload that the transport has still to send
    delivered,      \* rx_udp2ibFifo, and
    asked           \* rx_ipUdpMetaFifo: what the other transport has been given

vars == <<work, raw, q, reg, delivered, asked>>

(* A packet with len units for the transport, sent by it or, as UDP packets*)
(* of others reach it too, by another program; intact or damaged.          *)
Packet(roce, intact, len) == [roce |-> roce, intact |-> intact, len |-> len]

Part(part, p, n) == [k \in 1 .. n |-> <<part, p, k>>]
Payload(p) == Part("data", p, work[p].len)
Damaged(unit) == <<"damaged", unit[2], unit[3]>>

Init ==
    /\ work \in Workloads
    /\ raw = FlattenSeq([p \in DOMAIN work |-> IF work[p].roce THEN Words(Payload(p)) ELSE <<>>])
    /\ q = [txMeta |-> <<>>, txData |-> <<>>, txIpMeta |-> <<>>, txUdpMeta |-> <<>>, txShift2udp |-> <<>>, txUdp2ip |-> <<>>,
            txShift2ip |-> <<>>, txIp2crc |-> <<>>, txCrcData |-> <<>>, txMasked |-> <<>>, txMasked1 |-> <<>>,
            txMasked2 |-> <<>>, txCrc1 |-> <<>>, txCrc2 |-> <<>>, txCrc |-> <<>>, toWire |-> <<>>,
            fromWire |-> <<>>, rxData |-> <<>>, rxCrc |-> <<>>, rxCrcData |-> <<>>, rxMasked |-> <<>>, rxMasked1 |-> <<>>,
            rxMasked2 |-> <<>>, rxCrc1 |-> <<>>, rxCrc2 |-> <<>>, rxCalcCrc |-> <<>>, rxCrc2ip |-> <<>>, dropLength |-> <<>>,
            rxProcess2drop |-> <<>>, rxIpMeta |-> <<>>, rxIp2udp |-> <<>>, rxUdpMeta |-> <<>>, rxUdp2shift |-> <<>>, rx2ib |-> <<>>]
    /\ reg = [sent |-> 0, txData |-> NoWord, txUdp2ip |-> NoWord, genUdp |-> <<"META">>, genIp |-> <<"META">>,
              txOne |-> TRUE, txMerge |-> TRUE, txMasked1 |-> <<>>, txMasked2 |-> <<>>, insert |-> <<"CRC">>,
              wire |-> <<1, 0>>, extract |-> [state |-> "FIRST", prev |-> NoWord], txFirst |-> TRUE, rxFirst |-> TRUE,
              rxOne |-> TRUE, rxMerge |-> TRUE, rxMasked1 |-> <<>>, rxMasked2 |-> <<>>, dropCrc |-> "META", dropped |-> 0,
              ipMeta |-> FALSE, rxProcess2drop |-> NoWord, udpMeta |-> FALSE, rxUdp2shift |-> NoWord]
    /\ delivered = <<>> /\ asked = <<>>

DepthOf(fifo) == IF fifo \in {"txMasked1", "txMasked2", "txCrcData", "rxMasked1", "rxMasked2", "rxCrcData"}
                 THEN PkgDepth ELSE Depth
HasRoom(fifo) == Len(q[fifo]) < DepthOf(fifo)
Put(fifos, fifo, x) == [fifos EXCEPT ![fifo] = Append(@, x)]

-----------------------------------------------------------------------------
(* ib_transport_protocol says of each packet where it goes, and sends its  *)
(* words.                                                                  *)
SendMeta ==
    /\ HasRoom("txMeta") /\ reg.sent < Len(work)
    /\ LET p == reg.sent + 1 IN q' = IF work[p].roce THEN Put(q, "txMeta", p) ELSE q
    /\ reg' = [reg EXCEPT !.sent = @ + 1]
    /\ UNCHANGED raw

SendData ==
    /\ raw # <<>> /\ HasRoom("txData")
    /\ q' = Put(q, "txData", Head(raw))
    /\ raw' = Tail(raw)
    /\ UNCHANGED reg

-----------------------------------------------------------------------------
(* udp and ipv4, sending.                                                  *)
SplitTxMeta ==
    /\ q.txMeta # <<>> /\ HasRoom("txIpMeta") /\ HasRoom("txUdpMeta")
    /\ q' = Put(Move("txMeta", "txIpMeta", Head(q.txMeta)), "txUdpMeta", Head(q.txMeta))
    /\ UNCHANGED reg

(* generate_udp, ipv4_generate_ipv4: a header into the gap before each     *)
(* packet.                                                                 *)
GenerateMeta(fsm, meta) ==
    /\ reg[fsm] = <<"META">> /\ q[meta] # <<>>
    /\ reg' = [reg EXCEPT ![fsm] = <<"PARTIAL_HEADER", Head(q[meta])>>]
    /\ q' = [q EXCEPT ![meta] = Tail(@)]

GenerateBody(fsm, from, to, part, n) ==
    /\ reg[fsm] # <<"META">> /\ q[from] # <<>> /\ HasRoom(to)
    /\ LET word == Head(q[from]) IN
         /\ q' = Move(from, to, IF reg[fsm] = <<"BODY">> THEN word ELSE Overwrite(Part(part, reg[fsm][2], n), word))
         /\ reg' = [reg EXCEPT ![fsm] = IF word.last THEN <<"META">> ELSE <<"BODY">>]

-----------------------------------------------------------------------------
(* The checksum, on both sides.                                            *)

(* mask_header_fields: 424 bits of the first word, of which these units are*)
(* changed.  They are the positions of the fields that change in IPv6.     *)
MaskedUnits == {1, 2, 4, 24, 27}
Mask(word) == [word EXCEPT !.data = [k \in DOMAIN @ |-> IF k \in MaskedUnits THEN <<"masked">> ELSE @[k]]]

MaskHeaderFields(from, isFirst, data, masked) ==
    /\ q[from] # <<>> /\ HasRoom(data) /\ HasRoom(masked)
    /\ LET word == Head(q[from]) IN
         /\ q' = Put(Move(from, data, word), masked, IF reg[isFirst] THEN Mask(word) ELSE word)
         /\ reg' = [reg EXCEPT ![isFirst] = word.last]

(* round_robin_arbiter: every other packet to the second unit.             *)
Arbiter(from, one, to1, to2) ==
    /\ q[from] # <<>>
    /\ LET word == Head(q[from])
           to == IF reg[one] THEN to1 ELSE to2
       IN /\ HasRoom(to)
          /\ q' = Move(from, to, word)
          /\ reg' = [reg EXCEPT ![one] = IF word.last THEN ~@ ELSE @]

(* compute_crc32, with the last word of a packet.                          *)
ComputeCrc(from, to) ==
    /\ q[from] # <<>> /\ (Head(q[from]).last => HasRoom(to))
    /\ LET word == Head(q[from])
           crc == reg[from] \o word.data
       IN /\ q' = IF word.last THEN Move(from, to, crc) ELSE [q EXCEPT ![from] = Tail(@)]
          /\ reg' = [reg EXCEPT ![from] = IF word.last THEN <<>> ELSE crc]

(* round_robin_merger                                                      *)
Merger(from1, from2, one, to) ==
    /\ HasRoom(to)
    /\ LET from == IF reg[one] THEN from1 ELSE from2 IN
         /\ q[from] # <<>>
         /\ q' = Move(from, to, Head(q[from]))
    /\ reg' = [reg EXCEPT ![one] = ~@]

(* The four bytes of a checksum.                                           *)
CrcUnits(crc) == <<<<"crc", crc, 1>>, <<"crc", crc, 2>>>>
CrcSize == 2

(* insert_icrc: behind the last word, if that is full.  Packets are        *)
(* multiples of four bytes.                                                *)
InsertCrc ==
    /\ reg.insert = <<"CRC">> /\ q.txCrc # <<>>
    /\ reg' = [reg EXCEPT !.insert = <<"FWD", Head(q.txCrc)>>]
    /\ q' = [q EXCEPT !.txCrc = Tail(@)]

InsertForward ==
    /\ reg.insert[1] = "FWD" /\ q.txCrcData # <<>> /\ HasRoom("toWire")
    /\ LET word == Head(q.txCrcData)
           full == Len(word.data) = Width
           crc == reg.insert[2]
           sent == CASE ~word.last -> word
                     [] word.last /\ full -> [word EXCEPT !.last = FALSE]
                     [] OTHER -> [word EXCEPT !.data = @ \o CrcUnits(crc)]
       IN /\ q' = Move("txCrcData", "toWire", sent)
          /\ reg' = [reg EXCEPT !.insert = IF ~word.last THEN @ ELSE IF full THEN <<"POST", crc>> ELSE <<"CRC">>]

InsertPost ==
    /\ reg.insert[1] = "POST" /\ HasRoom("toWire")
    /\ q' = Put(q, "toWire", Word(CrcUnits(reg.insert[2]), TRUE))
    /\ reg' = [reg EXCEPT !.insert = <<"CRC">>]

InsertIcrc == InsertCrc \/ InsertForward \/ InsertPost

-----------------------------------------------------------------------------
(* The wire: packets in their order, some of them damaged, some of them    *)
(* other programs'.                                                        *)
Foreign(p) == Words(Part("ip", p, Ip) \o Part("udp", p, Udp) \o Payload(p))
Damage(p, word) ==
    [word EXCEPT !.data = [k \in DOMAIN @ |->
        IF ~work[p].intact /\ @[k] = <<"data", p, work[p].len>> THEN Damaged(@[k]) ELSE @[k]]]

Wire ==
    /\ reg.wire[1] \in DOMAIN work /\ HasRoom("fromWire")
    /\ LET p == reg.wire[1]
           n == reg.wire[2] + 1
           source == IF work[p].roce THEN q.toWire ELSE Rest(n - 1, Foreign(p))
       IN /\ source # <<>>
          /\ q' = IF work[p].roce THEN Move("toWire", "fromWire", Damage(p, Head(source))) ELSE Put(q, "fromWire", Head(source))
          /\ reg' = [reg EXCEPT !.wire = IF Head(source).last THEN <<p + 1, 0>> ELSE <<p, n>>]

-----------------------------------------------------------------------------
(* extract_icrc: from behind the last word, or from its end.  A length that*)
(* is no multiple of four bytes leaves the checksum undefined.             *)
ExtractFirst ==
    /\ reg.extract.state = "FIRST" /\ q.fromWire # <<>>
    /\ LET word == Head(q.fromWire) IN
         reg' = [reg EXCEPT !.extract = [state |-> IF word.last THEN "LAST" ELSE "PKG", prev |-> word]]
    /\ q' = [q EXCEPT !.fromWire = Tail(@)]

ExtractPkg ==
    /\ reg.extract.state = "PKG" /\ q.fromWire # <<>> /\ HasRoom("rxData")
    /\ LET word == Head(q.fromWire)
           alone == word.last /\ Len(word.data) <= CrcSize
           moved == Move("fromWire", "rxData", [reg.extract.prev EXCEPT !.last = alone])
       IN /\ alone => HasRoom("rxCrc")
          /\ q' = IF alone THEN Put(moved, "rxCrc", word.data) ELSE moved
          /\ reg' = [reg EXCEPT !.extract = [prev |-> word, state |-> IF alone THEN "FIRST" ELSE IF word.last THEN "LAST" ELSE "PKG"]]

ExtractLast ==
    /\ reg.extract.state = "LAST" /\ HasRoom("rxData") /\ HasRoom("rxCrc")
    /\ LET word == reg.extract.prev
           n == Len(word.data) - CrcSize
           isEven == n % 2 = 0
       IN q' = Put(Put(q, "rxData", IF isEven THEN [word EXCEPT !.data = First(n, @)] ELSE word),
                   "rxCrc", IF isEven THEN Rest(n, word.data) ELSE <<>>)
    /\ reg' = [reg EXCEPT !.extract = [state |-> "FIRST", prev |-> NoWord]]

ExtractIcrc == ExtractFirst \/ ExtractPkg \/ ExtractLast

(* drop_invalid_crc counts a packet with a wrong checksum, but forwards it.*)
DropMeta ==
    /\ reg.dropCrc = "META" /\ q.rxCrc # <<>> /\ q.rxCalcCrc # <<>>
    /\ LET wrong == Head(q.rxCrc) # CrcUnits(Head(q.rxCalcCrc)) IN
         reg' = [reg EXCEPT !.dropCrc = "FWD", !.dropped = IF wrong THEN @ + 1 ELSE @]
    /\ q' = [q EXCEPT !.rxCrc = Tail(@), !.rxCalcCrc = Tail(@)]

DropForward ==
    /\ reg.dropCrc = "FWD" /\ q.rxCrcData # <<>> /\ HasRoom("rxCrc2ip")
    /\ LET word == Head(q.rxCrcData) IN
         /\ q' = Move("rxCrcData", "rxCrc2ip", word)
         /\ reg' = [reg EXCEPT !.dropCrc = IF word.last THEN "META" ELSE "FWD"]

DropInvalidCrc == DropMeta \/ DropForward

-----------------------------------------------------------------------------
(* ipv4, receiving: process_ipv4 and ipv4_drop_optional_ip_header.         *)
ProcessIpv4 ==
    /\ q.rxCrc2ip # <<>> /\ HasRoom("rxProcess2drop")
    /\ reg.ipMeta \/ (HasRoom("dropLength") /\ HasRoom("rxIpMeta"))
    /\ LET word == Head(q.rxCrc2ip)
           moved == Move("rxCrc2ip", "rxProcess2drop", word)
       IN /\ q' = IF reg.ipMeta THEN moved ELSE Put(Put(moved, "dropLength", Ip), "rxIpMeta", word.data[1][2])
          /\ reg' = [reg EXCEPT !.ipMeta = ~word.last]

DropIpFirst ==
    /\ reg.rxProcess2drop = NoWord /\ q.dropLength # <<>> /\ q.rxProcess2drop # <<>>
    /\ q' = [q EXCEPT !.dropLength = Tail(@), !.rxProcess2drop = Tail(@)]
    /\ reg' = [reg EXCEPT !.rxProcess2drop = Head(q.rxProcess2drop)]

DropIpHeader ==
    \/ DropIpFirst
    \/ reg.rxProcess2drop # NoWord /\ HasRoom("rxIp2udp") /\ RightShift("rxProcess2drop", "rxIp2udp", Ip)

(* process_udp: words to other ports go nowhere, but their packet is told  *)
(* of, as not valid.  The header is in the first word and is kept.         *)
PacketIn(word) == word.data[1][2]
ForAnyPort(p) == TRUE
ForThisPort(p) == work[p].roce

ProcessUdp ==
    /\ q.rxIp2udp # <<>>
    /\ ForThisPort(PacketIn(Head(q.rxIp2udp))) => HasRoom("rxUdp2shift")
    /\ reg.udpMeta \/ HasRoom("rxUdpMeta")
    /\ LET word == Head(q.rxIp2udp)
           p == PacketIn(word)
           read == [q EXCEPT !.rxIp2udp = Tail(@)]
           passed == IF ForThisPort(p) THEN Put(read, "rxUdp2shift", word) ELSE read
       IN /\ q' = IF reg.udpMeta THEN passed
                  ELSE Put(passed, "rxUdpMeta", [packet |-> p, length |-> work[p].len + Udp, valid |-> ForThisPort(p)])
          /\ reg' = [reg EXCEPT !.udpMeta = ~word.last]

(* merge_rx_meta: the address of the one, the ports of the other.          *)
Merged(ip, udp) == [address |-> ip, ports |-> udp.packet, length |-> udp.length]

MergeRxMeta ==
    /\ q.rxIpMeta # <<>> /\ q.rxUdpMeta # <<>>
    /\ asked' = IF Head(q.rxUdpMeta).valid THEN Append(asked, Merged(Head(q.rxIpMeta), Head(q.rxUdpMeta))) ELSE asked
    /\ q' = [q EXCEPT !.rxIpMeta = Tail(@), !.rxUdpMeta = Tail(@)]
    /\ UNCHANGED reg

(* The shifts of udp and ipv4 have copies of their own.                    *)
UdpRightShift == HasRoom("rx2ib") /\ RightShift("rxUdp2shift", "rx2ib", Udp)
UdpLeftShift == HasRoom("txShift2udp") /\ LeftShift("txData", "txShift2udp", Udp)
Ipv4LeftShift == HasRoom("txShift2ip") /\ LeftShift("txUdp2ip", "txShift2ip", Ip)

ReceiveData ==
    /\ q.rx2ib # <<>>
    /\ delivered' = Append(delivered, Head(q.rx2ib))
    /\ q' = [q EXCEPT !.rx2ib = Tail(@)]
    /\ UNCHANGED reg

-----------------------------------------------------------------------------

Sender ==
    \/ SplitTxMeta
    \/ UdpLeftShift
    \/ GenerateMeta("genUdp", "txUdpMeta") \/ GenerateBody("genUdp", "txShift2udp", "txUdp2ip", "udp", Udp)
    \/ Ipv4LeftShift
    \/ GenerateMeta("genIp", "txIpMeta") \/ GenerateBody("genIp", "txShift2ip", "txIp2crc", "ip", Ip)
    \/ MaskHeaderFields("txIp2crc", "txFirst", "txCrcData", "txMasked")
    \/ Arbiter("txMasked", "txOne", "txMasked1", "txMasked2")
    \/ ComputeCrc("txMasked1", "txCrc1") \/ ComputeCrc("txMasked2", "txCrc2")
    \/ Merger("txCrc1", "txCrc2", "txMerge", "txCrc")
    \/ InsertIcrc

Receiver ==
    \/ ExtractIcrc
    \/ MaskHeaderFields("rxData", "rxFirst", "rxCrcData", "rxMasked")
    \/ Arbiter("rxMasked", "rxOne", "rxMasked1", "rxMasked2")
    \/ ComputeCrc("rxMasked1", "rxCrc1") \/ ComputeCrc("rxMasked2", "rxCrc2")
    \/ Merger("rxCrc1", "rxCrc2", "rxMerge", "rxCalcCrc")
    \/ DropInvalidCrc \/ ProcessIpv4 \/ DropIpHeader \/ ProcessUdp
    \/ UdpRightShift

Next ==
    \/ (SendMeta \/ SendData) /\ UNCHANGED <<work, delivered, asked>>
    \/ (Sender \/ Wire \/ Receiver) /\ UNCHANGED <<work, raw, delivered, asked>>
    \/ MergeRxMeta /\ UNCHANGED <<work, raw, delivered>>
    \/ ReceiveData /\ UNCHANGED <<work, raw, asked>>

(* No stage waits but for its FIFOs.                                       *)
Spec == Init /\ [][Next]_vars /\ WF_vars(Next)

-----------------------------------------------------------------------------

ForTransport == SelectSeq([p \in DOMAIN work |-> p], LAMBDA p : work[p].roce)

Arrives(p) == IF work[p].intact THEN Payload(p) ELSE [Payload(p) EXCEPT ![work[p].len] = Damaged(@)]
PayloadsSent == FlattenSeq([n \in DOMAIN ForTransport |-> Words(Arrives(ForTransport[n]))])
MetasSent == [n \in DOMAIN ForTransport |->
    LET p == ForTransport[n] IN [address |-> p, ports |-> p, length |-> work[p].len + Udp]]

(* A transport is given what the other one has sent, with the address and  *)
(* ports of the same packet, and nothing of the packets of other programs. *)
PacketsAreCarried == IsPrefix(delivered, PayloadsSent) /\ IsPrefix(asked, MetasSent)

(* In the end it is given everything, and the packets with a wrong checksum*)
(* have been counted: all packets of other programs, too, have one.        *)
Finished ==
    /\ delivered = PayloadsSent /\ asked = MetasSent
    /\ reg.dropped = Cardinality({p \in DOMAIN work : ~work[p].intact \/ ~work[p].roce})
AllAreCarried == <>Finished

=============================================================================
