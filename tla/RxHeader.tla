------------------------------- MODULE RxHeader -------------------------------
(***************************************************************************)
(* The first half of rx_engine: from an IP packet to what its TCP header   *)
(* says and its payload.  The IP header is cut off, a pseudo header put    *)
(* before the segment, the sum taken over both; then the header is taken   *)
(* out, the options are cut off, and the window scale of a SYN is read.    *)
(* What is known of a packet goes by FIFOs of its own, past its words, and *)
(* is put together again by order only.                                    *)
(*                                                                         *)
(* A unit is two bytes and tells where it comes from: <<part, packet,      *)
(* position>>.  The words have 512 bits.                                   *)
(***************************************************************************)
EXTENDS AxiStream

CONSTANTS
    Workloads,      \* sequences of packets
    Depth,          \* of the FIFOs with depth 2
    WordDepth,      \* of the FIFOs of words (8), and rxEng_optionalFieldsMetaFifo
    PkgDepth,       \* of rxEng_dataBuffer2, which has to keep a packet
    Ip, Pseudo, Tcp \* units of the headers without options

VARIABLES
    work,           \* one of Workloads: what the packets are
    raw,            \* ipRxData: words still to come
    delivered,      \* rxEng_dataBuffer3: payloads, and
    asked           \* what rxMetadataHandler has read: [meta, tuple, port]

vars == <<work, raw, q, reg, delivered, asked>>

(* An option has a kind and a length in bytes; the window scale has a value*)
(* that the packet tells.                                                  *)
Option(kind, length) == [kind |-> kind, length |-> length]
End == Option(0, 1)
Nop == Option(1, 1)
Mss == Option(2, 4)
Scale == Option(3, 3)
Sack == Option(4, 2)
Times == Option(8, 10)

(* A packet with len units of payload and an IP header of ihl words.  Its  *)
(* scale is its number, so that no two are the same.                       *)
Packet(intact, syn, options, len) ==
    [intact |-> intact, syn |-> syn, options |-> options, len |-> len, ihl |-> Ip \div 2]

(* The options, in words of four bytes: the data offset less five.         *)
OptionWords(p) == (FoldLeft(LAMBDA n, o : n + o.length, 0, work[p].options) + 3) \div 4
OptionUnits(p) == 2 * OptionWords(p)
SegmentLen(p) == Tcp + OptionUnits(p) + work[p].len

Part(part, p, n) == [k \in 1 .. n |-> <<part, p, k>>]
SegmentOf(p) == Part("tcp", p, Tcp) \o Part("option", p, OptionUnits(p)) \o Part("data", p, work[p].len)
PacketOf(word) == word.data[1][2]

Init ==
    /\ work \in Workloads
    /\ raw = FlattenSeq([p \in DOMAIN work |-> Words(Part("ip", p, 2 * work[p].ihl) \o SegmentOf(p))])
    /\ q = [data0 |-> <<>>, dropLength |-> <<>>, ipMeta |-> <<>>, data4 |-> <<>>, data5 |-> <<>>, pseudoHeader |-> <<>>,
            data1 |-> <<>>, data2 |-> <<>>, subSum |-> <<>>, valid |-> <<>>, data3a |-> <<>>, headerMeta |-> <<>>,
            tuple |-> <<>>, portReq |-> <<>>, portRsp |-> <<>>, optionalFieldsMeta |-> <<>>, data3b |-> <<>>,
            dataOffset |-> <<>>, optionalFields |-> <<>>, winScale |-> <<>>, metaData |-> <<>>]
    /\ reg = [metaWritten |-> FALSE, data0 |-> NoWord, data4 |-> NoWord, prepend |-> <<>>, firstPayload |-> TRUE,
              sums |-> <<>>, tcp |-> [firstWord |-> TRUE, pkgValid |-> FALSE], data3a |-> NoWord,
              drop |-> [state |-> 0, offset |-> 0, prev |-> NoWord, parseHeader |-> FALSE],
              parse |-> [state |-> "IDLE", offset |-> 0, fields |-> <<>>, packet |-> 0], merge |-> {}]
    /\ delivered = <<>> /\ asked = <<>>

DepthOf(fifo) == CASE fifo = "data2" -> PkgDepth
                   [] fifo \in {"data0", "data1", "data3a", "data3b", "data4", "data5", "optionalFieldsMeta"} -> WordDepth
                   [] fifo = "headerMeta" -> 2 * WordDepth
                   [] OTHER -> Depth
HasRoom(fifo) == Len(q[fifo]) < DepthOf(fifo)
Put(fifos, fifo, x) == [fifos EXCEPT ![fifo] = Append(@, x)]

-----------------------------------------------------------------------------
(* toe_process_ipv4                                                        *)
Receive ==
    /\ raw # <<>> /\ HasRoom("data0")
    /\ reg.metaWritten \/ (HasRoom("dropLength") /\ HasRoom("ipMeta"))
    /\ LET word == Head(raw)
           read == Put(q, "data0", word)
           p == PacketOf(word)
       IN /\ q' = IF reg.metaWritten THEN read ELSE Put(Put(read, "dropLength", work[p].ihl), "ipMeta", [packet |-> p, length |-> SegmentLen(p)])
          /\ reg' = [reg EXCEPT !.metaWritten = ~word.last]
    /\ raw' = Tail(raw)

(* drop_optional_ip_header for 512 bits: a header of five words.  Another  *)
(* length is passed over, but the packet is not.                           *)
DropIpFirst ==
    /\ reg.data0 = NoWord /\ q.dropLength # <<>> /\ q.data0 # <<>>
    /\ IF Head(q.dropLength) = 5
       THEN /\ q' = [q EXCEPT !.dropLength = Tail(@), !.data0 = Tail(@)]
            /\ reg' = [reg EXCEPT !.data0 = Head(q.data0)]
       ELSE /\ q' = [q EXCEPT !.dropLength = Tail(@)]
            /\ UNCHANGED reg

DropIpHeader ==
    \/ DropIpFirst
    \/ reg.data0 # NoWord /\ HasRoom("data4") /\ RightShift("data0", "data4", Ip)

(* constructPseudoHeader                                                   *)
ConstructPseudoHeader ==
    /\ q.ipMeta # <<>> /\ HasRoom("pseudoHeader")
    /\ q' = Move("ipMeta", "pseudoHeader", Head(q.ipMeta))
    /\ UNCHANGED reg

(* prependPseudoHeader: over the gap that the left shift has made.         *)
PrependHeader ==
    /\ reg.prepend = <<>> /\ q.pseudoHeader # <<>>
    /\ reg' = [reg EXCEPT !.prepend = Part("pseudo", Head(q.pseudoHeader).packet, Pseudo), !.firstPayload = TRUE]
    /\ q' = [q EXCEPT !.pseudoHeader = Tail(@)]

PrependPayload ==
    /\ reg.prepend # <<>> /\ q.data5 # <<>> /\ HasRoom("data1")
    /\ LET word == Head(q.data5) IN
         /\ q' = Move("data5", "data1", IF reg.firstPayload THEN Overwrite(reg.prepend, word) ELSE word)
         /\ reg' = [reg EXCEPT !.firstPayload = FALSE, !.prepend = IF word.last THEN <<>> ELSE @]

(* two_complement_subchecksums                                             *)
SubSums ==
    /\ q.data1 # <<>> /\ HasRoom("data2") /\ (Head(q.data1).last => HasRoom("subSum"))
    /\ LET word == Head(q.data1)
           moved == Move("data1", "data2", word)
       IN /\ q' = IF word.last THEN Put(moved, "subSum", reg.sums \o word.data) ELSE moved
          /\ reg' = [reg EXCEPT !.sums = IF word.last THEN <<>> ELSE @ \o word.data]

(* toe_check_ipv4_checksum: a sum is right if all is there that was sent,  *)
(* and nothing was damaged.                                                *)
IsRight(sum) ==
    LET p == sum[1][2]
    IN work[p].intact /\ sum = Part("pseudo", p, Pseudo) \o SegmentOf(p)

CheckChecksum ==
    /\ q.subSum # <<>> /\ HasRoom("valid")
    /\ q' = Move("subSum", "valid", IsRight(Head(q.subSum)))
    /\ UNCHANGED reg

(* processPseudoHeader.  In a word of 512 bits, the header is ready with   *)
(* the first word; what has neither payload nor options is not passed on.  *)
(* The length is that of the pseudo header less the data offset of the     *)
(* segment, the tuple has addresses of the one and ports of the other.     *)
HeaderIn(word) ==
    [ip |-> word.data[1][2], packet |-> word.data[Pseudo + 1][2]]
LengthIn(header) == SegmentLen(header.ip) - Tcp - OptionUnits(header.packet)
HasMore(header) == LengthIn(header) # 0 \/ OptionWords(header.packet) > 0

TcpFirst ==
    /\ reg.tcp.firstWord /\ q.data2 # <<>> /\ q.valid # <<>>
    /\ Head(q.valid) => \A fifo \in {"data3a", "headerMeta", "tuple", "portReq", "optionalFieldsMeta"} : HasRoom(fifo)
    /\ LET word == Head(q.data2)
           header == HeaderIn(word)
           read == [q EXCEPT !.data2 = Tail(@), !.valid = Tail(@)]
           told == Put(Put(Put(read, "headerMeta", [packet |-> header.packet, length |-> LengthIn(header)]),
                           "portReq", header.packet), "tuple", header)
           more == [offset |-> OptionWords(header.packet), syn |-> work[header.packet].syn]
       IN /\ q' = IF ~Head(q.valid) THEN read
                  ELSE IF HasMore(header) THEN Put(Put(told, "data3a", word), "optionalFieldsMeta", more) ELSE told
          /\ reg' = [reg EXCEPT !.tcp = [firstWord |-> word.last, pkgValid |-> Head(q.valid) /\ HasMore(header)]]

TcpNext ==
    /\ ~reg.tcp.firstWord /\ q.data2 # <<>> /\ (reg.tcp.pkgValid => HasRoom("data3a"))
    /\ LET word == Head(q.data2) IN
         /\ q' = IF reg.tcp.pkgValid THEN Move("data2", "data3a", word) ELSE [q EXCEPT !.data2 = Tail(@)]
         /\ reg' = [reg EXCEPT !.tcp.firstWord = word.last]

(* drop_optional_header_fields: the shift is by the options of the packet. *)
(* The options of a SYN are handed on as they are in its first word.       *)
AlwaysAfterLast(word, offset) == IF offset # 0 THEN 2 ELSE 0     \* mistake: also if nothing is left
AfterLast(word, offset) == IF offset # 0 /\ Len(word.data) > 2 * offset THEN 2 ELSE 0

DropFirst ==
    /\ reg.drop.state = 0 /\ q.optionalFieldsMeta # <<>> /\ q.data3b # <<>>
    /\ Head(q.optionalFieldsMeta).syn => HasRoom("dataOffset") /\ HasRoom("optionalFields")
    /\ LET meta == Head(q.optionalFieldsMeta)
           word == Head(q.data3b)
           read == [q EXCEPT !.optionalFieldsMeta = Tail(@), !.data3b = Tail(@)]
       IN /\ q' = IF meta.offset # 0 /\ meta.syn
                  THEN Put(Put(read, "dataOffset", meta.offset), "optionalFields", PacketOf(word)) ELSE read
          /\ delivered' = IF meta.offset = 0 THEN Append(delivered, word) ELSE delivered
          /\ reg' = [reg EXCEPT !.drop = [offset |-> meta.offset, prev |-> word, parseHeader |-> meta.offset # 0 /\ meta.syn,
                                          state |-> IF word.last THEN AfterLast(word, meta.offset) ELSE 1]]

(* headerWritten was not set with the first word: the options of a SYN that*)
(* has a second one are handed on again.                                   *)
DropNext ==
    /\ reg.drop.state = 1 /\ q.data3b # <<>> /\ (reg.drop.parseHeader => HasRoom("optionalFields"))
    /\ LET word == Head(q.data3b)
           offset == reg.drop.offset
       IN /\ delivered' = Append(delivered, IF offset = 0 THEN word ELSE RightShifted(reg.drop.prev, word.data, 2 * offset))
          /\ reg' = [reg EXCEPT !.drop = [offset |-> offset, prev |-> word, parseHeader |-> FALSE,
                                          state |-> IF word.last THEN AfterLast(word, offset) ELSE 1]]
    /\ LET read == [q EXCEPT !.data3b = Tail(@)]
       IN q' = IF reg.drop.parseHeader THEN Put(read, "optionalFields", PacketOf(reg.drop.prev)) ELSE read

DropRest ==
    /\ reg.drop.state = 2
    /\ delivered' = Append(delivered, Word(Rest(2 * reg.drop.offset, reg.drop.prev.data), TRUE))
    /\ reg' = [reg EXCEPT !.drop.state = 0]
    /\ UNCHANGED q

(* parse_optional_header_fields.  dataOffset has four bits and counts      *)
(* words, the lengths it is compared with are bytes.                       *)
ParseIdle ==
    /\ reg.parse.state = "IDLE" /\ q.dataOffset # <<>> /\ q.optionalFields # <<>>
    /\ LET p == Head(q.optionalFields) IN
         reg' = [reg EXCEPT !.parse = [state |-> "PARSE", offset |-> Head(q.dataOffset), fields |-> work[p].options, packet |-> p]]
    /\ q' = [q EXCEPT !.dataOffset = Tail(@), !.optionalFields = Tail(@)]

NextOption == IF reg.parse.fields = <<>> THEN End ELSE Head(reg.parse.fields)

(* The scale that ends the list, or none.                                  *)
ScaleRead(o) == IF o.kind = Scale.kind THEN {reg.parse.packet}
                ELSE IF o.kind = End.kind \/ (o.kind # Nop.kind /\ reg.parse.offset = o.length) THEN {0}
                ELSE {}

Parse ==
    /\ reg.parse.state = "PARSE" /\ HasRoom("winScale")
    /\ q' = [q EXCEPT !.winScale = @ \o SetToSeq(ScaleRead(NextOption))]
    /\ reg' = [reg EXCEPT !.parse.state = IF ScaleRead(NextOption) = {} THEN "PARSE" ELSE "IDLE",
                          !.parse.offset = (@ + 16 - NextOption.length) % 16,
                          !.parse.fields = IF @ = <<>> THEN @ ELSE Tail(@)]

(* merge_header_meta: a SYN with options waits for its scale.              *)
WaitsForScale(meta) == work[meta.packet].syn /\ OptionWords(meta.packet) > 0
Merged(meta, scale) == [packet |-> meta.packet, length |-> meta.length, scale |-> scale]

MergeMeta ==
    /\ reg.merge = {} /\ q.headerMeta # <<>> /\ HasRoom("metaData")
    /\ LET meta == Head(q.headerMeta)
           read == [q EXCEPT !.headerMeta = Tail(@)]
       IN IF WaitsForScale(meta)
          THEN q' = read /\ reg' = [reg EXCEPT !.merge = {meta}]
          ELSE q' = Put(read, "metaData", Merged(meta, 0)) /\ UNCHANGED reg

MergeScale ==
    /\ q.winScale # <<>> /\ HasRoom("metaData")
    /\ \E meta \in reg.merge : q' = Move("winScale", "metaData", Merged(meta, Head(q.winScale)))
    /\ reg' = [reg EXCEPT !.merge = {}]

-----------------------------------------------------------------------------
(* The port table answers; rxMetadataHandler puts together what belongs to *)
(* a packet.                                                               *)
PortTable ==
    /\ q.portReq # <<>> /\ HasRoom("portRsp")
    /\ q' = Move("portReq", "portRsp", Head(q.portReq))
    /\ UNCHANGED reg

MetadataHandler ==
    /\ q.metaData # <<>> /\ q.tuple # <<>> /\ q.portRsp # <<>>
    /\ asked' = Append(asked, [meta |-> Head(q.metaData), tuple |-> Head(q.tuple), port |-> Head(q.portRsp)])
    /\ q' = [q EXCEPT !.metaData = Tail(@), !.tuple = Tail(@), !.portRsp = Tail(@)]
    /\ UNCHANGED reg

-----------------------------------------------------------------------------

Inner ==
    \/ DropIpHeader
    \/ HasRoom("data5") /\ LeftShift("data4", "data5", Pseudo)
    \/ ConstructPseudoHeader \/ PrependHeader \/ PrependPayload \/ SubSums \/ CheckChecksum
    \/ TcpFirst \/ TcpNext
    \/ HasRoom("data3b") /\ RightShift("data3a", "data3b", Pseudo + Tcp)
    \/ ParseIdle \/ Parse \/ MergeMeta \/ MergeScale \/ PortTable

Next ==
    \/ Receive /\ UNCHANGED <<work, delivered, asked>>
    \/ Inner /\ UNCHANGED <<work, raw, delivered, asked>>
    \/ (DropFirst \/ DropNext \/ DropRest) /\ UNCHANGED <<work, raw, asked>>
    \/ MetadataHandler /\ UNCHANGED <<work, raw, delivered>>

(* No stage waits but for its FIFOs.                                       *)
Spec == Init /\ [][Next]_vars /\ WF_vars(Next)

-----------------------------------------------------------------------------

Intact == SelectSeq([p \in DOMAIN work |-> p], LAMBDA p : work[p].intact)

(* The scale a SYN offers, if any.                                         *)
ScaleOf(p) == IF work[p].syn /\ Scale \in ToSet(work[p].options) THEN p ELSE 0

Payloads == FlattenSeq([n \in DOMAIN Intact |-> Words(Part("data", Intact[n], work[Intact[n]].len))])
Headers == [n \in DOMAIN Intact |->
    LET p == Intact[n]
    IN [meta |-> [packet |-> p, length |-> work[p].len, scale |-> ScaleOf(p)], tuple |-> [ip |-> p, packet |-> p], port |-> p]]

(* Of the packets with a right sum, and of no others, the metadata handler *)
(* is told each with its own tuple, port, length and scale, and the payload*)
(* goes on without headers and options, in the same order.                 *)
PacketsAreTakenApart == IsPrefix(delivered, Payloads) /\ IsPrefix(asked, Headers)

(* In the end, all of them.                                                *)
Finished == delivered = Payloads /\ asked = Headers
AllAreTakenApart == <>Finished

=============================================================================
