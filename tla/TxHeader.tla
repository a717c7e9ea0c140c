------------------------------- MODULE TxHeader -------------------------------
(***************************************************************************)
(* The second half of tx_engine, and mac_ip_encode behind it: how a segment*)
(* becomes a frame.  What metaLoader says of a segment, its tuple, which   *)
(* comes from the session lookup or with the event, its payload, the two   *)
(* checksums and the address of its next hop travel in FIFOs of their own; *)
(* each stage takes the next of each and trusts that they belong together. *)
(*                                                                         *)
(* A unit is two bytes, as the sums are, and tells what was put there:     *)
(* <<part, segment, tuple, position>>.  The words have 512 bits, so that a *)
(* header is never longer than a word.                                     *)
(***************************************************************************)
EXTENDS AxiStream

CONSTANTS
    Workloads,      \* sequences of segments
    Depth,          \* of the FIFOs with depth 2
    MetaDepth,      \* of the FIFOs for what is known of a segment (4 to 32)
    PkgDepth,       \* of txEng_tcpPkgBuffer2, which has to keep a packet
    Eth, Ip, Pseudo, Tcp,   \* units of the headers: ETH_HEADER_SIZE, IPV4_HEADER_SIZE, ...
    Known           \* hops that the ARP table knows

VARIABLES
    work,           \* one of Workloads: what the segments are
    raw,            \* payload that is still to come from memory or bypass
    asked,          \* segments that metaLoader has handed over
    delivered       \* m_axis_ip of mac_ip_encode: words of frames

vars == <<work, raw, q, reg, asked, delivered>>

(* A segment of len units, options included; its tuple is that of session, *)
(* looked up or not, and its next hop hop.                                 *)
Segment(len, syn, lookup, hop) == [len |-> len, syn |-> syn, lookup |-> lookup, hop |-> hop]

Header(part, meta, tuple, n) == [k \in 1 .. n |-> <<part, meta, tuple, k>>]
HasBody(s) == work[s].len # 0 /\ ~work[s].syn
Payload(s) == IF HasBody(s) THEN Header("data", s, s, work[s].len) ELSE <<>>
Options(meta, tuple) == IF work[meta].syn THEN Header("option", meta, tuple, work[meta].len) ELSE <<>>

Init ==
    /\ work \in Workloads
    /\ raw = FlattenSeq([s \in DOMAIN work |-> Words(Payload(s))])
    /\ q = [isLookUp |-> <<>>, shortCut |-> <<>>, revReq |-> <<>>, revRsp |-> <<>>, ipMeta |-> <<>>, tcpMeta |-> <<>>,
            ipTuple |-> <<>>, tcpTuple |-> <<>>, pkg0 |-> <<>>, shift2pseudo |-> <<>>, pkg1 |-> <<>>, pkg2 |-> <<>>,
            pkg3 |-> <<>>, pkg4 |-> <<>>, pkg5 |-> <<>>, pkg6 |-> <<>>, tcpChecksum |-> <<>>,
            ipTx |-> <<>>, mac0 |-> <<>>, mac1 |-> <<>>, mac2 |-> <<>>, mac3 |-> <<>>, mac4 |-> <<>>,
            arpReq |-> <<>>, arpRsp |-> <<>>, ipChecksum |-> <<>>, ethHeader |-> <<>>]
    /\ reg = [splitter |-> "META", pkg0 |-> NoWord, pseudo |-> [state |-> "META"], sums |-> <<>>, pkg3 |-> NoWord,
              check |-> 1, pkg5 |-> NoWord, ip |-> [state |-> "META"], metaWritten |-> FALSE, macFirst |-> TRUE,
              wordCount |-> 0, arp |-> "ARP", mac3 |-> NoWord, eth |-> "PARTIAL_HEADER"]
    /\ asked = 0
    /\ delivered = <<>>

MetaFifos == {"isLookUp", "ipMeta", "tcpMeta", "ipTuple", "tcpTuple", "tcpChecksum", "ipChecksum"}
DepthOf(fifo) == CASE fifo \in MetaFifos -> MetaDepth
                   [] fifo = "pkg2" -> PkgDepth
                   [] OTHER -> Depth
HasRoom(fifo) == Len(q[fifo]) < DepthOf(fifo)

-----------------------------------------------------------------------------
(* What is around these stages                                             *)

(* metaLoader hands over the next segment.                                 *)
MetaLoader ==
    /\ asked < Len(work)
    /\ \A fifo \in {"ipMeta", "tcpMeta", "isLookUp", "revReq", "shortCut"} : HasRoom(fifo)
    /\ LET s == asked + 1
           tupleFrom == IF work[s].lookup THEN "revReq" ELSE "shortCut"
       IN q' = [q EXCEPT !.ipMeta = Append(@, s), !.tcpMeta = Append(@, s), !.isLookUp = Append(@, work[s].lookup),
                         ![tupleFrom] = Append(@, s)]
    /\ asked' = asked + 1
    /\ UNCHANGED <<work, raw, reg, delivered>>

(* The session lookup answers with the tuple.                              *)
Lookup ==
    /\ q.revReq # <<>> /\ HasRoom("revRsp")
    /\ q' = Move("revReq", "revRsp", Head(q.revReq))
    /\ UNCHANGED <<work, raw, reg, asked, delivered>>

ReadData ==
    /\ raw # <<>> /\ HasRoom("pkg0")
    /\ q' = [q EXCEPT !.pkg0 = Append(@, Head(raw))]
    /\ raw' = Tail(raw)
    /\ UNCHANGED <<work, reg, asked, delivered>>

(* arp_server_subnet answers for the hop of a packet.                      *)
ArpTable ==
    /\ q.arpReq # <<>> /\ HasRoom("arpRsp")
    /\ LET hop == Head(q.arpReq) IN q' = Move("arpReq", "arpRsp", [hit |-> hop \in Known, hop |-> hop])
    /\ UNCHANGED <<work, raw, reg, asked, delivered>>

-----------------------------------------------------------------------------
(* tx_engine                                                               *)

(* tupleSplitter: the tuple of the next segment, from where it must come.  *)
SplitterMeta ==
    /\ reg.splitter = "META" /\ q.isLookUp # <<>>
    /\ reg' = [reg EXCEPT !.splitter = IF Head(q.isLookUp) THEN "revRsp" ELSE "shortCut"]
    /\ q' = [q EXCEPT !.isLookUp = Tail(@)]

SplitTuple ==
    /\ reg.splitter # "META" /\ q[reg.splitter] # <<>> /\ HasRoom("ipTuple") /\ HasRoom("tcpTuple")
    /\ LET tuple == Head(q[reg.splitter]) IN
         q' = [Move(reg.splitter, "ipTuple", tuple) EXCEPT !.tcpTuple = Append(@, tuple)]
    /\ reg' = [reg EXCEPT !.splitter = "META"]

(* pseudoHeaderConstruction: one header before each payload, or alone.     *)
PseudoMeta ==
    /\ reg.pseudo.state = "META" /\ q.tcpMeta # <<>> /\ q.tcpTuple # <<>>
    /\ reg' = [reg EXCEPT !.pseudo = [meta |-> Head(q.tcpMeta), tuple |-> Head(q.tcpTuple),
                                      state |-> IF HasBody(Head(q.tcpMeta)) THEN "PARTIAL_HEADER" ELSE "HEADER"]]
    /\ q' = [q EXCEPT !.tcpMeta = Tail(@), !.tcpTuple = Tail(@)]

PseudoHeader == Header("tcp", reg.pseudo.meta, reg.pseudo.tuple, Pseudo + Tcp)

(* Without a payload, the header and the options of a SYN are a word.      *)
PseudoAlone ==
    /\ reg.pseudo.state = "HEADER" /\ HasRoom("pkg1")
    /\ q' = [q EXCEPT !.pkg1 = Append(@, Word(PseudoHeader \o Options(reg.pseudo.meta, reg.pseudo.tuple), TRUE))]
    /\ reg' = [reg EXCEPT !.pseudo.state = "META"]

PseudoBody ==
    /\ reg.pseudo.state \in {"PARTIAL_HEADER", "BODY"} /\ q.shift2pseudo # <<>> /\ HasRoom("pkg1")
    /\ LET word == Head(q.shift2pseudo) IN
         /\ q' = Move("shift2pseudo", "pkg1", IF reg.pseudo.state = "BODY" THEN word ELSE Overwrite(PseudoHeader, word))
         /\ reg' = [reg EXCEPT !.pseudo.state = IF word.last THEN "META" ELSE "BODY"]

(* two_complement_subchecksums and finalize_ipv4_checksum: what is summed  *)
(* up, written when the packet is through.                                 *)
SumsGoOn(word) == reg.sums \o word.data
SumsAfter(word) == IF word.last THEN <<>> ELSE reg.sums \o word.data

SubChecksums ==
    /\ q.pkg1 # <<>> /\ HasRoom("pkg2") /\ (Head(q.pkg1).last => HasRoom("tcpChecksum"))
    /\ LET word == Head(q.pkg1)
           moved == Move("pkg1", "pkg2", word)
       IN /\ q' = IF word.last THEN [moved EXCEPT !.tcpChecksum = Append(@, reg.sums \o word.data)] ELSE moved
          /\ reg' = [reg EXCEPT !.sums = SumsAfter(word)]

(* remove_pseudo_header has nothing to remove but with 64 bits.            *)
RemovePseudoHeader ==
    /\ q.pkg2 # <<>> /\ HasRoom("pkg3")
    /\ q' = Move("pkg2", "pkg3", Head(q.pkg2))
    /\ UNCHANGED reg

(* insert_checksum: 16 bytes into the first word.                          *)
ChecksumUnit == 9
InsertChecksum ==
    /\ reg.check = 1 /\ q.tcpChecksum # <<>> /\ q.pkg4 # <<>> /\ HasRoom("pkg5")
    /\ LET word == Head(q.pkg4) IN
         /\ q' = [Move("pkg4", "pkg5", [word EXCEPT !.data[ChecksumUnit] = <<"sum", Head(q.tcpChecksum)>>])
                    EXCEPT !.tcpChecksum = Tail(@)]
         /\ reg' = [reg EXCEPT !.check = IF word.last THEN 1 ELSE 2]

AfterChecksum ==
    /\ reg.check = 2 /\ q.pkg4 # <<>> /\ HasRoom("pkg5")
    /\ q' = Move("pkg4", "pkg5", Head(q.pkg4))
    /\ reg' = [reg EXCEPT !.check = IF Head(q.pkg4).last THEN 1 ELSE 2]

(* generate_ipv4: the length is that of the segment, the addresses those   *)
(* of the tuple.                                                           *)
IpMeta ==
    /\ reg.ip.state = "META" /\ q.ipMeta # <<>> /\ q.ipTuple # <<>>
    /\ reg' = [reg EXCEPT !.ip = [state |-> "PARTIAL_HEADER", meta |-> Head(q.ipMeta), tuple |-> Head(q.ipTuple)]]
    /\ q' = [q EXCEPT !.ipMeta = Tail(@), !.ipTuple = Tail(@)]

IpBody ==
    /\ reg.ip.state \in {"PARTIAL_HEADER", "BODY"} /\ q.pkg6 # <<>> /\ HasRoom("ipTx")
    /\ LET word == Head(q.pkg6)
           header == Header("ip", reg.ip.meta, reg.ip.tuple, Ip)
       IN /\ q' = Move("pkg6", "ipTx", IF reg.ip.state = "BODY" THEN word ELSE Overwrite(header, word))
          /\ reg' = [reg EXCEPT !.ip.state = IF word.last THEN "META" ELSE "BODY"]

-----------------------------------------------------------------------------
(* mac_ip_encode                                                           *)

(* extract_ip_address: one request to the ARP table for each packet.  The  *)
(* address is at the end of the IP header.                                 *)
HopIn(word) == work[word.data[Ip][3]].hop

ExtractIpAddress ==
    /\ q.ipTx # <<>> /\ HasRoom("mac0") /\ (reg.metaWritten \/ HasRoom("arpReq"))
    /\ LET word == Head(q.ipTx)
           moved == Move("ipTx", "mac0", word)
       IN /\ q' = IF reg.metaWritten THEN moved ELSE [moved EXCEPT !.arpReq = Append(@, HopIn(word))]
          /\ reg' = [reg EXCEPT !.metaWritten = ~word.last]

(* mac_compute_ipv4_checksum, mac_finalize_ipv4_checksum: the header,      *)
(* without the checksum.                                                   *)
IpChecksumUnit == 6
IpSummed(header) == First(IpChecksumUnit - 1, header) \o Rest(IpChecksumUnit, header)

ComputeIpChecksum ==
    /\ q.mac0 # <<>> /\ HasRoom("mac1") /\ (reg.macFirst => HasRoom("ipChecksum"))
    /\ LET word == Head(q.mac0)
           moved == Move("mac0", "mac1", word)
       IN /\ q' = IF reg.macFirst THEN [moved EXCEPT !.ipChecksum = Append(@, IpSummed(First(Ip, word.data)))] ELSE moved
          /\ reg' = [reg EXCEPT !.macFirst = word.last]

(* insert_ip_checksum; wordCount stays at 2 or more for the rest.          *)
InsertIpChecksum ==
    /\ q.mac1 # <<>> /\ HasRoom("mac2")
    /\ LET word == Head(q.mac1) IN
         /\ \/ /\ reg.wordCount = 0 /\ q.ipChecksum # <<>>
               /\ q' = [Move("mac1", "mac2", [word EXCEPT !.data[IpChecksumUnit] = <<"sum", Head(q.ipChecksum)>>])
                          EXCEPT !.ipChecksum = Tail(@)]
            \/ /\ reg.wordCount # 0
               /\ q' = Move("mac1", "mac2", word)
         /\ reg' = [reg EXCEPT !.wordCount = IF word.last THEN 0 ELSE Least(@ + 1, 2)]

(* handle_arp_reply: a packet with an unknown hop is read to its end.      *)
HandleArpReply ==
    /\ reg.arp = "ARP" /\ q.arpRsp # <<>> /\ q.mac2 # <<>> /\ HasRoom("ethHeader") /\ HasRoom("mac3")
    /\ LET reply == Head(q.arpRsp)
           word == Head(q.mac2)
           taken == [q EXCEPT !.arpRsp = Tail(@), !.mac2 = Tail(@)]
       IN /\ q' = IF reply.hit THEN [taken EXCEPT !.ethHeader = Append(@, reply.hop), !.mac3 = Append(@, word)] ELSE taken
          /\ reg' = [reg EXCEPT !.arp = IF word.last THEN "ARP" ELSE IF reply.hit THEN "FWD" ELSE "DROP"]

ForwardOrDrop ==
    /\ reg.arp # "ARP" /\ q.mac2 # <<>> /\ HasRoom("mac3")
    /\ LET word == Head(q.mac2) IN
         /\ q' = IF reg.arp = "FWD" THEN Move("mac2", "mac3", word) ELSE [q EXCEPT !.mac2 = Tail(@)]
         /\ reg' = [reg EXCEPT !.arp = IF word.last THEN "ARP" ELSE @]

(* mac_lshiftWordByOctet: room for the Ethernet header.                    *)
MacLeftShift == HasRoom("mac4") /\ LeftShift("mac3", "mac4", Eth)

(* insert_ethernet_header                                                  *)
InsertEthernetHeader ==
    /\ q.mac4 # <<>>
    /\ LET word == Head(q.mac4) IN
         /\ \/ /\ reg.eth = "PARTIAL_HEADER" /\ q.ethHeader # <<>>
               /\ delivered' = Append(delivered, Overwrite(Header("eth", Head(q.ethHeader), 0, Eth), word))
               /\ q' = [q EXCEPT !.mac4 = Tail(@), !.ethHeader = Tail(@)]
            \/ /\ reg.eth = "BODY"
               /\ delivered' = Append(delivered, word)
               /\ q' = [q EXCEPT !.mac4 = Tail(@)]
         /\ reg' = [reg EXCEPT !.eth = IF word.last THEN "PARTIAL_HEADER" ELSE "BODY"]

-----------------------------------------------------------------------------

TxEngine ==
    \/ SplitterMeta \/ SplitTuple
    \/ HasRoom("shift2pseudo") /\ LeftShift("pkg0", "shift2pseudo", Pseudo + Tcp)
    \/ PseudoMeta \/ PseudoAlone \/ PseudoBody
    \/ SubChecksums \/ RemovePseudoHeader
    \/ HasRoom("pkg4") /\ RightShift("pkg3", "pkg4", Pseudo)
    \/ InsertChecksum \/ AfterChecksum
    \/ HasRoom("pkg6") /\ LeftShift("pkg5", "pkg6", Ip)
    \/ IpMeta \/ IpBody

MacIpEncode ==
    \/ ExtractIpAddress \/ ComputeIpChecksum \/ InsertIpChecksum \/ HandleArpReply \/ ForwardOrDrop
    \/ MacLeftShift

Next ==
    \/ MetaLoader \/ Lookup \/ ReadData \/ ArpTable
    \/ (TxEngine \/ MacIpEncode) /\ UNCHANGED <<work, raw, asked, delivered>>
    \/ InsertEthernetHeader /\ UNCHANGED <<work, raw, asked>>

(* No stage waits but for its FIFOs: as long as one can go on, one does.   *)
Spec == Init /\ [][Next]_vars /\ WF_vars(Next)

-----------------------------------------------------------------------------

Replace(header, unit, value) == [header EXCEPT ![unit] = value]

(* The frame of a segment: each part is its own, the checksums are over    *)
(* what they must be.                                                      *)
FrameOf(s) ==
    LET ip == Header("ip", s, s, Ip)
        pseudoAndTcp == Header("tcp", s, s, Pseudo + Tcp)
        rest == Options(s, s) \o Payload(s)
    IN Header("eth", work[s].hop, 0, Eth)
         \o Replace(ip, IpChecksumUnit, <<"sum", IpSummed(ip)>>)
         \o Replace(Rest(Pseudo, pseudoAndTcp), ChecksumUnit, <<"sum", pseudoAndTcp \o rest>>)
         \o rest

Expected == FlattenSeq([s \in DOMAIN work |-> IF work[s].hop \in Known THEN Words(FrameOf(s)) ELSE <<>>])

(* The frames on the wire are those of the segments with a known hop, in   *)
(* their order, word for word.                                             *)
FramesAreWhole == IsPrefix(delivered, Expected)

(* In the end all are sent.                                                *)
Finished == delivered = Expected
AllAreSent == <>Finished

=============================================================================
