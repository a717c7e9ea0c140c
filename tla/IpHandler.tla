------------------------------ MODULE IpHandler ------------------------------
(***************************************************************************)
(* ip_handler, the first stage of the receive path: it tells the frames    *)
(* apart by their type, takes the Ethernet header off, drops IP packets    *)
(* with a wrong checksum or for another station, cuts the padding and hands*)
(* each packet to its protocol.  What the stages find out about a packet   *)
(* travels beside its words, in FIFOs of its own.                          *)
(*                                                                         *)
(* A unit is a byte, <<frame, position>>.  As in the build with 512 bits, a*)
(* header is in the first word.                                            *)
(***************************************************************************)
EXTENDS AxiStream

CONSTANTS
    Workloads,  \* sequences of frames
    EthHeader,  \* ETH_HEADER_SIZE / 8
    Depth       \* of the FIFOs with depth 2

VARIABLES
    work,       \* one of Workloads: what the frames are
    raw,        \* s_axis_raw: words still to come
    delivered   \* what each protocol was given: Seq(words)

vars == <<work, raw, q, reg, delivered>>

(* A frame with a packet of len bytes and pad bytes of padding: for this   *)
(* station or not, with the right checksum of its header or not.           *)
Frame(ether, protocol, mine, intact, len, pad) ==
    [ether |-> ether, protocol |-> protocol, mine |-> mine, intact |-> intact, len |-> len, pad |-> pad]

FrameBytes(f) == EthHeader + work[f].len + work[f].pad
WordsOf(f) == Words([b \in 1 .. FrameBytes(f) |-> <<f, b>>])

(* The header fields that a stage finds in a word, the first of a frame.   *)
HeaderIn(word) == work[word.data[1][1]]

Outputs == {"ARP", "ICMPv6", "IPv6UDP", "ICMP", "UDP", "TCP", "ROCE"}

Init ==
    /\ work \in Workloads
    /\ raw = FlattenSeq([f \in DOMAIN work |-> WordsOf(f)])
    /\ q = [etherType |-> <<>>, ethData |-> <<>>, ipv4Shift |-> <<>>, ipv6Shift |-> <<>>, ipData |-> <<>>,
            ipv6Data |-> <<>>, ipDataMeta |-> <<>>, protocol |-> <<>>, validIpAddress |-> <<>>, ipDataCheck |-> <<>>,
            subSums |-> <<>>, validChecksum |-> <<>>, ipDataDrop |-> <<>>, ipv4Valid |-> <<>>, ipDataCut |-> <<>>]
    /\ reg = [ethWritten |-> FALSE, route |-> "none", ipv4Shift |-> NoWord, ipv6Shift |-> NoWord,
              metaWritten |-> FALSE, firstWord |-> TRUE, dropper |-> "GET_VALID", cut |-> "FIRST",
              ipv4 |-> "META", ipv6 |-> "none"]
    /\ delivered = [p \in Outputs |-> <<>>]

(* The depths of the FIFOs that hold what is known of a packet.            *)
DepthOf(fifo) == CASE fifo \in {"protocol", "validIpAddress", "ipv4Valid", "ipDataCheck"} -> 4 * Depth
                   [] fifo \in {"ethData", "validChecksum"} -> 2 * Depth
                   [] OTHER -> Depth
HasRoom(fifo) == Len(q[fifo]) < DepthOf(fifo)

-----------------------------------------------------------------------------
(* detect_eth_protocol: the type of a frame, once.                         *)
DetectEth ==
    /\ raw # <<>> /\ HasRoom("ethData") /\ (reg.ethWritten \/ HasRoom("etherType"))
    /\ LET word == Head(raw) IN
         /\ q' = [q EXCEPT !.ethData = Append(@, word),
                           !.etherType = IF reg.ethWritten THEN @ ELSE Append(@, HeaderIn(word).ether)]
         /\ reg' = [reg EXCEPT !.ethWritten = ~word.last]
    /\ raw' = Tail(raw)
    /\ UNCHANGED <<work, delivered>>

(* route_by_eth_protocol: the words of a frame of another type go nowhere. *)
RouteWord(type, word) ==
    CASE type = "ARP" -> delivered' = [delivered EXCEPT !.ARP = Append(@, word)] /\ q' = [q EXCEPT !.ethData = Tail(@)]
      [] type = "IPv4" -> q' = [q EXCEPT !.ethData = Tail(@), !.ipv4Shift = Append(@, word)] /\ UNCHANGED delivered
      [] type = "IPv6" -> q' = [q EXCEPT !.ethData = Tail(@), !.ipv6Shift = Append(@, word)] /\ UNCHANGED delivered
      [] OTHER -> q' = [q EXCEPT !.ethData = Tail(@)] /\ UNCHANGED delivered

Route ==
    /\ q.ethData # <<>>
    /\ reg.route = "IPv4" => HasRoom("ipv4Shift")
    /\ reg.route = "IPv6" => HasRoom("ipv6Shift")
    /\ reg.route # "none"
    /\ RouteWord(reg.route, Head(q.ethData))
    /\ reg' = [reg EXCEPT !.route = IF Head(q.ethData).last THEN "none" ELSE @]
    /\ UNCHANGED <<work, raw>>

RouteFirst ==
    /\ q.ethData # <<>> /\ q.etherType # <<>> /\ reg.route = "none"
    /\ reg' = [reg EXCEPT !.route = Head(q.etherType)]
    /\ q' = [q EXCEPT !.etherType = Tail(@)]
    /\ UNCHANGED <<work, raw, delivered>>

(* ip_handler_rshiftWordByOctet, by the length of the Ethernet header.     *)
Shift(from, to) ==
    /\ HasRoom(to) /\ RightShift(from, to, EthHeader)
    /\ UNCHANGED <<work, raw, delivered>>

(* extract_ip_meta: the protocol, and whether the packet is for this       *)
(* station or for all.                                                     *)
ExtractMeta ==
    /\ q.ipData # <<>> /\ HasRoom("ipDataMeta")
    /\ reg.metaWritten \/ (HasRoom("protocol") /\ HasRoom("validIpAddress"))
    /\ LET word == Head(q.ipData)
           Once(fifo, x) == IF reg.metaWritten THEN fifo ELSE Append(fifo, x)
       IN /\ q' = [q EXCEPT !.ipData = Tail(@), !.ipDataMeta = Append(@, word),
                            !.protocol = Once(@, HeaderIn(word).protocol),
                            !.validIpAddress = Once(@, HeaderIn(word).mine)]
          /\ reg' = [reg EXCEPT !.metaWritten = ~word.last]
    /\ UNCHANGED <<work, raw, delivered>>

(* ip_handler_compute_ipv4_checksum and ip_handler_check_ipv4_checksum: the*)
(* sums of the header in a packet's first word, and whether they add up.   *)
ComputeChecksum ==
    /\ q.ipDataMeta # <<>> /\ HasRoom("ipDataCheck") /\ (reg.firstWord => HasRoom("subSums"))
    /\ LET word == Head(q.ipDataMeta) IN
         /\ q' = [q EXCEPT !.ipDataMeta = Tail(@), !.ipDataCheck = Append(@, word),
                           !.subSums = IF reg.firstWord THEN Append(@, HeaderIn(word).intact) ELSE @]
         /\ reg' = [reg EXCEPT !.firstWord = word.last]
    /\ UNCHANGED <<work, raw, delivered>>

CheckChecksum ==
    /\ q.subSums # <<>> /\ HasRoom("validChecksum")
    /\ q' = [q EXCEPT !.subSums = Tail(@), !.validChecksum = Append(@, Head(q.subSums))]
    /\ UNCHANGED <<work, raw, reg, delivered>>

(* ip_invalid_dropper                                                      *)
GetValid ==
    /\ reg.dropper = "GET_VALID" /\ q.validChecksum # <<>> /\ q.validIpAddress # <<>> /\ HasRoom("ipv4Valid")
    /\ LET valid == Head(q.validChecksum) /\ Head(q.validIpAddress) IN
         /\ reg' = [reg EXCEPT !.dropper = IF valid THEN "FWD" ELSE "DROP"]
         /\ q' = [q EXCEPT !.validChecksum = Tail(@), !.validIpAddress = Tail(@), !.ipv4Valid = Append(@, valid)]
    /\ UNCHANGED <<work, raw, delivered>>

DropOrForward ==
    /\ reg.dropper # "GET_VALID" /\ q.ipDataCheck # <<>>
    /\ reg.dropper = "FWD" => HasRoom("ipDataDrop")
    /\ LET word == Head(q.ipDataCheck) IN
         /\ q' = [q EXCEPT !.ipDataCheck = Tail(@), !.ipDataDrop = IF reg.dropper = "FWD" THEN Append(@, word) ELSE @]
         /\ reg' = [reg EXCEPT !.dropper = IF word.last THEN "GET_VALID" ELSE @]
    /\ UNCHANGED <<work, raw, delivered>>

(* cut_length for 512 bits: only a packet of one word can be padded.  The  *)
(* length is taken modulo the width of a word, 0 being a full one.         *)
KeptPadded(word, len) == word
Kept(word, len) ==
    LET rest == len % Width
    IN [word EXCEPT !.data = SubSeq(@, 1, IF rest = 0 THEN Len(@) ELSE Least(rest, Len(@)))]

CutLength ==
    /\ q.ipDataDrop # <<>> /\ HasRoom("ipDataCut")
    /\ LET word == Head(q.ipDataDrop)
           sent == IF reg.cut = "FIRST" /\ word.last THEN Kept(word, HeaderIn(word).len) ELSE word
       IN /\ q' = [q EXCEPT !.ipDataDrop = Tail(@), !.ipDataCut = Append(@, sent)]
          /\ reg' = [reg EXCEPT !.cut = IF word.last THEN "FIRST" ELSE "REST"]
    /\ UNCHANGED <<work, raw, delivered>>

(* detect_ipv4_protocol.  A packet of another protocol is read to its end. *)
(* ip_handler_duplicate_stream gives UDP packets to RoCE, too.             *)
ProtocolMeta ==
    /\ reg.ipv4 = "META" /\ q.protocol # <<>> /\ q.ipv4Valid # <<>>
    /\ reg' = [reg EXCEPT !.ipv4 = IF Head(q.ipv4Valid) THEN Head(q.protocol) ELSE @]
    /\ q' = [q EXCEPT !.protocol = Tail(@), !.ipv4Valid = Tail(@)]
    /\ UNCHANGED <<work, raw, delivered>>

Deliver(protocol, word) ==
    [p \in Outputs |-> IF p = protocol \/ (p = "ROCE" /\ protocol = "UDP") THEN Append(delivered[p], word) ELSE delivered[p]]

ProtocolData ==
    /\ reg.ipv4 # "META" /\ q.ipDataCut # <<>>
    /\ LET word == Head(q.ipDataCut) IN
         /\ delivered' = Deliver(reg.ipv4, word)
         /\ reg' = [reg EXCEPT !.ipv4 = IF word.last THEN "META" ELSE @]
    /\ q' = [q EXCEPT !.ipDataCut = Tail(@)]
    /\ UNCHANGED <<work, raw>>

(* detect_ipv6_protocol: nothing is checked.                               *)
DetectIpv6 ==
    /\ q.ipv6Data # <<>>
    /\ LET word == Head(q.ipv6Data)
           header == IF reg.ipv6 = "none" THEN HeaderIn(word).protocol ELSE reg.ipv6
       IN /\ delivered' = Deliver(IF header = "UDP" THEN "IPv6UDP" ELSE header, word)
          /\ reg' = [reg EXCEPT !.ipv6 = IF word.last THEN "none" ELSE header]
    /\ q' = [q EXCEPT !.ipv6Data = Tail(@)]
    /\ UNCHANGED <<work, raw>>

-----------------------------------------------------------------------------

Next ==
    \/ DetectEth \/ RouteFirst \/ Route
    \/ Shift("ipv4Shift", "ipData") \/ Shift("ipv6Shift", "ipv6Data")
    \/ ExtractMeta \/ ComputeChecksum \/ CheckChecksum \/ GetValid \/ DropOrForward
    \/ CutLength \/ ProtocolMeta \/ ProtocolData \/ DetectIpv6

(* No process waits for another but by its FIFOs, so that each of them     *)
(* runs as long as any can.                                                *)
Fairness == WF_vars(Next)

Spec == Init /\ [][Next]_vars /\ Fairness

-----------------------------------------------------------------------------

(* The packet of a frame, without its Ethernet header and padding.  ARP    *)
(* packets are handed over as whole frames.                                *)
PacketOf(f) ==
    CASE work[f].ether = "ARP" -> [b \in 1 .. FrameBytes(f) |-> <<f, b>>]
      [] work[f].ether = "IPv6" -> [b \in 1 .. work[f].len + work[f].pad |-> <<f, EthHeader + b>>]
      [] OTHER -> [b \in 1 .. work[f].len |-> <<f, EthHeader + b>>]

GoesTo(f, p) ==
    CASE work[f].ether = "ARP" -> p = "ARP"
      [] work[f].ether = "IPv6" -> p = (IF work[f].protocol = "UDP" THEN "IPv6UDP" ELSE work[f].protocol)
      [] work[f].ether = "IPv4" ->
           work[f].mine /\ work[f].intact /\ (work[f].protocol = p \/ (p = "ROCE" /\ work[f].protocol = "UDP"))
      [] OTHER -> FALSE

Expected(p) == FlattenSeq([f \in DOMAIN work |-> IF GoesTo(f, p) THEN PacketOf(f) ELSE <<>>])
Delivered(p) == Units(delivered[p])

(* Each protocol is given the packets meant for it, whole, in their order  *)
(* and nothing else: what is known of a packet never meets another one.    *)
PacketsReachTheirProtocol == \A p \in Outputs : IsPrefix(Delivered(p), Expected(p))

(* In the end it has been given all of them.                               *)
Finished == \A p \in Outputs : Delivered(p) = Expected(p)
AllFramesAreHandled == <>Finished

=============================================================================
