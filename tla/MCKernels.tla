------------------------------- MODULE MCKernels -------------------------------
(***************************************************************************)
(* The kernels above the toe - the echo kernel of this repository, the all *)
(* reduce of the library and the iperf client -, and below it the address  *)
(* resolution, the DHCP client and the stages of packets, each on its own  *)
(* small instance.                                                         *)
(* Nothing is shared: turn, chosen once, says which of them a behaviour is *)
(* about.                                                                  *)
(***************************************************************************)
EXTENDS AllReduce, EchoService, MCClients

CONSTANTS Lan, Wan

VARIABLES
    work, raw, q, reg, told, delivered, stage,
    notifQ, rxMetaQ, rxQ, txQ, txMetaQ, statusQ, hold, readQ, storeQ, grantedQ, dataQ, open,
    macReq, macRsp, packets, hostReq, hostRsp, insertQ, requestQ, replyQ, arpTable, arpOut, arpIn, frames, lost, asked,
    turn

echoVars == <<notifQ, rxMetaQ, rxQ, txQ, txMetaQ, statusQ, hold, readQ, storeQ, grantedQ, dataQ, open, sent, echoed>>
arpVars == <<macReq, macRsp, packets, hostReq, hostRsp, insertQ, requestQ, replyQ, arpTable, arpOut, arpIn, frames, lost, asked>>
streamVars == <<work, raw, q, reg, told, delivered>>
allVars == <<vars, echoVars, iperfVars, arpVars, dhcpVars, streamVars, stage, turn>>

(* Packets of one word of all clients at once, and packets of two words    *)
(* one at a time.                                                          *)
Short == INSTANCE EchoKernel WITH
    Lengths <- {1}, Outstanding <- 3,
    EarlyClose <- FALSE, Room <- TRUE, Depth <- 4, MaxPackets <- 2
Long == INSTANCE EchoKernel WITH
    Lengths <- {1, 2}, Outstanding <- 1,
    EarlyClose <- FALSE, Room <- TRUE, Depth <- 4, MaxPackets <- 2

(* A station beside the gateway and one far away, with the same last     *)
(* octet.                                                                  *)
Arp == INSTANCE ArpServer WITH
    Me <- <<Lan, 1>>, Subnet <- {<<Lan, 2>>, <<Lan, 3>>}, Gateway <- <<Lan, 2>>,
    Destinations <- {<<Lan, 3>>, <<Wan, 3>>}, Depth <- 1, MaxEdge <- 1

-----------------------------------------------------------------------------
(* The stages that packets go through on their way in and out, each for    *)
(* some short sequences of packets; stage says which of them a behaviour is*)
(* about.  A header of 512 bits, 64 bytes, is one word, or one unit of a   *)
(* word.                                                                   *)

Frame(ether, protocol, mine, intact, len, pad) ==
    [ether |-> ether, protocol |-> protocol, mine |-> mine, intact |-> intact, len |-> len, pad |-> pad]
Mine(protocol, len, pad) == Frame("IPv4", protocol, TRUE, TRUE, len, pad)
Six(protocol) == Frame("IPv6", protocol, TRUE, TRUE, 4, 0)
Damaged == Frame("IPv4", "TCP", TRUE, FALSE, 5, 0)
NotMine == Frame("IPv4", "UDP", FALSE, TRUE, 3, 0)
ArpFrame == Frame("ARP", "none", TRUE, TRUE, 2, 1)
Vlan == Frame("VLAN", "none", TRUE, TRUE, 5, 0)

IpIn == INSTANCE IpHandler WITH
    Width <- 4, EthHeader <- 1, Depth <- 1,
    Workloads <- {<<Damaged, Mine("TCP", 2, 1), Mine("UDP", 4, 0)>>,
                  <<Mine("IGMP", 4, 0), Mine("TCP", 5, 0), Mine("ICMP", 3, 0)>>,
                  <<Six("UDP"), NotMine, Mine("TCP", 4, 0)>>,
                  <<ArpFrame, Vlan, Six("ICMPv6")>>}

(* A request with the sum of its data, and other packets.                  *)
Echo(request, intact, len, value) == [request |-> request, intact |-> intact, len |-> len, value |-> value]
Ping(len, value) == Echo(TRUE, TRUE, len, value)
Unheard(len, value) == Echo(FALSE, TRUE, len, value)

Icmp == INSTANCE IcmpServer WITH
    Width <- 4, PkgDepth <- 5, Depth <- 2,
    Workloads <- {
        [dataIn |-> <<Ping(16, 65535), Echo(TRUE, FALSE, 14, 5), Ping(18, 65530)>>, udpIn |-> <<>>, ttlIn |-> <<>>],
        [dataIn |-> <<Ping(14, 0)>>, udpIn |-> <<Unheard(14, 65535)>>, ttlIn |-> <<Unheard(16, 65535)>>],
        [dataIn |-> <<Echo(FALSE, TRUE, 15, 5)>>, udpIn |-> <<Unheard(14, 257), Unheard(17, 32768)>>, ttlIn |-> <<>>]}

(* Segments with and without payload, to three hops, of which ARP knows two*)
Segment(len, syn, lookup, hop) == [len |-> len, syn |-> syn, lookup |-> lookup, hop |-> hop]
Bytes(len) == Segment(len, FALSE, TRUE, 1)
Rst == Segment(0, FALSE, FALSE, 2)

TxOut == INSTANCE TxHeader WITH
    Width <- 32, Depth <- 1, MetaDepth <- 2, PkgDepth <- 2, Eth <- 7, Ip <- 10, Pseudo <- 6, Tcp <- 10,
    Known <- {1, 2}, asked <- told,
    Workloads <- {<<Segment(2, TRUE, TRUE, 1), Bytes(30)>>, <<Bytes(20), Rst>>,
                  <<Segment(20, FALSE, TRUE, 3), Segment(4, TRUE, TRUE, 1)>>, <<Rst, Bytes(16)>>}

(* Packets with the options of usual systems.                              *)
Option(kind, length) == [kind |-> kind, length |-> length]
Nop == Option(1, 1)
Mss == Option(2, 4)
Scale == Option(3, 3)
Linux == <<Mss, Option(4, 2), Option(8, 10), Nop, Scale>>
Windows == <<Mss, Nop, Scale, Nop, Nop, Option(4, 2)>>
Stamps == <<Nop, Nop, Option(8, 10)>>

Packet(intact, syn, options, len) == [intact |-> intact, syn |-> syn, options |-> options, len |-> len, ihl |-> 5]
Syn(options) == Packet(TRUE, TRUE, options, 0)
Data(options, len) == Packet(TRUE, FALSE, options, len)

RxIn == INSTANCE RxHeader WITH
    Width <- 32, Depth <- 1, WordDepth <- 1, PkgDepth <- 3, Ip <- 10, Pseudo <- 6, Tcp <- 10, asked <- told,
    Workloads <- {<<Syn(Linux), Data(Stamps, 20)>>, <<Data(<<>>, 30), Syn(<<Mss>>)>>,
                  <<Packet(FALSE, FALSE, <<>>, 16), Syn(Windows)>>,
                  <<Data(Stamps, 0), Data(<<>>, 12)>>, <<Syn(<<>>), Data(<<>>, 16)>>}

(* Messages of the RoCE transport, whole or damaged, and other packets.    *)
Roce(roce, intact, len) == [roce |-> roce, intact |-> intact, len |-> len]
Whole(len) == Roce(TRUE, TRUE, len)
Wrong(len) == Roce(TRUE, FALSE, len)
Foreign(len) == Roce(FALSE, TRUE, len)

RoceWay == INSTANCE RocePath WITH
    Width <- 32, Depth <- 1, PkgDepth <- 3, Ip <- 10, Udp <- 4, asked <- told,
    Workloads <- {<<Whole(10), Foreign(20)>>, <<Wrong(16), Whole(40)>>, <<Foreign(33), Wrong(18)>>,
                  <<Whole(6), Whole(18)>>, <<Whole(50), Foreign(7)>>}

-----------------------------------------------------------------------------

StreamInit ==
    \/ stage = "none" /\ work = <<>> /\ raw = <<>> /\ q = <<>> /\ reg = <<>> /\ told = <<>> /\ delivered = <<>>
    \/ stage = "ip" /\ IpIn!Init /\ told = <<>>
    \/ stage = "icmp" /\ Icmp!Init /\ told = <<>>
    \/ stage = "tx" /\ TxOut!Init
    \/ stage = "rx" /\ RxIn!Init
    \/ stage = "roce" /\ RoceWay!Init

StreamNext ==
    /\ \/ stage = "ip" /\ IpIn!Next /\ UNCHANGED told
       \/ stage = "icmp" /\ Icmp!Next /\ UNCHANGED told
       \/ stage = "tx" /\ TxOut!Next
       \/ stage = "rx" /\ RxIn!Next
       \/ stage = "roce" /\ RoceWay!Next
    /\ UNCHANGED stage

(* Whatever stage a packet goes through, it comes out whole, with its own  *)
(* headers, checksums and addresses, where it belongs and in its turn.     *)
StreamsAreWhole ==
    CASE stage = "ip" -> IpIn!PacketsReachTheirProtocol
      [] stage = "icmp" -> Icmp!RepliesAreRight
      [] stage = "tx" -> TxOut!FramesAreWhole
      [] stage = "rx" -> RxIn!PacketsAreTakenApart
      [] stage = "roce" -> RoceWay!PacketsAreCarried
      [] OTHER -> TRUE

(* All packets are through.                                                *)
AllAreThrough ==
    CASE stage = "ip" -> IpIn!Finished
      [] stage = "icmp" -> Icmp!Finished
      [] stage = "tx" -> TxOut!Finished
      [] stage = "rx" -> RxIn!Finished
      [] stage = "roce" -> RoceWay!Finished
      [] OTHER -> TRUE

-----------------------------------------------------------------------------

MCInit ==
    /\ Init /\ Short!Init /\ ClientsInit /\ Arp!Init /\ StreamInit
    /\ turn \in IF stage = "none" THEN {"reduce", "short", "long", "iperf", "arp", "dhcp"} ELSE {"stream"}

InReduce(A) == turn = "reduce" /\ A /\ UNCHANGED <<echoVars, iperfVars, arpVars, dhcpVars, streamVars, stage, turn>>
InShort(A) == turn = "short" /\ A /\ UNCHANGED <<vars, iperfVars, arpVars, dhcpVars, streamVars, stage, turn>>
InLong(A) == turn = "long" /\ A /\ UNCHANGED <<vars, iperfVars, arpVars, dhcpVars, streamVars, stage, turn>>
InIperf(A) == turn = "iperf" /\ A /\ UNCHANGED <<vars, echoVars, arpVars, dhcpVars, streamVars, stage, turn>>
InArp(A) == turn = "arp" /\ A /\ UNCHANGED <<vars, echoVars, iperfVars, dhcpVars, streamVars, stage, turn>>
InDhcp(A) == turn = "dhcp" /\ A /\ UNCHANGED <<vars, echoVars, iperfVars, arpVars, streamVars, stage, turn>>
InStream == turn = "stream" /\ StreamNext /\ UNCHANGED <<vars, echoVars, iperfVars, arpVars, dhcpVars, turn>>

MCNext == InReduce(Next) \/ InShort(Short!Next) \/ InLong(Long!Next) \/ InIperf(Iperf!Next) \/ InArp(Arp!Next)
          \/ InDhcp(Dhcp!Next) \/ InStream

(* As turn never changes, fairness of a disjunction over different turns   *)
(* is fairness of each disjunct; and as only the step itself disables      *)
(* Arrives, strong fairness of it is no more than weak.  The port of the   *)
(* DHCP client is opened before any time-out.                              *)
InEcho(A, B) == InShort(A) \/ InLong(B)

Arrives(c) == c < UseConn /\ \E length \in 1 .. ExpWords : Arrive(c, length)

MCFairness ==
    /\ WF_allVars(InReduce(Gather) \/ InEcho(Short!Clock, Long!Clock) \/ InIperf(Iperf!Client) \/ InArp(Arp!HandleArpReply))
    /\ WF_allVars(InReduce(ConsumeWord) \/ InEcho(Short!ToeDeliver, Long!ToeDeliver) \/ InIperf(Iperf!TimeIsOver) \/ InArp(Arp!ArpTable))
    /\ WF_allVars(InReduce(SplitWord) \/ InEcho(Short!ToeAnswer, Long!ToeAnswer) \/ InIperf(Iperf!ToeOpens) \/ InArp(Arp!ProcessArp))
    /\ WF_allVars(InReduce(SumWord) \/ InEcho(Short!ToeTake, Long!ToeTake) \/ InIperf(Iperf!ToeAnswers) \/ InArp(Arp!GenerateArp))
    /\ WF_allVars(InReduce(DuplicateWord) \/ InIperf(Iperf!ToeTakes) \/ InArp(Arp!ExtractIp(<<Lan, 3>>)) \/ InDhcp(Dhcp!ClientHears))
    /\ WF_allVars(InReduce(Broadcast) \/ InArp(Arp!ExtractIp(<<Wan, 3>>)))
    /\ WF_allVars(InReduce(ToeRead) \/ InArp(Arp!HostTakes) \/ InDhcp(Dhcp!ServerAnswers))
    /\ WF_allVars(InReduce(ToeAnswer) \/ InStream \/ InDhcp(Dhcp!OpenPort \/ Dhcp!PortAnswer \/ Dhcp!TimeOut))
    /\ WF_allVars(InReduce(ToeTake) \/ InDhcp(Dhcp!Fsm))
    /\ WF_allVars(InReduce(Arrives(0)) \/ InDhcp(Dhcp!SendMessage))
    /\ SF_allVars(InReduce(Arrives(1)) \/ InArp(Arp!Deliver))

MCSpec == MCInit /\ [][MCNext]_allVars /\ MCFairness

-----------------------------------------------------------------------------

(* Every packet stays whole and its own in whatever stage it goes through, *)
(* and goes to its own next hop.                                           *)
EachPacketIsItself == StreamsAreWhole /\ Arp!FramesGoToTheirHop

(* Each of them comes to its end: packets are echoed, sums are sent, the   *)
(* experiment ends, the next hop and an address are found, packets are     *)
(* through - time and again, as packets and experiments may be more than   *)
(* one.  Only the echo kernel tells clients apart; one formula for all     *)
(* keeps their number, which TLC's time grows with, small.                 *)
HasEnded(c) ==
    CASE turn \in {"short", "long"} -> echoed[c] = sent[c] \/ c \notin open
      [] turn = "iperf" -> state = "IDLE"
      [] turn = "dhcp" -> Dhcp!Finished
      [] turn = "reduce" -> AllSumsAreSent
      [] turn = "arp" -> Arp!AllHopsFound
      [] turn = "stream" -> AllAreThrough
AllComeToAnEnd == \A c \in Clients : []<>HasEnded(c)

=============================================================================
