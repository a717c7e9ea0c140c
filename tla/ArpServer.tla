------------------------------ MODULE ArpServer ------------------------------
(***************************************************************************)
(* The way of an IP packet to its next hop: mac_ip_encode asks             *)
(* arp_server_subnet for the MAC address of the hop, sends the packet if   *)
(* the table has one and drops it if not; the server then asks the subnet. *)
(* An address is a pair whose second component is bits 31 to 24, the last  *)
(* octet, by which the table is addressed.  A MAC address is named by the  *)
(* IP address of its owner.  ARP frames may be lost.                       *)
(***************************************************************************)
EXTENDS Integers, Sequences, FiniteSets

CONSTANTS
    Me,             \* myIpAddress
    Subnet,         \* the other addresses regSubNetMask puts beside the gateway
    Gateway,        \* regDefaultGateway
    Destinations,   \* of the packets of the layers above
    Depth,          \* of the FIFOs (4)
    MaxEdge         \* bound: ARP frames lost, and what stations and the host ask

(* The gateway is in Subnet and Me is not.  The last octet tells the       *)
(* addresses of Subnet apart, as with a mask of 24 bits or more.           *)

VARIABLES
    macReq, macRsp, packets,    \* mac_ip_encode: lookups, answers, packets that wait for them
    hostReq, hostRsp,           \* the second port of the table
    insertQ, requestQ, replyQ,  \* arpTableInsertFifo, arpRequestMetaFifo, arpReplyMetaFifo
    arpTable,
    arpOut, arpIn,              \* ARP frames
    frames,                     \* packets sent: [dst, mac]
    lost, asked

macVars == <<macReq, macRsp, packets>>
hostVars == <<hostReq, hostRsp>>
vars == <<macVars, hostVars, insertQ, requestQ, replyQ, arpTable, arpOut, arpIn, frames, lost, asked>>

IndexOfNet(ip) == ip[1]      \* mistake: the other end of the address
Index(ip) == ip[2]
Indices == {Index(ip) : ip \in Subnet \cup Destinations}
Invalid == [ip |-> <<>>, mac |-> <<>>, valid |-> FALSE]

Init ==
    /\ macReq = <<>> /\ macRsp = <<>> /\ packets = <<>>
    /\ hostReq = <<>> /\ hostRsp = <<>>
    /\ insertQ = <<>> /\ requestQ = <<>> /\ replyQ = <<>>
    /\ arpTable = [i \in Indices |-> Invalid]
    /\ arpOut = <<>> /\ arpIn = <<>>
    /\ frames = {} /\ lost = 0 /\ asked = 0

HasRoom(q) == Len(q) < Depth

-----------------------------------------------------------------------------
(* mac_ip_encode                                                           *)

NextHop(dst) == IF dst \in Subnet THEN dst ELSE Gateway

(* extract_ip_address.  The layers above send one packet after the other   *)
(* to a destination, until one has gone out.                               *)
ExtractIp(dst) ==
    /\ dst \notin {f.dst : f \in frames} /\ dst \notin {packets[i] : i \in DOMAIN packets}
    /\ HasRoom(macReq)
    /\ macReq' = Append(macReq, NextHop(dst))
    /\ packets' = Append(packets, dst)
    /\ UNCHANGED <<macRsp, hostVars, insertQ, requestQ, replyQ, arpTable, arpOut, arpIn, frames, lost, asked>>

(* handle_arp_reply: the oldest packet with the oldest answer.             *)
HandleArpReply ==
    /\ macRsp # <<>> /\ packets # <<>>
    /\ frames' = IF Head(macRsp).hit THEN frames \cup {[dst |-> Head(packets), mac |-> Head(macRsp).mac]} ELSE frames
    /\ macRsp' = Tail(macRsp)
    /\ packets' = Tail(packets)
    /\ UNCHANGED <<macReq, hostVars, insertQ, requestQ, replyQ, arpTable, arpOut, arpIn, lost, asked>>

-----------------------------------------------------------------------------
(* arp_server_subnet                                                       *)

(* The entry of the octet, whatever address is in it.                      *)
Answer(ip) == [mac |-> arpTable[Index(ip)].mac, hit |-> arpTable[Index(ip)].valid]

(* A miss also asks the subnet.                                            *)
AskNever(ip) == UNCHANGED requestQ      \* mistake: the miss is only told
AskOnMiss(ip) ==
    IF Answer(ip).hit THEN UNCHANGED requestQ
    ELSE HasRoom(requestQ) /\ requestQ' = Append(requestQ, ip)

(* arp_table: insertions first, then lookups of mac_ip_encode.             *)
InsertEntry ==
    /\ insertQ # <<>>
    /\ arpTable' = [arpTable EXCEPT ![Index(Head(insertQ).ip)] = Head(insertQ)]
    /\ insertQ' = Tail(insertQ)
    /\ UNCHANGED <<macVars, hostVars, requestQ, replyQ, arpOut, arpIn, frames, lost, asked>>

LookupMac ==
    /\ insertQ = <<>> /\ macReq # <<>> /\ HasRoom(macRsp)
    /\ AskOnMiss(Head(macReq))
    /\ macRsp' = Append(macRsp, Answer(Head(macReq)))
    /\ macReq' = Tail(macReq)
    /\ UNCHANGED <<packets, hostVars, insertQ, replyQ, arpTable, arpOut, arpIn, frames, lost, asked>>

LookupHost ==
    /\ insertQ = <<>> /\ macReq = <<>> /\ hostReq # <<>> /\ HasRoom(hostRsp)
    /\ AskOnMiss(Head(hostReq))
    /\ hostRsp' = Append(hostRsp, [ip |-> Head(hostReq), answer |-> Answer(Head(hostReq))])
    /\ hostReq' = Tail(hostReq)
    /\ UNCHANGED <<macVars, insertQ, replyQ, arpTable, arpOut, arpIn, frames, lost, asked>>

ArpTable == InsertEntry \/ LookupMac \/ LookupHost

(* process_arp_pkg: only frames about this address.                        *)
ProcessArp ==
    /\ arpIn # <<>>
    /\ LET frame == Head(arpIn) IN
         /\ IF frame.target = Me /\ frame.kind = "request"
            THEN HasRoom(replyQ) /\ replyQ' = Append(replyQ, frame.sender)
            ELSE UNCHANGED replyQ
         /\ IF frame.target = Me /\ frame.kind = "reply"
            THEN HasRoom(insertQ) /\ insertQ' = Append(insertQ, [ip |-> frame.sender, mac |-> frame.mac, valid |-> TRUE])
            ELSE UNCHANGED insertQ
    /\ arpIn' = Tail(arpIn)
    /\ UNCHANGED <<macVars, hostVars, requestQ, arpTable, arpOut, frames, lost, asked>>

(* generate_arp_pkg: replies before requests.                              *)
GenerateArp ==
    /\ arpOut = <<>>
    /\ \/ /\ replyQ # <<>>
          /\ arpOut' = <<[kind |-> "reply", sender |-> Me, mac |-> Me, target |-> Head(replyQ)]>>
          /\ replyQ' = Tail(replyQ)
          /\ UNCHANGED requestQ
       \/ /\ replyQ = <<>> /\ requestQ # <<>>
          /\ arpOut' = <<[kind |-> "request", sender |-> Me, mac |-> Me, target |-> Head(requestQ)]>>
          /\ requestQ' = Tail(requestQ)
          /\ UNCHANGED replyQ
    /\ UNCHANGED <<macVars, hostVars, insertQ, arpTable, arpIn, frames, lost, asked>>

-----------------------------------------------------------------------------
(* The subnet and the users of the second port                             *)

(* A request reaches every station, and the one it is about answers.  All  *)
(* answers of the subnet's stations are visible here; those to others are  *)
(* about another target.                                                   *)
Deliver ==
    /\ arpOut # <<>> /\ Len(arpIn) < Depth
    /\ LET frame == Head(arpOut) IN
         arpIn' = IF frame.kind = "request" /\ frame.target \in Subnet
                  THEN Append(arpIn, [kind |-> "reply", sender |-> frame.target, mac |-> frame.target, target |-> Me])
                  ELSE arpIn
    /\ arpOut' = <<>>
    /\ UNCHANGED <<macVars, hostVars, insertQ, requestQ, replyQ, arpTable, frames, lost, asked>>

Lose ==
    /\ arpOut # <<>> /\ lost + asked < MaxEdge
    /\ arpOut' = <<>> /\ lost' = lost + 1
    /\ UNCHANGED <<macVars, hostVars, insertQ, requestQ, replyQ, arpTable, arpIn, frames, asked>>

(* A station asks for this address, or announces its own.                  *)
StationAsks(station, target) ==
    /\ lost + asked < MaxEdge /\ Len(arpIn) < Depth
    /\ arpIn' = Append(arpIn, [kind |-> "request", sender |-> station, mac |-> station, target |-> target])
    /\ asked' = asked + 1
    /\ UNCHANGED <<macVars, hostVars, insertQ, requestQ, replyQ, arpTable, arpOut, frames, lost>>

HostAsks(ip) ==
    /\ lost + asked < MaxEdge /\ HasRoom(hostReq)
    /\ hostReq' = Append(hostReq, ip)
    /\ asked' = asked + 1
    /\ UNCHANGED <<macVars, hostRsp, insertQ, requestQ, replyQ, arpTable, arpOut, arpIn, frames, lost>>

HostTakes ==
    /\ hostRsp # <<>>
    /\ hostRsp' = Tail(hostRsp)
    /\ UNCHANGED <<macVars, hostReq, insertQ, requestQ, replyQ, arpTable, arpOut, arpIn, frames, lost, asked>>

-----------------------------------------------------------------------------

Next ==
    \/ \E dst \in Destinations : ExtractIp(dst)
    \/ HandleArpReply \/ ArpTable \/ ProcessArp \/ GenerateArp
    \/ Deliver \/ Lose \/ HostTakes
    \/ \E station \in Subnet : \/ HostAsks(station)
                               \/ \E target \in {Me, station} : StationAsks(station, target)

(* The processes run, what is not lost arrives, and the layers above send  *)
(* again what has not gone out.                                            *)
Fairness ==
    /\ \A dst \in Destinations : WF_vars(ExtractIp(dst))
    /\ WF_vars(HandleArpReply) /\ WF_vars(ArpTable) /\ WF_vars(ProcessArp) /\ WF_vars(GenerateArp)
    /\ SF_vars(Deliver) /\ WF_vars(HostTakes)

Spec == Init /\ [][Next]_vars /\ Fairness

-----------------------------------------------------------------------------
(* Properties                                                              *)

(* A packet leaves for the station that is its next hop and for no other,  *)
(* and the second port too is told the address it asked for.               *)
FramesGoToTheirHop ==
    /\ \A f \in frames : f.mac = NextHop(f.dst)
    /\ \A i \in DOMAIN hostRsp : hostRsp[i].answer.hit => hostRsp[i].answer.mac = hostRsp[i].ip

(* What must come in the end: a destination that is sent to again and      *)
(* again is reached, for the miss that drops a packet also gets the table  *)
(* filled.                                                                 *)
AllHopsFound == Destinations \subseteq {f.dst : f \in frames}

=============================================================================
