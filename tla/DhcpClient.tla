------------------------------ MODULE DhcpClient ------------------------------
(***************************************************************************)
(* dhcp_client of the library: it opens its UDP port, asks for an address  *)
(* and takes the one it is given.  Its broadcasts and the answers may be   *)
(* lost, repeated and arrive in any order, and other stations ask the same *)
(* server for the same addresses.                                          *)
(***************************************************************************)
EXTENDS Integers, FiniteSets, Sequences

CONSTANTS
    Addresses,      \* the server's pool
    Fixed,          \* inputIpAddress, used until an address is granted
    Depth,          \* of dhcp_replyMetaFifo and dhcp_requestMetaFifo
    MaxTries,       \* bound: DISCOVERs sent
    MaxFaults,      \* bound: messages lost or repeated, time-outs that come too early
    MaxToggles,     \* bound: changes of dhcpEnable
    MaxTaken        \* bound: addresses that other stations take

VARIABLES
    port,           \* open_dhcp_port and the port's answer
    state,          \* dhcp_fsm
    myIdentity,     \* number of the exchange; randomValue is taken to be new each time
    myIpAddress,
    IpAddressBuffer,
    dhcpEnable,
    requestQ,       \* dhcp_requestMetaFifo
    replyQ,         \* dhcp_replyMetaFifo
    toServer,       \* broadcasts under way
    toClient,       \* answers under way, to this and to other stations
    owner,          \* [Addresses -> "none", "me" or "other"]: the server's leases
    faults, toggles

vars == <<port, state, myIdentity, myIpAddress, IpAddressBuffer, dhcpEnable, requestQ, replyQ,
          toServer, toClient, owner, faults, toggles>>

serverVars == <<toClient, owner>>
clientVars == <<port, state, myIdentity, myIpAddress, IpAddressBuffer, requestQ>>

Message(type, id, address) == [type |-> type, identifier |-> id, address |-> address]

Init ==
    /\ port = "closed" /\ state = "PORT_WAIT"
    /\ myIdentity = 0 /\ myIpAddress = 0 /\ IpAddressBuffer = 0 /\ dhcpEnable = 1
    /\ requestQ = <<>> /\ replyQ = <<>>
    /\ toServer = {} /\ toClient = {}
    /\ owner = [a \in Addresses |-> "none"]
    /\ faults = 0 /\ toggles = 0

-----------------------------------------------------------------------------
(* open_dhcp_port.  Whatever the answer is, it tells dhcp_fsm that the port*)
(* is open, and it does not ask again.                                     *)
OpenPort ==
    /\ port = "closed"
    /\ port' = "asked"
    /\ UNCHANGED <<state, myIdentity, myIpAddress, IpAddressBuffer, dhcpEnable, requestQ, replyQ,
                   toServer, serverVars, faults, toggles>>

(* The port belongs to nobody else and is given.                           *)
PortAnswer ==
    /\ port = "asked"
    /\ port' = "open"
    /\ UNCHANGED <<state, myIdentity, myIpAddress, IpAddressBuffer, dhcpEnable, requestQ, replyQ,
                   toServer, serverVars, faults, toggles>>

-----------------------------------------------------------------------------
(* dhcp_fsm                                                                *)

(* While it has no address of its own, it uses the one it was given.       *)
PortIsOpen ==
    /\ state = "PORT_WAIT"
    /\ myIpAddress' = Fixed
    /\ state' = IF port = "open" THEN "INIT" ELSE state
    /\ UNCHANGED <<port, myIdentity, IpAddressBuffer, requestQ, replyQ>>

(* Back in INIT, the address is the fixed one from the next cycle on, also *)
(* while it is disabled or waits to ask again.                             *)
UseFixed ==
    /\ state = "INIT" /\ myIpAddress # Fixed
    /\ myIpAddress' = Fixed
    /\ UNCHANGED <<port, state, myIdentity, IpAddressBuffer, requestQ, replyQ>>

(* The time between two attempts is over.                                  *)
Discover ==
    /\ state = "INIT" /\ dhcpEnable = 1 /\ myIdentity < MaxTries /\ Len(requestQ) < Depth
    /\ myIpAddress' = Fixed
    /\ myIdentity' = myIdentity + 1
    /\ requestQ' = Append(requestQ, Message("DISCOVER", myIdentity + 1, Fixed))
    /\ state' = "SELECTING"
    /\ UNCHANGED <<port, IpAddressBuffer, replyQ>>

(* An answer to another exchange is passed over.                           *)
IsAnyones(reply) == TRUE
IsMine(reply) == reply.identifier = myIdentity

Selecting ==
    /\ state = "SELECTING" /\ replyQ # <<>>
    /\ LET reply == Head(replyQ) IN
         \/ /\ IsMine(reply) /\ reply.type = "OFFER" /\ Len(requestQ) < Depth
            /\ IpAddressBuffer' = reply.address
            /\ requestQ' = Append(requestQ, Message("REQUEST", myIdentity, reply.address))
            /\ state' = "REQUESTING"
         \/ /\ IsMine(reply) /\ reply.type # "OFFER"
            /\ state' = "INIT"
            /\ UNCHANGED <<IpAddressBuffer, requestQ>>
         \/ /\ ~IsMine(reply)
            /\ UNCHANGED <<IpAddressBuffer, requestQ, state>>
    /\ replyQ' = Tail(replyQ)
    /\ UNCHANGED <<port, myIdentity, myIpAddress>>

Requesting ==
    /\ state = "REQUESTING" /\ replyQ # <<>>
    /\ LET reply == Head(replyQ) IN
         \/ /\ IsMine(reply) /\ reply.type = "ACK"
            /\ myIpAddress' = IpAddressBuffer
            /\ state' = "BOUND"
         \/ /\ IsMine(reply) /\ reply.type # "ACK"
            /\ state' = "INIT"
            /\ UNCHANGED myIpAddress
         \/ /\ ~IsMine(reply)
            /\ UNCHANGED <<myIpAddress, state>>
    /\ replyQ' = Tail(replyQ)
    /\ UNCHANGED <<port, myIdentity, IpAddressBuffer, requestQ>>

(* A lease is kept, and its answers are thrown away, until the client is   *)
(* disabled.  Its end is not looked at.                                    *)
Bound ==
    /\ state = "BOUND" /\ (replyQ # <<>> \/ dhcpEnable = 0)
    /\ replyQ' = IF replyQ = <<>> THEN replyQ ELSE Tail(replyQ)
    /\ state' = IF dhcpEnable = 0 THEN "INIT" ELSE state
    /\ UNCHANGED <<port, myIdentity, myIpAddress, IpAddressBuffer, requestQ>>

Fsm ==
    /\ PortIsOpen \/ UseFixed \/ Discover \/ Selecting \/ Requesting \/ Bound
    /\ UNCHANGED <<dhcpEnable, toServer, serverVars, faults, toggles>>

(* Five seconds without an answer.  An exchange of messages is much faster:*)
(* the time is over while something is still under way only as a fault.    *)
Quiet == toServer = {} /\ toClient = {} /\ requestQ = <<>> /\ replyQ = <<>>
Fault == faults < MaxFaults /\ faults' = faults + 1

Expire ==
    /\ state \in {"SELECTING", "REQUESTING"} /\ replyQ = <<>>
    /\ state' = "INIT"
    /\ UNCHANGED <<port, myIdentity, myIpAddress, IpAddressBuffer, dhcpEnable, requestQ, replyQ, toServer, serverVars, toggles>>

TimeOut == Quiet /\ Expire /\ UNCHANGED faults
EarlyTimeOut == ~Quiet /\ Expire /\ Fault

Toggle ==
    /\ toggles < MaxToggles
    /\ dhcpEnable' = 1 - dhcpEnable
    /\ toggles' = toggles + 1
    /\ UNCHANGED <<clientVars, replyQ, toServer, serverVars, faults>>

-----------------------------------------------------------------------------
(* send_message: a broadcast of 300 bytes, with the address asked for in   *)
(* the two words around offset 248.                                        *)
SendMessage ==
    /\ requestQ # <<>>
    /\ toServer' = toServer \cup {Head(requestQ)}
    /\ requestQ' = Tail(requestQ)
    /\ UNCHANGED <<port, state, myIdentity, myIpAddress, IpAddressBuffer, dhcpEnable, replyQ, serverVars, faults, toggles>>

(* receive_message: a reply, to this station's hardware address, with the  *)
(* magic cookie.  The answers are broadcasts: those for other stations are *)
(* read and dropped.                                                       *)
IsForMe(m) == m.to = "me"

ReceiveMessage(m, stays) ==
    /\ port = "open" /\ Len(replyQ) < Depth
    /\ replyQ' = IF IsForMe(m) THEN Append(replyQ, m.reply) ELSE replyQ
    /\ toClient' = IF stays THEN toClient ELSE toClient \ {m}
    /\ UNCHANGED <<clientVars, dhcpEnable, toServer, owner, toggles>>

-----------------------------------------------------------------------------
(* The server and the network, known by what the client expects of them.   *)
(* The server takes no address back that it has granted.                   *)

Reply(to, reply) == toClient' = toClient \cup {[to |-> to, reply |-> reply]}

Offer(m) ==
    /\ m.type = "DISCOVER"
    /\ \E a \in Addresses :
          /\ owner[a] \in {"none", "me"}
          /\ Reply("me", Message("OFFER", m.identifier, a))
    /\ UNCHANGED owner

Grant(m) ==
    /\ m.type = "REQUEST" /\ owner[m.address] # "other"
    /\ owner' = [owner EXCEPT ![m.address] = "me"]
    /\ Reply("me", Message("ACK", m.identifier, m.address))

Refuse(m) ==
    /\ m.type = "REQUEST" /\ owner[m.address] = "other"
    /\ Reply("me", Message("NAK", m.identifier, m.address))
    /\ UNCHANGED owner

Serve(m, stays) ==
    /\ Offer(m) \/ Grant(m) \/ Refuse(m)
    /\ toServer' = IF stays THEN toServer ELSE toServer \ {m}
    /\ UNCHANGED <<clientVars, dhcpEnable, replyQ, toggles>>

(* Another station takes an address that was offered at most.  Its exchange*)
(* may have the same number.                                               *)
OtherTakes(a, id) ==
    /\ owner[a] = "none" /\ Cardinality({b \in Addresses : owner[b] = "other"}) < MaxTaken
    /\ owner' = [owner EXCEPT ![a] = "other"]
    /\ Reply("other", Message("ACK", id, a))
    /\ UNCHANGED <<clientVars, dhcpEnable, replyQ, toServer, faults, toggles>>

Lose ==
    /\ Fault
    /\ \/ \E m \in toServer : toServer' = toServer \ {m} /\ UNCHANGED toClient
       \/ \E m \in toClient : toClient' = toClient \ {m} /\ UNCHANGED toServer
    /\ UNCHANGED <<clientVars, dhcpEnable, replyQ, owner, toggles>>

ServerAnswers == \E m \in toServer : Serve(m, FALSE) /\ UNCHANGED faults
ClientHears == \E m \in toClient : ReceiveMessage(m, FALSE) /\ UNCHANGED faults

Repeat ==
    /\ Fault
    /\ (\E m \in toServer : Serve(m, TRUE)) \/ (\E m \in toClient : ReceiveMessage(m, TRUE))

-----------------------------------------------------------------------------

Next ==
    \/ OpenPort \/ PortAnswer \/ Fsm \/ TimeOut \/ EarlyTimeOut \/ Toggle
    \/ SendMessage \/ ClientHears \/ ServerAnswers
    \/ Lose \/ Repeat
    \/ \E a \in Addresses, id \in 1 .. MaxTries : OtherTakes(a, id)

(* The processes run in every cycle, time passes, and what the network     *)
(* does not lose is delivered.                                             *)
Fairness ==
    /\ WF_vars(OpenPort) /\ WF_vars(PortAnswer) /\ WF_vars(Fsm) /\ WF_vars(SendMessage)
    /\ WF_vars(ClientHears) /\ WF_vars(ServerAnswers) /\ WF_vars(TimeOut)

Spec == Init /\ [][Next]_vars /\ Fairness

-----------------------------------------------------------------------------
(* In BOUND the station uses an address that the server has granted to it  *)
(* and to nobody else, though answers to earlier exchanges and to other    *)
(* stations still arrive; before, the fixed one.                           *)
AddressIsGranted ==
    /\ state = "BOUND" => myIpAddress \in Addresses /\ owner[myIpAddress] = "me"
    /\ state \in {"SELECTING", "REQUESTING"} => myIpAddress = Fixed

(* As long as it stays enabled, and an address is left for it, it has one  *)
(* in the end, though attempts fail while messages are lost or another     *)
(* station is faster.                                                      *)
Finished == state = "BOUND" \/ dhcpEnable = 0
AddressIsFound == <>Finished

=============================================================================
