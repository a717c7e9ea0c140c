------------------------------- MODULE MCClients -------------------------------
(***************************************************************************)
(* The two clients among the kernels: the one that measures the bandwidth  *)
(* and the one that asks for the address of the station.  Nothing is       *)
(* shared.                                                                 *)
(***************************************************************************)
EXTENDS Integers

CONSTANTS
    IperfConns, IperfWords, IperfRoom, IperfRefusals, MaxRuns,
    Addresses, Fixed, DhcpDepth, MaxTries, MaxFaults, MaxToggles, MaxTaken

ASSUME ClientsAssumption == IperfConns \in Nat \ {0} /\ MaxTries \in Nat

VARIABLES
    state, sessionIt, closeIt, numConnections, currentSession, wordCount, timeOver, stopSend, clock, stopSignal,
    openQ, openStatusQ, metaQ, iperfStatusQ, iperfDataQ, closed, opened, iperfGranted, iperfRefusals, runs,
    port, dhcpState, myIdentity, myIpAddress, IpAddressBuffer, dhcpEnable, dhcpRequestQ, dhcpReplyQ,
    toServer, toClient, owner, faults, toggles

iperfVars ==
    <<state, sessionIt, closeIt, numConnections, currentSession, wordCount, timeOver, stopSend, clock, stopSignal,
      openQ, openStatusQ, metaQ, iperfStatusQ, iperfDataQ, closed, opened, iperfGranted, iperfRefusals, runs>>
dhcpVars ==
    <<port, dhcpState, myIdentity, myIpAddress, IpAddressBuffer, dhcpEnable, dhcpRequestQ, dhcpReplyQ,
      toServer, toClient, owner, faults, toggles>>

Iperf == INSTANCE IperfClient WITH
    UseConn <- IperfConns, PkgWords <- IperfWords, Depth <- IperfRoom, MaxRefusals <- IperfRefusals,
    RefuseHeader <- FALSE, TearDown <- FALSE,
    statusQ <- iperfStatusQ, dataQ <- iperfDataQ, granted <- iperfGranted, refusals <- iperfRefusals

Dhcp == INSTANCE DhcpClient WITH
    Depth <- DhcpDepth, state <- dhcpState, requestQ <- dhcpRequestQ, replyQ <- dhcpReplyQ

ClientsInit == Iperf!Init /\ Dhcp!Init
ClientsNext ==
    \/ Iperf!Next /\ UNCHANGED dhcpVars
    \/ Dhcp!Next /\ UNCHANGED iperfVars

ClientsSpec == ClientsInit /\ [][ClientsNext]_<<iperfVars, dhcpVars>>

-----------------------------------------------------------------------------

(* The iperf client writes what was granted, and leaves nothing behind.    *)
NothingIsLeft == Iperf!NothingIsLeft

(* The station uses an address that was granted to it and to nobody else.  *)
AddressIsGranted == Dhcp!AddressIsGranted

=============================================================================
