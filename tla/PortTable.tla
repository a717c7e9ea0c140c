------------------------------- MODULE PortTable -------------------------------
(***************************************************************************)
(* hls/toe/port_table with the processes that use it: rx_app_if listens on *)
(* ports, rx_engine checks the destination port of segments, tx_app_if     *)
(* takes free ports for the connections it opens, and the session lookup   *)
(* releases the port of a connection that is closed.  Ports below half of  *)
(* the range can be listened on, the others are free ports.                *)
(*                                                                         *)
(* A port is the number the host uses; the same port on the wire, and in   *)
(* the tuples of sessions, has its two bytes swapped.                      *)
(***************************************************************************)
EXTENDS Naturals, Sequences, FiniteSets

CONSTANTS
    Byte,        \* values of a byte (256)
    Owners,      \* 0 .. MAX_SESSIONS - 1, the sessions that own ports
    NoPort,      \* no session's port, no answer
    PortDepth,   \* depth of the FIFOs
    ListenPorts, \* bound: the ports that the application listens on
    WirePorts    \* bound: the ports that segments arrive for, as on the wire

ASSUME ByteAssumption == Byte \in Nat \ {0} /\ Byte % 2 = 0
ASSUME NoPortAssumption == NoPort \notin Nat
ASSUME PortDepthAssumption == PortDepth \in Nat \ {0}

Ports == 0 .. Byte * Byte - 1
Half == (Byte * Byte) \div 2      \* 32768
Indexes == 0 .. Half - 1
ASSUME WirePortsAssumption == WirePorts \subseteq Ports /\ ListenPorts \subseteq Ports

\* The host's number of a port of the wire, and the other way round.
Swap(p) == (p % Byte) * Byte + p \div Byte
PortOf(i) == i + Half             \* freePort(14, 0) = pt_cursor, freePort[15] = 1
IndexOf(p) == p % Half            \* currPort(14, 0)

VARIABLES
    listening,  \* listeningPortTable, the set of open ports
    usedPorts,  \* freePortTable, the set of indexes in use
    cursor,     \* pt_cursor
    portRsp,    \* portTable2txApp_port_rsp
    release,    \* sLookup2portTable_releasePort, as on the wire
    listenReq,  \* pt_portCheckListening_req_fifo
    listenRsp,  \* pt_portCheckListening_rsp_fifo
    usedReq,    \* pt_portCheckUsed_req_fifo
    usedRsp,    \* pt_portCheckUsed_rsp_fifo
    dst,        \* pt_dstFifo: the table each check was sent to, in order
    cm,         \* cm_fsmState
    session,    \* my port of each session, host order, or NoPort
    asked,      \* history: the checks not answered yet, in the order asked
    replied         \* history: the answer given to rx_engine, and what was asked

tables == <<listening, usedPorts, cursor>>
checks == <<listenReq, listenRsp, usedReq, usedRsp, dst, cm, asked, replied>>
portVars == <<tables, portRsp, release, checks, session>>

HasRoom(q) == Len(q) < PortDepth

PortInit ==
    /\ listening = {} /\ usedPorts = {} /\ cursor = 0
    /\ portRsp = <<>> /\ release = <<>>
    /\ listenReq = <<>> /\ listenRsp = <<>> /\ usedReq = <<>> /\ usedRsp = <<>>
    /\ dst = <<>> /\ cm = "READ_DST"
    /\ session = [id \in Owners |-> NoPort]
    /\ asked = <<>> /\ replied = NoPort

-----------------------------------------------------------------------------
(* listening_port_table: requests to listen first.                           *)

\* Answered true for a port that can be listened on, also if it is open already.
Listen(p) ==
    /\ listening' = IF p < Half THEN listening \cup {p} ELSE listening
    /\ UNCHANGED <<usedPorts, cursor, portRsp, release, checks, session>>

CheckListening ==
    /\ listenReq # <<>>
    /\ HasRoom(listenRsp)
    /\ listenRsp' = Append(listenRsp, [port |-> Head(listenReq), open |-> Head(listenReq) \in listening])
    /\ listenReq' = Tail(listenReq)
    /\ UNCHANGED <<tables, portRsp, release, usedReq, usedRsp, dst, cm, asked, replied, session>>

-----------------------------------------------------------------------------
(* free_port_table: releases, then checks, then the next free port; the      *)
(* cursor moves on in every call.                                            *)

MoveCursor == cursor' = (cursor + 1) % Half

\* The port released is the tuple's, its bytes in the order of the wire.
ReleasePort ==
    /\ release # <<>>
    /\ usedPorts' = IF Head(release) >= Half THEN usedPorts \ {IndexOf(Head(release))} ELSE usedPorts
    /\ release' = Tail(release)
    /\ MoveCursor
    /\ UNCHANGED <<listening, portRsp, checks, session>>

CheckUsed ==
    /\ release = <<>> /\ usedReq # <<>>
    /\ HasRoom(usedRsp)
    /\ usedRsp' = Append(usedRsp, [port |-> Head(usedReq), open |-> IndexOf(Head(usedReq)) \in usedPorts])
    /\ usedReq' = Tail(usedReq)
    /\ MoveCursor
    /\ UNCHANGED <<listening, usedPorts, portRsp, release, listenReq, listenRsp, dst, cm,
                   asked, replied, session>>

FindPort ==
    /\ release = <<>> /\ usedReq = <<>>
    /\ IF cursor \notin usedPorts /\ HasRoom(portRsp)
       THEN /\ portRsp' = Append(portRsp, PortOf(cursor))
            /\ usedPorts' = usedPorts \cup {cursor}
       ELSE UNCHANGED <<portRsp, usedPorts>>
    /\ MoveCursor
    /\ UNCHANGED <<listening, release, checks, session>>

-----------------------------------------------------------------------------
(* check_in_multiplexer and check_out_multiplexer.                           *)

SwapForgotten(p) == p
SwapChecked(p) == Swap(p)

\* rx_engine checks the port of a segment, as on the wire.
CheckIn(wire) ==
    LET p == SwapChecked(wire) IN
    /\ Len(dst) < 2 * PortDepth
    /\ IF p < Half
       THEN /\ HasRoom(listenReq)
            /\ listenReq' = Append(listenReq, p) /\ dst' = Append(dst, "LT")
            /\ UNCHANGED usedReq
       ELSE /\ HasRoom(usedReq)
            /\ usedReq' = Append(usedReq, p) /\ dst' = Append(dst, "FT")
            /\ UNCHANGED listenReq
    /\ asked' = Append(asked, [port |-> Swap(wire), open |-> Swap(wire) \in listening])
    /\ UNCHANGED <<tables, portRsp, release, listenRsp, usedRsp, cm, replied, session>>

ReadDst ==
    /\ cm = "READ_DST" /\ dst # <<>>
    /\ cm' = IF Head(dst) = "LT" THEN "READ_LISTENING" ELSE "READ_USED"
    /\ dst' = Tail(dst)
    /\ replied' = NoPort
    /\ UNCHANGED <<tables, portRsp, release, listenReq, listenRsp, usedReq, usedRsp,
                   asked, session>>

Reply(rsp) ==
    /\ replied' = [answer |-> Head(rsp), ask |-> Head(asked)]
    /\ asked' = Tail(asked)

\* Whichever table has answered.
ReadsAny(t) == cm # "READ_DST"
ReadsFrom(t) == cm = t
StayInRead == cm
AfterRead == "READ_DST"

ReadListening ==
    /\ ReadsFrom("READ_LISTENING") /\ listenRsp # <<>>
    /\ Reply(listenRsp)
    /\ listenRsp' = Tail(listenRsp)
    /\ cm' = AfterRead
    /\ UNCHANGED <<tables, portRsp, release, listenReq, usedReq, usedRsp, dst, session>>

ReadUsed ==
    /\ ReadsFrom("READ_USED") /\ usedRsp # <<>>
    /\ Reply(usedRsp)
    /\ usedRsp' = Tail(usedRsp)
    /\ cm' = AfterRead
    /\ UNCHANGED <<tables, portRsp, release, listenReq, listenRsp, usedReq, dst, session>>

-----------------------------------------------------------------------------
(* The sessions: tx_app_if and rx_engine open them, reverseLookupTable-      *)
(* Interface releases their port.                                            *)

Free == {id \in Owners : session[id] = NoPort}

\* tx_app_if takes a port for a connection; when the lookup has no identifier left
\* it tells the application that the open failed and forgets the port.
Open ==
    /\ portRsp # <<>>
    /\ portRsp' = Tail(portRsp)
    /\ \/ \E id \in Free : session' = [session EXCEPT ![id] = Head(portRsp)]
       \/ Free = {} /\ UNCHANGED session
    /\ UNCHANGED <<tables, release, checks>>

\* A SYN for a port that is listened on creates a session with that port.
Accept(id) ==
    /\ id \in Free
    /\ \E p \in listening : session' = [session EXCEPT ![id] = p]
    /\ UNCHANGED <<tables, portRsp, release, checks>>

\* The tuple of a session holds the port as on the wire, and so it is released.
Close(id) ==
    /\ session[id] # NoPort
    /\ HasRoom(release)
    /\ release' = Append(release, Swap(session[id]))
    /\ session' = [session EXCEPT ![id] = NoPort]
    /\ UNCHANGED <<tables, portRsp, checks>>

PortNext ==
    \/ \E p \in ListenPorts : Listen(p)
    \/ \E p \in WirePorts : CheckIn(p)
    \/ CheckListening \/ ReleasePort \/ CheckUsed \/ FindPort
    \/ ReadDst \/ ReadListening \/ ReadUsed
    \/ Open \/ \E id \in Owners : Accept(id) \/ Close(id)

PortSpec == PortInit /\ [][PortNext]_portVars

\* The processes are called in every clock cycle.  rx_app_if waits for the answer
\* before it listens on another port, which leaves cycles for checks.  A release goes before a check,
\* but a session takes many cycles to close and MAX_SESSIONS bounds their number,
\* so the free port table is time and again without a release.
PortFairness ==
    /\ WF_portVars(CheckListening) /\ WF_portVars(ReleasePort) /\ SF_portVars(CheckUsed)
    /\ WF_portVars(ReadDst) /\ WF_portVars(ReadListening \/ ReadUsed)

PortFairSpec == PortSpec /\ PortFairness

-----------------------------------------------------------------------------
(* Properties.                                                               *)

Answers == [port : Ports, open : BOOLEAN]

PortTypeOK ==
    /\ listening \subseteq Indexes /\ usedPorts \subseteq Indexes /\ cursor \in Indexes
    /\ portRsp \in Seq(Ports) /\ release \in Seq(Ports)
    /\ listenReq \in Seq(Indexes) /\ usedReq \in Seq(Ports \ Indexes)
    /\ listenRsp \in Seq(Answers) /\ usedRsp \in Seq(Answers)
    /\ dst \in Seq({"LT", "FT"}) /\ cm \in {"READ_DST", "READ_LISTENING", "READ_USED"}
    /\ session \in [Owners -> Ports \cup {NoPort}]
    /\ asked \in Seq(Answers) /\ replied \in [answer : Answers, ask : Answers] \cup {NoPort}

\* rx_engine, which does not say what it asked for, gets the answers in the order
\* of its checks although two tables answer at their own pace.
AnswersInOrder == replied # NoPort => replied.answer.port = replied.ask.port

\* A check asked for after the application was told that it listens on the port
\* finds the port open.
ListenIsSeen == replied # NoPort /\ replied.ask.open => replied.answer.open

\* Every check is answered: none stays the next to be answered, and none stays in
\* the work of check_out, for ever.
ChecksAreAnswered ==
    /\ []<>(dst = <<>> \/ cm # "READ_DST")
    /\ []<>(cm = "READ_DST")

\* A port that is handed out to tx_app_if is not the port of a session.
\* tx_app_if.cpp:37 "requests a free port number from the port_table".
PortHandedOutIsFree ==
    \A i \in DOMAIN portRsp : \A id \in Owners : session[id] # portRsp[i]
=============================================================================
