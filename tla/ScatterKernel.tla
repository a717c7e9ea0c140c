---------------------------- MODULE ScatterKernel ----------------------------
(***************************************************************************)
(* scatter_krnl: its client opens useConn connections and sends            *)
(* clientPkgNum packages, each on the connection whose request the toe has *)
(* granted next; its server listens on usePort ports and reads and drops   *)
(* what it is told of.  A pulse from the host starts both.  A queue stands *)
(* for the stream at the port, the buffer of 512 entries behind it and the *)
(* handler that copies from the one to the other.                          *)
(***************************************************************************)
EXTENDS Integers, Sequences, SequencesExt

CONSTANTS
    UseConn, UseIpAddr, UsePort, BasePort,      \* registers
    PkgWords,           \* pkgWordCount
    PkgNum,             \* clientPkgNum
    Depth,              \* of txDataBuffer, in words
    UsablePorts,        \* ports the toe can listen on
    MaxRuns,            \* bound: experiments
    MaxRefusals,        \* bound: connections not opened and answers ERROR_NOSPACE
    MaxTearDowns,       \* bound: answers ERROR_NOCONNECTION
    Packets, MaxPackets \* lengths of what arrives in words, and bound: notifications

Counter == 65536        \* ap_uint<16>

VARIABLES
    client,                         \* static variables of client()
    openQ, openStatusQ,             \* openConnection, openConStatusBuffer
    metaQ, statusQ, dataQ,          \* txMetaData, txStatusBuffer, txDataBuffer
    listen, consume,                \* static variables of server()
    listenQ, listenStatusQ, notifQ, readQ, rxMetaQ, rxQ,
    toe                             \* what the toe knows, and the bounds' counters

clientVars == <<client, openQ, openStatusQ, metaQ, statusQ, dataQ>>
serverVars == <<listen, consume, listenQ, listenStatusQ, notifQ, readQ, rxMetaQ, rxQ>>
vars == <<clientVars, serverVars, toe>>

(* What the client sets in IDLE; of its variables currentSessionID and     *)
(* wordCount are left as they are.                                         *)
Reset(c) ==
    [c EXCEPT !.sessionIt = 0, !.closeIt = 0, !.numConnections = 0, !.ipAddressIdx = 0,
              !.currentPort = 0, !.clientPkgCnt = 0, !.sentFirstWord = FALSE]

Init ==
    /\ client = [state |-> "IDLE", numConnections |-> 0, currentSessionID |-> 0, sessionIt |-> 0, closeIt |-> 0,
                 wordCount |-> 0, ipAddressIdx |-> 0, currentPort |-> 0, clientPkgCnt |-> 0, sentFirstWord |-> FALSE]
    /\ openQ = <<>> /\ openStatusQ = <<>> /\ metaQ = <<>> /\ statusQ = <<>> /\ dataQ = <<>>
    /\ listen = [state |-> "IDLE", currentPort |-> 0, openedPort |-> 0]
    /\ consume = [state |-> "WAIT_PKG", packet |-> 0]
    /\ listenQ = <<>> /\ listenStatusQ = <<>> /\ notifQ = <<>> /\ readQ = <<>> /\ rxMetaQ = <<>> /\ rxQ = <<>>
    /\ toe = [granted |-> <<>>, opened |-> 0, taken |-> 0, listening |-> {}, notified |-> 0, reads |-> 0, memory |-> <<>>,
              runs |-> 0, refusals |-> 0, tearDowns |-> 0, left |-> 0]

-----------------------------------------------------------------------------
(* scatter_role.sv: the pulse with which the host starts an experiment is  *)
(* seen by those of the two FSMs that are idle, and by no other.           *)
RunExperiment ==
    /\ toe.runs < MaxRuns /\ (client.state = "IDLE" \/ listen.state = "IDLE")
    /\ client' = IF client.state = "IDLE"
                 THEN [Reset(client) EXCEPT !.state = "INIT_CON", !.currentPort = BasePort]
                 ELSE client
    /\ listen' = IF listen.state = "IDLE"
                 THEN [state |-> "OPEN_PORT", currentPort |-> BasePort, openedPort |-> 0]
                 ELSE listen
    /\ toe' = [toe EXCEPT !.runs = @ + 1,
                          !.left = IF client.state = "IDLE" THEN Len(metaQ) + Len(statusQ) ELSE @]
    /\ UNCHANGED <<openQ, openStatusQ, metaQ, statusQ, dataQ,
                   consume, listenQ, listenStatusQ, notifQ, readQ, rxMetaQ, rxQ>>

-----------------------------------------------------------------------------
(* client                                                                  *)

InitCon ==
    /\ client.state = "INIT_CON"
    /\ openQ' = Append(openQ, [ip |-> client.ipAddressIdx, port |-> client.currentPort])
    /\ LET wraps == client.ipAddressIdx + 1 = UseIpAddr
           last == client.sessionIt + 1 = UseConn
       IN client' = [client EXCEPT
            !.ipAddressIdx = IF wraps THEN 0 ELSE @ + 1,
            !.currentPort = IF last THEN 0 ELSE IF wraps THEN @ + 1 ELSE @,
            !.sessionIt = IF last THEN 0 ELSE @ + 1,
            !.state = IF last THEN "WAIT_CON" ELSE @]
    /\ UNCHANGED <<openStatusQ, metaQ, statusQ, dataQ>>

(* Each connection that opens asks for room for its first package.         *)
WaitCon ==
    /\ client.state = "WAIT_CON" /\ openStatusQ # <<>>
    /\ LET status == Head(openStatusQ)
           last == client.sessionIt + 1 = UseConn
       IN /\ metaQ' = IF status.success THEN Append(metaQ, status.sessionID) ELSE metaQ
          /\ client' = [client EXCEPT
               !.numConnections = IF status.success THEN @ + 1 ELSE @,
               !.sessionIt = IF last THEN 0 ELSE @ + 1,
               !.state = IF last THEN "CHECK_REQ" ELSE @]
    /\ openStatusQ' = Tail(openStatusQ)
    /\ UNCHANGED <<openQ, statusQ, dataQ>>

CheckReq ==
    /\ client.state = "CHECK_REQ" /\ statusQ # <<>>
    /\ LET resp == Head(statusQ) IN
         \/ /\ resp.error = 0
            /\ client' = [client EXCEPT !.currentSessionID = resp.sessionID, !.state = "WRITE_PKG"]
            /\ UNCHANGED metaQ
         \/ /\ resp.error = 1
            /\ client' = [client EXCEPT !.numConnections = (@ - 1) % Counter]
            /\ UNCHANGED metaQ
         \/ /\ resp.error = 2
            /\ metaQ' = Append(metaQ, resp.sessionID)
            /\ UNCHANGED client
    /\ statusQ' = Tail(statusQ)
    /\ UNCHANGED <<openQ, openStatusQ, dataQ>>

(* The word shows whose it is only in the model.  With its first word a    *)
(* package asks for the next one on its connection, unless it is the last. *)
AsksAlways == ~client.sentFirstWord     \* mistake: the last package asks too
Asks == ~client.sentFirstWord /\ client.clientPkgCnt < PkgNum - 1

AfterPackage(c) ==
    [c EXCEPT !.wordCount = 0, !.sentFirstWord = FALSE,
              !.clientPkgCnt = IF @ + 1 = PkgNum THEN 0 ELSE @ + 1,
              !.state = IF c.clientPkgCnt + 1 = PkgNum THEN "CLOSE_CON" ELSE "CHECK_REQ"]

WritePkg ==
    /\ client.state = "WRITE_PKG" /\ Len(dataQ) < Depth
    /\ LET last == client.wordCount + 1 = PkgWords
           next == [client EXCEPT !.wordCount = @ + 1, !.sentFirstWord = @ \/ Asks]
       IN /\ metaQ' = IF Asks THEN Append(metaQ, client.currentSessionID) ELSE metaQ
          /\ dataQ' = Append(dataQ, [session |-> client.currentSessionID, last |-> last])
          /\ client' = IF last THEN AfterPackage(next) ELSE next
    /\ UNCHANGED <<openQ, openStatusQ, statusQ>>

(* sessionIDTable is not static: which sessions are closed is not defined, *)
(* only how many, and no property here depends on it.                      *)
CloseCon ==
    /\ client.state = "CLOSE_CON"
    /\ client' = IF client.closeIt = client.numConnections
                 THEN [client EXCEPT !.state = "IDLE"]
                 ELSE [client EXCEPT !.closeIt = @ + 1]
    /\ UNCHANGED <<openQ, openStatusQ, metaQ, statusQ, dataQ>>

Client == (InitCon \/ WaitCon \/ CheckReq \/ WritePkg \/ CloseCon) /\ UNCHANGED <<serverVars, toe>>

-----------------------------------------------------------------------------
(* server: one call does a step of each of its three parts                 *)

ListenWaits == \/ listen.state = "IDLE"
               \/ listen.state = "WAIT_PORT_STATUS" /\ listenStatusQ = <<>>

ListenFsm ==
    \/ ListenWaits /\ UNCHANGED <<listen, listenQ, listenStatusQ>>
    \/ /\ listen.state = "OPEN_PORT"
       /\ listenQ' = Append(listenQ, listen.currentPort)
       /\ listen' = [listen EXCEPT !.state = "WAIT_PORT_STATUS"]
       /\ UNCHANGED listenStatusQ
    \/ /\ listen.state = "WAIT_PORT_STATUS" /\ listenStatusQ # <<>>
       /\ listen' =
            IF ~Head(listenStatusQ) THEN [listen EXCEPT !.state = "OPEN_PORT"]
            ELSE IF listen.openedPort + 1 = UsePort
            THEN [state |-> "IDLE", currentPort |-> 0, openedPort |-> 0]
            ELSE [state |-> "OPEN_PORT", currentPort |-> listen.currentPort + 1, openedPort |-> listen.openedPort + 1]
       /\ listenStatusQ' = Tail(listenStatusQ)
       /\ UNCHANGED listenQ

NotificationWaits == notifQ = <<>>

HandleNotification ==
    \/ NotificationWaits /\ UNCHANGED <<notifQ, readQ>>
    \/ /\ notifQ # <<>>
       /\ notifQ' = Tail(notifQ)
       /\ readQ' = IF Head(notifQ) # 0 THEN Append(readQ, Head(notifQ)) ELSE readQ

(* A packet is begun when its session and a word of it are there, and goes *)
(* on to the word that is marked as its last.  Which packet it is stands   *)
(* only in the model.                                                      *)
ConsumeWaits == rxQ = <<>> \/ (consume.state = "WAIT_PKG" /\ rxMetaQ = <<>>)

AfterFirst(word) == "CONSUME"       \* mistake: a packet has more than one word
AfterWord(word) == IF word.last THEN "WAIT_PKG" ELSE "CONSUME"

ConsumeFsm ==
    \/ ConsumeWaits /\ UNCHANGED <<consume, rxMetaQ, rxQ>>
    \/ /\ consume.state = "WAIT_PKG" /\ rxMetaQ # <<>> /\ rxQ # <<>>
       /\ consume' = [state |-> AfterWord(Head(rxQ)), packet |-> Head(rxMetaQ)]
       /\ rxMetaQ' = Tail(rxMetaQ) /\ rxQ' = Tail(rxQ)
    \/ /\ consume.state = "CONSUME" /\ rxQ # <<>>
       /\ consume' = [consume EXCEPT !.state = AfterWord(Head(rxQ))]
       /\ rxQ' = Tail(rxQ)
       /\ UNCHANGED rxMetaQ

Server ==
    /\ ~(ListenWaits /\ NotificationWaits /\ ConsumeWaits)
    /\ ListenFsm /\ HandleNotification /\ ConsumeFsm
    /\ UNCHANGED <<clientVars, toe>>

-----------------------------------------------------------------------------
(* The handlers that copy from or to a port, as the toe meets them         *)

openStatus_handler(status) == openStatusQ' = Append(openStatusQ, status)
txStatus_handler(resp) == statusQ' = Append(statusQ, resp)
txMetaData_handler == metaQ' = Tail(metaQ)
txDataBuffer_handler == dataQ' = Tail(dataQ)
rxDataBuffer_handler(words) == rxQ' = rxQ \o words

-----------------------------------------------------------------------------
(* The toe: sessions get new numbers, and the first connection of an       *)
(* experiment opens.                                                       *)

ToeOpens ==
    /\ openQ # <<>>
    /\ \E success \in BOOLEAN :
         /\ success \/ (toe.refusals < MaxRefusals /\ Head(openQ) # [ip |-> 0, port |-> BasePort])
         /\ openStatus_handler([success |-> success, sessionID |-> toe.opened + 1])
         /\ toe' = IF success THEN [toe EXCEPT !.opened = @ + 1] ELSE [toe EXCEPT !.refusals = @ + 1]
    /\ openQ' = Tail(openQ)
    /\ UNCHANGED <<client, metaQ, statusQ, dataQ, serverVars>>

ToeAnswers ==
    /\ metaQ # <<>>
    /\ \E error \in 0 .. 2 :
         /\ error = 1 => toe.tearDowns < MaxTearDowns
         /\ error = 2 => toe.refusals < MaxRefusals
         /\ txStatus_handler([sessionID |-> Head(metaQ), error |-> error])
         /\ toe' = CASE error = 0 -> [toe EXCEPT !.granted = Append(@, Head(metaQ))]
                     [] error = 1 -> [toe EXCEPT !.tearDowns = @ + 1]
                     [] error = 2 -> [toe EXCEPT !.refusals = @ + 1]
    /\ txMetaData_handler
    /\ UNCHANGED <<client, openQ, openStatusQ, dataQ, serverVars>>

(* It takes as many words for a grant as were asked for.                   *)
ToeTakes ==
    /\ dataQ # <<>> /\ toe.granted # <<>>
    /\ toe' = IF toe.taken + 1 = PkgWords THEN [toe EXCEPT !.granted = Tail(@), !.taken = 0]
                                          ELSE [toe EXCEPT !.taken = @ + 1]
    /\ txDataBuffer_handler
    /\ UNCHANGED <<client, openQ, openStatusQ, metaQ, statusQ, serverVars>>

ToeListens ==
    /\ listenQ # <<>>
    /\ listenStatusQ' = Append(listenStatusQ, Head(listenQ) \in UsablePorts)
    /\ toe' = [toe EXCEPT !.listening = @ \cup ({Head(listenQ)} \cap UsablePorts)]
    /\ listenQ' = Tail(listenQ)
    /\ UNCHANGED <<clientVars, listen, consume, notifQ, readQ, rxMetaQ, rxQ>>

(* Data, or with length 0 the end of a connection.                         *)
ToeNotifies ==
    /\ toe.listening # {} /\ toe.notified < MaxPackets
    /\ \E length \in Packets \cup {0} : notifQ' = Append(notifQ, length)
    /\ toe' = [toe EXCEPT !.notified = @ + 1]
    /\ UNCHANGED <<clientVars, listen, consume, listenQ, listenStatusQ, readQ, rxMetaQ, rxQ>>

(* A read request is answered with the session at once and with the words  *)
(* when they come from memory.                                             *)
ToeReads ==
    /\ readQ # <<>>
    /\ rxMetaQ' = Append(rxMetaQ, toe.reads + 1)
    /\ toe' = [toe EXCEPT !.reads = @ + 1, !.memory = Append(@, [packet |-> toe.reads + 1, length |-> Head(readQ)])]
    /\ readQ' = Tail(readQ)
    /\ UNCHANGED <<clientVars, listen, consume, listenQ, listenStatusQ, notifQ, rxQ>>

ToeDelivers ==
    /\ toe.memory # <<>>
    /\ LET read == Head(toe.memory) IN
         rxDataBuffer_handler([i \in 1 .. read.length |-> [packet |-> read.packet, first |-> i = 1, last |-> i = read.length]])
    /\ toe' = [toe EXCEPT !.memory = Tail(@)]
    /\ UNCHANGED <<clientVars, listen, consume, listenQ, listenStatusQ, notifQ, readQ, rxMetaQ>>

Toe == ToeOpens \/ ToeAnswers \/ ToeTakes \/ ToeListens \/ ToeNotifies \/ ToeReads \/ ToeDelivers

Next == RunExperiment \/ Client \/ Server \/ Toe

Spec == Init /\ [][Next]_vars

-----------------------------------------------------------------------------
(* Properties                                                              *)

(* The words the client writes are, in order, those of the packages the    *)
(* toe has granted: whole packages, each on the connection it is for.      *)
PackagesFollowGrants ==
    LET package(session) == [i \in 1 .. PkgWords |-> [session |-> session, last |-> i = PkgWords]]
        wanted == FlattenSeq([i \in DOMAIN toe.granted |-> package(toe.granted[i])])
    IN IsPrefix(dataQ, SubSeq(wanted, toe.taken + 1, Len(wanted)))

(* Every connection has one request on its way, its answer, or the package *)
(* that has not asked for the next one, and so have those whose requests   *)
(* an earlier experiment left behind.                                      *)
OneRequestEach ==
    LET under == Len(metaQ) + Len(statusQ) + (IF client.state = "WRITE_PKG" /\ ~client.sentFirstWord THEN 1 ELSE 0)
    IN client.state # "IDLE" =>
         under = toe.left + client.numConnections - (IF client.state = "CLOSE_CON" THEN 1 ELSE 0)

(* The server consumes the words of the packet whose session it has read,  *)
(* and begins with a first word.                                           *)
PacketsAreAligned ==
    rxQ # <<>> =>
       IF consume.state = "CONSUME" THEN Head(rxQ).packet = consume.packet
       ELSE Head(rxQ).first /\ rxMetaQ # <<>> /\ Head(rxQ).packet = Head(rxMetaQ)

(* When the server has done with its ports the toe listens on all of them. *)
PortsAreOpen ==
    /\ Len(listenQ) + Len(listenStatusQ) <= 1
    /\ listen.state = "IDLE" /\ toe.runs > 0 => BasePort .. BasePort + UsePort - 1 \subseteq toe.listening

(* An experiment stops only at its end, or when a connection was torn down *)
(* and all the others wait for nothing.                                    *)
ExperimentEnds == client.state # "IDLE" /\ ~ENABLED (Client \/ Toe) => toe.tearDowns > 0

ScatterIsWhole == ExperimentEnds /\ PackagesFollowGrants /\ OneRequestEach /\ PacketsAreAligned /\ PortsAreOpen

=============================================================================
