---------------------------- MODULE Communication ----------------------------
(***************************************************************************)
(* The functions of the kernels' library that open, listen, send and       *)
(* receive, as hls_send_krnl and hls_recv_krnl put them together: one      *)
(* kernel opens connections and sends, the other listens and receives, the *)
(* toe of each beneath and the network between.  Lengths are in words of   *)
(* 64 bytes; what is sent is more than one package and whole packages: a   *)
(* package has the length of the request that comes after its own.         *)
(***************************************************************************)
EXTENDS Integers, Sequences, SequencesExt

CONSTANTS
    UseConn, BasePort,
    PkgWords,       \* pkgWordCount
    TotalWords,     \* expectedTxByteCnt
    Depth,          \* of the streams (512)
    Calls,          \* the function that sends and the one that receives, in pairs
    Parts,          \* in what lengths received words are notified
    MaxRefusals     \* bound: answers ERROR_NOSPACE

Turns == 0 .. UseConn - 1
Broadcasts == {"broadcast", "broadcastPtr"}

VARIABLES
    sender,             \* the sending kernel: its function, where it is, local variables
    sessionID, buffer,  \* its tables: sessionID and broadCastBuffer
    openQ, openStatusQ, txMeta, txStatus, txData,
    granted, refusals,  \* toe of the sender: sessions of accepted requests, with the words still to come
    wire, told,         \* words of each session under way or in memory, and those notified
    listener,           \* the receiving kernel: listenPorts,
    receiver,           \* and recvData with its local variables
    listenQ, portStatusQ, notifications, readPkg, rxMeta, rxData,
    lengths,            \* nextRxPacketLength
    dataOut, memory,    \* s_data_out, data_out
    received            \* history: the words consumed

openVars == <<openQ, openStatusQ, sessionID>>
txVars == <<txMeta, txStatus, txData, buffer>>
listenVars == <<listener, listenQ, portStatusQ>>
rxVars == <<receiver, notifications, readPkg, rxMeta, rxData, lengths, dataOut, memory, received>>
toeVars == <<granted, refusals, wire, told>>
vars == <<sender, openVars, txVars, toeVars, listenVars, rxVars>>

(* A broadcast sends all words on every connection.                        *)
Expected == IF sender.call \in Broadcasts THEN UseConn * TotalWords ELSE TotalWords

Init ==
    /\ \E call \in Calls :
         /\ sender = [call |-> call[1], phase |-> "open", i |-> 0, index |-> 0, sent |-> 0, pkgWords |-> 0, j |-> 0, read |-> 0]
         /\ receiver = [call |-> call[2], asked |-> 0, got |-> 0, inPackage |-> FALSE, length |-> 0]
    /\ sessionID = [t \in Turns |-> 0] /\ buffer = [j \in 1 .. PkgWords |-> 0]
    /\ openQ = <<>> /\ openStatusQ = <<>> /\ txMeta = <<>> /\ txStatus = <<>> /\ txData = <<>>
    /\ granted = <<>> /\ refusals = 0
    /\ wire = [t \in Turns |-> <<>>] /\ told = [t \in Turns |-> 0]
    /\ listener = [asked |-> 0, answered |-> 0, opened |-> 0]
    /\ listenQ = <<>> /\ portStatusQ = <<>> /\ notifications = <<>> /\ readPkg = <<>>
    /\ rxMeta = <<>> /\ rxData = <<>> /\ lengths = <<>> /\ dataOut = <<>> /\ memory = <<>> /\ received = <<>>

HasRoom(q) == Len(q) < Depth

-----------------------------------------------------------------------------
(* openConnections: all requests, then all answers                         *)

OpenConnection ==
    /\ sender.phase = "open" /\ HasRoom(openQ)
    /\ openQ' = Append(openQ, BasePort + sender.i)
    /\ sender' = IF sender.i + 1 = UseConn THEN [sender EXCEPT !.i = 0, !.phase = "status"]
                                           ELSE [sender EXCEPT !.i = @ + 1]
    /\ UNCHANGED <<openStatusQ, sessionID>>

(* index stands for numOpenedCon, which is another 0 afterwards.           *)
OpenStatus ==
    /\ sender.phase = "status" /\ openStatusQ # <<>>
    /\ LET status == Head(openStatusQ) IN
         /\ sessionID' = IF status.success THEN [sessionID EXCEPT ![sender.index] = status.sessionID] ELSE sessionID
         /\ sender' = IF sender.i + 1 = UseConn
                      THEN [sender EXCEPT !.i = 0, !.index = 0, !.phase = "first"]
                      ELSE [sender EXCEPT !.i = @ + 1, !.index = IF status.success THEN @ + 1 ELSE @]
    /\ openStatusQ' = Tail(openStatusQ)
    /\ UNCHANGED openQ

openConnections == (OpenConnection \/ OpenStatus) /\ UNCHANGED <<txVars, toeVars, listenVars, rxVars>>

-----------------------------------------------------------------------------
(* What the functions that send have in common                             *)

Ask(session, length) == txMeta' = Append(txMeta, [session |-> session, length |-> length])

FirstRequest(session) ==
    /\ sender.phase = "first"
    /\ Ask(session, PkgWords)
    /\ sender' = [sender EXCEPT !.phase = "answer"]
    /\ UNCHANGED <<txStatus, txData, buffer>>

NextTurn == IF sender.index + 1 = UseConn THEN 0 ELSE sender.index + 1

NextLength(sent) == IF sent + PkgWords < TotalWords THEN PkgWords ELSE TotalWords - sent

(* The next request goes out before the words of the accepted one.         *)
OnAccepted(session, sent) ==
    /\ sender.phase = "answer" /\ txStatus # <<>> /\ Head(txStatus).error = 0
    /\ LET length == IF sent < TotalWords THEN NextLength(sent) ELSE sender.pkgWords IN
         /\ IF sent < TotalWords THEN Ask(session, length) ELSE UNCHANGED txMeta
         /\ sender' = [sender EXCEPT !.index = NextTurn, !.sent = sent, !.pkgWords = length, !.phase = "write"]
    /\ txStatus' = Tail(txStatus)
    /\ UNCHANGED <<txData, buffer>>

(* No room is asked for again; a connection that is gone is not.           *)
OnRefused ==
    /\ sender.phase = "answer" /\ txStatus # <<>>
    /\ LET resp == Head(txStatus) IN
         \/ resp.error = 2 /\ Ask(resp.session, resp.length)
         \/ resp.error = 1 /\ UNCHANGED txMeta
    /\ txStatus' = Tail(txStatus)
    /\ UNCHANGED <<sender, txData, buffer>>

(* Word j of the package, and after the last word the loop again.          *)
SendWord(word, read) ==
    /\ sender.phase = "write" /\ HasRoom(txData)
    /\ LET last == sender.j + 1 = sender.pkgWords IN
         /\ txData' = Append(txData, [word |-> word, last |-> last])
         /\ sender' = [sender EXCEPT
              !.j = IF last THEN 0 ELSE @ + 1, !.read = read,
              !.phase = IF last THEN (IF sender.sent < TotalWords THEN "answer" ELSE "done") ELSE @]
    /\ UNCHANGED <<txMeta, txStatus>>

(* Every answer counts, and words come from the stream (traffic_gen or     *)
(* ptr2Stream) in their order.                                             *)
NextWord == sender.read + 1

SendInTurn(first, next) ==
    \/ FirstRequest(first)
    \/ OnAccepted(next, sender.sent + Head(txStatus).length)
    \/ OnRefused
    \/ SendWord(NextWord, NextWord) /\ UNCHANGED buffer

scatter == sender.call = "scatter" /\ SendInTurn(sessionID[0], sessionID[NextTurn])
sendData == sender.call = "sendData" /\ SendInTurn(sessionID[0], sessionID[NextTurn])
sendDataSingleCon == sender.call = "sendDataSingleCon" /\ SendInTurn(sessionID[0], sessionID[0])

(* An answer counts when all have had theirs.  The first connection's      *)
(* words are kept for the others.                                          *)
CountsEach(length) == sender.sent + length      \* mistake: every answer counts
CountsRound(length) == IF NextTurn = 0 THEN sender.sent + length ELSE sender.sent

CastWord ==
    IF sender.index = 1
    THEN SendWord(NextWord, NextWord) /\ buffer' = [buffer EXCEPT ![sender.j + 1] = NextWord]
    ELSE SendWord(buffer[sender.j + 1], sender.read) /\ UNCHANGED buffer

Cast ==
    \/ FirstRequest(sessionID[0])
    \/ OnAccepted(sessionID[NextTurn], CountsRound(Head(txStatus).length))
    \/ OnRefused
    \/ CastWord

broadcast == sender.call = "broadcast" /\ Cast          \* words from a stream
broadcastPtr == sender.call = "broadcastPtr" /\ Cast    \* words from memory

Send ==
    /\ scatter \/ sendData \/ sendDataSingleCon \/ broadcast \/ broadcastPtr
    /\ UNCHANGED <<openVars, toeVars, listenVars, rxVars>>

-----------------------------------------------------------------------------
(* listenPorts: two processes                                              *)

listen_port_handler ==
    /\ listener.asked < UseConn /\ HasRoom(listenQ)
    /\ listenQ' = Append(listenQ, BasePort + listener.asked)
    /\ listener' = [listener EXCEPT !.asked = @ + 1]
    /\ UNCHANGED portStatusQ

port_status_handler ==
    /\ listener.answered < UseConn /\ portStatusQ # <<>>
    /\ listener' = [listener EXCEPT !.answered = @ + 1, !.opened = IF Head(portStatusQ) THEN @ + 1 ELSE @]
    /\ portStatusQ' = Tail(portStatusQ)
    /\ UNCHANGED listenQ

listenPorts == (listen_port_handler \/ port_status_handler) /\ UNCHANGED <<sender, openVars, txVars, toeVars, rxVars>>

-----------------------------------------------------------------------------
(* recvData: two processes                                                 *)

recvData_handshake ==
    /\ receiver.asked < Expected /\ notifications # <<>>
    /\ LET n == Head(notifications) IN
         IF n.length # 0
         THEN /\ HasRoom(readPkg) /\ HasRoom(lengths)
              /\ readPkg' = Append(readPkg, n)
              /\ lengths' = Append(lengths, n.length)
              /\ receiver' = [receiver EXCEPT !.asked = @ + n.length]
         ELSE UNCHANGED <<readPkg, lengths, receiver>>
    /\ notifications' = Tail(notifications)
    /\ UNCHANGED <<rxMeta, rxData, dataOut, memory, received>>

TakesLength ==
    /\ receiver.got < Expected /\ ~receiver.inPackage
    /\ rxMeta # <<>> /\ lengths # <<>>
    /\ receiver' = [receiver EXCEPT !.length = Head(lengths), !.inPackage = TRUE]
    /\ rxMeta' = Tail(rxMeta) /\ lengths' = Tail(lengths)
    /\ UNCHANGED <<notifications, readPkg, rxData, dataOut, memory, received>>

(* Up to the word marked as the last, whatever the length.                 *)
TakesWord ==
    /\ receiver.inPackage /\ rxData # <<>>
    /\ LET rx == Head(rxData) IN
         /\ receiver' = [receiver EXCEPT !.inPackage = ~rx.last, !.got = IF rx.last THEN @ + receiver.length ELSE @]
         /\ received' = Append(received, [session |-> rx.session, word |-> rx.word])
    /\ rxData' = Tail(rxData)
    /\ UNCHANGED <<notifications, readPkg, rxMeta, lengths, memory>>

(* Dropped, or passed on.                                                  *)
consumeData ==
    \/ TakesLength
    \/ TakesWord /\ UNCHANGED dataOut
consumeDataOut ==
    \/ TakesLength
    \/ TakesWord /\ HasRoom(dataOut) /\ dataOut' = Append(dataOut, Head(rxData).word)

stream2Ptr ==
    /\ Len(memory) < Expected /\ dataOut # <<>>
    /\ memory' = Append(memory, Head(dataOut))
    /\ dataOut' = Tail(dataOut)
    /\ UNCHANGED <<receiver, notifications, readPkg, rxMeta, rxData, lengths, received>>

recvData == receiver.call = "recvData" /\ (recvData_handshake \/ consumeData)
recvDataPtr == receiver.call = "recvDataPtr" /\ (recvData_handshake \/ consumeDataOut \/ stream2Ptr)

Receive == (recvData \/ recvDataPtr) /\ UNCHANGED <<sender, openVars, txVars, toeVars, listenVars>>

-----------------------------------------------------------------------------
(* The two toes and the network                                            *)

ToeOpens ==
    /\ openQ # <<>> /\ listener.opened = UseConn
    /\ openStatusQ' = Append(openStatusQ, [success |-> TRUE, sessionID |-> Head(openQ) - BasePort])
    /\ openQ' = Tail(openQ)
    /\ UNCHANGED <<sender, sessionID, txVars, toeVars, listenVars, rxVars>>

ToeAnswers ==
    /\ txMeta # <<>>
    /\ \E error \in {0, 2} :
         /\ error = 2 => refusals < MaxRefusals
         /\ txStatus' = Append(txStatus, [session |-> Head(txMeta).session, length |-> Head(txMeta).length, error |-> error])
         /\ granted' = IF error = 0 THEN Append(granted, Head(txMeta)) ELSE granted
         /\ refusals' = IF error = 2 THEN refusals + 1 ELSE refusals
    /\ txMeta' = Tail(txMeta)
    /\ UNCHANGED <<sender, txData, buffer, openVars, wire, told, listenVars, rxVars>>

ToeTakes ==
    /\ txData # <<>> /\ granted # <<>>
    /\ LET grant == Head(granted) IN
         /\ wire' = [wire EXCEPT ![grant.session] = Append(@, Head(txData).word)]
         /\ granted' = IF grant.length = 1 THEN Tail(granted) ELSE [granted EXCEPT ![1].length = @ - 1]
    /\ txData' = Tail(txData)
    /\ UNCHANGED <<sender, txMeta, txStatus, buffer, refusals, openVars, told, listenVars, rxVars>>

ToeListens ==
    /\ listenQ # <<>>
    /\ portStatusQ' = Append(portStatusQ, TRUE)
    /\ listenQ' = Tail(listenQ)
    /\ UNCHANGED <<sender, openVars, txVars, toeVars, listener, rxVars>>

(* What has arrived of a session is notified in parts.                     *)
ToeNotifies(t) ==
    /\ HasRoom(notifications)
    /\ \E length \in Parts :
         /\ told[t] + length <= Len(wire[t])
         /\ notifications' = Append(notifications, [session |-> t, length |-> length])
         /\ told' = [told EXCEPT ![t] = @ + length]
    /\ UNCHANGED <<sender, openVars, txVars, granted, refusals, wire, listenVars, receiver, readPkg, rxMeta, rxData,
                   lengths, dataOut, memory, received>>

ToeReads ==
    /\ readPkg # <<>>
    /\ LET read == Head(readPkg)
           packet == [i \in 1 .. read.length |->
                        [session |-> read.session, word |-> wire[read.session][i], last |-> i = read.length]]
       IN /\ rxMeta' = Append(rxMeta, read.session)
          /\ rxData' = rxData \o packet
          /\ wire' = [wire EXCEPT ![read.session] = SubSeq(@, read.length + 1, Len(@))]
          /\ told' = [told EXCEPT ![read.session] = @ - read.length]
    /\ readPkg' = Tail(readPkg)
    /\ UNCHANGED <<sender, openVars, txVars, granted, refusals, listenVars, receiver, notifications, lengths,
                   dataOut, memory, received>>

Toe == ToeOpens \/ ToeAnswers \/ ToeTakes \/ ToeListens \/ (\E t \in Turns : ToeNotifies(t)) \/ ToeReads

Next == openConnections \/ Send \/ listenPorts \/ Receive \/ Toe

Spec == Init /\ [][Next]_vars

-----------------------------------------------------------------------------
(* Properties                                                              *)

(* Which words a connection is to carry: all, none, or the packages of its *)
(* turns.                                                                  *)
IsOf(t, word) ==
    CASE sender.call \in Broadcasts -> TRUE
      [] sender.call = "sendDataSingleCon" -> t = 0
      [] OTHER -> ((word - 1) \div PkgWords) % UseConn = t
Share(t) == SelectSeq([word \in 1 .. TotalWords |-> word], LAMBDA word : IsOf(t, word))
Received(t) ==
    LET ofT == SelectSeq(received, LAMBDA rx : rx.session = t)
    IN [i \in DOMAIN ofT |-> ofT[i].word]

SendIsDone == sender.phase = "done"
ReceiveIsDone == receiver.got >= Expected

(* What the receiver has of a connection are the first of its words, in    *)
(* their order; where they go to memory they do so in the order in which   *)
(* they came; the kernels stop only at their end, and then all words have  *)
(* come, and nothing is left in between.                                   *)
TransferIsExact ==
    /\ \A t \in Turns : IsPrefix(Received(t), Share(t))
    /\ receiver.call = "recvDataPtr" => memory \o dataOut = [i \in DOMAIN received |-> received[i].word]
    /\ SendIsDone => sender.read = TotalWords /\ txMeta = <<>> /\ txStatus = <<>>
    /\ ReceiveIsDone =>
         /\ SendIsDone /\ \A t \in Turns : Received(t) = Share(t)
         /\ notifications = <<>> /\ readPkg = <<>> /\ lengths = <<>> /\ rxMeta = <<>> /\ rxData = <<>>
    /\ ~ENABLED Next => SendIsDone /\ ReceiveIsDone

=============================================================================
