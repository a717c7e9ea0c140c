------------------------------ MODULE AllReduce ------------------------------
(***************************************************************************)
(* allReduce_sum of the kernels' library: gather the same number of words  *)
(* of every connection, add them up word by word, keep the sums and send   *)
(* them back to all.  Every function of the dataflow region is a process,  *)
(* every stream between them a FIFO; lengths are in words of 64 bytes.  A  *)
(* word is named by its connection and its number, a sum by the set of the *)
(* words in it.  The toe underneath keeps what it received in memory (no   *)
(* DDR bypass): it hands over any part of what has arrived.                *)
(***************************************************************************)
EXTENDS Integers, Sequences, FiniteSets, FiniteSetsExt, SequencesExt

CONSTANTS
    UseConn,        \* connections, numbered from 0
    PkgWords,       \* pkgWordCount
    ExpWords,       \* words expected of each connection
    Depth,          \* of the streams (512)
    MaxRefusals     \* bound: answers ERROR_NOSPACE

ASSUME AllReduceAssumption ==
    /\ UseConn \in Nat \ {0, 1} /\ PkgWords \in Nat \ {0} /\ Depth \in Nat \ {0}
    /\ MaxRefusals \in Nat
    /\ ExpWords \in Nat /\ ExpWords > 0 /\ ExpWords % PkgWords = 0

Conns == 0 .. UseConn - 1

VARIABLES
    arrived, readAt,    \* toe: words received of each connection, and those it was asked for and gave
    notifications, readPkg, rxData,
    available, rxCount, rxTurn, lengths,            \* gather_handshake
    inPackage,                                      \* gather_consumeData
    gathered, streamIndex, pkgWordIndex,            \* split_stream
    lanes, sums, toSend, result,                    \* sum_from_streams, duplicate_stream
    started, txTurn, sentWords, pkgWords, sending, buffer,   \* broadcast
    txMeta, txStatus, txData,
    granted, received, refusals                     \* toe

rxVars == <<arrived, readAt, notifications, readPkg, rxData>>
handshakeVars == <<available, rxCount, rxTurn, lengths>>
sumVars == <<gathered, streamIndex, pkgWordIndex, lanes, sums, toSend, result>>
castVars == <<started, txTurn, sentWords, pkgWords, sending, buffer>>
txVars == <<txMeta, txStatus, txData, granted, received, refusals>>
vars == <<rxVars, handshakeVars, inPackage, sumVars, castVars, txVars>>

None == [source |-> "none", at |-> 0]

Init ==
    /\ arrived = [c \in Conns |-> 0] /\ readAt = arrived
    /\ notifications = <<>> /\ readPkg = <<>> /\ rxData = <<>>
    /\ available = arrived /\ rxCount = arrived /\ rxTurn = 0 /\ lengths = <<>>
    /\ inPackage = FALSE
    /\ gathered = <<>> /\ streamIndex = 0 /\ pkgWordIndex = 0
    /\ lanes = [c \in Conns |-> <<>>]
    /\ sums = <<>> /\ toSend = <<>> /\ result = <<>>
    /\ started = FALSE /\ txTurn = 0 /\ sentWords = 0 /\ pkgWords = 0
    /\ sending = None /\ buffer = <<>>
    /\ txMeta = <<>> /\ txStatus = <<>> /\ txData = <<>>
    /\ granted = <<>> /\ received = lanes /\ refusals = 0

HasRoom(q) == Len(q) < Depth
NextConn(c) == IF c + 1 = UseConn THEN 0 ELSE c + 1
Requested == MapThenSumSet(LAMBDA c : rxCount[c], Conns)
Gathered == Requested >= UseConn * ExpWords

-----------------------------------------------------------------------------
(* gather                                                                  *)

(* A notification is taken in before any request goes out.                 *)
Notified ==
    /\ ~Gathered
    /\ notifications # <<>>
    /\ LET n == Head(notifications) IN
         available' = [available EXCEPT ![n.conn] = @ + n.length]
    /\ notifications' = Tail(notifications)
    /\ UNCHANGED <<arrived, readAt, readPkg, rxData, rxCount, rxTurn, lengths, inPackage, sumVars, castVars, txVars>>

(* A whole package, or what is left of the last one: the words to ask for. *)
ReadLength(c) ==
    IF available[c] >= PkgWords THEN PkgWords
    ELSE IF available[c] > 0 /\ rxCount[c] + PkgWords > ExpWords THEN ExpWords - rxCount[c]
    ELSE 0

RequestPackage ==
    /\ ~Gathered
    /\ notifications = <<>>
    /\ HasRoom(lengths) /\ HasRoom(readPkg)
    /\ LET length == ReadLength(rxTurn) IN
         /\ length > 0
         /\ readPkg' = Append(readPkg, [conn |-> rxTurn, length |-> length])
         /\ lengths' = Append(lengths, length)
         /\ rxCount' = [rxCount EXCEPT ![rxTurn] = @ + length]
         /\ available' = [available EXCEPT ![rxTurn] = @ - length]
    /\ rxTurn' = NextConn(rxTurn)
    /\ UNCHANGED <<arrived, readAt, notifications, rxData, inPackage, sumVars, castVars, txVars>>

(* gather_consumeData: the words up to the one marked last, for each       *)
(* length that was announced.                                              *)
ConsumeWord ==
    /\ rxData # <<>> /\ HasRoom(gathered)
    /\ inPackage \/ lengths # <<>>
    /\ lengths' = IF inPackage THEN lengths ELSE Tail(lengths)
    /\ inPackage' = ~Head(rxData).last
    /\ gathered' = Append(gathered, Head(rxData).word)
    /\ rxData' = Tail(rxData)
    /\ UNCHANGED <<arrived, readAt, notifications, readPkg, available, rxCount, rxTurn,
                   streamIndex, pkgWordIndex, lanes, sums, toSend, result, castVars, txVars>>

-----------------------------------------------------------------------------
(* reduce                                                                  *)

(* The words of a package go to one lane, then it is the next one's turn.  *)
PkgIsSplitEarly(n) == TRUE      \* mistake: word by word
PkgIsSplit(n) == n = PkgWords

SplitWord ==
    /\ gathered # <<>> /\ HasRoom(lanes[streamIndex])
    /\ lanes' = [lanes EXCEPT ![streamIndex] = Append(@, Head(gathered))]
    /\ gathered' = Tail(gathered)
    /\ IF PkgIsSplit(pkgWordIndex + 1)
         THEN streamIndex' = NextConn(streamIndex) /\ pkgWordIndex' = 0
         ELSE pkgWordIndex' = pkgWordIndex + 1 /\ UNCHANGED streamIndex
    /\ UNCHANGED <<rxVars, handshakeVars, inPackage, sums, toSend, result, castVars, txVars>>

SumWord ==
    /\ \A c \in Conns : lanes[c] # <<>>
    /\ HasRoom(sums)
    /\ sums' = Append(sums, {Head(lanes[c]) : c \in Conns})
    /\ lanes' = [c \in Conns |-> Tail(lanes[c])]
    /\ UNCHANGED <<rxVars, handshakeVars, inPackage, gathered, streamIndex, pkgWordIndex, toSend, result, castVars, txVars>>

DuplicateWord ==
    /\ sums # <<>> /\ HasRoom(toSend)
    /\ toSend' = Append(toSend, Head(sums))
    /\ result' = Append(result, Head(sums))
    /\ sums' = Tail(sums)
    /\ UNCHANGED <<rxVars, handshakeVars, inPackage, gathered, streamIndex, pkgWordIndex, lanes, castVars, txVars>>

-----------------------------------------------------------------------------
(* broadcast                                                               *)

(* The sessions to send to are those gather_handshake noted: the broadcast *)
(* comes after it, as in the order of the calls.                           *)
StartBroadcast ==
    /\ Gathered /\ ~started
    /\ started' = TRUE
    /\ txMeta' = Append(txMeta, [conn |-> txTurn, length |-> PkgWords])
    /\ UNCHANGED <<rxVars, handshakeVars, inPackage, sumVars, txTurn, sentWords, pkgWords, sending, buffer,
                   txStatus, txData, granted, received, refusals>>

NextLength(sent) == IF sent + PkgWords < ExpWords THEN PkgWords ELSE ExpWords - sent

(* What a round has sent is counted when the last connection has it.       *)
SentAfter(length) == IF NextConn(txTurn) = 0 THEN sentWords + length ELSE sentWords

(* An accepted request is followed by the next one and then by its data:   *)
(* the first connection's is read from the stream and kept for the others. *)
OnAccepted ==
    /\ started /\ sending = None /\ sentWords < ExpWords
    /\ txStatus # <<>> /\ Head(txStatus).error = 0
    /\ LET sent == SentAfter(Head(txStatus).length)
           next == NextConn(txTurn)
       IN  /\ txTurn' = next
           /\ sentWords' = sent
           /\ pkgWords' = IF sent < ExpWords THEN NextLength(sent) ELSE pkgWords
           /\ txMeta' = IF sent < ExpWords
                        THEN Append(txMeta, [conn |-> next, length |-> NextLength(sent)])
                        ELSE txMeta
           /\ sending' = [source |-> IF next = 1 THEN "stream" ELSE "buffer", at |-> 1]
           /\ buffer' = IF next = 1 THEN <<>> ELSE buffer
    /\ txStatus' = Tail(txStatus)
    /\ UNCHANGED <<rxVars, handshakeVars, inPackage, sumVars, started, txData, granted, received, refusals>>

(* Refused for lack of space: the same again.  A connection that is gone   *)
(* is only reported.                                                       *)
OnRefused ==
    /\ started /\ sending = None /\ sentWords < ExpWords
    /\ txStatus # <<>> /\ Head(txStatus).error # 0
    /\ txMeta' = IF Head(txStatus).error = 1 THEN txMeta
                 ELSE Append(txMeta, [conn |-> Head(txStatus).conn, length |-> Head(txStatus).length])
    /\ txStatus' = Tail(txStatus)
    /\ UNCHANGED <<rxVars, handshakeVars, inPackage, sumVars, castVars, txData, granted, received, refusals>>

SendWord ==
    /\ sending # None /\ HasRoom(txData)
    /\ \/ sending.source = "buffer" /\ UNCHANGED <<toSend, buffer>>
       \/ /\ sending.source = "stream" /\ toSend # <<>>
          /\ toSend' = Tail(toSend)
          /\ buffer' = Append(buffer, Head(toSend))
    /\ txData' = Append(txData, [sum |-> buffer'[sending.at], last |-> sending.at = pkgWords])
    /\ sending' = IF sending.at = pkgWords THEN None ELSE [sending EXCEPT !.at = @ + 1]
    /\ UNCHANGED <<rxVars, handshakeVars, inPackage, gathered, streamIndex, pkgWordIndex, lanes, sums, result,
                   started, txTurn, sentWords, pkgWords, txMeta, txStatus, granted, received, refusals>>

-----------------------------------------------------------------------------
(* The toe                                                                 *)

(* Segments of any length arrive and are notified.                         *)
Arrive(c, length) ==
    /\ arrived[c] + length <= ExpWords
    /\ arrived' = [arrived EXCEPT ![c] = @ + length]
    /\ notifications' = Append(notifications, [conn |-> c, length |-> length])
    /\ UNCHANGED <<readAt, readPkg, rxData, handshakeVars, inPackage, sumVars, castVars, txVars>>

(* What is asked for is read from the connection's memory, whether it has  *)
(* arrived or not.                                                         *)
ToeRead ==
    /\ readPkg # <<>> /\ rxData = <<>>
    /\ LET p == Head(readPkg)
           from == readAt[p.conn]
       IN  /\ rxData' = [i \in 1 .. p.length |->
                           [word |-> <<p.conn, IF from + i <= arrived[p.conn] THEN from + i ELSE 0>>,
                            last |-> i = p.length]]
           /\ readAt' = [readAt EXCEPT ![p.conn] = from + p.length]
    /\ readPkg' = Tail(readPkg)
    /\ UNCHANGED <<arrived, notifications, handshakeVars, inPackage, sumVars, castVars, txVars>>

ToeAnswer ==
    /\ txMeta # <<>>
    /\ \E error \in {0} \cup (IF refusals < MaxRefusals THEN {2} ELSE {}) :
         /\ txStatus' = Append(txStatus, [conn |-> Head(txMeta).conn, length |-> Head(txMeta).length, error |-> error])
         /\ granted' = IF error = 0 THEN Append(granted, Head(txMeta)) ELSE granted
         /\ refusals' = IF error = 0 THEN refusals ELSE refusals + 1
    /\ txMeta' = Tail(txMeta)
    /\ UNCHANGED <<rxVars, handshakeVars, inPackage, sumVars, castVars, txData, received>>

(* The toe takes as many words as the oldest request said.                 *)
ToeTake ==
    /\ granted # <<>> /\ Len(txData) >= Head(granted).length
    /\ received' = [received EXCEPT ![Head(granted).conn] = @ \o SubSeq(txData, 1, Head(granted).length)]
    /\ txData' = SubSeq(txData, Head(granted).length + 1, Len(txData))
    /\ granted' = Tail(granted)
    /\ UNCHANGED <<rxVars, handshakeVars, inPackage, sumVars, castVars, txMeta, txStatus, refusals>>

-----------------------------------------------------------------------------

Gather == Notified \/ RequestPackage
Reduce == SplitWord \/ SumWord \/ DuplicateWord
Broadcast == StartBroadcast \/ OnAccepted \/ OnRefused \/ SendWord

Next ==
    \/ Gather \/ ConsumeWord \/ Reduce \/ Broadcast
    \/ ToeRead \/ ToeAnswer \/ ToeTake
    \/ \E c \in Conns, length \in 1 .. ExpWords : Arrive(c, length)

(* Every process runs, the toe works and every peer sends all its words.   *)
Fairness ==
    /\ WF_vars(Gather) /\ WF_vars(ConsumeWord)
    /\ WF_vars(SplitWord) /\ WF_vars(SumWord) /\ WF_vars(DuplicateWord) /\ WF_vars(Broadcast)
    /\ WF_vars(ToeRead) /\ WF_vars(ToeAnswer) /\ WF_vars(ToeTake)
    /\ \A c \in Conns : WF_vars(\E length \in 1 .. ExpWords : Arrive(c, length))

Spec == Init /\ [][Next]_vars /\ Fairness

-----------------------------------------------------------------------------
(* Properties                                                              *)

SumOf(i) == {<<c, i>> : c \in Conns}

EndsPackage(i) == i % PkgWords = 0 \/ i = ExpWords

(* Sum i that the kernel keeps and that each connection is sent is that of *)
(* word i of every connection - none of another place, none that has not   *)
(* arrived - and the packages sent end where their requests said: the      *)
(* turns of gather, split and broadcast agree whatever order segments come *)
(* in and whatever the toe refuses at first.                               *)
SumsAreExact ==
    /\ \A i \in DOMAIN result : result[i] = SumOf(i)
    /\ \A c \in Conns : \A i \in DOMAIN received[c] :
         received[c][i] = [sum |-> SumOf(i), last |-> EndsPackage(i)]

(* What must come in the end, as no process of the region waits for ever   *)
(* for another one: every connection has all sums.                         *)
AllSumsAreSent == \A c \in Conns : Len(received[c]) = ExpWords

=============================================================================
