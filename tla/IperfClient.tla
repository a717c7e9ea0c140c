----------------------------- MODULE IperfClient -----------------------------
(***************************************************************************)
(* The client of iperf_krnl: opens useConn connections, sends a header on  *)
(* each, then packages on whichever the toe has granted room for, until    *)
(* the clock says the time is over, and closes each connection after one   *)
(* more package.  Every action of the FSM also reads the clock's signal,   *)
(* as the code does after its switch.                                      *)
(***************************************************************************)
EXTENDS Integers, Sequences, FiniteSets, SequencesExt

CONSTANTS
    UseConn,        \* connections
    PkgWords,       \* pkgWordCount
    Depth,          \* of txDataBuffer, in packages (512 words)
    MaxRuns,        \* bound: experiments
    MaxRefusals,    \* bound: answers ERROR_NOSPACE in one experiment
    RefuseHeader,   \* may the toe refuse a header for lack of space
    TearDown        \* may a peer close its connection

(* PkgWords is at least two: WRITE_PKG counts from 1 and compares after it *)
(* has added one.                                                          *)

VARIABLES
    state, sessionIt, closeIt, numConnections, currentSession, wordCount,
    timeOver, stopSend,
    clock, stopSignal,
    openQ, openStatusQ,     \* to and from the toe: connections to open
    metaQ, statusQ, dataQ,  \* room asked for, answers, packages
    closed,                 \* connections the client has closed, in order
    opened,                 \* toe: connections it has opened
    granted,                \* toe: requests it has accepted and has no data for
    refusals, runs

fsmVars == <<state, sessionIt, closeIt, numConnections, currentSession, wordCount, stopSend>>
toeVars == <<openQ, openStatusQ, metaQ, statusQ, dataQ, closed, opened, granted, refusals>>
vars == <<fsmVars, timeOver, clock, stopSignal, toeVars, runs>>

Init ==
    /\ state = "IDLE" /\ sessionIt = 0 /\ closeIt = 0 /\ numConnections = 0
    /\ currentSession = 0 /\ wordCount = 0
    /\ timeOver = FALSE /\ stopSend = FALSE
    /\ clock = "WAIT_START" /\ stopSignal = FALSE
    /\ openQ = <<>> /\ openStatusQ = <<>> /\ metaQ = <<>> /\ statusQ = <<>> /\ dataQ = <<>>
    /\ closed = <<>> /\ opened = {} /\ granted = <<>>
    /\ refusals = 0 /\ runs = 0

(* The end of every call: the clock's signal, if it is there.              *)
ReadStop(was) ==
    /\ timeOver' = (was \/ stopSignal)
    /\ stopSignal' = FALSE

Meta(session, kind) == [session |-> session, kind |-> kind]

-----------------------------------------------------------------------------
(* client                                                                  *)

Idle ==
    /\ state = "IDLE" /\ runs < MaxRuns
    /\ sessionIt' = 0 /\ closeIt' = 0 /\ numConnections' = 0 /\ stopSend' = FALSE
    /\ ReadStop(FALSE)
    /\ state' = "INIT_CON"
    /\ runs' = runs + 1
    \* a new experiment: the toe's records of the last one are not kept
    /\ closed' = <<>> /\ opened' = {} /\ refusals' = 0
    /\ UNCHANGED <<currentSession, wordCount, clock, openQ, openStatusQ, metaQ, statusQ, dataQ, granted>>

InitCon ==
    /\ state = "INIT_CON"
    /\ openQ' = Append(openQ, sessionIt + 1)
    /\ IF sessionIt + 1 = UseConn
       THEN sessionIt' = 0 /\ state' = "WAIT_CON"
       ELSE sessionIt' = sessionIt + 1 /\ UNCHANGED state
    /\ ReadStop(timeOver)
    /\ UNCHANGED <<closeIt, numConnections, currentSession, wordCount, stopSend, clock,
                   openStatusQ, metaQ, statusQ, dataQ, closed, opened, granted, refusals, runs>>

(* When all have answered the clock starts.                                *)
WaitCon ==
    /\ state = "WAIT_CON" /\ openStatusQ # <<>>
    /\ LET status == Head(openStatusQ) IN
         /\ metaQ' = IF status.success THEN Append(metaQ, Meta(status.session, "header")) ELSE metaQ
         /\ numConnections' = IF status.success THEN numConnections + 1 ELSE numConnections
    /\ openStatusQ' = Tail(openStatusQ)
    /\ IF sessionIt + 1 = UseConn
       THEN sessionIt' = 0 /\ state' = "CONSTRUCT_HEADER" /\ clock' = "RUN"
       ELSE sessionIt' = sessionIt + 1 /\ UNCHANGED <<state, clock>>
    /\ ReadStop(timeOver)
    /\ UNCHANGED <<closeIt, currentSession, wordCount, stopSend, openQ, statusQ, dataQ, closed, opened, granted, refusals, runs>>

HeadersDone ==
    /\ state = "CONSTRUCT_HEADER" /\ sessionIt = numConnections
    /\ sessionIt' = 0 /\ state' = "CHECK_REQ"
    /\ ReadStop(timeOver)
    /\ UNCHANGED <<closeIt, numConnections, currentSession, wordCount, stopSend, clock, toeVars, runs>>

(* A header refused for lack of space is not asked for again.              *)
HeaderAnswered ==
    /\ state = "CONSTRUCT_HEADER" /\ sessionIt # numConnections /\ statusQ # <<>>
    /\ LET status == Head(statusQ) IN
         /\ currentSession' = IF status.error = 0 THEN status.session ELSE currentSession
         /\ state' = IF status.error = 0 THEN "INIT_RUN" ELSE state
         /\ numConnections' = IF status.error = 1 THEN numConnections - 1 ELSE numConnections
    /\ statusQ' = Tail(statusQ)
    /\ ReadStop(timeOver)
    /\ UNCHANGED <<sessionIt, closeIt, wordCount, stopSend, clock, openQ, openStatusQ, metaQ, dataQ, closed, opened, granted, refusals, runs>>

InitRun ==
    /\ state = "INIT_RUN" /\ Len(dataQ) < Depth
    /\ metaQ' = Append(metaQ, Meta(currentSession, "package"))
    /\ dataQ' = Append(dataQ, Meta(currentSession, "header"))
    /\ sessionIt' = sessionIt + 1
    /\ state' = "CONSTRUCT_HEADER"
    /\ ReadStop(timeOver)
    /\ UNCHANGED <<closeIt, numConnections, currentSession, wordCount, stopSend, clock,
                   openQ, openStatusQ, statusQ, closed, opened, granted, refusals, runs>>

CheckReq ==
    /\ state = "CHECK_REQ" /\ statusQ # <<>>
    /\ LET status == Head(statusQ) IN
         /\ currentSession' = IF status.error = 0 THEN status.session ELSE currentSession
         /\ state' = IF status.error = 0 THEN "START_PKG" ELSE state
         /\ numConnections' = IF status.error = 1 THEN numConnections - 1 ELSE numConnections
         /\ metaQ' = IF status.error = 2 THEN Append(metaQ, Meta(status.session, "package")) ELSE metaQ
    /\ statusQ' = Tail(statusQ)
    /\ ReadStop(timeOver)
    /\ UNCHANGED <<sessionIt, closeIt, wordCount, stopSend, clock, openQ, openStatusQ, dataQ, closed, opened, granted, refusals, runs>>

AsksAlways == TRUE           \* mistake: whatever the clock says
AsksAgain == ~timeOver
StartPkg ==
    /\ state = "START_PKG"
    /\ metaQ' = IF AsksAgain THEN Append(metaQ, Meta(currentSession, "package")) ELSE metaQ
    /\ stopSend' = (stopSend \/ timeOver)
    /\ wordCount' = 1
    /\ state' = "WRITE_PKG"
    /\ ReadStop(timeOver)
    /\ UNCHANGED <<sessionIt, closeIt, numConnections, currentSession, clock,
                   openQ, openStatusQ, statusQ, dataQ, closed, opened, granted, refusals, runs>>

(* PKG_GAP, a pause of packetGap calls, changes nothing else.              *)
WritePkg ==
    /\ state = "WRITE_PKG" /\ Len(dataQ) < Depth
    /\ IF wordCount + 1 = PkgWords
       THEN /\ wordCount' = 0 /\ state' = "CHECK_TIME"
            /\ dataQ' = Append(dataQ, Meta(currentSession, "package"))
       ELSE wordCount' = wordCount + 1 /\ UNCHANGED <<state, dataQ>>
    /\ ReadStop(timeOver)
    /\ UNCHANGED <<sessionIt, closeIt, numConnections, currentSession, stopSend, clock,
                   openQ, openStatusQ, metaQ, statusQ, closed, opened, granted, refusals, runs>>

CheckTime ==
    /\ state = "CHECK_TIME"
    /\ IF stopSend /\ closeIt = numConnections
       THEN state' = "IDLE" /\ UNCHANGED <<closed, closeIt>>
       ELSE /\ closed' = IF stopSend THEN Append(closed, currentSession) ELSE closed
            /\ closeIt' = IF stopSend THEN closeIt + 1 ELSE closeIt
            /\ state' = IF closeIt' # numConnections THEN "CHECK_REQ" ELSE state
    /\ ReadStop(timeOver)
    /\ UNCHANGED <<sessionIt, numConnections, currentSession, wordCount, stopSend, clock,
                   openQ, openStatusQ, metaQ, statusQ, dataQ, opened, granted, refusals, runs>>

(* A call in a state that waits still reads the signal.                    *)
Waits ==
    /\ stopSignal
    /\ \/ state = "WAIT_CON" /\ openStatusQ = <<>>
       \/ state = "CHECK_REQ" /\ statusQ = <<>>
       \/ state = "CONSTRUCT_HEADER" /\ sessionIt # numConnections /\ statusQ = <<>>
    /\ ReadStop(timeOver)
    /\ UNCHANGED <<fsmVars, clock, toeVars, runs>>

Client ==
    \/ Idle \/ InitCon \/ WaitCon \/ HeadersDone \/ HeaderAnswered \/ InitRun
    \/ CheckReq \/ StartPkg \/ WritePkg \/ CheckTime \/ Waits

-----------------------------------------------------------------------------
(* clock: at some point after its start the time is over.                  *)
TimeIsOver ==
    /\ clock = "RUN"
    /\ clock' = "WAIT_START" /\ stopSignal' = TRUE
    /\ UNCHANGED <<fsmVars, timeOver, toeVars, runs>>

-----------------------------------------------------------------------------
(* The toe                                                                 *)

(* At least one connection can be opened.                                  *)
ToeOpens ==
    /\ openQ # <<>>
    /\ \E success \in IF Head(openQ) = 1 THEN {TRUE} ELSE BOOLEAN :
         /\ openStatusQ' = Append(openStatusQ, [session |-> Head(openQ), success |-> success])
         /\ opened' = IF success THEN opened \cup {Head(openQ)} ELSE opened
    /\ openQ' = Tail(openQ)
    /\ UNCHANGED <<fsmVars, timeOver, clock, stopSignal, metaQ, statusQ, dataQ, closed, granted, refusals, runs>>

Refusable(request) == refusals < MaxRefusals /\ (request.kind = "package" \/ RefuseHeader)

ToeAnswers ==
    /\ metaQ # <<>>
    /\ \E error \in {0} \cup (IF Refusable(Head(metaQ)) THEN {2} ELSE {}) \cup (IF TearDown THEN {1} ELSE {}) :
         /\ statusQ' = Append(statusQ, [session |-> Head(metaQ).session, error |-> error])
         /\ granted' = IF error = 0 THEN Append(granted, Head(metaQ)) ELSE granted
         /\ refusals' = IF error = 2 THEN refusals + 1 ELSE refusals
    /\ metaQ' = Tail(metaQ)
    /\ UNCHANGED <<fsmVars, timeOver, clock, stopSignal, openQ, openStatusQ, dataQ, closed, opened, runs>>

ToeTakes ==
    /\ granted # <<>> /\ dataQ # <<>>
    /\ granted' = Tail(granted) /\ dataQ' = Tail(dataQ)
    /\ UNCHANGED <<fsmVars, timeOver, clock, stopSignal, openQ, openStatusQ, metaQ, statusQ, closed, opened, refusals, runs>>

Toe == ToeOpens \/ ToeAnswers \/ ToeTakes

Next == Client \/ TimeIsOver \/ Toe

Fairness ==
    /\ WF_vars(Client) /\ WF_vars(TimeIsOver)
    /\ WF_vars(ToeOpens) /\ WF_vars(ToeAnswers) /\ WF_vars(ToeTakes)

Spec == Init /\ [][Next]_vars /\ Fairness

-----------------------------------------------------------------------------
(* Properties                                                              *)

(* What the client writes is what the toe has granted, in that order, and  *)
(* a client that is idle again has closed every connection it opened, each *)
(* once, and left nothing behind: no request, no answer, no grant.         *)
NothingIsLeft ==
    /\ IsPrefix(dataQ, granted)
    /\ state = "IDLE" /\ runs > 0 =>
         /\ ToSet(closed) = opened /\ Len(closed) = Cardinality(opened)
         /\ metaQ = <<>> /\ statusQ = <<>> /\ openStatusQ = <<>>
         /\ granted = dataQ

=============================================================================
