------------------------------- MODULE MCTimers -------------------------------
(***************************************************************************)
(* What is called in every clock cycle and must get on by itself: the loop *)
(* of retransmit timer, events and tx engine (TimerLoop), the close timer  *)
(* and the probe timer, which scan their tables, and the port table, each  *)
(* on its own small instance.  Nothing is shared: turn, chosen once, says  *)
(* which of them a behaviour is about.                                     *)
(***************************************************************************)
EXTENDS TimerLoop, PortTable

CONSTANTS
    ScanSessions,   \* MAX_SESSIONS of close timer and probe timer
    ScanTime,       \* what they are set to, in scans of the table
    ScanDepth,      \* depth of their FIFOs
    MaxScanSets     \* bound: how often each is set

ASSUME ScanAssumption ==
    /\ ScanSessions \in Nat /\ 0 < ScanSessions /\ ScanSessions <= 65536     \* 16 bits
    /\ ScanTime \in Nat /\ ScanDepth \in Nat /\ MaxScanSets \in Nat

VARIABLES
    cEntry, cCurr, cSet, cPrev, cWaiting, cSetQ, closedQ, abortedQ, releaseQ, cSets, since,
    pEntry, pCurr, pSet, pPrev, pWaiting, pSetQ, pClearQ, eventQ, pSets, wanted,
    turn

closeVars == <<cEntry, cCurr, cSet, cPrev, cWaiting, cSetQ, closedQ, abortedQ, releaseQ, cSets, since>>
probeVars == <<pEntry, pCurr, pSet, pPrev, pWaiting, pSetQ, pClearQ, eventQ, pSets, wanted>>
allVars == <<vars, closeVars, probeVars, portVars, turn>>

(* What a row is set to: one scan at first, none for the repetitions.      *)
MCInterval == [r \in 0 .. MaxRetries |-> IF r = 0 THEN 1 ELSE 0]

CloseT == INSTANCE CloseTimer WITH
    MaxSessions <- ScanSessions, CloseTime <- ScanTime, Depth <- ScanDepth, MaxSets <- MaxScanSets,
    entry <- cEntry, curr <- cCurr, set <- cSet, prev <- cPrev, waiting <- cWaiting,
    setQ <- cSetQ, sets <- cSets

ProbeT == INSTANCE ProbeTimer WITH
    MaxSessions <- ScanSessions, ProbeTime <- ScanTime, Depth <- ScanDepth, MaxSets <- MaxScanSets,
    entry <- pEntry, curr <- pCurr, set <- pSet, prev <- pPrev, waiting <- pWaiting,
    setQ <- pSetQ, clearQ <- pClearQ, sets <- pSets

InLoop(A) == turn = "loop" /\ A /\ UNCHANGED <<closeVars, probeVars, portVars, turn>>
InClose(A) == turn = "close" /\ A /\ UNCHANGED <<vars, probeVars, portVars, turn>>
InProbe(A) == turn = "probe" /\ A /\ UNCHANGED <<vars, closeVars, portVars, turn>>
InPorts(A) == turn = "ports" /\ A /\ UNCHANGED <<vars, closeVars, probeVars, turn>>

MCInit ==
    /\ Init /\ CloseT!Init /\ ProbeT!Init /\ PortInit
    /\ turn \in {"loop", "close", "probe", "ports"}

MCNext == InLoop(Next) \/ InClose(CloseT!Next) \/ InProbe(ProbeT!Next) \/ InPorts(PortNext)

(* The fairness of the four modules.   As turn never changes, fairness of  *)
(* a disjunction over different turns is fairness of each disjunct.        *)
MCFairness ==
    /\ WF_allVars(InLoop(RetransmitTimerCycle) \/ InClose(CloseT!CloseTimerCycle)
                    \/ InProbe(ProbeT!ProbeTimerCycle) \/ InPorts(CheckListening))
    /\ WF_allVars(InLoop(MergeTimers) \/ InClose(CloseT!Merge) \/ InProbe(ProbeT!TakeEvent)
                    \/ InPorts(ReleasePort))
    /\ WF_allVars(InLoop(EventEngineCycle) \/ InClose(CloseT!TakeRelease) \/ InPorts(ReadDst))
    /\ WF_allVars(InLoop(AckDelayStep) \/ InPorts(ReadListening \/ ReadUsed))
    /\ WF_allVars(InLoop(TxTake)) /\ WF_allVars(InLoop(TxSend \/ TxOther))
    /\ WF_allVars(InLoop(CloseAborted))
    /\ SF_allVars(InPorts(CheckUsed))

MCSpec == MCInit /\ [][MCNext]_allVars /\ MCFairness

-----------------------------------------------------------------------------

MCSilentPeerIsGivenUp ==
    \A s \in Silent : turn = "loop" /\ s \in unacked ~> s \notin alive
MCAcksAreSent ==
    \A s \in Sessions \ {0} : []<>(turn = "loop" => s \notin owed)

(* The types of the three modules, and of the loop what makes its          *)
(* invariants inductive.                                                   *)
MCTypeOK ==
    /\ TypeOK /\ RunningRowsAreSessions /\ ClearsAreOlder
    /\ CloseT!TypeOK /\ ProbeT!TypeOK

ProbeIsTimed == ProbeT!ProbeIsTimed

(* A close timer and a probe timer that are set fire, or are cleared, and  *)
(* the close timer not before its time; and an acknowledgement that is     *)
(* delayed is sent.                                                        *)
TimersFire == MCAcksAreSent /\ CloseT!StaysItsTime /\ CloseT!ClosesInTheEnd /\ ProbeT!ProbesAreSent

=============================================================================
