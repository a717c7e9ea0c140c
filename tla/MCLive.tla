-------------------------------- MODULE MCLive --------------------------------
(***************************************************************************)
(* What must happen in the end in the session lookup, the state table and  *)
(* a connection, each on its own small instance.  Nothing is shared: turn, *)
(* chosen once, says which of them a behaviour is about.                   *)
(***************************************************************************)
EXTENDS SessionLookup

CONSTANT SomeSession

VARIABLES
    table, lock, wait, closeWait, req, rsp, strReq, strRsp, relReq, released, busy, seen,
    tcb, timer, events, rx, net, app, faults,
    turn

stateVars == <<table, lock, wait, closeWait, req, rsp, strReq, strRsp, relReq, released, busy, seen>>
tcpVars == <<tcb, timer, events, rx, net, app, faults>>
allVars == <<vars, stateVars, tcpVars, turn>>

State == INSTANCE StateTable WITH
    Sessions <- {SomeSession}, NoSession <- None, NoState <- None, RelDepth <- 1,
    States <- {"CLOSED", "SYN_SENT", "FIN_WAIT_1"}

(* One end opens, writes and closes, the other one closes too; the network *)
(* loses as many segments as the timer repeats.                            *)
Tcp == INSTANCE TcpConnection WITH
    Openers <- {"A"}, Listeners <- {"B"}, Senders <- {"A"}, Closers <- {"A", "B"},
    Gentle <- TRUE, RxMayFill <- {}, StartOpen <- FALSE,
    Long <- {"retransmit", "abort", "close"}, MaxData <- 1, Retries <- 3, DupAcks <- 1,
    Network <- {"lose"}, MaxFaults <- 3, SeqSpace <- 16, FirstIsn <- 10

MCInit ==
    /\ Init /\ State!Init /\ Tcp!Init
    /\ turn \in {"lookup", "state", "tcp"}

InLookup(A) == turn = "lookup" /\ A /\ UNCHANGED <<stateVars, tcpVars, turn>>
InState(A) == turn = "state" /\ A /\ UNCHANGED <<vars, tcpVars, turn>>
InTcp(A) == turn = "tcp" /\ A /\ UNCHANGED <<vars, stateVars, turn>>

MCNext == InLookup(Next) \/ InState(State!Next) \/ InTcp(Tcp!Next)

-----------------------------------------------------------------------------
(* The fairness of the three modules.  As turn never changes, fairness of  *)
(* a disjunction over different turns is fairness of each disjunct; to     *)
(* join them keeps their number, which TLC's time grows with, small.       *)

MCFairness ==
    /\ WF_allVars(InState(State!ServeStream) \/ InLookup(RecycleId \/ NewId) \/ InTcp(Tcp!Receive("A")))
    /\ WF_allVars(InState(State!StreamTake) \/ InLookup(LupRspCreate \/ LupRspReply \/ UpdRsp) \/ InTcp(Tcp!Receive("B")))
    /\ WF_allVars(InState(State!LookupTake) \/ InLookup(SendInsert \/ SendDelete) \/ InTcp(Tcp!TxEngine("A")))
    /\ WF_allVars(InState(State!ClientWrite("rx")) \/ InLookup(UpdateReply) \/ InTcp(Tcp!TxEngine("B")))
    /\ WF_allVars(InState(State!ClientWrite("tx")) \/ InLookup(RevInsert) \/ InTcp(Tcp!TimeOut("A")))
    /\ WF_allVars(InLookup(CamLookup) \/ InTcp(Tcp!TimeOut("B")))
    /\ SF_allVars(InState(State!ServeTimer) \/ InLookup(CamUpdate(NextUpdate)) \/ InTcp(Tcp!OfferEvent("A")))
    /\ SF_allVars(InState(State!RetryClose) \/ InTcp(Tcp!OfferEvent("B")))
    /\ \A c \in State!Clients :
          /\ SF_allVars(InState(State!ServeClient(c)))
          /\ SF_allVars(InState(State!RetryClient(c)))
    /\ \A e \in Tcp!Ends :
          /\ WF_allVars(InTcp(Tcp!Abort(e)))
          /\ WF_allVars(InTcp(Tcp!CloseTimeOut(e)))
          /\ WF_allVars(InTcp(Tcp!AckTimeOut(e)))
          /\ WF_allVars(InTcp(Tcp!Release(e)))

MCSpec == MCInit /\ [][MCNext]_allVars /\ MCFairness

-----------------------------------------------------------------------------

(* New requests are served before those put off, so that progress of one   *)
(* that was put off needs the others to pause (see StateTable).  Lookups   *)
(* are answered too.                                                       *)
RequestsAreServed ==
    State!RxProgress /\ State!TxProgress /\ State!CloseProgress /\ LookupsAreAnswered

(* A handshake ends, its opener hears of it, and what is written after it  *)
(* arrives; once both applications have closed, both ends return to CLOSED.*)
ConnectionAdvances == Tcp!HandshakeEnds /\ Tcp!OpenIsAnswered /\ Tcp!DataArrives /\ Tcp!BothClose

=============================================================================
