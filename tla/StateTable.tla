------------------------------ MODULE StateTable ------------------------------
(***************************************************************************)
(* hls/toe/state_table: the process that owns the TCP state of every       *)
(* session and serialises the read-modify-write accesses of its clients.   *)
(*                                                                         *)
(*   rx     the receive FSM (rx_engine): reads the state of the session a  *)
(*          segment belongs to, decides, writes the new state              *)
(*   tx     tx_app_if: the same for an application's close, and a write    *)
(*          without a read (SYN_SENT) for an active open                   *)
(*   stream tx_app_stream_if: plain reads, one for each application write  *)
(*   timer  close_timer and retransmit_timer: close and release a session  *)
(*                                                                         *)
(* Clients and table are dataflow processes joined by FIFOs.  A step of the *)
(* table is one call of state_table(), which serves at most one request.   *)
(* An rx or tx read locks the session until the same client's next write.  *)
(***************************************************************************)
EXTENDS Naturals, Sequences

CONSTANTS
    Sessions,       \* session identifiers, 0 .. MAX_SESSIONS-1
    NoSession,      \* "no session": an open lock, an idle client
    States,         \* the values of sessionState in use
    Depth,          \* depth of the two clients' request FIFOs (2 in toe.cpp)
    RelDepth,       \* depth of the FIFOs of closes and releases (2 in toe.cpp)
    NoState         \* initial value of the history variable seen

ASSUME SessionsAssumption == NoSession \notin Sessions
ASSUME StatesAssumption ==
    {"CLOSED", "SYN_SENT", "FIN_WAIT_1"} \subseteq States
ASSUME DepthAssumption == Depth \in Nat \ {0} /\ RelDepth \in Nat \ {0}

Clients == {"rx", "tx"}

ReadReq(s)     == [op |-> "read",  id |-> s, state |-> "CLOSED"]
WriteReq(s, v) == [op |-> "write", id |-> s, state |-> v]
Requests       == [op : {"read", "write"}, id : Sessions, state : States]
\* An empty stt_rxAccess/stt_txAccess: stt_rxWait or stt_txWait is false.
NoReq          == [op |-> "none", id |-> NoSession, state |-> "CLOSED"]

VARIABLES
    table,      \* state_table[]
    lock,       \* lock[c]: the session client c has locked, or NoSession
    wait,       \* wait[c]: the request of c that met a foreign lock, or NoReq
    closeWait,  \* the timer release that met a lock, or NoSession
    req,        \* req[c]: rxEng2stateTable_upd_req, txApp2stateTable_upd_req
    rsp,        \* rsp[c]: stateTable2rxEng_upd_rsp, stateTable2TxApp_upd_rsp
    strReq,     \* txApp2stateTable_req
    strRsp,     \* stateTable2txApp_rsp
    relReq,     \* timer2stateTable_releaseState
    released,   \* stateTable2sLookup_releaseSession
    busy,       \* busy[c]: the session c is working on (rx FSM in TRANSITION,
                \*          tx_app_if in CLOSE_CONN), or NoSession
    seen        \* history: the state c was told with its lock, NoState without one

tableVars  == <<table, lock, wait, closeWait, seen>>
streamVars == <<strReq, strRsp>>
vars == <<table, lock, wait, closeWait, req, rsp, strReq, strRsp, relReq,
          released, busy, seen>>

Init ==
    /\ table = [s \in Sessions |-> "CLOSED"]
    /\ lock = [c \in Clients |-> NoSession]
    /\ wait = [c \in Clients |-> NoReq]
    /\ closeWait = NoSession
    /\ req = [c \in Clients |-> <<>>]
    /\ rsp = [c \in Clients |-> <<>>]
    /\ strReq = <<>> /\ strRsp = <<>>
    /\ relReq = <<>> /\ released = <<>>
    /\ busy = [c \in Clients |-> NoSession]
    /\ seen = [c \in Clients |-> NoState]

-----------------------------------------------------------------------------
(* The clients.                                                            *)

\* The rx FSM in LOAD and tx_app_if in IDLE ask for the state of a session.
ClientRead(c, s) ==
    /\ busy[c] = NoSession
    /\ Len(req[c]) < Depth
    /\ req' = [req EXCEPT ![c] = Append(@, ReadReq(s))]
    /\ busy' = [busy EXCEPT ![c] = s]
    /\ UNCHANGED <<tableVars, rsp, streamVars, relReq, released>>

\* Every branch of the rx FSM ends in exactly one write of some state.
Decisions(c, v) ==
    IF c = "rx" THEN States
    ELSE IF v \in {"ESTABLISHED", "FIN_WAIT_1", "FIN_WAIT_2"} THEN {"FIN_WAIT_1"}
    ELSE {v}

\* The rx FSM in TRANSITION and tx_app_if in CLOSE_CONN: take the state read,
\* decide, write the result back (which also gives the lock up).
ClientWrite(c) ==
    /\ busy[c] # NoSession
    /\ rsp[c] # <<>>
    /\ Len(req[c]) < Depth
    /\ \E v \in Decisions(c, Head(rsp[c])) :
          req' = [req EXCEPT ![c] = Append(@, WriteReq(busy[c], v))]
    /\ rsp' = [rsp EXCEPT ![c] = Tail(@)]
    /\ busy' = [busy EXCEPT ![c] = NoSession]
    /\ UNCHANGED <<tableVars, streamVars, relReq, released>>

\* tx_app_if in IDLE: an active open, a write that no read precedes.
TxOpen(s) ==
    /\ busy["tx"] = NoSession
    /\ Len(req["tx"]) < Depth
    /\ req' = [req EXCEPT !["tx"] = Append(@, WriteReq(s, "SYN_SENT"))]
    /\ UNCHANGED <<tableVars, rsp, streamVars, relReq, released, busy>>

\* tasi_metaLoader: READ_REQUEST asks, READ_META waits for the answer.
StreamAsk(s) ==
    /\ strReq = <<>> /\ strRsp = <<>>
    /\ strReq' = <<s>>
    /\ UNCHANGED <<tableVars, req, rsp, strRsp, relReq, released, busy>>

StreamTake ==
    /\ strRsp # <<>>
    /\ strRsp' = Tail(strRsp)
    /\ UNCHANGED <<tableVars, req, rsp, strReq, relReq, released, busy>>

\* timerCloseMerger: a session timed out.
TimerRelease(s) ==
    /\ Len(relReq) < RelDepth
    /\ relReq' = Append(relReq, s)
    /\ UNCHANGED <<tableVars, req, rsp, streamVars, released, busy>>

\* session_lookup_controller takes a released identifier.
LookupTake ==
    /\ released # <<>>
    /\ released' = Tail(released)
    /\ UNCHANGED <<tableVars, req, rsp, streamVars, relReq, busy>>

-----------------------------------------------------------------------------
(* The table.                                                              *)

Other(c) == IF c = "rx" THEN "tx" ELSE "rx"

\* In this module and the others, an operator followed by one with the same
\* parameters that does not use it (MayAccessAlways before MayAccess) is a
\* plausible bug, used to show that the properties notice it.

\* A client's request is put off while the other client has the session locked.
MayAccessAlways(c, s) == TRUE
MayAccess(c, s) == lock[Other(c)] # s

\* A close is put off while any client has the session locked.
MayCloseRxOnly(s) == lock["rx"] # s
MayClose(s) == \A c \in Clients : lock[c] # s

\* rx releases the identifier of a session it closes; tx never closes one.
Releases(c, q) == c = "rx" /\ q.op = "write" /\ q.state = "CLOSED"

HoldLock(c, s) == [lock EXCEPT ![c] = s]
KeepLock(c)    == lock
DropLock(c)    == [lock EXCEPT ![c] = NoSession]

\* Serve request q of client c.
Access(c, q) ==
    \/ /\ q.op = "read"
       /\ rsp' = [rsp EXCEPT ![c] = Append(@, table[q.id])]
       /\ seen' = [seen EXCEPT ![c] = table[q.id]]
       /\ lock' = HoldLock(c, q.id)
       /\ UNCHANGED <<table, released>>
    \/ /\ q.op = "write"
       /\ IF Releases(c, q)
          THEN /\ Len(released) < RelDepth
               /\ released' = Append(released, q.id)
          ELSE UNCHANGED released
       /\ table' = [table EXCEPT ![q.id] = q.state]
       /\ lock' = DropLock(c)
       /\ seen' = [seen EXCEPT ![c] = NoState]
       /\ UNCHANGED rsp

CloseSession(s) ==
    /\ Len(released) < RelDepth
    /\ table' = [table EXCEPT ![s] = "CLOSED"]
    /\ released' = Append(released, s)

FreshClient(c) == req[c] # <<>> /\ wait[c] = NoReq
FreshStream    == strReq # <<>>
FreshTimer     == relReq # <<>> /\ closeWait = NoSession
AnyFresh       == FreshStream \/ FreshTimer \/ \E c \in Clients : FreshClient(c)

\* A new request of c: served, or put off if the other client has the lock.
ServeClient(c) ==
    /\ FreshClient(c)
    /\ c = "rx" => ~FreshClient("tx") /\ ~FreshStream
    /\ req' = [req EXCEPT ![c] = Tail(@)]
    /\ LET q == Head(req[c]) IN
         \/ /\ MayAccess(c, q.id)
            /\ Access(c, q)
            /\ UNCHANGED wait
         \/ /\ ~MayAccess(c, q.id)
            /\ wait' = [wait EXCEPT ![c] = q]
            /\ UNCHANGED <<table, lock, rsp, released, seen>>
    /\ UNCHANGED <<closeWait, streamVars, relReq, busy>>

ServeStream ==
    /\ FreshStream
    /\ ~FreshClient("tx")
    /\ strRsp' = Append(strRsp, table[Head(strReq)])
    /\ strReq' = Tail(strReq)
    /\ UNCHANGED <<tableVars, req, rsp, relReq, released, busy>>

ServeTimer ==
    /\ FreshTimer
    /\ ~FreshStream /\ \A c \in Clients : ~FreshClient(c)
    /\ relReq' = Tail(relReq)
    /\ LET s == Head(relReq) IN
         \/ /\ MayClose(s)
            /\ CloseSession(s)
            /\ UNCHANGED closeWait
         \/ /\ ~MayClose(s)
            /\ closeWait' = s
            /\ UNCHANGED <<table, released>>
    /\ UNCHANGED <<lock, wait, req, rsp, streamVars, busy, seen>>

WaitIsOver(c)   == [wait EXCEPT ![c] = NoReq]

CloseIsPutOff == closeWait # NoSession

\* A request put off is retried when nothing new is to be served.  The code's
\* else-if chain looks at rx only if tx does not wait, at the timer only if
\* neither does, even when the one it looks at cannot go on.
RetryClient(c) ==
    /\ ~AnyFresh
    /\ wait[c] # NoReq
    /\ c = "rx" => wait["tx"] = NoReq
    /\ MayAccess(c, wait[c].id)
    /\ Access(c, wait[c])
    /\ wait' = WaitIsOver(c)
    /\ UNCHANGED <<closeWait, req, streamVars, relReq, busy>>

RetryClose ==
    /\ ~AnyFresh
    /\ \A c \in Clients : wait[c] = NoReq
    /\ CloseIsPutOff
    /\ MayClose(closeWait)
    /\ CloseSession(closeWait)
    /\ closeWait' = NoSession
    /\ UNCHANGED <<lock, wait, req, rsp, streamVars, relReq, busy, seen>>

Table ==
    \/ \E c \in Clients : ServeClient(c) \/ RetryClient(c)
    \/ ServeStream \/ ServeTimer \/ RetryClose

Environment ==
    \/ \E c \in Clients : ClientWrite(c) \/ \E s \in Sessions : ClientRead(c, s)
    \/ \E s \in Sessions : TxOpen(s) \/ StreamAsk(s) \/ TimerRelease(s)
    \/ StreamTake \/ LookupTake

Next == Table \/ Environment

Spec == Init /\ [][Next]_vars

(***************************************************************************)
(* Fairness.  Every process is called in every clock cycle, so what is     *)
(* enabled and stays enabled is done (WF).  A branch of the table can lose  *)
(* a cycle to a branch before it, but not every cycle (SF): a client waits  *)
(* for its answer before it asks again, which takes it several cycles and   *)
(* the table one.                                                           *)
(***************************************************************************)
Fairness ==
    /\ WF_vars(ServeStream) /\ WF_vars(StreamTake) /\ WF_vars(LookupTake)
    /\ SF_vars(ServeTimer) /\ SF_vars(RetryClose)
    /\ \A c \in Clients : /\ WF_vars(ClientWrite(c))
                          /\ SF_vars(ServeClient(c))
                          /\ SF_vars(RetryClient(c))

FairSpec == Spec /\ Fairness

-----------------------------------------------------------------------------
(* Properties.                                                             *)

TypeOK ==
    /\ table \in [Sessions -> States]
    /\ lock \in [Clients -> Sessions \cup {NoSession}]
    /\ wait \in [Clients -> Requests \cup {NoReq}]
    /\ closeWait \in Sessions \cup {NoSession}
    /\ req \in [Clients -> Seq(Requests)]
    /\ rsp \in [Clients -> Seq(States)]
    /\ strReq \in Seq(Sessions) /\ strRsp \in Seq(States)
    /\ relReq \in Seq(Sessions) /\ released \in Seq(Sessions)
    /\ busy \in [Clients -> Sessions \cup {NoSession}]
    /\ seen \in [Clients -> States \cup {NoState}]

\* The rx FSM and tx_app_if never have the same session locked: the two
\* comparisons at the top of the rx and tx branches are enough.
MutualExclusion == lock["rx"] # NoSession => lock["rx"] # lock["tx"]

\* The requests of client c not served yet, oldest first.
Pending(c) == (IF wait[c] = NoReq THEN <<>> ELSE <<wait[c]>>) \o req[c]

\* No lost update: from the answer to a read until the write that follows it
\* is served, nobody else (not the other client, not a timer closing the
\* session) changes the state that client's decision was based on.
NoLostUpdate ==
    \A c \in Clients : lock[c] # NoSession => table[lock[c]] = seen[c]

\* A client that was answered holds the lock of the session it asked about
\* until its write is the next of its requests to be served: locks are neither
\* lost nor moved to another session on the way.
LockCoversTransaction ==
    \A c \in Clients :
        /\ rsp[c] # <<>> => lock[c] = busy[c]
        /\ lock[c] # NoSession /\ rsp[c] = <<>> =>
              Pending(c) # <<>> /\ Head(Pending(c)).op = "write"
                                /\ Head(Pending(c)).id = lock[c]

\* The else-if chain retries a waiting tx request before it looks at a waiting
\* rx request; it cannot cost rx its turn, as they never wait at the same time,
\* and a client that waits has no lock the other could be waiting for.
NoCircularWait ==
    \A c \in Clients :
        wait[c] # NoReq => wait[Other(c)] = NoReq /\ lock[c] = NoSession

\* At most one answer is on its way to a client, so the table never blocks on
\* a full response FIFO (depth 2) while holding a lock.
OneAnswer == \A c \in Clients : Len(rsp[c]) <= 1 /\ Len(strRsp) <= 1

\* An entry changes only by a write of a client, or by a timer's close of a
\* session nobody has locked; an entry locked before and after a step is not
\* changed by it.
LockedEntryIsStable ==
    [][\A c \in Clients, s \in Sessions :
          lock[c] = s /\ lock'[c] = s => table'[s] = table[s]]_vars

\* The table implements the transactions of AtomicTable: a lock is a transaction
\* in progress, and what its client was told is what the table still holds.
TxnOf(c) == [id   |-> lock[c],
             told |-> IF lock[c] = NoSession THEN NoSession ELSE seen[c]]
Atomic == INSTANCE AtomicTable WITH None <- NoSession, txn <- [c \in Clients |-> TxnOf(c)]
ImplementsAtomic == Atomic!Spec

\* Why it does: what the FIFOs of a client may hold, given its lock.
\*  - A read is the last request of its client and names the session in work.
ReadIsLast(c) ==
    /\ \A i \in 1..Len(req[c]) : req[c][i].op = "read" =>
          i = Len(req[c]) /\ busy[c] = req[c][i].id /\ rsp[c] = <<>>
    /\ wait[c].op = "read" => req[c] = <<>> /\ busy[c] = wait[c].id /\ rsp[c] = <<>>
\*  - An answered client has the lock and no other request.
AnswerHasLock(c) ==
    rsp[c] # <<>> => /\ Len(rsp[c]) = 1 /\ req[c] = <<>> /\ wait[c] = NoReq
                     /\ busy[c] # NoSession /\ lock[c] = busy[c]
\*  - A lock is given up by the very next request of its client.
LockHasWrite(c) ==
    lock[c] # NoSession /\ rsp[c] = <<>> =>
        /\ wait[c] = NoReq /\ req[c] # <<>>
        /\ Head(req[c]).op = "write" /\ Head(req[c]).id = lock[c]
\*  - Only active opens write without a lock.
BlindWritesAreOpens(c) ==
    /\ \A i \in 1..Len(req[c]) : req[c][i].op = "write" /\ (i > 1 \/ lock[c] = NoSession) =>
          c = "tx" /\ req[c][i].state = "SYN_SENT"
    /\ wait[c].op = "write" => c = "tx" /\ wait[c].state = "SYN_SENT"

\* The inductive invariant behind the properties above.
ProtocolInv ==
    /\ MutualExclusion /\ NoLostUpdate /\ NoCircularWait
    /\ \A c \in Clients : /\ ReadIsLast(c) /\ AnswerHasLock(c)
                          /\ LockHasWrite(c) /\ BlindWritesAreOpens(c)

\* New requests are served before those put off, so progress of a request put
\* off needs the other clients to pause: segments for the session do not arrive
\* back to back for ever, the application does not open and close for ever,
\* timers do not expire for ever.  That a request is always served in the end is
\* that, time and again, none is there.
RxPauses    == <>[][~\E s \in Sessions : ClientRead("rx", s)]_vars
TxPauses    == <>[][~\E s \in Sessions : ClientRead("tx", s) \/ TxOpen(s)]_vars
TimerPauses == <>[][~\E s \in Sessions : TimerRelease(s)]_vars

\* The rx FSM gets through: the segment in work is finished and its request,
\* put off because tx_app_if had the session locked, is served in the end.
RxProgress ==
    TxPauses /\ TimerPauses =>
        []<>(busy["rx"] = NoSession /\ wait["rx"] = NoReq)

\* An application's close gets through, also one that met a segment in work.
TxProgress ==
    RxPauses /\ TimerPauses =>
        []<>(busy["tx"] = NoSession /\ wait["tx"] = NoReq)

\* A session whose timer expired is closed in the end, even when it was locked
\* at that time.
CloseProgress == RxPauses /\ TxPauses => []<>(closeWait = NoSession)
=============================================================================
