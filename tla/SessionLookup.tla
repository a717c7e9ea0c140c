----------------------------- MODULE SessionLookup -----------------------------
(***************************************************************************)
(* hls/toe/session_lookup_controller: gives each connection (the tuple of  *)
(* their IP address and port and my port) a session identifier, and takes  *)
(* the identifier back when the state table releases the session.  Five    *)
(* processes around an external hash table (the "smart CAM"):              *)
(*   lookupReplyHandler           a FSM, one lookup at a time              *)
(*   updateRequestSender          inserts and deletes to the hash table    *)
(*   updateReplyHandler           its answers to inserts back to the FSM   *)
(*   sessionIdManager             the list of free identifiers             *)
(*   reverseLookupTableInterface  identifier to tuple; releases            *)
(* An identifier is free again as soon as its delete is sent to the hash   *)
(* table, before the table has done it.                                    *)
(***************************************************************************)
EXTENDS Naturals, Sequences, FiniteSets, SequencesExt

CONSTANTS
    MaxSessions,    \* MAX_SESSIONS
    Tuples,         \* the connections
    None,           \* no tuple, no identifier, no answer
    InsertMayFail,  \* may the hash table run out of trials (hash_table.cpp)?
    Depth           \* depth of the FIFOs

ASSUME MaxSessionsAssumption == MaxSessions \in Nat \ {0}
ASSUME NoneAssumption == None \notin Tuples \cup Nat
ASSUME InsertMayFailAssumption == InsertMayFail \in BOOLEAN
ASSUME DepthAssumption == Depth \in Nat \ {0}

Ids == 0 .. MaxSessions - 1
Sources == {"RX", "TX_APP"}

VARIABLES
    counter,    \* sessionIdManager: identifiers from counter on were never used
    freeList,   \* slc_sessionIdFreeList
    finFifo,    \* slc_sessionIdFinFifo
    fsm,        \* slc_fsmState
    query,      \* slc_queryCache, slc_insertTuples: the lookup in work, or None
    lup,        \* sessionLookup_req/rsp: the question or answer under way
    insReq,     \* sessionInsert_req
    delReq,     \* sessionDelete_req
    updReq,     \* sessionUpdate_req, to the hash table
    updRsp,     \* sessionUpdate_rsp, from the hash table
    insRsp,     \* slc_sessionInsert_rsp
    revIns,     \* reverseLupInsertFifo
    cam,        \* the hash table: cam[t] is the identifier of t or None
    dropped,    \* history: an insert has run out of trials
    rev,        \* reverseLookupTable
    valid,      \* tupleValid
    used,       \* usedSessionIDs, shown as regSessionCount
    answer,     \* sLookup2rxEng_rsp, sLookup2txApp_rsp: the last answer, or None
    revOut,     \* sLookup2portTable_releasePort, sLookup2txEng_rev_rsp: the last output
    owner       \* history: the tuple whose creation last handed out the identifier

fifos    == <<finFifo, insReq, delReq, updReq, updRsp, insRsp, revIns>>
idVars   == <<counter, freeList>>
fsmVars  == <<fsm, query, lup, owner>>
revVars  == <<rev, valid>>
extVars  == <<answer, revOut>>
camVars  == <<cam, dropped>>
vars == <<fifos, idVars, fsmVars, revVars, extVars, camVars, used>>

Queries == [tuple : Tuples, allow : BOOLEAN, source : Sources]
Updates == [op : {"INSERT", "DELETE"}, tuple : Tuples, id : Ids, source : Sources]
Lookups == [st : {"none", "asked", "hit", "miss"}, id : Ids \cup {None}]
Lookup(st, id) == [st |-> st, id |-> id]
Answered == lup.st \in {"hit", "miss"}
Update(op, t, id, src) == [op |-> op, tuple |-> t, id |-> id, source |-> src]
Room(q) == Len(q) < Depth
Answer(id) == [source |-> query.source, tuple |-> query.tuple, id |-> id]
Output(to, id) == [to |-> to, id |-> id, tuple |-> rev[id]]

Init ==
    /\ counter = 0 /\ freeList = <<>> /\ finFifo = <<>>
    /\ fsm = "LUP_REQ" /\ query = None /\ lup = Lookup("none", None)
    /\ insReq = <<>> /\ delReq = <<>> /\ updReq = <<>> /\ updRsp = <<>>
    /\ insRsp = <<>> /\ revIns = <<>>
    /\ cam = [t \in Tuples |-> None] /\ dropped = FALSE
    /\ rev = [id \in Ids |-> None] /\ valid = [id \in Ids |-> FALSE]
    /\ used = 0
    /\ answer = None /\ revOut = None
    /\ owner = [id \in Ids |-> None]

-----------------------------------------------------------------------------
(* sessionIdManager: returned identifiers first, then never used ones.  The  *)
(* free list has room for all of them (depth 16384).                         *)

UnusedIds == counter < MaxSessions

RecycleId ==
    /\ finFifo # <<>>
    /\ freeList' = Append(freeList, Head(finFifo))
    /\ finFifo' = Tail(finFifo)
    /\ UNCHANGED <<counter, insReq, delReq, updReq, updRsp, insRsp, revIns,
                   fsmVars, revVars, extVars, camVars, used>>

NewId ==
    /\ finFifo = <<>>
    /\ UnusedIds
    /\ freeList' = Append(freeList, counter)
    /\ counter' = counter + 1
    /\ UNCHANGED <<fifos, fsmVars, revVars, extVars, camVars, used>>

-----------------------------------------------------------------------------
(* lookupReplyHandler.                                                       *)

\* LUP_REQ: take a query and ask the hash table.  rx_engine looks up the tuple of
\* a segment, and lets only a SYN create a session; tx_app_if opens connections.
LupReq(src, t, allow) ==
    /\ fsm = "LUP_REQ"
    /\ src = "TX_APP" => allow
    /\ query' = [tuple |-> t, allow |-> allow, source |-> src]
    /\ lup' = Lookup("asked", None)
    /\ fsm' = "LUP_RSP"
    /\ UNCHANGED <<fifos, idVars, owner, revVars, extVars, camVars, used>>

Creates == lup.st = "miss" /\ query.allow /\ freeList # <<>>
\* Waiting for an identifier instead of passing on the miss.
PassesKnown == ~(lup.st = "miss" /\ query.allow)
Passes == ~Creates

\* LUP_RSP: a miss that may create a session takes a free identifier ...
LupRspCreate ==
    /\ fsm = "LUP_RSP" /\ Answered
    /\ Creates
    /\ Room(insReq)
    /\ insReq' = Append(insReq, Update("INSERT", query.tuple, Head(freeList), query.source))
    /\ freeList' = Tail(freeList)
    /\ lup' = Lookup("none", None)
    /\ fsm' = "UPD_RSP"
    /\ UNCHANGED <<counter, finFifo, delReq, updReq, updRsp, insRsp, revIns,
                   query, owner, revVars, extVars, camVars, used>>

\* ... every other answer, and a miss without a free identifier, is passed on.
LupRspReply ==
    /\ fsm = "LUP_RSP" /\ Answered
    /\ Passes
    /\ answer' = Answer(lup.id)
    /\ lup' = Lookup("none", None) /\ query' = None
    /\ fsm' = "LUP_REQ"
    /\ UNCHANGED <<fifos, idVars, owner, revVars, camVars, used, revOut>>

\* UPD_RSP: the insert was answered (success or not is not looked at): reply, and
\* enter the tuple in the reverse table.
UpdRsp ==
    /\ fsm = "UPD_RSP"
    /\ insRsp # <<>>
    /\ LET u == Head(insRsp) IN
         /\ Room(revIns)
         /\ answer' = [Answer(u.id) EXCEPT !.source = u.source]
         /\ revIns' = Append(revIns, [id |-> u.id, tuple |-> query.tuple])
         /\ owner' = [owner EXCEPT ![u.id] = query.tuple]
    /\ insRsp' = Tail(insRsp)
    /\ query' = None
    /\ fsm' = "LUP_REQ"
    /\ UNCHANGED <<idVars, finFifo, insReq, delReq, updReq, updRsp, lup, revVars,
                   camVars, used, revOut>>

-----------------------------------------------------------------------------
(* updateRequestSender and updateReplyHandler.                               *)

SendInsert ==
    /\ insReq # <<>>
    /\ Room(updReq)
    /\ updReq' = Append(updReq, Head(insReq))
    /\ insReq' = Tail(insReq)
    /\ used' = used + 1
    /\ UNCHANGED <<idVars, finFifo, delReq, updRsp, insRsp, revIns, fsmVars,
                   revVars, extVars, camVars>>

UsedAfterDelete == used - 1

\* Leaving it to updateReplyHandler, where returning identifiers is commented out.
ReturnNone(id) == finFifo
ReturnId(id) == Append(finFifo, id)

\* The identifier is free before the hash table has deleted its tuple.
SendDelete ==
    /\ insReq = <<>> /\ delReq # <<>>
    /\ Room(updReq) /\ Room(finFifo)
    /\ updReq' = Append(updReq, Head(delReq))
    /\ finFifo' = ReturnId(Head(delReq).id)
    /\ delReq' = Tail(delReq)
    /\ used' = UsedAfterDelete
    /\ UNCHANGED <<idVars, insReq, updRsp, insRsp, revIns, fsmVars, revVars,
                   extVars, camVars>>

AnswersInserts(u) == u.op = "INSERT"

UpdateReply ==
    /\ updRsp # <<>>
    /\ IF AnswersInserts(Head(updRsp))
       THEN Room(insRsp) /\ insRsp' = Append(insRsp, Head(updRsp))
       ELSE UNCHANGED insRsp
    /\ updRsp' = Tail(updRsp)
    /\ UNCHANGED <<idVars, finFifo, insReq, delReq, updReq, revIns, fsmVars,
                   revVars, extVars, camVars, used>>

-----------------------------------------------------------------------------
(* The hash table (hls/hash_table, or an RTL table with the same interface): *)
(* lookups first; updates in order.  An insert that runs out of trials drops *)
(* the entry it evicted last, which may be any entry.                        *)

CamLookup ==
    /\ lup.st = "asked"
    /\ lup' = Lookup(IF cam[query.tuple] = None THEN "miss" ELSE "hit", cam[query.tuple])
    /\ UNCHANGED <<fifos, idVars, fsm, query, owner, revVars, extVars, camVars, used>>

CamUpdate(pos) ==
    /\ lup.st # "asked"
    /\ pos \in DOMAIN updReq
    /\ Room(updRsp)
    /\ LET u == updReq[pos] IN
         IF u.op = "DELETE" THEN cam' = [cam EXCEPT ![u.tuple] = None] /\ UNCHANGED dropped
         ELSE LET new == [cam EXCEPT ![u.tuple] = u.id] IN
              \/ cam' = new /\ UNCHANGED dropped
              \/ /\ InsertMayFail /\ dropped' = TRUE
                 /\ \E t \in Tuples : cam' = [new EXCEPT ![t] = None]
    /\ updRsp' = Append(updRsp, updReq[pos])
    /\ updReq' = RemoveAt(updReq, pos)
    /\ UNCHANGED <<idVars, finFifo, insReq, delReq, insRsp, revIns, fsmVars,
                   revVars, extVars, used>>

\* The hash table does the updates in the order in which they were sent.
NextUpdate == 1

-----------------------------------------------------------------------------
(* reverseLookupTableInterface: inserts first, then releases, then lookups.  *)

RevInsert ==
    /\ revIns # <<>>
    /\ rev' = [rev EXCEPT ![Head(revIns).id] = Head(revIns).tuple]
    /\ valid' = [valid EXCEPT ![Head(revIns).id] = TRUE]
    /\ revIns' = Tail(revIns)
    /\ revOut' = None
    /\ UNCHANGED <<idVars, finFifo, insReq, delReq, updReq, updRsp, insRsp,
                   fsmVars, answer, camVars, used>>

\* The other processes name only identifiers that were given to them.
Known(id) == owner[id] # None
InsertsAfter == TRUE
InsertsFirst == revIns = <<>>

\* mistake: a session is released as often as it is asked for
ReleasesAlways(id) == rev[id] # None
ReleasesValid(id) == valid[id]

\* A release by the state table.  It may come twice: rx_engine closes sessions
\* that are closed, and timers are not cancelled.  The second one is ignored.
RevRelease(id) ==
    /\ InsertsFirst
    /\ Known(id)
    /\ IF ReleasesValid(id)
       THEN /\ Room(delReq)
            /\ delReq' = Append(delReq, Update("DELETE", rev[id], id, "RX"))
            /\ revOut' = Output("portTable", id)
       ELSE revOut' = None /\ UNCHANGED delReq
    /\ valid' = [valid EXCEPT ![id] = FALSE]
    /\ UNCHANGED <<idVars, finFifo, insReq, updReq, updRsp, insRsp, revIns, fsmVars,
                   rev, answer, camVars, used>>

\* The tx engine wants the tuple of a session it has an event for.
RevLookup(id) ==
    /\ InsertsFirst
    /\ Known(id)
    /\ revOut' = Output("txEng", id)
    /\ UNCHANGED <<fifos, idVars, fsmVars, revVars, answer, camVars, used>>

Next ==
    \/ RecycleId \/ NewId
    \/ \E src \in Sources, t \in Tuples, allow \in BOOLEAN : LupReq(src, t, allow)
    \/ LupRspCreate \/ LupRspReply \/ UpdRsp
    \/ SendInsert \/ SendDelete \/ UpdateReply
    \/ RevInsert \/ \E id \in Ids : RevRelease(id) \/ RevLookup(id)
    \/ CamLookup \/ CamUpdate(NextUpdate)

Spec == Init /\ [][Next]_vars

\* Every process is called in every clock cycle.  The hash table prefers lookups,
\* but the FSM has one lookup under way at a time: after each answer the table has
\* a cycle for an update, hence the strong fairness.
Fairness ==
    /\ WF_vars(RecycleId \/ NewId)
    /\ WF_vars(LupRspCreate \/ LupRspReply \/ UpdRsp)
    /\ WF_vars(SendInsert \/ SendDelete) /\ WF_vars(UpdateReply)
    /\ WF_vars(RevInsert)
    /\ WF_vars(CamLookup) /\ SF_vars(CamUpdate(NextUpdate))

FairSpec == Spec /\ Fairness

-----------------------------------------------------------------------------
(* Properties.                                                               *)

TypeOK ==
    /\ counter \in 0 .. MaxSessions /\ used \in Nat
    /\ freeList \in Seq(Ids) /\ finFifo \in Seq(Ids)
    /\ fsm \in {"LUP_REQ", "LUP_RSP", "UPD_RSP"}
    /\ query \in Queries \cup {None}
    /\ lup \in Lookups
    /\ {insReq, delReq, updReq, updRsp, insRsp} \subseteq Seq(Updates)
    /\ revIns \in Seq([id : Ids, tuple : Tuples])
    /\ cam \in [Tuples -> Ids \cup {None}] /\ dropped \in BOOLEAN
    /\ rev \in [Ids -> Tuples \cup {None}] /\ valid \in [Ids -> BOOLEAN]
    /\ owner \in [Ids -> Tuples \cup {None}]

IdsOf(q) == [i \in DOMAIN q |-> q[i].id]
InsertedIds(q) == [i \in DOMAIN q |-> IF q[i].op = "INSERT" THEN q[i].id ELSE None]

\* Where an identifier can be: free, on its way back, in the insert under way,
\* in use, or on its way to be deleted.
Contents ==
    [freeList |-> freeList, finFifo |-> finFifo, insReq |-> IdsOf(insReq),
     updReq |-> InsertedIds(updReq), updRsp |-> InsertedIds(updRsp), insRsp |-> IdsOf(insRsp),
     revIns |-> IdsOf(revIns), table |-> [id \in Ids |-> IF valid[id] THEN id ELSE None],
     delReq |-> IdsOf(delReq)]

Has(f, x) == \E i \in DOMAIN f : f[i] = x
Locations(id) == {pi \in UNION {{<<p, i>> : i \in DOMAIN Contents[p]} : p \in DOMAIN Contents} :
                     Contents[pi[1]][pi[2]] = id}

\* Every identifier that was ever made is in exactly one place: none is lost, and
\* none is given to two sessions, however releases are repeated and deletes are
\* delayed.
EveryIdInOnePlace == \A id \in Ids : Cardinality(Locations(id)) = IF id < counter THEN 1 ELSE 0

\* The hash table never maps two tuples to the same identifier, although the
\* identifier is given out again while the delete of its old tuple is pending:
\* both travel through the same FIFO.
CamIsInjective ==
    \A t1, t2 \in Tuples : cam[t1] # None /\ cam[t1] = cam[t2] => t1 = t2

\* What the hash table maps a tuple to is the session that has the tuple in the
\* reverse table, or one that is just being created or deleted.
CamMatchesReverse ==
    \A t \in Tuples : cam[t] # None =>
        \/ valid[cam[t]] /\ rev[cam[t]] = t
        \/ \E q \in {delReq, updReq, updRsp, insRsp, revIns} : \E i \in DOMAIN q :
              q[i].id = cam[t] /\ q[i].tuple = t

\* As long as no insert fails, every session in use is found by its tuple, the
\* delete of an earlier session of the same tuple notwithstanding.
LiveSessionsAreFound ==
    ~dropped => \A id \in Ids : valid[id] => cam[rev[id]] = id

CamIsExact == CamIsInjective /\ CamMatchesReverse

\* regSessionCount counts the sessions that exist or wait for their delete to be
\* sent, so it never drops below 0 (it is unsigned).
UsedPlaces == {"updReq", "updRsp", "insRsp", "revIns", "table", "delReq"}
InUse == {id \in Ids : \E p \in UsedPlaces : Has(Contents[p], id)}
UsedIsExact == used = Cardinality(InUse)

\* The tx engine, asking for a session it was given an event for, gets the tuple
\* the identifier was last given to, never that of an earlier session: lookups
\* wait for the inserts.
ReverseLookupIsCurrent ==
    [][revOut' \notin {revOut, None} /\ revOut'.to = "txEng" => revOut'.tuple = owner[revOut'.id]]_vars

\* A lookup that finds a session names the session its tuple was given last, even
\* if that session is being released: never the session of another tuple.
HitsNameTheOwner ==
    [][answer' \notin {answer, None} /\ answer'.id # None => owner'[answer'.id] = answer'.tuple]_vars

LookupsAreCurrent == ReverseLookupIsCurrent /\ HitsNameTheOwner

\* A lookup is answered in the end: none stays in work for ever.
LookupsAreAnswered == []<>(query = None)

\* The identifier of a session that is released can be given out again in the
\* end, although inserts go before deletes: they use up the free identifiers.
IdsComeBack ==
    \A id \in Ids : (\E i \in DOMAIN delReq : delReq[i].id = id)
                        ~> (\E i \in DOMAIN freeList : freeList[i] = id)
=============================================================================
