----------------------------- MODULE MCTablesProofs -----------------------------
(***************************************************************************)
(* Proofs about the two tables every segment passes.  The first part is    *)
(* about StateTable, for any set of sessions, any set of states and any    *)
(* FIFO depths.  The second shows that what is proved of SessionLookup     *)
(* holds of the two tables together, where the properties are stated that  *)
(* TLC checks: a step of the state table leaves the session lookup alone.  *)
(***************************************************************************)
EXTENDS MCTables, SequenceTheorems, TLAPS

\* The else-if chain: what a step of the table does, with the guards on what
\* else is pending left out (no proof needs them except those on wait).
LEMMA OtherClient ==
    ASSUME NEW c \in Clients
    PROVE  Other(c) \in Clients /\ Other(c) # c /\ Other(Other(c)) = c
           /\ \A d \in Clients : d = c \/ d = Other(c)
BY DEF Clients, Other

LEMMA RequestTypes ==
    /\ \A s \in Sessions : ReadReq(s) \in Requests
    /\ \A s \in Sessions, v \in States : WriteReq(s, v) \in Requests
    /\ NoReq \notin Requests
BY StatesAssumption, SessionsAssumption DEF ReadReq, WriteReq, Requests, NoReq

LEMMA AccessTypes ==
    ASSUME TypeOK, NEW c \in Clients, NEW q \in Requests, Access(c, q)
    PROVE  /\ table' \in [Sessions -> States]
           /\ lock' \in [Clients -> Sessions \cup {NoSession}]
           /\ rsp' \in [Clients -> Seq(States)]
           /\ released' \in Seq(Sessions)
           /\ seen' \in [Clients -> States \cup {NoState}]
<1>1. q.id \in Sessions /\ q.state \in States BY DEF Requests
<1>2. table[q.id] \in States /\ rsp[c] \in Seq(States) BY <1>1 DEF TypeOK
<1>3. Append(rsp[c], table[q.id]) \in Seq(States) BY <1>2
<1>4. Append(released, q.id) \in Seq(Sessions) BY <1>1 DEF TypeOK
<1>5. CASE q.op = "read"
  <2>1. /\ rsp' = [rsp EXCEPT ![c] = Append(@, table[q.id])]
        /\ seen' = [seen EXCEPT ![c] = table[q.id]]
        /\ lock' = [lock EXCEPT ![c] = q.id]
        /\ table' = table /\ released' = released
    BY <1>5 DEF Access, HoldLock
  <2>2. table' \in [Sessions -> States] /\ released' \in Seq(Sessions) BY <2>1 DEF TypeOK
  <2>3. lock' \in [Clients -> Sessions \cup {NoSession}] BY <2>1, <1>1 DEF TypeOK
  <2>4. rsp' \in [Clients -> Seq(States)] BY <2>1, <1>3 DEF TypeOK
  <2>5. seen' \in [Clients -> States \cup {NoState}] BY <2>1, <1>2 DEF TypeOK
  <2> QED BY <2>2, <2>3, <2>4, <2>5
<1>6. CASE q.op = "write"
  <2>1. released' \in Seq(Sessions) BY <1>4, <1>6 DEF Access, TypeOK
  <2> QED BY <1>1, <1>6, <2>1 DEF TypeOK, Access, DropLock
<1> QED BY <1>5, <1>6 DEF Access

THEOREM TypeCorrect == Spec => []TypeOK
<1>1. Init => TypeOK
  BY StatesAssumption DEF Init, TypeOK
<1>2. TypeOK /\ [Next]_vars => TypeOK'
  <2> SUFFICES ASSUME TypeOK, [Next]_vars PROVE TypeOK'  OBVIOUS
  <2> USE DEF TypeOK
  <2>1. ASSUME NEW c \in Clients, NEW s \in Sessions, ClientRead(c, s) PROVE TypeOK'
    <3>1. Append(req[c], ReadReq(s)) \in Seq(Requests) BY RequestTypes
    <3> QED BY <2>1, <3>1 DEF ClientRead, tableVars, streamVars
  <2>2. ASSUME NEW c \in Clients, ClientWrite(c) PROVE TypeOK'
    <3>1. rsp[c] \in Seq(States) /\ rsp[c] # <<>> BY <2>2 DEF ClientWrite
    <3>2. Head(rsp[c]) \in States /\ Tail(rsp[c]) \in Seq(States) BY <3>1, HeadTailProperties
    <3>3. PICK v \in Decisions(c, Head(rsp[c])) :
             req' = [req EXCEPT ![c] = Append(@, WriteReq(busy[c], v))]
      BY <2>2 DEF ClientWrite
    <3>4. v \in States BY <3>2, StatesAssumption DEF Decisions
    <3>5. busy[c] \in Sessions BY <2>2 DEF ClientWrite
    <3>6. Append(req[c], WriteReq(busy[c], v)) \in Seq(Requests) BY <3>4, <3>5, RequestTypes
    <3> QED BY <2>2, <3>2, <3>3, <3>6 DEF ClientWrite, tableVars, streamVars
  <2>3. ASSUME NEW s \in Sessions, TxOpen(s) PROVE TypeOK'
    <3>1. Append(req["tx"], WriteReq(s, "SYN_SENT")) \in Seq(Requests)
      BY RequestTypes, StatesAssumption DEF Clients
    <3> QED BY <2>3, <3>1 DEF TxOpen, tableVars, streamVars
  <2>4. ASSUME NEW s \in Sessions, StreamAsk(s) PROVE TypeOK'
    BY <2>4 DEF StreamAsk, tableVars
  <2>5. CASE StreamTake
    <3>1. Tail(strRsp) \in Seq(States) BY <2>5, HeadTailProperties DEF StreamTake
    <3> QED BY <2>5, <3>1 DEF StreamTake, tableVars
  <2>6. ASSUME NEW s \in Sessions, TimerRelease(s) PROVE TypeOK'
    BY <2>6 DEF TimerRelease, tableVars, streamVars
  <2>7. CASE LookupTake
    <3>1. Tail(released) \in Seq(Sessions) BY <2>7, HeadTailProperties DEF LookupTake
    <3> QED BY <2>7, <3>1 DEF LookupTake, tableVars, streamVars
  <2>8. ASSUME NEW c \in Clients, ServeClient(c) PROVE TypeOK'
    <3>1. req[c] \in Seq(Requests) /\ req[c] # <<>> BY <2>8 DEF ServeClient, FreshClient
    <3>2. Head(req[c]) \in Requests /\ Tail(req[c]) \in Seq(Requests) BY <3>1, HeadTailProperties
    <3>3. req' \in [Clients -> Seq(Requests)] BY <2>8, <3>2 DEF ServeClient
    <3>4. CASE Access(c, Head(req[c])) /\ UNCHANGED wait
      BY <2>8, <3>2, <3>3, <3>4, AccessTypes DEF ServeClient, streamVars
    <3>5. CASE wait' = [wait EXCEPT ![c] = Head(req[c])]
               /\ UNCHANGED <<table, lock, rsp, released, seen>>
      BY <2>8, <3>2, <3>3, <3>5 DEF ServeClient, streamVars
    <3> QED BY <2>8, <3>4, <3>5 DEF ServeClient
  <2>9. CASE ServeStream
    <3>1. Head(strReq) \in Sessions /\ Tail(strReq) \in Seq(Sessions)
      BY <2>9, HeadTailProperties DEF ServeStream, FreshStream
    <3>2. Append(strRsp, table[Head(strReq)]) \in Seq(States) BY <3>1
    <3> QED BY <2>9, <3>1, <3>2 DEF ServeStream, tableVars
  <2>10. CASE ServeTimer
    <3>1. Head(relReq) \in Sessions /\ Tail(relReq) \in Seq(Sessions)
      BY <2>10, HeadTailProperties DEF ServeTimer, FreshTimer
    <3> DEFINE s == Head(relReq)
    <3>a. s \in Sessions /\ Append(released, s) \in Seq(Sessions) BY <3>1
    <3>b. \/ CloseSession(s) /\ UNCHANGED closeWait
          \/ closeWait' = s /\ UNCHANGED <<table, released>>
      BY <2>10 DEF ServeTimer
    <3> HIDE DEF s
    <3>2. table' \in [Sessions -> States] /\ released' \in Seq(Sessions)
          /\ closeWait' \in Sessions \cup {NoSession}
      BY <3>a, <3>b, StatesAssumption DEF CloseSession
    <3> QED BY <2>10, <3>1, <3>2 DEF ServeTimer, streamVars
  <2>11. ASSUME NEW c \in Clients, RetryClient(c) PROVE TypeOK'
    <3>1. wait[c] \in Requests BY <2>11 DEF RetryClient
    <3> QED BY <2>11, <3>1, AccessTypes DEF RetryClient, WaitIsOver, streamVars
  <2>12. CASE RetryClose
    <3>1. closeWait \in Sessions BY <2>12 DEF RetryClose, CloseIsPutOff
    <3> QED BY <2>12, <3>1, StatesAssumption DEF RetryClose, CloseIsPutOff, CloseSession, streamVars
  <2>13. CASE UNCHANGED vars BY <2>13 DEF vars
  <2> QED BY <2>1, <2>2, <2>3, <2>4, <2>5, <2>6, <2>7, <2>8, <2>9, <2>10, <2>11, <2>12, <2>13
          DEF Next, Table, Environment
<1> QED BY <1>1, <1>2, PTL DEF Spec

-----------------------------------------------------------------------------
(* The protocol invariant.  An action of client c leaves the FIFOs, the lock *)
(* and the wait register of the other client alone, so what the invariant    *)
(* says of each client is kept by looking at the client that moves.          *)

LocalInv(c) == ReadIsLast(c) /\ AnswerHasLock(c) /\ LockHasWrite(c) /\ BlindWritesAreOpens(c)

LEMMA LocalFrame ==
    ASSUME NEW d, LocalInv(d),
           req'[d] = req[d], rsp'[d] = rsp[d], wait'[d] = wait[d],
           lock'[d] = lock[d], busy'[d] = busy[d]
    PROVE  LocalInv(d)'
BY DEF LocalInv, ReadIsLast, AnswerHasLock, LockHasWrite, BlindWritesAreOpens

LEMMA QueueFacts ==
    ASSUME NEW S, NEW q \in Seq(S), NEW e \in S
    PROVE  /\ Append(q, e) \in Seq(S) /\ Append(q, e) # <<>>
           /\ Len(q) \in Nat /\ Len(Append(q, e)) = Len(q) + 1
           /\ \A i \in 1..Len(q) : Append(q, e)[i] = q[i]
           /\ Append(q, e)[Len(q) + 1] = e
           /\ Head(Append(q, e)) = IF q = <<>> THEN e ELSE Head(q)
           /\ q # <<>> => /\ Head(q) = q[1] /\ Head(q) \in S /\ Tail(q) \in Seq(S)
                          /\ Len(q) > 0 /\ Len(Tail(q)) = Len(q) - 1
                          /\ \A i \in 1..Len(Tail(q)) : Tail(q)[i] = q[i + 1]
           /\ q = <<>> <=> Len(q) = 0
<1>1. q # <<>> => Tail(q) \in Seq(S) /\ Len(Tail(q)) = Len(q) - 1 /\ Len(q) > 0
                 /\ Head(q) = q[1] /\ Head(q) \in S
                 /\ \A i \in 1..Len(Tail(q)) : Tail(q)[i] = q[i + 1]
  BY HeadTailProperties, EmptySeq
<1>2. /\ Append(q, e) \in Seq(S) /\ Append(q, e) # <<>>
      /\ Len(q) \in Nat /\ Len(Append(q, e)) = Len(q) + 1
      /\ \A i \in 1..Len(q) : Append(q, e)[i] = q[i]
      /\ Append(q, e)[Len(q) + 1] = e
  OBVIOUS
<1>3. q = <<>> <=> Len(q) = 0
  BY EmptySeq
<1>4. Head(Append(q, e)) = Append(q, e)[1]
  BY <1>2
<1>5. CASE q = <<>>
  BY <1>1, <1>2, <1>3, <1>4, <1>5
<1>6. CASE q # <<>>
  <2>1. 1 \in 1..Len(q) BY <1>1, <1>2, <1>6
  <2>2. Append(q, e)[1] = q[1] BY <1>2, <2>1
  <2> QED BY <1>1, <1>2, <1>3, <1>4, <1>6, <2>2
<1> QED BY <1>5, <1>6

LEMMA EmptyRange == \A q : q = <<>> => \A i \in 1..Len(q) : FALSE
<1> SUFFICES ASSUME NEW i \in 1..Len(<<>>) PROVE FALSE  OBVIOUS
<1>1. Len(<<>>) = 0 BY EmptySeq
<1> QED BY <1>1

LEMMA HeadTailFacts ==
    ASSUME NEW S, NEW q \in Seq(S), q # <<>>
    PROVE  /\ Head(q) = q[1] /\ Head(q) \in S /\ Tail(q) \in Seq(S)
           /\ Len(q) \in Nat /\ 1 \in 1..Len(q) /\ Len(Tail(q)) = Len(q) - 1
           /\ \A i \in 1..Len(Tail(q)) :
                 i + 1 \in 1..Len(q) /\ i + 1 > 1 /\ Tail(q)[i] = q[i + 1]
           /\ Len(q) = 1 => Tail(q) = <<>>
<1>1. /\ Head(q) \in S /\ Tail(q) \in Seq(S) /\ Len(Tail(q)) = Len(q) - 1
      /\ \A i \in 1..Len(Tail(q)) : Tail(q)[i] = q[i + 1]
  BY HeadTailProperties
<1>2. Len(q) \in Nat /\ Len(q) > 0 /\ Head(q) = q[1] BY EmptySeq
<1>3. ASSUME Len(q) = 1 PROVE Tail(q) = <<>>
  <2>1. Len(Tail(q)) = 0 BY <1>1, <1>3
  <2> QED BY <1>1, <2>1, EmptySeq
<1> QED BY <1>1, <1>2, <1>3

\* A client that starts or ends a transaction, or opens, adds one request.
LEMMA ClientReadLocal ==
    ASSUME TypeOK, NEW c \in Clients, NEW s \in Sessions, LocalInv(c), ClientRead(c, s)
    PROVE  LocalInv(c)'
<1> DEFINE q == req[c]
           e == ReadReq(s)
<1>1. q \in Seq(Requests) /\ e \in Requests /\ e.op = "read" /\ e.id = s
  BY RequestTypes DEF TypeOK, ReadReq
<1>2. /\ req'[c] = Append(q, e) /\ rsp' = rsp /\ wait' = wait /\ lock' = lock
      /\ busy'[c] = s /\ busy[c] = NoSession
  BY DEF ClientRead, TypeOK, tableVars
<1>3. rsp[c] = <<>> BY <1>2 DEF LocalInv, AnswerHasLock
<1>4. \A i \in 1..Len(q) : q[i] \in Requests BY <1>1
<1>5. \A i \in 1..Len(q) : q[i].op # "read"
  BY <1>1, <1>2, <1>4, SessionsAssumption DEF LocalInv, ReadIsLast, Requests
<1>6. wait[c].op # "read"
  <2>1. wait[c] \in Requests \cup {NoReq} BY DEF TypeOK
  <2>2. wait[c].op = "read" => wait[c].id \in Sessions BY <2>1 DEF Requests, NoReq
  <2> QED BY <1>2, <2>2, SessionsAssumption DEF LocalInv, ReadIsLast
<1> HIDE DEF q, e
<1>7. ReadIsLast(c)'
  BY <1>1, <1>2, <1>3, <1>5, <1>6, QueueFacts DEF ReadIsLast
<1>8. AnswerHasLock(c)'
  BY <1>2, <1>3 DEF AnswerHasLock
<1>9. LockHasWrite(c)'
  BY <1>1, <1>2, <1>3, QueueFacts DEF LockHasWrite, LocalInv, q
<1>10. BlindWritesAreOpens(c)'
  BY <1>1, <1>2, <1>3, <1>5, <1>6, QueueFacts DEF BlindWritesAreOpens, LocalInv, q
<1> QED BY <1>7, <1>8, <1>9, <1>10 DEF LocalInv

LEMMA TxOpenLocal ==
    ASSUME TypeOK, NEW s \in Sessions, LocalInv("tx"), TxOpen(s)
    PROVE  LocalInv("tx")'
<1> DEFINE q == req["tx"]
           e == WriteReq(s, "SYN_SENT")
<1>1. q \in Seq(Requests) /\ e \in Requests /\ e.op = "write" /\ e.state = "SYN_SENT"
  BY RequestTypes, StatesAssumption DEF TypeOK, WriteReq, Clients
<1>2. /\ req'["tx"] = Append(q, e) /\ rsp' = rsp /\ wait' = wait /\ lock' = lock
      /\ busy' = busy /\ busy["tx"] = NoSession
  BY DEF TxOpen, TypeOK, tableVars, Clients
<1>3. rsp["tx"] = <<>> BY <1>2 DEF LocalInv, AnswerHasLock
<1>4. \A i \in 1..Len(q) : q[i] \in Requests BY <1>1
<1>5. \A i \in 1..Len(q) : q[i].op # "read"
  BY <1>1, <1>2, <1>4, SessionsAssumption DEF LocalInv, ReadIsLast, Requests
<1>6. wait["tx"].op # "read"
  BY <1>2, SessionsAssumption DEF LocalInv, ReadIsLast, Requests, TypeOK, NoReq, Clients
<1> HIDE DEF q, e
<1>7. ReadIsLast("tx")'
  BY <1>1, <1>2, <1>3, <1>5, <1>6, QueueFacts DEF ReadIsLast
<1>8. AnswerHasLock("tx")'
  BY <1>2, <1>3 DEF AnswerHasLock
<1>9. LockHasWrite("tx")'
  BY <1>1, <1>2, <1>3, QueueFacts DEF LockHasWrite, LocalInv, q
<1>10. BlindWritesAreOpens("tx")'
  BY <1>1, <1>2, <1>3, <1>5, <1>6, QueueFacts DEF BlindWritesAreOpens, LocalInv, q
<1> QED BY <1>7, <1>8, <1>9, <1>10 DEF LocalInv

LEMMA ClientWriteLocal ==
    ASSUME TypeOK, NEW c \in Clients, LocalInv(c), ClientWrite(c)
    PROVE  LocalInv(c)'
<1>1. PICK v \in Decisions(c, Head(rsp[c])) : req'[c] = Append(req[c], WriteReq(busy[c], v))
  BY DEF ClientWrite, TypeOK
<1>2. /\ rsp'[c] = Tail(rsp[c]) /\ wait' = wait /\ lock' = lock /\ busy'[c] = NoSession
      /\ busy[c] # NoSession /\ rsp[c] # <<>>
  BY DEF ClientWrite, TypeOK, tableVars
<1>3. Len(rsp[c]) = 1 /\ req[c] = <<>> /\ wait[c] = NoReq /\ lock[c] = busy[c]
  BY <1>2 DEF LocalInv, AnswerHasLock
<1>4. rsp[c] \in Seq(States) BY DEF TypeOK
<1>5. rsp'[c] = <<>>
  <2>1. Tail(rsp[c]) \in Seq(States) /\ Len(Tail(rsp[c])) = 0 BY <1>2, <1>3, <1>4, HeadTailProperties
  <2> QED BY <1>2, <2>1, EmptySeq
<1> DEFINE e == WriteReq(busy[c], v)
<1>6. req'[c] = <<e>> BY <1>1, <1>3
<1>7. e.op = "write" /\ e.id = busy[c] BY DEF WriteReq
<1> HIDE DEF e
<1>8. Len(req'[c]) = 1 /\ req'[c][1] = e /\ Head(req'[c]) = e /\ req'[c] # <<>> BY <1>6
<1>9. wait'[c] = NoReq /\ NoReq.op = "none" BY <1>2, <1>3 DEF NoReq
<1>10. ReadIsLast(c)' BY <1>7, <1>8, <1>9 DEF ReadIsLast
<1>11. AnswerHasLock(c)' BY <1>5 DEF AnswerHasLock
<1>12. LockHasWrite(c)' BY <1>2, <1>3, <1>7, <1>8, <1>9 DEF LockHasWrite
<1>13. BlindWritesAreOpens(c)' BY <1>2, <1>3, <1>8, <1>9 DEF BlindWritesAreOpens
<1> QED BY <1>10, <1>11, <1>12, <1>13 DEF LocalInv

-----------------------------------------------------------------------------
(* Serving a request: of a session the other client has not locked.          *)

LEMMA AccessEffect ==
    ASSUME TypeOK, NEW c \in Clients, NEW q \in Requests, Access(c, q)
    PROVE  /\ \A d \in Clients \ {c} : rsp'[d] = rsp[d] /\ lock'[d] = lock[d] /\ seen'[d] = seen[d]
           /\ q.op = "read" => /\ rsp'[c] = Append(rsp[c], table[q.id]) /\ lock'[c] = q.id
                               /\ seen'[c] = table[q.id] /\ table' = table
           /\ q.op = "write" => /\ rsp'[c] = rsp[c] /\ lock'[c] = NoSession
                                /\ table' = [table EXCEPT ![q.id] = q.state]
           /\ q.id \in Sessions /\ q.state \in States
           /\ q.op = "read" \/ q.op = "write"
<1>1. q.id \in Sessions /\ q.state \in States BY DEF Requests
<1>2. CASE q.op = "read"
  BY <1>1, <1>2 DEF Access, HoldLock, TypeOK
<1>3. CASE q.op = "write"
  <2>1. rsp' = rsp /\ seen' = [seen EXCEPT ![c] = NoState] /\ lock' = [lock EXCEPT ![c] = NoSession]
        /\ table' = [table EXCEPT ![q.id] = q.state]
    BY <1>3 DEF Access, DropLock
  <2> QED BY <1>1, <1>3, <2>1 DEF TypeOK
<1> QED BY <1>1, <1>2, <1>3 DEF Access

LEMMA AccessIsExclusive ==
    ASSUME TypeOK, MutualExclusion, NoLostUpdate,
           NEW c \in Clients, NEW q \in Requests, MayAccess(c, q.id), Access(c, q)
    PROVE  MutualExclusion' /\ NoLostUpdate'
<1> DEFINE d == Other(c)
<1>1. d \in Clients /\ d # c /\ \A x \in Clients : x = c \/ x = d BY OtherClient
<1>2. lock[d] # q.id BY DEF MayAccess
<1>3. q.id \in Sessions /\ lock[d] \in Sessions \cup {NoSession} BY <1>1 DEF Requests, TypeOK
<1>4. lock'[d] = lock[d] /\ seen'[d] = seen[d] BY <1>1, AccessEffect
<1>5. lock'[c] = q.id \/ lock'[c] = NoSession BY AccessEffect
<1>6. MutualExclusion'
  <2>1. {c, d} = {"rx", "tx"} BY <1>1 DEF Clients
  <2>2. lock'[c] # NoSession => lock'[c] # lock'[d] BY <1>2, <1>4, <1>5
  <2>3. lock'[d] # NoSession => lock'[d] # lock'[c] BY <2>2
  <2> QED BY <1>1, <2>2, <2>3 DEF MutualExclusion, Clients
<1>7. lock'[d] # NoSession => table'[lock'[d]] = seen'[d]
  <2> SUFFICES ASSUME lock[d] # NoSession PROVE table'[lock[d]] = seen[d]  BY <1>4
  <2>1. table[lock[d]] = seen[d] BY <1>1 DEF NoLostUpdate
  <2>2. lock[d] \in Sessions BY <1>3
  <2>3. CASE q.op = "read" BY <2>1, <2>3, AccessEffect
  <2>4. CASE q.op = "write"
    <3>1. table' = [table EXCEPT ![q.id] = q.state] BY <2>4, AccessEffect
    <3> QED BY <1>2, <2>1, <2>2, <3>1 DEF TypeOK
  <2> QED BY <2>3, <2>4, AccessEffect
<1>8. lock'[c] # NoSession => table'[lock'[c]] = seen'[c]
  BY AccessEffect
<1> QED BY <1>1, <1>6, <1>7, <1>8 DEF NoLostUpdate

\* What a client may be served: a read when it has no lock, or the write that
\* ends its transaction, or an active open when it has no lock.
Served(c, q) ==
    /\ rsp[c] = <<>>
    /\ q.op = "read" => lock[c] = NoSession /\ busy[c] = q.id
    /\ q.op = "write" => \/ lock[c] = q.id
                         \/ lock[c] = NoSession /\ c = "tx" /\ q.state = "SYN_SENT"

LEMMA ServeLocal ==
    ASSUME TypeOK, NEW c \in Clients, LocalInv(c), wait[c] = NoReq, req[c] # <<>>,
           Access(c, Head(req[c])),
           req'[c] = Tail(req[c]), wait'[c] = wait[c], busy'[c] = busy[c]
    PROVE  LocalInv(c)' /\ Served(c, Head(req[c]))
<1> DEFINE q == req[c]
           h == Head(q)
<1>1. q \in Seq(Requests) /\ q # <<>> BY DEF TypeOK
<1>2. /\ h = q[1] /\ h \in Requests /\ Tail(q) \in Seq(Requests)
      /\ Len(q) \in Nat /\ 1 \in 1..Len(q) /\ Len(Tail(q)) = Len(q) - 1
      /\ \A i \in 1..Len(Tail(q)) :
            i + 1 \in 1..Len(q) /\ i + 1 > 1 /\ Tail(q)[i] = q[i + 1]
      /\ Len(q) = 1 => Tail(q) = <<>>
  BY <1>1, HeadTailFacts
<1>3. rsp[c] = <<>> BY <1>1 DEF LocalInv, AnswerHasLock
<1>4. h.op = "read" \/ h.op = "write" BY <1>2 DEF Requests
<1>5. NoReq.op = "none" BY DEF NoReq
<1>6. CASE h.op = "read"
  <2>1. Len(q) = 1 /\ busy[c] = h.id BY <1>2, <1>6 DEF LocalInv, ReadIsLast
  <2>2. Tail(q) = <<>> BY <1>2, <2>1
  <2>3. lock[c] = NoSession BY <1>3, <1>6 DEF LocalInv, LockHasWrite
  <2>4. rsp'[c] = <<table[h.id]>> /\ lock'[c] = h.id /\ h.id \in Sessions
    BY <1>2, <1>3, <1>6, AccessEffect
  <2>5. Len(rsp'[c]) = 1 /\ req'[c] = <<>> /\ wait'[c] = NoReq /\ busy'[c] = h.id BY <2>1, <2>2, <2>4
  <2>6. busy'[c] # NoSession /\ rsp'[c] # <<>> BY <2>4, <2>5, SessionsAssumption
  <2>7. LocalInv(c)'
    <3>a. wait'[c].op = "none" BY <1>5, <2>5
    <3>c. \A i \in 1..Len(req'[c]) : FALSE BY <2>5, EmptyRange
    <3>1. ReadIsLast(c)' /\ BlindWritesAreOpens(c)'
      BY <3>a, <3>c DEF ReadIsLast, BlindWritesAreOpens
    <3>2. AnswerHasLock(c)' BY <2>4, <2>5, <2>6 DEF AnswerHasLock
    <3>3. LockHasWrite(c)' BY <2>6 DEF LockHasWrite
    <3> QED BY <3>1, <3>2, <3>3 DEF LocalInv
  <2> QED BY <1>3, <1>6, <2>1, <2>3, <2>7 DEF Served
<1>7. CASE h.op = "write"
  <2>1. rsp'[c] = <<>> /\ lock'[c] = NoSession BY <1>2, <1>3, <1>7, AccessEffect
  <2>2. lock[c] = h.id \/ (lock[c] = NoSession /\ c = "tx" /\ h.state = "SYN_SENT")
    BY <1>2, <1>3, <1>7 DEF LocalInv, LockHasWrite, BlindWritesAreOpens
  <2>3. ReadIsLast(c)'
    <3>1. \A i \in 1..Len(q) : q[i].op = "read" => i = Len(q) /\ busy[c] = q[i].id /\ rsp[c] = <<>>
      BY DEF LocalInv, ReadIsLast
    <3>2. \A i \in 1..Len(Tail(q)) : Tail(q)[i].op = "read" =>
             i = Len(Tail(q)) /\ busy[c] = Tail(q)[i].id /\ rsp[c] = <<>>
      BY <1>2, <3>1
    <3> QED BY <1>3, <1>5, <2>1, <3>2 DEF ReadIsLast
  <2>4. BlindWritesAreOpens(c)'
    <3>1. \A i \in 1..Len(q) : q[i].op = "write" /\ (i > 1 \/ lock[c] = NoSession) =>
             c = "tx" /\ q[i].state = "SYN_SENT"
      BY DEF LocalInv, BlindWritesAreOpens
    <3>2. \A i \in 1..Len(Tail(q)) : Tail(q)[i].op = "write" =>
             c = "tx" /\ Tail(q)[i].state = "SYN_SENT"
      BY <1>2, <3>1
    <3> QED BY <1>5, <2>1, <3>2 DEF BlindWritesAreOpens
  <2>5. AnswerHasLock(c)' /\ LockHasWrite(c)' BY <2>1 DEF AnswerHasLock, LockHasWrite
  <2> QED BY <1>3, <1>7, <2>2, <2>3, <2>4, <2>5 DEF LocalInv, Served
<1> QED BY <1>4, <1>6, <1>7

LEMMA PutOffLocal ==
    ASSUME TypeOK, NEW c \in Clients, LocalInv(c), wait[c] = NoReq, req[c] # <<>>,
           lock[c] # Head(req[c]).id,
           req'[c] = Tail(req[c]), wait'[c] = Head(req[c]),
           rsp'[c] = rsp[c], lock'[c] = lock[c], busy'[c] = busy[c]
    PROVE  LocalInv(c)' /\ lock[c] = NoSession
<1> DEFINE q == req[c]
           h == Head(q)
<1>1. q \in Seq(Requests) /\ q # <<>> BY DEF TypeOK
<1>2. /\ h = q[1] /\ h \in Requests /\ Tail(q) \in Seq(Requests)
      /\ Len(q) \in Nat /\ 1 \in 1..Len(q) /\ Len(Tail(q)) = Len(q) - 1
      /\ \A i \in 1..Len(Tail(q)) :
            i + 1 \in 1..Len(q) /\ i + 1 > 1 /\ Tail(q)[i] = q[i + 1]
      /\ Len(q) = 1 => Tail(q) = <<>>
  BY <1>1, HeadTailFacts
<1>3. rsp[c] = <<>> BY <1>1 DEF LocalInv, AnswerHasLock
<1>4. lock[c] = NoSession BY <1>3 DEF LocalInv, LockHasWrite
<1>5. ReadIsLast(c)'
  <2>1. ASSUME h.op = "read" PROVE Tail(q) = <<>> /\ busy[c] = h.id
    <3>1. Len(q) = 1 /\ busy[c] = h.id BY <1>2, <2>1 DEF LocalInv, ReadIsLast
    <3> QED BY <1>2, <3>1
  <2> QED BY <1>2, <1>3, <2>1 DEF LocalInv, ReadIsLast
<1>6. BlindWritesAreOpens(c)' BY <1>2, <1>4 DEF LocalInv, BlindWritesAreOpens
<1>7. AnswerHasLock(c)' /\ LockHasWrite(c)' BY <1>3, <1>4 DEF AnswerHasLock, LockHasWrite
<1> QED BY <1>4, <1>5, <1>6, <1>7 DEF LocalInv

LEMMA RetryLocal ==
    ASSUME TypeOK, NEW c \in Clients, LocalInv(c), wait[c] # NoReq, Access(c, wait[c]),
           req'[c] = req[c], wait'[c] = NoReq, busy'[c] = busy[c]
    PROVE  LocalInv(c)' /\ Served(c, wait[c])
<1> DEFINE h == wait[c]
<1>1. h \in Requests BY DEF TypeOK
<1>2. rsp[c] = <<>> /\ lock[c] = NoSession
  BY DEF LocalInv, AnswerHasLock, LockHasWrite
<1>3. h.op = "read" \/ h.op = "write" BY <1>1 DEF Requests
<1>4. NoReq.op = "none" BY DEF NoReq
<1>5. CASE h.op = "read"
  <2>1. req[c] = <<>> /\ busy[c] = h.id BY <1>5 DEF LocalInv, ReadIsLast
  <2>2. rsp'[c] = <<table[h.id]>> /\ lock'[c] = h.id /\ h.id \in Sessions
    BY <1>1, <1>2, <1>5, AccessEffect
  <2>3. Len(rsp'[c]) = 1 /\ busy'[c] # NoSession /\ rsp'[c] # <<>> BY <2>1, <2>2, SessionsAssumption
  <2>4. LocalInv(c)'
    BY <1>4, <2>1, <2>2, <2>3 DEF LocalInv, ReadIsLast, AnswerHasLock, LockHasWrite, BlindWritesAreOpens
  <2> QED BY <1>2, <1>5, <2>1, <2>4 DEF Served
<1>6. CASE h.op = "write"
  <2>1. rsp'[c] = <<>> /\ lock'[c] = NoSession BY <1>1, <1>2, <1>6, AccessEffect
  <2>2. c = "tx" /\ h.state = "SYN_SENT" BY <1>6 DEF LocalInv, BlindWritesAreOpens
  <2>3. LocalInv(c)'
    BY <1>2, <1>4, <2>1 DEF LocalInv, ReadIsLast, AnswerHasLock, LockHasWrite, BlindWritesAreOpens
  <2> QED BY <1>2, <1>6, <2>2, <2>3 DEF Served
<1> QED BY <1>3, <1>5, <1>6

-----------------------------------------------------------------------------
(* The inductive step, one action at a time.                                 *)

Inv == TypeOK /\ ProtocolInv

LEMMA ClosedIsUnlocked ==
    ASSUME TypeOK, NoLostUpdate, NEW s \in Sessions, MayClose(s), CloseSession(s),
           UNCHANGED <<lock, seen>>
    PROVE  NoLostUpdate'
BY DEF TypeOK, NoLostUpdate, MayClose, CloseSession

\* An action that leaves lock, wait and the FIFOs of the clients alone.
LEMMA ClientsFrame ==
    ASSUME ProtocolInv, NoLostUpdate', UNCHANGED <<lock, wait, req, rsp, busy>>
    PROVE  ProtocolInv'
BY LocalFrame DEF ProtocolInv, LocalInv, MutualExclusion, NoCircularWait

\* An action of client c that leaves the other client's part alone.
LEMMA ClientFrame ==
    ASSUME NEW c \in Clients, ProtocolInv,
           \A d \in Clients \ {c} : /\ req'[d] = req[d] /\ rsp'[d] = rsp[d]
                                    /\ wait'[d] = wait[d] /\ lock'[d] = lock[d]
                                    /\ busy'[d] = busy[d],
           LocalInv(c)', MutualExclusion', NoLostUpdate', NoCircularWait'
    PROVE  ProtocolInv'
<1>1. ASSUME NEW d \in Clients PROVE LocalInv(d)'
  <2>1. CASE d = c BY <2>1
  <2>2. CASE d # c
    <3>1. LocalInv(d) BY DEF ProtocolInv, LocalInv
    <3> QED BY <2>2, <3>1, LocalFrame
  <2> QED BY <2>1, <2>2
<1> QED BY <1>1 DEF ProtocolInv, LocalInv

LEMMA ClientActionStep ==
    ASSUME Inv, NEW c \in Clients,
           UNCHANGED <<table, lock, wait, seen>>,
           \A d \in Clients \ {c} : /\ req'[d] = req[d] /\ rsp'[d] = rsp[d]
                                    /\ busy'[d] = busy[d],
           LocalInv(c)'
    PROVE  ProtocolInv'
<1>1. MutualExclusion' /\ NoLostUpdate' /\ NoCircularWait'
  BY DEF Inv, ProtocolInv, MutualExclusion, NoLostUpdate, NoCircularWait
<1> QED BY <1>1, ClientFrame DEF Inv

LEMMA ServeClientStep ==
    ASSUME Inv, NEW c \in Clients, ServeClient(c)
    PROVE  ProtocolInv'
<1> DEFINE d == Other(c)
           h == Head(req[c])
<1>0. d \in Clients /\ d # c /\ Other(d) = c /\ \A x \in Clients : x = c \/ x = d  BY OtherClient
<1>1. TypeOK /\ LocalInv(c) /\ LocalInv(d) /\ MutualExclusion /\ NoLostUpdate /\ NoCircularWait
  BY <1>0 DEF Inv, ProtocolInv, LocalInv
<1>2. wait[c] = NoReq /\ req[c] # <<>> /\ req'[c] = Tail(req[c]) /\ req'[d] = req[d]
      /\ busy' = busy
  BY <1>0, <1>1 DEF ServeClient, FreshClient, TypeOK
<1>3. h \in Requests
  BY <1>1, <1>2, HeadTailFacts DEF TypeOK
<1>4. CASE MayAccess(c, h.id) /\ Access(c, h) /\ UNCHANGED wait
  <2>0. wait'[c] = wait[c] /\ busy'[c] = busy[c] BY <1>2, <1>4
  <2>1. LocalInv(c)' BY <1>1, <1>2, <1>4, <2>0, ServeLocal
  <2>2. MutualExclusion' /\ NoLostUpdate' BY <1>1, <1>3, <1>4, AccessIsExclusive
  <2>3. rsp'[d] = rsp[d] /\ lock'[d] = lock[d] BY <1>0, <1>1, <1>3, <1>4, AccessEffect
  <2>4. NoCircularWait'
    BY <1>0, <1>1, <1>2, <1>4, <2>3 DEF NoCircularWait
  <2>5. \A x \in Clients \ {c} : /\ req'[x] = req[x] /\ rsp'[x] = rsp[x]
                                 /\ wait'[x] = wait[x] /\ lock'[x] = lock[x]
                                 /\ busy'[x] = busy[x]
    BY <1>0, <1>2, <1>4, <2>3
  <2> QED BY <2>1, <2>2, <2>4, <2>5, ClientFrame DEF Inv
<1>5. CASE ~MayAccess(c, h.id) /\ wait' = [wait EXCEPT ![c] = h]
           /\ UNCHANGED <<table, lock, rsp, released, seen>>
  <2>1. lock[d] = h.id /\ h.id # NoSession
    BY <1>3, <1>5, SessionsAssumption DEF MayAccess, Requests
  <2>2. lock[c] # h.id
    BY <1>0, <1>1, <2>1 DEF MutualExclusion, Clients
  <2>3. wait'[c] = h /\ wait'[d] = wait[d] BY <1>0, <1>1, <1>5 DEF TypeOK
  <2>4. LocalInv(c)' /\ lock[c] = NoSession
    BY <1>1, <1>2, <1>5, <2>2, <2>3, PutOffLocal
  <2>5. wait[d] = NoReq BY <1>0, <1>1, <2>1 DEF NoCircularWait
  <2>6. NoCircularWait'
    BY <1>0, <1>5, <2>3, <2>4, <2>5 DEF NoCircularWait
  <2>7. MutualExclusion' /\ NoLostUpdate' BY <1>1, <1>5 DEF MutualExclusion, NoLostUpdate
  <2>8. \A x \in Clients \ {c} : /\ req'[x] = req[x] /\ rsp'[x] = rsp[x]
                                 /\ wait'[x] = wait[x] /\ lock'[x] = lock[x]
                                 /\ busy'[x] = busy[x]
    BY <1>0, <1>2, <1>5, <2>3
  <2> QED BY <2>4, <2>6, <2>7, <2>8, ClientFrame DEF Inv
<1> QED BY <1>4, <1>5 DEF ServeClient

LEMMA RetryClientStep ==
    ASSUME Inv, NEW c \in Clients, RetryClient(c)
    PROVE  ProtocolInv'
<1> DEFINE d == Other(c)
           h == wait[c]
<1>0. d \in Clients /\ d # c /\ Other(d) = c /\ \A x \in Clients : x = c \/ x = d  BY OtherClient
<1>1. TypeOK /\ LocalInv(c) /\ LocalInv(d) /\ MutualExclusion /\ NoLostUpdate /\ NoCircularWait
  BY <1>0 DEF Inv, ProtocolInv, LocalInv
<1>2. /\ h # NoReq /\ MayAccess(c, h.id) /\ Access(c, h) /\ busy' = busy /\ req' = req
      /\ wait'[c] = NoReq /\ wait'[d] = wait[d]
  BY <1>0, <1>1 DEF RetryClient, WaitIsOver, TypeOK
<1>3. h \in Requests BY <1>1, <1>2 DEF TypeOK
<1>4. LocalInv(c)' BY <1>1, <1>2, RetryLocal
<1>5. MutualExclusion' /\ NoLostUpdate' BY <1>1, <1>2, <1>3, AccessIsExclusive
<1>6. rsp'[d] = rsp[d] /\ lock'[d] = lock[d] BY <1>0, <1>1, <1>2, <1>3, AccessEffect
<1>7. wait[d] = NoReq BY <1>0, <1>1, <1>2 DEF NoCircularWait
<1>8. NoCircularWait' BY <1>0, <1>2, <1>7 DEF NoCircularWait
<1>9. \A x \in Clients \ {c} : /\ req'[x] = req[x] /\ rsp'[x] = rsp[x]
                               /\ wait'[x] = wait[x] /\ lock'[x] = lock[x]
                               /\ busy'[x] = busy[x]
  BY <1>0, <1>2, <1>6
<1> QED BY <1>4, <1>5, <1>8, <1>9, ClientFrame DEF Inv

LEMMA ProtocolStep == Inv /\ [Next]_vars => ProtocolInv'
<1> SUFFICES ASSUME Inv, [Next]_vars PROVE ProtocolInv'  OBVIOUS
<1> USE DEF Inv
<1>1. ASSUME NEW c \in Clients, NEW s \in Sessions, ClientRead(c, s) PROVE ProtocolInv'
  <2>1. LocalInv(c)' BY <1>1, ClientReadLocal DEF ProtocolInv, LocalInv
  <2> QED BY <1>1, <2>1, ClientActionStep DEF ClientRead, tableVars, TypeOK
<1>2. ASSUME NEW c \in Clients, ClientWrite(c) PROVE ProtocolInv'
  <2>1. LocalInv(c)' BY <1>2, ClientWriteLocal DEF ProtocolInv, LocalInv
  <2>2. \A d \in Clients \ {c} : req'[d] = req[d] /\ rsp'[d] = rsp[d] /\ busy'[d] = busy[d]
    BY <1>2 DEF ClientWrite, TypeOK
  <2> QED BY <1>2, <2>1, <2>2, ClientActionStep DEF ClientWrite, tableVars
<1>3. ASSUME NEW s \in Sessions, TxOpen(s) PROVE ProtocolInv'
  <2>1. "tx" \in Clients BY DEF Clients
  <2>2. LocalInv("tx")' BY <1>3, <2>1, TxOpenLocal DEF ProtocolInv, LocalInv
  <2> QED BY <1>3, <2>1, <2>2, ClientActionStep DEF TxOpen, tableVars, TypeOK
<1>4. ASSUME NEW s \in Sessions, StreamAsk(s) \/ TimerRelease(s) PROVE ProtocolInv'
  <2>1. UNCHANGED <<table, lock, wait, seen, req, rsp, busy>>
    BY <1>4 DEF StreamAsk, TimerRelease, tableVars
  <2>2. NoLostUpdate' BY <2>1 DEF ProtocolInv, NoLostUpdate
  <2> QED BY <2>1, <2>2, ClientsFrame
<1>5. CASE StreamTake \/ LookupTake \/ ServeStream
  <2>1. UNCHANGED <<table, lock, wait, seen, req, rsp, busy>>
    BY <1>5 DEF StreamTake, LookupTake, ServeStream, tableVars
  <2>2. NoLostUpdate' BY <2>1 DEF ProtocolInv, NoLostUpdate
  <2> QED BY <2>1, <2>2, ClientsFrame
<1>6. ASSUME NEW c \in Clients, ServeClient(c) PROVE ProtocolInv'
  BY <1>6, ServeClientStep
<1>7. ASSUME NEW c \in Clients, RetryClient(c) PROVE ProtocolInv'
  BY <1>7, RetryClientStep
<1>8. CASE ServeTimer
  <2> DEFINE s == Head(relReq)
  <2>1. s \in Sessions BY <1>8, HeadTailFacts DEF ServeTimer, FreshTimer, TypeOK
  <2>2. \/ MayClose(s) /\ CloseSession(s)
        \/ UNCHANGED table
    BY <1>8 DEF ServeTimer
  <2>3. UNCHANGED <<lock, wait, seen, req, rsp, busy>> BY <1>8 DEF ServeTimer
  <2> HIDE DEF s
  <2>4. NoLostUpdate'
    <3>1. CASE UNCHANGED table BY <2>3, <3>1 DEF ProtocolInv, NoLostUpdate
    <3> QED BY <2>1, <2>2, <2>3, <3>1, ClosedIsUnlocked DEF ProtocolInv
  <2> QED BY <2>3, <2>4, ClientsFrame
<1>9. CASE RetryClose
  <2>1. closeWait \in Sessions BY <1>9 DEF RetryClose, CloseIsPutOff, TypeOK
  <2>2. NoLostUpdate' BY <1>9, <2>1, ClosedIsUnlocked DEF RetryClose, ProtocolInv
  <2> QED BY <1>9, <2>2, ClientsFrame DEF RetryClose
<1>10. CASE UNCHANGED vars
  <2>1. NoLostUpdate' BY <1>10 DEF vars, ProtocolInv, NoLostUpdate
  <2> QED BY <1>10, <2>1, ClientsFrame DEF vars
<1> QED BY <1>1, <1>2, <1>3, <1>4, <1>5, <1>6, <1>7, <1>8, <1>9, <1>10
        DEF Next, Table, Environment

THEOREM ProtocolInvariant == Spec => []ProtocolInv
<1>1. Init => ProtocolInv
  BY DEF Init, ProtocolInv, MutualExclusion, NoLostUpdate, NoCircularWait, ReadIsLast,
         AnswerHasLock, LockHasWrite, BlindWritesAreOpens, NoReq, Clients
<1>2. TypeOK /\ ProtocolInv /\ [Next]_vars => ProtocolInv' BY ProtocolStep DEF Inv
<1> QED BY <1>1, <1>2, TypeCorrect, PTL DEF Spec

-----------------------------------------------------------------------------
(* What follows from the invariant.                                          *)

\* The rx FSM and tx_app_if never have the same session locked.
THEOREM LocksExclude == Spec => []MutualExclusion
<1>1. ProtocolInv => MutualExclusion BY DEF ProtocolInv
<1> QED BY <1>1, ProtocolInvariant, PTL

\* Nobody changes a state between a client's read and the write based on it.
THEOREM NoUpdateIsLost == Spec => []NoLostUpdate
<1>1. ProtocolInv => NoLostUpdate BY DEF ProtocolInv
<1> QED BY <1>1, ProtocolInvariant, PTL

\* The two clients never wait at the same time, and who waits has no lock.
THEOREM WaitingIsNotCircular == Spec => []NoCircularWait
<1>1. ProtocolInv => NoCircularWait BY DEF ProtocolInv
<1> QED BY <1>1, ProtocolInvariant, PTL

\* A lock stays with the session and client it was taken for until the write.
THEOREM LocksCoverTransactions == Spec => []LockCoversTransaction
<1>1. TypeOK /\ ProtocolInv => LockCoversTransaction
  <2> SUFFICES ASSUME TypeOK, ProtocolInv, NEW c \in Clients
               PROVE  /\ rsp[c] # <<>> => lock[c] = busy[c]
                      /\ lock[c] # NoSession /\ rsp[c] = <<>> =>
                            Pending(c) # <<>> /\ Head(Pending(c)).op = "write"
                                              /\ Head(Pending(c)).id = lock[c]
    BY DEF LockCoversTransaction
  <2>1. rsp[c] # <<>> => lock[c] = busy[c] BY DEF ProtocolInv, AnswerHasLock
  <2>2. ASSUME lock[c] # NoSession, rsp[c] = <<>>
        PROVE  Pending(c) # <<>> /\ Head(Pending(c)).op = "write"
                                 /\ Head(Pending(c)).id = lock[c]
    <3>1. wait[c] = NoReq /\ req[c] # <<>> /\ Head(req[c]).op = "write"
          /\ Head(req[c]).id = lock[c]
      BY <2>2 DEF ProtocolInv, LockHasWrite
    <3>2. Pending(c) = req[c]
      BY <3>1, ConcatEmptySeq DEF Pending, TypeOK
    <3> QED BY <3>1, <3>2
  <2> QED BY <2>1, <2>2
<1> QED BY <1>1, TypeCorrect, ProtocolInvariant, PTL

\* One step never changes an entry that is locked before and after it.
THEOREM LockedEntriesAreStable == Spec => LockedEntryIsStable
<1>1. TypeOK /\ ProtocolInv /\ ProtocolInv' /\ [Next]_vars =>
        [\A c \in Clients, s \in Sessions :
            lock[c] = s /\ lock'[c] = s => table'[s] = table[s]]_vars
  <2> SUFFICES ASSUME TypeOK, ProtocolInv, ProtocolInv', [Next]_vars,
                      NEW c \in Clients, NEW s \in Sessions, lock[c] = s, lock'[c] = s
               PROVE  table'[s] = table[s]
    OBVIOUS
  <2>1. s # NoSession BY SessionsAssumption
  <2>2. table[s] = seen[c] BY <2>1 DEF ProtocolInv, NoLostUpdate
  <2>3. table'[s] = seen'[c] BY <2>1 DEF ProtocolInv, NoLostUpdate
  <2>4. ASSUME NEW q \in Requests, NEW d \in Clients, Access(d, q) PROVE table'[s] = table[s]
    <3>1. CASE d = c
      <4>1. lock'[c] = s => q.op = "read" BY <2>1, <2>4, <3>1, AccessEffect
      <4> QED BY <2>4, <3>1, <4>1, AccessEffect
    <3>2. CASE d # c
      <4>1. seen'[c] = seen[c] BY <2>4, <3>2, AccessEffect
      <4> QED BY <2>2, <2>3, <4>1
    <3> QED BY <3>1, <3>2
  <2>5. ASSUME seen' = seen PROVE table'[s] = table[s] BY <2>2, <2>3, <2>5
  <2>6. ASSUME NEW d \in Clients, ServeClient(d) PROVE table'[s] = table[s]
    <3>1. Head(req[d]) \in Requests
      BY <2>6, HeadTailFacts DEF ServeClient, FreshClient, TypeOK
    <3> QED BY <2>4, <2>6, <3>1 DEF ServeClient
  <2>7. ASSUME NEW d \in Clients, RetryClient(d) PROVE table'[s] = table[s]
    <3>1. wait[d] \in Requests BY <2>7 DEF RetryClient, TypeOK
    <3> QED BY <2>4, <2>7, <3>1 DEF RetryClient
  <2>8. CASE Environment \/ ServeStream \/ UNCHANGED vars
    BY <2>8 DEF Environment, ClientWrite, ClientRead, TxOpen, StreamAsk, TimerRelease,
                StreamTake, LookupTake, ServeStream, tableVars, vars
  <2>9. CASE ServeTimer \/ RetryClose
    BY <2>5, <2>9 DEF ServeTimer, RetryClose
  <2> QED BY <2>6, <2>7, <2>8, <2>9 DEF Next, Table
<1> QED BY <1>1, TypeCorrect, ProtocolInvariant, PTL DEF Spec, LockedEntryIsStable

-----------------------------------------------------------------------------
(* The table implements atomic transactions.                                 *)

txnMap == [c \in Clients |-> TxnOf(c)]

LEMMA AccessIsTransaction ==
    ASSUME Inv, NEW c \in Clients, NEW q \in Requests,
           MayAccess(c, q.id), Access(c, q), Served(c, q)
    PROVE  Atomic!Next
<1> DEFINE d == Other(c)
           s == q.id
<1>0. d \in Clients /\ d # c /\ \A x \in Clients : x = c \/ x = d  BY OtherClient
<1>1. TypeOK /\ NoLostUpdate BY DEF Inv, ProtocolInv
<1>2. s \in Sessions /\ q.state \in States /\ s # NoSession
  BY SessionsAssumption DEF Requests
<1>3. lock[d] # s BY DEF MayAccess
<1>4. \A x \in Clients : txnMap[x] = TxnOf(x) /\ txnMap'[x] = TxnOf(x)' BY DEF txnMap
<1>5. TxnOf(d)' = TxnOf(d)
  <2>1. lock'[d] = lock[d] /\ seen'[d] = seen[d] BY <1>0, <1>1, AccessEffect
  <2> QED BY <2>1 DEF TxnOf
<1>6. ASSUME NEW v, TxnOf(c)' = v PROVE txnMap' = [txnMap EXCEPT ![c] = v]
  BY <1>0, <1>5, <1>6 DEF txnMap
<1>7. txnMap[c].id = lock[c] /\ txnMap[d].id = lock[d]
  <2>1. TxnOf(c).id = lock[c] /\ TxnOf(d).id = lock[d] BY DEF TxnOf
  <2> HIDE DEF d
  <2> QED BY <1>0, <1>4, <2>1
<1>8. CASE q.op = "read"
  <2>1. lock[c] = NoSession BY <1>8 DEF Served
  <2>2. TxnOf(c)' = [id |-> s, told |-> table[s]] /\ table' = table
    BY <1>1, <1>2, <1>8, AccessEffect DEF TxnOf
  <2>3. TxnOf(c) = [id |-> NoSession, told |-> NoSession] BY <2>1 DEF TxnOf
  <2>4. \A x \in Clients : txnMap[x].id # s BY <1>0, <1>2, <1>3, <1>7, <2>1
  <2>5. Atomic!Begin(c, s)
    BY <1>4, <1>6, <2>2, <2>3, <2>4 DEF Atomic!Begin, Atomic!Idle, Atomic!Free, txnMap
  <2> QED BY <1>2, <2>5 DEF Atomic!Next
<1>9. CASE q.op = "write"
  <2>1. table' = [table EXCEPT ![s] = q.state] /\ lock'[c] = NoSession
    BY <1>1, <1>9, AccessEffect
  <2>2. TxnOf(c)' = [id |-> NoSession, told |-> NoSession] BY <2>1 DEF TxnOf
  <2>3. txnMap' = [txnMap EXCEPT ![c] = [id |-> NoSession, told |-> NoSession]]
    BY <1>6, <2>2
  <2>4. CASE lock[c] = s
    <3>1. table[s] = seen[c] BY <1>1, <1>2, <2>4 DEF NoLostUpdate
    <3>2. TxnOf(c) = [id |-> s, told |-> table[s]] BY <1>2, <2>4, <3>1 DEF TxnOf
    <3>3. Atomic!Commit(c, s)
      BY <1>2, <1>4, <2>1, <2>3, <3>2 DEF Atomic!Commit, Atomic!Idle, txnMap
    <3> QED BY <1>2, <3>3 DEF Atomic!Next
  <2>5. CASE lock[c] = NoSession /\ c = "tx" /\ q.state = "SYN_SENT"
    <3>1. TxnOf(c) = [id |-> NoSession, told |-> NoSession] BY <2>5 DEF TxnOf
    <3>2. txnMap' = txnMap
      BY <1>4, <2>3, <3>1 DEF txnMap
    <3>3. \A x \in Clients : txnMap[x].id # s BY <1>0, <1>2, <1>3, <1>7, <2>5
    <3>4. Atomic!Open(s)
      BY <1>4, <2>1, <2>5, <3>1, <3>2, <3>3 DEF Atomic!Open, Atomic!Idle, Atomic!Free, txnMap
    <3> QED BY <1>2, <3>4 DEF Atomic!Next
  <2> QED BY <1>9, <2>4, <2>5 DEF Served
<1> QED BY <1>8, <1>9 DEF Requests

LEMMA CloseIsAtomic ==
    ASSUME NEW s \in Sessions, MayClose(s), CloseSession(s), UNCHANGED <<lock, seen>>
    PROVE  Atomic!Next
<1>1. txnMap' = txnMap BY DEF txnMap, TxnOf
<1>2. \A c \in Clients : txnMap[c].id # s BY DEF txnMap, TxnOf, MayClose
<1>3. Atomic!Close(s)
  BY <1>1, <1>2 DEF Atomic!Close, Atomic!Free, CloseSession, txnMap
<1> QED BY <1>3 DEF Atomic!Next

\* Every step of the table is one atomic transaction step or none: the FIFOs,
\* the locks and the waiting never show.
THEOREM TableIsAtomic == Spec => ImplementsAtomic
<1>1. Init => Atomic!Init
  BY DEF Init, Atomic!Init, Atomic!Idle, TxnOf
<1>2. TypeOK /\ ProtocolInv /\ [Next]_vars => [Atomic!Next]_<<table, txnMap>>
  <2> SUFFICES ASSUME TypeOK, ProtocolInv, [Next]_vars, ~UNCHANGED <<table, txnMap>>
               PROVE  Atomic!Next
    OBVIOUS
  <2>1. ~UNCHANGED <<table, lock, seen>> BY DEF txnMap, TxnOf
  <2>2. ASSUME NEW c \in Clients, ServeClient(c) PROVE Atomic!Next
    <3>1. Head(req[c]) \in Requests /\ wait[c] = NoReq /\ req[c] # <<>>
      BY <2>2, HeadTailFacts DEF ServeClient, FreshClient, TypeOK
    <3>2. MayAccess(c, Head(req[c]).id) /\ Access(c, Head(req[c])) /\ UNCHANGED wait
      BY <2>1, <2>2 DEF ServeClient
    <3>3. req'[c] = Tail(req[c]) /\ wait'[c] = wait[c] /\ busy'[c] = busy[c]
      BY <2>2, <3>2 DEF ServeClient, TypeOK
    <3>4. LocalInv(c) BY DEF ProtocolInv, LocalInv
    <3>5. Served(c, Head(req[c])) BY <3>1, <3>2, <3>3, <3>4, ServeLocal
    <3> QED BY <3>1, <3>2, <3>5, AccessIsTransaction DEF Inv
  <2>3. ASSUME NEW c \in Clients, RetryClient(c) PROVE Atomic!Next
    <3>1. wait[c] \in Requests /\ wait[c] # NoReq /\ wait'[c] = NoReq
          /\ req'[c] = req[c] /\ busy'[c] = busy[c]
      BY <2>3 DEF RetryClient, WaitIsOver, TypeOK
    <3>2. MayAccess(c, wait[c].id) /\ Access(c, wait[c]) BY <2>3 DEF RetryClient
    <3>3. LocalInv(c) BY DEF ProtocolInv, LocalInv
    <3>4. Served(c, wait[c]) BY <3>1, <3>2, <3>3, RetryLocal
    <3> QED BY <3>1, <3>2, <3>4, AccessIsTransaction DEF Inv
  <2>4. CASE Environment \/ ServeStream \/ UNCHANGED vars
    BY <2>1, <2>4 DEF Environment, ClientWrite, ClientRead, TxOpen, StreamAsk, TimerRelease,
                StreamTake, LookupTake, ServeStream, tableVars, vars
  <2>5. CASE ServeTimer
    <3>1. Head(relReq) \in Sessions BY <2>5, HeadTailFacts DEF ServeTimer, FreshTimer, TypeOK
    <3>2. MayClose(Head(relReq)) /\ CloseSession(Head(relReq)) /\ UNCHANGED <<lock, seen>>
      BY <2>1, <2>5 DEF ServeTimer
    <3> QED BY <3>1, <3>2, CloseIsAtomic
  <2>6. CASE RetryClose
    <3>1. closeWait \in Sessions BY <2>6 DEF RetryClose, CloseIsPutOff, TypeOK
    <3> QED BY <2>6, <3>1, CloseIsAtomic DEF RetryClose
  <2> QED BY <2>2, <2>3, <2>4, <2>5, <2>6 DEF Next, Table
<1>3. [][Atomic!Next]_<<table, txnMap>> => [][Atomic!Next]_<<table, [c \in Clients |-> TxnOf(c)]>>
  BY DEF txnMap
<1> QED BY <1>1, <1>2, <1>3, TypeCorrect, ProtocolInvariant, PTL
        DEF Spec, ImplementsAtomic, Atomic!Spec

-----------------------------------------------------------------------------
(* The session lookup, for any number of sessions and any set of tuples.   *)

P == INSTANCE SessionLookupProofs

allVars == <<vars, lookupVars, turn>>

LEMMA InitIsInit == MCInit => P!Init
BY DEF MCInit, Lookup!Init, P!Init, Lookup!Lookup, P!Lookup, Lookup!Ids, P!Ids

\* The session lookup that is checked is the one the proofs are about.
LEMMA SameActions ==
    /\ Lookup!RecycleId => P!RecycleId
    /\ Lookup!NewId => P!NewId
    /\ \A src, t, allow : Lookup!LupReq(src, t, allow) => P!LupReq(src, t, allow)
    /\ Lookup!LupRspCreate => P!LupRspCreate
    /\ Lookup!LupRspReply => P!LupRspReply
    /\ Lookup!UpdRsp => P!UpdRsp
    /\ Lookup!SendInsert => P!SendInsert
    /\ Lookup!SendDelete => P!SendDelete
    /\ Lookup!UpdateReply => P!UpdateReply
    /\ Lookup!RevInsert => P!RevInsert
    /\ \A id : Lookup!RevRelease(id) => P!RevRelease(id)
    /\ \A id : Lookup!RevLookup(id) => P!RevLookup(id)
    /\ Lookup!CamLookup => P!CamLookup
    /\ Lookup!CamUpdate(Lookup!NextUpdate) => P!CamUpdate(P!NextUpdate)
<1> USE DEF Lookup!fifos, P!fifos, Lookup!idVars, P!idVars, Lookup!fsmVars, P!fsmVars, Lookup!revVars, P!revVars,
             Lookup!extVars, P!extVars, Lookup!camVars, P!camVars
<1>1. Lookup!RecycleId => P!RecycleId
  BY DEF Lookup!RecycleId, P!RecycleId
<1>2. Lookup!NewId => P!NewId
  BY DEF Lookup!NewId, P!NewId, Lookup!UnusedIds, P!UnusedIds
<1>3. \A src, t, allow : Lookup!LupReq(src, t, allow) => P!LupReq(src, t, allow)
  BY DEF Lookup!LupReq, P!LupReq, Lookup!Lookup, P!Lookup
<1>4. Lookup!LupRspCreate => P!LupRspCreate
  BY DEF Lookup!LupRspCreate, P!LupRspCreate, Lookup!Answered, P!Answered, Lookup!Creates, P!Creates, Lookup!Room,
         P!Room, Lookup!Update, P!Update, Lookup!Lookup, P!Lookup
<1>5. Lookup!LupRspReply => P!LupRspReply
  BY DEF Lookup!LupRspReply, P!LupRspReply, Lookup!Answered, P!Answered, Lookup!Passes, P!Passes, Lookup!Creates,
         P!Creates, Lookup!Answer, P!Answer, Lookup!Lookup, P!Lookup
<1>6. Lookup!UpdRsp => P!UpdRsp
  BY DEF Lookup!UpdRsp, P!UpdRsp, Lookup!Room, P!Room, Lookup!Answer, P!Answer
<1>7. Lookup!SendInsert => P!SendInsert
  BY DEF Lookup!SendInsert, P!SendInsert, Lookup!Room, P!Room
<1>8. Lookup!SendDelete => P!SendDelete
  BY DEF Lookup!SendDelete, P!SendDelete, Lookup!Room, P!Room, Lookup!ReturnId, P!ReturnId, Lookup!UsedAfterDelete,
         P!UsedAfterDelete
<1>9. Lookup!UpdateReply => P!UpdateReply
  BY DEF Lookup!UpdateReply, P!UpdateReply, Lookup!AnswersInserts, P!AnswersInserts, Lookup!Room, P!Room
<1>10. Lookup!RevInsert => P!RevInsert
  BY DEF Lookup!RevInsert, P!RevInsert
<1>11. \A id : Lookup!RevRelease(id) => P!RevRelease(id)
  BY DEF Lookup!RevRelease, P!RevRelease, Lookup!InsertsFirst, P!InsertsFirst, Lookup!Known, P!Known,
         Lookup!ReleasesValid, P!ReleasesValid, Lookup!Room, P!Room, Lookup!Update, P!Update, Lookup!Output,
         P!Output
<1>12. \A id : Lookup!RevLookup(id) => P!RevLookup(id)
  BY DEF Lookup!RevLookup, P!RevLookup, Lookup!InsertsFirst, P!InsertsFirst, Lookup!Known, P!Known, Lookup!Output,
         P!Output
<1>13. Lookup!CamLookup => P!CamLookup
  BY DEF Lookup!CamLookup, P!CamLookup, Lookup!Lookup, P!Lookup
<1>14. Lookup!CamUpdate(Lookup!NextUpdate) => P!CamUpdate(P!NextUpdate)
  BY DEF Lookup!CamUpdate, P!CamUpdate, Lookup!Room, P!Room, Lookup!NextUpdate, P!NextUpdate,
         Lookup!RemoveAt, P!RemoveAt
<1> QED BY <1>1, <1>2, <1>3, <1>4, <1>5, <1>6, <1>7, <1>8, <1>9, <1>10, <1>11, <1>12, <1>13, <1>14

LEMMA NextIsNext == [MCNext]_allVars => [P!Next]_P!vars
<1>1. Lookup!Next => P!Next
  BY SameActions DEF Lookup!Next, P!Next, Lookup!Sources, P!Sources, Lookup!Ids, P!Ids
<1>2. UNCHANGED lookupVars => UNCHANGED P!vars
  BY DEF lookupVars, P!vars, P!fifos, P!idVars, P!fsmVars, P!revVars, P!extVars, P!camVars
<1> QED BY <1>1, <1>2 DEF MCNext, allVars

LEMMA SpecIsSpec == MCSpec => P!Spec
BY InitIsInit, NextIsNext, PTL DEF MCSpec, P!Spec, allVars

\* What SessionLookup assumes of its constants.
LEMMA Assumptions ==
    MaxSessions \in Nat \ {0} /\ None \notin Tuples \cup Nat /\ InsertMayFail \in BOOLEAN /\ Depth \in Nat \ {0}
BY LookupAssumption, DepthAssumption

\* Every identifier that was ever made is in exactly one place, and regSessionCount
\* counts those in use.
THEOREM IdsAreInOnePlace == MCSpec => []EveryIdInOnePlace
<1>1. P!Spec => []P!TypeOK BY Assumptions, P!TypeCorrect
<1>2. P!Spec => []P!EveryIdInOnePlace BY Assumptions, P!IdsAreInOnePlace
<1>3. P!Spec => []P!UsedIsExact BY Assumptions, P!CountIsExact
<1>4. P!TypeOK => Lookup!TypeOK
  BY DEF P!TypeOK, Lookup!TypeOK, P!Ids, Lookup!Ids, P!Queries, Lookup!Queries, P!Lookups, Lookup!Lookups,
         P!Updates, Lookup!Updates, P!Sources, Lookup!Sources
<1>5. Lookup!Contents = P!Contents
  BY DEF P!Contents, Lookup!Contents, P!IdsOf, Lookup!IdsOf, P!InsertedIds, Lookup!InsertedIds, P!Ids, Lookup!Ids
<1>6. \A S : Lookup!Cardinality(S) = P!Cardinality(S) BY DEF P!Cardinality, Lookup!Cardinality
<1>7. P!EveryIdInOnePlace => Lookup!EveryIdInOnePlace
  <2>1. \A id : Lookup!Locations(id) = P!Locations(id) BY <1>5 DEF P!Locations, Lookup!Locations
  <2>2. Lookup!Ids = P!Ids BY DEF P!Ids, Lookup!Ids
  <2> QED BY <2>1, <2>2, <1>6 DEF P!EveryIdInOnePlace, Lookup!EveryIdInOnePlace
<1>8. P!UsedIsExact => Lookup!UsedIsExact
  <2>1. Lookup!InUse = P!InUse
    BY <1>5 DEF P!InUse, Lookup!InUse, P!UsedPlaces, Lookup!UsedPlaces, P!Has, Lookup!Has, P!Ids, Lookup!Ids
  <2> QED BY <2>1, <1>6 DEF P!UsedIsExact, Lookup!UsedIsExact
<1>9. P!TypeOK /\ P!EveryIdInOnePlace /\ P!UsedIsExact => EveryIdInOnePlace
  BY <1>4, <1>7, <1>8 DEF EveryIdInOnePlace
<1> QED BY <1>1, <1>2, <1>3, <1>9, SpecIsSpec, PTL

\* The hash table has no identifier twice, and only sessions that there are.
THEOREM TableIsExact == MCSpec => []CamIsExact
<1>1. P!Spec => []P!CamIsExact BY Assumptions, P!TableIsExact
<1>2. P!CamIsExact => CamIsExact
  BY DEF CamIsExact, P!CamIsExact, Lookup!CamIsExact, P!CamIsInjective, Lookup!CamIsInjective,
         P!CamMatchesReverse, Lookup!CamMatchesReverse
<1> QED BY <1>1, <1>2, SpecIsSpec, PTL

\* A live session is found by its tuple, as long as no insert fails.
THEOREM SessionsAreFound == MCSpec => []LiveSessionsAreFound
<1>1. P!Spec => []P!LiveSessionsAreFound BY Assumptions, P!SessionsAreFound
<1>2. P!LiveSessionsAreFound => LiveSessionsAreFound
  BY DEF LiveSessionsAreFound, P!LiveSessionsAreFound, Lookup!LiveSessionsAreFound, P!Ids, Lookup!Ids
<1> QED BY <1>1, <1>2, SpecIsSpec, PTL

\* A lookup in either direction answers with the session, or the tuple, of the
\* last creation.
THEOREM LookupsNameTheOwner == MCSpec => LookupsAreCurrent
<1> DEFINE Rev == revOut' \notin {revOut, None} /\ revOut'.to = "txEng" => revOut'.tuple = owner[revOut'.id]
           Hit == answer' \notin {answer, None} /\ answer'.id # None => owner'[answer'.id] = answer'.tuple
<1>1. P!Spec => P!LookupsAreCurrent BY Assumptions, P!LookupsNameTheOwner
<1>2. P!LookupsAreCurrent <=> [][Rev]_P!vars /\ [][Hit]_P!vars
  BY DEF P!LookupsAreCurrent, P!ReverseLookupIsCurrent, P!HitsNameTheOwner
<1>3. LookupsAreCurrent <=> [][Rev]_Lookup!vars /\ [][Hit]_Lookup!vars
  BY DEF LookupsAreCurrent, Lookup!LookupsAreCurrent, Lookup!ReverseLookupIsCurrent, Lookup!HitsNameTheOwner
<1>4. UNCHANGED P!vars => UNCHANGED Lookup!vars
  BY DEF P!vars, P!fifos, P!idVars, P!fsmVars, P!revVars, P!extVars, P!camVars,
         Lookup!vars, Lookup!fifos, Lookup!idVars, Lookup!fsmVars, Lookup!revVars, Lookup!extVars, Lookup!camVars
<1>5. [Rev]_P!vars => [Rev]_Lookup!vars BY <1>4
<1>6. [Hit]_P!vars => [Hit]_Lookup!vars BY <1>4
<1>7. [][Rev]_P!vars => [][Rev]_Lookup!vars BY <1>5, PTL
<1>8. [][Hit]_P!vars => [][Hit]_Lookup!vars BY <1>6, PTL
<1> QED BY <1>1, <1>2, <1>3, <1>7, <1>8, SpecIsSpec

=============================================================================
