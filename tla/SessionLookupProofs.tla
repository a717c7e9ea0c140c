-------------------------- MODULE SessionLookupProofs --------------------------
(***************************************************************************)
(* That the session lookup keeps its identifiers and its hash table in     *)
(* order, for any number of sessions and any depth of its FIFOs.           *)
(*                                                                         *)
(* Each action takes an identifier out of one place and puts it into       *)
(* another, which the lemmas on contents say once for all of them.  The    *)
(* hash table then follows from the order in which requests travel to it:  *)
(* a delete is never behind a request for the same identifier.             *)
(***************************************************************************)
EXTENDS SessionLookup, SequenceTheorems, FiniteSetTheorems, TLAPS

Places == {"freeList", "finFifo", "insReq", "updReq", "updRsp", "insRsp", "revIns", "table", "delReq"}

\* No identifier is twice in a place.
Once(f, x) == \A i, j \in DOMAIN f : f[i] = x /\ f[j] = x => i = j

\* The identifier is in at most one place, and only there once.
Placed(contents, x) ==
    /\ \A p \in Places : Once(contents[p], x)
    /\ \A p, q \in Places : Has(contents[p], x) /\ Has(contents[q], x) => p = q

Among(contents, places, x) == \E p \in places : Has(contents[p], x)

PlaceInv == \A x \in Ids : Placed(Contents, x) /\ (Among(Contents, Places, x) <=> x < counter)

\* One session is created at a time, by lookupReplyHandler, which waits for it.
InsertPlaces == {"insReq", "updReq", "updRsp", "insRsp"}
OnlyOp(q, op) == \A i \in DOMAIN q : q[i].op = op
IsFor(q, t) == \A i \in DOMAIN q : q[i].op = "INSERT" => q[i].tuple = t

QueryInv ==
    /\ lup.st = "none" <=> fsm # "LUP_RSP"
    /\ lup.st = "hit" <=> lup.id # None
    /\ fsm # "LUP_REQ" => query \in Queries
OpsInv == OnlyOp(insReq, "INSERT") /\ OnlyOp(insRsp, "INSERT") /\ OnlyOp(delReq, "DELETE")
OneInsert ==
    \A x, y \in Ids : Among(Contents, InsertPlaces, x) /\ Among(Contents, InsertPlaces, y)
                        => fsm = "UPD_RSP" /\ x = y
TupleInv ==
    fsm = "UPD_RSP" => /\ IsFor(insReq, query.tuple) /\ IsFor(updReq, query.tuple)
                       /\ IsFor(updRsp, query.tuple) /\ IsFor(insRsp, query.tuple)
FsmInv == QueryInv /\ OpsInv /\ OneInsert /\ TupleInv

\* A delete is the first request for its identifier that is on the way to the hash
\* table, and the identifier has not yet been given to another session.
EarlyPlaces == {"freeList", "finFifo", "insReq", "updReq"}
DeleteInv ==
    \A i \in DOMAIN updReq : updReq[i].op = "DELETE" =>
        /\ Among(Contents, EarlyPlaces, updReq[i].id)
        /\ \A j \in DOMAIN updReq : j < i => updReq[j].id # updReq[i].id

\* The hash table was told that the tuple has the identifier, and not yet that the
\* session is over.
Told(q, op, x, t) == \E i \in DOMAIN q : q[i].op = op /\ q[i].id = x /\ q[i].tuple = t
EnteredIn(q, x, t) == \E i \in DOMAIN q : q[i].id = x /\ q[i].tuple = t
Entered(x, t) == EnteredIn(revIns, x, t)
Owned(x, t) ==
    \/ Entered(x, t)
    \/ valid[x] /\ rev[x] = t
    \/ Told(delReq, "DELETE", x, t)
    \/ Told(updReq, "DELETE", x, t)
Stored(x, t) == Told(updRsp, "INSERT", x, t) \/ Told(insRsp, "INSERT", x, t) \/ Owned(x, t)

\* The hash table has what it was told, all of it unless an insert has failed, and
\* nothing about the tuple that is looked up in order to create its session.
Creating == insReq # <<>> \/ \E x \in Ids : Has(InsertedIds(updReq), x)
Wanted == lup.st = "miss" \/ Creating
CamInv ==
    /\ \A x \in Ids, t \in Tuples : cam[t] = x => Stored(x, t)
    /\ ~dropped => \A x \in Ids, t \in Tuples : Stored(x, t) => cam[t] = x
    /\ ~dropped /\ Wanted => cam[query.tuple] = None

\* The owner of an identifier is its tuple, from the answer to its creation until
\* the next one.
OwnerInv ==
    /\ \A x \in Ids, t \in Tuples : Owned(x, t) => owner[x] = t
    /\ \A x \in Ids : valid[x] => rev[x] # None
    /\ \A x \in Ids : owner[x] # None /\ ~Has(IdsOf(revIns), x) => rev[x] = owner[x]
    /\ lup.st = "hit" => owner[lup.id] = query.tuple

IInv == TypeOK /\ PlaceInv /\ UsedIsExact /\ FsmInv /\ DeleteInv /\ CamInv /\ OwnerInv

-----------------------------------------------------------------------------
(* Contents                                                                *)

\* g has v once more than f.
Adds(f, g, v, x) ==
    /\ Has(g, x) <=> Has(f, x) \/ v = x
    /\ Once(g, x) <=> Once(f, x) /\ ~(v = x /\ Has(f, x))
Same(f, g, x) ==
    /\ Has(g, x) <=> Has(f, x)
    /\ Once(g, x) <=> Once(f, x)

LEMMA LongerAdds ==
    ASSUME NEW n \in Nat, NEW f, NEW g, NEW x, DOMAIN f = 1 .. n, DOMAIN g = 1 .. n + 1,
           \A i \in 1 .. n : g[i] = f[i]
    PROVE  Adds(f, g, g[n + 1], x)
<1>1. \A i : i \in 1 .. n + 1 <=> i \in 1 .. n \/ i = n + 1 OBVIOUS
<1>2. n + 1 \notin 1 .. n OBVIOUS
<1>3. Has(g, x) <=> Has(f, x) \/ g[n + 1] = x BY <1>1 DEF Has
<1>4. Once(g, x) <=> Once(f, x) /\ ~(g[n + 1] = x /\ Has(f, x))
  <2>1. ASSUME Once(g, x) PROVE Once(f, x) /\ ~(g[n + 1] = x /\ Has(f, x)) BY <1>1, <1>2, <2>1 DEF Has, Once
  <2>2. ASSUME Once(f, x), ~(g[n + 1] = x /\ Has(f, x)) PROVE Once(g, x)
    <3> SUFFICES ASSUME NEW i \in DOMAIN g, NEW j \in DOMAIN g, g[i] = x, g[j] = x PROVE i = j BY DEF Once
    <3>1. i \in 1 .. n \/ i = n + 1 BY <1>1
    <3>2. j \in 1 .. n \/ j = n + 1 BY <1>1
    <3> QED BY <3>1, <3>2, <2>2 DEF Has, Once
  <2> QED BY <2>1, <2>2
<1> QED BY <1>3, <1>4 DEF Adds

LEMMA ShorterAdds ==
    ASSUME NEW n \in Nat, NEW f, NEW g, NEW x, DOMAIN f = 1 .. n, DOMAIN g = 1 .. n + 1,
           \A i \in 1 .. n : f[i] = g[i + 1]
    PROVE  Adds(f, g, g[1], x)
<1>1. \A i \in 1 .. n + 1 : i = 1 \/ (i - 1 \in 1 .. n /\ (i - 1) + 1 = i) OBVIOUS
<1>2. \A i \in 1 .. n : i + 1 \in 1 .. n + 1 /\ i + 1 # 1 /\ 1 \in 1 .. n + 1 OBVIOUS
<1>3. 1 \in 1 .. n + 1 OBVIOUS
<1>4. Has(g, x) <=> Has(f, x) \/ g[1] = x
  <2>1. ASSUME NEW i \in 1 .. n + 1, g[i] = x, g[1] # x PROVE Has(f, x)
    <3>1. i - 1 \in 1 .. n /\ (i - 1) + 1 = i BY <1>1, <2>1
    <3>2. f[i - 1] = x BY <3>1, <2>1
    <3> QED BY <3>1, <3>2 DEF Has
  <2> QED BY <2>1, <1>2, <1>3 DEF Has
<1>5. Once(g, x) <=> Once(f, x) /\ ~(g[1] = x /\ Has(f, x))
  <2>1. ASSUME Once(g, x) PROVE Once(f, x) /\ ~(g[1] = x /\ Has(f, x))
    <3>1. ASSUME NEW i \in 1 .. n, NEW j \in 1 .. n, f[i] = x, f[j] = x PROVE i = j
      <4>1. i + 1 = j + 1 BY <3>1, <2>1, <1>2 DEF Once
      <4> QED BY <4>1
    <3>2. ASSUME NEW i \in 1 .. n, f[i] = x, g[1] = x PROVE FALSE BY <3>2, <2>1, <1>2 DEF Once
    <3> QED BY <3>1, <3>2 DEF Has, Once
  <2>2. ASSUME Once(f, x), ~(g[1] = x /\ Has(f, x)) PROVE Once(g, x)
    <3> SUFFICES ASSUME NEW i \in 1 .. n + 1, NEW j \in 1 .. n + 1, g[i] = x, g[j] = x PROVE i = j BY DEF Once
    <3>1. ASSUME NEW k \in 1 .. n + 1, k # 1, g[k] = x PROVE k - 1 \in 1 .. n /\ f[k - 1] = x
      BY <1>1, <3>1
    <3>2. CASE i = 1 BY <3>1, <3>2, <2>2 DEF Has
    <3>3. CASE j = 1 BY <3>1, <3>3, <2>2 DEF Has
    <3>4. CASE i # 1 /\ j # 1
      <4>1. i - 1 = j - 1 BY <3>1, <3>4, <2>2 DEF Once
      <4> QED BY <4>1
    <3> QED BY <3>2, <3>3, <3>4
  <2> QED BY <2>1, <2>2
<1> QED BY <1>4, <1>5 DEF Adds

\* A queue gets one more at its end, and loses its head.
LEMMA AppendAdds ==
    ASSUME NEW S, NEW q \in Seq(S), NEW v \in S, NEW x
    PROVE  Adds(q, Append(q, v), v, x)
<1>1. /\ Len(q) \in Nat /\ DOMAIN q = 1 .. Len(q) /\ DOMAIN Append(q, v) = 1 .. Len(q) + 1
      /\ Append(q, v)[Len(q) + 1] = v /\ \A i \in 1 .. Len(q) : Append(q, v)[i] = q[i]
  OBVIOUS
<1> QED BY <1>1, LongerAdds

LEMMA TailAdds ==
    ASSUME NEW S, NEW q \in Seq(S), q # <<>>, NEW x
    PROVE  Adds(Tail(q), q, Head(q), x)
<1> DEFINE n == Len(q) - 1
<1>1. /\ n \in Nat /\ DOMAIN q = 1 .. n + 1 /\ DOMAIN Tail(q) = 1 .. n
      /\ q[1] = Head(q) /\ \A i \in 1 .. n : Tail(q)[i] = q[i + 1]
  OBVIOUS
<1> HIDE DEF n
<1> QED BY <1>1, ShorterAdds

LEMMA IdsOfAppend ==
    ASSUME NEW S, NEW q \in Seq(S), NEW u \in S, NEW x
    PROVE  /\ Adds(IdsOf(q), IdsOf(Append(q, u)), u.id, x)
           /\ Adds(InsertedIds(q), InsertedIds(Append(q, u)), IF u.op = "INSERT" THEN u.id ELSE None, x)
<1> DEFINE n == Len(q)
           r == Append(q, u)
<1>1. n \in Nat /\ DOMAIN q = 1 .. n /\ DOMAIN r = 1 .. n + 1 /\ r[n + 1] = u /\ \A i \in 1 .. n : r[i] = q[i]
  OBVIOUS
<1> HIDE DEF n, r
<1>2. \A i \in 1 .. n : i \in 1 .. n + 1 BY <1>1
<1>3. n + 1 \in 1 .. n + 1 BY <1>1
<1>4. Adds(IdsOf(q), IdsOf(r), IdsOf(r)[n + 1], x)
  <2>1. DOMAIN IdsOf(q) = 1 .. n /\ DOMAIN IdsOf(r) = 1 .. n + 1 BY <1>1 DEF IdsOf
  <2>2. \A i \in 1 .. n : IdsOf(r)[i] = IdsOf(q)[i] BY <1>1, <1>2 DEF IdsOf
  <2> QED BY <2>1, <2>2, <1>1, LongerAdds
<1>5. Adds(InsertedIds(q), InsertedIds(r), InsertedIds(r)[n + 1], x)
  <2>1. DOMAIN InsertedIds(q) = 1 .. n /\ DOMAIN InsertedIds(r) = 1 .. n + 1 BY <1>1 DEF InsertedIds
  <2>2. \A i \in 1 .. n : InsertedIds(r)[i] = InsertedIds(q)[i] BY <1>1, <1>2 DEF InsertedIds
  <2> QED BY <2>1, <2>2, <1>1, LongerAdds
<1>6. IdsOf(r)[n + 1] = u.id BY <1>1, <1>3 DEF IdsOf
<1>7. InsertedIds(r)[n + 1] = IF u.op = "INSERT" THEN u.id ELSE None BY <1>1, <1>3 DEF InsertedIds
<1> QED BY <1>4, <1>5, <1>6, <1>7 DEF r

LEMMA IdsOfTail ==
    ASSUME NEW S, NEW q \in Seq(S), q # <<>>, NEW x
    PROVE  /\ Adds(IdsOf(Tail(q)), IdsOf(q), Head(q).id, x)
           /\ Adds(InsertedIds(Tail(q)), InsertedIds(q), IF Head(q).op = "INSERT" THEN Head(q).id ELSE None, x)
<1> DEFINE n == Len(q) - 1
           r == Tail(q)
<1>1. n \in Nat /\ DOMAIN q = 1 .. n + 1 /\ DOMAIN r = 1 .. n /\ q[1] = Head(q) /\ \A i \in 1 .. n : r[i] = q[i + 1]
  OBVIOUS
<1> HIDE DEF n, r
<1>2. \A i \in 1 .. n : i + 1 \in 1 .. n + 1 BY <1>1
<1>3. 1 \in 1 .. n + 1 BY <1>1
<1>4. Adds(IdsOf(r), IdsOf(q), IdsOf(q)[1], x)
  <2>1. DOMAIN IdsOf(r) = 1 .. n /\ DOMAIN IdsOf(q) = 1 .. n + 1 BY <1>1 DEF IdsOf
  <2>2. \A i \in 1 .. n : IdsOf(r)[i] = IdsOf(q)[i + 1] BY <1>1, <1>2 DEF IdsOf
  <2> QED BY <2>1, <2>2, <1>1, ShorterAdds
<1>5. Adds(InsertedIds(r), InsertedIds(q), InsertedIds(q)[1], x)
  <2>1. DOMAIN InsertedIds(r) = 1 .. n /\ DOMAIN InsertedIds(q) = 1 .. n + 1 BY <1>1 DEF InsertedIds
  <2>2. \A i \in 1 .. n : InsertedIds(r)[i] = InsertedIds(q)[i + 1] BY <1>1, <1>2 DEF InsertedIds
  <2> QED BY <2>1, <2>2, <1>1, ShorterAdds
<1>6. IdsOf(q)[1] = Head(q).id BY <1>1, <1>3 DEF IdsOf
<1>7. InsertedIds(q)[1] = IF Head(q).op = "INSERT" THEN Head(q).id ELSE None BY <1>1, <1>3 DEF InsertedIds
<1> QED BY <1>4, <1>5, <1>6, <1>7 DEF r

\* The table gets one identifier more.
LEMMA TableAdds ==
    ASSUME NEW v \in Ids, NEW f \in [Ids -> BOOLEAN], NEW g \in [Ids -> BOOLEAN],
           ~f[v], g = [f EXCEPT ![v] = TRUE], NEW x \in Ids
    PROVE  Adds([id \in Ids |-> IF f[id] THEN id ELSE None], [id \in Ids |-> IF g[id] THEN id ELSE None], v, x)
<1>1. None \notin Ids BY NoneAssumption DEF Ids
<1> DEFINE F == [id \in Ids |-> IF f[id] THEN id ELSE None]
           G == [id \in Ids |-> IF g[id] THEN id ELSE None]
<1>2. \A id \in Ids : (F[id] = x <=> id = x /\ f[x]) /\ (G[id] = x <=> id = x /\ g[x]) BY <1>1
<1>3. DOMAIN F = Ids /\ DOMAIN G = Ids OBVIOUS
<1>4. g[x] <=> f[x] \/ v = x OBVIOUS
<1> HIDE DEF F, G
<1>5. (Has(F, x) <=> f[x]) /\ (Has(G, x) <=> g[x]) BY <1>2, <1>3 DEF Has
<1>6. Once(F, x) /\ Once(G, x) BY <1>2, <1>3 DEF Once
<1>7. Adds(F, G, v, x) BY <1>4, <1>5, <1>6 DEF Adds
<1> QED BY <1>7 DEF F, G

-----------------------------------------------------------------------------
(* What each action moves                                                  *)

Moves(a, b, v) ==
    \A x \in Ids :
        /\ Adds(Contents'[a], Contents[a], v, x)
        /\ Adds(Contents[b], Contents'[b], v, x)
        /\ \A p \in Places \ {a, b} : Same(Contents[p], Contents'[p], x)

LEMMA ContentsAre ==
    /\ Contents["freeList"] = freeList /\ Contents["finFifo"] = finFifo
    /\ Contents["insReq"] = IdsOf(insReq) /\ Contents["updReq"] = InsertedIds(updReq)
    /\ Contents["updRsp"] = InsertedIds(updRsp) /\ Contents["insRsp"] = IdsOf(insRsp)
    /\ Contents["revIns"] = IdsOf(revIns) /\ Contents["delReq"] = IdsOf(delReq)
    /\ Contents["table"] = [id \in Ids |-> IF valid[id] THEN id ELSE None]
BY DEF Contents

LEMMA ContentsWillBe ==
    /\ Contents'["freeList"] = freeList' /\ Contents'["finFifo"] = finFifo'
    /\ Contents'["insReq"] = IdsOf(insReq') /\ Contents'["updReq"] = InsertedIds(updReq')
    /\ Contents'["updRsp"] = InsertedIds(updRsp') /\ Contents'["insRsp"] = IdsOf(insRsp')
    /\ Contents'["revIns"] = IdsOf(revIns') /\ Contents'["delReq"] = IdsOf(delReq')
    /\ Contents'["table"] = [id \in Ids |-> IF valid'[id] THEN id ELSE None]
BY DEF Contents, IdsOf, InsertedIds

LEMMA FirstOf ==
    ASSUME NEW S, NEW q \in Seq(S), q # <<>>
    PROVE  1 \in DOMAIN q /\ Head(q) = q[1] /\ Head(q) \in S /\ Tail(q) \in Seq(S)
OBVIOUS

LEMMA SameIsSame == \A f, x : Same(f, f, x)
BY DEF Same

\* An entry that is no insert counts for nothing.
LEMMA NothingAdded ==
    ASSUME NEW f, NEW g, NEW x \in Ids
    PROVE  Adds(f, g, None, x) <=> Same(f, g, x)
<1>1. x # None BY NoneAssumption DEF Ids
<1> QED BY <1>1 DEF Adds, Same

\* What an entry of updReq and updRsp counts for.
Inserted(u) == IF u.op = "INSERT" THEN u.id ELSE None

LEMMA RecycleMoves ==
    ASSUME TypeOK, RecycleId
    PROVE  Moves("finFifo", "freeList", Head(finFifo))
<1>1. finFifo # <<>> /\ freeList' = Append(freeList, Head(finFifo)) /\ finFifo' = Tail(finFifo)
  BY DEF RecycleId
<1>2. UNCHANGED <<insReq, updReq, updRsp, insRsp, revIns, delReq, valid>> BY DEF RecycleId, revVars
<1>3. finFifo \in Seq(Ids) /\ freeList \in Seq(Ids) /\ Head(finFifo) \in Ids
  BY <1>1, HeadTailProperties DEF TypeOK
<1> SUFFICES ASSUME NEW x \in Ids
             PROVE  /\ Adds(Contents'["finFifo"], Contents["finFifo"], Head(finFifo), x)
                    /\ Adds(Contents["freeList"], Contents'["freeList"], Head(finFifo), x)
                    /\ \A p \in Places \ {"finFifo", "freeList"} : Same(Contents[p], Contents'[p], x)
  BY DEF Moves
<1>4. Adds(Contents'["finFifo"], Contents["finFifo"], Head(finFifo), x)
  <2>1. Adds(Tail(finFifo), finFifo, Head(finFifo), x) BY <1>1, <1>3, TailAdds
  <2> QED BY <2>1, <1>1, ContentsAre, ContentsWillBe
<1>5. Adds(Contents["freeList"], Contents'["freeList"], Head(finFifo), x)
  <2>1. Adds(freeList, Append(freeList, Head(finFifo)), Head(finFifo), x) BY <1>1, <1>3, AppendAdds
  <2> QED BY <2>1, <1>1, <1>3, ContentsAre, ContentsWillBe
<1>6. \A p \in Places \ {"finFifo", "freeList"} : Contents'[p] = Contents[p]
  BY <1>2, ContentsAre, ContentsWillBe DEF Places
<1> QED BY <1>4, <1>5, <1>6, SameIsSame

LEMMA CreateMoves ==
    ASSUME TypeOK, FsmInv, LupRspCreate
    PROVE  Moves("freeList", "insReq", Head(freeList))
<1> DEFINE u == Update("INSERT", query.tuple, Head(freeList), query.source)
<1>1. freeList # <<>> /\ freeList' = Tail(freeList) /\ insReq' = Append(insReq, u)
  BY DEF LupRspCreate, Creates
<1>2. UNCHANGED <<finFifo, updReq, updRsp, insRsp, revIns, delReq, valid>> BY DEF LupRspCreate, revVars
<1>3. freeList \in Seq(Ids) /\ insReq \in Seq(Updates) /\ Head(freeList) \in Ids
  BY <1>1, HeadTailProperties DEF TypeOK
<1>4. u \in Updates /\ u.id = Head(freeList)
  <2>1. query \in Queries BY DEF LupRspCreate, FsmInv, QueryInv, OpsInv, OnlyOp
  <2> QED BY <2>1, <1>3 DEF Queries, Updates, Update
<1> HIDE DEF u
<1> SUFFICES ASSUME NEW x \in Ids
             PROVE  /\ Adds(Contents'["freeList"], Contents["freeList"], Head(freeList), x)
                    /\ Adds(Contents["insReq"], Contents'["insReq"], Head(freeList), x)
                    /\ \A p \in Places \ {"freeList", "insReq"} : Same(Contents[p], Contents'[p], x)
  BY DEF Moves
<1>5. Adds(Contents'["freeList"], Contents["freeList"], Head(freeList), x)
  <2>1. Adds(Tail(freeList), freeList, Head(freeList), x) BY <1>1, <1>3, TailAdds
  <2> QED BY <2>1, <1>1, ContentsAre, ContentsWillBe
<1>6. Adds(Contents["insReq"], Contents'["insReq"], Head(freeList), x)
  <2>1. Adds(IdsOf(insReq), IdsOf(Append(insReq, u)), u.id, x) BY <1>1, <1>3, <1>4, IdsOfAppend
  <2> QED BY <2>1, <1>1, <1>3, <1>4, ContentsAre, ContentsWillBe
<1>7. \A p \in Places \ {"freeList", "insReq"} : Contents'[p] = Contents[p]
  BY <1>2, ContentsAre, ContentsWillBe DEF Places
<1> QED BY <1>5, <1>6, <1>7, SameIsSame

LEMMA SendInsertMoves ==
    ASSUME TypeOK, FsmInv, SendInsert
    PROVE  Moves("insReq", "updReq", Head(insReq).id)
<1> DEFINE u == Head(insReq)
<1>1. insReq # <<>> /\ insReq' = Tail(insReq) /\ updReq' = Append(updReq, u) BY DEF SendInsert
<1>2. UNCHANGED <<freeList, finFifo, updRsp, insRsp, revIns, delReq, valid>> BY DEF SendInsert, idVars, revVars
<1>3. insReq \in Seq(Updates) /\ updReq \in Seq(Updates) /\ u \in Updates
  BY <1>1, HeadTailProperties DEF TypeOK
<1>4. u.op = "INSERT"
  <2>1. 1 \in DOMAIN insReq /\ u = insReq[1] BY <1>1, <1>3
  <2> QED BY <2>1 DEF FsmInv, QueryInv, OpsInv, OnlyOp
<1> HIDE DEF u
<1> SUFFICES ASSUME NEW x \in Ids
             PROVE  /\ Adds(Contents'["insReq"], Contents["insReq"], u.id, x)
                    /\ Adds(Contents["updReq"], Contents'["updReq"], u.id, x)
                    /\ \A p \in Places \ {"insReq", "updReq"} : Same(Contents[p], Contents'[p], x)
  BY DEF Moves, u
<1>5. Adds(Contents'["insReq"], Contents["insReq"], u.id, x)
  <2>1. Adds(IdsOf(Tail(insReq)), IdsOf(insReq), Head(insReq).id, x) BY <1>1, <1>3, IdsOfTail
  <2> QED BY <2>1, <1>1, ContentsAre, ContentsWillBe DEF u
<1>6. Adds(Contents["updReq"], Contents'["updReq"], u.id, x)
  <2>1. Adds(InsertedIds(updReq), InsertedIds(Append(updReq, u)), Inserted(u), x) BY <1>1, <1>3, <1>4, IdsOfAppend DEF Inserted
  <2> QED BY <2>1, <1>1, <1>3, <1>4, ContentsAre, ContentsWillBe DEF Inserted
<1>7. \A p \in Places \ {"insReq", "updReq"} : Contents'[p] = Contents[p]
  BY <1>2, ContentsAre, ContentsWillBe DEF Places
<1> QED BY <1>5, <1>6, <1>7, SameIsSame

LEMMA SendDeleteMoves ==
    ASSUME TypeOK, FsmInv, SendDelete
    PROVE  Moves("delReq", "finFifo", Head(delReq).id)
<1> DEFINE u == Head(delReq)
<1>1. delReq # <<>> /\ delReq' = Tail(delReq) /\ updReq' = Append(updReq, u) /\ finFifo' = Append(finFifo, u.id)
  BY DEF SendDelete, ReturnId
<1>2. UNCHANGED <<freeList, insReq, updRsp, insRsp, revIns, valid>> BY DEF SendDelete, idVars, revVars
<1>3. delReq \in Seq(Updates) /\ updReq \in Seq(Updates) /\ u \in Updates /\ finFifo \in Seq(Ids)
  BY <1>1, HeadTailProperties DEF TypeOK
<1>4. u.op = "DELETE" /\ u.id \in Ids
  <2>1. 1 \in DOMAIN delReq /\ u = delReq[1] BY <1>1, <1>3
  <2> QED BY <2>1, <1>3 DEF FsmInv, QueryInv, OpsInv, OnlyOp, Updates
<1> HIDE DEF u
<1> SUFFICES ASSUME NEW x \in Ids
             PROVE  /\ Adds(Contents'["delReq"], Contents["delReq"], u.id, x)
                    /\ Adds(Contents["finFifo"], Contents'["finFifo"], u.id, x)
                    /\ \A p \in Places \ {"delReq", "finFifo"} : Same(Contents[p], Contents'[p], x)
  BY DEF Moves, u
<1>5. Adds(Contents'["delReq"], Contents["delReq"], u.id, x)
  <2>1. Adds(IdsOf(Tail(delReq)), IdsOf(delReq), Head(delReq).id, x) BY <1>1, <1>3, IdsOfTail
  <2> QED BY <2>1, <1>1, ContentsAre, ContentsWillBe DEF u
<1>6. Adds(Contents["finFifo"], Contents'["finFifo"], u.id, x)
  <2>1. Adds(finFifo, Append(finFifo, u.id), u.id, x) BY <1>1, <1>3, <1>4, AppendAdds
  <2> QED BY <2>1, <1>1, <1>3, <1>4, ContentsAre, ContentsWillBe
<1>7. \A p \in Places \ {"delReq", "finFifo", "updReq"} : Contents'[p] = Contents[p]
  BY <1>2, ContentsAre, ContentsWillBe DEF Places
<1>8. Same(Contents["updReq"], Contents'["updReq"], x)
  <2>1. Adds(InsertedIds(updReq), InsertedIds(Append(updReq, u)), IF u.op = "INSERT" THEN u.id ELSE None, x)
    BY <1>3, IdsOfAppend
  <2>2. Adds(InsertedIds(updReq), InsertedIds(updReq'), None, x) BY <2>1, <1>1, <1>4
  <2> QED BY <2>2, NothingAdded, ContentsAre, ContentsWillBe
<1> QED BY <1>5, <1>6, <1>7, <1>8, SameIsSame

LEMMA ReplyMoves ==
    ASSUME TypeOK, UpdateReply
    PROVE  Moves("updRsp", "insRsp", Inserted(Head(updRsp)))
<1> DEFINE u == Head(updRsp)
<1>1. /\ updRsp # <<>> /\ updRsp' = Tail(updRsp)
      /\ u.op = "INSERT" => insRsp' = Append(insRsp, u)
      /\ u.op # "INSERT" => insRsp' = insRsp
  BY DEF UpdateReply, AnswersInserts
<1>2. UNCHANGED <<freeList, finFifo, insReq, updReq, revIns, delReq, valid>> BY DEF UpdateReply, idVars, revVars
<1>3. updRsp \in Seq(Updates) /\ insRsp \in Seq(Updates) /\ u \in Updates
  BY <1>1, HeadTailProperties DEF TypeOK
<1> HIDE DEF u
<1> SUFFICES ASSUME NEW x \in Ids
             PROVE  /\ Adds(Contents'["updRsp"], Contents["updRsp"], Inserted(u), x)
                    /\ Adds(Contents["insRsp"], Contents'["insRsp"], Inserted(u), x)
                    /\ \A p \in Places \ {"updRsp", "insRsp"} : Same(Contents[p], Contents'[p], x)
  BY DEF Moves, u
<1>5. Adds(Contents'["updRsp"], Contents["updRsp"], Inserted(u), x)
  <2>1. Adds(InsertedIds(Tail(updRsp)), InsertedIds(updRsp), Inserted(Head(updRsp)), x) BY <1>1, <1>3, IdsOfTail DEF Inserted
  <2> QED BY <2>1, <1>1, ContentsAre, ContentsWillBe DEF u
<1>6. Adds(Contents["insRsp"], Contents'["insRsp"], Inserted(u), x)
  <2>1. CASE u.op = "INSERT"
    <3>1. Adds(IdsOf(insRsp), IdsOf(Append(insRsp, u)), u.id, x) BY <1>3, IdsOfAppend
    <3> QED BY <3>1, <2>1, <1>1, ContentsAre, ContentsWillBe DEF Inserted
  <2>2. CASE u.op # "INSERT"
    <3>1. Contents'["insRsp"] = Contents["insRsp"] /\ Inserted(u) = None
      BY <2>2, <1>1, ContentsAre, ContentsWillBe DEF Inserted
    <3> QED BY <3>1, NothingAdded, SameIsSame
  <2> QED BY <2>1, <2>2
<1>7. \A p \in Places \ {"updRsp", "insRsp"} : Contents'[p] = Contents[p]
  BY <1>2, ContentsAre, ContentsWillBe DEF Places
<1> QED BY <1>5, <1>6, <1>7, SameIsSame

\* The hash table takes the first request.
LEMMA HeadRemoved ==
    ASSUME NEW S, NEW q \in Seq(S), q # <<>>
    PROVE  RemoveAt(q, 1) = Tail(q)
<1>1. SubSeq(q, 1, 1 - 1) = <<>> OBVIOUS
<1>2. SubSeq(q, 1 + 1, Len(q)) = Tail(q) BY TailIsSubSeq
<1>3. Tail(q) \in Seq(S) OBVIOUS
<1>4. <<>> \o Tail(q) = Tail(q) BY <1>3, ConcatEmptySeq
<1> QED BY <1>1, <1>2, <1>4 DEF RemoveAt

LEMMA CamTakesFirst ==
    ASSUME TypeOK, CamUpdate(NextUpdate)
    PROVE  /\ updReq # <<>> /\ Head(updReq) \in Updates /\ updReq[1] = Head(updReq) /\ 1 \in DOMAIN updReq
           /\ updReq' = Tail(updReq) /\ updRsp' = Append(updRsp, Head(updReq))
<1>1. /\ 1 \in DOMAIN updReq /\ updReq' = RemoveAt(updReq, 1) /\ updRsp' = Append(updRsp, updReq[1])
  BY DEF CamUpdate, NextUpdate
<1>2. updReq \in Seq(Updates) BY DEF TypeOK
<1>3. updReq # <<>> /\ updReq[1] = Head(updReq) BY <1>1, <1>2
<1>4. RemoveAt(updReq, 1) = Tail(updReq) BY <1>2, <1>3, HeadRemoved
<1>5. Head(updReq) \in Updates BY <1>2, <1>3
<1> QED BY <1>1, <1>3, <1>4, <1>5

LEMMA CamMoves ==
    ASSUME TypeOK, CamUpdate(NextUpdate)
    PROVE  Moves("updReq", "updRsp", Inserted(Head(updReq)))
<1> DEFINE u == Head(updReq)
<1>1. updReq # <<>> /\ updReq' = Tail(updReq) /\ updRsp' = Append(updRsp, u) /\ u \in Updates BY CamTakesFirst
<1>2. UNCHANGED <<freeList, finFifo, insReq, insRsp, revIns, delReq, valid>> BY DEF CamUpdate, idVars, revVars
<1>3. updReq \in Seq(Updates) /\ updRsp \in Seq(Updates) BY DEF TypeOK
<1> HIDE DEF u
<1> SUFFICES ASSUME NEW x \in Ids
             PROVE  /\ Adds(Contents'["updReq"], Contents["updReq"], Inserted(u), x)
                    /\ Adds(Contents["updRsp"], Contents'["updRsp"], Inserted(u), x)
                    /\ \A p \in Places \ {"updReq", "updRsp"} : Same(Contents[p], Contents'[p], x)
  BY DEF Moves, u
<1>5. Adds(Contents'["updReq"], Contents["updReq"], Inserted(u), x)
  <2>1. Adds(InsertedIds(Tail(updReq)), InsertedIds(updReq), Inserted(Head(updReq)), x) BY <1>1, <1>3, IdsOfTail DEF Inserted
  <2> QED BY <2>1, <1>1, ContentsAre, ContentsWillBe DEF u
<1>6. Adds(Contents["updRsp"], Contents'["updRsp"], Inserted(u), x)
  <2>1. Adds(InsertedIds(updRsp), InsertedIds(Append(updRsp, u)), Inserted(u), x) BY <1>1, <1>3, IdsOfAppend DEF Inserted
  <2> QED BY <2>1, <1>1, <1>3, ContentsAre, ContentsWillBe
<1>7. \A p \in Places \ {"updReq", "updRsp"} : Contents'[p] = Contents[p]
  BY <1>2, ContentsAre, ContentsWillBe DEF Places
<1> QED BY <1>5, <1>6, <1>7, SameIsSame

LEMMA UpdRspMoves ==
    ASSUME TypeOK, FsmInv, UpdRsp
    PROVE  Moves("insRsp", "revIns", Head(insRsp).id)
<1> DEFINE u == Head(insRsp)
           r == [id |-> u.id, tuple |-> query.tuple]
<1>1. insRsp # <<>> /\ insRsp' = Tail(insRsp) /\ revIns' = Append(revIns, r) BY DEF UpdRsp
<1>2. UNCHANGED <<freeList, finFifo, insReq, updReq, updRsp, delReq, valid>> BY DEF UpdRsp, idVars, revVars
<1>3. insRsp \in Seq(Updates) /\ revIns \in Seq([id : Ids, tuple : Tuples]) /\ u \in Updates
  BY <1>1, HeadTailProperties DEF TypeOK
<1>4. r \in [id : Ids, tuple : Tuples] /\ r.id = u.id
  <2>1. query \in Queries BY DEF UpdRsp, FsmInv, QueryInv, OpsInv, OnlyOp
  <2> QED BY <2>1, <1>3 DEF Queries, Updates
<1> HIDE DEF u, r
<1> SUFFICES ASSUME NEW x \in Ids
             PROVE  /\ Adds(Contents'["insRsp"], Contents["insRsp"], u.id, x)
                    /\ Adds(Contents["revIns"], Contents'["revIns"], u.id, x)
                    /\ \A p \in Places \ {"insRsp", "revIns"} : Same(Contents[p], Contents'[p], x)
  BY DEF Moves, u
<1>5. Adds(Contents'["insRsp"], Contents["insRsp"], u.id, x)
  <2>1. Adds(IdsOf(Tail(insRsp)), IdsOf(insRsp), Head(insRsp).id, x) BY <1>1, <1>3, IdsOfTail
  <2> QED BY <2>1, <1>1, ContentsAre, ContentsWillBe DEF u
<1>6. Adds(Contents["revIns"], Contents'["revIns"], u.id, x)
  <2>1. Adds(IdsOf(revIns), IdsOf(Append(revIns, r)), r.id, x) BY <1>1, <1>3, <1>4, IdsOfAppend
  <2> QED BY <2>1, <1>1, <1>3, <1>4, ContentsAre, ContentsWillBe
<1>7. \A p \in Places \ {"insRsp", "revIns"} : Contents'[p] = Contents[p]
  BY <1>2, ContentsAre, ContentsWillBe DEF Places
<1> QED BY <1>5, <1>6, <1>7, SameIsSame

LEMMA TableHas ==
    ASSUME TypeOK, NEW x \in Ids
    PROVE  Has(Contents["table"], x) <=> valid[x]
<1>1. None \notin Ids BY NoneAssumption DEF Ids
<1>2. valid \in [Ids -> BOOLEAN] BY DEF TypeOK
<1> QED BY <1>1, <1>2, ContentsAre DEF Has

LEMMA EnteredAreOut ==
    ASSUME TypeOK, PlaceInv, revIns # <<>>
    PROVE  Head(revIns).id \in Ids /\ Head(revIns).tuple \in Tuples /\ ~valid[Head(revIns).id]
<1>1. revIns \in Seq([id : Ids, tuple : Tuples]) BY DEF TypeOK
<1>2. 1 \in DOMAIN revIns /\ Head(revIns) = revIns[1] /\ Head(revIns) \in [id : Ids, tuple : Tuples] BY <1>1, FirstOf
<1>3. Head(revIns).id \in Ids BY <1>2
<1>4. Has(IdsOf(revIns), Head(revIns).id) BY <1>2 DEF Has, IdsOf
<1>5. Has(Contents["revIns"], Head(revIns).id) BY <1>4, ContentsAre
<1>6. ~Has(Contents["table"], Head(revIns).id) BY <1>3, <1>5 DEF PlaceInv, Placed, Places
<1> QED BY <1>2, <1>3, <1>6, TableHas

LEMMA RevInsertMoves ==
    ASSUME TypeOK, PlaceInv, RevInsert
    PROVE  Moves("revIns", "table", Head(revIns).id)
<1> DEFINE v == Head(revIns).id
<1>1. revIns # <<>> /\ revIns' = Tail(revIns) /\ valid' = [valid EXCEPT ![v] = TRUE] BY DEF RevInsert
<1>2. UNCHANGED <<freeList, finFifo, insReq, updReq, updRsp, insRsp, delReq>> BY DEF RevInsert, idVars
<1>3. revIns \in Seq([id : Ids, tuple : Tuples]) /\ valid \in [Ids -> BOOLEAN] BY DEF TypeOK
<1>4. v \in Ids /\ ~valid[v] BY <1>1, EnteredAreOut
<1>5. valid' \in [Ids -> BOOLEAN] BY <1>1, <1>3, <1>4
<1> SUFFICES ASSUME NEW x \in Ids
             PROVE  /\ Adds(Contents'["revIns"], Contents["revIns"], v, x)
                    /\ Adds(Contents["table"], Contents'["table"], v, x)
                    /\ \A p \in Places \ {"revIns", "table"} : Same(Contents[p], Contents'[p], x)
  BY DEF Moves
<1>6. Adds(Contents'["revIns"], Contents["revIns"], v, x)
  <2>1. Adds(IdsOf(Tail(revIns)), IdsOf(revIns), Head(revIns).id, x) BY <1>1, <1>3, IdsOfTail
  <2> QED BY <2>1, <1>1, ContentsAre, ContentsWillBe
<1> HIDE DEF v
<1>7. Adds(Contents["table"], Contents'["table"], v, x)
  <2> DEFINE F(f) == [id \in Ids |-> IF f[id] THEN id ELSE None]
  <2>1. Adds(F(valid), F(valid'), v, x) BY <1>1, <1>3, <1>4, <1>5, TableAdds
  <2>2. Contents["table"] = F(valid) /\ Contents'["table"] = F(valid') BY ContentsAre, ContentsWillBe
  <2> HIDE DEF F
  <2> QED BY <2>1, <2>2
<1>8. \A p \in Places \ {"revIns", "table"} : Contents'[p] = Contents[p]
  BY <1>2, ContentsAre, ContentsWillBe DEF Places
<1> QED BY <1>6, <1>7, <1>8, SameIsSame

LEMMA ReleaseMoves ==
    ASSUME TypeOK, OwnerInv, NEW v \in Ids, RevRelease(v), valid[v]
    PROVE  Moves("table", "delReq", v)
<1> DEFINE u == Update("DELETE", rev[v], v, "RX")
<1>1. delReq' = Append(delReq, u) /\ valid' = [valid EXCEPT ![v] = FALSE] BY DEF RevRelease, ReleasesValid
<1>2. UNCHANGED <<freeList, finFifo, insReq, updReq, updRsp, insRsp, revIns>> BY DEF RevRelease, idVars
<1>3. delReq \in Seq(Updates) /\ valid \in [Ids -> BOOLEAN] /\ rev[v] \in Tuples \cup {None} BY DEF TypeOK
<1>4. u \in Updates /\ u.id = v BY <1>3 DEF OwnerInv, Update, Updates, Sources
<1>5. valid' \in [Ids -> BOOLEAN] /\ ~valid'[v] /\ valid = [valid' EXCEPT ![v] = TRUE] BY <1>1, <1>3
<1> HIDE DEF u
<1> SUFFICES ASSUME NEW x \in Ids
             PROVE  /\ Adds(Contents'["table"], Contents["table"], v, x)
                    /\ Adds(Contents["delReq"], Contents'["delReq"], v, x)
                    /\ \A p \in Places \ {"table", "delReq"} : Same(Contents[p], Contents'[p], x)
  BY DEF Moves
<1>6. Adds(Contents'["table"], Contents["table"], v, x)
  <2> DEFINE F(f) == [id \in Ids |-> IF f[id] THEN id ELSE None]
  <2>1. Adds(F(valid'), F(valid), v, x) BY <1>3, <1>5, TableAdds
  <2>2. Contents["table"] = F(valid) /\ Contents'["table"] = F(valid') BY ContentsAre, ContentsWillBe
  <2> HIDE DEF F
  <2> QED BY <2>1, <2>2
<1>7. Adds(Contents["delReq"], Contents'["delReq"], v, x)
  <2>1. Adds(IdsOf(delReq), IdsOf(Append(delReq, u)), u.id, x) BY <1>1, <1>3, <1>4, IdsOfAppend
  <2> QED BY <2>1, <1>1, <1>3, <1>4, ContentsAre, ContentsWillBe
<1>8. \A p \in Places \ {"table", "delReq"} : Contents'[p] = Contents[p]
  BY <1>2, ContentsAre, ContentsWillBe DEF Places
<1> QED BY <1>6, <1>7, <1>8, SameIsSame

\* The other actions leave every place alone.
LEMMA OthersMoveNothing ==
    ASSUME TypeOK,
           \/ \E src \in Sources, t \in Tuples, allow \in BOOLEAN : LupReq(src, t, allow)
           \/ LupRspReply \/ CamLookup
           \/ \E id \in Ids : RevLookup(id) \/ (RevRelease(id) /\ ~valid[id])
           \/ UNCHANGED vars
    PROVE  Contents' = Contents
<1> SUFFICES UNCHANGED <<freeList, finFifo, insReq, updReq, updRsp, insRsp, revIns, delReq, valid>>
  BY DEF Contents, IdsOf, InsertedIds
<1>1. CASE \E src \in Sources, t \in Tuples, allow \in BOOLEAN : LupReq(src, t, allow)
  BY <1>1 DEF LupReq, fifos, idVars, revVars
<1>2. CASE LupRspReply BY <1>2 DEF LupRspReply, fifos, idVars, revVars
<1>3. CASE CamLookup BY <1>3 DEF CamLookup, fifos, idVars, revVars
<1>4. CASE \E id \in Ids : RevLookup(id) BY <1>4 DEF RevLookup, fifos, idVars, revVars
<1>5. ASSUME NEW id \in Ids, RevRelease(id), ~valid[id]
      PROVE  UNCHANGED <<freeList, finFifo, insReq, updReq, updRsp, insRsp, revIns, delReq, valid>>
  <2>1. valid \in [Ids -> BOOLEAN] BY DEF TypeOK
  <2>2. [valid EXCEPT ![id] = FALSE] = valid BY <2>1, <1>5
  <2> QED BY <2>2, <1>5 DEF RevRelease, ReleasesValid, idVars
<1>6. CASE UNCHANGED vars BY <1>6 DEF vars, fifos, idVars, revVars
<1> QED BY <1>1, <1>2, <1>3, <1>4, <1>5, <1>6

-----------------------------------------------------------------------------
(* Every identifier in one place, and their number                         *)

\* What moves within some places, into them and out of them.
LEMMA MovesAmong ==
    ASSUME NEW a \in Places, NEW b \in Places, a # b, NEW v, Moves(a, b, v), NEW P \in SUBSET Places, NEW x \in Ids
    PROVE  /\ (a \in P <=> b \in P) => (Among(Contents', P, x) <=> Among(Contents, P, x))
           /\ a \notin P /\ b \in P => (Among(Contents', P, x) <=> Among(Contents, P, x) \/ x = v)
           /\ a \in P /\ b \notin P /\ Placed(Contents, x)
                => (Among(Contents', P, x) <=> Among(Contents, P, x) /\ x # v)
<1> DEFINE C == Contents
           D == Contents'
<1>1. /\ (Has(C[a], x) <=> Has(D[a], x) \/ v = x) /\ (Once(C[a], x) => ~(v = x /\ Has(D[a], x)))
      /\ Has(D[b], x) <=> Has(C[b], x) \/ v = x
      /\ \A p \in Places \ {a, b} : Has(D[p], x) <=> Has(C[p], x)
  BY DEF Moves, Adds, Same
<1> HIDE DEF C, D
<1>2. \A p \in P : p = a \/ p = b \/ p \in Places \ {a, b} OBVIOUS
<1>3. ASSUME a \in P <=> b \in P PROVE Among(D, P, x) <=> Among(C, P, x)
  <2>1. ASSUME NEW p \in P, Has(D[p], x) PROVE \E q \in P : Has(C[q], x) BY <2>1, <1>1, <1>2, <1>3
  <2>2. ASSUME NEW p \in P, Has(C[p], x) PROVE \E q \in P : Has(D[q], x) BY <2>2, <1>1, <1>2, <1>3
  <2> QED BY <2>1, <2>2 DEF Among
<1>4. ASSUME a \notin P, b \in P PROVE Among(D, P, x) <=> Among(C, P, x) \/ x = v
  <2>1. ASSUME NEW p \in P, Has(D[p], x) PROVE (\E q \in P : Has(C[q], x)) \/ x = v BY <2>1, <1>1, <1>2, <1>4
  <2>2. ASSUME NEW p \in P, Has(C[p], x) PROVE \E q \in P : Has(D[q], x) BY <2>2, <1>1, <1>2, <1>4
  <2>3. x = v => \E q \in P : Has(D[q], x) BY <1>1, <1>4
  <2> QED BY <2>1, <2>2, <2>3 DEF Among
<1>5. ASSUME a \in P, b \notin P, Placed(C, x) PROVE Among(D, P, x) <=> Among(C, P, x) /\ x # v
  <2>1. \A p \in P : Has(C[p], x) /\ x = v => p = a BY <1>1, <1>5 DEF Placed
  <2>2. ASSUME NEW p \in P, Has(D[p], x) PROVE Has(C[p], x) /\ x # v
    <3>1. Has(C[p], x) BY <2>2, <1>1, <1>2, <1>5
    <3>2. x = v => p = a BY <3>1, <2>1
    <3>3. Once(C[a], x) BY <1>5 DEF Placed
    <3> QED BY <3>1, <3>2, <3>3, <2>2, <1>1
  <2>3. ASSUME NEW p \in P, Has(C[p], x), x # v PROVE \E q \in P : Has(D[q], x) BY <2>3, <1>1, <1>2, <1>5
  <2> QED BY <2>2, <2>3 DEF Among
<1> QED BY <1>3, <1>4, <1>5 DEF C, D

LEMMA MovedIsPlaced ==
    ASSUME NEW C, NEW D, NEW a \in Places, NEW b \in Places, a # b, NEW v, NEW x, Placed(C, x),
           Adds(D[a], C[a], v, x), Adds(C[b], D[b], v, x), \A p \in Places \ {a, b} : Same(C[p], D[p], x)
    PROVE  Placed(D, x)
<1>1. \A p \in Places : p = a \/ p = b \/ p \in Places \ {a, b} OBVIOUS
<1>2. (Has(C[a], x) <=> Has(D[a], x) \/ v = x) /\ (Has(D[b], x) <=> Has(C[b], x) \/ v = x) BY DEF Adds
<1>3. \A p \in Places \ {a, b} : Has(D[p], x) <=> Has(C[p], x) BY DEF Same
<1>4. \A p \in Places : Once(D[p], x)
  <2>1. Once(D[a], x) /\ ~(v = x /\ Has(D[a], x)) BY DEF Placed, Adds
  <2>2. v = x => ~Has(C[b], x) BY <1>2 DEF Placed
  <2>3. Once(D[b], x) BY <2>2 DEF Placed, Adds
  <2>4. \A p \in Places \ {a, b} : Once(D[p], x) BY DEF Placed, Same
  <2> QED BY <2>1, <2>3, <2>4, <1>1
<1>5. ASSUME NEW p \in Places, NEW q \in Places, Has(D[p], x), Has(D[q], x) PROVE p = q
  <2>1. v = x => ~Has(D[a], x) BY DEF Placed, Adds
  <2>2. \A r \in Places : Has(D[r], x) => Has(C[r], x) \/ (r = b /\ v = x) BY <1>1, <1>2, <1>3
  <2>3. CASE v = x
    <3>1. \A r \in Places : Has(C[r], x) => r = a BY <2>3, <1>2 DEF Placed
    <3>2. \A r \in Places : Has(D[r], x) => r = b BY <2>1, <2>2, <2>3, <3>1
    <3> QED BY <3>2, <1>5
  <2>4. CASE v # x BY <2>4, <2>2, <1>5 DEF Placed
  <2> QED BY <2>3, <2>4
<1> QED BY <1>4, <1>5 DEF Placed

LEMMA MovesKeepPlaces ==
    ASSUME PlaceInv, NEW a \in Places, NEW b \in Places, a # b, NEW v, Moves(a, b, v), counter' = counter
    PROVE  PlaceInv'
<1> SUFFICES ASSUME NEW x \in Ids PROVE Placed(Contents', x) /\ (Among(Contents', Places, x) <=> x < counter)
  BY DEF PlaceInv, Placed, Among
<1>1. Placed(Contents, x) /\ (Among(Contents, Places, x) <=> x < counter) BY DEF PlaceInv
<1>2. /\ Adds(Contents'[a], Contents[a], v, x) /\ Adds(Contents[b], Contents'[b], v, x)
      /\ \A p \in Places \ {a, b} : Same(Contents[p], Contents'[p], x)
  BY DEF Moves
<1>3. Placed(Contents', x) BY <1>1, <1>2, MovedIsPlaced
<1>4. Among(Contents', Places, x) <=> Among(Contents, Places, x) BY MovesAmong
<1> QED BY <1>1, <1>3, <1>4

\* An identifier that is made was nowhere before.
LEMMA NewIdAppears ==
    ASSUME TypeOK, NewId
    PROVE  /\ \A x \in Ids : Adds(Contents["freeList"], Contents'["freeList"], counter, x)
           /\ \A p \in Places \ {"freeList"} : Contents'[p] = Contents[p]
<1>1. freeList' = Append(freeList, counter) /\ counter < MaxSessions BY DEF NewId, UnusedIds
<1>2. UNCHANGED <<finFifo, insReq, updReq, updRsp, insRsp, revIns, delReq, valid>> BY DEF NewId, fifos, revVars
<1>3. freeList \in Seq(Ids) /\ counter \in Ids BY <1>1, MaxSessionsAssumption DEF TypeOK, Ids
<1>4. \A x \in Ids : Adds(freeList, Append(freeList, counter), counter, x) BY <1>3, AppendAdds
<1>5. \A p \in Places \ {"freeList"} : Contents'[p] = Contents[p] BY <1>2, ContentsAre, ContentsWillBe DEF Places
<1>6. Contents["freeList"] = freeList /\ Contents'["freeList"] = Append(freeList, counter) BY <1>1, ContentsAre, ContentsWillBe
<1> QED BY <1>4, <1>5, <1>6

LEMMA NewIdKeepsPlaces ==
    ASSUME TypeOK, PlaceInv, NewId
    PROVE  PlaceInv'
<1> SUFFICES ASSUME NEW x \in Ids PROVE Placed(Contents', x) /\ (Among(Contents', Places, x) <=> x < counter')
  BY DEF PlaceInv, Placed, Among
<1> DEFINE C == Contents
           D == Contents'
<1>1. /\ Adds(C["freeList"], D["freeList"], counter, x)
      /\ \A p \in Places \ {"freeList"} : D[p] = C[p]
  BY NewIdAppears
<1>2. Placed(C, x) /\ (Among(C, Places, x) <=> x < counter) BY DEF PlaceInv
<1>3. counter' = counter + 1 /\ counter \in Nat /\ x \in Nat BY DEF NewId, TypeOK, Ids
<1>4. x < counter' <=> x < counter \/ counter = x BY <1>3
<1>5. "freeList" \in Places BY DEF Places
<1> HIDE DEF C, D
<1>6. CASE counter = x
  <2>1. \A p \in Places : ~Has(C[p], x)
    <3>1. ~(x < counter) BY <1>6, <1>3
    <3> QED BY <3>1, <1>2 DEF Among
  <2>2. \A p \in Places : Has(D[p], x) <=> p = "freeList" BY <2>1, <1>1, <1>5, <1>6 DEF Adds
  <2>3. \A p \in Places : Once(D[p], x) BY <2>1, <1>1, <1>2, <1>5 DEF Adds, Placed
  <2>4. Placed(D, x) BY <2>2, <2>3 DEF Placed
  <2>5. Among(D, Places, x) BY <2>2, <1>5 DEF Among
  <2> QED BY <2>4, <2>5, <1>4, <1>6 DEF D
<1>7. CASE counter # x
  <2>1. \A p \in Places : (Has(D[p], x) <=> Has(C[p], x)) /\ (Once(D[p], x) <=> Once(C[p], x))
    BY <1>1, <1>5, <1>7 DEF Adds
  <2>2. Placed(D, x) BY <2>1, <1>2 DEF Placed
  <2>3. Among(D, Places, x) <=> Among(C, Places, x) BY <2>1 DEF Among
  <2> QED BY <2>2, <2>3, <1>2, <1>4, <1>7 DEF D
<1> QED BY <1>6, <1>7

\* What a step may move.
LEMMA EachStepMoves ==
    ASSUME TypeOK, PlaceInv, FsmInv, OwnerInv, [Next]_vars
    PROVE  \/ NewId
           \/ /\ counter' = counter
              /\ \/ UNCHANGED Contents
                 \/ Moves("finFifo", "freeList", Head(finFifo))
                 \/ LupRspCreate /\ Moves("freeList", "insReq", Head(freeList))
                 \/ SendInsert /\ Moves("insReq", "updReq", Head(insReq).id)
                 \/ SendDelete /\ Moves("delReq", "finFifo", Head(delReq).id)
                 \/ Moves("updRsp", "insRsp", Inserted(Head(updRsp)))
                 \/ CamUpdate(NextUpdate) /\ Moves("updReq", "updRsp", Inserted(Head(updReq)))
                 \/ UpdRsp /\ Moves("insRsp", "revIns", Head(insRsp).id)
                 \/ Moves("revIns", "table", Head(revIns).id)
                 \/ \E v \in Ids : Moves("table", "delReq", v)
<1>1. CASE NewId BY <1>1
<1>2. CASE RecycleId BY <1>2, RecycleMoves DEF RecycleId
<1>3. ASSUME NEW src \in Sources, NEW t \in Tuples, NEW allow \in BOOLEAN, LupReq(src, t, allow)
      PROVE  counter' = counter /\ UNCHANGED Contents
  BY <1>3, OthersMoveNothing DEF LupReq, idVars
<1>4. CASE LupRspCreate BY <1>4, CreateMoves DEF LupRspCreate
<1>5. CASE LupRspReply
  <2>1. counter' = counter BY <1>5 DEF LupRspReply, idVars
  <2> QED BY <1>5, <2>1, OthersMoveNothing
<1>6. CASE UpdRsp
  <2>1. counter' = counter BY <1>6 DEF UpdRsp, idVars
  <2> QED BY <1>6, <2>1, UpdRspMoves
<1>7. CASE SendInsert
  <2>1. counter' = counter BY <1>7 DEF SendInsert, idVars
  <2> QED BY <1>7, <2>1, SendInsertMoves
<1>8. CASE SendDelete
  <2>1. counter' = counter BY <1>8 DEF SendDelete, idVars
  <2> QED BY <1>8, <2>1, SendDeleteMoves
<1>9. CASE UpdateReply
  <2>1. counter' = counter BY <1>9 DEF UpdateReply, idVars
  <2> QED BY <1>9, <2>1, ReplyMoves
<1>10. CASE RevInsert
  <2>1. counter' = counter BY <1>10 DEF RevInsert, idVars
  <2> QED BY <1>10, <2>1, RevInsertMoves
<1>11. ASSUME NEW id \in Ids, RevRelease(id)
       PROVE  counter' = counter /\ (UNCHANGED Contents \/ Moves("table", "delReq", id))
  <2>1. counter' = counter BY <1>11 DEF RevRelease, idVars
  <2>2. CASE valid[id] BY <2>1, <2>2, <1>11, ReleaseMoves
  <2>3. CASE ~valid[id] BY <2>1, <2>3, <1>11, OthersMoveNothing
  <2> QED BY <2>2, <2>3
<1>12. ASSUME NEW id \in Ids, RevLookup(id) PROVE counter' = counter /\ UNCHANGED Contents
  <2>1. counter' = counter BY <1>12 DEF RevLookup, idVars
  <2> QED BY <1>12, <2>1, OthersMoveNothing
<1>13. CASE CamLookup
  <2>1. counter' = counter BY <1>13 DEF CamLookup, idVars
  <2> QED BY <1>13, <2>1, OthersMoveNothing
<1>14. CASE CamUpdate(NextUpdate)
  <2>1. counter' = counter BY <1>14 DEF CamUpdate, idVars
  <2> QED BY <1>14, <2>1, CamMoves
<1>15. CASE UNCHANGED vars
  <2>1. counter' = counter BY <1>15 DEF vars, idVars
  <2> QED BY <1>15, <2>1, OthersMoveNothing
<1> QED BY <1>1, <1>2, <1>3, <1>4, <1>5, <1>6, <1>7, <1>8, <1>9, <1>10, <1>11, <1>12, <1>13, <1>14, <1>15 DEF Next

LEMMA PlacesAreKept ==
    ASSUME TypeOK, PlaceInv, FsmInv, OwnerInv, [Next]_vars
    PROVE  PlaceInv'
<1>1. CASE NewId BY <1>1, NewIdKeepsPlaces
<1>2. CASE counter' = counter /\ UNCHANGED Contents BY <1>2 DEF PlaceInv, Placed, Among
<1>3. ASSUME counter' = counter, NEW a \in Places, NEW b \in Places, a # b, NEW v, Moves(a, b, v)
      PROVE  PlaceInv'
  BY <1>3, MovesKeepPlaces
<1>4. {"freeList", "finFifo", "insReq", "updReq", "updRsp", "insRsp", "revIns", "table", "delReq"} = Places
  BY DEF Places
<1> QED BY <1>1, <1>2, <1>3, <1>4, EachStepMoves

LEMMA FiniteInUse == IsFiniteSet(InUse) /\ IsFiniteSet(InUse')
<1>1. IsFiniteSet(Ids) BY MaxSessionsAssumption, FS_Interval DEF Ids
<1>2. InUse \subseteq Ids /\ InUse' \subseteq Ids BY DEF InUse
<1> QED BY <1>1, <1>2, FS_Subset

LEMMA InUseIs == /\ InUse = {x \in Ids : Among(Contents, UsedPlaces, x)}
                 /\ InUse' = {x \in Ids : Among(Contents', UsedPlaces, x)}
                 /\ UsedPlaces \subseteq Places
BY DEF InUse, Among, UsedPlaces, Places

\* SendInsert brings an identifier into use, SendDelete brings one out of use.
LEMMA InsertComesIntoUse ==
    ASSUME TypeOK, PlaceInv, FsmInv, SendInsert
    PROVE  Head(insReq).id \in Ids \ InUse /\ InUse' = InUse \cup {Head(insReq).id}
<1> DEFINE v == Head(insReq).id
<1>1. insReq # <<>> /\ insReq \in Seq(Updates) BY DEF SendInsert, TypeOK
<1>2. Head(insReq) \in Updates /\ 1 \in DOMAIN insReq /\ Head(insReq) = insReq[1] BY <1>1, FirstOf
<1>3. v \in Ids BY <1>2 DEF Updates
<1>4. Has(Contents["insReq"], v) BY <1>2, ContentsAre DEF Has, IdsOf
<1>5. Moves("insReq", "updReq", v) BY SendInsertMoves
<1> HIDE DEF v
<1>6. "insReq" \in Places /\ "updReq" \in Places /\ "insReq" \notin UsedPlaces /\ "updReq" \in UsedPlaces
  BY DEF UsedPlaces, Places
<1>7. \A x \in Ids : Among(Contents', UsedPlaces, x) <=> Among(Contents, UsedPlaces, x) \/ x = v
  BY <1>5, <1>6, MovesAmong, InUseIs
<1>8. ~Among(Contents, UsedPlaces, v) BY <1>3, <1>4, <1>6, InUseIs DEF Among, PlaceInv, Placed
<1> QED BY <1>3, <1>7, <1>8, InUseIs DEF v

LEMMA DeleteGoesOutOfUse ==
    ASSUME TypeOK, PlaceInv, FsmInv, SendDelete
    PROVE  Head(delReq).id \in InUse /\ InUse' = InUse \ {Head(delReq).id}
<1> DEFINE v == Head(delReq).id
<1>1. delReq # <<>> /\ delReq \in Seq(Updates) BY DEF SendDelete, TypeOK
<1>2. Head(delReq) \in Updates /\ 1 \in DOMAIN delReq /\ Head(delReq) = delReq[1] BY <1>1, FirstOf
<1>3. v \in Ids BY <1>2 DEF Updates
<1>4. Has(Contents["delReq"], v) BY <1>2, ContentsAre DEF Has, IdsOf
<1>5. Moves("delReq", "finFifo", v) BY SendDeleteMoves
<1> HIDE DEF v
<1>6. "delReq" \in Places /\ "finFifo" \in Places /\ "finFifo" \notin UsedPlaces /\ "delReq" \in UsedPlaces
  BY DEF UsedPlaces, Places
<1>7. \A x \in Ids : Placed(Contents, x) BY DEF PlaceInv
<1>8. \A x \in Ids : Among(Contents', UsedPlaces, x) <=> Among(Contents, UsedPlaces, x) /\ x # v
  BY <1>5, <1>6, <1>7, MovesAmong, InUseIs
<1>9. Among(Contents, UsedPlaces, v) BY <1>4, <1>6 DEF Among
<1> QED BY <1>3, <1>8, <1>9, InUseIs DEF v

LEMMA UsedIsKept ==
    ASSUME IInv, [Next]_vars
    PROVE  UsedIsExact' /\ used' \in Nat
<1> USE DEF IInv
<1>1. used = Cardinality(InUse) /\ used \in Nat BY DEF UsedIsExact, TypeOK
<1>2. IsFiniteSet(InUse) /\ IsFiniteSet(InUse') BY FiniteInUse
<1>3. CASE SendInsert
  <2>1. Head(insReq).id \notin InUse /\ InUse' = InUse \cup {Head(insReq).id} BY <1>3, InsertComesIntoUse
  <2>2. Cardinality(InUse') = Cardinality(InUse) + 1 BY <2>1, <1>2, FS_AddElement
  <2> QED BY <2>2, <1>1, <1>3 DEF SendInsert, UsedIsExact
<1>4. CASE SendDelete
  <2>1. Head(delReq).id \in InUse /\ InUse' = InUse \ {Head(delReq).id} BY <1>4, DeleteGoesOutOfUse
  <2>2. Cardinality(InUse') = Cardinality(InUse) - 1 BY <2>1, <1>2, FS_RemoveElement
  <2>3. Cardinality(InUse') \in Nat BY <1>2, FS_CardinalityType
  <2> QED BY <2>2, <2>3, <1>1, <1>4 DEF SendDelete, UsedAfterDelete, UsedIsExact
<1>5. CASE ~SendInsert /\ ~SendDelete
  <2>1. used' = used
    BY <1>5 DEF Next, vars, RecycleId, NewId, LupReq, LupRspCreate, LupRspReply, UpdRsp, UpdateReply,
                RevInsert, RevRelease, RevLookup, CamLookup, CamUpdate
  <2>2. CASE NewId
    <3>1. \A p \in UsedPlaces : p \in Places \ {"freeList"} BY DEF UsedPlaces, Places
    <3>2. \A p \in UsedPlaces : Contents'[p] = Contents[p] BY <2>2, <3>1, NewIdAppears
    <3>3. InUse' = InUse BY <3>2 DEF InUse
    <3> QED BY <2>1, <3>3, <1>1 DEF UsedIsExact
  <2>3. CASE UNCHANGED Contents
    <3>1. InUse' = InUse BY <2>3 DEF InUse
    <3> QED BY <2>1, <3>1, <1>1 DEF UsedIsExact
  <2>4. ASSUME NEW a \in Places, NEW b \in Places, a # b, NEW v, Moves(a, b, v), a \in UsedPlaces <=> b \in UsedPlaces
        PROVE  UsedIsExact' /\ used' \in Nat
    <3>1. \A x \in Ids : Among(Contents', UsedPlaces, x) <=> Among(Contents, UsedPlaces, x) BY <2>4, MovesAmong, InUseIs
    <3>2. InUse' = InUse BY <3>1, InUseIs
    <3> QED BY <2>1, <3>2, <1>1 DEF UsedIsExact
  <2>5. /\ {"freeList", "finFifo", "insReq", "updReq", "updRsp", "insRsp", "revIns", "table", "delReq"} = Places
        /\ {"updReq", "updRsp", "insRsp", "revIns", "table", "delReq"} = UsedPlaces
    BY DEF Places, UsedPlaces
  <2> QED BY <2>2, <2>3, <2>4, <2>5, <1>5, EachStepMoves
<1> QED BY <1>3, <1>4, <1>5

-----------------------------------------------------------------------------
(* Types                                                                   *)

LEMMA TypesAreKept ==
    ASSUME IInv, [Next]_vars
    PROVE  TypeOK'
<1> USE DEF IInv
<1>1. used' \in Nat BY UsedIsKept
<1>2. TypeOK /\ None \notin Ids BY NoneAssumption DEF Ids
<1>3. CASE RecycleId
  <2>1. Head(finFifo) \in Ids /\ Tail(finFifo) \in Seq(Ids) BY <1>3, FirstOf DEF RecycleId, TypeOK
  <2> QED BY <1>1, <1>2, <1>3, <2>1 DEF RecycleId, TypeOK, fsmVars, revVars, extVars, camVars
<1>4. CASE NewId
  <2>1. counter \in Ids /\ counter + 1 \in 0 .. MaxSessions
    BY <1>4, MaxSessionsAssumption DEF NewId, UnusedIds, TypeOK, Ids
  <2> QED BY <1>1, <1>2, <1>4, <2>1 DEF NewId, TypeOK, fifos, fsmVars, revVars, extVars, camVars
<1>5. ASSUME NEW src \in Sources, NEW t \in Tuples, NEW allow \in BOOLEAN, LupReq(src, t, allow) PROVE TypeOK'
  <2>1. query' \in Queries /\ lup' \in Lookups BY <1>5 DEF LupReq, Queries, Lookups, Lookup
  <2> QED BY <1>1, <1>2, <1>5, <2>1 DEF LupReq, TypeOK, fifos, idVars, revVars, extVars, camVars
<1>6. CASE LupRspCreate
  <2>1. freeList # <<>> BY <1>6 DEF LupRspCreate, Creates
  <2>2. Head(freeList) \in Ids /\ Tail(freeList) \in Seq(Ids) BY <2>1, FirstOf DEF TypeOK
  <2>3. query \in Queries BY <1>6 DEF LupRspCreate, FsmInv, QueryInv, OpsInv, OnlyOp
  <2>4. Update("INSERT", query.tuple, Head(freeList), query.source) \in Updates BY <2>2, <2>3 DEF Queries, Updates, Update
  <2>5. insReq' \in Seq(Updates) BY <2>4, <1>6 DEF LupRspCreate, TypeOK
  <2>6. lup' \in Lookups BY <1>6 DEF LupRspCreate, Lookups, Lookup
  <2> QED BY <1>1, <1>2, <1>6, <2>2, <2>5, <2>6 DEF LupRspCreate, TypeOK, revVars, extVars, camVars
<1>7. CASE LupRspReply
  <2>1. lup' \in Lookups BY <1>7 DEF LupRspReply, Lookups, Lookup
  <2> QED BY <1>1, <1>2, <1>7, <2>1 DEF LupRspReply, TypeOK, fifos, idVars, revVars, camVars
<1>8. CASE UpdRsp
  <2>1. Head(insRsp) \in Updates /\ Tail(insRsp) \in Seq(Updates) BY <1>8, FirstOf DEF UpdRsp, TypeOK
  <2>2. query \in Queries BY <1>8 DEF UpdRsp, FsmInv, QueryInv, OpsInv, OnlyOp
  <2>3. query.tuple \in Tuples /\ Head(insRsp).id \in Ids BY <2>1, <2>2 DEF Queries, Updates
  <2>4. [id |-> Head(insRsp).id, tuple |-> query.tuple] \in [id : Ids, tuple : Tuples] BY <2>3
  <2>5. revIns' \in Seq([id : Ids, tuple : Tuples])
    <3> DEFINE S == [id : Ids, tuple : Tuples]
               r == [id |-> Head(insRsp).id, tuple |-> query.tuple]
    <3>1. revIns' = Append(revIns, r) /\ revIns \in Seq(S) /\ r \in S BY <1>8, <2>4 DEF UpdRsp, TypeOK
    <3> HIDE DEF S, r
    <3>2. revIns' \in Seq(S) BY <3>1
    <3> QED BY <3>2 DEF S
  <2>6. owner' \in [Ids -> Tuples \cup {None}] BY <2>3, <1>8 DEF UpdRsp, TypeOK
  <2>7. UNCHANGED <<counter, freeList, finFifo, lup, insReq, delReq, updReq, updRsp, cam, dropped, rev, valid>>
    BY <1>8 DEF UpdRsp, idVars, revVars, camVars
  <2>8. fsm' = "LUP_REQ" /\ query' = None /\ insRsp' = Tail(insRsp) BY <1>8 DEF UpdRsp
  <2> QED BY <1>1, <2>1, <2>5, <2>6, <2>7, <2>8 DEF TypeOK
<1>9. CASE SendInsert
  <2>1. Head(insReq) \in Updates /\ Tail(insReq) \in Seq(Updates) BY <1>9, FirstOf DEF SendInsert, TypeOK
  <2> QED BY <1>1, <1>2, <1>9, <2>1 DEF SendInsert, TypeOK, idVars, fsmVars, revVars, extVars, camVars
<1>10. CASE SendDelete
  <2>1. Head(delReq) \in Updates /\ Tail(delReq) \in Seq(Updates) BY <1>10, FirstOf DEF SendDelete, TypeOK
  <2>2. Head(delReq).id \in Ids BY <2>1 DEF Updates
  <2>3. updReq' \in Seq(Updates) /\ finFifo' \in Seq(Ids) BY <2>1, <2>2, <1>10 DEF SendDelete, ReturnId, TypeOK
  <2> QED BY <1>1, <1>2, <1>10, <2>1, <2>3 DEF SendDelete, TypeOK, idVars, fsmVars, revVars, extVars, camVars
<1>11. CASE UpdateReply
  <2>1. Head(updRsp) \in Updates /\ Tail(updRsp) \in Seq(Updates) BY <1>11, FirstOf DEF UpdateReply, TypeOK
  <2>2. insRsp' \in Seq(Updates)
    <3>1. insRsp' = Append(insRsp, Head(updRsp)) \/ insRsp' = insRsp BY <1>11 DEF UpdateReply
    <3>2. insRsp \in Seq(Updates) BY DEF TypeOK
    <3> QED BY <2>1, <3>1, <3>2
  <2> QED BY <1>1, <1>2, <1>11, <2>1, <2>2 DEF UpdateReply, TypeOK, idVars, fsmVars, revVars, extVars, camVars
<1>12. CASE RevInsert
  <2>1. Head(revIns).id \in Ids /\ Head(revIns).tuple \in Tuples BY <1>12, EnteredAreOut DEF RevInsert
  <2>2. Tail(revIns) \in Seq([id : Ids, tuple : Tuples]) BY <1>12, FirstOf DEF RevInsert, TypeOK
  <2>3. rev' \in [Ids -> Tuples \cup {None}] /\ valid' \in [Ids -> BOOLEAN] BY <2>1, <1>12 DEF RevInsert, TypeOK
  <2> QED BY <1>1, <1>2, <1>12, <2>2, <2>3 DEF RevInsert, TypeOK, idVars, fsmVars, camVars
<1>13. ASSUME NEW id \in Ids, RevRelease(id) PROVE TypeOK'
  <2>1. valid' \in [Ids -> BOOLEAN] BY <1>13 DEF RevRelease, TypeOK
  <2>2. delReq' \in Seq(Updates)
    <3>1. CASE valid[id]
      <4>1. Update("DELETE", rev[id], id, "RX") \in Updates BY <3>1 DEF OwnerInv, TypeOK, Update, Updates, Sources
      <4>2. delReq' = Append(delReq, Update("DELETE", rev[id], id, "RX")) BY <3>1, <1>13 DEF RevRelease, ReleasesValid
      <4> QED BY <4>1, <4>2 DEF TypeOK
    <3>2. CASE ~valid[id] BY <3>2, <1>13 DEF RevRelease, ReleasesValid, TypeOK
    <3> QED BY <3>1, <3>2
  <2> QED BY <1>1, <1>2, <1>13, <2>1, <2>2 DEF RevRelease, TypeOK, idVars, fsmVars, camVars
<1>14. ASSUME NEW id \in Ids, RevLookup(id) PROVE TypeOK'
  BY <1>1, <1>2, <1>14 DEF RevLookup, TypeOK, fifos, idVars, fsmVars, revVars, camVars
<1>15. CASE CamLookup
  <2>1. query \in Queries /\ query.tuple \in Tuples BY <1>15 DEF CamLookup, FsmInv, QueryInv, OpsInv, OnlyOp, Queries
  <2>2. lup' \in Lookups BY <2>1, <1>15 DEF CamLookup, TypeOK, Lookups, Lookup
  <2> QED BY <1>1, <1>2, <1>15, <2>2 DEF CamLookup, TypeOK, fifos, idVars, revVars, camVars
<1>16. CASE CamUpdate(NextUpdate)
  <2> DEFINE u == Head(updReq)
  <2>1. u \in Updates /\ updReq[1] = u /\ updReq # <<>> /\ updReq' = Tail(updReq) /\ updRsp' = Append(updRsp, u)
    BY <1>16, CamTakesFirst
  <2>2. updReq' \in Seq(Updates) /\ updRsp' \in Seq(Updates) BY <2>1, FirstOf DEF TypeOK
  <2>3. u.tuple \in Tuples /\ u.id \in Ids BY <2>1 DEF Updates
  <2>4. cam' \in [Tuples -> Ids \cup {None}] /\ dropped' \in BOOLEAN
    <3>1. CASE u.op = "DELETE" BY <3>1, <2>1, <2>3, <1>16 DEF CamUpdate, NextUpdate, TypeOK
    <3>2. CASE u.op # "DELETE"
      <4> DEFINE new == [cam EXCEPT ![u.tuple] = u.id]
      <4>1. new \in [Tuples -> Ids \cup {None}] BY <2>3 DEF TypeOK
      <4>2. \/ cam' = new /\ UNCHANGED dropped
            \/ dropped' = TRUE /\ \E t \in Tuples : cam' = [new EXCEPT ![t] = None]
        BY <3>2, <2>1, <1>16 DEF CamUpdate, NextUpdate
      <4> HIDE DEF new
      <4> QED BY <4>1, <4>2 DEF TypeOK
    <3> QED BY <3>1, <3>2
  <2> QED BY <1>1, <1>2, <1>16, <2>2, <2>4 DEF CamUpdate, TypeOK, idVars, fsmVars, revVars, extVars
<1>17. CASE UNCHANGED vars BY <1>1, <1>2, <1>17 DEF vars, TypeOK, fifos, idVars, fsmVars, revVars, extVars, camVars
<1> QED BY <1>3, <1>4, <1>5, <1>6, <1>7, <1>8, <1>9, <1>10, <1>11, <1>12, <1>13, <1>14, <1>15, <1>16, <1>17 DEF Next

-----------------------------------------------------------------------------
(* One session is created at a time                                        *)

\* A queue is for the tuple still when it gets one more for it, or loses one.
LEMMA StaysFor ==
    ASSUME NEW S, NEW q \in Seq(S), NEW t, IsFor(q, t)
    PROVE  /\ q # <<>> => IsFor(Tail(q), t) /\ (Head(q).op = "INSERT" => Head(q).tuple = t)
           /\ \A u \in S : (u.op = "INSERT" => u.tuple = t) => IsFor(Append(q, u), t)
<1>1. ASSUME q # <<>> PROVE IsFor(Tail(q), t) /\ (Head(q).op = "INSERT" => Head(q).tuple = t)
  <2>1. 1 \in DOMAIN q /\ Head(q) = q[1] BY <1>1
  <2>2. \A i \in DOMAIN Tail(q) : i + 1 \in DOMAIN q /\ Tail(q)[i] = q[i + 1] BY <1>1
  <2> QED BY <2>1, <2>2 DEF IsFor
<1>2. ASSUME NEW u \in S, u.op = "INSERT" => u.tuple = t PROVE IsFor(Append(q, u), t)
  <2>1. \A i \in DOMAIN Append(q, u) : i = Len(q) + 1 \/ (i \in DOMAIN q /\ Append(q, u)[i] = q[i]) OBVIOUS
  <2>2. Append(q, u)[Len(q) + 1] = u OBVIOUS
  <2> QED BY <1>2, <2>1, <2>2 DEF IsFor
<1> QED BY <1>1, <1>2

\* So does a queue of one kind of requests.
LEMMA StaysOnly ==
    ASSUME NEW S, NEW q \in Seq(S), NEW op, OnlyOp(q, op)
    PROVE  /\ q # <<>> => OnlyOp(Tail(q), op) /\ Head(q).op = op
           /\ \A u \in S : u.op = op => OnlyOp(Append(q, u), op)
<1>1. ASSUME q # <<>> PROVE OnlyOp(Tail(q), op) /\ Head(q).op = op
  <2>1. 1 \in DOMAIN q /\ Head(q) = q[1] BY <1>1
  <2>2. \A i \in DOMAIN Tail(q) : i + 1 \in DOMAIN q /\ Tail(q)[i] = q[i + 1] BY <1>1
  <2> QED BY <2>1, <2>2 DEF OnlyOp
<1>2. ASSUME NEW u \in S, u.op = op PROVE OnlyOp(Append(q, u), op)
  <2>1. \A i \in DOMAIN Append(q, u) : i = Len(q) + 1 \/ (i \in DOMAIN q /\ Append(q, u)[i] = q[i]) OBVIOUS
  <2>2. Append(q, u)[Len(q) + 1] = u OBVIOUS
  <2> QED BY <1>2, <2>1, <2>2 DEF OnlyOp
<1> QED BY <1>1, <1>2

LEMMA QueryIsKept ==
    ASSUME IInv, [Next]_vars
    PROVE  QueryInv'
<1> USE DEF IInv, FsmInv
<1>1. QueryInv BY DEF IInv
<1>2. ASSUME NEW src \in Sources, NEW t \in Tuples, NEW allow \in BOOLEAN, LupReq(src, t, allow) PROVE QueryInv'
  BY <1>1, <1>2 DEF LupReq, Lookup, Queries, QueryInv
<1>3. CASE LupRspCreate BY <1>1, <1>3 DEF LupRspCreate, Lookup, QueryInv
<1>4. CASE LupRspReply BY <1>1, <1>4 DEF LupRspReply, Lookup, QueryInv
<1>5. CASE UpdRsp BY <1>1, <1>5 DEF UpdRsp, QueryInv
<1>6. CASE CamLookup
  <2>1. query \in Queries /\ query.tuple \in Tuples /\ fsm = "LUP_RSP"
    BY <1>1, <1>6 DEF CamLookup, QueryInv, Queries, TypeOK
  <2>2. /\ fsm' = fsm /\ query' = query /\ lup'.id = cam[query.tuple]
        /\ lup'.st = IF cam[query.tuple] = None THEN "miss" ELSE "hit"
    BY <1>6 DEF CamLookup, Lookup
  <2> QED BY <1>1, <2>1, <2>2 DEF QueryInv
<1>7. CASE UNCHANGED <<fsm, query, lup>> BY <1>1, <1>7 DEF QueryInv
<1>8. CASE RecycleId \/ NewId BY <1>7, <1>8 DEF RecycleId, NewId, fsmVars
<1>9. CASE SendInsert \/ SendDelete \/ UpdateReply BY <1>7, <1>9 DEF SendInsert, SendDelete, UpdateReply, fsmVars
<1>10. CASE RevInsert \/ \E id \in Ids : RevRelease(id) \/ RevLookup(id)
  BY <1>7, <1>10 DEF RevInsert, RevRelease, RevLookup, fsmVars
<1>11. CASE CamUpdate(NextUpdate) \/ UNCHANGED vars BY <1>7, <1>11 DEF CamUpdate, vars, fsmVars
<1> QED BY <1>2, <1>3, <1>4, <1>5, <1>6, <1>8, <1>9, <1>10, <1>11 DEF Next

LEMMA OpsAreKept ==
    ASSUME IInv, [Next]_vars
    PROVE  OpsInv'
<1> USE DEF IInv, FsmInv
<1>1. /\ insReq \in Seq(Updates) /\ insRsp \in Seq(Updates) /\ delReq \in Seq(Updates) /\ updRsp \in Seq(Updates)
      /\ TypeOK' /\ TypeOK
  BY TypesAreKept DEF TypeOK
<1>2. OnlyOp(insReq, "INSERT") /\ OnlyOp(insRsp, "INSERT") /\ OnlyOp(delReq, "DELETE") BY DEF OpsInv
<1>3. insReq' = insReq \/ LupRspCreate \/ SendInsert
  BY DEF Next, vars, fifos, RecycleId, NewId, LupReq, LupRspReply, UpdRsp, SendDelete, UpdateReply,
         RevInsert, RevRelease, RevLookup, CamLookup, CamUpdate
<1>4. insRsp' = insRsp \/ UpdateReply \/ UpdRsp
  BY DEF Next, vars, fifos, RecycleId, NewId, LupReq, LupRspReply, LupRspCreate, SendInsert, SendDelete,
         RevInsert, RevRelease, RevLookup, CamLookup, CamUpdate
<1>5. delReq' = delReq \/ SendDelete \/ \E id \in Ids : RevRelease(id)
  BY DEF Next, vars, fifos, RecycleId, NewId, LupReq, LupRspReply, LupRspCreate, UpdRsp, SendInsert, UpdateReply,
         RevInsert, RevLookup, CamLookup, CamUpdate
<1>6. OnlyOp(insReq', "INSERT")
  <2>1. CASE LupRspCreate
    <3> DEFINE u == Update("INSERT", query.tuple, Head(freeList), query.source)
    <3>1. insReq' = Append(insReq, u) /\ u.op = "INSERT" /\ freeList # <<>> BY <2>1 DEF LupRspCreate, Update, Creates
    <3>2. Head(freeList) \in Ids BY <3>1, FirstOf DEF TypeOK
    <3>3. query \in Queries BY <2>1 DEF LupRspCreate, QueryInv
    <3>4. u \in Updates BY <3>2, <3>3 DEF Queries, Updates, Update
    <3> HIDE DEF u
    <3> QED BY <3>1, <3>4, <1>1, <1>2, StaysOnly
  <2>2. CASE SendInsert BY <2>2, <1>1, <1>2, StaysOnly DEF SendInsert
  <2> QED BY <2>1, <2>2, <1>2, <1>3
<1>7. OnlyOp(insRsp', "INSERT")
  <2>1. CASE UpdateReply
    <3>1. Head(updRsp) \in Updates BY <2>1, <1>1, FirstOf DEF UpdateReply
    <3>2. insRsp' = insRsp \/ (Head(updRsp).op = "INSERT" /\ insRsp' = Append(insRsp, Head(updRsp)))
      BY <2>1 DEF UpdateReply, AnswersInserts
    <3>3. Head(updRsp).op = "INSERT" => OnlyOp(Append(insRsp, Head(updRsp)), "INSERT") BY <3>1, <1>1, <1>2, StaysOnly
    <3> QED BY <3>2, <3>3, <1>2
  <2>2. CASE UpdRsp BY <2>2, <1>1, <1>2, StaysOnly DEF UpdRsp
  <2> QED BY <2>1, <2>2, <1>2, <1>4
<1>8. OnlyOp(delReq', "DELETE")
  <2>1. CASE SendDelete BY <2>1, <1>1, <1>2, StaysOnly DEF SendDelete
  <2>2. ASSUME NEW id \in Ids, RevRelease(id) PROVE OnlyOp(delReq', "DELETE")
    <3> DEFINE u == Update("DELETE", rev[id], id, "RX")
    <3>1. delReq' = delReq \/ (valid[id] /\ delReq' = Append(delReq, u)) BY <2>2 DEF RevRelease, ReleasesValid
    <3>2. valid[id] => u \in Updates BY DEF OwnerInv, TypeOK, Update, Updates, Sources
    <3>3. u.op = "DELETE" BY DEF Update
    <3> HIDE DEF u
    <3>4. u \in Updates => OnlyOp(Append(delReq, u), "DELETE") BY <3>3, <1>1, <1>2, StaysOnly
    <3> QED BY <3>1, <3>2, <3>4, <1>2
  <2> QED BY <2>1, <2>2, <1>2, <1>5
<1> QED BY <1>6, <1>7, <1>8 DEF OpsInv

LEMMA InsertPlacesAre ==
    /\ InsertPlaces \subseteq Places
    /\ "insReq" \in InsertPlaces /\ "updReq" \in InsertPlaces /\ "updRsp" \in InsertPlaces /\ "insRsp" \in InsertPlaces
    /\ \A p \in {"freeList", "finFifo", "revIns", "table", "delReq"} : p \in Places /\ p \notin InsertPlaces
BY DEF InsertPlaces, Places

LEMMA InsertsAreKept ==
    ASSUME IInv, [Next]_vars
    PROVE  OneInsert'
<1> USE DEF IInv
<1> DEFINE In(x) == Among(Contents, InsertPlaces, x)
           InAfter(x) == Among(Contents', InsertPlaces, x)
<1>1. \A x, y \in Ids : In(x) /\ In(y) => fsm = "UPD_RSP" /\ x = y BY DEF FsmInv, OneInsert
<1>2. SUFFICES \A x, y \in Ids : InAfter(x) /\ InAfter(y) => fsm' = "UPD_RSP" /\ x = y BY DEF OneInsert, Among
<1>3. CASE LupRspCreate
  <2>1. Moves("freeList", "insReq", Head(freeList)) /\ fsm = "LUP_RSP" /\ fsm' = "UPD_RSP"
    BY <1>3, CreateMoves DEF LupRspCreate
  <2>2. \A x \in Ids : InAfter(x) <=> In(x) \/ x = Head(freeList) BY <2>1, InsertPlacesAre, MovesAmong
  <2> QED BY <2>1, <2>2, <1>1
<1>4. CASE UpdRsp
  <2> DEFINE v == Head(insRsp).id
  <2>1. Moves("insRsp", "revIns", v) /\ insRsp # <<>> BY <1>4, UpdRspMoves DEF UpdRsp
  <2>2. insRsp \in Seq(Updates) BY DEF TypeOK
  <2>3. 1 \in DOMAIN insRsp /\ Head(insRsp) = insRsp[1] /\ Head(insRsp) \in Updates BY <2>1, <2>2, FirstOf
  <2>4. v \in Ids /\ Has(Contents["insRsp"], v) BY <2>3, ContentsAre DEF Has, IdsOf, Updates
  <2> HIDE DEF v
  <2>5. In(v) BY <2>4, InsertPlacesAre DEF Among
  <2>6. \A x \in Ids : Placed(Contents, x) BY DEF PlaceInv
  <2>7. \A x \in Ids : InAfter(x) <=> In(x) /\ x # v BY <2>1, <2>6, InsertPlacesAre, MovesAmong
  <2> QED BY <2>4, <2>5, <2>7, <1>1
<1>5. CASE ~LupRspCreate /\ ~UpdRsp
  <2>1. fsm' = fsm \/ fsm # "UPD_RSP"
    BY <1>5 DEF Next, vars, fsmVars, RecycleId, NewId, LupReq, LupRspReply, SendInsert, SendDelete, UpdateReply,
                RevInsert, RevRelease, RevLookup, CamLookup, CamUpdate
  <2>2. CASE \A x \in Ids : InAfter(x) => In(x)
    <3>1. \A x, y \in Ids : In(x) /\ In(y) => fsm' = fsm BY <2>1, <1>1
    <3> HIDE DEF In, InAfter
    <3> QED BY <2>2, <3>1, <1>1
  <2>3. CASE NewId
    <3>1. \A p \in InsertPlaces : p \in Places \ {"freeList"} BY InsertPlacesAre
    <3>2. \A p \in InsertPlaces : Contents'[p] = Contents[p] BY <2>3, <3>1, NewIdAppears
    <3> QED BY <3>2, <2>2 DEF Among
  <2>4. CASE UNCHANGED Contents BY <2>2, <2>4
  <2>5. ASSUME NEW a \in Places, NEW b \in Places, a # b, NEW v, Moves(a, b, v), a \in InsertPlaces <=> b \in InsertPlaces
        PROVE  \A x \in Ids : InAfter(x) => In(x)
    BY <2>5, InsertPlacesAre, MovesAmong
  <2>6. CASE \/ Moves("finFifo", "freeList", Head(finFifo)) \/ (SendDelete /\ Moves("delReq", "finFifo", Head(delReq).id))
             \/ Moves("revIns", "table", Head(revIns).id) \/ \E v \in Ids : Moves("table", "delReq", v)
    BY <2>2, <2>5, <2>6, InsertPlacesAre
  <2>7. CASE \/ (SendInsert /\ Moves("insReq", "updReq", Head(insReq).id))
             \/ Moves("updRsp", "insRsp", Inserted(Head(updRsp))) \/ (CamUpdate(NextUpdate) /\ Moves("updReq", "updRsp", Inserted(Head(updReq))))
    BY <2>2, <2>5, <2>7, InsertPlacesAre
  <2>8. \/ NewId \/ UNCHANGED Contents
        \/ Moves("finFifo", "freeList", Head(finFifo)) \/ (SendDelete /\ Moves("delReq", "finFifo", Head(delReq).id))
        \/ Moves("revIns", "table", Head(revIns).id) \/ (\E v \in Ids : Moves("table", "delReq", v))
        \/ (SendInsert /\ Moves("insReq", "updReq", Head(insReq).id))
        \/ Moves("updRsp", "insRsp", Inserted(Head(updRsp)))
        \/ (CamUpdate(NextUpdate) /\ Moves("updReq", "updRsp", Inserted(Head(updReq))))
    BY <1>5, EachStepMoves
  <2> HIDE DEF In, InAfter
  <2> QED BY <2>3, <2>4, <2>6, <2>7, <2>8
<1> QED BY <1>3, <1>4, <1>5

\* Without an insert a queue is for any tuple.
LEMMA NoInsertIsForAny ==
    ASSUME NEW q \in Seq(Updates), \A x \in Ids : ~Has(InsertedIds(q), x) \/ ~Has(IdsOf(q), x), NEW t
    PROVE  IsFor(q, t)
<1> SUFFICES ASSUME NEW i \in DOMAIN q, q[i].op = "INSERT" PROVE FALSE BY DEF IsFor
<1>1. q[i] \in Updates OBVIOUS
<1>2. q[i].id \in Ids BY <1>1 DEF Updates
<1>3. Has(InsertedIds(q), q[i].id) BY DEF Has, InsertedIds
<1>4. Has(IdsOf(q), q[i].id) BY DEF Has, IdsOf
<1> QED BY <1>2, <1>3, <1>4

LEMMA TuplesAreKept ==
    ASSUME IInv, [Next]_vars
    PROVE  TupleInv'
<1> USE DEF IInv, FsmInv
<1>1. /\ insReq \in Seq(Updates) /\ insRsp \in Seq(Updates) /\ updReq \in Seq(Updates) /\ updRsp \in Seq(Updates)
  BY DEF TypeOK
<1> DEFINE t == query.tuple
<1>2. fsm = "UPD_RSP" => IsFor(insReq, t) /\ IsFor(updReq, t) /\ IsFor(updRsp, t) /\ IsFor(insRsp, t)
  BY DEF TupleInv
<1>3. SUFFICES ASSUME fsm' = "UPD_RSP"
               PROVE  /\ IsFor(insReq', query'.tuple) /\ IsFor(updReq', query'.tuple)
                      /\ IsFor(updRsp', query'.tuple) /\ IsFor(insRsp', query'.tuple)
  BY DEF TupleInv
<1>4. CASE LupRspCreate
  <2>1. \A p \in InsertPlaces, x \in Ids : ~Has(Contents[p], x)
    <3>1. \A x \in Ids : ~Among(Contents, InsertPlaces, x) BY <1>4 DEF LupRspCreate, OneInsert
    <3> QED BY <3>1 DEF Among
  <2>2. /\ \A x \in Ids : ~Has(IdsOf(insReq), x) /\ ~Has(IdsOf(insRsp), x)
        /\ \A x \in Ids : ~Has(InsertedIds(updReq), x) /\ ~Has(InsertedIds(updRsp), x)
    BY <2>1, InsertPlacesAre, ContentsAre
  <2>3. IsFor(insReq, t) /\ IsFor(insRsp, t) /\ IsFor(updReq, t) /\ IsFor(updRsp, t)
    BY <2>2, <1>1, NoInsertIsForAny
  <2> DEFINE u == Update("INSERT", query.tuple, Head(freeList), query.source)
  <2>4. insReq' = Append(insReq, u) /\ u.tuple = t /\ freeList # <<>> /\ UNCHANGED <<query, insRsp, updReq, updRsp>>
    BY <1>4 DEF LupRspCreate, Update, Creates
  <2>5. Head(freeList) \in Ids BY <2>4, FirstOf DEF TypeOK
  <2>6. query \in Queries BY <1>4 DEF LupRspCreate, QueryInv
  <2>7. u \in Updates BY <2>5, <2>6 DEF Queries, Updates, Update
  <2> HIDE DEF u
  <2>8. IsFor(Append(insReq, u), t) BY <2>3, <2>4, <2>7, <1>1, StaysFor
  <2> QED BY <2>3, <2>4, <2>8
<1>5. CASE ~LupRspCreate
  <2>1. fsm = "UPD_RSP" /\ query' = query /\ ~UpdRsp
    BY <1>3, <1>5 DEF Next, vars, fsmVars, RecycleId, NewId, LupReq, LupRspReply, UpdRsp, SendInsert, SendDelete,
                      UpdateReply, RevInsert, RevRelease, RevLookup, CamLookup, CamUpdate
  <2>2. IsFor(insReq, t) /\ IsFor(updReq, t) /\ IsFor(updRsp, t) /\ IsFor(insRsp, t) BY <2>1, <1>2
  <2>3. CASE UNCHANGED <<insReq, updReq, updRsp, insRsp>> BY <2>1, <2>2, <2>3
  <2>4. CASE SendInsert
    <3>1. insReq # <<>> /\ insReq' = Tail(insReq) /\ updReq' = Append(updReq, Head(insReq)) /\ UNCHANGED <<updRsp, insRsp>>
      BY <2>4 DEF SendInsert
    <3>2. IsFor(Tail(insReq), t) /\ (Head(insReq).op = "INSERT" => Head(insReq).tuple = t)
      BY <3>1, <2>2, <1>1, StaysFor
    <3>3. Head(insReq) \in Updates BY <3>1, <1>1, FirstOf
    <3>4. IsFor(Append(updReq, Head(insReq)), t) BY <3>2, <3>3, <2>2, <1>1, StaysFor
    <3> QED BY <3>1, <3>2, <3>4, <2>1, <2>2
  <2>5. CASE SendDelete
    <3>1. delReq # <<>> /\ updReq' = Append(updReq, Head(delReq)) /\ UNCHANGED <<insReq, updRsp, insRsp>>
      BY <2>5 DEF SendDelete
    <3>2. Head(delReq) \in Updates BY <3>1, FirstOf DEF TypeOK
    <3>3. Head(delReq).op = "DELETE"
      <4>1. 1 \in DOMAIN delReq /\ Head(delReq) = delReq[1] BY <3>1, FirstOf DEF TypeOK
      <4> QED BY <4>1 DEF OpsInv, OnlyOp
    <3>4. IsFor(Append(updReq, Head(delReq)), t) BY <3>2, <3>3, <2>2, <1>1, StaysFor
    <3> QED BY <3>1, <3>4, <2>1, <2>2
  <2>6. CASE UpdateReply
    <3>1. /\ updRsp # <<>> /\ updRsp' = Tail(updRsp) /\ UNCHANGED <<insReq, updReq>>
          /\ insRsp' = insRsp \/ insRsp' = Append(insRsp, Head(updRsp))
      BY <2>6 DEF UpdateReply
    <3>2. IsFor(Tail(updRsp), t) /\ (Head(updRsp).op = "INSERT" => Head(updRsp).tuple = t)
      BY <3>1, <2>2, <1>1, StaysFor
    <3>3. Head(updRsp) \in Updates BY <3>1, <1>1, FirstOf
    <3>4. IsFor(Append(insRsp, Head(updRsp)), t) BY <3>2, <3>3, <2>2, <1>1, StaysFor
    <3> QED BY <3>1, <3>2, <3>4, <2>1, <2>2
  <2>7. CASE CamUpdate(NextUpdate)
    <3>1. /\ updReq # <<>> /\ Head(updReq) \in Updates
          /\ updReq' = Tail(updReq) /\ updRsp' = Append(updRsp, Head(updReq))
      BY <2>7, CamTakesFirst
    <3>2. UNCHANGED <<insReq, insRsp>> BY <2>7 DEF CamUpdate
    <3>3. IsFor(Tail(updReq), t) /\ (Head(updReq).op = "INSERT" => Head(updReq).tuple = t)
      BY <3>1, <2>2, <1>1, StaysFor
    <3>4. IsFor(Append(updRsp, Head(updReq)), t) BY <3>1, <3>3, <2>2, <1>1, StaysFor
    <3> QED BY <3>1, <3>2, <3>3, <3>4, <2>1, <2>2
  <2>8. \/ UNCHANGED <<insReq, updReq, updRsp, insRsp>>
        \/ SendInsert \/ SendDelete \/ UpdateReply \/ CamUpdate(NextUpdate)
    BY <2>1, <1>5 DEF Next, vars, fifos, RecycleId, NewId, LupReq, LupRspReply, RevInsert, RevRelease, RevLookup, CamLookup
  <2> QED BY <2>3, <2>4, <2>5, <2>6, <2>7, <2>8
<1> QED BY <1>4, <1>5

-----------------------------------------------------------------------------
(* Deletes                                                                 *)

LEMMA EarlyPlacesAre ==
    /\ EarlyPlaces \subseteq Places
    /\ "freeList" \in EarlyPlaces /\ "finFifo" \in EarlyPlaces /\ "insReq" \in EarlyPlaces /\ "updReq" \in EarlyPlaces
    /\ \A p \in {"updRsp", "insRsp", "revIns", "table", "delReq"} : p \in Places /\ p \notin EarlyPlaces
BY DEF EarlyPlaces, Places

\* Identifiers leave the early places only with their insert.
LEMMA EarlyStays ==
    ASSUME IInv, [Next]_vars, NEW x \in Ids, Among(Contents, EarlyPlaces, x),
           CamUpdate(NextUpdate) => x # Inserted(Head(updReq))
    PROVE  Among(Contents', EarlyPlaces, x)
<1> USE DEF IInv
<1>1. Placed(Contents, x) BY DEF PlaceInv
<1>2. CASE NewId
  <2>1. /\ Adds(Contents["freeList"], Contents'["freeList"], counter, x)
        /\ \A p \in Places \ {"freeList"} : Contents'[p] = Contents[p]
    BY <1>2, NewIdAppears
  <2>2. \A p \in EarlyPlaces : Has(Contents[p], x) => Has(Contents'[p], x) BY <2>1, EarlyPlacesAre DEF Adds
  <2> QED BY <2>2 DEF Among
<1>3. CASE UNCHANGED Contents BY <1>3
<1>4. ASSUME NEW a \in Places, NEW b \in Places, a # b, NEW v, Moves(a, b, v), a \in EarlyPlaces => b \in EarlyPlaces \/ x # v
      PROVE  Among(Contents', EarlyPlaces, x)
  <2>1. CASE a \in EarlyPlaces <=> b \in EarlyPlaces BY <2>1, <1>4, EarlyPlacesAre, MovesAmong
  <2>2. CASE a \notin EarlyPlaces /\ b \in EarlyPlaces BY <2>2, <1>4, EarlyPlacesAre, MovesAmong
  <2>3. CASE a \in EarlyPlaces /\ b \notin EarlyPlaces BY <2>3, <1>1, <1>4, EarlyPlacesAre, MovesAmong
  <2> QED BY <2>1, <2>2, <2>3
<1>5. CASE \/ Moves("finFifo", "freeList", Head(finFifo))
           \/ Moves("freeList", "insReq", Head(freeList))
           \/ Moves("insReq", "updReq", Head(insReq).id)
           \/ Moves("delReq", "finFifo", Head(delReq).id)
  BY <1>4, <1>5, EarlyPlacesAre
<1>6. CASE \/ Moves("updRsp", "insRsp", Inserted(Head(updRsp)))
           \/ Moves("insRsp", "revIns", Head(insRsp).id)
           \/ Moves("revIns", "table", Head(revIns).id)
           \/ \E v \in Ids : Moves("table", "delReq", v)
  BY <1>4, <1>6, EarlyPlacesAre
<1>7. CASE CamUpdate(NextUpdate) /\ Moves("updReq", "updRsp", Inserted(Head(updReq)))
  BY <1>4, <1>7, EarlyPlacesAre
<1> QED BY <1>2, <1>3, <1>5, <1>6, <1>7, EachStepMoves

LEMMA DeletesAreKept ==
    ASSUME IInv, [Next]_vars
    PROVE  DeleteInv'
<1> USE DEF IInv
<1>1. updReq \in Seq(Updates) /\ \A i \in DOMAIN updReq : updReq[i] \in Updates /\ updReq[i].id \in Ids
  <2>1. updReq \in Seq(Updates) BY DEF TypeOK
  <2>2. \A i \in DOMAIN updReq : updReq[i] \in Updates BY <2>1
  <2> QED BY <2>1, <2>2 DEF Updates
<1>2. \A i \in DOMAIN updReq : updReq[i].op = "DELETE" =>
        /\ Among(Contents, EarlyPlaces, updReq[i].id)
        /\ \A j \in DOMAIN updReq : j < i => updReq[j].id # updReq[i].id
  BY DEF DeleteInv
<1>3. SUFFICES ASSUME NEW i \in DOMAIN updReq', updReq'[i].op = "DELETE"
               PROVE  /\ Among(Contents', EarlyPlaces, updReq'[i].id)
                      /\ \A j \in DOMAIN updReq' : j < i => updReq'[j].id # updReq'[i].id
  BY DEF DeleteInv, Among
<1>4. ASSUME ~CamUpdate(NextUpdate), i \in DOMAIN updReq, updReq'[i] = updReq[i],
             \A j \in DOMAIN updReq' : j < i => j \in DOMAIN updReq /\ updReq'[j] = updReq[j]
      PROVE  /\ Among(Contents', EarlyPlaces, updReq'[i].id)
             /\ \A j \in DOMAIN updReq' : j < i => updReq'[j].id # updReq'[i].id
  <2>1. updReq[i].id \in Ids /\ Among(Contents, EarlyPlaces, updReq[i].id) BY <1>1, <1>2, <1>3, <1>4
  <2>2. Among(Contents', EarlyPlaces, updReq[i].id) BY <2>1, <1>4, EarlyStays
  <2> QED BY <2>2, <1>2, <1>3, <1>4
<1>5. CASE updReq' = updReq
  <2>1. ~CamUpdate(NextUpdate)
    <3>1. ASSUME CamUpdate(NextUpdate) PROVE FALSE
      <4>1. updReq' = Tail(updReq) /\ updReq # <<>> BY <3>1, CamTakesFirst
      <4> QED BY <4>1, <1>1, <1>5
    <3> QED BY <3>1
  <2> QED BY <2>1, <1>3, <1>4, <1>5
<1>6. CASE SendInsert
  <2> DEFINE u == Head(insReq)
  <2>1. insReq # <<>> /\ updReq' = Append(updReq, u) /\ insReq \in Seq(Updates) BY <1>6 DEF SendInsert, TypeOK
  <2>2. u \in Updates /\ u.op = "INSERT" BY <2>1, FirstOf, StaysOnly DEF FsmInv, OpsInv
  <2> HIDE DEF u
  <2>3. \A k \in DOMAIN updReq' : (k \in DOMAIN updReq /\ updReq'[k] = updReq[k]) \/ (k = Len(updReq) + 1 /\ updReq'[k] = u)
    BY <2>1, <2>2, <1>1
  <2>4. i \in DOMAIN updReq /\ updReq'[i] = updReq[i] BY <2>2, <2>3, <1>3
  <2>5. \A j \in DOMAIN updReq' : j < i => j \in DOMAIN updReq /\ updReq'[j] = updReq[j] BY <2>3, <2>4, <1>1
  <2>6. ~CamUpdate(NextUpdate)
    <3>1. ASSUME CamUpdate(NextUpdate) PROVE FALSE
      <4>1. updReq' = Tail(updReq) /\ updReq # <<>> BY <3>1, CamTakesFirst
      <4> QED BY <4>1, <2>1, <2>2, <1>1
    <3> QED BY <3>1
  <2> QED BY <2>4, <2>5, <2>6, <1>4
<1>7. CASE SendDelete
  <2> DEFINE u == Head(delReq)
  <2>1. delReq # <<>> /\ updReq' = Append(updReq, u) /\ delReq \in Seq(Updates) BY <1>7 DEF SendDelete, TypeOK
  <2>2. u \in Updates /\ u.op = "DELETE" /\ 1 \in DOMAIN delReq /\ u = delReq[1]
    BY <2>1, FirstOf, StaysOnly DEF FsmInv, OpsInv
  <2>3. u.id \in Ids /\ Has(Contents["delReq"], u.id) BY <2>2, ContentsAre DEF Has, IdsOf, Updates
  <2>4. Moves("delReq", "finFifo", u.id) BY <1>7, SendDeleteMoves
  <2> HIDE DEF u
  <2>5. \A k \in DOMAIN updReq' : (k \in DOMAIN updReq /\ updReq'[k] = updReq[k]) \/ (k = Len(updReq) + 1 /\ updReq'[k] = u)
    BY <2>1, <2>2, <1>1
  <2>6. ~CamUpdate(NextUpdate)
    <3>1. ASSUME CamUpdate(NextUpdate) PROVE FALSE
      <4>1. updReq' = Tail(updReq) /\ updReq # <<>> BY <3>1, CamTakesFirst
      <4> QED BY <4>1, <2>1, <2>2, <1>1
    <3> QED BY <3>1
  <2>7. CASE i \in DOMAIN updReq /\ updReq'[i] = updReq[i]
    <3>1. \A j \in DOMAIN updReq' : j < i => j \in DOMAIN updReq /\ updReq'[j] = updReq[j] BY <2>5, <2>7, <1>1
    <3> QED BY <3>1, <2>6, <2>7, <1>4
  <2>8. CASE i = Len(updReq) + 1 /\ updReq'[i] = u
    <3>1. Among(Contents', EarlyPlaces, u.id) BY <2>3, <2>4, EarlyPlacesAre, MovesAmong
    <3>2. ~Among(Contents, EarlyPlaces, u.id) BY <2>3, EarlyPlacesAre DEF Among, PlaceInv, Placed
    <3>3. ASSUME NEW j \in DOMAIN updReq, updReq[j].id = u.id PROVE FALSE
      <4>1. CASE updReq[j].op = "DELETE" BY <4>1, <3>2, <3>3, <1>2
      <4>2. CASE updReq[j].op # "DELETE"
        <5>1. updReq[j].op = "INSERT" BY <4>2, <1>1 DEF Updates
        <5>2. Has(InsertedIds(updReq), u.id) BY <5>1, <3>3 DEF Has, InsertedIds
        <5>3. Among(Contents, EarlyPlaces, u.id) BY <5>2, ContentsAre, EarlyPlacesAre DEF Among
        <5> QED BY <5>3, <3>2
      <4> QED BY <4>1, <4>2
    <3>4. \A j \in DOMAIN updReq' : j < i => j \in DOMAIN updReq /\ updReq'[j] = updReq[j] BY <2>5, <2>8, <1>1
    <3> QED BY <3>1, <3>3, <3>4, <2>8
  <2> QED BY <2>5, <2>7, <2>8
<1>8. CASE CamUpdate(NextUpdate)
  <2>1. updReq # <<>> /\ updReq' = Tail(updReq) /\ updReq[1] = Head(updReq) /\ 1 \in DOMAIN updReq BY <1>8, CamTakesFirst
  <2>2. \A k \in DOMAIN updReq' : k + 1 \in DOMAIN updReq /\ updReq'[k] = updReq[k + 1] /\ 1 < k + 1 BY <2>1, <1>1
  <2>3. updReq[i + 1].id \in Ids /\ Among(Contents, EarlyPlaces, updReq[i + 1].id) BY <2>2, <1>1, <1>2, <1>3
  <2>4. updReq[i + 1].id # Head(updReq).id BY <2>1, <2>2, <1>2, <1>3
  <2>5. updReq[i + 1].id # Inserted(Head(updReq)) BY <2>3, <2>4, NoneAssumption DEF Inserted, Ids
  <2>6. Among(Contents', EarlyPlaces, updReq'[i].id) BY <2>2, <2>3, <2>5, EarlyStays
  <2>7. \A j \in DOMAIN updReq' : j < i => j + 1 < i + 1 BY <2>1, <1>1
  <2> QED BY <2>2, <2>6, <2>7, <1>2, <1>3
<1>9. updReq' = updReq \/ SendInsert \/ SendDelete \/ CamUpdate(NextUpdate)
  BY DEF Next, vars, fifos, RecycleId, NewId, LupReq, LupRspReply, LupRspCreate, UpdRsp, UpdateReply,
         RevInsert, RevRelease, RevLookup, CamLookup
<1> QED BY <1>5, <1>6, <1>7, <1>8, <1>9

-----------------------------------------------------------------------------
(* What the hash table was told                                            *)

Matches(u, op, x, t) == u.op = op /\ u.id = x /\ u.tuple = t

LEMMA ToldAppend ==
    ASSUME NEW S, NEW q \in Seq(S), NEW u \in S, NEW op, NEW x, NEW t
    PROVE  Told(Append(q, u), op, x, t) <=> Told(q, op, x, t) \/ Matches(u, op, x, t)
<1>1. \A i \in DOMAIN Append(q, u) : i = Len(q) + 1 \/ (i \in DOMAIN q /\ Append(q, u)[i] = q[i]) OBVIOUS
<1>2. Append(q, u)[Len(q) + 1] = u /\ Len(q) + 1 \in DOMAIN Append(q, u) OBVIOUS
<1>3. \A i \in DOMAIN q : i \in DOMAIN Append(q, u) /\ Append(q, u)[i] = q[i] OBVIOUS
<1> QED BY <1>1, <1>2, <1>3 DEF Told, Matches

LEMMA ToldTail ==
    ASSUME NEW S, NEW q \in Seq(S), q # <<>>, NEW op, NEW x, NEW t
    PROVE  Told(q, op, x, t) <=> Told(Tail(q), op, x, t) \/ Matches(Head(q), op, x, t)
<1>1. 1 \in DOMAIN q /\ Head(q) = q[1] OBVIOUS
<1>2. \A i \in DOMAIN Tail(q) : i + 1 \in DOMAIN q /\ Tail(q)[i] = q[i + 1] OBVIOUS
<1>3. \A i \in DOMAIN q : i = 1 \/ (i - 1 \in DOMAIN Tail(q) /\ Tail(q)[i - 1] = q[i]) OBVIOUS
<1>4. ASSUME Told(q, op, x, t) PROVE Told(Tail(q), op, x, t) \/ Matches(Head(q), op, x, t)
  <2>1. PICK i \in DOMAIN q : Matches(q[i], op, x, t) BY <1>4 DEF Told, Matches
  <2>2. CASE i = 1 BY <2>1, <2>2, <1>1
  <2>3. CASE i # 1
    <3>1. i - 1 \in DOMAIN Tail(q) /\ Matches(Tail(q)[i - 1], op, x, t) BY <2>1, <2>3, <1>3
    <3> QED BY <3>1 DEF Told, Matches
  <2> QED BY <2>2, <2>3
<1>5. ASSUME Told(Tail(q), op, x, t) PROVE Told(q, op, x, t)
  <2>1. PICK i \in DOMAIN Tail(q) : Matches(Tail(q)[i], op, x, t) BY <1>5 DEF Told, Matches
  <2>2. i + 1 \in DOMAIN q /\ Matches(q[i + 1], op, x, t) BY <2>1, <1>2
  <2> QED BY <2>2 DEF Told, Matches
<1>6. Matches(Head(q), op, x, t) => Told(q, op, x, t) BY <1>1 DEF Told, Matches
<1> QED BY <1>4, <1>5, <1>6

LEMMA EnteredAppend ==
    ASSUME NEW S, NEW q \in Seq(S), NEW u \in S, NEW x, NEW t
    PROVE  EnteredIn(Append(q, u), x, t) <=> EnteredIn(q, x, t) \/ (u.id = x /\ u.tuple = t)
<1>1. \A i \in DOMAIN Append(q, u) : i = Len(q) + 1 \/ (i \in DOMAIN q /\ Append(q, u)[i] = q[i]) OBVIOUS
<1>2. Append(q, u)[Len(q) + 1] = u /\ Len(q) + 1 \in DOMAIN Append(q, u) OBVIOUS
<1>3. \A i \in DOMAIN q : i \in DOMAIN Append(q, u) /\ Append(q, u)[i] = q[i] OBVIOUS
<1> QED BY <1>1, <1>2, <1>3 DEF EnteredIn

LEMMA EnteredTail ==
    ASSUME NEW S, NEW q \in Seq(S), q # <<>>, NEW x, NEW t
    PROVE  EnteredIn(q, x, t) <=> EnteredIn(Tail(q), x, t) \/ (Head(q).id = x /\ Head(q).tuple = t)
<1>1. 1 \in DOMAIN q /\ Head(q) = q[1] OBVIOUS
<1>2. \A i \in DOMAIN Tail(q) : i + 1 \in DOMAIN q /\ Tail(q)[i] = q[i + 1] OBVIOUS
<1>3. \A i \in DOMAIN q : i = 1 \/ (i - 1 \in DOMAIN Tail(q) /\ Tail(q)[i - 1] = q[i]) OBVIOUS
<1>4. ASSUME EnteredIn(q, x, t) PROVE EnteredIn(Tail(q), x, t) \/ (Head(q).id = x /\ Head(q).tuple = t)
  <2>1. PICK i \in DOMAIN q : q[i].id = x /\ q[i].tuple = t BY <1>4 DEF EnteredIn
  <2>2. CASE i = 1 BY <2>1, <2>2, <1>1
  <2>3. CASE i # 1 BY <2>1, <2>3, <1>3 DEF EnteredIn
  <2> QED BY <2>2, <2>3
<1>5. ASSUME EnteredIn(Tail(q), x, t) PROVE EnteredIn(q, x, t)
  <2>1. PICK i \in DOMAIN Tail(q) : Tail(q)[i].id = x /\ Tail(q)[i].tuple = t BY <1>5 DEF EnteredIn
  <2> QED BY <2>1, <1>2 DEF EnteredIn
<1>6. Head(q).id = x /\ Head(q).tuple = t => EnteredIn(q, x, t) BY <1>1 DEF EnteredIn
<1> QED BY <1>4, <1>5, <1>6

\* Where the identifier of a session is that the hash table was told of.
LEMMA WhereStored ==
    ASSUME TypeOK, DeleteInv, NEW x \in Ids, NEW t
    PROVE  /\ Told(updRsp, "INSERT", x, t) => Has(Contents["updRsp"], x)
           /\ Told(insRsp, "INSERT", x, t) => Has(Contents["insRsp"], x)
           /\ Entered(x, t) => Has(Contents["revIns"], x)
           /\ valid[x] => Has(Contents["table"], x)
           /\ Told(delReq, "DELETE", x, t) => Has(Contents["delReq"], x)
           /\ Told(updReq, "DELETE", x, t) => Among(Contents, EarlyPlaces, x)
<1>1. Told(updRsp, "INSERT", x, t) => Has(InsertedIds(updRsp), x) BY DEF Told, Has, InsertedIds
<1>2. Told(insRsp, "INSERT", x, t) => Has(IdsOf(insRsp), x) BY DEF Told, Has, IdsOf
<1>3. Entered(x, t) => Has(IdsOf(revIns), x) BY DEF Entered, EnteredIn, Has, IdsOf
<1>4. Told(delReq, "DELETE", x, t) => Has(IdsOf(delReq), x) BY DEF Told, Has, IdsOf
<1>5. Told(updReq, "DELETE", x, t) => Among(Contents, EarlyPlaces, x) BY DEF Told, DeleteInv
<1> QED BY <1>1, <1>2, <1>3, <1>4, <1>5, TableHas, ContentsAre

\* So the ways to be stored exclude each other.
Ways == {"updRsp", "insRsp", "revIns", "table", "delReq", "updReq"}
By(way, x, t) ==
    CASE way = "updRsp" -> Told(updRsp, "INSERT", x, t)
      [] way = "insRsp" -> Told(insRsp, "INSERT", x, t)
      [] way = "revIns" -> Entered(x, t)
      [] way = "table" -> valid[x] /\ rev[x] = t
      [] way = "delReq" -> Told(delReq, "DELETE", x, t)
      [] way = "updReq" -> Told(updReq, "DELETE", x, t)

LEMMA ByWays ==
    \A x, t : /\ By("updRsp", x, t) <=> Told(updRsp, "INSERT", x, t)
              /\ By("insRsp", x, t) <=> Told(insRsp, "INSERT", x, t)
              /\ By("revIns", x, t) <=> Entered(x, t)
              /\ By("table", x, t) <=> valid[x] /\ rev[x] = t
              /\ By("delReq", x, t) <=> Told(delReq, "DELETE", x, t)
              /\ By("updReq", x, t) <=> Told(updReq, "DELETE", x, t)
              /\ Stored(x, t) <=> \E way \in Ways : By(way, x, t)
BY DEF By, Stored, Owned, Ways

LEMMA OneWay ==
    ASSUME TypeOK, PlaceInv, DeleteInv, NEW x \in Ids, NEW t, NEW s,
           NEW way \in Ways, NEW other \in Ways, By(way, x, t), By(other, x, s)
    PROVE  way = other
<1>1. ASSUME NEW w \in Ways, NEW r, By(w, x, r)
      PROVE  IF w = "updReq" THEN \E p \in EarlyPlaces : Has(Contents[p], x) ELSE Has(Contents[w], x)
  BY <1>1, WhereStored, ByWays DEF Ways, Among
<1>2. \A w \in Ways : w # "updReq" => w \in Places /\ w \notin EarlyPlaces BY DEF Ways, Places, EarlyPlaces
<1>3. \A p, q \in Places : Has(Contents[p], x) /\ Has(Contents[q], x) => p = q BY DEF PlaceInv, Placed
<1>4. CASE way = "updReq" /\ other # "updReq" BY <1>1, <1>2, <1>3, <1>4, EarlyPlacesAre
<1>5. CASE way # "updReq" /\ other = "updReq" BY <1>1, <1>2, <1>3, <1>5, EarlyPlacesAre
<1>6. CASE way # "updReq" /\ other # "updReq" BY <1>1, <1>2, <1>3, <1>6
<1> QED BY <1>4, <1>5, <1>6

\* An identifier is stored for one tuple.
LEMMA StoredForOne ==
    ASSUME TypeOK, PlaceInv, DeleteInv, NEW x \in Ids, NEW t, NEW s, Stored(x, t), Stored(x, s)
    PROVE  t = s
<1>1. PICK way \in Ways : By(way, x, t) BY ByWays
<1>2. PICK other \in Ways : By(other, x, s) BY ByWays
<1>3. way = other BY <1>1, <1>2, OneWay
<1>4. \A p \in Places : Once(Contents[p], x) BY DEF PlaceInv, Placed
<1>5. CASE way = "updRsp"
  <2>1. Told(updRsp, "INSERT", x, t) /\ Told(updRsp, "INSERT", x, s) BY <1>1, <1>2, <1>3, <1>5, ByWays
  <2>2. Once(InsertedIds(updRsp), x) BY <1>4, ContentsAre DEF Places
  <2> QED BY <2>1, <2>2 DEF Told, Once, InsertedIds
<1>6. CASE way = "insRsp"
  <2>1. Told(insRsp, "INSERT", x, t) /\ Told(insRsp, "INSERT", x, s) BY <1>1, <1>2, <1>3, <1>6, ByWays
  <2>2. Once(IdsOf(insRsp), x) BY <1>4, ContentsAre DEF Places
  <2> QED BY <2>1, <2>2 DEF Told, Once, IdsOf
<1>7. CASE way = "revIns"
  <2>1. Entered(x, t) /\ Entered(x, s) BY <1>1, <1>2, <1>3, <1>7, ByWays
  <2>2. Once(IdsOf(revIns), x) BY <1>4, ContentsAre DEF Places
  <2> QED BY <2>1, <2>2 DEF Entered, EnteredIn, Once, IdsOf
<1>8. CASE way = "table" BY <1>1, <1>2, <1>3, <1>8, ByWays
<1>9. CASE way = "delReq"
  <2>1. Told(delReq, "DELETE", x, t) /\ Told(delReq, "DELETE", x, s) BY <1>1, <1>2, <1>3, <1>9, ByWays
  <2>2. Once(IdsOf(delReq), x) BY <1>4, ContentsAre DEF Places
  <2> QED BY <2>1, <2>2 DEF Told, Once, IdsOf
<1>10. CASE way = "updReq"
  <2>1. Told(updReq, "DELETE", x, t) /\ Told(updReq, "DELETE", x, s) BY <1>1, <1>2, <1>3, <1>10, ByWays
  <2>2. PICK i \in DOMAIN updReq : updReq[i].op = "DELETE" /\ updReq[i].id = x /\ updReq[i].tuple = t BY <2>1 DEF Told
  <2>3. PICK j \in DOMAIN updReq : updReq[j].op = "DELETE" /\ updReq[j].id = x /\ updReq[j].tuple = s BY <2>1 DEF Told
  <2>4. i \in Nat /\ j \in Nat BY DEF TypeOK
  <2>5. ~(i < j) /\ ~(j < i) BY <2>2, <2>3 DEF DeleteInv
  <2> QED BY <2>2, <2>3, <2>4, <2>5
<1> QED BY <1>5, <1>6, <1>7, <1>8, <1>9, <1>10 DEF Ways

-----------------------------------------------------------------------------
(* How each step changes what is stored                                    *)

Inserts == CamUpdate(NextUpdate) /\ Head(updReq).op = "INSERT"
Deletes == CamUpdate(NextUpdate) /\ Head(updReq).op = "DELETE"
\* Stored, and the creation not yet answered.
Pending(x, t) == Told(updRsp, "INSERT", x, t) \/ Told(insRsp, "INSERT", x, t)

LEMMA OwnedIs ==
    ASSUME NEW x, NEW t
    PROVE  /\ Owned(x, t) <=> EnteredIn(revIns, x, t) \/ (valid[x] /\ rev[x] = t)
                                \/ Told(delReq, "DELETE", x, t) \/ Told(updReq, "DELETE", x, t)
           /\ Stored(x, t) <=> Pending(x, t) \/ Owned(x, t)
BY DEF Owned, Stored, Entered, Pending

LEMMA OwnedWillBe ==
    ASSUME NEW CONSTANT x, NEW CONSTANT t
    PROVE  /\ Owned(x, t)' <=> EnteredIn(revIns', x, t) \/ (valid'[x] /\ rev'[x] = t)
                                 \/ Told(delReq', "DELETE", x, t) \/ Told(updReq', "DELETE", x, t)
           /\ Stored(x, t)' <=> Pending(x, t)' \/ Owned(x, t)'
           /\ Pending(x, t)' <=> Told(updRsp', "INSERT", x, t) \/ Told(insRsp', "INSERT", x, t)
BY DEF Owned, Stored, Entered, Pending, EnteredIn, Told

Entries == [id : Ids, tuple : Tuples]

LEMMA QueuesAre ==
    ASSUME TypeOK
    PROVE  /\ insReq \in Seq(Updates) /\ delReq \in Seq(Updates) /\ updReq \in Seq(Updates)
           /\ updRsp \in Seq(Updates) /\ insRsp \in Seq(Updates)
           /\ revIns \in Seq(Entries)
BY DEF TypeOK, Entries

\* The head of updReq, if it is a delete, is the only thing known of its identifier.
LEMMA DeletedIsOnlyThere ==
    ASSUME IInv, Deletes, NEW t
    PROVE  LET v == Head(updReq).id IN
           /\ v \in Ids
           /\ ~Pending(v, t) /\ ~EnteredIn(revIns, v, t) /\ ~(valid[v] /\ rev[v] = t)
           /\ ~Told(delReq, "DELETE", v, t) /\ ~Told(Tail(updReq), "DELETE", v, t)
<1> USE DEF IInv
<1> DEFINE u == Head(updReq)
<1>1. /\ updReq # <<>> /\ u \in Updates /\ updReq[1] = u /\ 1 \in DOMAIN updReq /\ u.op = "DELETE"
      /\ updReq \in Seq(Updates)
  BY CamTakesFirst, QueuesAre DEF Deletes
<1>2. u.id \in Ids /\ Told(updReq, "DELETE", u.id, u.tuple) BY <1>1 DEF Updates, Told
<1>3. \A i \in DOMAIN Tail(updReq) : i + 1 \in DOMAIN updReq /\ Tail(updReq)[i] = updReq[i + 1] /\ 1 < i + 1
  BY <1>1
<1>4. \A i \in DOMAIN Tail(updReq) : Tail(updReq)[i].op = "DELETE" => Tail(updReq)[i].id # u.id
  BY <1>1, <1>3 DEF DeleteInv
<1>5. ~Told(Tail(updReq), "DELETE", u.id, t) BY <1>4 DEF Told
<1>6. By("updReq", u.id, u.tuple) BY <1>2, ByWays
<1>7. \A way \in Ways : By(way, u.id, t) => way = "updReq" BY <1>2, <1>6, OneWay DEF Ways
<1>8. ~By("updRsp", u.id, t) /\ ~By("insRsp", u.id, t) /\ ~By("revIns", u.id, t) /\ ~By("table", u.id, t) /\ ~By("delReq", u.id, t)
  BY <1>7 DEF Ways
<1>9. ~Pending(u.id, t) /\ ~EnteredIn(revIns, u.id, t) /\ ~(valid[u.id] /\ rev[u.id] = t) /\ ~Told(delReq, "DELETE", u.id, t)
  BY <1>8, ByWays DEF Pending, Entered
<1> QED BY <1>2, <1>5, <1>9

LEMMA PendingChanges ==
    ASSUME IInv, [Next]_vars, NEW CONSTANT x \in Ids, NEW CONSTANT t \in Tuples
    PROVE  /\ UpdRsp => (Pending(x, t) <=> Pending(x, t)' \/ Matches(Head(insRsp), "INSERT", x, t))
           /\ Inserts => (Pending(x, t)' <=> Pending(x, t) \/ Matches(Head(updReq), "INSERT", x, t))
           /\ ~UpdRsp /\ ~Inserts => (Pending(x, t)' <=> Pending(x, t))
<1>0. TypeOK BY DEF IInv
<1>1. updReq \in Seq(Updates) /\ updRsp \in Seq(Updates) /\ insRsp \in Seq(Updates) BY <1>0, QueuesAre
<1>2. /\ Pending(x, t) <=> Told(updRsp, "INSERT", x, t) \/ Told(insRsp, "INSERT", x, t)
      /\ Pending(x, t)' <=> Told(updRsp', "INSERT", x, t) \/ Told(insRsp', "INSERT", x, t)
  BY OwnedWillBe DEF Pending
<1>3. ASSUME UpdRsp PROVE Pending(x, t) <=> Pending(x, t)' \/ Matches(Head(insRsp), "INSERT", x, t)
  <2>1. insRsp # <<>> /\ insRsp' = Tail(insRsp) /\ updRsp' = updRsp BY <1>3 DEF UpdRsp
  <2>2. Told(insRsp, "INSERT", x, t) <=> Told(Tail(insRsp), "INSERT", x, t) \/ Matches(Head(insRsp), "INSERT", x, t)
    BY <1>1, <2>1, ToldTail
  <2> QED BY <1>2, <2>1, <2>2
<1>4. ASSUME CamUpdate(NextUpdate) PROVE Pending(x, t)' <=> Pending(x, t) \/ Matches(Head(updReq), "INSERT", x, t)
  <2>1. Head(updReq) \in Updates /\ updRsp' = Append(updRsp, Head(updReq)) /\ insRsp' = insRsp
    BY <1>0, <1>4, CamTakesFirst DEF CamUpdate
  <2>2. Told(Append(updRsp, Head(updReq)), "INSERT", x, t) <=> Told(updRsp, "INSERT", x, t) \/ Matches(Head(updReq), "INSERT", x, t)
    BY <1>1, <2>1, ToldAppend
  <2> QED BY <1>2, <2>1, <2>2
<1>5. ASSUME UpdateReply PROVE Pending(x, t)' <=> Pending(x, t)
  <2> DEFINE u == Head(updRsp)
  <2>1. /\ updRsp # <<>> /\ updRsp' = Tail(updRsp)
        /\ u.op = "INSERT" => insRsp' = Append(insRsp, u)
        /\ u.op # "INSERT" => insRsp' = insRsp
    BY <1>5 DEF UpdateReply, AnswersInserts
  <2>2. u \in Updates BY <1>1, <2>1, FirstOf
  <2> HIDE DEF u
  <2>3. Told(updRsp, "INSERT", x, t) <=> Told(Tail(updRsp), "INSERT", x, t) \/ Matches(Head(updRsp), "INSERT", x, t)
    BY <1>1, <2>1, ToldTail
  <2>4. Told(Append(insRsp, u), "INSERT", x, t) <=> Told(insRsp, "INSERT", x, t) \/ Matches(u, "INSERT", x, t)
    BY <1>1, <2>2, ToldAppend
  <2>5. u.op # "INSERT" => ~Matches(u, "INSERT", x, t) BY DEF Matches
  <2> QED BY <1>2, <2>1, <2>3, <2>4, <2>5 DEF u
<1>6. CASE ~UpdRsp /\ ~CamUpdate(NextUpdate) /\ ~UpdateReply
  <2>1. updRsp' = updRsp /\ insRsp' = insRsp
    BY <1>6 DEF Next, vars, fifos, RecycleId, NewId, LupReq, LupRspCreate, LupRspReply, SendInsert, SendDelete,
                RevInsert, RevRelease, RevLookup, CamLookup
  <2> QED BY <1>2, <1>6, <2>1 DEF Inserts
<1>7. CamUpdate(NextUpdate) /\ ~Inserts => ~Matches(Head(updReq), "INSERT", x, t) BY DEF Inserts, Matches
<1>8. Inserts => CamUpdate(NextUpdate) BY DEF Inserts
<1>9. UpdRsp => ~CamUpdate(NextUpdate)
  <2>1. ASSUME CamUpdate(NextUpdate), UpdRsp PROVE FALSE
    <3>1. updReq # <<>> /\ updReq' = Tail(updReq) /\ updReq' = updReq BY <1>0, <2>1, CamTakesFirst DEF UpdRsp
    <3> QED BY <3>1, <1>1
  <2> QED BY <2>1
<1> QED BY <1>3, <1>4, <1>5, <1>6, <1>7, <1>8

\* An identifier gets its owner with the answer to its creation, and is no longer
\* owned when the hash table has deleted its tuple.
LEMMA OwnedChanges ==
    ASSUME IInv, [Next]_vars, NEW CONSTANT x \in Ids, NEW CONSTANT t \in Tuples
    PROVE  /\ UpdRsp => (Owned(x, t)' <=> Owned(x, t) \/ (Head(insRsp).id = x /\ query.tuple = t))
           /\ Deletes => (Owned(x, t)' <=> Owned(x, t) /\ x # Head(updReq).id)
           /\ ~UpdRsp /\ ~Deletes => (Owned(x, t)' <=> Owned(x, t))
<1> DEFINE In(q) == EnteredIn(q, x, t)
           Del(q) == Told(q, "DELETE", x, t)
           Same2 == (Owned(x, t)' <=> Owned(x, t))
<1>0. TypeOK /\ PlaceInv /\ OwnerInv BY DEF IInv
<1>1. /\ insReq \in Seq(Updates) /\ delReq \in Seq(Updates) /\ updReq \in Seq(Updates) /\ insRsp \in Seq(Updates)
      /\ revIns \in Seq(Entries)
      /\ OnlyOp(insReq, "INSERT") /\ OnlyOp(delReq, "DELETE")
  BY <1>0, QueuesAre DEF IInv, FsmInv, OpsInv
<1>2. /\ Owned(x, t) <=> In(revIns) \/ (valid[x] /\ rev[x] = t) \/ Del(delReq) \/ Del(updReq)
      /\ Owned(x, t)' <=> In(revIns') \/ (valid'[x] /\ rev'[x] = t) \/ Del(delReq') \/ Del(updReq')
  BY OwnedIs, OwnedWillBe
<1>3. valid \in [Ids -> BOOLEAN] /\ rev \in [Ids -> Tuples \cup {None}] BY <1>0 DEF TypeOK
<1> HIDE DEF In, Del
<1>4. ASSUME UpdRsp PROVE Owned(x, t)' <=> Owned(x, t) \/ (Head(insRsp).id = x /\ query.tuple = t)
  <2> DEFINE r == [id |-> Head(insRsp).id, tuple |-> query.tuple]
  <2>1. insRsp # <<>> /\ revIns' = Append(revIns, r) /\ UNCHANGED <<valid, rev, delReq, updReq>> /\ fsm = "UPD_RSP"
    BY <1>4 DEF UpdRsp, revVars
  <2>2. Head(insRsp) \in Updates /\ query \in Queries BY <1>1, <2>1, FirstOf DEF IInv, FsmInv, QueryInv
  <2>3. r \in Entries /\ r.id = Head(insRsp).id /\ r.tuple = query.tuple
    BY <2>2 DEF Updates, Queries, Entries
  <2> HIDE DEF r
  <2>4. EnteredIn(Append(revIns, r), x, t) <=> EnteredIn(revIns, x, t) \/ (r.id = x /\ r.tuple = t)
    BY <2>3, <1>1, EnteredAppend
  <2>5. In(revIns') <=> In(revIns) \/ (Head(insRsp).id = x /\ query.tuple = t) BY <2>1, <2>3, <2>4 DEF In
  <2> QED BY <1>2, <2>1, <2>5
<1>5. ASSUME CamUpdate(NextUpdate)
      PROVE  /\ Deletes => (Owned(x, t)' <=> Owned(x, t) /\ x # Head(updReq).id)
             /\ ~Deletes => Same2
  <2>1. /\ updReq # <<>> /\ Head(updReq) \in Updates /\ updReq' = Tail(updReq) /\ UNCHANGED <<valid, rev, delReq, revIns>>
    BY <1>0, <1>5, CamTakesFirst DEF CamUpdate, revVars
  <2>2. Told(updReq, "DELETE", x, t) <=> Told(Tail(updReq), "DELETE", x, t) \/ Matches(Head(updReq), "DELETE", x, t)
    BY <2>1, <1>1, ToldTail
  <2>3. Del(updReq) <=> Del(updReq') \/ Matches(Head(updReq), "DELETE", x, t) BY <2>1, <2>2 DEF Del
  <2>4. ASSUME ~Deletes PROVE Same2
    <3>1. ~Matches(Head(updReq), "DELETE", x, t) BY <2>4, <1>5 DEF Deletes, Matches
    <3> QED BY <3>1, <2>1, <2>3, <1>2
  <2>5. ASSUME Deletes PROVE Owned(x, t)' <=> Owned(x, t) /\ x # Head(updReq).id
    <3>1. CASE x # Head(updReq).id
      <4>1. ~Matches(Head(updReq), "DELETE", x, t) BY <3>1 DEF Matches
      <4> QED BY <3>1, <4>1, <2>1, <2>3, <1>2
    <3>2. CASE x = Head(updReq).id
      <4>1. /\ ~EnteredIn(revIns, x, t) /\ ~(valid[x] /\ rev[x] = t) /\ ~Told(delReq, "DELETE", x, t)
            /\ ~Told(Tail(updReq), "DELETE", x, t)
        BY <3>2, <2>5, DeletedIsOnlyThere
      <4>2. ~In(revIns) /\ ~Del(delReq) /\ ~Del(updReq') BY <4>1, <2>1 DEF In, Del
      <4> QED BY <3>2, <4>1, <4>2, <2>1, <1>2
    <3> QED BY <3>1, <3>2
  <2> QED BY <2>4, <2>5
<1>6. ASSUME SendInsert PROVE Same2
  <2>1. insReq # <<>> /\ updReq' = Append(updReq, Head(insReq)) /\ UNCHANGED <<valid, rev, delReq, revIns>>
    BY <1>6 DEF SendInsert, revVars
  <2>2. Head(insReq) \in Updates /\ Head(insReq).op = "INSERT" BY <2>1, <1>1, FirstOf, StaysOnly
  <2>3. Told(Append(updReq, Head(insReq)), "DELETE", x, t) <=> Told(updReq, "DELETE", x, t) \/ Matches(Head(insReq), "DELETE", x, t)
    BY <2>2, <1>1, ToldAppend
  <2>4. Del(updReq') <=> Del(updReq) BY <2>1, <2>2, <2>3 DEF Del, Matches
  <2> QED BY <2>1, <2>4, <1>2
<1>7. ASSUME SendDelete PROVE Same2
  <2>1. /\ delReq # <<>> /\ updReq' = Append(updReq, Head(delReq)) /\ delReq' = Tail(delReq)
        /\ UNCHANGED <<valid, rev, revIns>>
    BY <1>7 DEF SendDelete, revVars
  <2>2. Head(delReq) \in Updates BY <2>1, <1>1, FirstOf
  <2>3. Told(Append(updReq, Head(delReq)), "DELETE", x, t) <=> Told(updReq, "DELETE", x, t) \/ Matches(Head(delReq), "DELETE", x, t)
    BY <2>2, <1>1, ToldAppend
  <2>4. Told(delReq, "DELETE", x, t) <=> Told(Tail(delReq), "DELETE", x, t) \/ Matches(Head(delReq), "DELETE", x, t)
    BY <2>1, <1>1, ToldTail
  <2>5. Del(updReq') \/ Del(delReq') <=> Del(updReq) \/ Del(delReq) BY <2>1, <2>3, <2>4 DEF Del
  <2> QED BY <2>1, <2>5, <1>2
<1>8. ASSUME RevInsert PROVE Same2
  <2> DEFINE r == Head(revIns)
  <2>1. /\ revIns # <<>> /\ revIns' = Tail(revIns) /\ UNCHANGED <<delReq, updReq>>
        /\ rev' = [rev EXCEPT ![r.id] = r.tuple] /\ valid' = [valid EXCEPT ![r.id] = TRUE]
    BY <1>8 DEF RevInsert
  <2>2. r.id \in Ids /\ r.tuple \in Tuples /\ ~valid[r.id] BY <2>1, <1>0, EnteredAreOut
  <2>3. EnteredIn(revIns, x, t) <=> EnteredIn(Tail(revIns), x, t) \/ (r.id = x /\ r.tuple = t)
    BY <2>1, <1>1, EnteredTail
  <2> HIDE DEF r
  <2>4. In(revIns) <=> In(revIns') \/ (r.id = x /\ r.tuple = t) BY <2>1, <2>3 DEF In
  <2>5. valid'[x] /\ rev'[x] = t <=> (valid[x] /\ rev[x] = t) \/ (r.id = x /\ r.tuple = t) BY <2>1, <2>2, <1>3
  <2> QED BY <2>1, <2>4, <2>5, <1>2
<1>9. ASSUME NEW v \in Ids, RevRelease(v) PROVE Same2
  <2>1. CASE ~valid[v]
    <3>1. delReq' = delReq /\ valid' = [valid EXCEPT ![v] = FALSE] /\ UNCHANGED <<revIns, updReq, rev>>
      BY <1>9, <2>1 DEF RevRelease, ReleasesValid
    <3>2. valid' = valid BY <3>1, <2>1, <1>3
    <3> QED BY <3>1, <3>2, <1>2
  <2>2. CASE valid[v]
    <3> DEFINE u == Update("DELETE", rev[v], v, "RX")
    <3>1. /\ delReq' = Append(delReq, u) /\ valid' = [valid EXCEPT ![v] = FALSE] /\ UNCHANGED <<revIns, updReq, rev>>
      BY <1>9, <2>2 DEF RevRelease, ReleasesValid
    <3>2. rev[v] \in Tuples BY <2>2, <1>0, <1>3 DEF OwnerInv
    <3>3. u \in Updates /\ u.op = "DELETE" /\ u.id = v /\ u.tuple = rev[v] BY <3>2 DEF Update, Updates, Sources
    <3> HIDE DEF u
    <3>4. Told(Append(delReq, u), "DELETE", x, t) <=> Told(delReq, "DELETE", x, t) \/ Matches(u, "DELETE", x, t)
      BY <3>3, <1>1, ToldAppend
    <3>5. Del(delReq') <=> Del(delReq) \/ (x = v /\ rev[v] = t) BY <3>1, <3>3, <3>4 DEF Del, Matches
    <3>6. valid'[x] <=> valid[x] /\ x # v BY <3>1, <1>3
    <3> QED BY <3>1, <3>5, <3>6, <2>2, <1>2
  <2> QED BY <2>1, <2>2
<1>10. ASSUME ~UpdRsp, ~CamUpdate(NextUpdate), ~SendInsert, ~SendDelete, ~RevInsert, ~\E v \in Ids : RevRelease(v)
       PROVE  Same2
  <2>1. UNCHANGED <<revIns, valid, rev, delReq, updReq>>
    BY <1>10 DEF Next, vars, fifos, revVars, RecycleId, NewId, LupReq, LupRspCreate, LupRspReply, UpdateReply, RevLookup, CamLookup
  <2> QED BY <2>1, <1>2
<1>11. Deletes => CamUpdate(NextUpdate) BY DEF Deletes
<1> QED BY <1>4, <1>5, <1>6, <1>7, <1>8, <1>9, <1>10, <1>11

LEMMA StoredChanges ==
    ASSUME IInv, [Next]_vars, NEW CONSTANT x \in Ids, NEW CONSTANT t \in Tuples
    PROVE  /\ Inserts => (Stored(x, t)' <=> Stored(x, t) \/ Matches(Head(updReq), "INSERT", x, t))
           /\ Deletes => (Stored(x, t)' <=> Stored(x, t) /\ x # Head(updReq).id)
           /\ ~Inserts /\ ~Deletes => (Stored(x, t)' <=> Stored(x, t))
<1>0. TypeOK BY DEF IInv
<1>1. (Stored(x, t) <=> Pending(x, t) \/ Owned(x, t)) /\ (Stored(x, t)' <=> Pending(x, t)' \/ Owned(x, t)')
  BY OwnedIs, OwnedWillBe
<1>2. UpdRsp => ~CamUpdate(NextUpdate)
  <2>1. ASSUME CamUpdate(NextUpdate), UpdRsp PROVE FALSE
    <3>1. updReq # <<>> /\ updReq' = Tail(updReq) /\ updReq' = updReq BY <1>0, <2>1, CamTakesFirst DEF UpdRsp
    <3> QED BY <3>1, QueuesAre, <1>0
  <2> QED BY <2>1
<1>3. ~(Inserts /\ Deletes) /\ (Inserts => CamUpdate(NextUpdate)) /\ (Deletes => CamUpdate(NextUpdate))
  BY DEF Inserts, Deletes
<1>4. ASSUME UpdRsp PROVE Stored(x, t)' <=> Stored(x, t)
  <2>1. insRsp # <<>> /\ fsm = "UPD_RSP" BY <1>4 DEF UpdRsp
  <2>2. Head(insRsp).op = "INSERT" BY <2>1, <1>0, QueuesAre, StaysOnly DEF IInv, FsmInv, OpsInv
  <2>3. Head(insRsp).tuple = query.tuple BY <2>1, <2>2, <1>0, QueuesAre, StaysFor DEF IInv, FsmInv, TupleInv
  <2>4. Matches(Head(insRsp), "INSERT", x, t) <=> Head(insRsp).id = x /\ query.tuple = t BY <2>2, <2>3 DEF Matches
  <2>5. Pending(x, t) <=> Pending(x, t)' \/ Matches(Head(insRsp), "INSERT", x, t) BY <1>4, PendingChanges
  <2>6. Owned(x, t)' <=> Owned(x, t) \/ (Head(insRsp).id = x /\ query.tuple = t) BY <1>4, OwnedChanges
  <2> QED BY <2>4, <2>5, <2>6, <1>1
<1>5. ASSUME Deletes, x = Head(updReq).id PROVE ~Pending(x, t) BY <1>5, DeletedIsOnlyThere
<1>6. ~UpdRsp /\ Inserts => (Pending(x, t)' <=> Pending(x, t) \/ Matches(Head(updReq), "INSERT", x, t)) BY PendingChanges
<1>7. ~UpdRsp /\ ~Inserts => (Pending(x, t)' <=> Pending(x, t)) BY PendingChanges
<1>8. ~UpdRsp /\ ~Deletes => (Owned(x, t)' <=> Owned(x, t)) BY OwnedChanges
<1>9. ~UpdRsp /\ Deletes => (Owned(x, t)' <=> Owned(x, t) /\ x # Head(updReq).id) BY OwnedChanges
<1> QED BY <1>1, <1>2, <1>3, <1>4, <1>5, <1>6, <1>7, <1>8, <1>9

-----------------------------------------------------------------------------
(* The hash table                                                          *)

\* What an update does to the hash table.
LEMMA CamChanges ==
    ASSUME IInv, [Next]_vars
    PROVE  /\ ~Inserts /\ ~Deletes => cam' = cam /\ dropped' = dropped
           /\ Deletes => cam' = [cam EXCEPT ![Head(updReq).tuple] = None] /\ dropped' = dropped
           /\ Inserts => \/ cam' = [cam EXCEPT ![Head(updReq).tuple] = Head(updReq).id] /\ dropped' = dropped
                         \/ dropped' /\ \E t \in Tuples :
                                cam' = [cam EXCEPT ![Head(updReq).tuple] = Head(updReq).id, ![t] = None]
<1>0. TypeOK BY DEF IInv
<1>1. CamUpdate(NextUpdate) => Head(updReq) \in Updates /\ updReq[1] = Head(updReq) BY <1>0, CamTakesFirst
<1>2. CamUpdate(NextUpdate) => Inserts \/ Deletes BY <1>1 DEF Inserts, Deletes, Updates
<1>3. ~CamUpdate(NextUpdate) => cam' = cam /\ dropped' = dropped
  BY DEF Next, vars, camVars, RecycleId, NewId, LupReq, LupRspCreate, LupRspReply, UpdRsp, SendInsert, SendDelete,
         UpdateReply, RevInsert, RevRelease, RevLookup, CamLookup
<1>4. ASSUME Deletes PROVE cam' = [cam EXCEPT ![Head(updReq).tuple] = None] /\ dropped' = dropped
  BY <1>1, <1>4 DEF Deletes, CamUpdate, NextUpdate
<1>5. ASSUME Inserts
      PROVE  \/ cam' = [cam EXCEPT ![Head(updReq).tuple] = Head(updReq).id] /\ dropped' = dropped
             \/ dropped' /\ \E t \in Tuples :
                    cam' = [cam EXCEPT ![Head(updReq).tuple] = Head(updReq).id, ![t] = None]
  BY <1>1, <1>5 DEF Inserts, CamUpdate, NextUpdate
<1> QED BY <1>2, <1>3, <1>4, <1>5

\* While a session is created, the FSM waits with its query.
LEMMA CreatingWaits ==
    ASSUME IInv, Creating
    PROVE  fsm = "UPD_RSP" /\ lup.st = "none" /\ ~UpdRsp
<1> USE DEF IInv, FsmInv
<1>1. TypeOK BY DEF IInv
<1>2. PICK x \in Ids : Has(IdsOf(insReq), x) \/ Has(InsertedIds(updReq), x)
  <2>1. CASE insReq # <<>>
    <3>1. 1 \in DOMAIN insReq /\ insReq[1] \in Updates BY <2>1, <1>1, QueuesAre
    <3>2. insReq[1].id \in Ids /\ Has(IdsOf(insReq), insReq[1].id) BY <3>1 DEF Updates, Has, IdsOf
    <3> QED BY <3>2
  <2> QED BY <2>1 DEF Creating
<1>3. Has(Contents["insReq"], x) \/ Has(Contents["updReq"], x) BY <1>2, ContentsAre
<1>4. Among(Contents, InsertPlaces, x) BY <1>3, InsertPlacesAre DEF Among
<1>5. fsm = "UPD_RSP" BY <1>4 DEF OneInsert
<1>6. ASSUME UpdRsp PROVE FALSE
  <2>1. insRsp # <<>> BY <1>6 DEF UpdRsp
  <2>2. 1 \in DOMAIN insRsp /\ insRsp[1] \in Updates BY <2>1, <1>1, QueuesAre
  <2>3. insRsp[1].id \in Ids /\ Has(Contents["insRsp"], insRsp[1].id) BY <2>2, ContentsAre DEF Updates, Has, IdsOf
  <2>4. Among(Contents, InsertPlaces, insRsp[1].id) BY <2>3, InsertPlacesAre DEF Among
  <2>5. insRsp[1].id = x BY <2>3, <2>4, <1>4 DEF OneInsert
  <2> QED BY <2>3, <2>5, <1>3, InsertPlacesAre DEF PlaceInv, Placed
<1> QED BY <1>5, <1>6 DEF QueryInv

\* An insert that the hash table does is the one that is being created.
LEMMA InsertIsAwaited ==
    ASSUME IInv, Inserts
    PROVE  /\ Head(updReq).id \in Ids /\ Head(updReq).tuple \in Tuples
           /\ Has(InsertedIds(updReq), Head(updReq).id)
           /\ Creating /\ Head(updReq).tuple = query.tuple /\ ~Creating'
<1> USE DEF IInv, FsmInv
<1> DEFINE u == Head(updReq)
<1>1. /\ updReq # <<>> /\ u \in Updates /\ updReq[1] = u /\ 1 \in DOMAIN updReq /\ u.op = "INSERT"
      /\ updReq \in Seq(Updates) /\ insReq \in Seq(Updates) /\ updReq' = Tail(updReq) /\ insReq' = insReq
  BY CamTakesFirst, QueuesAre DEF Inserts, CamUpdate
<1>2. u.id \in Ids /\ u.tuple \in Tuples /\ Has(InsertedIds(updReq), u.id) BY <1>1 DEF Updates, Has, InsertedIds
<1>3. Creating BY <1>2 DEF Creating
<1>4. fsm = "UPD_RSP" BY <1>3, CreatingWaits
<1>5. u.tuple = query.tuple BY <1>1, <1>4 DEF TupleInv, IsFor
<1>6. Among(Contents, InsertPlaces, u.id) BY <1>2, ContentsAre, InsertPlacesAre DEF Among
<1>7. ASSUME NEW x \in Ids, Has(IdsOf(insReq), x) PROVE FALSE
  <2>1. Among(Contents, InsertPlaces, x) BY <1>7, ContentsAre, InsertPlacesAre DEF Among
  <2>2. x = u.id BY <2>1, <1>2, <1>6 DEF OneInsert
  <2>3. Has(Contents["insReq"], u.id) /\ Has(Contents["updReq"], u.id) BY <2>2, <1>2, <1>7, ContentsAre
  <2> QED BY <2>3, <1>2, InsertPlacesAre DEF PlaceInv, Placed
<1>8. insReq = <<>>
  <2>1. ASSUME insReq # <<>> PROVE FALSE
    <3>1. 1 \in DOMAIN insReq /\ insReq[1] \in Updates BY <2>1, <1>1
    <3>2. insReq[1].id \in Ids /\ Has(IdsOf(insReq), insReq[1].id) BY <3>1 DEF Updates, Has, IdsOf
    <3> QED BY <3>2, <1>7
  <2> QED BY <2>1
<1>9. ASSUME NEW x \in Ids, Has(InsertedIds(Tail(updReq)), x) PROVE FALSE
  <2>1. Adds(InsertedIds(Tail(updReq)), InsertedIds(updReq), u.id, x) BY <1>1, IdsOfTail
  <2>2. Has(InsertedIds(updReq), x) BY <2>1, <1>9 DEF Adds
  <2>3. Among(Contents, InsertPlaces, x) BY <2>2, ContentsAre, InsertPlacesAre DEF Among
  <2>4. x = u.id BY <2>3, <1>2, <1>6 DEF OneInsert
  <2>5. Once(InsertedIds(updReq), x) BY ContentsAre, InsertPlacesAre DEF PlaceInv, Placed
  <2> QED BY <2>1, <2>4, <2>5, <1>9 DEF Adds
<1>10. ~Creating' BY <1>1, <1>8, <1>9 DEF Creating, Has, InsertedIds
<1> QED BY <1>2, <1>3, <1>5, <1>10

\* Only lookupReplyHandler starts to create a session.
LEMMA CreatingStarts ==
    ASSUME IInv, [Next]_vars, Creating', ~LupRspCreate
    PROVE  Creating
<1>0. TypeOK BY DEF IInv
<1>1. updReq \in Seq(Updates) /\ delReq \in Seq(Updates) BY <1>0, QueuesAre
<1>2. insReq' # <<>> \/ \E x \in Ids : Has(InsertedIds(updReq'), x) BY DEF Creating, Has, InsertedIds
<1>3. CASE SendInsert BY <1>3 DEF SendInsert, Creating
<1>4. CASE SendDelete
  <2>1. delReq # <<>> /\ updReq' = Append(updReq, Head(delReq)) /\ insReq' = insReq BY <1>4 DEF SendDelete
  <2>2. Head(delReq) \in Updates /\ Head(delReq).op # "INSERT" BY <2>1, <1>1, FirstOf, StaysOnly DEF IInv, FsmInv, OpsInv
  <2>3. ASSUME NEW x \in Ids, Has(InsertedIds(updReq'), x) PROVE Has(InsertedIds(updReq), x)
    <3>1. Adds(InsertedIds(updReq), InsertedIds(Append(updReq, Head(delReq))), IF Head(delReq).op = "INSERT" THEN Head(delReq).id ELSE None, x)
      BY <2>2, <1>1, IdsOfAppend
    <3>2. x # None BY NoneAssumption DEF Ids
    <3> QED BY <3>1, <3>2, <2>1, <2>2, <2>3 DEF Adds
  <2> QED BY <2>1, <2>3, <1>2 DEF Creating
<1>5. CASE CamUpdate(NextUpdate)
  <2>1. updReq # <<>> /\ updReq' = Tail(updReq) /\ insReq' = insReq BY <1>0, <1>5, CamTakesFirst DEF CamUpdate
  <2>2. ASSUME NEW x \in Ids, Has(InsertedIds(updReq'), x) PROVE Has(InsertedIds(updReq), x)
    <3>1. Adds(InsertedIds(Tail(updReq)), InsertedIds(updReq), IF Head(updReq).op = "INSERT" THEN Head(updReq).id ELSE None, x)
      BY <2>1, <1>1, IdsOfTail
    <3> QED BY <3>1, <2>1, <2>2 DEF Adds
  <2> QED BY <2>1, <2>2, <1>2 DEF Creating
<1>6. CASE ~SendInsert /\ ~SendDelete /\ ~CamUpdate(NextUpdate)
  <2>1. insReq' = insReq /\ updReq' = updReq
    BY <1>6 DEF Next, vars, fifos, RecycleId, NewId, LupReq, LupRspReply, UpdRsp, UpdateReply,
                RevInsert, RevRelease, RevLookup, CamLookup
  <2> QED BY <2>1, <1>2 DEF Creating
<1> QED BY <1>3, <1>4, <1>5, <1>6

\* A query stays while it is answered.
LEMMA QueryStays ==
    ASSUME IInv, [Next]_vars, Wanted, lup'.st = "miss" \/ Creating
    PROVE  query' = query
<1>1. CASE Creating
  <2>1. fsm = "UPD_RSP" /\ ~UpdRsp BY <1>1, CreatingWaits
  <2> QED BY <2>1 DEF Next, vars, fsmVars, RecycleId, NewId, LupReq, LupRspCreate, LupRspReply, SendInsert, SendDelete,
                      UpdateReply, RevInsert, RevRelease, RevLookup, CamLookup, CamUpdate
<1>2. CASE ~Creating
  <2>1. fsm = "LUP_RSP" /\ lup'.st = "miss" BY <1>2 DEF Wanted, IInv, FsmInv, QueryInv
  <2> QED BY <2>1 DEF Next, vars, fsmVars, RecycleId, NewId, LupReq, LupRspCreate, LupRspReply, UpdRsp, SendInsert, SendDelete,
                      UpdateReply, RevInsert, RevRelease, RevLookup, CamLookup, CamUpdate, Lookup
<1> QED BY <1>1, <1>2

LEMMA CamIsKept ==
    ASSUME IInv, [Next]_vars
    PROVE  CamInv'
<1>0. TypeOK /\ TypeOK' /\ PlaceInv /\ DeleteInv BY TypesAreKept DEF IInv
<1>1. cam \in [Tuples -> Ids \cup {None}] /\ cam' \in [Tuples -> Ids \cup {None}] /\ None \notin Ids
  <2>1. cam \in [Tuples -> Ids \cup {None}] BY <1>0 DEF TypeOK
  <2>2. cam' \in [Tuples -> Ids \cup {None}] BY <1>0 DEF TypeOK
  <2>3. None \notin Ids BY NoneAssumption DEF Ids
  <2> QED BY <2>1, <2>2, <2>3
<1>2. /\ \A x \in Ids, t \in Tuples : cam[t] = x => Stored(x, t)
      /\ ~dropped => \A x \in Ids, t \in Tuples : Stored(x, t) => cam[t] = x
      /\ ~dropped /\ Wanted => cam[query.tuple] = None
  BY DEF IInv, CamInv
<1> DEFINE u == Head(updReq)
<1>3. Deletes => u.id \in Ids /\ u.tuple \in Tuples /\ Stored(u.id, u.tuple)
  <2>1. ASSUME Deletes PROVE u.id \in Ids /\ u.tuple \in Tuples /\ Stored(u.id, u.tuple)
    <3>1. u \in Updates /\ updReq[1] = u /\ 1 \in DOMAIN updReq /\ u.op = "DELETE" BY <2>1, <1>0, CamTakesFirst DEF Deletes
    <3>2. Told(updReq, "DELETE", u.id, u.tuple) BY <3>1 DEF Told
    <3> QED BY <3>1, <3>2, OwnedIs DEF Updates
  <2> QED BY <2>1
<1>4. Inserts => u.id \in Ids /\ u.tuple \in Tuples /\ u.tuple = query.tuple /\ Creating /\ ~Creating'
  BY InsertIsAwaited
<1> HIDE DEF u
<1>5. /\ ~Inserts /\ ~Deletes => cam' = cam /\ dropped' = dropped
      /\ Deletes => cam' = [cam EXCEPT ![u.tuple] = None] /\ dropped' = dropped
      /\ Inserts => \/ cam' = [cam EXCEPT ![u.tuple] = u.id] /\ dropped' = dropped
                    \/ dropped' /\ \E t \in Tuples : cam' = [cam EXCEPT ![u.tuple] = u.id, ![t] = None]
  BY CamChanges DEF u
<1>6. ASSUME NEW CONSTANT x \in Ids, NEW CONSTANT t \in Tuples
      PROVE  /\ Inserts => (Stored(x, t)' <=> Stored(x, t) \/ (u.id = x /\ u.tuple = t))
             /\ Deletes => (Stored(x, t)' <=> Stored(x, t) /\ x # u.id)
             /\ ~Inserts /\ ~Deletes => (Stored(x, t)' <=> Stored(x, t))
  <2>1. Inserts => (Matches(Head(updReq), "INSERT", x, t) <=> u.id = x /\ u.tuple = t) BY DEF Matches, Inserts, u
  <2> QED BY <2>1, <1>6, StoredChanges DEF u
<1>7. ASSUME NEW CONSTANT x \in Ids, NEW CONSTANT t \in Tuples, cam'[t] = x PROVE Stored(x, t)'
  <2>1. CASE ~Inserts /\ ~Deletes BY <2>1, <1>2, <1>5, <1>6, <1>7
  <2>2. CASE Deletes
    <3>1. t # u.tuple /\ cam[t] = x BY <2>2, <1>1, <1>3, <1>5, <1>7
    <3>2. Stored(x, t) BY <3>1, <1>2
    <3>3. x # u.id BY <3>1, <3>2, <2>2, <1>0, <1>3, StoredForOne
    <3> QED BY <3>2, <3>3, <2>2, <1>6
  <2>3. CASE Inserts
    <3>1. cam[t] = x \/ (u.id = x /\ u.tuple = t) BY <2>3, <1>1, <1>4, <1>5, <1>7
    <3> QED BY <3>1, <2>3, <1>2, <1>6
  <2> QED BY <2>1, <2>2, <2>3
<1>8. ASSUME ~dropped', NEW CONSTANT x \in Ids, NEW CONSTANT t \in Tuples, Stored(x, t)' PROVE cam'[t] = x
  <2>1. CASE ~Inserts /\ ~Deletes BY <2>1, <1>2, <1>5, <1>6, <1>8
  <2>2. CASE Deletes
    <3>1. ~dropped /\ Stored(x, t) /\ x # u.id BY <2>2, <1>5, <1>6, <1>8
    <3>2. cam[t] = x /\ cam[u.tuple] = u.id BY <3>1, <2>2, <1>2, <1>3
    <3> QED BY <3>1, <3>2, <2>2, <1>1, <1>3, <1>5
  <2>3. CASE Inserts
    <3>1. ~dropped /\ cam' = [cam EXCEPT ![u.tuple] = u.id] BY <2>3, <1>5, <1>8
    <3>2. cam[u.tuple] = None BY <3>1, <2>3, <1>2, <1>4 DEF Wanted
    <3>3. cam[t] = x \/ (u.id = x /\ u.tuple = t) BY <3>1, <2>3, <1>2, <1>6, <1>8
    <3> QED BY <3>1, <3>2, <3>3, <2>3, <1>1, <1>4
  <2> QED BY <2>1, <2>2, <2>3
<1>9. ASSUME ~dropped', Wanted' PROVE cam'[query'.tuple] = None
  <2>1. ~dropped BY <1>5, <1>9, <1>0 DEF TypeOK
  <2>2. lup'.st = "miss" \/ Creating' BY <1>9 DEF Wanted
  <2>3. ASSUME cam[query'.tuple] = None, query'.tuple \in Tuples, ~Inserts PROVE cam'[query'.tuple] = None
    BY <2>3, <1>1, <1>3, <1>5
  <2>4. query' \in Queries
    <3>1. fsm' # "LUP_REQ"
      <4>1. lup'.st = "miss" => fsm' = "LUP_RSP" BY QueryIsKept DEF QueryInv
      <4>2. ASSUME Creating' PROVE fsm' # "LUP_REQ"
        <5>1. CASE LupRspCreate BY <5>1 DEF LupRspCreate
        <5>2. CASE ~LupRspCreate
          <6>1. fsm = "UPD_RSP" /\ ~UpdRsp BY <4>2, <5>2, CreatingStarts, CreatingWaits
          <6> QED BY <6>1 DEF Next, vars, fsmVars, RecycleId, NewId, LupReq, LupRspCreate, LupRspReply, SendInsert,
                          SendDelete, UpdateReply, RevInsert, RevRelease, RevLookup, CamLookup, CamUpdate
        <5> QED BY <5>1, <5>2
      <4> QED BY <4>1, <4>2, <2>2
    <3> QED BY <3>1, QueryIsKept DEF QueryInv
  <2>5. query'.tuple \in Tuples BY <2>4 DEF Queries
  <2>6. ~Inserts
    <3>1. ASSUME Inserts PROVE FALSE
      <4>1. Creating /\ ~Creating' BY <3>1, <1>4
      <4>2. lup.st = "none" BY <4>1, CreatingWaits
      <4>3. lup' = lup BY <3>1 DEF Inserts, CamUpdate, fsmVars
      <4> QED BY <4>1, <4>2, <4>3, <2>2
    <3> QED BY <3>1
  <2>7. CASE Wanted /\ (lup'.st = "miss" \/ Creating)
    BY <2>1, <2>3, <2>5, <2>6, <2>7, <1>2, QueryStays
  <2>8. CASE LupRspCreate
    <3>1. Wanted /\ query' = query BY <2>8 DEF LupRspCreate, Creates, Wanted
    <3> QED BY <3>1, <2>1, <2>3, <2>5, <2>6, <1>2
  <2>9. CASE ~Wanted /\ ~LupRspCreate
    <3>1. lup'.st = "miss" /\ lup.st # "miss" BY <2>2, <2>9, CreatingStarts DEF Wanted
    <3>2. CamLookup
      BY <3>1 DEF Next, vars, fsmVars, RecycleId, NewId, LupReq, LupRspCreate, LupRspReply, UpdRsp, SendInsert,
                  SendDelete, UpdateReply, RevInsert, RevRelease, RevLookup, CamUpdate, Lookup
    <3>3. query' = query /\ cam[query.tuple] = None BY <3>1, <3>2 DEF CamLookup, Lookup
    <3> QED BY <3>3, <2>3, <2>5, <2>6
  <2> QED BY <2>2, <2>7, <2>8, <2>9, CreatingStarts DEF Wanted
<1>10. CamInv' <=> /\ \A x \in Ids, t \in Tuples : cam'[t] = x => Stored(x, t)'
                   /\ ~dropped' => \A x \in Ids, t \in Tuples : Stored(x, t)' => cam'[t] = x
                   /\ ~dropped' /\ Wanted' => cam'[query'.tuple] = None
  BY DEF CamInv
<1> QED BY <1>7, <1>8, <1>9, <1>10

-----------------------------------------------------------------------------
(* Owners                                                                  *)

LEMMA OwnersAreKept ==
    ASSUME IInv, [Next]_vars
    PROVE  OwnerInv'
<1>0. TypeOK /\ TypeOK' /\ PlaceInv /\ DeleteInv BY TypesAreKept DEF IInv
<1>1. /\ owner \in [Ids -> Tuples \cup {None}] /\ rev \in [Ids -> Tuples \cup {None}]
      /\ valid \in [Ids -> BOOLEAN] /\ insRsp \in Seq(Updates) /\ revIns \in Seq(Entries)
  BY <1>0, QueuesAre DEF TypeOK
<1>2. /\ \A x \in Ids, t \in Tuples : Owned(x, t) => owner[x] = t
      /\ \A x \in Ids : valid[x] => rev[x] # None
      /\ \A x \in Ids : owner[x] # None /\ ~Has(IdsOf(revIns), x) => rev[x] = owner[x]
      /\ lup.st = "hit" => owner[lup.id] = query.tuple
  BY DEF IInv, OwnerInv
<1>3. ~UpdRsp => owner' = owner
  BY DEF Next, vars, fsmVars, RecycleId, NewId, LupReq, LupRspCreate, LupRspReply, SendInsert,
         SendDelete, UpdateReply, RevInsert, RevRelease, RevLookup, CamLookup, CamUpdate
<1> DEFINE v == Head(insRsp).id
           r == [id |-> v, tuple |-> query.tuple]
<1>4. ASSUME UpdRsp
      PROVE  /\ owner' = [owner EXCEPT ![v] = query.tuple]
             /\ v \in Ids /\ query.tuple \in Tuples /\ Told(insRsp, "INSERT", v, Head(insRsp).tuple)
             /\ r \in Entries /\ revIns' = Append(revIns, r) /\ rev' = rev /\ fsm = "UPD_RSP"
  <2>1. /\ insRsp # <<>> /\ fsm = "UPD_RSP" /\ revIns' = Append(revIns, r) /\ rev' = rev
        /\ owner' = [owner EXCEPT ![v] = query.tuple]
    BY <1>4 DEF UpdRsp, revVars
  <2>2. Head(insRsp) \in Updates /\ 1 \in DOMAIN insRsp /\ insRsp[1] = Head(insRsp) BY <2>1, <1>1, FirstOf
  <2>3. Head(insRsp).op = "INSERT" BY <2>2 DEF IInv, FsmInv, OpsInv, OnlyOp
  <2>4. query \in Queries BY <2>1 DEF IInv, FsmInv, QueryInv
  <2>5. Told(insRsp, "INSERT", v, Head(insRsp).tuple) BY <2>2, <2>3 DEF Told
  <2> QED BY <2>1, <2>2, <2>4, <2>5 DEF Updates, Queries, Entries
<1> HIDE DEF v, r
<1>5. ASSUME NEW CONSTANT x \in Ids, NEW CONSTANT t \in Tuples, Owned(x, t)' PROVE owner'[x] = t
  <2>1. CASE UpdRsp
    <3>1. Owned(x, t) \/ (v = x /\ query.tuple = t) BY <2>1, <1>5, OwnedChanges DEF v
    <3>2. v = x => ~Owned(x, t)
      <4>1. ASSUME v = x, Owned(x, t) PROVE FALSE
        <5>1. By("insRsp", x, Head(insRsp).tuple) BY <4>1, <2>1, <1>4, ByWays
        <5>2. PICK way \in Ways : way # "insRsp" /\ By(way, x, t) BY <4>1, ByWays DEF Owned, Ways
        <5> QED BY <5>1, <5>2, <1>0, OneWay DEF Ways
      <4> QED BY <4>1
    <3> QED BY <3>1, <3>2, <2>1, <1>1, <1>2, <1>4
  <2>2. CASE ~UpdRsp
    <3>1. Owned(x, t) BY <2>2, <1>5, OwnedChanges
    <3> QED BY <3>1, <2>2, <1>2, <1>3
  <2> QED BY <2>1, <2>2
<1>6. ASSUME NEW x \in Ids, valid'[x] PROVE rev'[x] # None
  <2>1. CASE RevInsert
    <3>1. /\ revIns # <<>> /\ rev' = [rev EXCEPT ![Head(revIns).id] = Head(revIns).tuple]
          /\ valid' = [valid EXCEPT ![Head(revIns).id] = TRUE]
      BY <2>1 DEF RevInsert
    <3>2. Head(revIns).id \in Ids /\ Head(revIns).tuple \in Tuples BY <3>1, <1>0, EnteredAreOut
    <3> QED BY <3>1, <3>2, <1>1, <1>2, <1>6, NoneAssumption
  <2>2. CASE \E id \in Ids : RevRelease(id)
    <3>1. PICK id \in Ids : valid' = [valid EXCEPT ![id] = FALSE] /\ rev' = rev BY <2>2 DEF RevRelease
    <3> QED BY <3>1, <1>1, <1>2, <1>6
  <2>3. CASE ~RevInsert /\ ~\E id \in Ids : RevRelease(id)
    <3>1. valid' = valid /\ rev' = rev
      BY <2>3 DEF Next, vars, revVars, RecycleId, NewId, LupReq, LupRspCreate, LupRspReply, UpdRsp, SendInsert,
                  SendDelete, UpdateReply, RevLookup, CamLookup, CamUpdate
    <3> QED BY <3>1, <1>2, <1>6
  <2> QED BY <2>1, <2>2, <2>3
<1>7. ASSUME NEW x \in Ids, owner'[x] # None, ~Has(IdsOf(revIns'), x) PROVE rev'[x] = owner'[x]
  <2>1. CASE UpdRsp
    <3>1. Adds(IdsOf(revIns), IdsOf(Append(revIns, r)), r.id, x) BY <2>1, <1>1, <1>4, IdsOfAppend
    <3>2. ~Has(IdsOf(revIns), x) /\ x # v BY <3>1, <2>1, <1>4, <1>7 DEF Adds, r
    <3> QED BY <3>2, <2>1, <1>1, <1>2, <1>4, <1>7
  <2>2. CASE RevInsert
    <3>1. /\ revIns # <<>> /\ revIns' = Tail(revIns) /\ owner' = owner
          /\ rev' = [rev EXCEPT ![Head(revIns).id] = Head(revIns).tuple]
      BY <2>2 DEF RevInsert, fsmVars
    <3>2. Head(revIns).id \in Ids /\ Head(revIns).tuple \in Tuples BY <3>1, <1>0, EnteredAreOut
    <3>3. Adds(IdsOf(Tail(revIns)), IdsOf(revIns), Head(revIns).id, x) BY <3>1, <1>1, IdsOfTail
    <3>4. Entered(Head(revIns).id, Head(revIns).tuple)
      <4>1. 1 \in DOMAIN revIns /\ revIns[1] = Head(revIns) BY <3>1, <1>1, FirstOf
      <4> QED BY <4>1 DEF Entered, EnteredIn
    <3>5. owner[Head(revIns).id] = Head(revIns).tuple BY <3>2, <3>4, <1>2 DEF Owned
    <3>6. CASE x = Head(revIns).id BY <3>1, <3>2, <3>5, <3>6, <1>1
    <3>7. CASE x # Head(revIns).id
      <4>1. ~Has(IdsOf(revIns), x) BY <3>1, <3>3, <3>7, <1>7 DEF Adds
      <4> QED BY <4>1, <3>1, <3>7, <1>1, <1>2, <1>7
    <3> QED BY <3>6, <3>7
  <2>3. CASE ~UpdRsp /\ ~RevInsert
    <3>1. revIns' = revIns /\ rev' = rev
      BY <2>3 DEF Next, vars, fifos, revVars, RecycleId, NewId, LupReq, LupRspCreate, LupRspReply, SendInsert,
                  SendDelete, UpdateReply, RevRelease, RevLookup, CamLookup, CamUpdate
    <3> QED BY <3>1, <2>3, <1>2, <1>3, <1>7
  <2> QED BY <2>1, <2>2, <2>3
<1>8. ASSUME lup'.st = "hit" PROVE owner'[lup'.id] = query'.tuple
  <2>1. CASE CamLookup
    <3>1. /\ lup.st = "asked" /\ cam[query.tuple] # None /\ lup'.id = cam[query.tuple] /\ query' = query /\ owner' = owner
      BY <2>1, <1>8 DEF CamLookup, Lookup
    <3>2. fsm = "LUP_RSP" /\ query \in Queries BY <3>1 DEF IInv, FsmInv, QueryInv
    <3>3. query.tuple \in Tuples /\ cam[query.tuple] \in Ids BY <3>1, <3>2, <1>0 DEF TypeOK, Queries
    <3>4. Stored(cam[query.tuple], query.tuple) BY <3>3 DEF IInv, CamInv
    <3>5. ~Pending(cam[query.tuple], query.tuple)
      <4>1. ASSUME Pending(cam[query.tuple], query.tuple) PROVE FALSE
        <5>1. Has(Contents["updRsp"], cam[query.tuple]) \/ Has(Contents["insRsp"], cam[query.tuple])
          BY <4>1, <3>3, <1>0, WhereStored DEF Pending
        <5>2. Among(Contents, InsertPlaces, cam[query.tuple]) BY <5>1, InsertPlacesAre DEF Among
        <5> QED BY <5>2, <3>2, <3>3 DEF IInv, FsmInv, OneInsert
      <4> QED BY <4>1
    <3>6. Owned(cam[query.tuple], query.tuple) BY <3>4, <3>5, OwnedIs
    <3> QED BY <3>1, <3>3, <3>6, <1>2
  <2>2. CASE ~CamLookup
    <3>1. lup' = lup
      BY <1>8, <2>2 DEF Next, vars, fsmVars, RecycleId, NewId, LupReq, LupRspCreate, LupRspReply, UpdRsp, SendInsert,
                  SendDelete, UpdateReply, RevInsert, RevRelease, RevLookup, CamUpdate, Lookup
    <3>2. fsm = "LUP_RSP" BY <3>1, <1>8 DEF IInv, FsmInv, QueryInv
    <3>3. query' = query /\ owner' = owner
      BY <3>1, <3>2, <1>8 DEF Next, vars, fsmVars, RecycleId, NewId, LupReq, LupRspCreate, LupRspReply, UpdRsp, SendInsert,
                  SendDelete, UpdateReply, RevInsert, RevRelease, RevLookup, CamLookup, CamUpdate, Lookup
    <3> QED BY <3>1, <3>3, <1>2, <1>8
  <2> QED BY <2>1, <2>2
<1>9. OwnerInv' <=> /\ \A x \in Ids, t \in Tuples : Owned(x, t)' => owner'[x] = t
                    /\ \A x \in Ids : valid'[x] => rev'[x] # None
                    /\ \A x \in Ids : owner'[x] # None /\ ~Has(IdsOf(revIns'), x) => rev'[x] = owner'[x]
                    /\ lup'.st = "hit" => owner'[lup'.id] = query'.tuple
  BY DEF OwnerInv, Has, IdsOf
<1> QED BY <1>5, <1>6, <1>7, <1>8, <1>9

-----------------------------------------------------------------------------
(* The invariant                                                           *)

LEMMA InitInv == Init => IInv
<1> SUFFICES ASSUME Init PROVE IInv OBVIOUS
<1> USE DEF Init
<1>1. MaxSessions \in Nat /\ MaxSessions > 0 /\ 0 \notin 0 .. 0 - 1 BY MaxSessionsAssumption
<1>2. TypeOK
  <2>1. freeList \in Seq(Ids) /\ finFifo \in Seq(Ids) /\ revIns \in Seq([id : Ids, tuple : Tuples]) OBVIOUS
  <2>2. {insReq, delReq, updReq, updRsp, insRsp} \subseteq Seq(Updates) OBVIOUS
  <2>3. lup \in Lookups BY DEF Lookups, Lookup
  <2>4. counter \in 0 .. MaxSessions /\ used \in Nat BY <1>1
  <2>5. cam \in [Tuples -> Ids \cup {None}] /\ dropped \in BOOLEAN /\ rev \in [Ids -> Tuples \cup {None}] OBVIOUS
  <2>6. valid \in [Ids -> BOOLEAN] /\ owner \in [Ids -> Tuples \cup {None}] OBVIOUS
  <2>7. fsm \in {"LUP_REQ", "LUP_RSP", "UPD_RSP"} /\ query \in Queries \cup {None} OBVIOUS
  <2> QED BY <2>1, <2>2, <2>3, <2>4, <2>5, <2>6, <2>7 DEF TypeOK
<1>3. \A q : q = <<>> => IdsOf(q) = <<>> /\ InsertedIds(q) = <<>> BY DEF IdsOf, InsertedIds
<1>4. \A p \in Places, x \in Ids : ~Has(Contents[p], x)
  <2>1. \A x : ~Has(<<>>, x) BY DEF Has
  <2>2. \A x \in Ids : ~Has(Contents["table"], x) BY <1>2, TableHas
  <2> QED BY <2>1, <2>2, <1>3, ContentsAre DEF Places
<1>5. \A P \in SUBSET Places, x \in Ids : ~Among(Contents, P, x) BY <1>4 DEF Among
<1>6. PlaceInv
  <2>1. \A x \in Ids : ~(x < counter) BY <1>1 DEF Ids
  <2>2. \A p \in Places, x \in Ids : Once(Contents[p], x) BY <1>4 DEF Once, Has
  <2> QED BY <2>1, <2>2, <1>4, <1>5 DEF PlaceInv, Placed
<1>7. UsedIsExact
  <2>1. InUse = {} BY <1>5, InUseIs
  <2> QED BY <2>1, FS_EmptySet DEF UsedIsExact
<1>8. FsmInv
  <2>1. OneInsert BY <1>5, InsertPlacesAre DEF OneInsert
  <2> QED BY <2>1 DEF FsmInv, QueryInv, OpsInv, OnlyOp, TupleInv, Lookup
<1>9. DeleteInv BY DEF DeleteInv
<1>10. \A x \in Ids, t \in Tuples : ~Stored(x, t) /\ ~Owned(x, t)
  <2>1. \A x, t, op : ~Told(<<>>, op, x, t) BY DEF Told
  <2>2. \A x, t : ~EnteredIn(<<>>, x, t) BY DEF EnteredIn
  <2> QED BY <2>1, <2>2 DEF Stored, Owned, Entered
<1>11. CamInv
  <2>1. \A x \in Ids : x # None BY NoneAssumption DEF Ids
  <2>2. ~Wanted BY <1>3 DEF Wanted, Creating, Lookup, Has
  <2> QED BY <2>1, <2>2, <1>10 DEF CamInv
<1>12. OwnerInv BY <1>10 DEF OwnerInv, Lookup
<1> QED BY <1>2, <1>6, <1>7, <1>8, <1>9, <1>11, <1>12 DEF IInv

LEMMA NextInv == IInv /\ [Next]_vars => IInv'
<1> SUFFICES ASSUME IInv, [Next]_vars PROVE IInv' OBVIOUS
<1>1. TypeOK' BY TypesAreKept
<1>2. PlaceInv' BY PlacesAreKept DEF IInv
<1>3. UsedIsExact' BY UsedIsKept
<1>4. FsmInv' BY QueryIsKept, OpsAreKept, InsertsAreKept, TuplesAreKept DEF FsmInv
<1>5. DeleteInv' BY DeletesAreKept
<1>6. CamInv' BY CamIsKept
<1>7. OwnerInv' BY OwnersAreKept
<1> QED BY <1>1, <1>2, <1>3, <1>4, <1>5, <1>6, <1>7 DEF IInv

LEMMA Invariance == Spec => []IInv
BY InitInv, NextInv, PTL DEF Spec

-----------------------------------------------------------------------------
(* Theorems                                                                *)

\* The variables keep their types.
THEOREM TypeCorrect == Spec => []TypeOK
<1>1. IInv => TypeOK BY DEF IInv
<1> QED BY <1>1, Invariance, PTL

LEMMA PlacedIsLocated ==
    ASSUME PlaceInv, counter \in Nat
    PROVE  EveryIdInOnePlace
<1>1. DOMAIN Contents = Places BY DEF Contents, Places
<1>2. ASSUME NEW x \in Ids
      PROVE  Cardinality(Locations(x)) = IF x < counter THEN 1 ELSE 0
  <2>1. /\ \A pi \in Locations(x) : \E p \in Places : \E i \in DOMAIN Contents[p] : pi = <<p, i>> /\ Contents[p][i] = x
        /\ \A p \in Places : \A i \in DOMAIN Contents[p] : Contents[p][i] = x => <<p, i>> \in Locations(x)
    <3>1. ASSUME NEW pi \in Locations(x)
          PROVE  \E p \in Places : \E i \in DOMAIN Contents[p] : pi = <<p, i>> /\ Contents[p][i] = x
      <4>1. PICK p \in Places : pi \in {<<p, i>> : i \in DOMAIN Contents[p]} BY <3>1, <1>1 DEF Locations
      <4>2. PICK i \in DOMAIN Contents[p] : pi = <<p, i>> BY <4>1
      <4>3. Contents[pi[1]][pi[2]] = x BY <3>1 DEF Locations
      <4> QED BY <4>2, <4>3
    <3>2. ASSUME NEW p \in Places, NEW i \in DOMAIN Contents[p], Contents[p][i] = x PROVE <<p, i>> \in Locations(x)
      <4>1. <<p, i>> \in UNION {{<<q, j>> : j \in DOMAIN Contents[q]} : q \in DOMAIN Contents} BY <1>1
      <4> QED BY <4>1, <3>2 DEF Locations
    <3> QED BY <3>1, <3>2
  <2>2. CASE x < counter
    <3>1. PICK p \in Places : Has(Contents[p], x) BY <2>2 DEF PlaceInv, Among
    <3>2. PICK i \in DOMAIN Contents[p] : Contents[p][i] = x BY <3>1 DEF Has
    <3>3. ASSUME NEW pi \in Locations(x) PROVE pi = <<p, i>>
      <4>1. PICK q \in Places : \E j \in DOMAIN Contents[q] : pi = <<q, j>> /\ Contents[q][j] = x BY <2>1
      <4>2. q = p BY <4>1, <3>1 DEF Has, PlaceInv, Placed
      <4> QED BY <4>1, <4>2, <3>2 DEF PlaceInv, Placed, Once
    <3>4. Locations(x) = {<<p, i>>} BY <3>2, <3>3, <2>1
    <3> QED BY <3>4, <2>2, FS_Singleton
  <2>3. CASE ~(x < counter)
    <3>1. \A p \in Places : ~Has(Contents[p], x) BY <2>3 DEF PlaceInv, Among
    <3>2. Locations(x) = {} BY <3>1, <2>1 DEF Has
    <3> QED BY <3>2, <2>3, FS_EmptySet
  <2> QED BY <2>2, <2>3
<1> QED BY <1>2 DEF EveryIdInOnePlace

\* Every identifier that was ever made is in exactly one place: it is never lost,
\* and never given to two sessions.
THEOREM IdsAreInOnePlace == Spec => []EveryIdInOnePlace
<1>1. IInv => EveryIdInOnePlace BY PlacedIsLocated DEF IInv, TypeOK
<1> QED BY <1>1, Invariance, PTL

\* regSessionCount is the number of sessions in use, and never runs below 0.
THEOREM CountIsExact == Spec => []UsedIsExact
<1>1. IInv => UsedIsExact BY DEF IInv
<1> QED BY <1>1, Invariance, PTL

\* No two tuples have the same identifier in the hash table, and what it has of a
\* tuple is the session that is being created, lives, or is being deleted.
THEOREM TableIsExact == Spec => []CamIsExact
<1>1. ASSUME IInv PROVE CamIsExact
  <2> USE <1>1 DEF IInv
  <2>1. cam \in [Tuples -> Ids \cup {None}] BY DEF TypeOK
  <2>2. \A t \in Tuples : cam[t] # None => cam[t] \in Ids /\ Stored(cam[t], t) BY <2>1 DEF CamInv
  <2>3. CamIsInjective
    <3> SUFFICES ASSUME NEW t1 \in Tuples, NEW t2 \in Tuples, cam[t1] # None, cam[t1] = cam[t2] PROVE t1 = t2
      BY DEF CamIsInjective
    <3>1. cam[t1] \in Ids /\ Stored(cam[t1], t1) /\ Stored(cam[t1], t2) BY <2>2
    <3> QED BY <3>1, StoredForOne
  <2>4. CamMatchesReverse
    <3> SUFFICES ASSUME NEW t \in Tuples, cam[t] # None
                 PROVE  \/ valid[cam[t]] /\ rev[cam[t]] = t
                        \/ \E q \in {delReq, updReq, updRsp, insRsp, revIns} : \E i \in DOMAIN q :
                                q[i].id = cam[t] /\ q[i].tuple = t
      BY DEF CamMatchesReverse
    <3>1. Stored(cam[t], t) BY <2>2
    <3> QED BY <3>1 DEF Stored, Owned, Entered, EnteredIn, Told
  <2> QED BY <2>3, <2>4 DEF CamIsExact
<1> QED BY <1>1, Invariance, PTL

\* As long as no insert fails, a live session is found by its tuple.
THEOREM SessionsAreFound == Spec => []LiveSessionsAreFound
<1>1. ASSUME IInv, ~dropped, NEW x \in Ids, valid[x] PROVE cam[rev[x]] = x
  <2>1. rev[x] \in Tuples BY <1>1 DEF IInv, TypeOK, OwnerInv
  <2>2. Stored(x, rev[x]) BY <1>1 DEF Stored, Owned
  <2> QED BY <2>1, <2>2, <1>1 DEF IInv, CamInv
<1>2. IInv => LiveSessionsAreFound BY <1>1 DEF LiveSessionsAreFound
<1> QED BY <1>2, Invariance, PTL

\* A lookup in either direction names the session that its tuple was given last,
\* and the tuple that its session was given last.
THEOREM LookupsNameTheOwner == Spec => LookupsAreCurrent
<1> DEFINE Rev == revOut' \notin {revOut, None} /\ revOut'.to = "txEng" => revOut'.tuple = owner[revOut'.id]
           Hit == answer' \notin {answer, None} /\ answer'.id # None => owner'[answer'.id] = answer'.tuple
<1>1. ASSUME IInv, [Next]_vars PROVE Rev
  <2>1. SUFFICES ASSUME revOut' \notin {revOut, None}, revOut'.to = "txEng" PROVE revOut'.tuple = owner[revOut'.id]
    OBVIOUS
  <2>2. (\E id \in Ids : RevRelease(id)) \/ (\E id \in Ids : RevLookup(id))
    BY <1>1, <2>1 DEF Next, vars, extVars, RecycleId, NewId, LupReq, LupRspCreate, LupRspReply, UpdRsp, SendInsert,
                      SendDelete, UpdateReply, RevInsert, CamLookup, CamUpdate
  <2>3. ASSUME NEW id \in Ids, RevRelease(id) PROVE FALSE
    BY <2>1, <2>3 DEF RevRelease, Output
  <2>4. ASSUME NEW id \in Ids, RevLookup(id) PROVE revOut'.tuple = owner[revOut'.id]
    <3>1. revIns = <<>> /\ owner[id] # None /\ revOut' = [to |-> "txEng", id |-> id, tuple |-> rev[id]]
      BY <2>4 DEF RevLookup, InsertsFirst, Known, Output
    <3>2. ~Has(IdsOf(revIns), id) BY <3>1 DEF Has, IdsOf
    <3> QED BY <3>1, <3>2, <1>1 DEF IInv, OwnerInv
  <2> QED BY <2>2, <2>3, <2>4
<1>2. ASSUME IInv, [Next]_vars PROVE Hit
  <2>1. SUFFICES ASSUME answer' \notin {answer, None}, answer'.id # None PROVE owner'[answer'.id] = answer'.tuple
    OBVIOUS
  <2>2. LupRspReply \/ UpdRsp
    BY <1>2, <2>1 DEF Next, vars, extVars, RecycleId, NewId, LupReq, LupRspCreate, SendInsert,
                      SendDelete, UpdateReply, RevInsert, RevRelease, RevLookup, CamLookup, CamUpdate
  <2>3. CASE LupRspReply
    <3>1. answer' = [source |-> query.source, tuple |-> query.tuple, id |-> lup.id] /\ owner' = owner
      BY <2>3 DEF LupRspReply, Answer
    <3>2. lup.st = "hit" BY <3>1, <2>1, <1>2 DEF IInv, FsmInv, QueryInv
    <3> QED BY <3>1, <3>2, <1>2 DEF IInv, OwnerInv
  <2>4. CASE UpdRsp
    <3>1. /\ insRsp # <<>> /\ owner' = [owner EXCEPT ![Head(insRsp).id] = query.tuple]
          /\ answer'.id = Head(insRsp).id /\ answer'.tuple = query.tuple
      BY <2>4 DEF UpdRsp, Answer
    <3>2. Head(insRsp).id \in Ids
      <4>1. insRsp \in Seq(Updates) BY <1>2, QueuesAre DEF IInv
      <4>2. Head(insRsp) \in Updates BY <4>1, <3>1, FirstOf
      <4> QED BY <4>2 DEF Updates
    <3> QED BY <3>1, <3>2, <1>2 DEF IInv, TypeOK
  <2> QED BY <2>2, <2>3, <2>4
<1>3. Spec => [][Rev]_vars BY <1>1, Invariance, PTL DEF Spec
<1>4. Spec => [][Hit]_vars BY <1>2, Invariance, PTL DEF Spec
<1>5. LookupsAreCurrent <=> [][Rev]_vars /\ [][Hit]_vars
  BY DEF LookupsAreCurrent, ReverseLookupIsCurrent, HitsNameTheOwner
<1> QED BY <1>3, <1>4, <1>5

=============================================================================
