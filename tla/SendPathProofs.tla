---------------------------- MODULE SendPathProofs ----------------------------
(***************************************************************************)
(* Theorems about SendPath, for any sessions, any size of the ring, any    *)
(* window and any lengths of the writes: what is admitted fits (RingHolds- *)
(* All, WindowIsKept, PointersInStep), the app pointer releases only what  *)
(* is in memory (AppIsStored), and every segment, new or again, carries    *)
(* the application's bytes (SegmentsAreOriginalInTheRing).                 *)
(*                                                                         *)
(* None of them is inductive.  The invariant says of each queue what its   *)
(* entries stand for: a report on its way to tx_app_table shows an earlier *)
(* ackd (ReportInv), the events of a session follow each other without     *)
(* gap (Chain), what is pushed is the end of what is held back (PushesAre- *)
(* Held), the statuses are those of the events in between (CountInv), a    *)
(* retransmission asks for nothing that is still being pushed (Covered),   *)
(* and the read commands and the bypassing data are, in their order, those *)
(* of the segments (Thin).                                                 *)
(***************************************************************************)
EXTENDS SendPath, SequenceTheorems, TLAPS

Addresses == 0 .. BufferSize - 1

(* A segment's payload in txApp2txEng_data_stream, an event and a request  *)
(* of a retransmission, as they stand in the queues.                       *)
Events ==
    {e \in [type : {"TX"}, session : Sessions, address : Addresses, length : 1 .. BufferSize - 1, from : Nat] :
        e.address = Ring(e.from)}
Again == [type : {"RT"}, session : Sessions]
Commands == [session : Sessions, address : Addresses, length : 1 .. BufferSize - 1]
Payloads == {Bytes(s, i, n) : s \in Sessions, i \in Nat, n \in Nat}
Segments == [session : Sessions, seq : Nat, length : Nat, bypass : BOOLEAN]
Requests == [session : Sessions, length : Lengths]
AppRequests == [session : Sessions, write : BOOLEAN, mempt : Addresses]
AckPushes == {p \in [session : Sessions, ackd : Addresses, window : Nat] : p.window <= Window[p.session]}
Reports == [ackd : Addresses, mempt : Addresses, window : Nat]
Handled == [event : Events, missing : {1, 2}]
Rests == [session : Sessions, ackd : Nat, left : 0 .. BufferSize - 1, count : 0 .. 3]
Places == {<<>>} \cup (Sessions \X Nat)

AppTypes ==
    /\ request \in {<<>>} \cup Requests
    /\ appReqQ \in Seq(AppRequests)
    /\ appReply \in {NoReply} \cup Reports
    /\ ackPushQ \in Seq(AckPushes)
    /\ appTable \in [Sessions -> Reports]
    /\ \A s \in Sessions : appTable[s].window <= Window[s]

StoreTypes ==
    /\ pushQ \in Seq(Events)
    /\ cacheQ \in Seq(Events)
    /\ handler \in {<<>>} \cup Handled
    /\ statuses \in Nat
    /\ app \in [Sessions -> Addresses]
    /\ memory \in [Sessions -> [Addresses -> Places]]

EngineTypes ==
    /\ txQ \in Seq(Events \cup Again)
    /\ bypassQ \in Seq(Payloads)
    /\ engine \in {<<>>} \cup Rests
    /\ readCmdQ \in Seq(Commands)
    /\ segmentQ \in Seq(Segments)

PointerTypes ==
    /\ ackd \in [Sessions -> Nat]
    /\ reached \in [Sessions -> Nat]
    /\ notAckd \in [Sessions -> Nat]
    /\ written \in [Sessions -> Nat]
    /\ edge \in [Sessions -> Nat]

Types == AppTypes /\ StoreTypes /\ EngineTypes /\ PointerTypes

-----------------------------------------------------------------------------
(* The invariant                                                           *)

(* The pointers of a session stand in their order, the ring holds what is  *)
(* not acknowledged, and the peer's window what is written.                *)
PointersInv ==
    \A s \in Sessions :
        /\ ackd[s] <= reached[s] /\ reached[s] <= notAckd[s] /\ notAckd[s] <= written[s]
        /\ written[s] - ackd[s] < BufferSize
        /\ written[s] <= edge[s] /\ edge[s] <= ackd[s] + Window[s]

(* The offset an address in the ring stands for, when it is one of the     *)
(* last BufferSize that were written.                                      *)
Seen(s, a) == written[s] - Ring(written[s] - a)

IsReport(s, r) == Seen(s, r.ackd) <= ackd[s] /\ Seen(s, r.ackd) + r.window <= edge[s]

(* Reports of acknowledgements are old, never wrong, and come in order.    *)
TableReports == \A s \in Sessions : IsReport(s, appTable[s])
PushReports ==
    \A i \in DOMAIN ackPushQ :
        LET p == ackPushQ[i] IN
        /\ IsReport(p.session, p)
        /\ Seen(p.session, appTable[p.session].ackd) <= Seen(p.session, p.ackd)
        /\ \A j \in 1 .. i - 1 : ackPushQ[j].session = p.session =>
              Seen(p.session, ackPushQ[j].ackd) <= Seen(p.session, p.ackd)
ReplyReport ==
    appReply # NoReply =>
        /\ request # <<>>
        /\ IsReport(request.session, appReply)
        /\ Seen(request.session, appReply.ackd) <= Seen(request.session, appTable[request.session].ackd)
ReportInv == TableReports /\ PushReports /\ ReplyReport

(* One request at a time: the write that follows an acceptance is served   *)
(* before the next read, so what is read as mempt is where to write.       *)
RequestInv ==
    /\ \A i \in DOMAIN appReqQ :
          LET q == appReqQ[i] IN
          IF q.write
            THEN i = 1 /\ q.mempt = Ring(written[q.session])
            ELSE i = Len(appReqQ) /\ request # <<>> /\ q.session = request.session /\ appReply = NoReply
    /\ \A s \in Sessions :
          \/ appTable[s].mempt = Ring(written[s])
          \/ appReqQ # <<>> /\ appReqQ[1].write /\ appReqQ[1].session = s
    /\ appReply # NoReply =>
          /\ request # <<>> /\ appReqQ = <<>>
          /\ appReply.mempt = Ring(written[request.session])

(* The events of a session in a queue follow each other from base to top.  *)
Of(e, s) == e.type = "TX" /\ e.session = s
End(e) == e.from + e.length
Chain(q, s, base, top) ==
    /\ base <= top
    /\ base = top \/ \E i \in DOMAIN q : Of(q[i], s) /\ q[i].from = base
    /\ \A i \in DOMAIN q : Of(q[i], s) =>
          /\ base <= q[i].from /\ End(q[i]) <= top
          /\ End(q[i]) = top \/ \E j \in DOMAIN q : Of(q[j], s) /\ q[j].from = End(q[i])
          /\ \A j \in 1 .. i - 1 : Of(q[j], s) => End(q[j]) <= q[i].from

SentInv == \A s \in Sessions : Chain(txQ, s, notAckd[s], written[s])
HeldInv == \A s \in Sessions : \E r \in 0 .. written[s] : Chain(Held, s, r, written[s]) /\ app[s] = Ring(r)
InMemory(s, i) == memory[s][Ring(i)] = Byte(s, i)
StoredInv ==
    \A s \in Sessions : \E b \in 0 .. written[s] :
        Chain(pushQ, s, b, written[s]) /\ \A i \in ackd[s] .. b - 1 : InMemory(s, i)

(* What is pushed is the end of what waits for its statuses.               *)
Gone == Len(Held) - Len(pushQ)
PushesAreHeld == Gone \in Nat /\ \A i \in DOMAIN pushQ : pushQ[i] = Held[Gone + i]

(* Each event that is stored and held has its statuses: f adds them up.    *)
Consumed == IF handler = <<>> THEN 0 ELSE StatusesFor(handler.event) - handler.missing
SumsUp(f, q) == f[0] = 0 /\ \A k \in DOMAIN q : f[k] = f[k - 1] + StatusesFor(q[k])
CountInv ==
    /\ handler # <<>> => handler.missing <= StatusesFor(handler.event)
    /\ \E f \in [0 .. Len(Held) -> Int] : SumsUp(f, Held) /\ statuses + Consumed = f[Gone]

(* No write of the session before offset x is in q, on its way to the      *)
(* memory.                                                                 *)
Covered(q, s, x) == \A k \in DOMAIN q : q[k].session = s => x <= q[k].from

(* What a retransmission asks for, now, for its rest and in its segments,  *)
(* is sent and not on its way to the memory.                               *)
AgainInv(t, sent, q) ==
    \A i \in DOMAIN t : t[i].type = "RT" =>
        /\ Covered(q, t[i].session, sent[t[i].session])
        /\ \A j \in 1 .. i - 1 : Of(t[j], t[i].session) => Covered(q, t[i].session, End(t[j]))
RestInv(r, sent, q) ==
    r # <<>> => r.ackd + r.left <= sent[r.session] /\ Covered(q, r.session, r.ackd + r.left)
SegmentInv(g, sent, q) ==
    /\ g.seq + g.length <= sent[g.session]
    /\ ~g.bypass => g.length \in 1 .. BufferSize - 1 /\ Covered(q, g.session, g.seq + g.length)
RetransmitInv ==
    /\ AgainInv(txQ, notAckd, pushQ)
    /\ RestInv(engine, notAckd, pushQ)
    /\ \A i \in DOMAIN segmentQ : SegmentInv(segmentQ[i], notAckd, pushQ)

(* q has, in their order, the elements of the sets of t, each empty or of  *)
(* one element.                                                            *)
Thin(q, t) ==
    \E f \in [DOMAIN q -> DOMAIN t] :
        /\ \A k, l \in DOMAIN q : k < l => f[k] < f[l]
        /\ \A k \in DOMAIN q : t[f[k]] = {q[k]}
        /\ \A i \in DOMAIN t : (\A k \in DOMAIN q : f[k] # i) => t[i] = {}

Command(g) == IF g.bypass THEN {} ELSE {[session |-> g.session, address |-> Ring(g.seq), length |-> g.length]}
Passing(g) == IF g.bypass THEN {Bytes(g.session, g.seq, g.length)} ELSE {}
ToPass(e) == IF e.type = "TX" THEN {Bytes(e.session, e.from, e.length)} ELSE {}
ReadsDue == [i \in 1 .. Len(segmentQ) |-> Command(segmentQ[i])]
DataDue ==
    [i \in 1 .. Len(segmentQ) + Len(txQ) |->
        IF i <= Len(segmentQ) THEN Passing(segmentQ[i]) ELSE ToPass(txQ[i - Len(segmentQ)])]

ReadsInv == Thin(readCmdQ, ReadsDue)
DataInv == Thin(bypassQ, DataDue)

WireInv ==
    wire # <<>> => /\ wire.session \in Sessions /\ wire.seq \in Nat /\ DOMAIN wire.data \subseteq Nat
                   /\ \A k \in DOMAIN wire.data : Original(k) \/ BehindTheEnd(k)

IInv ==
    /\ Types /\ PointersInv /\ ReportInv /\ RequestInv
    /\ SentInv /\ HeldInv /\ StoredInv /\ PushesAreHeld /\ CountInv
    /\ RetransmitInv /\ ReadsInv /\ DataInv /\ WireInv

-----------------------------------------------------------------------------
(* The ring                                                                *)

\* What division with remainder is.
LEMMA Division ==
    \A x \in Int : /\ x % BufferSize \in 0 .. BufferSize - 1 /\ x \div BufferSize \in Int
                   /\ x = BufferSize * (x \div BufferSize) + (x % BufferSize)
<1>1. \A x \in Int : x % BufferSize \in 0 .. BufferSize - 1 /\ x \div BufferSize \in Int BY SizeAssumption
<1>2. \A x \in Int : x = BufferSize * (x \div BufferSize) + (x % BufferSize) BY SizeAssumption, Z3
<1> QED BY <1>1, <1>2

\* Its remainder is the only one.
LEMMA RemainderIsUnique ==
    \A q, p \in Int, r, s \in 0 .. BufferSize - 1 : BufferSize * q + r = BufferSize * p + s => r = s
<1> SUFFICES ASSUME NEW q \in Int, NEW p \in Int, NEW r \in 0 .. BufferSize - 1, NEW s \in 0 .. BufferSize - 1,
                    BufferSize * q + r = BufferSize * p + s
             PROVE  r = s
    OBVIOUS
<1>1. BufferSize * (q - p) = s - r BY SizeAssumption
<1>2. CASE q = p BY <1>2, SizeAssumption
<1>3. CASE q > p
  <2>1. BufferSize * (q - p) >= BufferSize BY <1>3, SizeAssumption
  <2> QED BY <2>1, <1>1, SizeAssumption
<1>4. CASE q < p
  <2>1. BufferSize * (q - p) <= 0 - BufferSize BY <1>4, SizeAssumption
  <2> QED BY <2>1, <1>1, SizeAssumption
<1> QED BY <1>2, <1>3, <1>4

LEMMA RingIsAddress == \A x \in Int : Ring(x) \in Addresses /\ Ring(x) \in Nat /\ Ring(x) < BufferSize
BY Division, SizeAssumption DEF Ring, Addresses

LEMMA RingOfSmall == \A x \in 0 .. BufferSize - 1 : Ring(x) = x
BY SizeAssumption DEF Ring

LEMMA RingOfMultiple ==
    ASSUME NEW x \in Int, NEW q \in Int
    PROVE  Ring(x + BufferSize * q) = Ring(x)
<1> DEFINE y == x + BufferSize * q
<1>1. y \in Int BY SizeAssumption
<1>2. /\ y % BufferSize \in 0 .. BufferSize - 1 /\ y \div BufferSize \in Int
      /\ y = BufferSize * (y \div BufferSize) + (y % BufferSize)
  BY <1>1, Division
<1>3. /\ x % BufferSize \in 0 .. BufferSize - 1 /\ x \div BufferSize \in Int
      /\ x = BufferSize * (x \div BufferSize) + (x % BufferSize)
  BY Division
<1>4. y = BufferSize * (x \div BufferSize + q) + (x % BufferSize)
  <2>1. BufferSize * (x \div BufferSize + q) = BufferSize * (x \div BufferSize) + BufferSize * q
    BY <1>3, SizeAssumption
  <2> QED BY <2>1, <1>3, SizeAssumption
<1>5. x \div BufferSize + q \in Int BY <1>3
<1> HIDE DEF y
<1>6. y % BufferSize = x % BufferSize BY <1>2, <1>3, <1>4, <1>5, RemainderIsUnique
<1> QED BY <1>6 DEF Ring, y

\* Turning a whole ring on or back.
LEMMA RingTurns ==
    ASSUME NEW x \in Int
    PROVE  Ring(x + BufferSize) = Ring(x) /\ Ring(x - BufferSize) = Ring(x)
<1>1. x + BufferSize = x + BufferSize * 1 /\ x - BufferSize = x + BufferSize * (0 - 1) BY SizeAssumption
<1>2. Ring(x + BufferSize * 1) = Ring(x) BY RingOfMultiple
<1>3. Ring(x + BufferSize * (0 - 1)) = Ring(x) BY RingOfMultiple
<1> QED BY <1>1, <1>2, <1>3

\* An address may stand for its offset in a sum and in a difference.
LEMMA RingInSum ==
    ASSUME NEW x \in Int, NEW y \in Int
    PROVE  Ring(Ring(x) + y) = Ring(x + y) /\ Ring(y - Ring(x)) = Ring(y - x)
<1> DEFINE q == x \div BufferSize
<1>1. q \in Int /\ Ring(x) \in Int /\ x = BufferSize * q + Ring(x) BY Division DEF Ring
<1>2. BufferSize * q \in Int /\ BufferSize * (0 - q) = 0 - BufferSize * q BY <1>1, SizeAssumption
<1> HIDE DEF q
<1>3. Ring(x) + y = (x + y) + BufferSize * (0 - q) BY <1>1, <1>2
<1>4. y - Ring(x) = (y - x) + BufferSize * q BY <1>1, <1>2
<1>5. 0 - q \in Int /\ x + y \in Int /\ y - x \in Int BY <1>1
<1>6. Ring((x + y) + BufferSize * (0 - q)) = Ring(x + y) BY <1>5, RingOfMultiple
<1>7. Ring((y - x) + BufferSize * q) = Ring(y - x) BY <1>5, <1>1, RingOfMultiple
<1> QED BY <1>3, <1>4, <1>6, <1>7

\* Two offsets less than a ring apart have different addresses.
LEMMA RingTellsApart ==
    ASSUME NEW x \in Int, NEW y \in Int, x - y < BufferSize, y - x < BufferSize, Ring(x) = Ring(y)
    PROVE  x = y
<1>1. ASSUME NEW v \in Int, NEW w \in Int, w <= v, v - w < BufferSize, Ring(v) = Ring(w) PROVE v = w
  <2>1. Ring(v - Ring(v)) = Ring(v - v) /\ Ring(v - Ring(w)) = Ring(v - w) BY RingInSum
  <2>2. Ring(v - v) = Ring(v - w) BY <2>1, <1>1
  <2>3. v - v \in 0 .. BufferSize - 1 /\ v - w \in 0 .. BufferSize - 1 BY <1>1, SizeAssumption
  <2>4. Ring(v - v) = v - v /\ Ring(v - w) = v - w BY <2>3, RingOfSmall
  <2> QED BY <2>2, <2>4
<1>2. CASE y <= x BY <1>1, <1>2
<1>3. CASE x <= y BY <1>1, <1>3
<1> QED BY <1>2, <1>3

\* The place of a byte of a write: behind its address, or from the start of the
\* ring when the write crosses the end (tasi_pkg_pusher).
LEMMA RingOfByte ==
    ASSUME NEW x \in Nat, NEW k \in 0 .. BufferSize - 1
    PROVE  Ring(x + k) = IF Ring(x) + k < BufferSize THEN Ring(x) + k ELSE (Ring(x) + k) - BufferSize
<1> DEFINE a == Ring(x)
<1>1. a \in Nat /\ a < BufferSize BY RingIsAddress
<1>2. Ring(x + k) = Ring(a + k) BY RingInSum
<1> HIDE DEF a
<1>3. CASE a + k < BufferSize
  <2>1. a + k \in 0 .. BufferSize - 1 BY <1>1, <1>3, SizeAssumption
  <2>2. Ring(x + k) = a + k BY <2>1, <1>2, RingOfSmall
  <2> QED BY <2>2, <1>1, <1>3 DEF a
<1>4. CASE ~(a + k < BufferSize)
  <2>1. a + k \in Int /\ (a + k) - BufferSize \in 0 .. BufferSize - 1 BY <1>1, <1>4, SizeAssumption
  <2>2. Ring((a + k) - BufferSize) = Ring(a + k) BY <2>1, RingTurns
  <2>3. Ring((a + k) - BufferSize) = (a + k) - BufferSize BY <2>1, RingOfSmall
  <2>4. Ring(x + k) = (a + k) - BufferSize BY <1>2, <2>2, <2>3
  <2> QED BY <2>4, <1>1, <1>4, SizeAssumption DEF a
<1> QED BY <1>3, <1>4

-----------------------------------------------------------------------------
(* What an address in a report stands for, w being what is written          *)

LEMMA SeenOfRing ==
    ASSUME NEW w \in Nat, NEW x \in Nat, x <= w, w - x < BufferSize
    PROVE  w - Ring(w - Ring(x)) = x
<1>1. Ring(w - Ring(x)) = Ring(w - x) BY RingInSum
<1>2. w - x \in 0 .. BufferSize - 1 BY SizeAssumption
<1> QED BY <1>1, <1>2, RingOfSmall

\* What is written after it does not change what it stands for, as long as the
\* ring holds it.
LEMMA SeenStays ==
    ASSUME NEW w \in Nat, NEW a \in Addresses, NEW n \in Nat, Ring(w - a) + n < BufferSize
    PROVE  Ring((w + n) - a) = Ring(w - a) + n
<1>1. w - a \in Int BY SizeAssumption DEF Addresses
<1>2. Ring(w - a) \in Nat BY <1>1, RingIsAddress
<1>3. Ring(Ring(w - a) + n) = Ring((w - a) + n) BY <1>1, RingInSum
<1>4. Ring(w - a) + n \in 0 .. BufferSize - 1 BY <1>2, SizeAssumption
<1>5. Ring(Ring(w - a) + n) = Ring(w - a) + n BY <1>4, RingOfSmall
<1>6. (w - a) + n = (w + n) - a BY SizeAssumption DEF Addresses
<1> QED BY <1>3, <1>5, <1>6

\* maxWriteLength is what the ring has left, one byte less than the whole.
LEMMA RoomInRing ==
    ASSUME NEW w \in Nat, NEW a \in Addresses
    PROVE  Ring(a - Ring(w) - 1) = BufferSize - 1 - Ring(w - a)
<1> DEFINE u == Ring(w - a)
<1>1. a \in Nat /\ a < BufferSize /\ w - a \in Int BY SizeAssumption DEF Addresses
<1>2. u \in Nat /\ u < BufferSize BY <1>1, RingIsAddress
<1>3. Ring((a - 1) - Ring(w)) = Ring((a - 1) - w) BY <1>1, RingInSum
<1>4. Ring((BufferSize - 1) - u) = Ring((BufferSize - 1) - (w - a)) BY <1>1, RingInSum, SizeAssumption
<1>5. (BufferSize - 1) - (w - a) = ((a - 1) - w) + BufferSize BY <1>1, SizeAssumption
<1>6. Ring(((a - 1) - w) + BufferSize) = Ring((a - 1) - w) BY <1>1, RingTurns
<1>7. Ring(w) \in Int BY RingIsAddress
<1>8. a - Ring(w) - 1 = (a - 1) - Ring(w) BY <1>1, <1>7
<1> HIDE DEF u
<1>9. (BufferSize - 1) - u \in 0 .. BufferSize - 1 BY <1>2, SizeAssumption
<1>10. Ring((BufferSize - 1) - u) = (BufferSize - 1) - u BY <1>9, RingOfSmall
<1>11. Ring(a - Ring(w) - 1) = (BufferSize - 1) - u BY <1>3, <1>4, <1>5, <1>6, <1>8, <1>10
<1> QED BY <1>11 DEF u

\* usedLength is what is written and not known to be acknowledged.
LEMMA UsedInRing ==
    ASSUME NEW w \in Nat, NEW a \in Addresses
    PROVE  Ring(Ring(w) - a) = Ring(w - a)
<1>1. 0 - a \in Int /\ w + (0 - a) = w - a BY SizeAssumption DEF Addresses
<1>2. Ring(w) \in Int BY RingIsAddress
<1>3. Ring(w) + (0 - a) = Ring(w) - a BY <1>2, SizeAssumption DEF Addresses
<1>4. Ring(Ring(w) + (0 - a)) = Ring(w + (0 - a)) BY <1>1, RingInSum
<1> QED BY <1>1, <1>3, <1>4

-----------------------------------------------------------------------------
(* Queues of events that follow each other                                 *)

\* All that a Chain needs of its entries.
Dated == [type : {"TX"}, session : Sessions, address : Addresses, length : 1 .. BufferSize - 1, from : Nat] \cup Again

LEMMA EventsAreDated ==
    /\ Events \subseteq Dated /\ Again \subseteq Dated
    /\ \A e \in Dated : e.type # "RT" => e.type = "TX" /\ e.from \in Nat /\ e.length \in Nat /\ e.length > 0
                                         /\ e.session \in Sessions
    /\ \A e \in Events : e.type = "TX" /\ e.session \in Sessions /\ e.from \in Nat /\ e.length \in 1 .. BufferSize - 1
                         /\ e.address \in Addresses /\ e.address = Ring(e.from)
BY SizeAssumption DEF Events, Dated, Again

\* An event of the session of a queue.
LEMMA OfIsEvent ==
    ASSUME NEW e \in Dated, NEW s, Of(e, s)
    PROVE  e.from \in Nat /\ e.length \in Nat /\ e.length > 0 /\ End(e) = e.from + e.length /\ End(e) \in Nat
BY EventsAreDated DEF Of, End

\* The first event of the session starts at the base.
LEMMA ChainStarts ==
    ASSUME NEW q \in Seq(Dated), NEW s, NEW base \in Nat, NEW top \in Nat, Chain(q, s, base, top),
           NEW i \in DOMAIN q, Of(q[i], s), \A j \in 1 .. i - 1 : ~Of(q[j], s)
    PROVE  q[i].from = base
<1> USE DEF Chain
<1>1. \A k \in DOMAIN q : q[k] \in Dated /\ k \in 1 .. Len(q) OBVIOUS
<1>2. End(q[i]) = q[i].from + q[i].length /\ q[i].from \in Nat /\ q[i].length > 0 /\ q[i].length \in Nat
  BY <1>1, OfIsEvent
<1>3. base <= q[i].from /\ End(q[i]) <= top OBVIOUS
<1>4. base # top BY <1>2, <1>3
<1>5. PICK k \in DOMAIN q : Of(q[k], s) /\ q[k].from = base BY <1>4
<1>6. k >= i BY <1>1, <1>5
<1>7. CASE k > i
  <2>1. i \in 1 .. k - 1 BY <1>1, <1>7
  <2>2. End(q[i]) <= q[k].from BY <2>1, <1>5
  <2> QED BY <2>2, <1>2, <1>3, <1>5
<1> QED BY <1>1, <1>5, <1>6, <1>7

\* It leaves.
LEMMA ChainPops ==
    ASSUME NEW q \in Seq(Dated), NEW s, NEW base \in Nat, NEW top \in Nat, Chain(q, s, base, top),
           q # <<>>, Of(Head(q), s)
    PROVE  /\ Head(q).from = base /\ End(Head(q)) \in Nat /\ base < End(Head(q)) /\ End(Head(q)) <= top
           /\ Chain(Tail(q), s, End(Head(q)), top)
<1> DEFINE e == q[1]
           r == Tail(q)
<1>1. /\ 1 \in DOMAIN q /\ Head(q) = e /\ Len(q) \in Nat /\ Len(q) >= 1 /\ DOMAIN q = 1 .. Len(q)
      /\ r \in Seq(Dated) /\ DOMAIN r = 1 .. Len(q) - 1
  OBVIOUS
<1>2. \A i \in DOMAIN r : i + 1 \in DOMAIN q /\ r[i] = q[i + 1] /\ i \in Nat /\ r[i] \in Dated BY <1>1
<1>3. \A i \in DOMAIN q : q[i] \in Dated /\ i \in Nat /\ (i # 1 => i - 1 \in DOMAIN r /\ q[i] = r[i - 1] /\ 1 \in 1 .. i - 1)
  BY <1>1, <1>2
<1>4. e.from = base BY <1>1, ChainStarts
<1>5. /\ End(e) = base + e.length /\ e.length \in Nat /\ e.length > 0 /\ End(e) \in Nat
      /\ End(e) <= top
  BY <1>1, <1>3, <1>4, OfIsEvent DEF Chain
<1>6. End(e) = top \/ \E i \in DOMAIN r : Of(r[i], s) /\ r[i].from = End(e)
  <2>1. CASE End(e) # top
    <3>1. PICK j \in DOMAIN q : Of(q[j], s) /\ q[j].from = End(e) BY <1>1, <2>1 DEF Chain
    <3>2. j # 1 BY <3>1, <1>4, <1>5
    <3>3. j - 1 \in DOMAIN r /\ q[j] = r[j - 1] BY <3>2, <1>3
    <3> QED BY <3>1, <3>3
  <2> QED BY <2>1
<1>7. ASSUME NEW i \in DOMAIN r, Of(r[i], s)
      PROVE  /\ End(e) <= r[i].from /\ End(r[i]) <= top
             /\ End(r[i]) = top \/ \E j \in DOMAIN r : Of(r[j], s) /\ r[j].from = End(r[i])
             /\ \A j \in 1 .. i - 1 : Of(r[j], s) => End(r[j]) <= r[i].from
  <2>1. i + 1 \in DOMAIN q /\ r[i] = q[i + 1] /\ i \in Nat /\ 1 \in 1 .. (i + 1) - 1 BY <1>2, <1>3
  <2>2. End(e) <= r[i].from /\ End(r[i]) <= top BY <1>1, <1>7, <2>1 DEF Chain
  <2>3. ASSUME End(r[i]) # top PROVE \E j \in DOMAIN r : Of(r[j], s) /\ r[j].from = End(r[i])
    <3>1. PICK j \in DOMAIN q : Of(q[j], s) /\ q[j].from = End(r[i]) BY <1>7, <2>1, <2>3 DEF Chain
    <3>2. End(r[i]) = r[i].from + r[i].length /\ r[i].length > 0 /\ r[i].from \in Nat /\ r[i].length \in Nat
      BY <1>2, <1>7, OfIsEvent
    <3>3. j # 1
      <4>1. End(r[i]) > base /\ base \in Int BY <3>2, <2>2, <1>4, <1>5
      <4>2. ASSUME j = 1 PROVE FALSE
        <5>1. q[j] = e BY <4>2, <1>1
        <5> QED BY <5>1, <4>1, <3>1, <1>4
      <4> QED BY <4>2
    <3>4. j - 1 \in DOMAIN r /\ q[j] = r[j - 1] BY <3>3, <1>3
    <3> QED BY <3>1, <3>4
  <2>4. ASSUME NEW j \in 1 .. i - 1, Of(r[j], s) PROVE End(r[j]) <= r[i].from
    <3>1. j \in DOMAIN r /\ j + 1 \in 1 .. (i + 1) - 1 BY <1>1, <2>1
    <3>2. r[j] = q[j + 1] BY <3>1, <1>2
    <3> QED BY <1>7, <2>1, <2>4, <3>1, <3>2 DEF Chain
  <2> QED BY <2>2, <2>3, <2>4
<1> HIDE DEF e, r
<1>8. Chain(r, s, End(e), top) BY <1>5, <1>6, <1>7 DEF Chain
<1> QED BY <1>1, <1>4, <1>5, <1>8 DEF r

\* An entry that is not of the session leaves.
LEMMA ChainSkips ==
    ASSUME NEW q \in Seq(Dated), NEW s, NEW base \in Nat, NEW top \in Nat, Chain(q, s, base, top),
           q # <<>>, ~Of(Head(q), s)
    PROVE  Chain(Tail(q), s, base, top)
<1> DEFINE r == Tail(q)
<1>1. /\ 1 \in DOMAIN q /\ Head(q) = q[1] /\ Len(q) \in Nat /\ Len(q) >= 1 /\ DOMAIN q = 1 .. Len(q)
      /\ r \in Seq(Dated) /\ DOMAIN r = 1 .. Len(q) - 1
  OBVIOUS
<1>2. \A i \in DOMAIN r : i + 1 \in DOMAIN q /\ r[i] = q[i + 1] /\ i \in Nat BY <1>1
<1>3. \A i \in DOMAIN q : Of(q[i], s) => i - 1 \in DOMAIN r /\ q[i] = r[i - 1] BY <1>1, <1>2
<1>4. base <= top /\ (base = top \/ \E i \in DOMAIN r : Of(r[i], s) /\ r[i].from = base)
  BY <1>3 DEF Chain
<1>5. ASSUME NEW i \in DOMAIN r, Of(r[i], s)
      PROVE  /\ base <= r[i].from /\ End(r[i]) <= top
             /\ End(r[i]) = top \/ \E j \in DOMAIN r : Of(r[j], s) /\ r[j].from = End(r[i])
             /\ \A j \in 1 .. i - 1 : Of(r[j], s) => End(r[j]) <= r[i].from
  <2>1. i + 1 \in DOMAIN q /\ r[i] = q[i + 1] /\ i \in Nat BY <1>2
  <2>2. base <= r[i].from /\ End(r[i]) <= top BY <1>5, <2>1 DEF Chain
  <2>3. ASSUME End(r[i]) # top PROVE \E j \in DOMAIN r : Of(r[j], s) /\ r[j].from = End(r[i])
    <3>1. PICK j \in DOMAIN q : Of(q[j], s) /\ q[j].from = End(r[i]) BY <1>5, <2>1, <2>3 DEF Chain
    <3> QED BY <3>1, <1>3
  <2>4. ASSUME NEW j \in 1 .. i - 1, Of(r[j], s) PROVE End(r[j]) <= r[i].from
    <3>1. j \in DOMAIN r /\ j + 1 \in 1 .. (i + 1) - 1 BY <1>1, <2>1
    <3>2. r[j] = q[j + 1] BY <3>1, <1>2
    <3> QED BY <1>5, <2>1, <2>4, <3>1, <3>2 DEF Chain
  <2> QED BY <2>2, <2>3, <2>4
<1> HIDE DEF r
<1>6. Chain(r, s, base, top) BY <1>4, <1>5 DEF Chain
<1> QED BY <1>6 DEF r

\* A new one comes, at the top.
LEMMA ChainGrows ==
    ASSUME NEW q \in Seq(Dated), NEW s, NEW base \in Nat, NEW top \in Nat, Chain(q, s, base, top),
           NEW e \in Dated, Of(e, s), e.from = top
    PROVE  End(e) \in Nat /\ Chain(Append(q, e), s, base, End(e))
<1> DEFINE r == Append(q, e)
           n == Len(q) + 1
<1>1. /\ Len(q) \in Nat /\ DOMAIN q = 1 .. Len(q) /\ r \in Seq(Dated) /\ DOMAIN r = 1 .. n /\ r[n] = e
      /\ \A i \in DOMAIN q : i \in DOMAIN r /\ r[i] = q[i] /\ i < n /\ q[i] \in Dated
  OBVIOUS
<1>2. \A i \in DOMAIN r : i = n \/ i \in DOMAIN q BY <1>1
<1>3. e.length \in Nat /\ e.length > 0 /\ End(e) = top + e.length /\ End(e) \in Nat BY OfIsEvent
<1>4. base <= End(e) BY <1>3 DEF Chain
<1>5. \E i \in DOMAIN r : Of(r[i], s) /\ r[i].from = base
  <2>1. CASE base = top BY <2>1, <1>1
  <2>2. CASE base # top BY <2>2, <1>1 DEF Chain
  <2> QED BY <2>1, <2>2
<1>6. ASSUME NEW i \in DOMAIN r, Of(r[i], s)
      PROVE  /\ base <= r[i].from /\ End(r[i]) <= End(e)
             /\ End(r[i]) = End(e) \/ \E j \in DOMAIN r : Of(r[j], s) /\ r[j].from = End(r[i])
             /\ \A j \in 1 .. i - 1 : Of(r[j], s) => End(r[j]) <= r[i].from
  <2>1. CASE i = n
    <3>1. r[i] = e BY <2>1, <1>1
    <3>2. ASSUME NEW j \in 1 .. i - 1, Of(r[j], s) PROVE End(r[j]) <= r[i].from
      <4>1. j \in DOMAIN q /\ r[j] = q[j] BY <2>1, <1>1
      <4> QED BY <3>1, <3>2, <4>1 DEF Chain
    <3>3. base <= top /\ End(e) <= End(e) BY <1>3 DEF Chain
    <3> QED BY <3>1, <3>2, <3>3
  <2>2. CASE i # n
    <3>1. i \in DOMAIN q /\ r[i] = q[i] BY <2>2, <1>1, <1>2
    <3>2. End(q[i]) \in Nat BY <1>1, <1>6, <3>1, OfIsEvent
    <3>3. base <= q[i].from /\ End(q[i]) <= top BY <1>6, <3>1 DEF Chain
    <3>4. \E j \in DOMAIN r : Of(r[j], s) /\ r[j].from = End(r[i])
      <4>1. CASE End(q[i]) = top BY <4>1, <3>1, <1>1
      <4>2. CASE End(q[i]) # top BY <4>2, <3>1, <1>1, <1>6 DEF Chain
      <4> QED BY <4>1, <4>2
    <3>5. ASSUME NEW j \in 1 .. i - 1, Of(r[j], s) PROVE End(r[j]) <= r[i].from
      <4>1. j \in DOMAIN q /\ r[j] = q[j] BY <3>1, <1>1
      <4> QED BY <1>6, <3>1, <3>5, <4>1 DEF Chain
    <3> QED BY <3>1, <3>2, <3>3, <3>4, <3>5, <1>3
  <2> QED BY <2>1, <2>2
<1> HIDE DEF r
<1>7. Chain(r, s, base, End(e)) BY <1>4, <1>5, <1>6 DEF Chain
<1> QED BY <1>3, <1>7 DEF r

\* An entry that is not of the session comes.
LEMMA ChainPasses ==
    ASSUME NEW q \in Seq(Dated), NEW s, NEW base \in Nat, NEW top \in Nat, Chain(q, s, base, top),
           NEW e \in Dated, ~Of(e, s)
    PROVE  Chain(Append(q, e), s, base, top)
<1> DEFINE r == Append(q, e)
           n == Len(q) + 1
<1>1. /\ Len(q) \in Nat /\ DOMAIN q = 1 .. Len(q) /\ r \in Seq(Dated) /\ DOMAIN r = 1 .. n /\ r[n] = e
      /\ \A i \in DOMAIN q : i \in DOMAIN r /\ r[i] = q[i] /\ i < n
  OBVIOUS
<1>2. \A i \in DOMAIN r : Of(r[i], s) => i \in DOMAIN q /\ r[i] = q[i] BY <1>1
<1>3. ASSUME NEW i \in DOMAIN r, Of(r[i], s)
      PROVE  /\ base <= r[i].from /\ End(r[i]) <= top
             /\ End(r[i]) = top \/ \E j \in DOMAIN r : Of(r[j], s) /\ r[j].from = End(r[i])
             /\ \A j \in 1 .. i - 1 : Of(r[j], s) => End(r[j]) <= r[i].from
  <2>1. i \in DOMAIN q /\ r[i] = q[i] BY <1>2, <1>3
  <2>2. \A j \in 1 .. i - 1 : j \in DOMAIN r BY <1>1, <2>1
  <2> QED BY <1>1, <1>2, <1>3, <2>1, <2>2 DEF Chain
<1>4. base <= top /\ (base = top \/ \E i \in DOMAIN r : Of(r[i], s) /\ r[i].from = base) BY <1>1 DEF Chain
<1> HIDE DEF r
<1>5. Chain(r, s, base, top) BY <1>3, <1>4 DEF Chain
<1> QED BY <1>5 DEF r

-----------------------------------------------------------------------------
(* Queues that have what others announce                                   *)

\* u is t, of m entries, without the empty one at i; u is t with an empty one at i.
Shorter(u, t, m, i) ==
    /\ DOMAIN t = 1 .. m /\ t[i] = {}
    /\ DOMAIN u = 1 .. m - 1 /\ \A j \in 1 .. m - 1 : u[j] = IF j < i THEN t[j] ELSE t[j + 1]
Longer(u, t, m, i) ==
    /\ DOMAIN t = 1 .. m
    /\ DOMAIN u = 1 .. m + 1
    /\ \A j \in 1 .. m + 1 : u[j] = IF j < i THEN t[j] ELSE IF j = i THEN {} ELSE t[j - 1]

\* An announcement of nothing leaves.
LEMMA ThinLoses ==
    ASSUME NEW S, NEW q \in Seq(S), NEW m \in Nat, NEW t, NEW u, NEW i \in 1 .. m, Shorter(u, t, m, i), Thin(q, t)
    PROVE  Thin(q, u)
<1> USE DEF Shorter
<1>0. PICK f \in [DOMAIN q -> DOMAIN t] :
        /\ \A k, l \in DOMAIN q : k < l => f[k] < f[l]
        /\ \A k \in DOMAIN q : t[f[k]] = {q[k]}
        /\ \A j \in DOMAIN t : (\A k \in DOMAIN q : f[k] # j) => t[j] = {}
  BY DEF Thin
<1>1. /\ f \in [DOMAIN q -> 1 .. m]
      /\ \A k, l \in DOMAIN q : k < l => f[k] < f[l]
      /\ \A k \in DOMAIN q : t[f[k]] = {q[k]}
      /\ \A j \in 1 .. m : (\A k \in DOMAIN q : f[k] # j) => t[j] = {}
  BY <1>0
<1>2. \A k \in DOMAIN q : f[k] # i /\ f[k] \in 1 .. m /\ f[k] \in Int
  <2> TAKE k \in DOMAIN q
  <2>1. f[k] \in 1 .. m /\ t[f[k]] # {} BY <1>1
  <2>2. t[i] = {} OBVIOUS
  <2> QED BY <2>1, <2>2
<1>3. DOMAIN q = 1 .. Len(q) /\ Len(q) \in Nat OBVIOUS
<1> DEFINE g == [k \in DOMAIN q |-> IF f[k] < i THEN f[k] ELSE f[k] - 1]
<1>4. \A k \in DOMAIN q : /\ g[k] = IF f[k] < i THEN f[k] ELSE f[k] - 1
                          /\ g[k] \in 1 .. m - 1 /\ g[k] \in Int
                          /\ IF g[k] < i THEN f[k] = g[k] ELSE f[k] = g[k] + 1
  BY <1>2
<1>5. g \in [DOMAIN q -> DOMAIN u] BY <1>4
<1> HIDE DEF g
<1>6. \A k, l \in DOMAIN q : k < l => g[k] < g[l] BY <1>1, <1>2, <1>4
<1>7. \A k \in DOMAIN q : u[g[k]] = {q[k]}
  <2> TAKE k \in DOMAIN q
  <2>1. t[f[k]] = {q[k]} BY <1>1
  <2>2. CASE g[k] < i BY <2>1, <2>2, <1>4
  <2>3. CASE ~(g[k] < i) BY <2>1, <2>3, <1>4
  <2> QED BY <2>2, <2>3
<1>8. ASSUME NEW j \in DOMAIN u, \A k \in DOMAIN q : g[k] # j PROVE u[j] = {}
  <2>1. CASE j < i
    <3>1. \A k \in DOMAIN q : f[k] # j BY <1>2, <1>4, <1>8, <2>1
    <3> QED BY <3>1, <2>1, <1>1
  <2>2. CASE ~(j < i)
    <3>1. j + 1 \in 1 .. m /\ u[j] = t[j + 1] BY <2>2
    <3>2. ASSUME NEW k \in DOMAIN q PROVE f[k] # j + 1
      <4>1. g[k] # j BY <1>8
      <4> QED BY <4>1, <2>2, <1>2, <1>4
    <3> QED BY <3>1, <3>2, <1>1
  <2> QED BY <2>1, <2>2
<1> QED BY <1>5, <1>6, <1>7, <1>8 DEF Thin

\* An announcement of nothing comes, at any place.
LEMMA ThinPads ==
    ASSUME NEW S, NEW q \in Seq(S), NEW m \in Nat, NEW t, NEW u, NEW i \in 1 .. m + 1, Longer(u, t, m, i), Thin(q, t)
    PROVE  Thin(q, u)
<1> USE DEF Longer
<1>0. PICK f \in [DOMAIN q -> DOMAIN t] :
        /\ \A k, l \in DOMAIN q : k < l => f[k] < f[l]
        /\ \A k \in DOMAIN q : t[f[k]] = {q[k]}
        /\ \A j \in DOMAIN t : (\A k \in DOMAIN q : f[k] # j) => t[j] = {}
  BY DEF Thin
<1>1. /\ f \in [DOMAIN q -> 1 .. m]
      /\ \A k, l \in DOMAIN q : k < l => f[k] < f[l]
      /\ \A k \in DOMAIN q : t[f[k]] = {q[k]}
      /\ \A j \in 1 .. m : (\A k \in DOMAIN q : f[k] # j) => t[j] = {}
  BY <1>0
<1>2. \A k \in DOMAIN q : f[k] \in 1 .. m /\ f[k] \in Int BY <1>1
<1>3. DOMAIN q = 1 .. Len(q) /\ Len(q) \in Nat OBVIOUS
<1> DEFINE g == [k \in DOMAIN q |-> IF f[k] < i THEN f[k] ELSE f[k] + 1]
<1>4. \A k \in DOMAIN q : /\ g[k] = IF f[k] < i THEN f[k] ELSE f[k] + 1
                          /\ g[k] \in 1 .. m + 1 /\ g[k] \in Int /\ g[k] # i
                          /\ IF g[k] < i THEN f[k] = g[k] ELSE f[k] = g[k] - 1
  BY <1>2
<1>5. g \in [DOMAIN q -> DOMAIN u] BY <1>4
<1> HIDE DEF g
<1>6. \A k, l \in DOMAIN q : k < l => g[k] < g[l] BY <1>1, <1>2, <1>4
<1>7. \A k \in DOMAIN q : u[g[k]] = {q[k]}
  <2> TAKE k \in DOMAIN q
  <2>1. t[f[k]] = {q[k]} BY <1>1
  <2>2. CASE g[k] < i BY <2>1, <2>2, <1>4
  <2>3. CASE ~(g[k] < i) BY <2>1, <2>3, <1>4
  <2> QED BY <2>2, <2>3
<1>8. ASSUME NEW j \in DOMAIN u, \A k \in DOMAIN q : g[k] # j PROVE u[j] = {}
  <2>1. CASE j < i
    <3>1. \A k \in DOMAIN q : f[k] # j BY <1>2, <1>4, <1>8, <2>1
    <3>2. j \in 1 .. m BY <2>1
    <3> QED BY <3>1, <3>2, <2>1, <1>1
  <2>2. CASE j = i BY <2>2
  <2>3. CASE j > i
    <3>1. j - 1 \in 1 .. m /\ u[j] = t[j - 1] BY <2>3
    <3>2. ASSUME NEW k \in DOMAIN q PROVE f[k] # j - 1
      <4>1. g[k] # j BY <1>8
      <4> QED BY <4>1, <2>3, <1>2, <1>4
    <3> QED BY <3>1, <3>2, <1>1
  <2> QED BY <2>1, <2>2, <2>3
<1> QED BY <1>5, <1>6, <1>7, <1>8 DEF Thin

\* What is announced first is what comes out of the queue.
LEMMA ThinTakes ==
    ASSUME NEW S, NEW q \in Seq(S), NEW m \in Nat, NEW t, DOMAIN t = 1 .. m, NEW x, 1 <= m, t[1] = {x},
           NEW u, DOMAIN u = 1 .. m - 1, \A j \in 1 .. m - 1 : u[j] = t[j + 1],
           Thin(q, t)
    PROVE  q # <<>> /\ Head(q) = x /\ Thin(Tail(q), u)
<1>0. PICK f \in [DOMAIN q -> DOMAIN t] :
        /\ \A k, l \in DOMAIN q : k < l => f[k] < f[l]
        /\ \A k \in DOMAIN q : t[f[k]] = {q[k]}
        /\ \A j \in DOMAIN t : (\A k \in DOMAIN q : f[k] # j) => t[j] = {}
  BY DEF Thin
<1>1. /\ f \in [DOMAIN q -> 1 .. m]
      /\ \A k, l \in DOMAIN q : k < l => f[k] < f[l]
      /\ \A k \in DOMAIN q : t[f[k]] = {q[k]}
      /\ \A j \in 1 .. m : (\A k \in DOMAIN q : f[k] # j) => t[j] = {}
  BY <1>0
<1>2. \A k \in DOMAIN q : f[k] \in 1 .. m /\ f[k] \in Int BY <1>1
<1>3. PICK k \in DOMAIN q : f[k] = 1
  <2>1. x \in t[1] /\ 1 \in 1 .. m OBVIOUS
  <2> QED BY <2>1, <1>1
<1>4. DOMAIN q = 1 .. Len(q) /\ Len(q) \in Nat OBVIOUS
<1>5. q # <<>> /\ 1 \in DOMAIN q /\ Len(q) >= 1 BY <1>3, <1>4
<1>6. k = 1
  <2>1. ASSUME k # 1 PROVE FALSE
    <3>1. 1 < k BY <2>1, <1>3, <1>4
    <3>2. f[1] < f[k] BY <3>1, <1>1, <1>3, <1>5
    <3> QED BY <3>2, <1>2, <1>3, <1>5
  <2> QED BY <2>1
<1>7. Head(q) = x
  <2>1. {q[1]} = {x} BY <1>1, <1>3, <1>6
  <2>2. q[1] = x BY <2>1
  <2>3. Head(q) = q[1] BY <1>5
  <2> QED BY <2>2, <2>3
<1> DEFINE r == Tail(q)
           g == [l \in DOMAIN r |-> f[l + 1] - 1]
<1>8. r \in Seq(S) /\ DOMAIN r = 1 .. Len(q) - 1 /\ \A l \in DOMAIN r : r[l] = q[l + 1] /\ l + 1 \in DOMAIN q /\ l \in Nat
  BY <1>4, <1>5
<1> HIDE DEF r
<1>9. \A l \in DOMAIN r : g[l] = f[l + 1] - 1 /\ g[l] \in 1 .. m - 1 /\ g[l] \in Int
  <2> TAKE l \in DOMAIN r
  <2>1. l + 1 \in DOMAIN q /\ 1 < l + 1 BY <1>8, <1>4
  <2>2. f[1] < f[l + 1] BY <2>1, <1>1, <1>5
  <2> QED BY <2>1, <2>2, <1>2, <1>3, <1>6
<1>10. g \in [DOMAIN r -> DOMAIN u] BY <1>9
<1> HIDE DEF g
<1>11. \A l, n \in DOMAIN r : l < n => g[l] < g[n]
  <2> TAKE l, n \in DOMAIN r
  <2> HAVE l < n
  <2>1. l + 1 \in DOMAIN q /\ n + 1 \in DOMAIN q /\ l + 1 < n + 1 BY <1>8
  <2>2. f[l + 1] < f[n + 1] BY <2>1, <1>1
  <2> QED BY <2>1, <2>2, <1>2, <1>9
<1>12. \A l \in DOMAIN r : u[g[l]] = {r[l]}
  <2> TAKE l \in DOMAIN r
  <2>1. t[f[l + 1]] = {q[l + 1]} /\ r[l] = q[l + 1] /\ l + 1 \in DOMAIN q BY <1>1, <1>8
  <2>2. u[g[l]] = t[g[l] + 1] /\ g[l] + 1 = f[l + 1] BY <2>1, <1>2, <1>9
  <2> QED BY <2>1, <2>2
<1>13. ASSUME NEW j \in DOMAIN u, \A l \in DOMAIN r : g[l] # j PROVE u[j] = {}
  <2>1. j + 1 \in 1 .. m /\ u[j] = t[j + 1] /\ j + 1 # 1 OBVIOUS
  <2>2. ASSUME NEW l \in DOMAIN q PROVE f[l] # j + 1
    <3>1. CASE l = 1 BY <3>1, <2>1, <1>3, <1>6
    <3>2. CASE l # 1
      <4>1. l - 1 \in DOMAIN r /\ (l - 1) + 1 = l BY <3>2, <1>4, <1>8
      <4>2. g[l - 1] = f[l] - 1 /\ g[l - 1] # j BY <4>1, <1>9, <1>13
      <4> QED BY <4>2, <1>2
    <3> QED BY <3>1, <3>2
  <2> QED BY <2>1, <2>2, <1>1
<1>14. Thin(r, u) BY <1>10, <1>11, <1>12, <1>13 DEF Thin
<1> QED BY <1>5, <1>7, <1>14 DEF r

\* u is t, of length m, with x announced behind it.
Gains(u, t, m, x) ==
    /\ DOMAIN t = 1 .. m /\ DOMAIN u = 1 .. m + 1
    /\ \A j \in 1 .. m : u[j] = t[j]
    /\ u[m + 1] = {x}

\* What is announced last comes in.
LEMMA ThinAdds ==
    ASSUME NEW S, NEW q \in Seq(S), NEW m \in Nat, NEW t, NEW x \in S, NEW u, Gains(u, t, m, x),
           Thin(q, t)
    PROVE  Thin(Append(q, x), u)
<1> USE DEF Gains
<1>0. PICK f \in [DOMAIN q -> DOMAIN t] :
        /\ \A k, l \in DOMAIN q : k < l => f[k] < f[l]
        /\ \A k \in DOMAIN q : t[f[k]] = {q[k]}
        /\ \A j \in DOMAIN t : (\A k \in DOMAIN q : f[k] # j) => t[j] = {}
  BY DEF Thin
<1>1. /\ f \in [DOMAIN q -> 1 .. m]
      /\ \A k, l \in DOMAIN q : k < l => f[k] < f[l]
      /\ \A k \in DOMAIN q : t[f[k]] = {q[k]}
      /\ \A j \in 1 .. m : (\A k \in DOMAIN q : f[k] # j) => t[j] = {}
  BY <1>0
<1>2. \A k \in DOMAIN q : f[k] \in 1 .. m /\ f[k] \in Int BY <1>1
<1> DEFINE n == Len(q) + 1
           r == Append(q, x)
           g == [k \in DOMAIN r |-> IF k = n THEN m + 1 ELSE f[k]]
<1>3. /\ Len(q) \in Nat /\ DOMAIN q = 1 .. Len(q) /\ DOMAIN r = 1 .. n /\ r[n] = x
      /\ \A k \in DOMAIN q : r[k] = q[k] /\ k # n /\ k \in DOMAIN r /\ k < n
  OBVIOUS
<1> HIDE DEF r
<1>4. \A k \in DOMAIN r : k = n \/ k \in DOMAIN q BY <1>3
<1>5. g[n] = m + 1 /\ n \in DOMAIN r /\ \A k \in DOMAIN q : g[k] = f[k] BY <1>3
<1>6. g \in [DOMAIN r -> DOMAIN u] BY <1>2, <1>4, <1>5
<1> HIDE DEF g
<1>7. \A k, l \in DOMAIN r : k < l => g[k] < g[l]
  <2> TAKE k, l \in DOMAIN r
  <2> HAVE k < l
  <2>1. k \in DOMAIN q BY <1>3, <1>4
  <2>2. CASE l = n BY <2>1, <2>2, <1>2, <1>5
  <2>3. CASE l # n BY <2>1, <2>3, <1>1, <1>4, <1>5
  <2> QED BY <2>2, <2>3
<1>8. \A k \in DOMAIN r : u[g[k]] = {r[k]} BY <1>1, <1>2, <1>3, <1>4, <1>5
<1>9. ASSUME NEW j \in DOMAIN u, \A k \in DOMAIN r : g[k] # j PROVE u[j] = {}
  <2>1. j # m + 1 /\ j \in 1 .. m BY <1>5, <1>9
  <2>2. \A k \in DOMAIN q : f[k] # j BY <1>3, <1>5, <1>9
  <2> QED BY <2>1, <2>2, <1>1
<1>10. Thin(r, u) BY <1>6, <1>7, <1>8, <1>9 DEF Thin
<1> QED BY <1>10 DEF r

-----------------------------------------------------------------------------
(* What a step leaves alone                                                *)

LEMMA PointersFrame == PointersInv /\ UNCHANGED <<ackd, reached, notAckd, written, edge>> => PointersInv'
BY DEF PointersInv

LEMMA ReportFrame ==
    ReportInv /\ UNCHANGED <<request, appReply, ackPushQ, appTable, ackd, written, edge>> => ReportInv'
BY DEF ReportInv, TableReports, PushReports, ReplyReport, IsReport, Seen

LEMMA RequestFrame == RequestInv /\ UNCHANGED <<request, appReqQ, appReply, appTable, written>> => RequestInv'
BY DEF RequestInv

LEMMA SentFrame == SentInv /\ UNCHANGED <<txQ, notAckd, written>> => SentInv'
BY DEF SentInv

LEMMA HeldFrame == HeldInv /\ UNCHANGED <<handler, cacheQ, written, app>> => HeldInv'
BY DEF HeldInv, Held

LEMMA StoredFrame == StoredInv /\ UNCHANGED <<pushQ, written, ackd, memory>> => StoredInv'
BY DEF StoredInv, InMemory

LEMMA PushesFrame == PushesAreHeld /\ UNCHANGED <<handler, cacheQ, pushQ>> => PushesAreHeld'
BY DEF PushesAreHeld, Gone, Held

LEMMA CountFrame == CountInv /\ UNCHANGED <<handler, cacheQ, pushQ, statuses>> => CountInv'
BY DEF CountInv, Gone, Held, Consumed

LEMMA RetransmitFrame ==
    RetransmitInv /\ UNCHANGED <<txQ, notAckd, pushQ, engine, segmentQ>> => RetransmitInv'
BY DEF RetransmitInv

LEMMA ReadsFrame == ReadsInv /\ UNCHANGED <<readCmdQ, segmentQ>> => ReadsInv'
BY DEF ReadsInv, ReadsDue

LEMMA DataFrame == DataInv /\ UNCHANGED <<bypassQ, segmentQ, txQ>> => DataInv'
BY DEF DataInv, DataDue

LEMMA WireFrame == WireInv /\ UNCHANGED <<wire, ackd>> => WireInv'
BY DEF WireInv, Original, BehindTheEnd

LEMMA AppTypesFrame ==
    AppTypes /\ UNCHANGED <<request, appReqQ, appReply, ackPushQ, appTable>> => AppTypes'
BY DEF AppTypes

LEMMA StoreTypesFrame == StoreTypes /\ UNCHANGED <<pushQ, cacheQ, handler, statuses, app, memory>> => StoreTypes'
BY DEF StoreTypes

LEMMA EngineTypesFrame == EngineTypes /\ UNCHANGED <<txQ, bypassQ, engine, readCmdQ, segmentQ>> => EngineTypes'
BY DEF EngineTypes

LEMMA PointerTypesFrame == PointerTypes /\ UNCHANGED <<ackd, reached, notAckd, written, edge>> => PointerTypes'
BY DEF PointerTypes

\* What is there is not empty.
LEMMA RecordsAreNotEmpty ==
    /\ \A r \in Requests : r # <<>>
    /\ \A h \in Handled : h # <<>>
    /\ \A e \in Rests : e # <<>>
BY DEF Requests, Handled, Rests

LEMMA ReplyIsNoNoReply == \A r \in Reports : r # NoReply
BY NoReplyAssumption, SizeAssumption DEF Reports, Addresses

-----------------------------------------------------------------------------
(* The initial state                                                       *)

LEMMA InitInv == Init => IInv
<1> SUFFICES ASSUME Init PROVE IInv OBVIOUS
<1>1. First \in Nat /\ Ring(First) \in Addresses /\ First - Ring(First - Ring(First)) = First
  BY SizeAssumption, RingIsAddress, SeenOfRing
<1>2. \A s \in Sessions : Window[s] \in Nat BY WindowAssumption
<1>3. Types
  <2>1. AppTypes BY <1>1, <1>2 DEF Init, AppTypes, Reports
  <2>2. StoreTypes BY <1>1 DEF Init, StoreTypes, Addresses, Places
  <2>3. EngineTypes BY DEF Init, EngineTypes
  <2>4. PointerTypes BY <1>1, <1>2 DEF Init, PointerTypes
  <2> QED BY <2>1, <2>2, <2>3, <2>4 DEF Types
<1>4. PointersInv BY <1>1, <1>2, SizeAssumption DEF Init, PointersInv
<1>5. ReportInv
  <2>1. \A s \in Sessions : Seen(s, Ring(First)) = First BY <1>1 DEF Init, Seen
  <2> QED BY <2>1, <1>1, <1>2 DEF Init, ReportInv, TableReports, PushReports, ReplyReport, IsReport
<1>6. RequestInv BY DEF Init, RequestInv
<1>7. \A s \in Sessions : Chain(<<>>, s, First, First) BY <1>1 DEF Chain
<1>8. Held = <<>> BY DEF Init, Held
<1>9. SentInv BY <1>7 DEF Init, SentInv
<1>10. HeldInv BY <1>1, <1>7, <1>8 DEF Init, HeldInv
<1>11. StoredInv BY <1>1, <1>7 DEF Init, StoredInv
<1>12. PushesAreHeld BY <1>8 DEF Init, PushesAreHeld, Gone
<1>13. CountInv
  <2> DEFINE f == [k \in 0 .. Len(Held) |-> 0]
  <2>1. f \in [0 .. Len(Held) -> Int] /\ SumsUp(f, Held) /\ f[0] = 0 BY <1>8 DEF SumsUp
  <2>2. Gone = 0 /\ statuses = 0 /\ Consumed = 0 /\ handler = <<>> BY <1>8 DEF Init, Gone, Consumed
  <2> QED BY <2>1, <2>2 DEF CountInv
<1>14. RetransmitInv BY DEF Init, RetransmitInv, AgainInv, RestInv
<1>15. \A t : DOMAIN t = {} => Thin(<<>>, t)
  <2> TAKE t
  <2> HAVE DOMAIN t = {}
  <2> DEFINE f == [k \in DOMAIN <<>> |-> 0]
  <2>1. DOMAIN <<>> = {} OBVIOUS
  <2>2. f \in [DOMAIN <<>> -> DOMAIN t] BY <2>1
  <2> QED BY <2>1, <2>2 DEF Thin
<1>16. ReadsInv
  <2>1. DOMAIN ReadsDue = {} BY DEF Init, ReadsDue
  <2> QED BY <2>1, <1>15 DEF Init, ReadsInv
<1>17. DataInv
  <2>1. DOMAIN DataDue = {} BY DEF Init, DataDue
  <2> QED BY <2>1, <1>15 DEF Init, DataInv
<1>18. WireInv BY DEF Init, WireInv
<1> QED BY <1>3, <1>4, <1>5, <1>6, <1>9, <1>10, <1>11, <1>12, <1>13, <1>14, <1>16, <1>17, <1>18 DEF IInv

-----------------------------------------------------------------------------
(* tasi_metaLoader and tx_app_table                                        *)

\* What a report stands for is one of the last BufferSize offsets written.
LEMMA SeenIsRecent ==
    ASSUME Types, NEW s \in Sessions, NEW a \in Addresses
    PROVE  /\ written[s] \in Nat /\ Ring(written[s] - a) \in Nat /\ Ring(written[s] - a) < BufferSize
           /\ Seen(s, a) \in Int /\ Seen(s, a) = written[s] - Ring(written[s] - a)
<1>1. written[s] \in Nat BY DEF Types, PointerTypes
<1>2. written[s] - a \in Int BY <1>1, SizeAssumption DEF Addresses
<1> QED BY <1>1, <1>2, RingIsAddress DEF Seen

\* Where reports wait, and of what.
LEMMA ReportsAreTyped ==
    ASSUME Types
    PROVE  /\ \A s \in Sessions : appTable[s] \in Reports /\ appTable[s].ackd \in Addresses /\ appTable[s].window \in Nat
                                  /\ appTable[s].mempt \in Addresses
           /\ \A i \in DOMAIN ackPushQ : /\ ackPushQ[i] \in AckPushes /\ ackPushQ[i].session \in Sessions
                                         /\ ackPushQ[i].ackd \in Addresses /\ ackPushQ[i].window \in Nat
           /\ appReply # NoReply => appReply \in Reports /\ appReply.ackd \in Addresses /\ appReply.window \in Nat
                                    /\ appReply.mempt \in Addresses
           /\ request # <<>> => request \in Requests /\ request.session \in Sessions /\ request.length \in Nat \ {0}
<1>1. \A r \in Reports : r.ackd \in Addresses /\ r.window \in Nat /\ r.mempt \in Addresses BY DEF Reports
<1>2. \A p \in AckPushes : p.session \in Sessions /\ p.ackd \in Addresses /\ p.window \in Nat BY DEF AckPushes
<1>3. \A r \in Requests : r.session \in Sessions /\ r.length \in Nat \ {0} BY LengthAssumption DEF Requests
<1>4. /\ appTable \in [Sessions -> Reports] /\ ackPushQ \in Seq(AckPushes)
      /\ appReply # NoReply => appReply \in Reports
      /\ request # <<>> => request \in Requests
  BY DEF Types, AppTypes
<1> HIDE DEF AckPushes
<1>5. \A i \in DOMAIN ackPushQ : ackPushQ[i] \in AckPushes BY <1>4
<1> QED BY <1>1, <1>2, <1>3, <1>4, <1>5

LEMMA AskWriteKeeps ==
    ASSUME IInv, NEW s \in Sessions, NEW n \in Lengths, AskWrite(s, n)
    PROVE  IInv'
<1> DEFINE q == [session |-> s, write |-> FALSE, mempt |-> 0]
           r == [session |-> s, length |-> n]
<1>1. /\ request = <<>> /\ request' = r /\ appReqQ' = Append(appReqQ, q)
      /\ UNCHANGED <<appReply, pushQ, cacheQ, bypassQ, written, appTable, statuses, handler, app, memory,
                     txQ, notAckd, engine, readCmdQ, segmentQ, wire, reached, ackd, ackPushQ, edge>>
  BY DEF AskWrite, storeVars, engineVars, peerVars
<1>2. r \in Requests /\ q \in AppRequests /\ r # <<>> /\ r.session = s /\ q.session = s /\ q.write = FALSE
  <2>1. r \in Requests /\ q \in AppRequests BY SizeAssumption DEF Requests, AppRequests, Addresses
  <2> QED BY <2>1, RecordsAreNotEmpty
<1> HIDE DEF q, r
<1>3. Types'
  <2>1. AppTypes' BY <1>1, <1>2 DEF IInv, Types, AppTypes
  <2> QED BY <2>1, <1>1, StoreTypesFrame, EngineTypesFrame, PointerTypesFrame DEF IInv, Types
<1>4. appReply = NoReply BY <1>1 DEF IInv, ReportInv, TableReports, PushReports, ReplyReport
<1>5. ReportInv' BY <1>1, <1>4 DEF IInv, ReportInv, TableReports, PushReports, ReplyReport, IsReport, Seen
<1>6. RequestInv'
  <2>1. appReqQ \in Seq(AppRequests) BY DEF IInv, Types, AppTypes
  <2>2. /\ Len(appReqQ) \in Nat /\ Len(appReqQ') = Len(appReqQ) + 1 /\ appReqQ' # <<>>
        /\ appReqQ'[Len(appReqQ) + 1] = q /\ DOMAIN appReqQ' = 1 .. Len(appReqQ) + 1
        /\ \A i \in DOMAIN appReqQ : appReqQ'[i] = appReqQ[i] /\ i \in 1 .. Len(appReqQ)
        /\ \A i \in DOMAIN appReqQ' : i = Len(appReqQ) + 1 \/ i \in DOMAIN appReqQ
    BY <2>1, <1>1, <1>2
  <2>3. \A i \in DOMAIN appReqQ : appReqQ[i].write /\ i = 1 /\ appReqQ[i].mempt = Ring(written[appReqQ[i].session])
    BY <1>1 DEF IInv, RequestInv
  <2>4. \A i \in DOMAIN appReqQ' :
          IF appReqQ'[i].write
            THEN i = 1 /\ appReqQ'[i].mempt = Ring(written'[appReqQ'[i].session])
            ELSE i = Len(appReqQ') /\ request' # <<>> /\ appReqQ'[i].session = request'.session /\ appReply' = NoReply
    BY <2>2, <2>3, <1>1, <1>2, <1>4
  <2>5. \A x \in Sessions :
          \/ appTable'[x].mempt = Ring(written'[x])
          \/ appReqQ' # <<>> /\ appReqQ'[1].write /\ appReqQ'[1].session = x
    <3> TAKE x \in Sessions
    <3>1. CASE appTable[x].mempt = Ring(written[x]) BY <3>1, <1>1
    <3>2. CASE appReqQ # <<>> /\ appReqQ[1].write /\ appReqQ[1].session = x
      <4>1. 1 \in DOMAIN appReqQ BY <3>2, <2>1
      <4> QED BY <4>1, <3>2, <2>2
    <3> QED BY <3>1, <3>2 DEF IInv, RequestInv
  <2> QED BY <2>4, <2>5, <1>1, <1>4 DEF RequestInv
<1> QED BY <1>1, <1>3, <1>5, <1>6, PointersFrame, SentFrame, HeldFrame, StoredFrame, PushesFrame, CountFrame,
           RetransmitFrame, ReadsFrame, DataFrame, WireFrame DEF IInv

LEMMA AppTablePushKeeps ==
    ASSUME IInv, AppTablePush
    PROVE  IInv'
<1> DEFINE p == Head(ackPushQ)
           s == p.session
<1>1. /\ ackPushQ # <<>> /\ ackPushQ' = Tail(ackPushQ)
      /\ appTable' = [appTable EXCEPT ![s].ackd = p.ackd, ![s].window = p.window]
      /\ UNCHANGED <<request, appReqQ, appReply, pushQ, cacheQ, bypassQ, written, statuses, handler, app, memory,
                     txQ, notAckd, engine, readCmdQ, segmentQ, wire, reached, ackd, edge>>
  BY DEF AppTablePush, appVars, storeVars, engineVars
<1>2. ackPushQ \in Seq(AckPushes) /\ appTable \in [Sessions -> Reports] BY DEF IInv, Types, AppTypes
<1>3. /\ 1 \in DOMAIN ackPushQ /\ p = ackPushQ[1] /\ p \in AckPushes /\ s \in Sessions
      /\ p.ackd \in Addresses /\ p.window \in Nat /\ p.window <= Window[s]
      /\ ackPushQ' \in Seq(AckPushes)
      /\ \A i \in DOMAIN ackPushQ' : i + 1 \in DOMAIN ackPushQ /\ i \in Nat /\ i > 0 /\ ackPushQ'[i] = ackPushQ[i + 1]
  BY <1>1, <1>2 DEF AckPushes
<1> HIDE DEF p
<1>4. /\ appTable' \in [Sessions -> Reports]
      /\ appTable'[s].ackd = p.ackd /\ appTable'[s].window = p.window
      /\ \A x \in Sessions : appTable'[x].mempt = appTable[x].mempt /\ (x # s => appTable'[x] = appTable[x])
  <2>1. PICK e : e = [appTable[s] EXCEPT !.ackd = p.ackd, !.window = p.window] OBVIOUS
  <2>2. appTable' = [appTable EXCEPT ![s] = e] BY <2>1, <1>1, <1>2, <1>3
  <2>3. e \in Reports /\ e.ackd = p.ackd /\ e.window = p.window /\ e.mempt = appTable[s].mempt
    BY <2>1, <1>2, <1>3 DEF Reports
  <2> QED BY <2>2, <2>3, <1>2, <1>3
<1>5. Types'
  <2>1. \A x \in Sessions : appTable'[x].window <= Window[x] BY <1>3, <1>4 DEF IInv, Types, AppTypes
  <2>2. AppTypes' BY <2>1, <1>1, <1>3, <1>4 DEF IInv, Types, AppTypes
  <2> QED BY <2>2, <1>1, StoreTypesFrame, EngineTypesFrame, PointerTypesFrame DEF IInv, Types
<1>7. ReportInv'
  <2>1. Types BY DEF IInv
  <2>2. \A x \in Sessions : Seen(x, appTable[x].ackd) <= Seen(x, appTable'[x].ackd)
    <3> TAKE x \in Sessions
    <3>1. Seen(x, appTable[x].ackd) \in Int BY <2>1, ReportsAreTyped, SeenIsRecent
    <3>2. CASE x = s BY <3>2, <1>3, <1>4 DEF IInv, ReportInv, TableReports, PushReports, ReplyReport
    <3>3. CASE x # s BY <3>1, <3>3, <1>4
    <3> QED BY <3>2, <3>3
  <2>4. ASSUME NEW x \in Sessions
        PROVE  Seen(x, appTable'[x].ackd) <= ackd[x] /\ Seen(x, appTable'[x].ackd) + appTable'[x].window <= edge[x]
    <3>1. CASE x = s BY <3>1, <1>3, <1>4 DEF IInv, ReportInv, TableReports, PushReports, ReplyReport, IsReport
    <3>2. CASE x # s BY <3>2, <1>4 DEF IInv, ReportInv, TableReports, PushReports, ReplyReport, IsReport
    <3> QED BY <3>1, <3>2
  <2>5. ASSUME NEW i \in DOMAIN ackPushQ'
        PROVE  LET e == ackPushQ'[i] IN
               /\ Seen(e.session, e.ackd) <= ackd[e.session] /\ Seen(e.session, e.ackd) + e.window <= edge[e.session]
               /\ Seen(e.session, appTable'[e.session].ackd) <= Seen(e.session, e.ackd)
               /\ \A j \in 1 .. i - 1 : ackPushQ'[j].session = e.session =>
                      Seen(e.session, ackPushQ'[j].ackd) <= Seen(e.session, e.ackd)
    <3> DEFINE e == ackPushQ[i + 1]
    <3>1. i + 1 \in DOMAIN ackPushQ /\ ackPushQ'[i] = e /\ i \in Nat /\ i > 0 BY <1>3
    <3>2. /\ Seen(e.session, e.ackd) <= ackd[e.session] /\ Seen(e.session, e.ackd) + e.window <= edge[e.session]
          /\ Seen(e.session, appTable[e.session].ackd) <= Seen(e.session, e.ackd)
          /\ \A j \in 1 .. (i + 1) - 1 : ackPushQ[j].session = e.session =>
                      Seen(e.session, ackPushQ[j].ackd) <= Seen(e.session, e.ackd)
      BY <3>1 DEF IInv, ReportInv, TableReports, PushReports, ReplyReport, IsReport
    <3>3. e.session \in Sessions BY <3>1, <2>1, ReportsAreTyped
    <3> HIDE DEF e
    <3>4. Seen(e.session, appTable'[e.session].ackd) <= Seen(e.session, e.ackd)
      <4>1. CASE e.session = s
        <5>1. 1 \in 1 .. (i + 1) - 1 BY <3>1
        <5> QED BY <5>1, <4>1, <3>2, <1>3, <1>4
      <4>2. CASE e.session # s BY <4>2, <3>2, <3>3, <1>4
      <4> QED BY <4>1, <4>2
    <3>5. ASSUME NEW j \in 1 .. i - 1, ackPushQ'[j].session = e.session
          PROVE  Seen(e.session, ackPushQ'[j].ackd) <= Seen(e.session, e.ackd)
      <4>1. j + 1 \in 1 .. (i + 1) - 1 BY <3>1
      <4>2. j \in DOMAIN ackPushQ' BY <3>1, <1>3
      <4>3. ackPushQ'[j] = ackPushQ[j + 1] BY <4>2, <1>3
      <4> QED BY <4>1, <4>3, <3>2, <3>5
    <3> QED BY <3>1, <3>2, <3>4, <3>5
  <2>6. appReply # NoReply =>
          /\ request # <<>> /\ request.session \in Sessions
          /\ Seen(request.session, appReply.ackd) <= ackd[request.session]
          /\ Seen(request.session, appReply.ackd) + appReply.window <= edge[request.session]
          /\ Seen(request.session, appReply.ackd) <= Seen(request.session, appTable'[request.session].ackd)
    <3> HAVE appReply # NoReply
    <3> DEFINE x == request.session
    <3>1. request # <<>> BY DEF IInv, ReportInv, TableReports, PushReports, ReplyReport
    <3>2. x \in Sessions BY <2>1, <3>1, ReportsAreTyped
    <3>3. /\ Seen(x, appReply.ackd) <= ackd[x] /\ Seen(x, appReply.ackd) + appReply.window <= edge[x]
          /\ Seen(x, appReply.ackd) <= Seen(x, appTable[x].ackd)
      BY DEF IInv, ReportInv, TableReports, PushReports, ReplyReport, IsReport
    <3>4. /\ Seen(x, appReply.ackd) \in Int /\ Seen(x, appTable[x].ackd) \in Int /\ Seen(x, appTable'[x].ackd) \in Int
      BY <2>1, <3>2, <1>4, ReportsAreTyped, SeenIsRecent DEF Reports
    <3> HIDE DEF x
    <3>5. Seen(x, appReply.ackd) <= Seen(x, appTable'[x].ackd) BY <2>2, <3>2, <3>3, <3>4
    <3> QED BY <3>1, <3>2, <3>3, <3>5 DEF x
  <2> QED BY <2>4, <2>5, <2>6, <1>1 DEF ReportInv, TableReports, PushReports, ReplyReport, IsReport, Seen
<1>8. RequestInv' BY <1>1, <1>4 DEF IInv, RequestInv
<1> QED BY <1>1, <1>5, <1>7, <1>8, PointersFrame, SentFrame, HeldFrame, StoredFrame, PushesFrame, CountFrame,
           RetransmitFrame, ReadsFrame, DataFrame, WireFrame DEF IInv

LEMMA AppTableServeKeeps ==
    ASSUME IInv, AppTableServe
    PROVE  IInv'
<1> DEFINE q == Head(appReqQ)
           s == q.session
<1>1. /\ appReqQ # <<>> /\ appReqQ' = Tail(appReqQ)
      /\ IF q.write THEN appTable' = [appTable EXCEPT ![s].mempt = q.mempt] /\ UNCHANGED appReply
                    ELSE appReply' = appTable[s] /\ UNCHANGED appTable
      /\ UNCHANGED <<request, pushQ, cacheQ, bypassQ, written, statuses, handler, app, memory,
                     txQ, notAckd, engine, readCmdQ, segmentQ, wire, reached, ackd, ackPushQ, edge>>
  BY DEF AppTableServe, storeVars, engineVars, peerVars
<1>2. appReqQ \in Seq(AppRequests) /\ appTable \in [Sessions -> Reports] BY DEF IInv, Types, AppTypes
<1>3. /\ 1 \in DOMAIN appReqQ /\ q = appReqQ[1] /\ q \in AppRequests /\ s \in Sessions
      /\ q.mempt \in Addresses /\ q.write \in BOOLEAN
      /\ appReqQ' \in Seq(AppRequests) /\ Len(appReqQ) \in Nat /\ Len(appReqQ') = Len(appReqQ) - 1
      /\ \A i \in DOMAIN appReqQ' : i + 1 \in DOMAIN appReqQ /\ i \in Nat /\ i > 0 /\ appReqQ'[i] = appReqQ[i + 1]
  <2>1. /\ 1 \in DOMAIN appReqQ /\ q = appReqQ[1] /\ Len(appReqQ) \in Nat
        /\ appReqQ' \in Seq(AppRequests) /\ Len(appReqQ') = Len(appReqQ) - 1
        /\ \A i \in DOMAIN appReqQ' : i + 1 \in DOMAIN appReqQ /\ i \in Nat /\ i > 0 /\ appReqQ'[i] = appReqQ[i + 1]
    BY <1>1, <1>2
  <2>2. q \in AppRequests BY <2>1, <1>2
  <2> QED BY <2>1, <2>2 DEF AppRequests
<1> HIDE DEF q
<1>4. /\ appTable' \in [Sessions -> Reports]
      /\ \A x \in Sessions : appTable'[x].ackd = appTable[x].ackd /\ appTable'[x].window = appTable[x].window
  <2>1. CASE q.write
    <3>1. appTable' = [appTable EXCEPT ![s].mempt = q.mempt] BY <2>1, <1>1
    <3> HIDE DEF s
    <3>2. appTable'[s] = [appTable[s] EXCEPT !.mempt = q.mempt] /\ appTable[s] \in Reports BY <3>1, <1>2, <1>3
    <3>3. appTable'[s] \in Reports /\ appTable'[s].ackd = appTable[s].ackd /\ appTable'[s].window = appTable[s].window
      BY <3>2, <1>3 DEF Reports
    <3> QED BY <3>1, <3>3, <1>2
  <2>2. CASE ~q.write BY <2>2, <1>1, <1>2
  <2> QED BY <2>1, <2>2
<1>5. Types'
  <2>1. appReply' \in {NoReply} \cup Reports
    <3>1. appTable[s] \in Reports BY <1>2, <1>3
    <3> QED BY <3>1, <1>1 DEF IInv, Types, AppTypes
  <2>2. AppTypes' BY <2>1, <1>1, <1>3, <1>4 DEF IInv, Types, AppTypes
  <2> QED BY <2>2, <1>1, StoreTypesFrame, EngineTypesFrame, PointerTypesFrame DEF IInv, Types
<1>8. TableReports' BY <1>1, <1>4 DEF IInv, ReportInv, TableReports, IsReport, Seen
<1>9. PushReports'
  <2>1. \A i \in DOMAIN ackPushQ : appTable'[ackPushQ[i].session].ackd = appTable[ackPushQ[i].session].ackd
    BY <1>4, ReportsAreTyped DEF IInv
  <2>3. \A i \in DOMAIN ackPushQ : IsReport(ackPushQ[i].session, ackPushQ[i])'
    BY <1>1 DEF IInv, ReportInv, PushReports, IsReport, Seen
  <2> QED BY <2>1, <2>3, <1>1 DEF IInv, ReportInv, PushReports, Seen
<1>6. CASE q.write
  <2>1. appReply = NoReply BY <1>1 DEF IInv, RequestInv
  <2>2. appReply' = NoReply /\ q.mempt = Ring(written[s]) BY <2>1, <1>1, <1>3, <1>6 DEF IInv, RequestInv
  <2>3. ReplyReport' BY <2>2 DEF ReplyReport
  <2>4. RequestInv'
    <3>1. \A i \in DOMAIN appReqQ' :
             /\ ~appReqQ'[i].write /\ i = Len(appReqQ') /\ request # <<>>
             /\ appReqQ'[i].session = request.session
      BY <1>3 DEF IInv, RequestInv
    <3>2. \A x \in Sessions : appTable'[x].mempt = Ring(written[x])
      <4> TAKE x \in Sessions
      <4>1. CASE x = s
        <5>1. appTable'[s].mempt = q.mempt BY <1>1, <1>2, <1>3, <1>6 DEF Reports
        <5> QED BY <5>1, <4>1, <2>2
      <4>2. CASE x # s
        <5>1. appTable'[x] = appTable[x] BY <1>1, <1>2, <1>6, <4>2
        <5> QED BY <5>1, <4>2, <1>3 DEF IInv, RequestInv
      <4> QED BY <4>1, <4>2
    <3> QED BY <3>1, <3>2, <1>1, <2>2 DEF RequestInv
  <2> QED BY <1>1, <1>5, <2>3, <1>8, <1>9, <2>4, PointersFrame, SentFrame, HeldFrame, StoredFrame, PushesFrame, CountFrame,
             RetransmitFrame, ReadsFrame, DataFrame, WireFrame DEF IInv, ReportInv
<1>7. CASE ~q.write
  <2>1. /\ appReply' = appTable[s] /\ appTable' = appTable
        /\ request # <<>> /\ s = request.session /\ Len(appReqQ) = 1 /\ appReqQ' = <<>>
    BY <1>1, <1>2, <1>3, <1>7 DEF IInv, RequestInv
  <2>2. appTable[s].mempt = Ring(written[s]) BY <1>3, <1>7 DEF IInv, RequestInv
  <2>3. ReplyReport'
    <3>3. \A x \in Sessions : Seen(x, appTable[x].ackd) \in Int BY ReportsAreTyped, SeenIsRecent DEF IInv
    <3>4. \A x \in Sessions : Seen(x, appTable[x].ackd)' = Seen(x, appTable[x].ackd) BY <1>1, <2>1 DEF Seen
    <3>5. \A x \in Sessions : Seen(x, appTable[x].ackd)' \in Int BY <3>3, <3>4
    <3>6. /\ request' # <<>> /\ request'.session \in Sessions /\ appReply' = appTable'[request'.session]
      BY <1>1, <1>3, <2>1
    <3>7. IsReport(request.session, appReply)' BY <3>6, <1>8 DEF TableReports, IsReport, Seen
    <3>8. Seen(request.session, appReply.ackd)' <= Seen(request.session, appTable[request.session].ackd)'
      BY <3>5, <3>6 DEF Seen
    <3> QED BY <3>6, <3>7, <3>8 DEF ReplyReport
  <2>4. RequestInv'
    <3>1. \A x \in Sessions : appTable'[x].mempt = Ring(written[x])
      BY <1>3, <1>7, <2>1 DEF IInv, RequestInv
    <3> QED BY <3>1, <2>1, <2>2, <1>1 DEF RequestInv
  <2> QED BY <1>1, <1>5, <2>3, <1>8, <1>9, <2>4, PointersFrame, SentFrame, HeldFrame, StoredFrame, PushesFrame, CountFrame,
             RetransmitFrame, ReadsFrame, DataFrame, WireFrame DEF IInv, ReportInv
<1> QED BY <1>6, <1>7

LEMMA RefuseKeeps ==
    ASSUME IInv, Refuse
    PROVE  IInv'
<1>1. /\ appReply # NoReply /\ request' = <<>> /\ appReply' = NoReply
      /\ UNCHANGED <<appReqQ, pushQ, cacheQ, bypassQ, written, appTable, statuses, handler, app, memory,
                     txQ, notAckd, engine, readCmdQ, segmentQ, wire, reached, ackd, ackPushQ, edge>>
  BY DEF Refuse, storeVars, engineVars, peerVars
<1>2. Types'
  <2>1. AppTypes' BY <1>1 DEF IInv, Types, AppTypes
  <2> QED BY <2>1, <1>1, StoreTypesFrame, EngineTypesFrame, PointerTypesFrame DEF IInv, Types
<1>3. ReportInv' BY <1>1 DEF IInv, ReportInv, TableReports, PushReports, ReplyReport, IsReport, Seen
<1>4. appReqQ = <<>> BY <1>1 DEF IInv, RequestInv
<1>5. RequestInv' BY <1>1, <1>4 DEF IInv, RequestInv
<1> QED BY <1>1, <1>2, <1>3, <1>5, PointersFrame, SentFrame, HeldFrame, StoredFrame, PushesFrame, CountFrame,
           RetransmitFrame, ReadsFrame, DataFrame, WireFrame DEF IInv

\* An acknowledgement that arrives, and its way to tx_app_table.
LEMMA AcknowledgeKeeps ==
    ASSUME IInv, NEW s \in Sessions, NEW a \in ackd[s] .. reached[s], NEW w \in 0 .. Window[s], Acknowledge(s, a, w)
    PROVE  IInv'
<1> DEFINE p == [session |-> s, ackd |-> Ring(a), window |-> w]
<1>1. /\ w \in {Window[s], edge[s] - a}
      /\ ackd' = [ackd EXCEPT ![s] = a] /\ ackPushQ' = Append(ackPushQ, p) /\ edge' = [edge EXCEPT ![s] = a + w]
      /\ UNCHANGED <<request, appReqQ, appReply, pushQ, cacheQ, bypassQ, written, appTable, statuses, handler, app,
                     memory, txQ, notAckd, engine, readCmdQ, segmentQ, wire, reached>>
  BY DEF Acknowledge, appVars, storeVars, engineVars
<1>2. /\ ackd \in [Sessions -> Nat] /\ edge \in [Sessions -> Nat] /\ reached \in [Sessions -> Nat]
      /\ notAckd \in [Sessions -> Nat] /\ written \in [Sessions -> Nat]
  BY DEF IInv, Types, PointerTypes
<1>3. /\ ackd[s] \in Nat /\ edge[s] \in Nat /\ reached[s] \in Nat /\ notAckd[s] \in Nat /\ written[s] \in Nat
      /\ Window[s] \in Nat /\ a \in Nat /\ w \in Nat
  BY <1>2, WindowAssumption
<1>4. /\ ackd[s] <= a /\ a <= reached[s] /\ reached[s] <= notAckd[s] /\ notAckd[s] <= written[s]
      /\ written[s] - a < BufferSize /\ edge[s] <= a + w /\ a + w <= a + Window[s] /\ written[s] <= a + w
  <2>1. /\ ackd[s] <= a /\ a <= reached[s] /\ w <= Window[s] BY <1>3
  <2>2. /\ reached[s] <= notAckd[s] /\ notAckd[s] <= written[s] /\ written[s] - ackd[s] < BufferSize
        /\ written[s] <= edge[s] /\ edge[s] <= ackd[s] + Window[s]
    BY DEF IInv, PointersInv
  <2>3. w = Window[s] \/ w = edge[s] - a BY <1>1
  <2> QED BY <2>1, <2>2, <2>3, <1>3, SizeAssumption
<1>5. /\ ackd' \in [Sessions -> Nat] /\ edge' \in [Sessions -> Nat]
      /\ ackd'[s] = a /\ edge'[s] = a + w
      /\ \A x \in Sessions : x # s => ackd'[x] = ackd[x] /\ edge'[x] = edge[x]
  BY <1>1, <1>2, <1>3
<1>6. \A x \in Sessions : ackd[x] <= ackd'[x] /\ edge[x] <= edge'[x]
  <2> TAKE x \in Sessions
  <2>1. CASE x = s BY <2>1, <1>4, <1>5
  <2>2. CASE x # s BY <2>2, <1>2, <1>5
  <2> QED BY <2>1, <2>2
<1>7. p \in AckPushes /\ p.session = s /\ p.ackd = Ring(a) /\ p.window = w /\ Ring(a) \in Addresses
  <2>1. Ring(a) \in Addresses BY <1>3, RingIsAddress
  <2> QED BY <2>1, <1>3 DEF AckPushes
<1> HIDE DEF p
<1>8. Types'
  <2>1. AppTypes' BY <1>1, <1>7 DEF IInv, Types, AppTypes
  <2>2. PointerTypes' BY <1>1, <1>5 DEF IInv, Types, PointerTypes
  <2> QED BY <2>1, <2>2, <1>1, StoreTypesFrame, EngineTypesFrame DEF IInv, Types
<1>9. PointersInv'
  <2>1. ASSUME NEW x \in Sessions
        PROVE  /\ ackd'[x] <= reached[x] /\ reached[x] <= notAckd[x] /\ notAckd[x] <= written[x]
               /\ written[x] - ackd'[x] < BufferSize
               /\ written[x] <= edge'[x] /\ edge'[x] <= ackd'[x] + Window[x]
    <3>1. CASE x = s BY <3>1, <1>4, <1>5
    <3>2. CASE x # s BY <3>2, <1>5 DEF IInv, PointersInv
    <3> QED BY <3>1, <3>2
  <2> QED BY <2>1, <1>1 DEF PointersInv
<1>10. ReportInv'
  <2>1. Types BY DEF IInv
  <2>2. Seen(s, Ring(a)) = a BY <1>3, <1>4, SeenOfRing DEF Seen
  <2>3. ASSUME NEW x \in Sessions, NEW b \in Addresses, NEW v \in Nat,
               Seen(x, b) <= ackd[x], Seen(x, b) + v <= edge[x]
        PROVE  Seen(x, b) <= ackd'[x] /\ Seen(x, b) + v <= edge'[x]
    <3>1. Seen(x, b) \in Int BY <2>1, SeenIsRecent
    <3>2. ackd[x] \in Nat /\ edge[x] \in Nat /\ ackd'[x] \in Nat /\ edge'[x] \in Nat BY <1>2, <1>5
    <3> QED BY <2>3, <3>1, <3>2, <1>6
  <2>4. ackPushQ \in Seq(AckPushes) BY DEF IInv, Types, AppTypes
  <2> DEFINE n == Len(ackPushQ) + 1
  <2>5. /\ n \in Nat /\ n - 1 = Len(ackPushQ) /\ Len(ackPushQ) \in Nat /\ DOMAIN ackPushQ' = 1 .. n /\ ackPushQ'[n] = p
        /\ \A i \in DOMAIN ackPushQ : ackPushQ'[i] = ackPushQ[i] /\ i \in 1 .. n - 1
        /\ \A i \in 1 .. n - 1 : i \in DOMAIN ackPushQ
    BY <2>4, <1>1
  <2> HIDE DEF n
  <2>6. \A x \in Sessions : Seen(x, appTable[x].ackd) <= ackd'[x] /\ Seen(x, appTable[x].ackd) + appTable[x].window <= edge'[x]
    BY <2>1, <2>3, ReportsAreTyped DEF IInv, ReportInv, TableReports, PushReports, ReplyReport, IsReport
  <2>7. ASSUME NEW i \in DOMAIN ackPushQ'
        PROVE  LET e == ackPushQ'[i] IN
               /\ Seen(e.session, e.ackd) <= ackd'[e.session] /\ Seen(e.session, e.ackd) + e.window <= edge'[e.session]
               /\ Seen(e.session, appTable[e.session].ackd) <= Seen(e.session, e.ackd)
               /\ \A j \in 1 .. i - 1 : ackPushQ'[j].session = e.session =>
                      Seen(e.session, ackPushQ'[j].ackd) <= Seen(e.session, e.ackd)
    <3>1. CASE i = n
      <4>1. ackPushQ'[i] = p BY <3>1, <2>5
      <4>2. Seen(s, appTable[s].ackd) <= a
        <5>1. Seen(s, appTable[s].ackd) \in Int BY <2>1, ReportsAreTyped, SeenIsRecent
        <5> QED BY <5>1, <1>3, <1>4 DEF IInv, ReportInv, TableReports, PushReports, ReplyReport, IsReport
      <4>3. ASSUME NEW j \in 1 .. i - 1, ackPushQ'[j].session = s PROVE Seen(s, ackPushQ'[j].ackd) <= a
        <5>1. j \in DOMAIN ackPushQ /\ ackPushQ'[j] = ackPushQ[j] BY <3>1, <2>5
        <5>2. Seen(s, ackPushQ[j].ackd) <= ackd[s] BY <5>1, <4>3 DEF IInv, ReportInv, TableReports, PushReports, ReplyReport, IsReport
        <5>3. Seen(s, ackPushQ[j].ackd) \in Int BY <5>1, <2>1, ReportsAreTyped, SeenIsRecent
        <5> QED BY <5>1, <5>2, <5>3, <1>3, <1>4
      <4> QED BY <4>1, <4>2, <4>3, <2>2, <1>3, <1>5, <1>7
    <3>2. CASE i # n
      <4> DEFINE e == ackPushQ[i]
      <4>1. i \in DOMAIN ackPushQ /\ ackPushQ'[i] = e /\ i \in 1 .. n - 1
        <5>1. i \in 1 .. n /\ n \in Int BY <2>5
        <5>2. i \in 1 .. n - 1 BY <5>1, <3>2
        <5> QED BY <5>2, <2>5
      <4>2. \A j \in 1 .. i - 1 : ackPushQ'[j] = ackPushQ[j] BY <4>1, <2>5
      <4>3. /\ Seen(e.session, e.ackd) <= ackd[e.session] /\ Seen(e.session, e.ackd) + e.window <= edge[e.session]
            /\ Seen(e.session, appTable[e.session].ackd) <= Seen(e.session, e.ackd)
            /\ \A j \in 1 .. i - 1 : ackPushQ[j].session = e.session =>
                      Seen(e.session, ackPushQ[j].ackd) <= Seen(e.session, e.ackd)
        BY <4>1 DEF IInv, ReportInv, TableReports, PushReports, ReplyReport, IsReport
      <4>4. e.session \in Sessions /\ e.ackd \in Addresses /\ e.window \in Nat BY <4>1, <2>1, ReportsAreTyped
      <4> HIDE DEF e
      <4>5. Seen(e.session, e.ackd) <= ackd'[e.session] /\ Seen(e.session, e.ackd) + e.window <= edge'[e.session]
        BY <4>3, <4>4, <2>3
      <4> QED BY <4>1, <4>2, <4>3, <4>5
    <3> QED BY <3>1, <3>2
  <2>8. appReply # NoReply =>
          /\ request # <<>>
          /\ Seen(request.session, appReply.ackd) <= ackd'[request.session]
          /\ Seen(request.session, appReply.ackd) + appReply.window <= edge'[request.session]
          /\ Seen(request.session, appReply.ackd) <= Seen(request.session, appTable[request.session].ackd)
    <3> HAVE appReply # NoReply
    <3>1. request # <<>> BY DEF IInv, ReportInv, TableReports, PushReports, ReplyReport
    <3>2. request.session \in Sessions /\ appReply.ackd \in Addresses /\ appReply.window \in Nat
      BY <2>1, <3>1, ReportsAreTyped
    <3>3. /\ Seen(request.session, appReply.ackd) <= ackd[request.session]
          /\ Seen(request.session, appReply.ackd) + appReply.window <= edge[request.session]
          /\ Seen(request.session, appReply.ackd) <= Seen(request.session, appTable[request.session].ackd)
      BY DEF IInv, ReportInv, TableReports, PushReports, ReplyReport, IsReport
    <3> QED BY <3>1, <3>2, <3>3, <2>3
  <2> QED BY <2>6, <2>7, <2>8, <1>1 DEF ReportInv, TableReports, PushReports, ReplyReport, IsReport, Seen
<1>11. StoredInv'
  <2>1. ASSUME NEW x \in Sessions
        PROVE  \E b \in 0 .. written[x] :
                  Chain(pushQ, x, b, written[x]) /\ \A i \in ackd'[x] .. b - 1 : InMemory(x, i)
    <3>1. PICK b \in 0 .. written[x] : Chain(pushQ, x, b, written[x]) /\ \A i \in ackd[x] .. b - 1 : InMemory(x, i)
      BY DEF IInv, StoredInv
    <3>2. ackd[x] \in Nat /\ ackd'[x] \in Nat /\ ackd[x] <= ackd'[x] /\ b \in Int BY <1>2, <1>5, <1>6
    <3>3. \A i \in ackd'[x] .. b - 1 : i \in ackd[x] .. b - 1 BY <3>2
    <3> QED BY <3>1, <3>3
  <2> QED BY <2>1, <1>1 DEF StoredInv, InMemory
<1>12. WireInv'
  <2>1. ASSUME wire # <<>>, NEW k \in DOMAIN wire.data PROVE Original(k)' \/ BehindTheEnd(k)
    <3>1. Original(k) \/ BehindTheEnd(k) BY <2>1 DEF IInv, WireInv
    <3>2. wire.session \in Sessions /\ wire.seq + k - 1 \in Int BY <2>1 DEF IInv, WireInv
    <3>3. ackd[wire.session] \in Nat /\ ackd'[wire.session] \in Nat /\ ackd[wire.session] <= ackd'[wire.session]
      BY <3>2, <1>2, <1>5, <1>6
    <3>4. Original(k) => Original(k)' BY <3>2, <3>3, <1>1 DEF Original
    <3> QED BY <3>1, <3>4
  <2> QED BY <2>1, <1>1 DEF IInv, WireInv, BehindTheEnd
<1> QED BY <1>1, <1>8, <1>9, <1>10, <1>11, <1>12, RequestFrame, SentFrame, HeldFrame, PushesFrame, CountFrame,
           RetransmitFrame, ReadsFrame, DataFrame DEF IInv

-----------------------------------------------------------------------------
(* A write is accepted                                                     *)

LEMMA QueuesAreDated ==
    ASSUME Types
    PROVE  /\ pushQ \in Seq(Events) /\ Held \in Seq(Events) /\ txQ \in Seq(Events \cup Again)
           /\ pushQ \in Seq(Dated) /\ Held \in Seq(Dated) /\ txQ \in Seq(Dated)
<1>1. \A h \in Handled : h.event \in Events BY DEF Handled
<1>2. /\ pushQ \in Seq(Events) /\ cacheQ \in Seq(Events) /\ txQ \in Seq(Events \cup Again)
      /\ handler # <<>> => handler \in Handled
  BY DEF Types, StoreTypes, EngineTypes
<1>3. Held \in Seq(Events)
  <2>1. CASE handler = <<>> BY <2>1, <1>2 DEF Held
  <2>2. CASE handler # <<>>
    <3>1. <<handler.event>> \in Seq(Events) BY <2>2, <1>1, <1>2
    <3> QED BY <3>1, <2>2, <1>2 DEF Held
  <2> QED BY <2>1, <2>2
<1>5. Events \subseteq Dated /\ Events \cup Again \subseteq Dated BY EventsAreDated
<1> QED BY <1>2, <1>3, <1>5, SeqMonotonic

\* What the reply admits, in offsets (maxWriteLength and usableWindow).
LEMMA FitsMeans ==
    ASSUME IInv, Accept, NEW s \in Sessions, s = request.session, NEW n, n = request.length
    PROVE  /\ n \in 1 .. BufferSize - 1 /\ written[s] \in Nat /\ appReply \in Reports /\ appReqQ = <<>>
           /\ appReply.ackd \in Addresses /\ appReply.mempt = Ring(written[s])
           /\ Ring(written[s] - appReply.ackd) \in Nat
           /\ Ring(written[s] - appReply.ackd) + n < BufferSize
           /\ (written[s] + n) - ackd[s] < BufferSize
           /\ written[s] + n <= edge[s]
<1> DEFINE w == written[s]
           a == appReply.ackd
           v == appReply.window
           u == Ring(w - a)
<1>1. /\ appReply # NoReply /\ Fits(n, appReply) BY DEF Accept
<1>2. Types BY DEF IInv
<1>3. /\ request # <<>> /\ appReqQ = <<>> /\ appReply.mempt = Ring(w) BY <1>1 DEF IInv, RequestInv
<1>4. /\ appReply \in Reports /\ a \in Addresses /\ v \in Nat /\ n \in Nat /\ n > 0
  BY <1>1, <1>2, <1>3, ReportsAreTyped
<1>5. w \in Nat /\ u \in Nat /\ u < BufferSize /\ Seen(s, a) = w - u BY <1>2, <1>4, SeenIsRecent
<1>6. ackd[s] \in Nat /\ edge[s] \in Nat BY DEF IInv, Types, PointerTypes
<1>7. w - u <= ackd[s] /\ (w - u) + v <= edge[s] BY <1>1, <1>5 DEF IInv, ReportInv, ReplyReport, IsReport
<1>8. MaxWriteLength(appReply) = BufferSize - 1 - u
  <2>1. Ring(a - Ring(w) - 1) = BufferSize - 1 - u BY <1>4, <1>5, RoomInRing
  <2> QED BY <2>1, <1>3 DEF MaxWriteLength
<1>9. UsableWindow(appReply) = IF v > u THEN v - u ELSE 0
  <2>1. Ring(Ring(w) - a) = u BY <1>4, <1>5, UsedInRing
  <2> QED BY <2>1, <1>3 DEF UsableWindow
<1> HIDE DEF w, a, v, u
<1>10. n <= BufferSize - 1 - u /\ n <= (IF v > u THEN v - u ELSE 0) BY <1>1, <1>8, <1>9 DEF Fits
<1>11. v > u /\ n <= v - u BY <1>10, <1>4, <1>5
<1>12. n \in 1 .. BufferSize - 1 /\ u + n < BufferSize BY <1>10, <1>4, <1>5, SizeAssumption
<1>13. (w + n) - ackd[s] < BufferSize /\ w + n <= edge[s]
  BY <1>4, <1>5, <1>6, <1>7, <1>11, <1>12, SizeAssumption
<1> QED BY <1>3, <1>4, <1>5, <1>12, <1>13 DEF w, a, u

\* What an acceptance changes.
LEMMA AcceptMeans ==
    ASSUME IInv, Accept
    PROVE  \E s \in Sessions, n \in 1 .. BufferSize - 1, e \in Events :
             /\ s = request.session /\ n = request.length
             /\ Of(e, s) /\ e.from = written[s] /\ e.length = n /\ End(e) = written[s] + n
             /\ pushQ' = Append(pushQ, e) /\ txQ' = Append(txQ, e) /\ cacheQ' = Append(cacheQ, e)
             /\ Held' = Append(Held, e)
             /\ appReqQ' = <<[session |-> s, write |-> TRUE, mempt |-> Ring(written[s] + n)]>>
             /\ bypassQ' = Append(bypassQ, Bytes(s, written[s], n))
             /\ written' = [written EXCEPT ![s] = @ + n]
             /\ request' = <<>> /\ appReply' = NoReply
             /\ UNCHANGED <<appTable, statuses, handler, app, memory, notAckd, engine, readCmdQ, segmentQ, wire, reached,
                            ackd, ackPushQ, edge>>
<1> DEFINE s == request.session
           n == request.length
           e == [type |-> "TX", session |-> s, address |-> appReply.mempt, length |-> n, from |-> written[s]]
<1>1. /\ appReply # NoReply
      /\ pushQ' = Append(pushQ, e) /\ txQ' = Append(txQ, e) /\ cacheQ' = Append(cacheQ, e)
      /\ appReqQ' = Append(appReqQ, [session |-> s, write |-> TRUE, mempt |-> NextFree(appReply, n)])
      /\ bypassQ' = Append(bypassQ, Bytes(s, written[s], n))
      /\ written' = [written EXCEPT ![s] = @ + n]
      /\ request' = <<>> /\ appReply' = NoReply
      /\ UNCHANGED <<appTable, statuses, handler, app, memory, notAckd, engine, readCmdQ, segmentQ, wire, reached,
                     ackd, ackPushQ, edge>>
  BY DEF Accept, storeVars, peerVars
<1>2. Types BY DEF IInv
<1>3. request # <<>> BY <1>1 DEF IInv, ReportInv, ReplyReport
<1>4. s \in Sessions BY <1>2, <1>3, ReportsAreTyped
<1>5. /\ n \in 1 .. BufferSize - 1 /\ written[s] \in Nat /\ appReqQ = <<>> /\ appReply.mempt = Ring(written[s])
  BY <1>4, FitsMeans
<1> HIDE DEF s, n
<1>6. NextFree(appReply, n) = Ring(written[s] + n)
  <2>1. written[s] \in Int /\ n \in Int BY <1>5
  <2>2. Ring(Ring(written[s]) + n) = Ring(written[s] + n) BY <2>1, RingInSum
  <2> QED BY <2>2, <1>5 DEF NextFree
<1>7. Ring(written[s]) \in Addresses BY <1>5, RingIsAddress
<1>8. e \in Events /\ Of(e, s) /\ e.from = written[s] /\ e.length = n /\ End(e) = written[s] + n
  BY <1>4, <1>5, <1>7, SizeAssumption DEF Events, Of, End
<1> HIDE DEF e
<1>9. Held' = Append(Held, e)
  <2>1. cacheQ \in Seq(Events) BY <1>2 DEF Types, StoreTypes
  <2>2. CASE handler = <<>> BY <2>2, <1>1 DEF Held
  <2>3. CASE handler # <<>>
    <3>1. handler \in Handled BY <2>3, <1>2 DEF Types, StoreTypes
    <3>2. <<handler.event>> \in Seq(Events) BY <3>1 DEF Handled
    <3>3. <<handler.event>> \o Append(cacheQ, e) = Append(<<handler.event>> \o cacheQ, e)
      BY <2>1, <3>2, <1>8
    <3> QED BY <3>3, <2>3, <1>1 DEF Held
  <2> QED BY <2>2, <2>3
<1>10. appReqQ' = <<[session |-> s, write |-> TRUE, mempt |-> Ring(written[s] + n)]>>
  BY <1>1, <1>5, <1>6
<1> QED BY <1>1, <1>4, <1>5, <1>8, <1>9, <1>10 DEF s, n

\* What was covered stays so: the new write lies behind all that was written.
LEMMA AcceptCovers ==
    ASSUME NEW q \in Seq(Events), NEW e \in Events, NEW x, NEW i \in Int, Covered(q, x, i),
           e.session = x => i <= e.from
    PROVE  Covered(Append(q, e), x, i)
<1>1. /\ \A k \in DOMAIN Append(q, e) : k = Len(q) + 1 \/ k \in DOMAIN q
      /\ Append(q, e)[Len(q) + 1] = e /\ \A k \in DOMAIN q : Append(q, e)[k] = q[k]
  OBVIOUS
<1> QED BY <1>1 DEF Covered

\* When a queue covers what was covered, the retransmissions ask for nothing of it.
LEMMA CoveredStays ==
    ASSUME IInv, NEW q, \A x \in Sessions, i \in Int : Covered(pushQ, x, i) /\ i <= written[x] => Covered(q, x, i)
    PROVE  /\ AgainInv(txQ, notAckd, q) /\ RestInv(engine, notAckd, q)
           /\ \A i \in DOMAIN segmentQ : SegmentInv(segmentQ[i], notAckd, q)
<1>1. \A x \in Sessions : notAckd[x] \in Nat /\ written[x] \in Nat /\ notAckd[x] <= written[x]
  BY DEF IInv, Types, PointerTypes, PointersInv
<1>2. ASSUME NEW x \in Sessions, NEW i \in Int, Covered(pushQ, x, i), i <= notAckd[x] PROVE Covered(q, x, i)
  <2>1. i <= written[x] BY <1>1, <1>2
  <2> QED BY <2>1, <1>2
<1>3. txQ \in Seq(Events \cup Again) /\ txQ \in Seq(Dated) BY QueuesAreDated DEF IInv
<1>4. AgainInv(txQ, notAckd, q)
  <2>1. ASSUME NEW i \in DOMAIN txQ, txQ[i].type = "RT"
        PROVE  /\ Covered(q, txQ[i].session, notAckd[txQ[i].session])
               /\ \A j \in 1 .. i - 1 : Of(txQ[j], txQ[i].session) => Covered(q, txQ[i].session, End(txQ[j]))
    <3> DEFINE x == txQ[i].session
    <3>1. x \in Sessions
      <4>1. txQ[i] \in Events \cup Again BY <1>3
      <4> QED BY <4>1, EventsAreDated DEF Again
    <3>2. Covered(pushQ, x, notAckd[x]) /\ \A j \in 1 .. i - 1 : Of(txQ[j], x) => Covered(pushQ, x, End(txQ[j]))
      BY <2>1 DEF IInv, RetransmitInv, AgainInv
    <3> HIDE DEF x
    <3>3. Covered(q, x, notAckd[x]) BY <3>1, <3>2, <1>1
    <3>4. ASSUME NEW j \in 1 .. i - 1, Of(txQ[j], x) PROVE Covered(q, x, End(txQ[j]))
      <4>1. j \in DOMAIN txQ /\ txQ[j] \in Dated BY <1>3
      <4>2. End(txQ[j]) <= written[x] BY <3>1, <3>4, <4>1 DEF IInv, SentInv, Chain
      <4>3. End(txQ[j]) \in Int BY <4>1, <3>4, OfIsEvent
      <4> QED BY <4>2, <4>3, <3>1, <3>2, <3>4
    <3> QED BY <3>3, <3>4 DEF x
  <2> QED BY <2>1 DEF AgainInv
<1>5. RestInv(engine, notAckd, q)
  <2>1. ASSUME engine # <<>>
        PROVE  engine.ackd + engine.left <= notAckd[engine.session] /\ Covered(q, engine.session, engine.ackd + engine.left)
    <3>1. engine \in Rests BY <2>1 DEF IInv, Types, EngineTypes
    <3>2. engine.session \in Sessions /\ engine.ackd + engine.left \in Int BY <3>1, SizeAssumption DEF Rests
    <3>3. engine.ackd + engine.left <= notAckd[engine.session] /\ Covered(pushQ, engine.session, engine.ackd + engine.left)
      BY <2>1 DEF IInv, RetransmitInv, RestInv
    <3> QED BY <3>2, <3>3, <1>2
  <2> QED BY <2>1 DEF RestInv
<1>6. ASSUME NEW i \in DOMAIN segmentQ PROVE SegmentInv(segmentQ[i], notAckd, q)
  <2> DEFINE g == segmentQ[i]
  <2>1. g \in Segments BY DEF IInv, Types, EngineTypes
  <2>2. g.session \in Sessions /\ g.seq + g.length \in Int BY <2>1 DEF Segments
  <2>3. SegmentInv(g, notAckd, pushQ) BY DEF IInv, RetransmitInv
  <2> HIDE DEF g
  <2>4. SegmentInv(g, notAckd, q) BY <2>2, <2>3, <1>2 DEF SegmentInv
  <2> QED BY <2>4 DEF g
<1> QED BY <1>4, <1>5, <1>6

\* The invariants of the application's side, after an acceptance.
LEMMA AcceptKeepsPointers ==
    ASSUME IInv, Accept
    PROVE  Types' /\ PointersInv' /\ ReportInv' /\ RequestInv'
<1>1. PICK s \in Sessions, n \in 1 .. BufferSize - 1, e \in Events :
             /\ s = request.session /\ n = request.length
             /\ Of(e, s) /\ e.from = written[s] /\ e.length = n /\ End(e) = written[s] + n
             /\ pushQ' = Append(pushQ, e) /\ txQ' = Append(txQ, e) /\ cacheQ' = Append(cacheQ, e)
             /\ Held' = Append(Held, e)
             /\ appReqQ' = <<[session |-> s, write |-> TRUE, mempt |-> Ring(written[s] + n)]>>
             /\ bypassQ' = Append(bypassQ, Bytes(s, written[s], n))
             /\ written' = [written EXCEPT ![s] = @ + n]
             /\ request' = <<>> /\ appReply' = NoReply
             /\ UNCHANGED <<appTable, statuses, handler, app, memory, notAckd, engine, readCmdQ, segmentQ, wire, reached,
                            ackd, ackPushQ, edge>>
  BY AcceptMeans
<1>2. /\ written[s] \in Nat /\ n \in Nat /\ appReply \in Reports /\ appReqQ = <<>>
      /\ appReply.ackd \in Addresses
      /\ Ring(written[s] - appReply.ackd) \in Nat
      /\ Ring(written[s] - appReply.ackd) + n < BufferSize
      /\ (written[s] + n) - ackd[s] < BufferSize
      /\ written[s] + n <= edge[s]
  BY <1>1, FitsMeans
<1>3. written \in [Sessions -> Nat] BY DEF IInv, Types, PointerTypes
<1>4. /\ written' \in [Sessions -> Nat] /\ written'[s] = written[s] + n
      /\ \A x \in Sessions : x # s => written'[x] = written[x]
  BY <1>1, <1>2, <1>3
<1>5. Types BY DEF IInv
<1>6. Types'
  <2>1. Ring(written[s] + n) \in Addresses
    <3>1. PICK w \in Nat : w = written[s] + n BY <1>2
    <3>2. Ring(w) \in Addresses BY ONLY <3>1, RingIsAddress, w \in Nat
    <3> QED BY <3>1, <3>2
  <2>2. AppTypes'
    <3>1. [session |-> s, write |-> TRUE, mempt |-> Ring(written[s] + n)] \in AppRequests BY <2>1 DEF AppRequests
    <3>2. appReqQ' \in Seq(AppRequests) BY <3>1, <1>1
    <3> QED BY <3>2, <1>1, <1>5 DEF Types, AppTypes
  <2>3. StoreTypes' BY <1>1, <1>5 DEF Types, StoreTypes
  <2>4. EngineTypes'
    <3>1. Bytes(s, written[s], n) \in Payloads BY <1>2 DEF Payloads
    <3>2. txQ \in Seq(Events \cup Again) /\ e \in Events \cup Again BY <1>5 DEF Types, EngineTypes
    <3> HIDE DEF Payloads
    <3>3. txQ' \in Seq(Events \cup Again) BY <3>2, <1>1
    <3> QED BY <3>1, <3>3, <1>1, <1>5 DEF Types, EngineTypes
  <2>5. PointerTypes' BY <1>1, <1>4, <1>5 DEF Types, PointerTypes
  <2> QED BY <2>2, <2>3, <2>4, <2>5 DEF Types
<1>7. PointersInv'
  <2>1. ASSUME NEW x \in Sessions
        PROVE  /\ ackd[x] <= reached[x] /\ reached[x] <= notAckd[x] /\ notAckd[x] <= written'[x]
               /\ written'[x] - ackd[x] < BufferSize
               /\ written'[x] <= edge[x] /\ edge[x] <= ackd[x] + Window[x]
    <3>1. /\ ackd[x] <= reached[x] /\ reached[x] <= notAckd[x] /\ notAckd[x] <= written[x]
          /\ written[x] - ackd[x] < BufferSize
          /\ written[x] <= edge[x] /\ edge[x] <= ackd[x] + Window[x]
      BY DEF IInv, PointersInv
    <3>2. notAckd[x] \in Nat BY <1>5 DEF Types, PointerTypes
    <3>3. CASE x = s BY <3>1, <3>2, <3>3, <1>2, <1>4
    <3>4. CASE x # s BY <3>1, <3>4, <1>4
    <3> QED BY <3>3, <3>4
  <2> QED BY <2>1, <1>1 DEF PointersInv
<1>8. /\ request # <<>> /\ request.session = s
      /\ Seen(s, appReply.ackd) \in Int
      /\ Seen(s, appReply.ackd) <= Seen(s, appTable[s].ackd)
  <2>1. appReply # NoReply BY DEF Accept
  <2>2. Seen(s, appReply.ackd) \in Int BY <1>2, <1>5, SeenIsRecent
  <2> QED BY <2>1, <2>2, <1>1 DEF IInv, ReportInv, ReplyReport
<1>9. ASSUME NEW a \in Addresses, Seen(s, appReply.ackd) <= Seen(s, a)
      PROVE  Seen(s, a)' = Seen(s, a)
  <2>1. Ring(written[s] - a) \in Nat /\ Seen(s, a) = written[s] - Ring(written[s] - a) BY <1>5, SeenIsRecent
  <2>2. Seen(s, appReply.ackd) = written[s] - Ring(written[s] - appReply.ackd) BY DEF Seen
  <2>3. Ring(written[s] - a) + n < BufferSize BY <2>1, <2>2, <1>2, <1>9, SizeAssumption
  <2>4. Ring((written[s] + n) - a) = Ring(written[s] - a) + n BY <2>3, <1>2, SeenStays
  <2>5. Seen(s, a)' = (written[s] + n) - Ring((written[s] + n) - a) BY <1>4 DEF Seen
  <2> QED BY <2>1, <2>4, <2>5, <1>2
<1>10. ASSUME NEW x \in Sessions, NEW a \in Addresses, x # s PROVE Seen(x, a)' = Seen(x, a)
  BY <1>4, <1>10 DEF Seen
<1>11. ASSUME NEW x \in Sessions PROVE Seen(x, appTable[x].ackd)' = Seen(x, appTable[x].ackd)
  <2>1. appTable'[x].ackd = appTable[x].ackd /\ appTable[x].ackd \in Addresses BY <1>1, <1>5, ReportsAreTyped
  <2>2. CASE x = s
    <3>2. \A a \in Addresses : a = appTable[s].ackd => Seen(s, a)' = Seen(s, a) BY <1>8, <1>9
    <3> QED BY <3>2, <2>1, <2>2, <1>1 DEF Seen
  <2>3. CASE x # s BY <2>1, <2>3, <1>4, <1>1 DEF Seen
  <2> QED BY <2>2, <2>3
<1>12. ASSUME NEW i \in DOMAIN ackPushQ
       PROVE  Seen(ackPushQ[i].session, ackPushQ[i].ackd)' = Seen(ackPushQ[i].session, ackPushQ[i].ackd)
  <2> DEFINE x == ackPushQ[i].session
             a == ackPushQ[i].ackd
  <2>1. x \in Sessions /\ a \in Addresses /\ ackPushQ' = ackPushQ BY <1>1, <1>5, ReportsAreTyped
  <2>2. Seen(x, appTable[x].ackd) <= Seen(x, a) BY DEF IInv, ReportInv, PushReports
  <2>3. Seen(x, appTable[x].ackd) \in Int /\ Seen(x, a) \in Int BY <2>1, <1>5, ReportsAreTyped, SeenIsRecent
  <2>4. CASE x = s
    <3>1. Seen(s, appReply.ackd) <= Seen(s, a) BY <2>2, <2>3, <2>4, <1>8
    <3>2. \A b \in Addresses : b = a => Seen(s, b)' = Seen(s, b) BY <3>1, <1>9
    <3> QED BY <3>2, <2>1, <2>4 DEF Seen
  <2>5. CASE x # s BY <2>1, <2>5, <1>4 DEF Seen
  <2> QED BY <2>4, <2>5
<1>13. ReportInv'
  <2>1. TableReports'
    <3>1. ASSUME NEW x \in Sessions PROVE IsReport(x, appTable[x])'
      <4>1. IsReport(x, appTable[x]) BY DEF IInv, ReportInv, TableReports
      <4> QED BY <4>1, <1>1, <1>11 DEF IsReport
    <3> QED BY <3>1 DEF TableReports
  <2>2. PushReports'
    <3>1. ASSUME NEW i \in DOMAIN ackPushQ
          PROVE  /\ IsReport(ackPushQ[i].session, ackPushQ[i])'
                 /\ Seen(ackPushQ[i].session, appTable[ackPushQ[i].session].ackd)'
                       <= Seen(ackPushQ[i].session, ackPushQ[i].ackd)'
                 /\ \A j \in 1 .. i - 1 : ackPushQ[j].session = ackPushQ[i].session =>
                       Seen(ackPushQ[i].session, ackPushQ[j].ackd)' <= Seen(ackPushQ[i].session, ackPushQ[i].ackd)'
      <4>1. /\ IsReport(ackPushQ[i].session, ackPushQ[i])
            /\ Seen(ackPushQ[i].session, appTable[ackPushQ[i].session].ackd) <= Seen(ackPushQ[i].session, ackPushQ[i].ackd)
            /\ \A j \in 1 .. i - 1 : ackPushQ[j].session = ackPushQ[i].session =>
                  Seen(ackPushQ[i].session, ackPushQ[j].ackd) <= Seen(ackPushQ[i].session, ackPushQ[i].ackd)
        BY DEF IInv, ReportInv, PushReports
      <4>2. ackPushQ[i].session \in Sessions BY <1>5, ReportsAreTyped
      <4>3. IsReport(ackPushQ[i].session, ackPushQ[i])' BY <4>1, <1>1, <1>12 DEF IsReport
      <4>4. Seen(ackPushQ[i].session, appTable[ackPushQ[i].session].ackd)'
               = Seen(ackPushQ[i].session, appTable[ackPushQ[i].session].ackd)
        BY <4>2, <1>1, <1>11 DEF Seen
      <4>5. ASSUME NEW j \in 1 .. i - 1, ackPushQ[j].session = ackPushQ[i].session
            PROVE  Seen(ackPushQ[i].session, ackPushQ[j].ackd)' <= Seen(ackPushQ[i].session, ackPushQ[i].ackd)'
        <5>1. ackPushQ \in Seq(AckPushes) BY <1>5 DEF Types, AppTypes
        <5>2. j \in DOMAIN ackPushQ BY <5>1
        <5>3. Seen(ackPushQ[j].session, ackPushQ[j].ackd)' = Seen(ackPushQ[j].session, ackPushQ[j].ackd) BY <5>2, <1>12
        <5> QED BY <5>3, <4>1, <4>5, <1>1, <1>12 DEF Seen
      <4> QED BY <4>1, <4>3, <4>4, <4>5, <1>12
    <3> QED BY <3>1, <1>1 DEF PushReports, Seen
  <2>3. ReplyReport' BY <1>1 DEF ReplyReport
  <2> QED BY <2>1, <2>2, <2>3 DEF ReportInv
<1>14. RequestInv'
  <2> DEFINE q == [session |-> s, write |-> TRUE, mempt |-> Ring(written[s] + n)]
  <2>1. appReqQ' = <<q>> /\ q.session = s /\ q.write /\ q.mempt = Ring(written'[s]) BY <1>1, <1>4
  <2> HIDE DEF q
  <2>2. DOMAIN appReqQ' = {1} /\ appReqQ'[1] = q /\ appReqQ' # <<>> BY <2>1
  <2>3. \A x \in Sessions : x # s => appTable'[x].mempt = Ring(written'[x])
    BY <1>1, <1>2, <1>4 DEF IInv, RequestInv
  <2>4. \A x \in Sessions :
          \/ appTable'[x].mempt = Ring(written'[x])
          \/ appReqQ' # <<>> /\ appReqQ'[1].write /\ appReqQ'[1].session = x
    BY <2>1, <2>2, <2>3
  <2>5. \A i \in DOMAIN appReqQ' : /\ appReqQ'[i].write /\ i = 1
                                   /\ appReqQ'[i].mempt = Ring(written'[appReqQ'[i].session])
    BY <2>1, <2>2
  <2> QED BY <2>4, <2>5, <1>1 DEF RequestInv
<1> QED BY <1>6, <1>7, <1>13, <1>14

\* A chain of the session gets the event, a chain of another one does not see it.
LEMMA ChainAccepts ==
    ASSUME NEW q \in Seq(Dated), NEW s, NEW e \in Dated, NEW x, NEW base \in Nat, NEW top \in Nat,
           Chain(q, x, base, top), e.type = "TX", e.session = s, x = s => e.from = top
    PROVE  Chain(Append(q, e), x, base, IF x = s THEN End(e) ELSE top)
<1>1. CASE x = s BY <1>1, ChainGrows DEF Of
<1>2. CASE x # s BY <1>2, ChainPasses DEF Of
<1> QED BY <1>1, <1>2

\* The statuses of a longer queue are those of the queue and of what came.
LEMMA SumsGrow ==
    ASSUME NEW q \in Seq(Events), NEW e \in Events, NEW f \in [0 .. Len(q) -> Int], SumsUp(f, q)
    PROVE  \E g \in [0 .. Len(q) + 1 -> Int] : SumsUp(g, Append(q, e)) /\ \A k \in 0 .. Len(q) : g[k] = f[k]
<1> DEFINE n == Len(q) + 1
           r == Append(q, e)
           g == [k \in 0 .. n |-> IF k = n THEN f[n - 1] + StatusesFor(e) ELSE f[k]]
<1>1. /\ Len(q) \in Nat /\ n - 1 = Len(q) /\ n \in Nat /\ DOMAIN r = 1 .. n /\ r[n] = e
      /\ DOMAIN q = 1 .. n - 1 /\ \A k \in 1 .. n - 1 : r[k] = q[k] /\ k # n
  OBVIOUS
<1>2. StatusesFor(e) \in Nat BY DEF StatusesFor
<1> HIDE DEF n, r
<1>3. /\ \A k \in 0 .. n - 1 : k \in 0 .. n /\ k # n /\ g[k] = f[k] /\ f[k] \in Int
      /\ g[n] = f[n - 1] + StatusesFor(e) /\ f[n - 1] \in Int
  BY <1>1
<1>4. g \in [0 .. n -> Int]
  <2>1. \A k \in 0 .. n : k = n \/ k \in 0 .. n - 1 BY <1>1
  <2>2. g[n] \in Int
    <3>1. PICK b \in Int : b = f[n - 1] BY <1>3
    <3>2. PICK d \in Nat : d = StatusesFor(e) BY <1>2
    <3>3. g[n] = b + d BY <3>1, <3>2, <1>3
    <3> QED BY <3>3
  <2>3. \A k \in 0 .. n : g[k] \in Int BY <2>1, <2>2, <1>3
  <2> QED BY <2>3
<1> HIDE DEF g
<1>5. g[0] = 0 BY <1>1, <1>3 DEF SumsUp
<1>6. ASSUME NEW k \in DOMAIN r PROVE g[k] = g[k - 1] + StatusesFor(r[k])
  <2>1. CASE k = n
    <3>1. n - 1 \in 0 .. n - 1 BY <1>1
    <3> QED BY <3>1, <2>1, <1>1, <1>3
  <2>2. CASE k # n
    <3>1. k \in 1 .. n - 1 /\ k \in 0 .. n - 1 /\ k - 1 \in 0 .. n - 1 BY <2>2, <1>1
    <3> QED BY <3>1, <1>1, <1>3 DEF SumsUp
  <2> QED BY <2>1, <2>2
<1>7. SumsUp(g, r) BY <1>5, <1>6 DEF SumsUp
<1>8. \A k \in 0 .. Len(q) : g[k] = f[k] BY <1>1, <1>3
<1> QED BY <1>4, <1>7, <1>8 DEF n, r

\* The invariants of the queues, after an acceptance.
LEMMA AcceptKeepsQueues ==
    ASSUME IInv, Accept
    PROVE  /\ SentInv' /\ HeldInv' /\ StoredInv' /\ PushesAreHeld' /\ CountInv'
           /\ RetransmitInv' /\ ReadsInv' /\ DataInv' /\ WireInv'
<1>1. PICK s \in Sessions, n \in 1 .. BufferSize - 1, e \in Events :
             /\ s = request.session /\ n = request.length
             /\ Of(e, s) /\ e.from = written[s] /\ e.length = n /\ End(e) = written[s] + n
             /\ pushQ' = Append(pushQ, e) /\ txQ' = Append(txQ, e) /\ cacheQ' = Append(cacheQ, e)
             /\ Held' = Append(Held, e)
             /\ appReqQ' = <<[session |-> s, write |-> TRUE, mempt |-> Ring(written[s] + n)]>>
             /\ bypassQ' = Append(bypassQ, Bytes(s, written[s], n))
             /\ written' = [written EXCEPT ![s] = @ + n]
             /\ request' = <<>> /\ appReply' = NoReply
             /\ UNCHANGED <<appTable, statuses, handler, app, memory, notAckd, engine, readCmdQ, segmentQ, wire, reached,
                            ackd, ackPushQ, edge>>
  BY AcceptMeans
<1>2. Types /\ written \in [Sessions -> Nat] /\ notAckd \in [Sessions -> Nat] BY DEF IInv, Types, PointerTypes
<1>3. /\ pushQ \in Seq(Events) /\ Held \in Seq(Events) /\ txQ \in Seq(Events \cup Again)
      /\ pushQ \in Seq(Dated) /\ Held \in Seq(Dated) /\ txQ \in Seq(Dated)
  BY <1>2, QueuesAreDated
<1>4. e \in Dated /\ e.type = "TX" /\ e.session = s BY <1>1, EventsAreDated DEF Of
<1>5. n \in Nat /\ n > 0 OBVIOUS
<1>6. \A x \in Sessions : /\ written[x] \in Nat /\ notAckd[x] \in Nat /\ written'[x] \in Nat /\ written[x] <= written'[x]
                          /\ written'[x] = IF x = s THEN End(e) ELSE written[x]
  BY <1>1, <1>2, <1>5
<1>7. SentInv'
  <2>1. ASSUME NEW x \in Sessions PROVE Chain(Append(txQ, e), x, notAckd[x], written'[x])
    <3>1. Chain(txQ, x, notAckd[x], written[x]) BY DEF IInv, SentInv
    <3>2. x = s => e.from = written[x] BY <1>1
    <3>3. Chain(Append(txQ, e), x, notAckd[x], IF x = s THEN End(e) ELSE written[x])
      BY <3>1, <3>2, <1>3, <1>4, <1>6, ChainAccepts
    <3> QED BY <3>3, <1>6
  <2> QED BY <2>1, <1>1 DEF SentInv
<1>8. HeldInv'
  <2>1. ASSUME NEW x \in Sessions
        PROVE  \E r \in 0 .. written'[x] : Chain(Append(Held, e), x, r, written'[x]) /\ app[x] = Ring(r)
    <3>1. PICK r \in 0 .. written[x] : Chain(Held, x, r, written[x]) /\ app[x] = Ring(r) BY DEF IInv, HeldInv
    <3>2. r \in Nat /\ r \in 0 .. written'[x] BY <1>6
    <3>3. x = s => e.from = written[x] BY <1>1
    <3>4. Chain(Append(Held, e), x, r, IF x = s THEN End(e) ELSE written[x])
      BY <3>1, <3>2, <3>3, <1>3, <1>4, <1>6, ChainAccepts
    <3> QED BY <3>1, <3>2, <3>4, <1>6
  <2> QED BY <2>1, <1>1 DEF HeldInv
<1>9. StoredInv'
  <2>1. ASSUME NEW x \in Sessions
        PROVE  \E b \in 0 .. written'[x] :
                  Chain(Append(pushQ, e), x, b, written'[x]) /\ \A i \in ackd[x] .. b - 1 : InMemory(x, i)
    <3>1. PICK b \in 0 .. written[x] : Chain(pushQ, x, b, written[x]) /\ \A i \in ackd[x] .. b - 1 : InMemory(x, i)
      BY DEF IInv, StoredInv
    <3>2. b \in Nat /\ b \in 0 .. written'[x] BY <1>6
    <3>3. x = s => e.from = written[x] BY <1>1
    <3>4. Chain(Append(pushQ, e), x, b, IF x = s THEN End(e) ELSE written[x])
      BY <3>1, <3>2, <3>3, <1>3, <1>4, <1>6, ChainAccepts
    <3> QED BY <3>1, <3>2, <3>4, <1>6
  <2> QED BY <2>1, <1>1 DEF StoredInv, InMemory
<1>10. /\ Len(Held) \in Nat /\ Len(pushQ) \in Nat /\ Gone \in Nat /\ Gone = Len(Held) - Len(pushQ)
       /\ Len(Held') = Len(Held) + 1 /\ Len(pushQ') = Len(pushQ) + 1 /\ Gone' = Gone
       /\ \A i \in DOMAIN pushQ : pushQ[i] = Held[Gone + i]
  BY <1>1, <1>3 DEF IInv, PushesAreHeld, Gone
<1>11. PushesAreHeld'
  <2>1. ASSUME NEW i \in DOMAIN pushQ' PROVE pushQ'[i] = Held'[Gone + i]
    <3>1. CASE i = Len(pushQ) + 1
      <4>1. Gone + i = Len(Held) + 1 BY <3>1, <1>10
      <4> QED BY <4>1, <3>1, <1>1, <1>3
    <3>2. CASE i # Len(pushQ) + 1
      <4>1. i \in 1 .. Len(pushQ) /\ i \in DOMAIN pushQ BY <3>2, <1>1, <1>3
      <4>2. Gone + i \in 1 .. Len(Held) BY <4>1, <1>10
      <4>3. Held'[Gone + i] = Held[Gone + i] BY <4>2, <1>1, <1>3
      <4> QED BY <4>1, <4>3, <1>1, <1>3, <1>10
    <3> QED BY <3>1, <3>2
  <2> QED BY <2>1, <1>10 DEF PushesAreHeld
<1>12. CountInv'
  <2>1. PICK f \in [0 .. Len(Held) -> Int] : SumsUp(f, Held) /\ statuses + Consumed = f[Gone]
    BY DEF IInv, CountInv
  <2>2. PICK g \in [0 .. Len(Held) + 1 -> Int] : SumsUp(g, Append(Held, e)) /\ \A k \in 0 .. Len(Held) : g[k] = f[k]
    BY <2>1, <1>3, SumsGrow
  <2>3. Gone \in 0 .. Len(Held) BY <1>10
  <2>4. /\ g \in [0 .. Len(Held') -> Int] /\ SumsUp(g, Held') /\ (statuses + Consumed)' = g[Gone']
    BY <2>1, <2>2, <2>3, <1>1, <1>10 DEF Consumed
  <2>5. handler' # <<>> => handler'.missing <= StatusesFor(handler'.event) BY <1>1 DEF IInv, CountInv
  <2> QED BY <2>4, <2>5 DEF CountInv
<1>13. RetransmitInv'
  <2>1. ASSUME NEW x \in Sessions, NEW i \in Int, Covered(pushQ, x, i), i <= written[x] PROVE Covered(pushQ', x, i)
    <3>1. e.session = x => i <= e.from BY <2>1, <1>1, <1>4
    <3>2. Covered(Append(pushQ, e), x, i) BY <3>1, <2>1, <1>3, AcceptCovers
    <3> QED BY <3>2, <1>1
  <2>2. /\ AgainInv(txQ, notAckd, pushQ') /\ RestInv(engine, notAckd, pushQ')
        /\ \A i \in DOMAIN segmentQ : SegmentInv(segmentQ[i], notAckd, pushQ')
    BY <2>1, CoveredStays
  <2>3. ASSUME NEW i \in DOMAIN txQ', txQ'[i].type = "RT"
        PROVE  /\ Covered(pushQ', txQ'[i].session, notAckd[txQ'[i].session])
               /\ \A j \in 1 .. i - 1 : Of(txQ'[j], txQ'[i].session) => Covered(pushQ', txQ'[i].session, End(txQ'[j]))
    <3>1. i # Len(txQ) + 1 BY <2>3, <1>1, <1>3, <1>4
    <3>2. i \in DOMAIN txQ /\ txQ'[i] = txQ[i] /\ \A j \in 1 .. i - 1 : txQ'[j] = txQ[j] BY <3>1, <1>1, <1>3
    <3> QED BY <3>2, <2>2, <2>3 DEF AgainInv
  <2>4. AgainInv(txQ', notAckd, pushQ') BY <2>3 DEF AgainInv
  <2> QED BY <2>2, <2>4, <1>1 DEF RetransmitInv
<1>14. DataInv'
  <2> DEFINE m == Len(segmentQ) + Len(txQ)
             x == Bytes(s, written[s], n)
  <2>1. Len(segmentQ) \in Nat /\ Len(txQ) \in Nat /\ m \in Nat /\ bypassQ \in Seq(Payloads)
    BY <1>2 DEF Types, EngineTypes
  <2>2. x \in Payloads BY <1>5, <1>6 DEF Payloads
  <2>3. /\ Len(segmentQ') = Len(segmentQ) /\ Len(txQ') = Len(txQ) + 1 /\ DOMAIN DataDue' = 1 .. m + 1
        /\ DOMAIN DataDue = 1 .. m
    BY <1>1, <1>3, <2>1 DEF DataDue
  <2>4. ASSUME NEW j \in 1 .. m PROVE DataDue'[j] = DataDue[j]
    <3>1. CASE j <= Len(segmentQ) BY <3>1, <2>1, <2>3, <1>1 DEF DataDue
    <3>2. CASE ~(j <= Len(segmentQ))
      <4>1. j - Len(segmentQ) \in 1 .. Len(txQ) BY <3>2, <2>1
      <4>2. txQ'[j - Len(segmentQ)] = txQ[j - Len(segmentQ)] BY <4>1, <1>1, <1>3
      <4> QED BY <4>2, <3>2, <2>1, <2>3, <1>1 DEF DataDue
    <3> QED BY <3>1, <3>2
  <2>5. DataDue'[m + 1] = {x}
    <3>1. ToPass(e) = {x} BY <1>1, <1>4 DEF ToPass
    <3>2. ~(m + 1 <= Len(segmentQ)) /\ (m + 1) - Len(segmentQ) = Len(txQ) + 1 BY <2>1
    <3>3. txQ'[Len(txQ) + 1] = e BY <1>1, <1>3
    <3> QED BY <3>1, <3>2, <3>3, <2>1, <2>3, <1>1 DEF DataDue
  <2> HIDE DEF m, x
  <2>6. Thin(bypassQ, DataDue) BY DEF IInv, DataInv
  <2>8. PICK t : t = DataDue OBVIOUS
  <2>9. PICK u : u = DataDue' OBVIOUS
  <2>10. Gains(u, t, m, x) BY <2>3, <2>4, <2>5, <2>8, <2>9 DEF Gains
  <2>11. Thin(bypassQ, t) BY <2>6, <2>8
  <2>7. Thin(Append(bypassQ, x), u) BY ONLY <2>1, <2>2, <2>10, <2>11, ThinAdds
  <2> QED BY <2>7, <2>9, <1>1 DEF DataInv, x
<1> QED BY <1>1, <1>7, <1>8, <1>9, <1>11, <1>12, <1>13, <1>14, ReadsFrame, WireFrame DEF IInv

LEMMA AcceptKeeps == IInv /\ Accept => IInv'
BY AcceptKeepsPointers, AcceptKeepsQueues DEF IInv

-----------------------------------------------------------------------------
(* A write goes to the memory                                              *)

Memories == [Sessions -> [Addresses -> Places]]

\* d is n places long.
OfPlaces(d, n) == Len(d) = n /\ \A k \in 1 .. n : d[k] \in Places

\* r is m with d, of length n, at the addresses from a on of s.
IsWritten(m, r, s, a, n, d) ==
    /\ r \in Memories
    /\ \A x \in Sessions : x # s => r[x] = m[x]
    /\ \A c \in Addresses : r[s][c] = IF c \in a .. a + n - 1 THEN d[c - a + 1] ELSE m[s][c]

\* What one command to the data mover changes.
LEMMA WriteMeans ==
    ASSUME NEW m \in Memories, NEW s \in Sessions, NEW a \in Addresses, NEW n \in Nat,
           NEW d, OfPlaces(d, n), NEW w, w = [session |-> s, address |-> a, data |-> d]
    PROVE  IsWritten(m, Write(m, w), s, a, n, d)
<1> USE DEF OfPlaces, IsWritten
<1> DEFINE f == [c \in Addresses |-> IF c \in a .. a + n - 1 THEN d[c - a + 1] ELSE m[s][c]]
<1>1. a \in Nat BY DEF Addresses
<1>2. m \in [Sessions -> [Addresses -> Places]] /\ DOMAIN m[s] = Addresses BY DEF Memories
<1>3. Write(m, w) = [m EXCEPT ![s] = f]
  <2>1. w.session = s /\ w.address = a /\ w.data = d OBVIOUS
  <2> QED BY <2>1, <1>2 DEF Write
<1>4. f \in [Addresses -> Places]
  <2>1. ASSUME NEW c \in Addresses PROVE f[c] \in Places
    <3>1. CASE c \in a .. a + n - 1
      <4>1. c - a + 1 \in 1 .. n BY <3>1, <1>1
      <4> QED BY <4>1, <3>1
    <3>2. CASE c \notin a .. a + n - 1 BY <3>2, <1>2
    <3> QED BY <3>1, <3>2
  <2> QED BY <2>1
<1>5. \A c \in Addresses : f[c] = IF c \in a .. a + n - 1 THEN d[c - a + 1] ELSE m[s][c] OBVIOUS
<1> HIDE DEF f
<1> QED BY <1>2, <1>3, <1>4, <1>5 DEF Memories

\* r is m with n bytes of s from offset i on in their places, and nothing else new.
IsStored(m, r, s, i, n) ==
    /\ r \in Memories
    /\ \A k \in 0 .. n - 1 : r[s][Ring(i + k)] = Byte(s, i + k)
    /\ \A x \in Sessions, c \in Addresses :
          (x = s => \A k \in 0 .. n - 1 : c # Ring(i + k)) => r[x][c] = m[x][c]

\* d is n bytes of s from offset i on.
HasBytes(d, s, i, n) == Len(d) = n /\ \A k \in 1 .. n : d[k] = Byte(s, i + k - 1) /\ d[k] \in Places

LEMMA BytesAre ==
    ASSUME NEW s \in Sessions, NEW i \in Nat, NEW n \in Nat
    PROVE  HasBytes(Bytes(s, i, n), s, i, n) /\ Bytes(s, i, n) \in Seq(Places)
<1>1. \A k \in 1 .. n : Byte(s, i + k - 1) \in Places
  <2> TAKE k \in 1 .. n
  <2>1. i + k - 1 \in Nat OBVIOUS
  <2> QED BY <2>1 DEF Byte, Places
<1> DEFINE f == [k \in 1 .. n |-> Byte(s, i + k - 1)]
<1>2. \A k \in 1 .. n : f[k] = Byte(s, i + k - 1) /\ f[k] \in Places BY <1>1
<1>3. f \in [1 .. n -> Places] BY <1>1
<1>4. f = Bytes(s, i, n) BY DEF Bytes
<1> HIDE DEF f
<1>5. f \in Seq(Places) /\ Len(f) = n BY <1>3
<1> QED BY <1>2, <1>4, <1>5 DEF HasBytes

\* A write that ends before the end of the ring, or at it.
LEMMA WholeMeans ==
    ASSUME NEW m \in Memories, NEW s \in Sessions, NEW i \in Nat, NEW n \in 1 .. BufferSize - 1,
           NEW a \in Addresses, a = Ring(i), a + n <= BufferSize,
           NEW d, HasBytes(d, s, i, n),
           NEW w, w = [session |-> s, address |-> a, data |-> d]
    PROVE  IsStored(m, Write(m, w), s, i, n)
<1>1. a \in Nat /\ a < BufferSize /\ n \in Nat /\ n > 0 /\ n < BufferSize /\ BufferSize \in Nat
  BY SizeAssumption DEF Addresses
<1>2. \A k \in 0 .. n - 1 : Ring(i + k) = a + k /\ a + k \in Addresses /\ a + k \in a .. a + n - 1
                            /\ ((a + k) - a) + 1 = k + 1 /\ k + 1 \in 1 .. n /\ i + (k + 1) - 1 = i + k
  <2> TAKE k \in 0 .. n - 1
  <2>1. k \in 0 .. BufferSize - 1 /\ a + k < BufferSize BY <1>1
  <2>2. Ring(i + k) = a + k BY <2>1, RingOfByte
  <2> QED BY <2>1, <2>2, <1>1 DEF Addresses
<1>3. PICK r : r = Write(m, w) OBVIOUS
<1>4. Len(d) = n /\ \A k \in 1 .. n : d[k] = Byte(s, i + k - 1) /\ d[k] \in Places BY DEF HasBytes
<1>9. OfPlaces(d, n) BY <1>4 DEF OfPlaces
<1>5. IsWritten(m, Write(m, w), s, a, n, d) BY <1>9, WriteMeans
<1>6. /\ r \in Memories
      /\ \A x \in Sessions : x # s => r[x] = m[x]
      /\ \A c \in Addresses : r[s][c] = IF c \in a .. a + n - 1 THEN d[c - a + 1] ELSE m[s][c]
  BY <1>3, <1>5 DEF IsWritten
<1>7. ASSUME NEW k \in 0 .. n - 1 PROVE r[s][Ring(i + k)] = Byte(s, i + k)
  <2>1. r[s][a + k] = d[((a + k) - a) + 1] BY <1>2, <1>6
  <2>2. d[k + 1] = Byte(s, i + (k + 1) - 1) BY <1>2, <1>4
  <2> QED BY <2>1, <2>2, <1>2
<1>8. ASSUME NEW x \in Sessions, NEW c \in Addresses, x = s => \A k \in 0 .. n - 1 : c # Ring(i + k)
      PROVE  r[x][c] = m[x][c]
  <2>1. CASE x # s BY <2>1, <1>6
  <2>2. CASE x = s
    <3>1. ASSUME c \in a .. a + n - 1 PROVE FALSE
      <4>1. c - a \in 0 .. n - 1 /\ a + (c - a) = c BY <3>1, <1>1
      <4>2. Ring(i + (c - a)) = c BY <4>1, <1>2
      <4> QED BY <4>1, <4>2, <2>2, <1>8
    <3> QED BY <3>1, <2>2, <1>6
  <2> QED BY <2>1, <2>2
<1> QED BY <1>3, <1>6, <1>7, <1>8 DEF IsStored

\* Two writes, one behind the other.
LEMMA StoredTwice ==
    ASSUME NEW m, NEW once, NEW r, NEW s \in Sessions, NEW i \in Nat, NEW n \in Nat, NEW k \in Nat, n + k < BufferSize,
           IsStored(m, once, s, i, n), IsStored(once, r, s, i + n, k)
    PROVE  IsStored(m, r, s, i, n + k)
<1>1. /\ r \in Memories
      /\ \A j \in 0 .. n - 1 : once[s][Ring(i + j)] = Byte(s, i + j)
      /\ \A j \in 0 .. k - 1 : r[s][Ring((i + n) + j)] = Byte(s, (i + n) + j)
  BY DEF IsStored
<1>2. ASSUME NEW x \in Sessions, NEW c \in Addresses, x = s => \A j \in 0 .. n - 1 : c # Ring(i + j)
      PROVE  once[x][c] = m[x][c]
  BY <1>2 DEF IsStored
<1>3. ASSUME NEW x \in Sessions, NEW c \in Addresses, x = s => \A j \in 0 .. k - 1 : c # Ring((i + n) + j)
      PROVE  r[x][c] = once[x][c]
  BY <1>3 DEF IsStored
<1>4. ASSUME NEW j \in 0 .. (n + k) - 1 PROVE r[s][Ring(i + j)] = Byte(s, i + j)
  <2>1. CASE j < n
    <3>1. ASSUME NEW l \in 0 .. k - 1, Ring(i + j) = Ring((i + n) + l) PROVE FALSE
      <4>1. /\ i + j \in Int /\ (i + n) + l \in Int /\ i + j # (i + n) + l
            /\ (i + j) - ((i + n) + l) < BufferSize /\ ((i + n) + l) - (i + j) < BufferSize
        BY <2>1, SizeAssumption
      <4> QED BY <4>1, <3>1, RingTellsApart
    <3>2. Ring(i + j) \in Addresses BY RingIsAddress
    <3>3. r[s][Ring(i + j)] = once[s][Ring(i + j)] BY <3>1, <3>2, <1>3
    <3>4. j \in 0 .. n - 1 BY <2>1
    <3> QED BY <3>3, <3>4, <1>1
  <2>2. CASE ~(j < n)
    <3>1. j - n \in 0 .. k - 1 /\ (i + n) + (j - n) = i + j BY <2>2
    <3> QED BY <3>1, <1>1
  <2> QED BY <2>1, <2>2
<1>5. ASSUME NEW x \in Sessions, NEW c \in Addresses, x = s => \A j \in 0 .. (n + k) - 1 : c # Ring(i + j)
      PROVE  r[x][c] = m[x][c]
  <2>1. x = s => \A j \in 0 .. n - 1 : c # Ring(i + j)
    <3>1. \A j \in 0 .. n - 1 : j \in 0 .. (n + k) - 1 OBVIOUS
    <3> QED BY <3>1, <1>5
  <2>2. x = s => \A j \in 0 .. k - 1 : c # Ring((i + n) + j)
    <3>1. \A j \in 0 .. k - 1 : n + j \in 0 .. (n + k) - 1 /\ i + (n + j) = (i + n) + j OBVIOUS
    <3> QED BY <3>1, <1>5
  <2> QED BY <2>1, <2>2, <1>2, <1>3
<1> QED BY <1>1, <1>4, <1>5 DEF IsStored

\* The two parts of a write that is cut.
LEMMA PartsAre ==
    ASSUME NEW d, NEW s, NEW i \in Nat, NEW n \in Nat, HasBytes(d, s, i, n), NEW first \in 1 .. n - 1, NEW rest \in Nat,
           rest = n - first
    PROVE  HasBytes(SubSeq(d, 1, first), s, i, first) /\ HasBytes(SubSeq(d, first + 1, n), s, i + first, rest)
<1>0. \A k \in 1 .. n : d[k] = Byte(s, i + k - 1) /\ d[k] \in Places BY DEF HasBytes
<1>1. (\A k \in 1 .. first : d[k] \in Places) /\ (\A k \in first + 1 .. n : d[k] \in Places) BY <1>0
<1>2. PICK d1 : d1 = SubSeq(d, 1, first) OBVIOUS
<1>3. PICK d2 : d2 = SubSeq(d, first + 1, n) OBVIOUS
<1>4. /\ Len(d1) = IF 1 <= first THEN first - 1 + 1 ELSE 0
      /\ \A k \in 1 .. first - 1 + 1 : d1[k] = d[1 + k - 1]
  BY <1>1, <1>2, SubSeqProperties
<1>5. /\ Len(d2) = IF first + 1 <= n THEN n - (first + 1) + 1 ELSE 0
      /\ \A k \in 1 .. n - (first + 1) + 1 : d2[k] = d[(first + 1) + k - 1]
  BY <1>1, <1>3, SubSeqProperties
<1>6. Len(d1) = first /\ Len(d2) = rest BY <1>4, <1>5
<1>7. ASSUME NEW k \in 1 .. first PROVE d1[k] = Byte(s, i + k - 1) /\ d1[k] \in Places
  <2>1. k \in 1 .. first - 1 + 1 /\ 1 + k - 1 = k /\ k \in 1 .. n OBVIOUS
  <2> QED BY <2>1, <1>0, <1>4
<1>8. ASSUME NEW k \in 1 .. rest PROVE d2[k] = Byte(s, (i + first) + k - 1) /\ d2[k] \in Places
  <2>1. /\ k \in 1 .. n - (first + 1) + 1 /\ (first + 1) + k - 1 = first + k /\ first + k \in 1 .. n
        /\ i + (first + k) - 1 = (i + first) + k - 1
    OBVIOUS
  <2>2. d2[k] = d[first + k] BY <2>1, <1>5
  <2>3. d[first + k] = Byte(s, i + (first + k) - 1) /\ d[first + k] \in Places BY <2>1, <1>0
  <2> QED BY <2>1, <2>2, <2>3
<1> QED BY <1>2, <1>3, <1>6, <1>7, <1>8 DEF HasBytes

\* The lengths of the two parts.
LEMMA CutArithmetic ==
    ASSUME NEW i \in Nat, NEW n \in 1 .. BufferSize - 1, NEW a \in Addresses, a + n > BufferSize
    PROVE  \E first \in 1 .. n - 1, rest \in 1 .. BufferSize - 1 :
             /\ first = BufferSize - a /\ rest = n - first
             /\ first \in 1 .. BufferSize - 1 /\ first + rest = n
             /\ first \in 0 .. BufferSize - 1 /\ first \in Nat /\ rest \in Nat /\ n \in Nat /\ n < BufferSize /\ i + first \in Nat
             /\ a + first <= BufferSize /\ ~(a + first < BufferSize) /\ (a + first) - BufferSize = 0
             /\ 0 \in Addresses /\ 0 + rest <= BufferSize
<1>1. a \in Nat /\ a < BufferSize /\ n \in Nat /\ BufferSize \in Nat /\ n > 0 /\ n < BufferSize
  BY SizeAssumption DEF Addresses
<1>2. BufferSize - a \in 1 .. n - 1 /\ n - (BufferSize - a) \in 1 .. BufferSize - 1 BY <1>1
<1> QED BY <1>1, <1>2 DEF Addresses

\* A write that is cut at the end of the ring.
LEMMA CutMeans ==
    ASSUME NEW m \in Memories, NEW s \in Sessions, NEW i \in Nat, NEW n \in 1 .. BufferSize - 1,
           NEW a \in Addresses, a = Ring(i), a + n > BufferSize,
           NEW d, HasBytes(d, s, i, n),
           NEW w1, w1 = [session |-> s, address |-> a, data |-> SubSeq(d, 1, BufferSize - a)],
           NEW w2, w2 = [session |-> s, address |-> 0, data |-> SubSeq(d, BufferSize - a + 1, n)]
    PROVE  IsStored(m, Write(Write(m, w1), w2), s, i, n)
<1>1. \E first \in 1 .. n - 1, rest \in 1 .. BufferSize - 1 :
        /\ first = BufferSize - a /\ rest = n - first
        /\ first \in 1 .. BufferSize - 1 /\ first + rest = n
        /\ first \in 0 .. BufferSize - 1 /\ first \in Nat /\ rest \in Nat /\ n \in Nat /\ n < BufferSize /\ i + first \in Nat
        /\ a + first <= BufferSize /\ ~(a + first < BufferSize) /\ (a + first) - BufferSize = 0
        /\ 0 \in Addresses /\ 0 + rest <= BufferSize
  BY CutArithmetic
<1>2. PICK first \in 1 .. n - 1, rest \in 1 .. BufferSize - 1 :
        /\ first = BufferSize - a /\ rest = n - first
        /\ first \in 1 .. BufferSize - 1 /\ first + rest = n
        /\ first \in 0 .. BufferSize - 1 /\ first \in Nat /\ rest \in Nat /\ n \in Nat /\ n < BufferSize /\ i + first \in Nat
        /\ a + first <= BufferSize /\ ~(a + first < BufferSize) /\ (a + first) - BufferSize = 0
        /\ 0 \in Addresses /\ 0 + rest <= BufferSize
  BY <1>1
<1>3. Ring(i + first) = 0 BY <1>2, RingOfByte
<1>4. PICK d1 : d1 = SubSeq(d, 1, first) OBVIOUS
<1>5. PICK d2 : d2 = SubSeq(d, first + 1, n) OBVIOUS
<1>6. HasBytes(d1, s, i, first) /\ HasBytes(d2, s, i + first, rest) BY <1>2, <1>4, <1>5, PartsAre
<1>7. w1 = [session |-> s, address |-> a, data |-> d1] /\ w2 = [session |-> s, address |-> 0, data |-> d2]
  BY <1>2, <1>4, <1>5
<1>8. PICK once : once = Write(m, w1) OBVIOUS
<1>9. IsStored(m, once, s, i, first) BY <1>2, <1>6, <1>7, <1>8, WholeMeans
<1>10. once \in Memories BY <1>9 DEF IsStored
<1>11. IsStored(once, Write(once, w2), s, i + first, rest) BY <1>2, <1>3, <1>6, <1>7, <1>10, WholeMeans
<1>12. first \in Nat /\ rest \in Nat /\ first + rest < BufferSize BY <1>2
<1>13. IsStored(m, Write(once, w2), s, i, first + rest) BY <1>9, <1>11, <1>12, StoredTwice
<1> QED BY <1>2, <1>8, <1>13

\* The one or two commands of a write put its bytes in their places, and nothing else.
LEMMA StoreMeans ==
    ASSUME IInv, Store, NEW p, p = Head(pushQ)
    PROVE  IsStored(memory, memory', p.session, p.from, p.length) /\ statuses' = statuses + StatusesFor(p)
<1>1. memory \in Memories /\ pushQ \in Seq(Events) BY DEF IInv, Types, StoreTypes, Memories
<1>2. p \in Events BY <1>1 DEF Store
<1>3. PICK s \in Sessions : s = p.session BY <1>2, EventsAreDated
<1>4. PICK i \in Nat : i = p.from BY <1>2, EventsAreDated
<1>5. PICK n \in 1 .. BufferSize - 1 : n = p.length BY <1>2, EventsAreDated
<1>6. PICK a \in Addresses : a = p.address BY <1>2, EventsAreDated
<1>8. n \in Nat /\ a = Ring(i) /\ a \in Nat BY <1>2, <1>4, <1>6, EventsAreDated, SizeAssumption DEF Addresses
<1>9. PICK d : d = Bytes(s, i, n) OBVIOUS
<1>10. HasBytes(d, s, i, n) /\ Len(d) = n BY <1>8, <1>9, BytesAre DEF HasBytes
<1>11. PICK w : w = [session |-> s, address |-> a, data |-> d] OBVIOUS
<1>12. PICK w1 : w1 = [session |-> s, address |-> a, data |-> SubSeq(d, 1, BufferSize - a)] OBVIOUS
<1>13. PICK w2 : w2 = [session |-> s, address |-> 0, data |-> SubSeq(d, BufferSize - a + 1, n)] OBVIOUS
<1>14. Cut(s, a, d) = IF Crosses(a, n) THEN <<w1, w2>> ELSE <<w>>
  BY <1>10, <1>11, <1>12, <1>13 DEF Cut, SecondWrite
<1>15. /\ memory' = IF Len(Cut(s, a, d)) = 1 THEN Write(memory, Cut(s, a, d)[1])
                       ELSE Write(Write(memory, Cut(s, a, d)[1]), Cut(s, a, d)[2])
       /\ statuses' = statuses + Len(Cut(s, a, d))
  BY <1>3, <1>4, <1>5, <1>6, <1>9 DEF Store
<1>16. CASE ~Crosses(a, n)
  <2>1. a + n <= BufferSize BY <1>8, <1>16, SizeAssumption DEF Crosses
  <2>2. Cut(s, a, d) = <<w>> BY <1>14, <1>16
  <2>3. memory' = Write(memory, w) /\ statuses' = statuses + 1
    <3>1. Len(<<w>>) = 1 /\ <<w>>[1] = w OBVIOUS
    <3> QED BY <3>1, <2>2, <1>15
  <2>4. StatusesFor(p) = 1 BY <1>5, <1>6, <1>16 DEF StatusesFor
  <2>5. IsStored(memory, Write(memory, w), s, i, n) BY <2>1, <1>1, <1>8, <1>10, <1>11, WholeMeans
  <2> QED BY <2>3, <2>4, <2>5, <1>3, <1>4, <1>5
<1>17. CASE Crosses(a, n)
  <2>1. a + n > BufferSize BY <1>17 DEF Crosses
  <2>2. Cut(s, a, d) = <<w1, w2>> BY <1>14, <1>17
  <2>3. memory' = Write(Write(memory, w1), w2) /\ statuses' = statuses + 2
    <3>1. Len(<<w1, w2>>) = 2 /\ <<w1, w2>>[1] = w1 /\ <<w1, w2>>[2] = w2 OBVIOUS
    <3> QED BY <3>1, <2>2, <1>15
  <2>4. StatusesFor(p) = 2 BY <1>5, <1>6, <1>17 DEF StatusesFor
  <2>5. IsStored(memory, Write(Write(memory, w1), w2), s, i, n)
    BY <2>1, <1>1, <1>8, <1>10, <1>12, <1>13, CutMeans
  <2> QED BY <2>3, <2>4, <2>5, <1>3, <1>4, <1>5
<1> QED BY <1>16, <1>17

LEMMA StoreKeeps ==
    ASSUME IInv, Store
    PROVE  IInv'
<1>0. PICK p : p = Head(pushQ) OBVIOUS
<1>1. PICK s : s = p.session OBVIOUS
<1>2. /\ pushQ # <<>> /\ pushQ' = Tail(pushQ)
      /\ UNCHANGED <<request, appReqQ, appReply, cacheQ, bypassQ, written, appTable, handler, app,
                     txQ, notAckd, engine, readCmdQ, segmentQ, wire, reached, ackd, ackPushQ, edge>>
  BY DEF Store, engineVars, peerVars
<1>3. /\ memory' \in Memories /\ statuses' = statuses + StatusesFor(p)
      /\ \A k \in 0 .. p.length - 1 : memory'[s][Ring(p.from + k)] = Byte(s, p.from + k)
      /\ \A x \in Sessions, c \in Addresses :
                 (x = s => \A k \in 0 .. p.length - 1 : c # Ring(p.from + k)) => memory'[x][c] = memory[x][c]
  BY <1>0, <1>1, StoreMeans DEF IsStored
<1>4. Types BY DEF IInv
<1>5. /\ pushQ \in Seq(Events) /\ Held \in Seq(Events) /\ pushQ \in Seq(Dated) BY <1>4, QueuesAreDated
<1>6. /\ 1 \in DOMAIN pushQ /\ p = pushQ[1] /\ Len(pushQ) \in Nat /\ Len(pushQ) > 0 /\ p \in Events
      /\ pushQ' \in Seq(Events) /\ Len(pushQ') = Len(pushQ) - 1
      /\ \A i \in DOMAIN pushQ' : i + 1 \in DOMAIN pushQ /\ pushQ'[i] = pushQ[i + 1] /\ i \in Nat
  BY <1>0, <1>2, <1>5
<1>7. p.type = "TX" /\ s \in Sessions /\ p.from \in Nat /\ p.length \in 1 .. BufferSize - 1 /\ p.length \in Nat
  BY <1>1, <1>6, EventsAreDated
<1>8. Types'
  <2>1. StatusesFor(p) \in Nat BY DEF StatusesFor
  <2>2. StoreTypes' BY <2>1, <1>2, <1>3, <1>4, <1>6 DEF Types, StoreTypes, Memories
  <2> QED BY <2>2, <1>2, <1>4, AppTypesFrame, EngineTypesFrame, PointerTypesFrame DEF Types
<1>9. StoredInv'
  <2>1. ASSUME NEW x \in Sessions
        PROVE  \E b \in 0 .. written[x] :
                  Chain(pushQ', x, b, written[x]) /\ \A i \in ackd[x] .. b - 1 : memory'[x][Ring(i)] = Byte(x, i)
    <3>1. PICK b \in 0 .. written[x] : Chain(pushQ, x, b, written[x]) /\ \A i \in ackd[x] .. b - 1 : InMemory(x, i)
      BY DEF IInv, StoredInv
    <3>2. /\ b \in Nat /\ written[x] \in Nat /\ ackd[x] \in Nat /\ written[x] - ackd[x] < BufferSize
      BY <1>4 DEF IInv, Types, PointerTypes, PointersInv
    <3>3. CASE x = s
      <4>1. Of(p, x) /\ p = Head(pushQ) BY <3>3, <1>0, <1>1, <1>7 DEF Of
      <4>2. p.from = b /\ End(p) \in Nat /\ End(p) <= written[x] /\ Chain(Tail(pushQ), x, End(p), written[x])
        BY <4>1, <3>1, <3>2, <1>2, <1>5, ChainPops
      <4>3. End(p) = b + p.length BY <4>2 DEF End
      <4>4. ASSUME NEW i \in ackd[x] .. End(p) - 1 PROVE memory'[x][Ring(i)] = Byte(x, i)
        <5>1. i \in Int /\ ackd[x] <= i /\ i < End(p) BY <3>2, <4>2
        <5>2. CASE i < b
          <6>1. ASSUME NEW k \in 0 .. p.length - 1, Ring(i) = Ring(p.from + k) PROVE FALSE
            <7>1. /\ p.from + k \in Int /\ (p.from + k) - i < BufferSize /\ i - (p.from + k) < BufferSize /\ i # p.from + k
              BY <5>1, <5>2, <4>2, <4>3, <3>2, <1>7, SizeAssumption
            <7> QED BY <7>1, <6>1, <5>1, RingTellsApart
          <6>2. Ring(i) \in Addresses BY <5>1, RingIsAddress
          <6>3. memory'[x][Ring(i)] = memory[x][Ring(i)] BY <6>1, <6>2, <1>3
          <6>4. i \in ackd[x] .. b - 1 BY <5>1, <5>2, <3>2
          <6> QED BY <6>3, <6>4, <3>1 DEF InMemory
        <5>3. CASE ~(i < b)
          <6>1. i - b \in 0 .. p.length - 1 /\ p.from + (i - b) = i BY <5>1, <5>3, <4>2, <4>3, <3>2, <1>7
          <6> QED BY <6>1, <3>3, <1>3
        <5> QED BY <5>2, <5>3
      <4>5. End(p) \in 0 .. written[x] BY <4>2, <3>2
      <4> QED BY <4>2, <4>4, <4>5, <1>2
    <3>4. CASE x # s
      <4>1. ~Of(Head(pushQ), x) BY <3>4, <1>0, <1>1 DEF Of
      <4>2. Chain(Tail(pushQ), x, b, written[x]) BY <4>1, <3>1, <3>2, <1>2, <1>5, ChainSkips
      <4>3. ASSUME NEW i \in ackd[x] .. b - 1 PROVE memory'[x][Ring(i)] = Byte(x, i)
        <5>1. Ring(i) \in Addresses BY <3>2, RingIsAddress
        <5> QED BY <5>1, <3>1, <3>4, <1>3 DEF InMemory
      <4> QED BY <4>2, <4>3, <1>2
    <3> QED BY <3>3, <3>4
  <2> QED BY <2>1, <1>2 DEF StoredInv, InMemory
<1>10. /\ Held' = Held /\ Len(Held) \in Nat /\ Gone \in Nat /\ Gone = Len(Held) - Len(pushQ) /\ Gone' = Gone + 1
       /\ \A i \in DOMAIN pushQ : pushQ[i] = Held[Gone + i]
  <2>1. Held' = Held BY <1>2 DEF Held
  <2>2. Len(Held) \in Nat BY <1>5
  <2>3. Gone' = Len(Held') - Len(pushQ') BY DEF Gone
  <2> QED BY <2>1, <2>2, <2>3, <1>6 DEF IInv, PushesAreHeld, Gone
<1>11. PushesAreHeld'
  <2>1. ASSUME NEW i \in DOMAIN pushQ' PROVE pushQ'[i] = Held'[Gone' + i]
    <3>1. (Gone + 1) + i = Gone + (i + 1) BY <1>6, <1>10
    <3> QED BY <3>1, <1>6, <1>10
  <2> QED BY <2>1, <1>10 DEF PushesAreHeld
<1>12. CountInv'
  <2>1. PICK f \in [0 .. Len(Held) -> Int] : SumsUp(f, Held) /\ statuses + Consumed = f[Gone]
    BY DEF IInv, CountInv
  <2>2. Gone + 1 \in 1 .. Len(Held) /\ (Gone + 1) - 1 = Gone BY <1>6, <1>10
  <2>3. Gone + 1 \in DOMAIN Held /\ p = Held[Gone + 1]
    <3>1. DOMAIN Held = 1 .. Len(Held) BY <1>5
    <3> QED BY <3>1, <2>2, <1>6, <1>10
  <2>4. f[Gone + 1] = f[Gone] + StatusesFor(p) BY <2>1, <2>2, <2>3 DEF SumsUp
  <2>5. Consumed \in Int /\ Consumed' = Consumed
    <3>1. handler # <<>> => handler \in Handled BY <1>4 DEF Types, StoreTypes
    <3>2. Consumed \in Int BY <3>1 DEF Consumed, Handled, StatusesFor
    <3> QED BY <3>2, <1>2 DEF Consumed
  <2>6. statuses \in Nat /\ StatusesFor(p) \in Nat BY <1>4 DEF Types, StoreTypes, StatusesFor
  <2>7. (statuses + StatusesFor(p)) + Consumed = f[Gone + 1] BY <2>1, <2>4, <2>5, <2>6
  <2>8. statuses' + Consumed' = f[Gone'] BY <2>5, <2>7, <1>3, <1>10
  <2>9. handler' # <<>> => handler'.missing <= StatusesFor(handler'.event) BY <1>2 DEF IInv, CountInv
  <2> QED BY <2>1, <2>8, <2>9, <1>10 DEF CountInv
<1>13. RetransmitInv'
  <2>1. \A x \in Sessions, i \in Int : Covered(pushQ, x, i) /\ i <= written[x] => Covered(pushQ', x, i)
    BY <1>6 DEF Covered
  <2>2. /\ AgainInv(txQ, notAckd, pushQ') /\ RestInv(engine, notAckd, pushQ')
        /\ \A i \in DOMAIN segmentQ : SegmentInv(segmentQ[i], notAckd, pushQ')
    BY <2>1, CoveredStays
  <2> QED BY <2>2, <1>2 DEF RetransmitInv
<1> QED BY <1>2, <1>8, <1>9, <1>11, <1>12, <1>13, PointersFrame, ReportFrame, RequestFrame, SentFrame, HeldFrame,
           ReadsFrame, DataFrame, WireFrame DEF IInv

-----------------------------------------------------------------------------
(* txAppStatusHandler                                                      *)

LEMMA HandleEventKeeps ==
    ASSUME IInv, HandleEvent
    PROVE  IInv'
<1>1. PICK e : e = Head(cacheQ) OBVIOUS
<1>2. /\ handler = <<>> /\ cacheQ # <<>> /\ cacheQ' = Tail(cacheQ)
      /\ handler' = [event |-> e, missing |-> StatusesFor(e)]
      /\ UNCHANGED <<request, appReqQ, appReply, pushQ, bypassQ, written, appTable, statuses, app, memory,
                     txQ, notAckd, engine, readCmdQ, segmentQ, wire, reached, ackd, ackPushQ, edge>>
  BY <1>1 DEF HandleEvent, engineVars, peerVars
<1>3. cacheQ \in Seq(Events) BY DEF IInv, Types, StoreTypes
<1>4. e \in Events /\ cacheQ' \in Seq(Events) /\ <<e>> \o cacheQ' = cacheQ BY <1>1, <1>2, <1>3
<1>5. handler' \in Handled /\ handler' # <<>> /\ handler'.event = e /\ handler'.missing = StatusesFor(e)
  <2>1. handler' \in Handled BY <1>2, <1>4 DEF Handled, StatusesFor
  <2> QED BY <2>1, <1>2, RecordsAreNotEmpty
<1>6. Held' = Held BY <1>2, <1>4, <1>5 DEF Held
<1>7. Types'
  <2>1. StoreTypes' BY <1>2, <1>4, <1>5 DEF IInv, Types, StoreTypes
  <2> QED BY <2>1, <1>2, AppTypesFrame, EngineTypesFrame, PointerTypesFrame DEF IInv, Types
<1>8. HeldInv' BY <1>2, <1>6 DEF IInv, HeldInv
<1>9. Gone' = Gone BY <1>2, <1>6 DEF Gone
<1>10. PushesAreHeld' BY <1>2, <1>6, <1>9 DEF IInv, PushesAreHeld
<1>11. CountInv'
  <2>1. StatusesFor(e) \in Int BY DEF StatusesFor
  <2>2. Consumed = 0 /\ Consumed' = 0 BY <2>1, <1>2, <1>5 DEF Consumed
  <2>3. handler'.missing <= StatusesFor(handler'.event) BY <2>1, <1>5
  <2> QED BY <2>2, <2>3, <1>2, <1>6, <1>9 DEF IInv, CountInv
<1> QED BY <1>2, <1>7, <1>8, <1>10, <1>11, PointersFrame, ReportFrame, RequestFrame, SentFrame, StoredFrame,
           RetransmitFrame, ReadsFrame, DataFrame, WireFrame DEF IInv

\* The statuses of a queue without its first event.
LEMMA SumsShrink ==
    ASSUME NEW q \in Seq(Events), q # <<>>, NEW f \in [0 .. Len(q) -> Int], SumsUp(f, q)
    PROVE  /\ f[1] = StatusesFor(Head(q))
           /\ \E g \in [0 .. Len(q) - 1 -> Int] : SumsUp(g, Tail(q)) /\ \A k \in 0 .. Len(q) - 1 : g[k] = f[k + 1] - f[1]
<1> DEFINE g == [k \in 0 .. Len(q) - 1 |-> f[k + 1] - f[1]]
<1>1. /\ Len(q) \in Nat /\ Len(q) > 0 /\ DOMAIN q = 1 .. Len(q) /\ Head(q) = q[1]
      /\ DOMAIN Tail(q) = 1 .. Len(q) - 1 /\ \A k \in 1 .. Len(q) - 1 : Tail(q)[k] = q[k + 1]
  OBVIOUS
<1>2. f[1] = StatusesFor(Head(q))
  <2>1. 1 \in DOMAIN q /\ f[0] = 0 BY <1>1 DEF SumsUp
  <2>2. f[1] = f[1 - 1] + StatusesFor(q[1]) BY <2>1 DEF SumsUp
  <2>3. StatusesFor(q[1]) \in Int BY DEF StatusesFor
  <2> QED BY <2>1, <2>2, <2>3, <1>1
<1>3. f[1] \in Int /\ \A k \in 0 .. Len(q) - 1 : k + 1 \in 0 .. Len(q) /\ f[k + 1] \in Int BY <1>1
<1>4. g \in [0 .. Len(q) - 1 -> Int] /\ \A k \in 0 .. Len(q) - 1 : g[k] = f[k + 1] - f[1] BY <1>3
<1> HIDE DEF g
<1>5. g[0] = 0 BY <1>1, <1>3, <1>4
<1>6. ASSUME NEW k \in DOMAIN Tail(q) PROVE g[k] = g[k - 1] + StatusesFor(Tail(q)[k])
  <2>1. /\ k \in 0 .. Len(q) - 1 /\ k - 1 \in 0 .. Len(q) - 1 /\ k + 1 \in DOMAIN q /\ (k + 1) - 1 = k /\ (k - 1) + 1 = k
        /\ Tail(q)[k] = q[k + 1]
    BY <1>1
  <2>2. f[k + 1] = f[k] + StatusesFor(q[k + 1])
    <3>1. f[k + 1] = f[(k + 1) - 1] + StatusesFor(q[k + 1]) BY <2>1 DEF SumsUp
    <3> QED BY <3>1, <2>1
  <2>3. StatusesFor(q[k + 1]) \in Int BY DEF StatusesFor
  <2>4. g[k] = f[k + 1] - f[1] /\ g[k - 1] = f[k] - f[1] BY <2>1, <1>4
  <2>5. f[k] \in Int /\ f[k + 1] \in Int BY <2>1, <1>1
  <2> QED BY <2>1, <2>2, <2>3, <2>4, <2>5, <1>3
<1>7. SumsUp(g, Tail(q)) BY <1>5, <1>6 DEF SumsUp
<1> QED BY <1>2, <1>4, <1>7

\* The first of the two statuses of a write that was cut.
LEMMA FirstStatusKeeps ==
    ASSUME IInv, HandleStatus, handler.missing = 2
    PROVE  IInv'
<1>1. /\ handler # <<>> /\ statuses > 0 /\ statuses' = statuses - 1
      /\ handler' = [handler EXCEPT !.missing = 1]
      /\ UNCHANGED <<request, appReqQ, appReply, pushQ, cacheQ, bypassQ, written, appTable, app, memory,
                     txQ, notAckd, engine, readCmdQ, segmentQ, wire, reached, ackd, ackPushQ, edge>>
  BY DEF HandleStatus, appVars, engineVars, peerVars
<1>2. handler \in Handled /\ statuses \in Nat BY <1>1 DEF IInv, Types, StoreTypes
<1>3. handler' \in Handled /\ handler' # <<>> /\ handler'.event = handler.event /\ handler'.missing = 1
  <2>1. handler' \in Handled /\ handler'.event = handler.event /\ handler'.missing = 1 BY <1>1, <1>2 DEF Handled
  <2> QED BY <2>1, RecordsAreNotEmpty
<1>4. Held' = Held BY <1>1, <1>3 DEF Held
<1>5. Types'
  <2>1. statuses' \in Nat BY <1>1, <1>2
  <2>2. StoreTypes' BY <2>1, <1>1, <1>3 DEF IInv, Types, StoreTypes
  <2> QED BY <2>2, <1>1, AppTypesFrame, EngineTypesFrame, PointerTypesFrame DEF IInv, Types
<1>6. HeldInv' BY <1>1, <1>4 DEF IInv, HeldInv
<1>7. Gone' = Gone BY <1>1, <1>4 DEF Gone
<1>8. PushesAreHeld' BY <1>1, <1>4, <1>7 DEF IInv, PushesAreHeld
<1>9. CountInv'
  <2>1. StatusesFor(handler.event) \in {1, 2} BY DEF StatusesFor
  <2>2. Consumed = StatusesFor(handler.event) - 2 /\ Consumed' = StatusesFor(handler.event) - 1
    BY <1>1, <1>3 DEF Consumed
  <2>3. statuses' + Consumed' = statuses + Consumed BY <2>1, <2>2, <1>1, <1>2
  <2>4. handler'.missing <= StatusesFor(handler'.event) BY <2>1, <1>3
  <2> QED BY <2>3, <2>4, <1>1, <1>4, <1>7 DEF IInv, CountInv
<1> QED BY <1>1, <1>5, <1>6, <1>8, <1>9, PointersFrame, ReportFrame, RequestFrame, SentFrame, StoredFrame,
           RetransmitFrame, ReadsFrame, DataFrame, WireFrame DEF IInv

\* The last status of a write: its event is done.
LEMMA LastStatusKeeps ==
    ASSUME IInv, HandleStatus, handler.missing # 2
    PROVE  IInv'
<1>1. PICK e : e = handler.event OBVIOUS
<1>2. PICK s : s = e.session OBVIOUS
<1>3. /\ handler # <<>> /\ handler' = <<>> /\ statuses > 0 /\ statuses' = statuses - 1
      /\ app' = [app EXCEPT ![s] = Ring(e.address + e.length)]
      /\ UNCHANGED <<request, appReqQ, appReply, pushQ, cacheQ, bypassQ, written, appTable, memory,
                     txQ, notAckd, engine, readCmdQ, segmentQ, wire, reached, ackd, ackPushQ, edge>>
  BY <1>1, <1>2 DEF HandleStatus, appVars, engineVars, peerVars
<1>4. Types /\ handler \in Handled /\ statuses \in Nat /\ app \in [Sessions -> Addresses]
  BY <1>3 DEF IInv, Types, StoreTypes
<1>5. e \in Events /\ handler.missing = 1 BY <1>1, <1>4 DEF Handled
<1>6. /\ s \in Sessions /\ e.type = "TX" /\ e.session = s /\ e.from \in Nat /\ e.length \in Nat /\ e.address = Ring(e.from)
  BY <1>2, <1>5, EventsAreDated, SizeAssumption
<1>7. /\ Held \in Seq(Events) /\ Held \in Seq(Dated) /\ pushQ \in Seq(Events) /\ cacheQ \in Seq(Events)
  BY <1>4, QueuesAreDated DEF Types, StoreTypes
<1>8. Held = <<e>> \o cacheQ /\ Held' = cacheQ BY <1>1, <1>3 DEF Held
<1>9. Held # <<>> /\ Head(Held) = e /\ Held' = Tail(Held) BY <1>5, <1>7, <1>8
<1>10. /\ Len(Held) \in Nat /\ Len(Held) > 0 /\ Len(Held') = Len(Held) - 1 /\ Len(pushQ) \in Nat
       /\ DOMAIN Held = 1 .. Len(Held) /\ \A k \in 1 .. Len(Held) - 1 : Held'[k] = Held[k + 1]
  BY <1>7, <1>9
<1>11. Ring(e.address + e.length) = Ring(End(e)) /\ Ring(End(e)) \in Addresses /\ End(e) \in Nat
  <2>4. PICK i \in Nat : i = e.from BY <1>6
  <2>5. PICK n \in Nat : n = e.length BY <1>6
  <2>6. Ring(Ring(i) + n) = Ring(i + n) BY RingInSum
  <2>1. Ring(Ring(e.from) + e.length) = Ring(e.from + e.length) BY <2>4, <2>5, <2>6
  <2>2. e.from + e.length \in Nat BY <1>6
  <2>3. Ring(e.from + e.length) \in Addresses BY <2>2, RingIsAddress
  <2> QED BY <2>1, <2>2, <2>3, <1>6 DEF End
<1>12. app'[s] = Ring(End(e)) /\ app' \in [Sessions -> Addresses] /\ \A x \in Sessions : x # s => app'[x] = app[x]
  BY <1>3, <1>4, <1>6, <1>11
<1>13. Types'
  <2>1. statuses' \in Nat BY <1>3, <1>4
  <2>2. StoreTypes' BY <2>1, <1>3, <1>4, <1>12 DEF Types, StoreTypes
  <2> QED BY <2>2, <1>3, <1>4, AppTypesFrame, EngineTypesFrame, PointerTypesFrame DEF Types
<1>14. HeldInv'
  <2>1. ASSUME NEW x \in Sessions
        PROVE  \E r \in 0 .. written[x] : Chain(Held', x, r, written[x]) /\ app'[x] = Ring(r)
    <3>1. PICK r \in 0 .. written[x] : Chain(Held, x, r, written[x]) /\ app[x] = Ring(r) BY DEF IInv, HeldInv
    <3>2. r \in Nat /\ written[x] \in Nat BY <1>4 DEF Types, PointerTypes
    <3>3. CASE x = s
      <4>1. Of(Head(Held), x) BY <3>3, <1>6, <1>9 DEF Of
      <4>2. End(Head(Held)) <= written[x] /\ Chain(Tail(Held), x, End(Head(Held)), written[x])
        BY <4>1, <3>1, <3>2, <1>7, <1>9, ChainPops
      <4>3. End(e) \in 0 .. written[x] /\ Chain(Held', x, End(e), written[x]) BY <4>2, <3>2, <1>9, <1>11
      <4> QED BY <4>3, <3>3, <1>12
    <3>4. CASE x # s
      <4>1. ~Of(Head(Held), x) BY <3>4, <1>6, <1>9 DEF Of
      <4>2. Chain(Tail(Held), x, r, written[x]) BY <4>1, <3>1, <3>2, <1>7, <1>9, ChainSkips
      <4> QED BY <4>2, <3>1, <3>4, <1>9, <1>12
    <3> QED BY <3>3, <3>4
  <2> QED BY <2>1, <1>3 DEF HeldInv
<1>15. PICK f \in [0 .. Len(Held) -> Int] : SumsUp(f, Held) /\ statuses + Consumed = f[Gone] BY DEF IInv, CountInv
<1>16. f[1] = StatusesFor(e) /\ StatusesFor(e) \in {1, 2} /\ Consumed = StatusesFor(e) - 1 /\ Consumed' = 0
  <2>1. f[1] = StatusesFor(e) BY <1>7, <1>9, <1>15, SumsShrink
  <2> QED BY <2>1, <1>1, <1>3, <1>5 DEF StatusesFor, Consumed
<1>17. Gone \in Nat /\ Gone = Len(Held) - Len(pushQ) /\ Gone > 0 /\ Gone' = Gone - 1
  <2>1. Gone \in Nat /\ Gone = Len(Held) - Len(pushQ) BY DEF IInv, PushesAreHeld, Gone
  <2>2. f[0] = 0 BY <1>15 DEF SumsUp
  <2>3. f[Gone] > 0 BY <1>3, <1>4, <1>15, <1>16
  <2>4. Gone # 0 BY <2>2, <2>3
  <2>5. Gone' = Len(Held') - Len(pushQ') BY DEF Gone
  <2> QED BY <2>1, <2>4, <2>5, <1>3, <1>10
<1>18. PushesAreHeld'
  <2>1. ASSUME NEW i \in DOMAIN pushQ PROVE pushQ[i] = Held'[Gone' + i]
    <3>1. pushQ[i] = Held[Gone + i] BY DEF IInv, PushesAreHeld
    <3>2. i \in 1 .. Len(pushQ) BY <1>7
    <3>3. Gone' + i \in 1 .. Len(Held) - 1 /\ (Gone' + i) + 1 = Gone + i BY <3>2, <1>10, <1>17
    <3> QED BY <3>1, <3>3, <1>10
  <2> QED BY <2>1, <1>3, <1>17 DEF PushesAreHeld
<1>19. CountInv'
  <2>1. PICK g \in [0 .. Len(Held) - 1 -> Int] : SumsUp(g, Tail(Held)) /\ \A k \in 0 .. Len(Held) - 1 : g[k] = f[k + 1] - f[1]
    BY <1>7, <1>9, <1>15, SumsShrink
  <2>2. Gone - 1 \in 0 .. Len(Held) - 1 /\ (Gone - 1) + 1 = Gone BY <1>10, <1>17
  <2>3. g[Gone - 1] = f[Gone] - f[1] BY <2>1, <2>2
  <2>7. Gone \in 0 .. Len(Held) /\ 1 \in 0 .. Len(Held) BY <1>10, <1>17
  <2>4. f[Gone] \in Int /\ f[1] \in Int BY <2>7, <1>15
  <2>5. statuses' + Consumed' = f[Gone] - f[1] BY <2>4, <1>3, <1>4, <1>15, <1>16
  <2>6. g \in [0 .. Len(Held') -> Int] /\ SumsUp(g, Held') /\ statuses' + Consumed' = g[Gone']
    BY <2>1, <2>3, <2>5, <1>9, <1>10, <1>17
  <2> QED BY <2>6, <1>3 DEF CountInv
<1> QED BY <1>3, <1>13, <1>14, <1>18, <1>19, PointersFrame, ReportFrame, RequestFrame, SentFrame, StoredFrame,
           RetransmitFrame, ReadsFrame, DataFrame, WireFrame DEF IInv

LEMMA HandleStatusKeeps == IInv /\ HandleStatus => IInv'
BY FirstStatusKeeps, LastStatusKeeps

-----------------------------------------------------------------------------
(* The tx engine                                                           *)

LEMMA QueueLoses ==
    ASSUME NEW S, NEW q \in Seq(S), q # <<>>
    PROVE  /\ 1 \in DOMAIN q /\ Head(q) = q[1] /\ Head(q) \in S /\ Tail(q) \in Seq(S)
           /\ Len(q) \in Nat /\ Len(q) > 0 /\ Len(Tail(q)) = Len(q) - 1
           /\ DOMAIN q = 1 .. Len(q) /\ DOMAIN Tail(q) = 1 .. Len(q) - 1
           /\ \A i \in 1 .. Len(q) - 1 : i + 1 \in DOMAIN q /\ Tail(q)[i] = q[i + 1]
<1>1. /\ 1 \in DOMAIN q /\ Head(q) = q[1] /\ Tail(q) \in Seq(S)
      /\ Len(q) \in Nat /\ Len(q) > 0 /\ Len(Tail(q)) = Len(q) - 1
      /\ DOMAIN q = 1 .. Len(q) /\ DOMAIN Tail(q) = 1 .. Len(q) - 1
      /\ \A i \in 1 .. Len(q) - 1 : i + 1 \in DOMAIN q /\ Tail(q)[i] = q[i + 1]
  OBVIOUS
<1> QED BY <1>1

LEMMA QueueGains ==
    ASSUME NEW S, NEW q \in Seq(S), NEW x \in S
    PROVE  /\ Append(q, x) \in Seq(S) /\ Len(q) \in Nat /\ Len(Append(q, x)) = Len(q) + 1
           /\ DOMAIN q = 1 .. Len(q) /\ DOMAIN Append(q, x) = 1 .. Len(q) + 1
           /\ Append(q, x)[Len(q) + 1] = x
           /\ \A i \in 1 .. Len(q) : Append(q, x)[i] = q[i]
OBVIOUS

\* The queues of the engine, by their types.
LEMMA EngineIsTyped ==
    ASSUME Types
    PROVE  /\ txQ \in Seq(Events \cup Again) /\ txQ \in Seq(Dated) /\ bypassQ \in Seq(Payloads)
           /\ readCmdQ \in Seq(Commands) /\ segmentQ \in Seq(Segments) /\ pushQ \in Seq(Events)
           /\ ackd \in [Sessions -> Nat] /\ notAckd \in [Sessions -> Nat]
           /\ reached \in [Sessions -> Nat] /\ written \in [Sessions -> Nat]
BY QueuesAreDated DEF Types, EngineTypes, PointerTypes

\* A segment with its data: no read is due for it.
LEMMA ReadsPad ==
    ASSUME Types, ReadsInv, NEW g \in Segments, g.bypass,
           segmentQ' = Append(segmentQ, g), readCmdQ' = readCmdQ
    PROVE  ReadsInv'
<1>1. PICK m \in Nat : m = Len(segmentQ) BY EngineIsTyped
<1>2. /\ DOMAIN segmentQ = 1 .. m /\ Len(segmentQ') = m + 1 /\ segmentQ'[m + 1] = g
      /\ \A j \in 1 .. m : segmentQ'[j] = segmentQ[j]
  BY <1>1, EngineIsTyped, QueueGains
<1>3. PICK t : t = ReadsDue OBVIOUS
<1>4. PICK u : u = ReadsDue' OBVIOUS
<1>5. DOMAIN t = 1 .. m /\ \A j \in 1 .. m : t[j] = Command(segmentQ[j]) BY <1>1, <1>3 DEF ReadsDue
<1>6. DOMAIN u = 1 .. m + 1 /\ \A j \in 1 .. m + 1 : u[j] = Command(segmentQ'[j]) BY <1>2, <1>4 DEF ReadsDue
<1>7. Command(g) = {} BY DEF Command
<1>0. PICK i \in 1 .. m + 1 : i = m + 1 OBVIOUS
<1>8. \A j \in 1 .. m + 1 : u[j] = IF j < i THEN t[j] ELSE IF j = i THEN {} ELSE t[j - 1]
  <2> TAKE j \in 1 .. m + 1
  <2>1. CASE j = i
    <3>1. u[j] = Command(segmentQ'[m + 1]) BY <2>1, <1>0, <1>6
    <3>2. u[j] = {} BY <3>1, <1>2, <1>7
    <3> QED BY <2>1, <3>2
  <2>2. CASE j # i
    <3>1. j \in 1 .. m /\ j < i BY <2>2, <1>0
    <3>2. u[j] = t[j] BY <3>1, <1>2, <1>5, <1>6
    <3> QED BY <3>1, <3>2
  <2> QED BY <2>1, <2>2
<1>9. Thin(readCmdQ, t) /\ readCmdQ \in Seq(Commands) BY <1>3, EngineIsTyped DEF ReadsInv
<1>11. Longer(u, t, m, i) BY <1>5, <1>6, <1>8 DEF Longer
<1>10. Thin(readCmdQ, u) BY <1>9, <1>11, ThinPads
<1> QED BY <1>4, <1>10 DEF ReadsInv

\* A segment whose data is read: one read is due.
LEMMA ReadsGrow ==
    ASSUME Types, ReadsInv, NEW g \in Segments, NEW c \in Commands, Command(g) = {c},
           segmentQ' = Append(segmentQ, g), readCmdQ' = Append(readCmdQ, c)
    PROVE  ReadsInv'
<1>1. PICK m \in Nat : m = Len(segmentQ) BY EngineIsTyped
<1>2. /\ DOMAIN segmentQ = 1 .. m /\ Len(segmentQ') = m + 1 /\ segmentQ'[m + 1] = g
      /\ \A j \in 1 .. m : segmentQ'[j] = segmentQ[j]
  BY <1>1, EngineIsTyped, QueueGains
<1>3. PICK t : t = ReadsDue OBVIOUS
<1>4. PICK u : u = ReadsDue' OBVIOUS
<1>5. DOMAIN t = 1 .. m /\ \A j \in 1 .. m : t[j] = Command(segmentQ[j]) BY <1>1, <1>3 DEF ReadsDue
<1>6. DOMAIN u = 1 .. m + 1 /\ \A j \in 1 .. m + 1 : u[j] = Command(segmentQ'[j]) BY <1>2, <1>4 DEF ReadsDue
<1>7. \A j \in 1 .. m : u[j] = t[j] BY <1>2, <1>5, <1>6
<1>8. u[m + 1] = {c} BY <1>2, <1>6
<1>9. Thin(readCmdQ, t) /\ readCmdQ \in Seq(Commands) BY <1>3, EngineIsTyped DEF ReadsInv
<1>11. Gains(u, t, m, c) BY <1>5, <1>6, <1>7, <1>8 DEF Gains
<1>12. m \in Nat /\ c \in Commands OBVIOUS
<1>10. Thin(Append(readCmdQ, c), u) BY ONLY <1>9, <1>11, <1>12, ThinAdds
<1> QED BY <1>4, <1>10 DEF ReadsInv

\* DataDue by its two parts.
LEMMA DataDueMeans ==
    ASSUME Types
    PROVE  \E m, n \in Nat :
             /\ m = Len(segmentQ) /\ n = Len(txQ) /\ DOMAIN segmentQ = 1 .. m /\ DOMAIN txQ = 1 .. n
             /\ DOMAIN DataDue = 1 .. m + n
             /\ \A j \in 1 .. m : DataDue[j] = Passing(segmentQ[j])
             /\ \A j \in m + 1 .. m + n : DataDue[j] = ToPass(txQ[j - m])
<1>1. PICK m \in Nat : m = Len(segmentQ) /\ DOMAIN segmentQ = 1 .. m BY EngineIsTyped
<1>2. PICK n \in Nat : n = Len(txQ) /\ DOMAIN txQ = 1 .. n BY EngineIsTyped
<1>3. DataDue = [j \in 1 .. m + n |-> IF j <= m THEN Passing(segmentQ[j]) ELSE ToPass(txQ[j - m])]
  BY <1>1, <1>2 DEF DataDue
<1>4. \A j \in 1 .. m : j \in 1 .. m + n /\ j <= m OBVIOUS
<1>5. \A j \in m + 1 .. m + n : j \in 1 .. m + n /\ ~(j <= m) OBVIOUS
<1> QED BY <1>1, <1>2, <1>3, <1>4, <1>5

\* A segment whose data is read: nothing is due past the memory.
LEMMA DataPads ==
    ASSUME Types, Types', DataInv, NEW g \in Segments, ~g.bypass,
           segmentQ' = Append(segmentQ, g), bypassQ' = bypassQ, txQ' = txQ
    PROVE  DataInv'
<1>1. PICK m, n \in Nat :
             /\ m = Len(segmentQ) /\ n = Len(txQ) /\ DOMAIN segmentQ = 1 .. m /\ DOMAIN txQ = 1 .. n
             /\ DOMAIN DataDue = 1 .. m + n
             /\ \A j \in 1 .. m : DataDue[j] = Passing(segmentQ[j])
             /\ \A j \in m + 1 .. m + n : DataDue[j] = ToPass(txQ[j - m])
  BY DataDueMeans
<1>2. /\ Len(segmentQ') = m + 1 /\ segmentQ'[m + 1] = g
      /\ \A j \in 1 .. m : segmentQ'[j] = segmentQ[j]
  BY <1>1, EngineIsTyped, QueueGains
<1>3. PICK t : t = DataDue OBVIOUS
<1>4. PICK u : u = DataDue' OBVIOUS
<1>5. u = [j \in 1 .. (m + 1) + n |-> IF j <= m + 1 THEN Passing(segmentQ'[j]) ELSE ToPass(txQ[j - (m + 1)])]
  BY <1>1, <1>2, <1>4 DEF DataDue
<1>6. Passing(g) = {} BY DEF Passing
<1>0. PICK k \in Nat : k = m + n OBVIOUS
<1>12. PICK i \in 1 .. k + 1 : i = m + 1 BY <1>0
<1>7. \A j \in 1 .. k + 1 : u[j] = IF j < i THEN t[j] ELSE IF j = i THEN {} ELSE t[j - 1]
  <2> TAKE j \in 1 .. k + 1
  <2>0. /\ j \in 1 .. (m + 1) + n
        /\ u[j] = IF j <= m + 1 THEN Passing(segmentQ'[j]) ELSE ToPass(txQ[j - (m + 1)])
    <3>1. j \in 1 .. (m + 1) + n BY <1>0
    <3> QED BY <3>1, <1>5
  <2>1. CASE j = i
    <3>1. u[j] = Passing(segmentQ'[j]) /\ segmentQ'[j] = g BY <2>0, <2>1, <1>2, <1>12
    <3>2. u[j] = {} BY <3>1, <1>6
    <3> QED BY <2>1, <3>2
  <2>2. CASE j < i
    <3>1. j \in 1 .. m /\ j <= m + 1 BY <2>2, <1>12
    <3>2. u[j] = Passing(segmentQ'[j]) BY <2>0, <3>1
    <3>3. u[j] = t[j] BY <3>1, <3>2, <1>1, <1>2, <1>3
    <3> QED BY <2>2, <3>3
  <2>3. CASE j > i
    <3>1. j - 1 \in m + 1 .. m + n /\ (j - 1) - m = j - (m + 1) /\ ~(j <= m + 1) BY <2>3, <1>0, <1>12
    <3>2. u[j] = ToPass(txQ[j - (m + 1)]) BY <2>0, <3>1
    <3>3. t[j - 1] = ToPass(txQ[(j - 1) - m]) BY <3>1, <1>1, <1>3
    <3>4. u[j] = t[j - 1] BY <3>1, <3>2, <3>3
    <3> QED BY <2>3, <3>4
  <2>4. j < i \/ j = i \/ j > i OBVIOUS
  <2> QED BY <2>1, <2>2, <2>3, <2>4
<1>8. DOMAIN u = 1 .. k + 1
  <2>1. (m + 1) + n = k + 1 BY <1>0
  <2> QED BY <2>1, <1>5
<1>9. Thin(bypassQ, t) /\ bypassQ \in Seq(Payloads) BY <1>3, EngineIsTyped DEF DataInv
<1>10. DOMAIN t = 1 .. k BY <1>0, <1>1, <1>3
<1>13. Longer(u, t, k, i) BY <1>7, <1>8, <1>10 DEF Longer
<1>11. Thin(bypassQ, u) BY <1>9, <1>13, ThinPads
<1> QED BY <1>4, <1>11 DEF DataInv

\* What the segments ask for stays sent when more is.
LEMMA SegmentsStay ==
    ASSUME NEW g \in Segments, NEW sent \in [Sessions -> Nat], NEW more \in [Sessions -> Nat], NEW q,
           \A x \in Sessions : sent[x] <= more[x], SegmentInv(g, sent, q)
    PROVE  SegmentInv(g, more, q)
<1>1. g.session \in Sessions /\ g.seq + g.length \in Nat BY DEF Segments
<1>2. sent[g.session] \in Nat /\ more[g.session] \in Nat /\ sent[g.session] <= more[g.session] BY <1>1
<1>3. g.seq + g.length <= sent[g.session] BY DEF SegmentInv
<1>4. g.seq + g.length <= more[g.session] BY <1>1, <1>2, <1>3
<1> QED BY <1>4 DEF SegmentInv

\* The retransmissions that wait, when the first event leaves and is sent.
LEMMA AgainStays ==
    ASSUME IInv, txQ # <<>>, NEW more,
           \A x \in Sessions : more[x] = notAckd[x] \/ (Of(Head(txQ), x) /\ more[x] = End(Head(txQ)))
    PROVE  AgainInv(Tail(txQ), more, pushQ)
<1>1. txQ \in Seq(Events \cup Again) BY EngineIsTyped DEF IInv
<1>2. /\ 1 \in DOMAIN txQ /\ Head(txQ) = txQ[1] /\ Len(txQ) \in Nat
      /\ DOMAIN txQ = 1 .. Len(txQ) /\ DOMAIN Tail(txQ) = 1 .. Len(txQ) - 1
      /\ \A i \in 1 .. Len(txQ) - 1 : i + 1 \in DOMAIN txQ /\ Tail(txQ)[i] = txQ[i + 1]
  BY <1>1, QueueLoses
<1>3. ASSUME NEW i \in DOMAIN Tail(txQ), Tail(txQ)[i].type = "RT"
      PROVE  LET x == Tail(txQ)[i].session IN
             /\ Covered(pushQ, x, more[x])
             /\ \A j \in 1 .. i - 1 : Of(Tail(txQ)[j], x) => Covered(pushQ, x, End(Tail(txQ)[j]))
  <2>1. PICK e : e = Tail(txQ)[i] OBVIOUS
  <2>2. PICK x : x = e.session OBVIOUS
  <2>3. i \in Nat /\ i > 0 /\ i + 1 \in DOMAIN txQ /\ txQ[i + 1] = e /\ 1 \in 1 .. (i + 1) - 1 BY <1>2, <2>1
  <2>4. e \in Events \cup Again BY <1>1, <2>3
  <2>5. x \in Sessions BY <2>2, <2>4, EventsAreDated DEF Again
  <2>6. /\ Covered(pushQ, x, notAckd[x])
        /\ \A j \in 1 .. (i + 1) - 1 : Of(txQ[j], x) => Covered(pushQ, x, End(txQ[j]))
    BY <2>1, <2>2, <2>3, <1>3 DEF IInv, RetransmitInv, AgainInv
  <2>7. Covered(pushQ, x, more[x])
    <3>1. CASE more[x] = notAckd[x] BY <3>1, <2>6
    <3>2. CASE Of(Head(txQ), x) /\ more[x] = End(Head(txQ)) BY <3>2, <2>3, <2>6, <1>2
    <3> QED BY <3>1, <3>2, <2>5
  <2>8. ASSUME NEW j \in 1 .. i - 1, Of(Tail(txQ)[j], x) PROVE Covered(pushQ, x, End(Tail(txQ)[j]))
    <3>1. j + 1 \in 1 .. (i + 1) - 1 /\ j \in 1 .. Len(txQ) - 1 BY <2>3, <1>2
    <3>2. Tail(txQ)[j] = txQ[j + 1] BY <3>1, <1>2
    <3> QED BY <3>1, <3>2, <2>6, <2>8
  <2> QED BY <2>1, <2>2, <2>7, <2>8
<1> QED BY <1>3 DEF AgainInv

\* New data leaves as a segment.
LEMMA SendNewKeeps ==
    ASSUME IInv, SendNew
    PROVE  IInv'
<1>1. PICK e : e = Head(txQ) OBVIOUS
<1>2. PICK s : s = e.session OBVIOUS
<1>3. PICK g : g = [session |-> s, seq |-> notAckd[s], length |-> e.length, bypass |-> TRUE] OBVIOUS
<1>4. /\ engine = <<>> /\ txQ # <<>> /\ e.type = "TX"
      /\ segmentQ' = Append(segmentQ, g)
      /\ notAckd' = [notAckd EXCEPT ![s] = @ + e.length]
      /\ txQ' = Tail(txQ)
      /\ UNCHANGED <<request, appReqQ, appReply, pushQ, cacheQ, bypassQ, written, appTable, statuses, handler, app,
                     memory, engine, readCmdQ, wire, reached, ackd, ackPushQ, edge>>
  BY <1>1, <1>2, <1>3 DEF SendNew, appVars, storeVars, peerVars
<1>5. Types BY DEF IInv
<1>6. /\ txQ \in Seq(Events \cup Again) /\ txQ \in Seq(Dated) /\ segmentQ \in Seq(Segments)
      /\ notAckd \in [Sessions -> Nat] /\ written \in [Sessions -> Nat] /\ reached \in [Sessions -> Nat]
  BY <1>5, EngineIsTyped
<1>7. e \in Events
  <2>1. e \in Events \cup Again BY <1>1, <1>4, <1>6
  <2> QED BY <2>1, <1>4 DEF Again
<1>8. /\ s \in Sessions /\ e.from \in Nat /\ e.length \in Nat /\ e.length > 0 /\ Of(e, s)
  BY <1>2, <1>7, EventsAreDated DEF Of
<1>9. notAckd[s] \in Nat /\ written[s] \in Nat BY <1>6, <1>8
<1>10. /\ e.from = notAckd[s] /\ End(e) = notAckd[s] + e.length /\ End(e) \in Nat /\ End(e) <= written[s]
       /\ Chain(txQ', s, End(e), written[s])
  <2>1. Chain(txQ, s, notAckd[s], written[s]) BY <1>8 DEF IInv, SentInv
  <2>2. e.from = notAckd[s] /\ End(e) \in Nat /\ End(e) <= written[s] /\ Chain(Tail(txQ), s, End(e), written[s])
    BY <2>1, <1>1, <1>4, <1>6, <1>8, <1>9, ChainPops
  <2> QED BY <2>2, <1>4 DEF End
<1>11. /\ notAckd' \in [Sessions -> Nat] /\ notAckd'[s] = End(e)
       /\ \A x \in Sessions : x # s => notAckd'[x] = notAckd[x]
  BY <1>4, <1>6, <1>8, <1>9, <1>10
<1>12. g \in Segments /\ g.bypass /\ g.session = s /\ g.seq = notAckd[s] /\ g.length = e.length
  BY <1>3, <1>8, <1>9 DEF Segments
<1>13. Types'
  <2>1. txQ' \in Seq(Events \cup Again) BY <1>4, <1>6, QueueLoses
  <2>2. segmentQ' \in Seq(Segments) BY <1>4, <1>6, <1>12, QueueGains
  <2>3. EngineTypes' BY <2>1, <2>2, <1>4, <1>5 DEF Types, EngineTypes
  <2>4. PointerTypes' BY <1>4, <1>5, <1>11 DEF Types, PointerTypes
  <2> QED BY <2>3, <2>4, <1>4, <1>5, AppTypesFrame, StoreTypesFrame DEF Types
<1>14. PointersInv'
  <2>1. ASSUME NEW x \in Sessions
        PROVE  /\ ackd[x] <= reached[x] /\ reached[x] <= notAckd'[x] /\ notAckd'[x] <= written[x]
               /\ written[x] - ackd[x] < BufferSize
               /\ written[x] <= edge[x] /\ edge[x] <= ackd[x] + Window[x]
    <3>1. /\ ackd[x] <= reached[x] /\ reached[x] <= notAckd[x] /\ notAckd[x] <= written[x]
          /\ written[x] - ackd[x] < BufferSize
          /\ written[x] <= edge[x] /\ edge[x] <= ackd[x] + Window[x]
      BY DEF IInv, PointersInv
    <3>2. CASE x = s
      <4>1. reached[s] \in Nat BY <1>6, <1>8
      <4>2. reached[s] <= notAckd'[s] BY <4>1, <3>1, <3>2, <1>8, <1>9, <1>10, <1>11
      <4> QED BY <4>2, <3>1, <3>2, <1>10, <1>11
    <3>3. CASE x # s BY <3>1, <3>3, <1>11
    <3> QED BY <3>2, <3>3
  <2> QED BY <2>1, <1>4 DEF PointersInv
<1>15. SentInv'
  <2>1. ASSUME NEW x \in Sessions PROVE Chain(txQ', x, notAckd'[x], written[x])
    <3>1. CASE x = s BY <3>1, <1>10, <1>11
    <3>2. CASE x # s
      <4>1. ~Of(Head(txQ), x) BY <3>2, <1>1, <1>2 DEF Of
      <4>2. Chain(txQ, x, notAckd[x], written[x]) BY DEF IInv, SentInv
      <4>3. notAckd[x] \in Nat /\ written[x] \in Nat BY <1>6
      <4>4. Chain(Tail(txQ), x, notAckd[x], written[x]) BY <4>1, <4>2, <4>3, <1>4, <1>6, ChainSkips
      <4> QED BY <4>4, <3>2, <1>4, <1>11
    <3> QED BY <3>1, <3>2
  <2> QED BY <2>1, <1>4 DEF SentInv
<1>16. RetransmitInv'
  <2>1. AgainInv(Tail(txQ), notAckd', pushQ)
    <3>1. \A x \in Sessions : notAckd'[x] = notAckd[x] \/ (Of(Head(txQ), x) /\ notAckd'[x] = End(Head(txQ)))
      BY <1>1, <1>8, <1>11
    <3> QED BY <3>1, <1>4, AgainStays
  <2>2. RestInv(engine, notAckd', pushQ) BY <1>4 DEF RestInv
  <2>3. \A x \in Sessions : notAckd[x] <= notAckd'[x]
    <3> TAKE x \in Sessions
    <3>1. CASE x = s BY <3>1, <1>8, <1>9, <1>10, <1>11
    <3>2. CASE x # s BY <3>2, <1>6, <1>11
    <3> QED BY <3>1, <3>2
  <2>4. ASSUME NEW i \in DOMAIN segmentQ' PROVE SegmentInv(segmentQ'[i], notAckd', pushQ)
    <3>1. /\ DOMAIN segmentQ = 1 .. Len(segmentQ) /\ DOMAIN segmentQ' = 1 .. Len(segmentQ) + 1 /\ Len(segmentQ) \in Nat
          /\ segmentQ'[Len(segmentQ) + 1] = g /\ \A j \in 1 .. Len(segmentQ) : segmentQ'[j] = segmentQ[j]
      BY <1>4, <1>6, <1>12, QueueGains
    <3>2. CASE i = Len(segmentQ) + 1
      <4>1. SegmentInv(g, notAckd', pushQ) BY <1>8, <1>10, <1>11, <1>12 DEF SegmentInv
      <4> QED BY <4>1, <3>1, <3>2
    <3>3. CASE i # Len(segmentQ) + 1
      <4>1. i \in 1 .. Len(segmentQ) BY <3>1, <3>3
      <4>2. segmentQ[i] \in Segments /\ SegmentInv(segmentQ[i], notAckd, pushQ)
        BY <4>1, <3>1, <1>6 DEF IInv, RetransmitInv
      <4>3. SegmentInv(segmentQ[i], notAckd', pushQ) BY <4>2, <2>3, <1>6, <1>11, SegmentsStay
      <4> QED BY <4>1, <4>3, <3>1
    <3> QED BY <3>2, <3>3
  <2> QED BY <2>1, <2>2, <2>4, <1>4 DEF RetransmitInv
<1>17. ReadsInv'
  <2>1. ReadsInv BY DEF IInv
  <2> QED BY <2>1, <1>4, <1>5, <1>12, ReadsPad
<1>18. DataInv'
  <2>1. PICK m, n \in Nat :
             /\ m = Len(segmentQ) /\ n = Len(txQ) /\ DOMAIN segmentQ = 1 .. m /\ DOMAIN txQ = 1 .. n
             /\ DOMAIN DataDue = 1 .. m + n
             /\ \A j \in 1 .. m : DataDue[j] = Passing(segmentQ[j])
             /\ \A j \in m + 1 .. m + n : DataDue[j] = ToPass(txQ[j - m])
    BY <1>5, DataDueMeans
  <2>2. /\ Len(segmentQ') = m + 1 /\ segmentQ'[m + 1] = g /\ \A j \in 1 .. m : segmentQ'[j] = segmentQ[j]
    BY <2>1, <1>4, <1>6, <1>12, QueueGains
  <2>3. n > 0 /\ Len(txQ') = n - 1 /\ txQ[1] = e /\ \A i \in 1 .. n - 1 : txQ'[i] = txQ[i + 1]
    BY <2>1, <1>1, <1>4, <1>6, QueueLoses
  <2>4. (m + 1) + (n - 1) = m + n OBVIOUS
  <2>5. DataDue' = [j \in 1 .. m + n |-> IF j <= m + 1 THEN Passing(segmentQ'[j]) ELSE ToPass(txQ'[j - (m + 1)])]
    BY <2>2, <2>3, <2>4 DEF DataDue
  <2>6. Passing(g) = {Bytes(s, e.from, e.length)} /\ ToPass(e) = {Bytes(s, e.from, e.length)}
    BY <1>2, <1>4, <1>10, <1>12 DEF Passing, ToPass
  <2>7. ASSUME NEW j \in 1 .. m + n PROVE DataDue'[j] = DataDue[j]
    <3>0. DataDue'[j] = IF j <= m + 1 THEN Passing(segmentQ'[j]) ELSE ToPass(txQ'[j - (m + 1)]) BY <2>5
    <3>1. CASE j <= m
      <4>1. j \in 1 .. m /\ j <= m + 1 BY <3>1
      <4> QED BY <4>1, <3>0, <2>1, <2>2
    <3>2. CASE j = m + 1
      <4>1. DataDue'[j] = Passing(g) BY <3>0, <3>2, <2>2
      <4>2. j \in m + 1 .. m + n /\ j - m = 1 BY <3>2, <2>3
      <4>3. DataDue[j] = ToPass(e) BY <4>2, <2>1, <2>3
      <4> QED BY <4>1, <4>3, <2>6
    <3>3. CASE j > m + 1
      <4>1. j \in m + 1 .. m + n /\ j - (m + 1) \in 1 .. n - 1 /\ (j - (m + 1)) + 1 = j - m /\ ~(j <= m + 1)
        BY <3>3
      <4>2. DataDue'[j] = ToPass(txQ'[j - (m + 1)]) BY <4>1, <3>0
      <4>3. txQ'[j - (m + 1)] = txQ[j - m] BY <4>1, <2>3
      <4>4. DataDue[j] = ToPass(txQ[j - m]) BY <4>1, <2>1
      <4> QED BY <4>2, <4>3, <4>4
    <3>4. j <= m \/ j = m + 1 \/ j > m + 1 OBVIOUS
    <3> QED BY <3>1, <3>2, <3>3, <3>4
  <2>8. DataDue' = DataDue
    <3>1. PICK t : t = DataDue OBVIOUS
    <3>2. PICK u : u = DataDue' OBVIOUS
    <3>3. t = [j \in 1 .. m + n |-> IF j <= m THEN Passing(segmentQ[j]) ELSE ToPass(txQ[j - m])]
      BY <3>1, <2>1 DEF DataDue
    <3>4. u = [j \in 1 .. m + n |-> IF j <= m + 1 THEN Passing(segmentQ'[j]) ELSE ToPass(txQ'[j - (m + 1)])]
      BY <3>2, <2>5
    <3>5. \A j \in 1 .. m + n : u[j] = t[j] BY <3>1, <3>2, <2>7
    <3>6. u = t BY <3>3, <3>4, <3>5
    <3> QED BY <3>1, <3>2, <3>6
  <2> QED BY <2>8, <1>4 DEF IInv, DataInv
<1> QED BY <1>4, <1>13, <1>14, <1>15, <1>16, <1>17, <1>18, ReportFrame, RequestFrame, HeldFrame, StoredFrame,
           PushesFrame, CountFrame, WireFrame DEF IInv

\* A retransmission begins: it asks for all that is sent and not acknowledged.
LEMMA BeginRetransmitKeeps ==
    ASSUME IInv, BeginRetransmit
    PROVE  IInv'
<1>1. PICK e : e = Head(txQ) OBVIOUS
<1>2. PICK s : s = e.session OBVIOUS
<1>3. PICK r : r = [session |-> s, ackd |-> ackd[s], left |-> Ring(notAckd[s] - ackd[s]), count |-> 0] OBVIOUS
<1>4. /\ engine = <<>> /\ txQ # <<>> /\ e.type = "RT" /\ engine' = r /\ txQ' = Tail(txQ)
      /\ UNCHANGED <<request, appReqQ, appReply, pushQ, cacheQ, bypassQ, written, appTable, statuses, handler, app,
                     memory, notAckd, readCmdQ, segmentQ, wire, reached, ackd, ackPushQ, edge>>
  BY <1>1, <1>2, <1>3 DEF BeginRetransmit, appVars, storeVars, peerVars
<1>5. Types BY DEF IInv
<1>6. /\ txQ \in Seq(Events \cup Again) /\ txQ \in Seq(Dated) /\ bypassQ \in Seq(Payloads)
      /\ notAckd \in [Sessions -> Nat] /\ written \in [Sessions -> Nat] /\ ackd \in [Sessions -> Nat]
  BY <1>5, EngineIsTyped
<1>7. s \in Sessions
  <2>1. e \in Events \cup Again BY <1>1, <1>4, <1>6
  <2> QED BY <2>1, <1>2, EventsAreDated DEF Again
<1>8. notAckd[s] \in Nat /\ ackd[s] \in Nat /\ notAckd[s] - ackd[s] \in 0 .. BufferSize - 1
  <2>1. notAckd[s] \in Nat /\ ackd[s] \in Nat /\ written[s] \in Nat /\ reached[s] \in Nat BY <1>5, <1>6, <1>7, EngineIsTyped
  <2>2. /\ ackd[s] <= reached[s] /\ reached[s] <= notAckd[s] /\ notAckd[s] <= written[s]
        /\ written[s] - ackd[s] < BufferSize
    BY <1>7 DEF IInv, PointersInv
  <2> QED BY <2>1, <2>2, SizeAssumption
<1>9. Ring(notAckd[s] - ackd[s]) = notAckd[s] - ackd[s] BY <1>8, RingOfSmall
<1>10. r \in Rests /\ r # <<>> /\ r.session = s /\ r.ackd + r.left = notAckd[s]
  <2>1. r \in Rests /\ r.session = s /\ r.ackd = ackd[s] /\ r.left = notAckd[s] - ackd[s] BY <1>3, <1>7, <1>8, <1>9 DEF Rests
  <2> QED BY <2>1, <1>8, RecordsAreNotEmpty
<1>11. Types'
  <2>1. txQ' \in Seq(Events \cup Again) BY <1>4, <1>6, QueueLoses
  <2>2. EngineTypes' BY <2>1, <1>4, <1>5, <1>10 DEF Types, EngineTypes
  <2> QED BY <2>2, <1>4, <1>5, AppTypesFrame, StoreTypesFrame, PointerTypesFrame DEF Types
<1>12. \A x : ~Of(Head(txQ), x) BY <1>1, <1>4 DEF Of
<1>13. SentInv'
  <2>1. ASSUME NEW x \in Sessions PROVE Chain(txQ', x, notAckd[x], written[x])
    <3>1. Chain(txQ, x, notAckd[x], written[x]) /\ notAckd[x] \in Nat /\ written[x] \in Nat BY <1>6 DEF IInv, SentInv
    <3>2. Chain(Tail(txQ), x, notAckd[x], written[x]) BY <3>1, <1>4, <1>6, <1>12, ChainSkips
    <3> QED BY <3>2, <1>4
  <2> QED BY <2>1, <1>4 DEF SentInv
<1>14. RetransmitInv'
  <2>1. AgainInv(Tail(txQ), notAckd, pushQ) BY <1>4, AgainStays
  <2>2. RestInv(r, notAckd, pushQ)
    <3>1. 1 \in DOMAIN txQ /\ txQ[1] = e BY <1>1, <1>4, <1>6, QueueLoses
    <3>2. Covered(pushQ, s, notAckd[s]) BY <3>1, <1>2, <1>4 DEF IInv, RetransmitInv, AgainInv
    <3> QED BY <3>2, <1>8, <1>10 DEF RestInv
  <2> QED BY <2>1, <2>2, <1>4 DEF IInv, RetransmitInv
<1>15. DataInv'
  <2>1. PICK m, n \in Nat :
             /\ m = Len(segmentQ) /\ n = Len(txQ) /\ DOMAIN segmentQ = 1 .. m /\ DOMAIN txQ = 1 .. n
             /\ DOMAIN DataDue = 1 .. m + n
             /\ \A j \in 1 .. m : DataDue[j] = Passing(segmentQ[j])
             /\ \A j \in m + 1 .. m + n : DataDue[j] = ToPass(txQ[j - m])
    BY <1>5, DataDueMeans
  <2>2. n > 0 /\ Len(txQ') = n - 1 /\ txQ[1] = e /\ \A i \in 1 .. n - 1 : txQ'[i] = txQ[i + 1]
    BY <2>1, <1>1, <1>4, <1>6, QueueLoses
  <2>3. PICK k \in Nat : k = m + n OBVIOUS
  <2>4. PICK i \in 1 .. k : i = m + 1 BY <2>2, <2>3
  <2>5. PICK t : t = DataDue OBVIOUS
  <2>6. PICK u : u = DataDue' OBVIOUS
  <2>7. u = [j \in 1 .. k - 1 |-> IF j <= m THEN Passing(segmentQ[j]) ELSE ToPass(txQ'[j - m])]
    <3>1. Len(segmentQ') + Len(txQ') = k - 1 /\ Len(segmentQ') = m BY <2>1, <2>2, <2>3, <1>4
    <3> QED BY <3>1, <2>6, <1>4 DEF DataDue
  <2>8. t[i] = {}
    <3>1. i \in m + 1 .. m + n /\ i - m = 1 BY <2>2, <2>4
    <3>2. t[i] = ToPass(e) BY <3>1, <2>1, <2>2, <2>5
    <3> QED BY <3>2, <1>4 DEF ToPass
  <2>9. \A j \in 1 .. k - 1 : u[j] = IF j < i THEN t[j] ELSE t[j + 1]
    <3> TAKE j \in 1 .. k - 1
    <3>0. u[j] = IF j <= m THEN Passing(segmentQ[j]) ELSE ToPass(txQ'[j - m]) BY <2>7
    <3>1. CASE j < i
      <4>1. j \in 1 .. m /\ j <= m BY <3>1, <2>4
      <4>2. u[j] = t[j] BY <4>1, <3>0, <2>1, <2>5
      <4> QED BY <3>1, <4>2
    <3>2. CASE ~(j < i)
      <4>1. ~(j <= m) /\ j + 1 \in m + 1 .. m + n /\ (j + 1) - m = (j - m) + 1 /\ j - m \in 1 .. n - 1
        BY <3>2, <2>3, <2>4
      <4>2. u[j] = ToPass(txQ'[j - m]) BY <4>1, <3>0
      <4>3. txQ'[j - m] = txQ[(j - m) + 1] BY <4>1, <2>2
      <4>4. t[j + 1] = ToPass(txQ[(j + 1) - m]) BY <4>1, <2>1, <2>5
      <4>5. u[j] = t[j + 1] BY <4>1, <4>2, <4>3, <4>4
      <4> QED BY <3>2, <4>5
    <3> QED BY <3>1, <3>2
  <2>10. Shorter(u, t, k, i) BY <2>1, <2>3, <2>5, <2>7, <2>8, <2>9 DEF Shorter
  <2>11. Thin(bypassQ, t) BY <2>5 DEF IInv, DataInv
  <2>12. Thin(bypassQ, u) BY <2>10, <2>11, <1>6, ThinLoses
  <2> QED BY <2>6, <2>12, <1>4 DEF DataInv
<1> QED BY <1>4, <1>11, <1>13, <1>14, <1>15, PointersFrame, ReportFrame, RequestFrame, HeldFrame, StoredFrame,
           PushesFrame, CountFrame, ReadsFrame, WireFrame DEF IInv

\* What a retransmission reads lies before what is on its way to the memory.
LEMMA CoveredBefore ==
    ASSUME NEW q \in Seq(Events), NEW x, NEW i \in Int, NEW j \in Int, Covered(q, x, i), j <= i
    PROVE  Covered(q, x, j)
<1>1. ASSUME NEW k \in DOMAIN q, q[k].session = x PROVE j <= q[k].from
  <2>1. q[k] \in Events OBVIOUS
  <2>2. q[k].from \in Nat BY <2>1, EventsAreDated
  <2>3. i <= q[k].from BY <1>1 DEF Covered
  <2> QED BY <2>2, <2>3
<1> QED BY <1>1 DEF Covered

\* A segment of a retransmission.
LEMMA SendAgainKeeps ==
    ASSUME IInv, SendAgain
    PROVE  IInv'
<1>1. PICK s : s = engine.session OBVIOUS
<1>2. PICK n : n = IF engine.left > MSS THEN MSS ELSE engine.left OBVIOUS
<1>3. PICK c : c = [session |-> s, address |-> Ring(engine.ackd), length |-> n] OBVIOUS
<1>4. PICK g : g = [session |-> s, seq |-> engine.ackd, length |-> n, bypass |-> FALSE] OBVIOUS
<1>5. /\ engine # <<>>
      /\ IF n # 0 THEN readCmdQ' = Append(readCmdQ, c) /\ segmentQ' = Append(segmentQ, g)
                  ELSE UNCHANGED <<readCmdQ, segmentQ>>
      /\ engine' = IF engine.left > MSS /\ engine.count < 3
                     THEN [engine EXCEPT !.ackd = @ + MSS, !.left = @ - MSS, !.count = @ + 1]
                     ELSE <<>>
      /\ UNCHANGED <<request, appReqQ, appReply, pushQ, cacheQ, bypassQ, written, appTable, statuses, handler, app,
                     memory, txQ, notAckd, wire, reached, ackd, ackPushQ, edge>>
  BY <1>1, <1>2, <1>3, <1>4 DEF SendAgain, appVars, storeVars, peerVars
<1>6. Types BY DEF IInv
<1>7. /\ pushQ \in Seq(Events) /\ segmentQ \in Seq(Segments) /\ readCmdQ \in Seq(Commands)
      /\ notAckd \in [Sessions -> Nat]
  BY <1>6, EngineIsTyped
<1>8. /\ engine \in Rests /\ s \in Sessions /\ engine.ackd \in Nat /\ engine.left \in 0 .. BufferSize - 1
      /\ engine.count \in 0 .. 3
  <2>1. engine \in Rests BY <1>5, <1>6 DEF Types, EngineTypes
  <2> QED BY <2>1, <1>1 DEF Rests
<1>9. /\ n \in Nat /\ n <= engine.left /\ n \in 0 .. BufferSize - 1 /\ engine.left \in Nat
      /\ engine.ackd + n <= engine.ackd + engine.left /\ engine.ackd + n \in Nat
      /\ engine.ackd + engine.left \in Nat
  <2>1. n \in Nat /\ n <= engine.left BY <1>2, <1>8, SizeAssumption
  <2> QED BY <2>1, <1>8, SizeAssumption
<1>10. engine.ackd + engine.left <= notAckd[s] /\ Covered(pushQ, s, engine.ackd + engine.left)
  BY <1>1, <1>5 DEF IInv, RetransmitInv, RestInv
<1>11. notAckd[s] \in Nat BY <1>7, <1>8
<1>12. g \in Segments /\ ~g.bypass /\ g.session = s /\ g.seq = engine.ackd /\ g.length = n
  BY <1>4, <1>8, <1>9 DEF Segments
<1>13. n # 0 => c \in Commands /\ Command(g) = {c}
  <2>1. Ring(engine.ackd) \in Addresses BY <1>8, RingIsAddress
  <2>2. n # 0 => n \in 1 .. BufferSize - 1 BY <1>9
  <2> QED BY <2>1, <2>2, <1>3, <1>8, <1>12 DEF Commands, Command
<1>14. /\ engine' # <<>> => /\ engine' \in Rests /\ engine'.session = s
                            /\ engine'.ackd + engine'.left = engine.ackd + engine.left
       /\ engine' \in {<<>>} \cup Rests
  <2>1. CASE engine.left > MSS /\ engine.count < 3
    <3>1. engine' = [engine EXCEPT !.ackd = @ + MSS, !.left = @ - MSS, !.count = @ + 1] BY <2>1, <1>5
    <3>2. engine.ackd + MSS \in Nat /\ engine.left - MSS \in 0 .. BufferSize - 1 /\ engine.count + 1 \in 0 .. 3
      BY <2>1, <1>8, SizeAssumption
    <3>3. /\ engine' \in Rests /\ engine'.session = s /\ engine'.ackd = engine.ackd + MSS
          /\ engine'.left = engine.left - MSS
      BY <3>1, <3>2, <1>1, <1>8 DEF Rests
    <3> QED BY <3>3, <1>8, SizeAssumption
  <2>2. CASE ~(engine.left > MSS /\ engine.count < 3) BY <2>2, <1>5
  <2> QED BY <2>1, <2>2
<1>15. Types'
  <2>1. readCmdQ' \in Seq(Commands) /\ segmentQ' \in Seq(Segments)
    <3>1. CASE n # 0
      <4>1. readCmdQ' = Append(readCmdQ, c) /\ segmentQ' = Append(segmentQ, g) /\ c \in Commands BY <3>1, <1>5, <1>13
      <4>2. readCmdQ' \in Seq(Commands) BY <4>1, <1>7
      <4>3. segmentQ' \in Seq(Segments) BY <4>1, <1>7, <1>12
      <4> QED BY <4>2, <4>3
    <3>2. CASE n = 0 BY <3>2, <1>5, <1>7
    <3> QED BY <3>1, <3>2
  <2>2. EngineTypes' BY <2>1, <1>5, <1>6, <1>14 DEF Types, EngineTypes
  <2> QED BY <2>2, <1>5, <1>6, AppTypesFrame, StoreTypesFrame, PointerTypesFrame DEF Types
<1>16. RetransmitInv'
  <2>1. RestInv(engine', notAckd, pushQ) BY <1>10, <1>14 DEF RestInv
  <2>2. ASSUME NEW i \in DOMAIN segmentQ' PROVE SegmentInv(segmentQ'[i], notAckd, pushQ)
    <3>1. CASE n = 0 BY <3>1, <1>5 DEF IInv, RetransmitInv
    <3>2. CASE n # 0
      <4>1. /\ DOMAIN segmentQ = 1 .. Len(segmentQ) /\ DOMAIN segmentQ' = 1 .. Len(segmentQ) + 1 /\ Len(segmentQ) \in Nat
            /\ segmentQ'[Len(segmentQ) + 1] = g /\ \A j \in 1 .. Len(segmentQ) : segmentQ'[j] = segmentQ[j]
        BY <3>2, <1>5, <1>7, <1>12, QueueGains
      <4>2. CASE i = Len(segmentQ) + 1
        <5>1. Covered(pushQ, s, engine.ackd + n) BY <1>7, <1>9, <1>10, CoveredBefore
        <5>2. engine.ackd + n <= notAckd[s] BY <1>9, <1>10, <1>11
        <5>3. n \in 1 .. BufferSize - 1 BY <3>2, <1>9
        <5>4. SegmentInv(g, notAckd, pushQ) BY <5>1, <5>2, <5>3, <1>12 DEF SegmentInv
        <5> QED BY <5>4, <4>1, <4>2
      <4>3. CASE i # Len(segmentQ) + 1
        <5>1. i \in 1 .. Len(segmentQ) BY <4>1, <4>3
        <5> QED BY <5>1, <4>1 DEF IInv, RetransmitInv
      <4> QED BY <4>2, <4>3
    <3> QED BY <3>1, <3>2
  <2> QED BY <2>1, <2>2, <1>5 DEF IInv, RetransmitInv
<1>17. ReadsInv' /\ DataInv'
  <2>1. ReadsInv /\ DataInv BY DEF IInv
  <2>2. CASE n # 0
    <3>1. ReadsInv' BY <2>1, <2>2, <1>5, <1>6, <1>12, <1>13, ReadsGrow
    <3>2. DataInv' BY <2>1, <2>2, <1>5, <1>6, <1>12, <1>15, DataPads
    <3> QED BY <3>1, <3>2
  <2>3. CASE n = 0 BY <2>1, <2>3, <1>5, ReadsFrame, DataFrame
  <2> QED BY <2>2, <2>3
<1> QED BY <1>5, <1>15, <1>16, <1>17, PointersFrame, ReportFrame, RequestFrame, SentFrame, HeldFrame, StoredFrame,
           PushesFrame, CountFrame, WireFrame DEF IInv

\* The larger of two.
LEMMA MaxOfTwo ==
    ASSUME NEW i \in Nat, NEW j \in Nat
    PROVE  Max({i, j}) \in {i, j} /\ i <= Max({i, j}) /\ j <= Max({i, j})
<1>1. \E x \in {i, j} : \A y \in {i, j} : x >= y
  <2>1. CASE i >= j BY <2>1
  <2>2. CASE j >= i BY <2>2
  <2> QED BY <2>1, <2>2
<1>2. PICK x \in {i, j} : x = Max({i, j}) /\ \A y \in {i, j} : x >= y BY <1>1 DEF Max
<1> QED BY <1>2

\* A segment leaves: the invariants that do not look at its data.
LEMMA EmitKeeps ==
    ASSUME IInv, NEW g, NEW d, g = Head(segmentQ), segmentQ # <<>>, Emit(g, d)
    PROVE  /\ g \in Segments /\ SegmentInv(g, notAckd, pushQ) /\ segmentQ' \in Seq(Segments)
           /\ wire' = [session |-> g.session, seq |-> g.seq, bypass |-> g.bypass, data |-> d]
           /\ reached' \in [Sessions -> Nat]
           /\ UNCHANGED <<ackd, notAckd, written, edge>> => PointersInv'
           /\ UNCHANGED <<txQ, notAckd, pushQ, engine>> => RetransmitInv'
<1>1. /\ wire' = [session |-> g.session, seq |-> g.seq, bypass |-> g.bypass, data |-> d]
      /\ reached' = [reached EXCEPT ![g.session] = Max({@, g.seq + g.length})]
      /\ segmentQ' = Tail(segmentQ)
  BY DEF Emit
<1>2. /\ segmentQ \in Seq(Segments) /\ reached \in [Sessions -> Nat] /\ notAckd \in [Sessions -> Nat]
      /\ ackd \in [Sessions -> Nat]
  BY EngineIsTyped DEF IInv
<1>3. /\ 1 \in DOMAIN segmentQ /\ g = segmentQ[1] /\ g \in Segments /\ segmentQ' \in Seq(Segments)
      /\ Len(segmentQ) \in Nat /\ DOMAIN segmentQ' = 1 .. Len(segmentQ) - 1
      /\ \A i \in 1 .. Len(segmentQ) - 1 : i + 1 \in DOMAIN segmentQ /\ segmentQ'[i] = segmentQ[i + 1]
  BY <1>1, <1>2, QueueLoses
<1>4. SegmentInv(g, notAckd, pushQ) BY <1>3 DEF IInv, RetransmitInv
<1>5. PICK s \in Sessions : s = g.session BY <1>3 DEF Segments
<1>6. PICK i \in Nat : i = g.seq + g.length BY <1>3 DEF Segments
<1>7. PICK j \in Nat : j = reached[s] BY <1>2
<1>8. Max({j, i}) \in {j, i} /\ j <= Max({j, i}) BY MaxOfTwo
<1>9. /\ reached' \in [Sessions -> Nat] /\ reached'[s] = Max({j, i})
      /\ \A x \in Sessions : x # s => reached'[x] = reached[x]
  BY <1>1, <1>2, <1>5, <1>6, <1>7, <1>8
<1>10. ASSUME UNCHANGED <<ackd, notAckd, written, edge>> PROVE PointersInv'
  <2>1. ASSUME NEW x \in Sessions
        PROVE  /\ ackd[x] <= reached'[x] /\ reached'[x] <= notAckd[x] /\ notAckd[x] <= written[x]
               /\ written[x] - ackd[x] < BufferSize
               /\ written[x] <= edge[x] /\ edge[x] <= ackd[x] + Window[x]
    <3>1. /\ ackd[x] <= reached[x] /\ reached[x] <= notAckd[x] /\ notAckd[x] <= written[x]
          /\ written[x] - ackd[x] < BufferSize
          /\ written[x] <= edge[x] /\ edge[x] <= ackd[x] + Window[x]
      BY DEF IInv, PointersInv
    <3>2. CASE x = s
      <4>1. i <= notAckd[s] BY <1>4, <1>5, <1>6 DEF SegmentInv
      <4>2. ackd[s] \in Nat BY <1>2
      <4>3. ackd[s] <= Max({j, i}) /\ Max({j, i}) <= notAckd[s] BY <4>1, <4>2, <3>1, <3>2, <1>7, <1>8
      <4> QED BY <4>3, <3>1, <3>2, <1>9
    <3>3. CASE x # s BY <3>1, <3>3, <1>9
    <3> QED BY <3>2, <3>3
  <2> QED BY <2>1, <1>10 DEF PointersInv
<1>11. ASSUME UNCHANGED <<txQ, notAckd, pushQ, engine>> PROVE RetransmitInv'
  <2>1. ASSUME NEW k \in DOMAIN segmentQ' PROVE SegmentInv(segmentQ'[k], notAckd, pushQ)
    <3>1. k + 1 \in DOMAIN segmentQ /\ segmentQ'[k] = segmentQ[k + 1] BY <1>3
    <3> QED BY <3>1 DEF IInv, RetransmitInv
  <2> QED BY <2>1, <1>11 DEF IInv, RetransmitInv
<1> QED BY <1>1, <1>3, <1>4, <1>9, <1>10, <1>11

\* A segment leaves: the reads that are due for those behind it.
LEMMA ReadsLose ==
    ASSUME Types, ReadsInv, segmentQ # <<>>, segmentQ' = Tail(segmentQ)
    PROVE  /\ Head(segmentQ).bypass /\ readCmdQ' = readCmdQ => ReadsInv'
           /\ \A c : Command(Head(segmentQ)) = {c} /\ readCmdQ' = Tail(readCmdQ) =>
                  readCmdQ # <<>> /\ Head(readCmdQ) = c /\ ReadsInv'
<1>1. segmentQ \in Seq(Segments) /\ readCmdQ \in Seq(Commands) BY EngineIsTyped
<1>2. PICK m \in Nat : m = Len(segmentQ) /\ DOMAIN segmentQ = 1 .. m BY <1>1
<1>3. /\ m > 0 /\ Head(segmentQ) = segmentQ[1] /\ Len(segmentQ') = m - 1
      /\ \A j \in 1 .. m - 1 : segmentQ'[j] = segmentQ[j + 1]
  BY <1>1, <1>2, QueueLoses
<1>4. PICK t : t = ReadsDue OBVIOUS
<1>5. PICK u : u = ReadsDue' OBVIOUS
<1>6. DOMAIN t = 1 .. m /\ \A j \in 1 .. m : t[j] = Command(segmentQ[j]) BY <1>2, <1>4 DEF ReadsDue
<1>7. DOMAIN u = 1 .. m - 1 /\ \A j \in 1 .. m - 1 : u[j] = Command(segmentQ'[j]) BY <1>3, <1>5 DEF ReadsDue
<1>8. \A j \in 1 .. m - 1 : u[j] = t[j + 1]
  <2> TAKE j \in 1 .. m - 1
  <2>1. j + 1 \in 1 .. m BY <1>3
  <2> QED BY <2>1, <1>3, <1>6, <1>7
<1>9. t[1] = Command(Head(segmentQ)) BY <1>3, <1>6
<1>10. Thin(readCmdQ, t) BY <1>4 DEF ReadsInv
<1>11. ASSUME Head(segmentQ).bypass, readCmdQ' = readCmdQ PROVE ReadsInv'
  <2>1. PICK i \in 1 .. m : i = 1 BY <1>3
  <2>2. t[i] = {} BY <2>1, <1>9, <1>11 DEF Command
  <2>3. \A j \in 1 .. m - 1 : u[j] = IF j < i THEN t[j] ELSE t[j + 1] BY <2>1, <1>8
  <2>4. Shorter(u, t, m, i) BY <2>2, <2>3, <1>6, <1>7 DEF Shorter
  <2>5. Thin(readCmdQ, u) BY <2>4, <1>1, <1>10, ThinLoses
  <2> QED BY <2>5, <1>5, <1>11 DEF ReadsInv
<1>12. ASSUME NEW c, Command(Head(segmentQ)) = {c}, readCmdQ' = Tail(readCmdQ)
       PROVE  readCmdQ # <<>> /\ Head(readCmdQ) = c /\ ReadsInv'
  <2>1. t[1] = {c} /\ 1 <= m BY <1>3, <1>9, <1>12
  <2>2. readCmdQ # <<>> /\ Head(readCmdQ) = c /\ Thin(Tail(readCmdQ), u)
    BY <2>1, <1>1, <1>6, <1>7, <1>8, <1>10, ThinTakes
  <2> QED BY <2>2, <1>5, <1>12 DEF ReadsInv
<1> QED BY <1>11, <1>12

\* A segment leaves: the data that is due for those behind it, and for the events.
LEMMA DataLoses ==
    ASSUME Types, DataInv, segmentQ # <<>>, segmentQ' = Tail(segmentQ), txQ' = txQ
    PROVE  /\ ~Head(segmentQ).bypass /\ bypassQ' = bypassQ => DataInv'
           /\ \A d : Passing(Head(segmentQ)) = {d} /\ bypassQ' = Tail(bypassQ) =>
                  bypassQ # <<>> /\ Head(bypassQ) = d /\ DataInv'
<1>1. segmentQ \in Seq(Segments) /\ bypassQ \in Seq(Payloads) BY EngineIsTyped
<1>2. PICK m, n \in Nat :
             /\ m = Len(segmentQ) /\ n = Len(txQ) /\ DOMAIN segmentQ = 1 .. m /\ DOMAIN txQ = 1 .. n
             /\ DOMAIN DataDue = 1 .. m + n
             /\ \A j \in 1 .. m : DataDue[j] = Passing(segmentQ[j])
             /\ \A j \in m + 1 .. m + n : DataDue[j] = ToPass(txQ[j - m])
  BY DataDueMeans
<1>3. /\ m > 0 /\ Head(segmentQ) = segmentQ[1] /\ Len(segmentQ') = m - 1
      /\ \A j \in 1 .. m - 1 : segmentQ'[j] = segmentQ[j + 1]
  BY <1>1, <1>2, QueueLoses
<1>4. PICK k \in Nat : k = m + n OBVIOUS
<1>5. PICK t : t = DataDue OBVIOUS
<1>6. PICK u : u = DataDue' OBVIOUS
<1>7. u = [j \in 1 .. k - 1 |-> IF j <= m - 1 THEN Passing(segmentQ'[j]) ELSE ToPass(txQ[j - (m - 1)])]
  <2>1. (m - 1) + n = k - 1 BY <1>4
  <2> QED BY <2>1, <1>2, <1>3, <1>6 DEF DataDue
<1>8. \A j \in 1 .. k - 1 : u[j] = t[j + 1]
  <2> TAKE j \in 1 .. k - 1
  <2>0. u[j] = IF j <= m - 1 THEN Passing(segmentQ'[j]) ELSE ToPass(txQ[j - (m - 1)]) BY <1>7
  <2>1. CASE j <= m - 1
    <3>1. j \in 1 .. m - 1 /\ j + 1 \in 1 .. m BY <2>1, <1>3
    <3> QED BY <3>1, <2>0, <2>1, <1>2, <1>3, <1>5
  <2>2. CASE ~(j <= m - 1)
    <3>1. j + 1 \in m + 1 .. m + n /\ (j + 1) - m = j - (m - 1) BY <2>2, <1>3, <1>4
    <3>2. t[j + 1] = ToPass(txQ[(j + 1) - m]) BY <3>1, <1>2, <1>5
    <3> QED BY <3>1, <3>2, <2>0, <2>2
  <2> QED BY <2>1, <2>2
<1>9. DOMAIN t = 1 .. k /\ DOMAIN u = 1 .. k - 1 /\ 1 <= k BY <1>2, <1>3, <1>4, <1>5, <1>7
<1>10. t[1] = Passing(Head(segmentQ)) BY <1>2, <1>3, <1>5
<1>11. Thin(bypassQ, t) BY <1>5 DEF DataInv
<1>12. ASSUME ~Head(segmentQ).bypass, bypassQ' = bypassQ PROVE DataInv'
  <2>1. PICK i \in 1 .. k : i = 1 BY <1>9
  <2>2. t[i] = {} BY <2>1, <1>10, <1>12 DEF Passing
  <2>3. \A j \in 1 .. k - 1 : u[j] = IF j < i THEN t[j] ELSE t[j + 1] BY <2>1, <1>8
  <2>4. Shorter(u, t, k, i) BY <2>2, <2>3, <1>9 DEF Shorter
  <2>5. Thin(bypassQ, u) BY <2>4, <1>1, <1>11, ThinLoses
  <2> QED BY <2>5, <1>6, <1>12 DEF DataInv
<1>13. ASSUME NEW d, Passing(Head(segmentQ)) = {d}, bypassQ' = Tail(bypassQ)
       PROVE  bypassQ # <<>> /\ Head(bypassQ) = d /\ DataInv'
  <2>1. t[1] = {d} BY <1>10, <1>13
  <2>2. bypassQ # <<>> /\ Head(bypassQ) = d /\ Thin(Tail(bypassQ), u)
    BY <2>1, <1>1, <1>8, <1>9, <1>11, ThinTakes
  <2> QED BY <2>2, <1>6, <1>13 DEF DataInv
<1> QED BY <1>12, <1>13

\* New data leaves with the bytes that bypassed the memory.
LEMMA EmitBypassKeeps ==
    ASSUME IInv, EmitBypass
    PROVE  IInv'
<1>1. PICK g : g = Head(segmentQ) OBVIOUS
<1>2. PICK d : d = Head(bypassQ) OBVIOUS
<1>3. /\ segmentQ # <<>> /\ g.bypass /\ bypassQ # <<>> /\ Emit(g, d) /\ bypassQ' = Tail(bypassQ)
      /\ segmentQ' = Tail(segmentQ)
      /\ UNCHANGED <<request, appReqQ, appReply, pushQ, cacheQ, written, appTable, statuses, handler, app, memory,
                     txQ, notAckd, engine, readCmdQ, ackd, ackPushQ, edge>>
  BY <1>1, <1>2 DEF EmitBypass, Emit, storeVars, peerVars
<1>4. Types BY DEF IInv
<1>5. /\ g \in Segments /\ segmentQ' \in Seq(Segments)
      /\ wire' = [session |-> g.session, seq |-> g.seq, bypass |-> g.bypass, data |-> d]
      /\ reached' \in [Sessions -> Nat] /\ PointersInv' /\ RetransmitInv'
  BY <1>1, <1>3, EmitKeeps
<1>6. /\ bypassQ \in Seq(Payloads) /\ bypassQ' \in Seq(Payloads) BY <1>3, <1>4, EngineIsTyped, QueueLoses
<1>7. Types'
  <2>1. EngineTypes' BY <1>3, <1>4, <1>5, <1>6 DEF Types, EngineTypes
  <2>2. PointerTypes' BY <1>3, <1>4, <1>5 DEF Types, PointerTypes
  <2> QED BY <2>1, <2>2, <1>3, <1>4, AppTypesFrame, StoreTypesFrame DEF Types
<1>8. PICK s \in Sessions : s = g.session BY <1>5 DEF Segments
<1>9. PICK i \in Nat : i = g.seq BY <1>5 DEF Segments
<1>10. PICK n \in Nat : n = g.length BY <1>5 DEF Segments
<1>11. Passing(g) = {Bytes(s, i, n)} BY <1>3, <1>8, <1>9, <1>10 DEF Passing
<1>12. d = Bytes(s, i, n) /\ DataInv'
  <2>1. DataInv BY DEF IInv
  <2>2. Head(bypassQ) = Bytes(s, i, n) /\ DataInv' BY <2>1, <1>1, <1>3, <1>4, <1>11, DataLoses
  <2> QED BY <2>2, <1>2
<1>13. ReadsInv'
  <2>1. ReadsInv BY DEF IInv
  <2> QED BY <2>1, <1>1, <1>3, <1>4, ReadsLose
<1>14. WireInv'
  <2>1. wire'.session = s /\ wire'.seq = i /\ wire'.data = d BY <1>5, <1>8, <1>9
  <2>2. DOMAIN d = 1 .. n /\ \A k \in 1 .. n : d[k] = Byte(s, i + k - 1) BY <1>12 DEF Bytes
  <2>3. \A k \in DOMAIN wire'.data : Original(k)' BY <2>1, <2>2 DEF Original, Byte
  <2>4. DOMAIN wire'.data \subseteq Nat BY <2>1, <2>2
  <2> QED BY <2>1, <2>3, <2>4 DEF WireInv
<1> QED BY <1>3, <1>5, <1>7, <1>12, <1>13, <1>14, ReportFrame, RequestFrame, SentFrame, HeldFrame, StoredFrame,
           PushesFrame, CountFrame DEF IInv

\* What lies before the writes that are on their way to the memory is in it.
LEMMA CoveredIsStored ==
    ASSUME IInv, NEW s \in Sessions, NEW x \in Nat, Covered(pushQ, s, x), x <= notAckd[s],
           NEW i \in Nat, ackd[s] <= i, i < x
    PROVE  InMemory(s, i)
<1>1. PICK b \in 0 .. written[s] : Chain(pushQ, s, b, written[s]) /\ \A j \in ackd[s] .. b - 1 : InMemory(s, j)
  BY DEF IInv, StoredInv
<1>2. ackd[s] \in Nat /\ written[s] \in Nat /\ notAckd[s] \in Nat /\ notAckd[s] <= written[s]
  BY EngineIsTyped DEF IInv, PointersInv
<1>3. b = written[s] \/ \E k \in DOMAIN pushQ : Of(pushQ[k], s) /\ pushQ[k].from = b BY <1>1 DEF Chain
<1>4. x <= b
  <2>1. CASE b = written[s] BY <2>1, <1>2
  <2>2. CASE \E k \in DOMAIN pushQ : Of(pushQ[k], s) /\ pushQ[k].from = b BY <2>2 DEF Covered, Of
  <2> QED BY <2>1, <2>2, <1>3
<1>5. i \in ackd[s] .. b - 1 BY <1>1, <1>2, <1>4
<1> QED BY <1>1, <1>5

\* What a read of n bytes at the address of offset i finds: the bytes of the ring
\* from there on, those behind its end at the start of session 0.
Read0(f, a, k) == IF k <= BufferSize - a THEN f[a + k - 1] ELSE memory[0][(a + k - 1) - BufferSize]
LEMMA StitchedMeans ==
    ASSUME NEW s, NEW a \in Addresses, NEW n \in 1 .. BufferSize - 1, NEW c,
           c = [session |-> s, address |-> a, length |-> n]
    PROVE  /\ DOMAIN Stitched(c) = 1 .. n
           /\ \A k \in 1 .. n : Stitched(c)[k] = Read0(memory[s], a, k)
<1>1. a \in Nat /\ a < BufferSize /\ n \in Nat /\ n > 0 /\ n < BufferSize /\ BufferSize - a \in Nat
  BY SizeAssumption DEF Addresses
<1>2. c.session = s /\ c.address = a /\ c.length = n OBVIOUS
<1>3. CASE ~(a + n > BufferSize)
  <2>1. Stitched(c) = Read(c)
    <3>1. Reads(c) = <<c>> BY <1>2, <1>3 DEF Reads, Crosses
    <3>2. Len(<<c>>) = 1 /\ <<c>>[1] = c OBVIOUS
    <3> QED BY <3>1, <3>2 DEF Stitched
  <2>2. Read(c) = [k \in 1 .. n |-> memory[s][a + k - 1]] BY <1>2 DEF Read
  <2>3. \A k \in 1 .. n : k <= BufferSize - a BY <1>1, <1>3, SizeAssumption
  <2> QED BY <2>1, <2>2, <2>3 DEF Read0
<1>4. CASE a + n > BufferSize
  <2>1. PICK m \in Nat : m = BufferSize - a BY <1>1
  <2>2. PICK l \in Nat : l = n - m BY <2>1, <1>1, <1>4, SizeAssumption
  <2>3. m + l = n /\ m \in 1 .. n BY <2>1, <2>2, <1>1, <1>4, SizeAssumption
  <2>4. PICK c1 : c1 = [c EXCEPT !.length = m] OBVIOUS
  <2>5. PICK c2 : c2 = [session |-> 0, address |-> 0, length |-> l] OBVIOUS
  <2>6. Stitched(c) = Read(c1) \o Read(c2)
    <3>1. Reads(c) = <<c1, c2>> BY <2>1, <2>2, <2>4, <2>5, <1>2, <1>4 DEF Reads, SecondRead, Crosses
    <3>2. Len(<<c1, c2>>) = 2 /\ <<c1, c2>>[1] = c1 /\ <<c1, c2>>[2] = c2 OBVIOUS
    <3> QED BY <3>1, <3>2 DEF Stitched
  <2>7. c1.session = s /\ c1.address = a /\ c1.length = m BY <2>4
  <2>8. PICK d1 : d1 = [k \in 1 .. m |-> memory[s][a + k - 1]] OBVIOUS
  <2>9. PICK d2 : d2 = [k \in 1 .. l |-> memory[0][0 + k - 1]] OBVIOUS
  <2>10. Read(c1) = d1 /\ Read(c2) = d2 BY <2>5, <2>7, <2>8, <2>9 DEF Read
  <2>11. PICK S : S = {d1[k] : k \in 1 .. m} \cup {d2[k] : k \in 1 .. l} OBVIOUS
  <2>12. d1 \in Seq(S) /\ Len(d1) = m /\ d2 \in Seq(S) /\ Len(d2) = l
    <3>1. d1 \in [1 .. m -> S] BY <2>8, <2>11
    <3>2. d2 \in [1 .. l -> S] BY <2>9, <2>11
    <3> QED BY <3>1, <3>2, <2>8, <2>9
  <2>13. /\ Len(d1 \o d2) = n /\ d1 \o d2 \in Seq(S)
         /\ \A k \in 1 .. n : (d1 \o d2)[k] = IF k <= m THEN d1[k] ELSE d2[k - m]
    BY <2>3, <2>12
  <2>14. ASSUME NEW k \in 1 .. n PROVE (d1 \o d2)[k] = Read0(memory[s], a, k)
    <3>1. CASE k <= m
      <4>1. d1[k] = memory[s][a + k - 1] BY <3>1, <2>8
      <4> QED BY <4>1, <3>1, <2>1, <2>13 DEF Read0
    <3>2. CASE ~(k <= m)
      <4>1. k - m \in 1 .. l /\ 0 + (k - m) - 1 = (a + k - 1) - BufferSize BY <3>2, <2>1, <2>3, <1>1, SizeAssumption
      <4>2. d2[k - m] = memory[0][0 + (k - m) - 1] BY <4>1, <2>9
      <4> QED BY <4>1, <4>2, <3>2, <2>1, <2>13 DEF Read0
    <3> QED BY <3>1, <3>2
  <2>15. DOMAIN (d1 \o d2) = 1 .. n BY <2>13
  <2> QED BY <2>6, <2>10, <2>14, <2>15
<1> QED BY <1>3, <1>4

\* A retransmission leaves with what was read for it.
LEMMA EmitStoredKeeps ==
    ASSUME IInv, EmitStored
    PROVE  IInv'
<1>1. PICK g : g = Head(segmentQ) OBVIOUS
<1>2. PICK c : c = Head(readCmdQ) OBVIOUS
<1>3. PICK d : d = Stitched(c) OBVIOUS
<1>4. /\ segmentQ # <<>> /\ ~g.bypass /\ readCmdQ # <<>> /\ Emit(g, d) /\ readCmdQ' = Tail(readCmdQ)
      /\ segmentQ' = Tail(segmentQ)
      /\ UNCHANGED <<request, appReqQ, appReply, pushQ, cacheQ, bypassQ, written, appTable, statuses, handler, app,
                     memory, txQ, notAckd, engine, ackd, ackPushQ, edge>>
  BY <1>1, <1>2, <1>3 DEF EmitStored, Emit, appVars, storeVars, peerVars
<1>5. Types BY DEF IInv
<1>6. /\ g \in Segments /\ SegmentInv(g, notAckd, pushQ) /\ segmentQ' \in Seq(Segments)
      /\ wire' = [session |-> g.session, seq |-> g.seq, bypass |-> g.bypass, data |-> d]
      /\ reached' \in [Sessions -> Nat] /\ PointersInv' /\ RetransmitInv'
  BY <1>1, <1>4, EmitKeeps
<1>7. /\ readCmdQ \in Seq(Commands) /\ readCmdQ' \in Seq(Commands) BY <1>4, <1>5, EngineIsTyped, QueueLoses
<1>8. Types'
  <2>1. EngineTypes' BY <1>4, <1>5, <1>6, <1>7 DEF Types, EngineTypes
  <2>2. PointerTypes' BY <1>4, <1>5, <1>6 DEF Types, PointerTypes
  <2> QED BY <2>1, <2>2, <1>4, <1>5, AppTypesFrame, StoreTypesFrame DEF Types
<1>9. PICK s \in Sessions : s = g.session BY <1>6 DEF Segments
<1>10. PICK i \in Nat : i = g.seq BY <1>6 DEF Segments
<1>11. PICK n \in 1 .. BufferSize - 1 : n = g.length BY <1>4, <1>6 DEF SegmentInv
<1>12. PICK a \in Addresses : a = Ring(i) BY RingIsAddress
<1>13. c = [session |-> s, address |-> a, length |-> n] /\ ReadsInv'
  <2>1. Command(g) = {[session |-> s, address |-> a, length |-> n]}
    BY <1>4, <1>9, <1>10, <1>11, <1>12 DEF Command
  <2>2. ReadsInv BY DEF IInv
  <2>3. Head(readCmdQ) = [session |-> s, address |-> a, length |-> n] /\ ReadsInv'
    BY <2>1, <2>2, <1>1, <1>4, <1>5, ReadsLose
  <2> QED BY <2>3, <1>2
<1>14. DataInv'
  <2>1. DataInv BY DEF IInv
  <2> QED BY <2>1, <1>1, <1>4, <1>5, DataLoses
<1>15. DOMAIN d = 1 .. n /\ \A k \in 1 .. n : d[k] = Read0(memory[s], a, k)
  BY <1>3, <1>13, StitchedMeans
<1>16. wire'.session = s /\ wire'.seq = i /\ wire'.data = d /\ ~wire'.bypass BY <1>4, <1>6, <1>9, <1>10
<1>17. Covered(pushQ, s, i + n) /\ i + n <= notAckd[s] /\ i + n \in Nat /\ n \in Nat
  <2>1. n \in Nat BY SizeAssumption
  <2> QED BY <2>1, <1>4, <1>6, <1>9, <1>10, <1>11 DEF SegmentInv
<1>18. ASSUME NEW k \in 1 .. n, i + k - 1 >= ackd[s], ~(s # 0 /\ a + k > BufferSize)
       PROVE  d[k] = Byte(s, i + k - 1)
  <2>1. PICK j \in Nat : j = i + k - 1 OBVIOUS
  <2>2. ackd[s] <= j /\ j < i + n
    <3>1. ackd[s] \in Nat BY <1>5, EngineIsTyped
    <3> QED BY <3>1, <2>1, <1>17, <1>18
  <2>3. InMemory(s, j) BY <2>2, <1>17, CoveredIsStored
  <2>4. k - 1 \in 0 .. BufferSize - 1 /\ i + (k - 1) = j BY <2>1, SizeAssumption
  <2>5. Ring(j) = IF a + (k - 1) < BufferSize THEN a + (k - 1) ELSE (a + (k - 1)) - BufferSize
    <3>1. Ring(i + (k - 1)) = IF Ring(i) + (k - 1) < BufferSize THEN Ring(i) + (k - 1) ELSE (Ring(i) + (k - 1)) - BufferSize
      BY <2>4, RingOfByte
    <3> QED BY <3>1, <2>4, <1>12
  <2>6. a \in Nat BY SizeAssumption DEF Addresses
  <2>7. a + k - 1 = a + (k - 1) BY <2>6
  <2>8. CASE k <= BufferSize - a
    <3>1. a + (k - 1) < BufferSize BY <2>6, <2>8, SizeAssumption
    <3>2. d[k] = memory[s][a + (k - 1)] BY <2>7, <2>8, <1>15 DEF Read0
    <3> QED BY <3>1, <3>2, <2>1, <2>3, <2>5 DEF InMemory
  <2>9. CASE ~(k <= BufferSize - a)
    <3>1. ~(a + (k - 1) < BufferSize) /\ a + k > BufferSize BY <2>6, <2>9, SizeAssumption
    <3>2. s = 0 BY <3>1, <1>18
    <3>3. d[k] = memory[0][(a + (k - 1)) - BufferSize] BY <2>7, <2>9, <1>15 DEF Read0
    <3>4. Ring(j) = (a + (k - 1)) - BufferSize BY <3>1, <2>5
    <3> QED BY <3>2, <3>3, <3>4, <2>1, <2>3 DEF InMemory
  <2> QED BY <2>8, <2>9
<1>19. WireInv'
  <2>1. ASSUME NEW k \in DOMAIN wire'.data PROVE Original(k)' \/ BehindTheEnd(k)'
    <3>1. k \in 1 .. n BY <2>1, <1>15, <1>16
    <3>2. BehindTheEnd(k)' <=> s # 0 /\ a + k > BufferSize BY <1>12, <1>16 DEF BehindTheEnd
    <3>3. Original(k)' <=> (i + k - 1 >= ackd[s] => d[k] = Byte(s, i + k - 1)) BY <1>4, <1>16 DEF Original
    <3> QED BY <3>1, <3>2, <3>3, <1>18
  <2>2. DOMAIN wire'.data \subseteq Nat BY <1>15, <1>16
  <2> QED BY <2>1, <2>2, <1>16 DEF WireInv
<1> QED BY <1>4, <1>6, <1>8, <1>13, <1>14, <1>19, ReportFrame, RequestFrame, SentFrame, HeldFrame, StoredFrame,
           PushesFrame, CountFrame DEF IInv

-----------------------------------------------------------------------------
(* A retransmission is asked for (the timer, or three acknowledgements)    *)

LEMMA RetransmitKeeps ==
    ASSUME IInv, NEW s \in Sessions, Retransmit(s)
    PROVE  IInv'
<1>1. PICK e : e = [type |-> "RT", session |-> s] OBVIOUS
<1>2. /\ Stored(s) /\ txQ' = Append(txQ, e)
      /\ UNCHANGED <<request, appReqQ, appReply, pushQ, cacheQ, bypassQ, written, appTable, statuses, handler, app,
                     memory, notAckd, engine, readCmdQ, segmentQ, wire, reached, ackd, ackPushQ, edge>>
  BY <1>1 DEF Retransmit, appVars, storeVars
<1>3. Types BY DEF IInv
<1>4. /\ txQ \in Seq(Events \cup Again) /\ txQ \in Seq(Dated) /\ bypassQ \in Seq(Payloads)
      /\ notAckd \in [Sessions -> Nat] /\ written \in [Sessions -> Nat]
  BY <1>3, EngineIsTyped
<1>5. e \in Again /\ e \in Events \cup Again /\ e \in Dated /\ e.type = "RT" /\ e.session = s
  <2>1. e \in Again /\ e.type = "RT" /\ e.session = s BY <1>1 DEF Again
  <2> QED BY <2>1, EventsAreDated
<1>6. /\ Len(txQ) \in Nat /\ Len(txQ') = Len(txQ) + 1 /\ DOMAIN txQ = 1 .. Len(txQ)
      /\ DOMAIN txQ' = 1 .. Len(txQ) + 1
      /\ txQ' \in Seq(Events \cup Again) /\ txQ'[Len(txQ) + 1] = e
      /\ \A i \in 1 .. Len(txQ) : txQ'[i] = txQ[i]
  BY <1>2, <1>4, <1>5, QueueGains
<1>7. Types'
  <2>1. EngineTypes' BY <1>2, <1>3, <1>6 DEF Types, EngineTypes
  <2> QED BY <2>1, <1>2, <1>3, AppTypesFrame, StoreTypesFrame, PointerTypesFrame DEF Types
<1>8. SentInv'
  <2>1. ASSUME NEW x \in Sessions PROVE Chain(txQ', x, notAckd[x], written[x])
    <3>1. Chain(txQ, x, notAckd[x], written[x]) /\ notAckd[x] \in Nat /\ written[x] \in Nat BY <1>4 DEF IInv, SentInv
    <3>2. ~Of(e, x) BY <1>5 DEF Of
    <3>3. Chain(Append(txQ, e), x, notAckd[x], written[x]) BY <3>1, <3>2, <1>4, <1>5, ChainPasses
    <3> QED BY <3>3, <1>2
  <2> QED BY <2>1, <1>2 DEF SentInv
<1>9. RetransmitInv'
  <2>1. \A i : Covered(pushQ, s, i) BY <1>2 DEF Stored, Covered
  <2>2. ASSUME NEW i \in DOMAIN txQ', txQ'[i].type = "RT"
        PROVE  /\ Covered(pushQ, txQ'[i].session, notAckd[txQ'[i].session])
               /\ \A j \in 1 .. i - 1 : Of(txQ'[j], txQ'[i].session) => Covered(pushQ, txQ'[i].session, End(txQ'[j]))
    <3>1. CASE i = Len(txQ) + 1
      <4>1. txQ'[i].session = s BY <3>1, <1>5, <1>6
      <4> QED BY <4>1, <2>1
    <3>2. CASE i # Len(txQ) + 1
      <4>1. i \in DOMAIN txQ /\ txQ'[i] = txQ[i] /\ \A j \in 1 .. i - 1 : txQ'[j] = txQ[j] BY <3>2, <1>6
      <4> QED BY <4>1, <2>2 DEF IInv, RetransmitInv, AgainInv
    <3> QED BY <3>1, <3>2
  <2>3. AgainInv(txQ', notAckd, pushQ) BY <2>2 DEF AgainInv
  <2> QED BY <2>3, <1>2 DEF IInv, RetransmitInv
<1>10. DataInv'
  <2>1. PICK m, n \in Nat :
             /\ m = Len(segmentQ) /\ n = Len(txQ) /\ DOMAIN segmentQ = 1 .. m /\ DOMAIN txQ = 1 .. n
             /\ DOMAIN DataDue = 1 .. m + n
             /\ \A j \in 1 .. m : DataDue[j] = Passing(segmentQ[j])
             /\ \A j \in m + 1 .. m + n : DataDue[j] = ToPass(txQ[j - m])
    BY <1>3, DataDueMeans
  <2>2. PICK k \in Nat : k = m + n OBVIOUS
  <2>3. PICK i \in 1 .. k + 1 : i = k + 1 OBVIOUS
  <2>4. PICK t : t = DataDue OBVIOUS
  <2>5. PICK u : u = DataDue' OBVIOUS
  <2>6. u = [j \in 1 .. k + 1 |-> IF j <= m THEN Passing(segmentQ[j]) ELSE ToPass(txQ'[j - m])]
    <3>1. Len(segmentQ') + Len(txQ') = k + 1 /\ Len(segmentQ') = m BY <2>1, <2>2, <1>2, <1>6
    <3> QED BY <3>1, <2>5, <1>2 DEF DataDue
  <2>7. \A j \in 1 .. k + 1 : u[j] = IF j < i THEN t[j] ELSE IF j = i THEN {} ELSE t[j - 1]
    <3> TAKE j \in 1 .. k + 1
    <3>0. u[j] = IF j <= m THEN Passing(segmentQ[j]) ELSE ToPass(txQ'[j - m]) BY <2>6
    <3>1. CASE j = i
      <4>1. ~(j <= m) /\ j - m = n + 1 BY <3>1, <2>2, <2>3
      <4>2. u[j] = ToPass(e) BY <4>1, <3>0, <2>1, <1>6
      <4>3. u[j] = {} BY <4>2, <1>5 DEF ToPass
      <4> QED BY <3>1, <4>3
    <3>2. CASE j # i
      <4>1. j < i /\ j \in 1 .. m + n BY <3>2, <2>2, <2>3
      <4>2. CASE j <= m
        <5>1. j \in 1 .. m BY <4>2
        <5>2. u[j] = t[j] BY <5>1, <4>2, <3>0, <2>1, <2>4
        <5> QED BY <5>2, <4>1
      <4>3. CASE ~(j <= m)
        <5>1. j \in m + 1 .. m + n /\ j - m \in 1 .. n BY <4>1, <4>3
        <5>2. u[j] = t[j] BY <5>1, <4>3, <3>0, <2>1, <2>4, <1>6
        <5> QED BY <5>2, <4>1
      <4> QED BY <4>2, <4>3
    <3> QED BY <3>1, <3>2
  <2>8. Longer(u, t, k, i) BY <2>1, <2>2, <2>4, <2>6, <2>7 DEF Longer
  <2>9. Thin(bypassQ, t) BY <2>4 DEF IInv, DataInv
  <2>10. Thin(bypassQ, u) BY <2>8, <2>9, <1>4, ThinPads
  <2> QED BY <2>5, <2>10, <1>2 DEF DataInv
<1> QED BY <1>2, <1>7, <1>8, <1>9, <1>10, PointersFrame, ReportFrame, RequestFrame, HeldFrame, StoredFrame,
           PushesFrame, CountFrame, ReadsFrame, WireFrame DEF IInv

-----------------------------------------------------------------------------
(* The invariant holds                                                     *)

LEMMA StutterKeeps == IInv /\ UNCHANGED vars => IInv'
<1> SUFFICES ASSUME IInv, UNCHANGED vars PROVE IInv' OBVIOUS
<1>1. UNCHANGED <<request, appReqQ, appReply, pushQ, cacheQ, bypassQ, written, appTable, statuses, handler, app,
                  memory, txQ, notAckd, engine, readCmdQ, segmentQ, wire, reached, ackd, ackPushQ, edge>>
  BY DEF vars, appVars, storeVars, engineVars, peerVars
<1>2. Types' BY <1>1, AppTypesFrame, StoreTypesFrame, EngineTypesFrame, PointerTypesFrame DEF IInv, Types
<1> QED BY <1>1, <1>2, PointersFrame, ReportFrame, RequestFrame, SentFrame, HeldFrame, StoredFrame, PushesFrame,
           CountFrame, RetransmitFrame, ReadsFrame, DataFrame, WireFrame DEF IInv

LEMMA NextKeeps == IInv /\ [Next]_vars => IInv'
<1> SUFFICES ASSUME IInv, [Next]_vars PROVE IInv' OBVIOUS
<1>1. ASSUME NEW s \in Sessions, NEW n \in Lengths, AskWrite(s, n) PROVE IInv' BY <1>1, AskWriteKeeps
<1>2. CASE AppTablePush BY <1>2, AppTablePushKeeps
<1>3. CASE AppTableServe BY <1>3, AppTableServeKeeps
<1>4. CASE Refuse BY <1>4, RefuseKeeps
<1>5. CASE Accept BY <1>5, AcceptKeeps
<1>6. CASE Store BY <1>6, StoreKeeps
<1>7. CASE HandleEvent BY <1>7, HandleEventKeeps
<1>8. CASE HandleStatus BY <1>8, HandleStatusKeeps
<1>9. CASE SendNew BY <1>9, SendNewKeeps
<1>10. CASE BeginRetransmit BY <1>10, BeginRetransmitKeeps
<1>11. CASE SendAgain BY <1>11, SendAgainKeeps
<1>12. CASE EmitBypass BY <1>12, EmitBypassKeeps
<1>13. CASE EmitStored BY <1>13, EmitStoredKeeps
<1>14. ASSUME NEW s \in Sessions, NEW a \in ackd[s] .. reached[s], NEW w \in 0 .. Window[s], Acknowledge(s, a, w)
       PROVE  IInv'
  BY <1>14, AcknowledgeKeeps
<1>15. ASSUME NEW s \in Sessions, Retransmit(s) PROVE IInv' BY <1>15, RetransmitKeeps
<1>16. CASE UNCHANGED vars BY <1>16, StutterKeeps
<1> QED BY <1>1, <1>2, <1>3, <1>4, <1>5, <1>6, <1>7, <1>8, <1>9, <1>10, <1>11, <1>12, <1>13, <1>14, <1>15, <1>16 DEF Next

\* The invariant, of which the properties below are consequences.
THEOREM Invariance == Spec => []IInv
BY InitInv, NextKeeps, PTL DEF Spec

-----------------------------------------------------------------------------
(* What follows from it                                                    *)

\* A report shows what is, or was, acknowledged.
LEMMA TypeIsOK == IInv => TypeOK
<1> SUFFICES ASSUME IInv PROVE TypeOK OBVIOUS
<1>1. ASSUME NEW s \in Sessions
      PROVE  /\ appTable[s] \in [ackd : 0 .. BufferSize - 1, mempt : 0 .. BufferSize - 1, window : 0 .. Window[s]]
             /\ app[s] \in 0 .. BufferSize - 1
             /\ ackd[s] <= reached[s] /\ reached[s] <= notAckd[s] /\ notAckd[s] <= written[s]
  <2>1. appTable[s] \in Reports /\ appTable[s].window <= Window[s] BY DEF IInv, Types, AppTypes
  <2>2. Window[s] \in Nat BY WindowAssumption
  <2>3. app[s] \in Addresses BY DEF IInv, Types, StoreTypes
  <2>4. /\ appTable[s] \in [ackd : 0 .. BufferSize - 1, mempt : 0 .. BufferSize - 1, window : 0 .. Window[s]]
    BY <2>1, <2>2 DEF Reports, Addresses
  <2> QED BY <2>3, <2>4 DEF IInv, PointersInv, Addresses
<1> QED BY <1>1 DEF TypeOK

\* The first event of a session starts where the session's new data does.
LEMMA PointersAreInStep == IInv => PointersInStep
<1> SUFFICES ASSUME IInv, NEW i \in DOMAIN txQ, IsNext(i)
             PROVE  txQ[i].from = notAckd[txQ[i].session] /\ txQ[i].address = Ring(notAckd[txQ[i].session])
  BY DEF PointersInStep
<1>1. txQ \in Seq(Events \cup Again) /\ txQ \in Seq(Dated) /\ notAckd \in [Sessions -> Nat] /\ written \in [Sessions -> Nat]
  BY EngineIsTyped DEF IInv
<1>2. txQ[i].type = "TX" BY DEF IsNext
<1>3. txQ[i] \in Events
  <2>1. txQ[i] \in Events \cup Again BY <1>1
  <2> QED BY <2>1, <1>2 DEF Again
<1>4. PICK s \in Sessions : s = txQ[i].session BY <1>3, EventsAreDated
<1>5. Of(txQ[i], s) /\ \A j \in 1 .. i - 1 : ~Of(txQ[j], s) BY <1>2, <1>4 DEF IsNext, Of
<1>6. Chain(txQ, s, notAckd[s], written[s]) BY DEF IInv, SentInv
<1>7. notAckd[s] \in Nat /\ written[s] \in Nat BY <1>1
<1>8. txQ[i].from = notAckd[s] BY <1>1, <1>5, <1>6, <1>7, ChainStarts
<1>9. txQ[i].address = Ring(txQ[i].from) BY <1>3, EventsAreDated
<1> QED BY <1>4, <1>8, <1>9

LEMMA WindowHolds == IInv => RingHoldsAll /\ WindowIsKept
<1> SUFFICES ASSUME IInv, NEW s \in Sessions PROVE written[s] - ackd[s] < BufferSize /\ notAckd[s] <= edge[s]
  BY DEF RingHoldsAll, WindowIsKept
<1>1. /\ notAckd[s] <= written[s] /\ written[s] - ackd[s] < BufferSize /\ written[s] <= edge[s]
  BY DEF IInv, PointersInv
<1>2. notAckd[s] \in Nat /\ written[s] \in Nat /\ edge[s] \in Nat BY DEF IInv, Types, PointerTypes
<1> QED BY <1>1, <1>2

\* The least of a set of numbers, when one of it is below all of it.
LEMMA MinIs ==
    ASSUME NEW S \in SUBSET Int, NEW i \in S, \A j \in S : i <= j
    PROVE  Min(S) = i
<1>1. \A y \in S : i <= y OBVIOUS
<1>2. PICK x \in S : x = Min(S) /\ \A y \in S : x <= y BY <1>1 DEF Min
<1>3. x <= i /\ i <= x BY <1>1, <1>2
<1> QED BY <1>2, <1>3

\* The first of the events held back for a session is where its chain begins.
LEMMA ReleasedIs ==
    ASSUME IInv, NEW s \in Sessions, NEW r \in 0 .. written[s], Chain(Held, s, r, written[s])
    PROVE  Released(s) = r
<1>1. PICK S : S = {written[s]} \cup {Held[i].from : i \in {j \in DOMAIN Held : Held[j].session = s}} OBVIOUS
<1>2. Held \in Seq(Events) BY QueuesAreDated DEF IInv
<1>3. written[s] \in Nat BY EngineIsTyped DEF IInv
<1>4. \A i \in DOMAIN Held : Held[i] \in Events /\ Held[i].from \in Nat /\ (Of(Held[i], s) <=> Held[i].session = s)
  <2> TAKE i \in DOMAIN Held
  <2>1. Held[i] \in Events BY <1>2
  <2> QED BY <2>1, EventsAreDated DEF Of
<1>5. S \in SUBSET Int BY <1>1, <1>3, <1>4
<1>6. r \in S
  <2>1. r = written[s] \/ \E i \in DOMAIN Held : Of(Held[i], s) /\ Held[i].from = r BY DEF Chain
  <2> QED BY <2>1, <1>1, <1>4
<1>7. \A j \in S : r <= j
  <2> TAKE j \in S
  <2>1. CASE j = written[s] BY <2>1, <1>3
  <2>2. CASE \E i \in DOMAIN Held : Held[i].session = s /\ j = Held[i].from
    <3>1. PICK i \in DOMAIN Held : Held[i].session = s /\ j = Held[i].from BY <2>2
    <3>2. Of(Held[i], s) BY <3>1, <1>4
    <3> QED BY <3>1, <3>2 DEF Chain
  <2> QED BY <2>1, <2>2, <1>1
<1>8. Min(S) = r BY <1>5, <1>6, <1>7, MinIs
<1> QED BY <1>1, <1>8 DEF Released

LEMMA AppHolds == IInv => AppIsStored
<1> SUFFICES ASSUME IInv, NEW s \in Sessions
             PROVE  /\ app[s] = Ring(Released(s))
                    /\ \A i \in ackd[s] .. Released(s) - 1 : memory[s][Ring(i)] = Byte(s, i)
  BY DEF AppIsStored
<1>1. PICK r \in 0 .. written[s] : Chain(Held, s, r, written[s]) /\ app[s] = Ring(r) BY DEF IInv, HeldInv
<1>2. Released(s) = r BY <1>1, ReleasedIs
<1>3. PICK b \in 0 .. written[s] : Chain(pushQ, s, b, written[s]) /\ \A i \in ackd[s] .. b - 1 : InMemory(s, i)
  BY DEF IInv, StoredInv
<1>4. written[s] \in Nat /\ ackd[s] \in Nat BY EngineIsTyped DEF IInv
<1>5. r <= b
  <2>1. CASE b = written[s] BY <2>1, <1>4
  <2>2. CASE \E i \in DOMAIN pushQ : Of(pushQ[i], s) /\ pushQ[i].from = b
    <3>1. PICK i \in DOMAIN pushQ : Of(pushQ[i], s) /\ pushQ[i].from = b BY <2>2
    <3>2. pushQ \in Seq(Events) /\ Held \in Seq(Events) BY QueuesAreDated DEF IInv
    <3>3. Gone \in Nat /\ Gone = Len(Held) - Len(pushQ) /\ pushQ[i] = Held[Gone + i] BY DEF IInv, PushesAreHeld, Gone
    <3>4. Gone + i \in DOMAIN Held
      <4>1. i \in 1 .. Len(pushQ) /\ Len(pushQ) \in Nat /\ Len(Held) \in Nat /\ DOMAIN Held = 1 .. Len(Held) BY <3>2
      <4> QED BY <4>1, <3>3
    <3> QED BY <3>1, <3>3, <3>4, <1>1 DEF Chain
  <2>3. b = written[s] \/ \E i \in DOMAIN pushQ : Of(pushQ[i], s) /\ pushQ[i].from = b BY <1>3 DEF Chain
  <2> QED BY <2>1, <2>2, <2>3
<1>6. \A i \in ackd[s] .. r - 1 : i \in ackd[s] .. b - 1 BY <1>1, <1>3, <1>4, <1>5
<1> QED BY <1>1, <1>2, <1>3, <1>6 DEF InMemory

LEMMA WireHolds == IInv => SegmentsAreOriginalInTheRing
BY DEF IInv, WireInv, SegmentsAreOriginalInTheRing

-----------------------------------------------------------------------------
(* The theorems                                                            *)

\* tx_app_stream_if and tx_app_table: however late the acknowledgements come to the
\* table, what is admitted fits into the ring and into the peer's window, and the
\* segment of an event starts where its bytes were put.
THEOREM AdmissionFits == Spec => []AdmissionIsSafe
<1>1. IInv => AdmissionIsSafe BY TypeIsOK, PointersAreInStep, WindowHolds DEF AdmissionIsSafe
<1> QED BY <1>1, Invariance, PTL

\* tasi_pkg_pusher and txAppStatusHandler: the statuses are counted off against the
\* right events, and the app pointer releases only what the memory holds.
THEOREM AppReleasesStored == Spec => []AppIsStored
BY AppHolds, Invariance, PTL

\* read_data_arbiter, txEngMemAccessBreakdown, read_data_stitching: a segment, new or
\* again, carries the bytes of its sequence numbers, but for the part of a
\* retransmission behind the end of the ring of a session other than 0.
THEOREM SegmentsCarryOriginals == Spec => []SegmentsAreOriginalInTheRing
BY WireHolds, Invariance, PTL

=============================================================================
