---------------------------- MODULE TimerLoopProofs ----------------------------
(***************************************************************************)
(* Proofs about TimerLoop, for any number of sessions and of retries, any  *)
(* intervals and delays, any depths of the FIFOs and any width of the      *)
(* counters that is large enough for them.                                 *)
(***************************************************************************)
EXTENDS MCTimers, SequenceTheorems, TLAPS

Clear == [session : Session, stop : BOOLEAN]
SetType == [session : Session, type : {"RT"}]
Given == [session : Session, opening : BOOLEAN]

-----------------------------------------------------------------------------
(* Numbers                                                                 *)

LEMMA Constants ==
    /\ MaxSessions \in Nat \ {0} /\ MaxRetries \in Nat /\ MaxRetries < 7
    /\ TimerDepth \in Nat \ {0} /\ EventDepth \in Nat \ {0} /\ CountDepth \in Nat \ {0}
    /\ CountSpace \in Nat /\ EventDepth + CountDepth < CountSpace /\ AckDelay \in Nat \ {0}
    /\ Session = 0 .. MaxSessions - 1 /\ Sessions = Session
    /\ Session \subseteq Rows /\ 0 \in Session
    /\ Interval \in [0 .. MaxRetries -> Nat]
BY TimerAssumption, EventAssumption, LoopAssumption DEF Session, Rows, Skip

LEMMA IncDec ==
    /\ \A n \in 0 .. CountSpace - 1 : Inc(n) \in 0 .. CountSpace - 1
    /\ \A n \in 0 .. CountDepth : Dec(n) \in 0 .. CountDepth
BY Constants DEF Inc, Dec

LEMMA TailOf ==
    ASSUME NEW S, NEW q \in Seq(S), q # <<>>
    PROVE  /\ Head(q) \in S /\ Tail(q) \in Seq(S)
           /\ Len(Tail(q)) = Len(q) - 1 /\ Len(q) \in Nat \ {0}
           /\ \A i \in DOMAIN Tail(q) : i + 1 \in DOMAIN q /\ Tail(q)[i] = q[i + 1]
           /\ \A i \in DOMAIN q : \/ q[i] = Head(q)
                                 \/ \E j \in DOMAIN Tail(q) : Tail(q)[j] = q[i]
<1>1. /\ Head(q) \in S /\ Tail(q) \in Seq(S) /\ Len(Tail(q)) = Len(q) - 1
      /\ \A i \in 1 .. Len(Tail(q)) : Tail(q)[i] = q[i + 1]
  BY HeadTailProperties
<1>2. Len(q) \in Nat \ {0} BY EmptySeq
<1>3. Head(q) = q[1] OBVIOUS
<1>4. DOMAIN q = 1 .. Len(q) BY LenProperties
<1>5. DOMAIN Tail(q) = 1 .. Len(q) - 1 BY <1>1, LenProperties
<1>6. ASSUME NEW i \in DOMAIN q
      PROVE  q[i] = Head(q) \/ \E j \in DOMAIN Tail(q) : Tail(q)[j] = q[i]
  <2>1. CASE i = 1 BY <2>1, <1>3
  <2>2. CASE i # 1
    <3>1. i - 1 \in DOMAIN Tail(q) /\ i - 1 \in 1 .. Len(Tail(q)) /\ i - 1 + 1 = i
      BY <2>2, <1>1, <1>2, <1>4, <1>5
    <3>2. Tail(q)[i - 1] = q[i] BY <3>1, <1>1
    <3> QED BY <3>1, <3>2
  <2> QED BY <2>1, <2>2
<1>7. ASSUME NEW i \in DOMAIN Tail(q) PROVE i + 1 \in DOMAIN q /\ Tail(q)[i] = q[i + 1]
  BY <1>1, <1>2, <1>4, <1>5
<1> QED BY <1>1, <1>2, <1>6, <1>7

LEMMA AppendOf ==
    ASSUME NEW S, NEW q \in Seq(S), NEW e \in S
    PROVE  /\ Append(q, e) \in Seq(S) /\ Len(Append(q, e)) = Len(q) + 1 /\ Len(q) \in Nat
           /\ \A i \in DOMAIN q : i \in DOMAIN Append(q, e) /\ Append(q, e)[i] = q[i]
           /\ Len(q) + 1 \in DOMAIN Append(q, e) /\ Append(q, e)[Len(q) + 1] = e
           /\ \A i \in DOMAIN Append(q, e) : i \in DOMAIN q \/ i = Len(q) + 1
BY AppendProperties

-----------------------------------------------------------------------------
(* Types                                                                   *)

(* What the operations of the timer do to a row.                           *)
LEMMA ClearedRow ==
    ASSUME NEW r \in Row
    PROVE  /\ Cleared(r) \in Row /\ (Cleared(r).active => r.active) /\ Cleared(r).type = r.type
           /\ ~update.stop => Cleared(r).active = r.active
<1>1. CASE update.stop
  <2>1. Cleared(r) = [r EXCEPT !.active = FALSE, !.time = 0, !.retries = 0] BY <1>1 DEF Cleared
  <2>2. 0 \in 0 .. MaxRetries BY Constants
  <2>5. [r EXCEPT !.active = FALSE, !.time = 0, !.retries = 0] \in Row BY <2>2 DEF Row
  <2>3. [r EXCEPT !.active = FALSE, !.time = 0, !.retries = 0].type = r.type BY DEF Row
  <2>4. ~[r EXCEPT !.active = FALSE, !.time = 0, !.retries = 0].active BY DEF Row
  <2> QED BY <1>1, <2>1, <2>3, <2>4, <2>5
<1>2. CASE ~update.stop
  <2> DEFINE n == Interval[0]
  <2>1. n \in Nat /\ 0 \in 0 .. MaxRetries BY Constants
  <2>2. Cleared(r) = [r EXCEPT !.time = n, !.retries = 0] BY <1>2 DEF Cleared
  <2> HIDE DEF n
  <2>3. [r EXCEPT !.time = n, !.retries = 0] \in Row BY <2>1 DEF Row
  <2>4. [r EXCEPT !.time = n, !.retries = 0].type = r.type BY DEF Row
  <2>5. [r EXCEPT !.time = n, !.retries = 0].active = r.active BY DEF Row
  <2> QED BY <2>2, <2>3, <2>4, <2>5
<1> QED BY <1>1, <1>2

LEMMA ArmedRow ==
    ASSUME NEW r \in Row
    PROVE  Armed(r, "RT") \in Row /\ Armed(r, "RT").type = "RT" /\ Armed(r, "RT").active
<1> DEFINE n == IF r.active THEN r.time ELSE Interval[r.retries]
<1>1. r.time \in Nat /\ Interval[r.retries] \in Nat /\ "RT" \in Kind BY Constants DEF Row, Kind
<1>2. n \in Nat BY <1>1
<1>3. Armed(r, "RT") = [r EXCEPT !.type = "RT", !.time = n, !.active = TRUE] BY DEF Armed
<1> HIDE DEF n
<1>4. [r EXCEPT !.type = "RT", !.time = n, !.active = TRUE] \in Row BY <1>1, <1>2 DEF Row
<1>5. [r EXCEPT !.type = "RT", !.time = n, !.active = TRUE].type = "RT" BY DEF Row
<1>6. [r EXCEPT !.type = "RT", !.time = n, !.active = TRUE].active BY DEF Row
<1> QED BY <1>3, <1>4, <1>5, <1>6

LEMMA TickedRow ==
    ASSUME NEW r \in Row, r.time > 0
    PROVE  /\ [r EXCEPT !.time = @ - 1] \in Row
           /\ [r EXCEPT !.time = @ - 1].active = r.active /\ [r EXCEPT !.time = @ - 1].type = r.type
BY DEF Row

LEMMA ExpiredRow ==
    ASSUME NEW s, row[s] \in Row, NEW n \in 0 .. MaxRetries
    PROVE  [Expire(s) EXCEPT !.retries = n] \in Row /\ ~[Expire(s) EXCEPT !.retries = n].active
           /\ Expire(s).retries = row[s].retries
<1> DEFINE r == row[s]
<1> DEFINE x == [r EXCEPT !.active = FALSE, !.time = 0]
<1>1. x = Expire(s) BY DEF Expire
<1> HIDE DEF r
<1>2. r \in Row BY DEF r
<1>3. x \in Row BY <1>2 DEF Row
<1>4. ~x.active BY <1>2 DEF Row
<1>5. x.retries = r.retries BY <1>2 DEF Row
<1> HIDE DEF x
<1>6. [x EXCEPT !.retries = n] \in Row /\ [x EXCEPT !.retries = n].active = x.active BY <1>3 DEF Row
<1> QED BY <1>1, <1>4, <1>5, <1>6 DEF r

Typed == TypeOK /\ RunningRowsAreSessions

LEMMA TypedInit == Init => Typed
<1> SUFFICES ASSUME Init PROVE Typed OBVIOUS
<1>1. Idle \in Row /\ ~Idle.active BY Constants DEF Idle, Row, Kind
<1>2. row \in [Rows -> Row] /\ \A s \in Rows : ~row[s].active BY <1>1 DEF Init, TimerInit
<1>3. Len(tx) <= 1 BY DEF Init
<1>4. edge \in 0 .. MaxEdge BY LoopAssumption DEF Init
<1>5. \A some \in {alive, unacked, owed, overtaken} : some \subseteq Sessions BY DEF Init
<1>6. RunningRowsAreSessions BY <1>2 DEF RunningRowsAreSessions
<1>7. /\ Len(pipe) <= EventDepth /\ Len(out) <= EventDepth
  BY Constants DEF Init, EventInit
<1>8. /\ position \in Rows /\ prev \in Rows /\ waiting \in BOOLEAN
      /\ update \in [session : Session, stop : BOOLEAN]
  BY Constants DEF Init, TimerInit
<1>9. /\ clearQ \in Seq([session : Session, stop : BOOLEAN])
      /\ setQ \in Seq([session : Session, type : {"RT"}])
      /\ abortQ \in Seq([session : Session, opening : BOOLEAN]) /\ expiredQ \in Seq(Event)
      /\ rxQ \in Seq(Event) /\ timerQ \in Seq(Event) /\ appQ \in Seq(Event)
      /\ pipe \in Seq(Event) /\ out \in Seq(Event) /\ tx \in Seq(Event)
  BY DEF Init, TimerInit, EventInit
<1>10. /\ \A c \in {written, adRead, adWritten, txRead} : c \in 0 .. CountSpace - 1
       /\ \A c \in {readC, writeC, takenC} : c \in 0 .. CountDepth
       /\ ackTable \in [Sessions -> 0 .. AckDelay] /\ pointer \in Sessions
  BY Constants DEF Init, EventInit
<1> QED BY <1>2, <1>3, <1>4, <1>5, <1>6, <1>7, <1>8, <1>9, <1>10 DEF Typed, TypeOK

LEMMA ChangedRow ==
    ASSUME Typed, NEW s \in Rows, NEW r \in Row, row' = [row EXCEPT ![s] = r],
           r.active => s \in Session /\ r.type = "RT"
    PROVE  row' \in [Rows -> Row] /\ RunningRowsAreSessions'
<1>1. row \in [Rows -> Row] BY DEF Typed, TypeOK
<1>2. row' \in [Rows -> Row] BY <1>1
<1>3. ASSUME NEW t \in Rows, row'[t].active PROVE t \in Session /\ row'[t].type = "RT"
  <2>1. CASE t = s BY <1>1, <1>3, <2>1
  <2>2. CASE t # s BY <1>1, <1>3, <2>2 DEF Typed, RunningRowsAreSessions
  <2> QED BY <2>1, <2>2
<1> QED BY <1>2, <1>3 DEF RunningRowsAreSessions

(* What is so of the rows and of the timer in a typed state.               *)
LEMMA TypedRows ==
    ASSUME Typed
    PROVE  /\ row \in [Rows -> Row] /\ position \in Rows /\ prev \in Rows
           /\ update \in Clear /\ update.session \in Session /\ waiting \in BOOLEAN
           /\ clearQ \in Seq(Clear) /\ setQ \in Seq(SetType)
           /\ abortQ \in Seq(Given) /\ expiredQ \in Seq(Event)
           /\ \A s \in Rows : row[s].active => s \in Session /\ row[s].type = "RT"
           /\ \A s \in Session : s \in Rows
BY Constants DEF Typed, TypeOK, RunningRowsAreSessions, Clear, SetType, Given

LEMMA TypedTimer ==
    ASSUME Typed, TimerCycle
    PROVE  /\ row' \in [Rows -> Row] /\ position' \in Rows /\ prev' \in Rows
           /\ update' \in Clear /\ waiting' \in BOOLEAN /\ clearQ' \in Seq(Clear)
           /\ setQ' \in Seq(SetType) /\ abortQ' \in Seq(Given) /\ expiredQ' \in Seq(Event)
           /\ RunningRowsAreSessions'
<1>0. UNCHANGED row => row' \in [Rows -> Row] /\ RunningRowsAreSessions'
  BY TypedRows DEF RunningRowsAreSessions
<1>1. CASE ApplyClear
  <2> DEFINE s == update.session
  <2>1. s \in Rows /\ row[s] \in Row BY TypedRows
  <2>2. row' = [row EXCEPT ![s] = Cleared(row[s])] BY <1>1, TypedRows DEF ApplyClear
  <2>3. Cleared(row[s]) \in Row /\ (Cleared(row[s]).active => s \in Session /\ Cleared(row[s]).type = "RT")
    BY <2>1, ClearedRow, TypedRows
  <2> HIDE DEF s
  <2>4. row' \in [Rows -> Row] /\ RunningRowsAreSessions' BY <2>1, <2>2, <2>3, ChangedRow
  <2> QED BY <1>1, <2>4, TypedRows DEF ApplyClear
<1>2. CASE LatchClear
  <2>1. Head(clearQ) \in Clear /\ Tail(clearQ) \in Seq(Clear) BY <1>2, TailOf, TypedRows DEF LatchClear
  <2> QED BY <1>0, <1>2, <2>1, TypedRows DEF LatchClear
<1>3. CASE TakeSet
  <2> DEFINE set == Head(setQ)
  <2>1. set \in SetType /\ Tail(setQ) \in Seq(SetType) BY <1>3, TailOf, TypedRows DEF TakeSet
  <2>2. set.session \in Session /\ set.type = "RT" BY <2>1 DEF SetType
  <2>3. set.session \in Rows /\ row[set.session] \in Row BY <2>2, TypedRows
  <2>4. /\ row' = [row EXCEPT ![set.session] = Armed(row[set.session], set.type)]
        /\ prev' = set.session /\ setQ' = Tail(setQ)
        /\ position' = IF Jumps(set.session) THEN position + Skip ELSE position
        /\ UNCHANGED <<update, waiting, clearQ, expiredQ, abortQ>>
    BY <1>3 DEF TakeSet
  <2> HIDE DEF set
  <2>5. position' \in Rows
    <3>1. CASE Jumps(set.session)
      <4>1. position \in Nat /\ position <= set.session /\ set.session < MaxSessions
        BY <2>2, <3>1, TypedRows, Constants DEF Jumps, Rows, Skip
      <4> QED BY <2>2, <2>4, <3>1, <4>1, Constants DEF Rows, Skip
    <3>2. CASE ~Jumps(set.session) BY <2>4, <3>2, TypedRows
    <3> QED BY <3>1, <3>2
  <2>6. row' \in [Rows -> Row] /\ RunningRowsAreSessions'
    BY <2>2, <2>3, <2>4, ArmedRow, ChangedRow
  <2> QED BY <2>1, <2>3, <2>4, <2>5, <2>6, TypedRows
<1>4. CASE Scan
  <2> DEFINE r == row[position]
  <2>1. r \in Row /\ position \in Rows BY TypedRows
  <2>2. position' \in Rows /\ prev' \in Rows
    <3>1. position' = Advance /\ prev' = position /\ position \in Nat BY <1>4, <2>1 DEF Scan, Rows
    <3>2. Advance \in Rows BY <3>1, Constants DEF Advance, Rows, Skip
    <3> QED BY <2>1, <3>1, <3>2
  <2>3. /\ row' \in [Rows -> Row] /\ RunningRowsAreSessions'
        /\ abortQ' \in Seq(Given) /\ expiredQ' \in Seq(Event)
    <3>1. CASE UNCHANGED <<row, expiredQ, abortQ>> BY <1>0, <3>1, TypedRows
    <3>2. CASE /\ r.active /\ r.time > 0
               /\ row' = [row EXCEPT ![position].time = @ - 1] /\ UNCHANGED <<expiredQ, abortQ>>
      <4>1. row' = [row EXCEPT ![position] = [r EXCEPT !.time = @ - 1]] BY <3>2, TypedRows
      <4>2. position \in Session /\ r.type = "RT" BY <2>1, <3>2, TypedRows
      <4> HIDE DEF r
      <4>3. row' \in [Rows -> Row] /\ RunningRowsAreSessions'
        BY <2>1, <3>2, <4>1, <4>2, TickedRow, ChangedRow
      <4> QED BY <3>2, <4>3, TypedRows
    <3>3. CASE /\ r.active /\ ~GivesUp(r)
               /\ row' = [row EXCEPT ![position] = [Expire(position) EXCEPT !.retries = @ + 1]]
               /\ expiredQ' = Append(expiredQ, [type |-> r.type, session |-> position, count |-> r.retries + 1])
               /\ UNCHANGED abortQ
      <4>1. r.retries \in 0 .. MaxRetries BY <2>1 DEF Row
      <4>2. r.retries + 1 \in 0 .. MaxRetries /\ r.retries + 1 \in 0 .. 7
        <5> DEFINE n == r.retries
        <5>1. ~(n >= MaxRetries) /\ n \in 0 .. MaxRetries BY <3>3, <4>1 DEF GivesUp
        <5>2. MaxRetries \in Nat /\ MaxRetries < 7 BY Constants
        <5> HIDE DEF n
        <5>3. n + 1 \in 0 .. MaxRetries /\ n + 1 \in 0 .. 7 BY <5>1, <5>2
        <5> QED BY <5>3 DEF n
      <4>3. Expire(position).retries = r.retries BY <2>1, <4>1, ExpiredRow
      <4>4. row' = [row EXCEPT ![position] = [Expire(position) EXCEPT !.retries = r.retries + 1]]
        BY <3>3, <4>3
      <4>5. position \in Sessions /\ r.type = "RT" BY <2>1, <3>3, TypedRows, Constants
      <4> HIDE DEF r
      <4>6. /\ [Expire(position) EXCEPT !.retries = r.retries + 1] \in Row
            /\ ~[Expire(position) EXCEPT !.retries = r.retries + 1].active
        BY <2>1, <4>2, ExpiredRow DEF r
      <4>7. row' \in [Rows -> Row] /\ RunningRowsAreSessions' BY <2>1, <4>4, <4>6, ChangedRow
      <4>8. [type |-> r.type, session |-> position, count |-> r.retries + 1] \in Event
        BY <4>2, <4>5 DEF Event
      <4> QED BY <3>3, <4>7, <4>8, TypedRows, AppendOf
    <3>4. CASE /\ r.active
               /\ row' = [row EXCEPT ![position] = [Expire(position) EXCEPT !.retries = 0]]
               /\ abortQ' = Append(abortQ, [session |-> position, opening |-> r.type = "SYN"])
               /\ UNCHANGED expiredQ
      <4>1. 0 \in 0 .. MaxRetries BY Constants
      <4>2. /\ [Expire(position) EXCEPT !.retries = 0] \in Row
            /\ ~[Expire(position) EXCEPT !.retries = 0].active
        BY <2>1, <4>1, ExpiredRow
      <4>3. row' \in [Rows -> Row] /\ RunningRowsAreSessions' BY <2>1, <3>4, <4>2, ChangedRow
      <4>4. position \in Session BY <2>1, <3>4, TypedRows
      <4>5. [session |-> position, opening |-> r.type = "SYN"] \in Given BY <4>4 DEF Given
      <4> QED BY <3>4, <4>3, <4>5, TypedRows, AppendOf
    <3> QED BY <1>4, <3>1, <3>2, <3>3, <3>4 DEF Scan, ScanRow
  <2> QED BY <1>4, <2>2, <2>3, TypedRows DEF Scan
<1> QED BY <1>1, <1>2, <1>3, <1>4 DEF TimerCycle

(* The events and the counters in a typed state.                           *)
LEMMA TypedEvents ==
    ASSUME Typed
    PROVE  /\ rxQ \in Seq(Event) /\ timerQ \in Seq(Event) /\ appQ \in Seq(Event)
           /\ pipe \in Seq(Event) /\ out \in Seq(Event) /\ tx \in Seq(Event)
           /\ Len(pipe) \in 0 .. EventDepth /\ Len(out) \in 0 .. EventDepth
           /\ written \in 0 .. CountSpace - 1 /\ adRead \in 0 .. CountSpace - 1
           /\ adWritten \in 0 .. CountSpace - 1 /\ txRead \in 0 .. CountSpace - 1
           /\ readC \in 0 .. CountDepth /\ writeC \in 0 .. CountDepth /\ takenC \in 0 .. CountDepth
           /\ ackTable \in [Sessions -> 0 .. AckDelay] /\ pointer \in Sessions
<1>1. /\ pipe \in Seq(Event) /\ out \in Seq(Event)
      /\ Len(pipe) <= EventDepth /\ Len(out) <= EventDepth BY DEF Typed, TypeOK
<1>2. Len(pipe) \in Nat /\ Len(out) \in Nat /\ EventDepth \in Nat BY <1>1, LenProperties, Constants
<1>3. Len(pipe) \in 0 .. EventDepth /\ Len(out) \in 0 .. EventDepth BY <1>1, <1>2
<1> QED BY <1>1, <1>3 DEF Typed, TypeOK

LEMMA TypedForward ==
    ASSUME Typed, NEW q \in Seq(Event), q # <<>>, Forward(q)
    PROVE  /\ Tail(q) \in Seq(Event) /\ pipe' \in Seq(Event) /\ Len(pipe') = Len(pipe) + 1
           /\ Len(pipe') <= EventDepth /\ written' = Inc(written) /\ written' \in 0 .. CountSpace - 1
<1>1. Head(q) \in Event /\ Tail(q) \in Seq(Event) BY TailOf
<1>2. pipe' = Append(pipe, Head(q)) /\ written' = Inc(written) /\ Len(pipe) < EventDepth BY DEF Forward
<1>3. pipe' \in Seq(Event) /\ Len(pipe') = Len(pipe) + 1 BY <1>1, <1>2, TypedEvents, AppendOf
<1>4. Len(pipe') <= EventDepth BY <1>2, <1>3, TypedEvents, Constants
<1> QED BY <1>1, <1>2, <1>3, <1>4, TypedEvents, IncDec

LEMMA TypedEngine ==
    ASSUME Typed, EventEngine
    PROVE  /\ rxQ' \in Seq(Event) /\ timerQ' \in Seq(Event) /\ appQ' \in Seq(Event)
           /\ pipe' \in Seq(Event) /\ Len(pipe') <= EventDepth
           /\ \A c \in {written', adRead', adWritten', txRead'} : c \in 0 .. CountSpace - 1
           /\ \A c \in {readC', writeC', takenC'} : c \in 0 .. CountDepth
<1>1. /\ rxQ' \in Seq(Event) /\ timerQ' \in Seq(Event) /\ appQ' \in Seq(Event)
      /\ pipe' \in Seq(Event) /\ Len(pipe') <= EventDepth /\ written' \in 0 .. CountSpace - 1
  <2>1. CASE ForwardRx BY <2>1, TypedEvents, TypedForward DEF ForwardRx, FromRx
  <2>2. CASE ForwardTimer BY <2>2, TypedEvents, TypedForward DEF ForwardTimer
  <2>3. CASE ForwardApp BY <2>3, TypedEvents, TypedForward DEF ForwardApp
  <2>4. CASE ForwardNone BY <2>4, TypedEvents DEF ForwardNone
  <2> QED BY <2>1, <2>2, <2>3, <2>4 DEF EventEngine
<1>2. /\ adRead' \in 0 .. CountSpace - 1 /\ adWritten' \in 0 .. CountSpace - 1
      /\ txRead' \in 0 .. CountSpace - 1
      /\ readC' \in 0 .. CountDepth /\ writeC' \in 0 .. CountDepth /\ takenC' \in 0 .. CountDepth
  BY TypedEvents, IncDec DEF EventEngine, TakeCounts
<1> QED BY <1>1, <1>2

LEMMA TypedAckDelay ==
    ASSUME Typed, AckDelayCycle
    PROVE  /\ pipe' \in Seq(Event) /\ Len(pipe') <= EventDepth
           /\ out' \in Seq(Event) /\ Len(out') <= EventDepth
           /\ readC' \in 0 .. CountDepth /\ writeC' \in 0 .. CountDepth
           /\ ackTable' \in [Sessions -> 0 .. AckDelay] /\ pointer' \in Sessions
           /\ UNCHANGED <<rxQ, timerQ, appQ, written, adRead, adWritten, txRead, takenC>>
<1>1. ASSUME TakeInput
      PROVE  /\ Head(pipe) \in Event /\ Head(pipe).session \in Sessions
             /\ pipe' \in Seq(Event) /\ Len(pipe') <= EventDepth /\ readC' \in 0 .. CountDepth
  <2>1. /\ Head(pipe) \in Event /\ Tail(pipe) \in Seq(Event) /\ Len(Tail(pipe)) = Len(pipe) - 1
    BY <1>1, TypedEvents, TailOf DEF TakeInput
  <2>2. Head(pipe).session \in Sessions BY <2>1 DEF Event
  <2>3. pipe' = Tail(pipe) /\ readC' = readC + 1 /\ readC < CountDepth BY <1>1 DEF TakeInput
  <2>4. /\ Len(pipe) \in 0 .. EventDepth /\ readC \in 0 .. CountDepth
        /\ EventDepth \in Nat /\ CountDepth \in Nat BY TypedEvents, Constants
  <2>5. Len(pipe') = Len(pipe) - 1 BY <2>1, <2>3
  <2>6. Len(pipe') <= EventDepth /\ readC' \in 0 .. CountDepth BY <2>3, <2>4, <2>5
  <2> QED BY <2>1, <2>2, <2>3, <2>6
<1>2. ASSUME NEW e \in Event, Emit(e)
      PROVE  out' \in Seq(Event) /\ Len(out') <= EventDepth /\ writeC' \in 0 .. CountDepth
  <2>1. out' = Append(out, e) /\ Len(out) < EventDepth /\ writeC' = writeC + 1 /\ writeC < CountDepth
    BY <1>2 DEF Emit
  <2>2. out' \in Seq(Event) /\ Len(out') = Len(out) + 1 BY <2>1, TypedEvents, AppendOf
  <2>3. /\ Len(out) \in 0 .. EventDepth /\ writeC \in 0 .. CountDepth
        /\ EventDepth \in Nat /\ CountDepth \in Nat BY TypedEvents, Constants
  <2>4. Len(out') <= EventDepth /\ writeC' \in 0 .. CountDepth BY <2>1, <2>2, <2>3
  <2> QED BY <2>2, <2>4
<1>3. AckDelay \in 0 .. AckDelay /\ 0 \in 0 .. AckDelay BY Constants
<1>4. CASE AckHold BY <1>1, <1>3, <1>4, TypedEvents DEF AckHold
<1>5. CASE AckPass BY <1>1, <1>2, <1>3, <1>5, TypedEvents DEF AckPass
<1>6. CASE AckScan
  <2>1. NextPointer \in Sessions BY Constants DEF NextPointer
  <2>2. [type |-> "ACK", session |-> pointer, count |-> 0] \in Event BY TypedEvents DEF Event
  <2>3. ackTable' \in [Sessions -> 0 .. AckDelay]
    <3>1. CASE UNCHANGED ackTable BY <3>1, TypedEvents
    <3>2. CASE ackTable[pointer] > 0 /\ ackTable' = [ackTable EXCEPT ![pointer] = ackTable[pointer] - 1]
      <4>1. ackTable[pointer] \in 0 .. AckDelay /\ ackTable[pointer] > 0 /\ AckDelay \in Nat
        BY <3>2, TypedEvents, Constants
      <4>2. ackTable[pointer] - 1 \in 0 .. AckDelay BY <4>1
      <4> QED BY <3>2, <4>2, TypedEvents
    <3> QED BY <1>6, <3>1, <3>2 DEF AckScan
  <2>4. out' \in Seq(Event) /\ Len(out') <= EventDepth /\ writeC' \in 0 .. CountDepth
    BY <1>2, <1>6, <2>2, TypedEvents DEF AckScan
  <2> QED BY <1>6, <2>1, <2>3, <2>4, TypedEvents DEF AckScan
<1> QED BY <1>4, <1>5, <1>6 DEF AckDelayCycle

LEMMA TypedSets ==
    ASSUME Typed, [Next]_vars
    PROVE  /\ Len(tx') <= 1
           /\ \A some \in {alive', unacked', owed', overtaken'} : some \subseteq Sessions
           /\ edge' \in 0 .. MaxEdge
<1>1. /\ tx \in Seq(Event) /\ Len(tx) <= 1 /\ MaxEdge \in Nat /\ edge \in 0 .. MaxEdge
      /\ alive \subseteq Sessions /\ unacked \subseteq Sessions
      /\ owed \subseteq Sessions /\ overtaken \subseteq Sessions
  BY LoopAssumption DEF Typed, TypeOK
<1>2. Acts => edge' \in 0 .. MaxEdge BY <1>1 DEF Acts
<1>3. UNCHANGED tx => Len(tx') <= 1 BY <1>1
<1>4. CASE RetransmitTimerCycle BY <1>1, <1>4 DEF RetransmitTimerCycle
<1>5. CASE MergeTimers BY <1>1, <1>5 DEF MergeTimers, loopVars
<1>6. CASE EventEngineCycle BY <1>1, <1>6 DEF EventEngineCycle, loopVars
<1>7. CASE AckDelayStep BY <1>1, <1>7 DEF AckDelayStep, loopVars
<1>8. CASE TxTake
  <2>1. Len(tx') <= 1 BY <1>8 DEF TxTake
  <2> QED BY <1>1, <1>8, <2>1 DEF TxTake
<1>9. CASE TxSend
  <2>1. Len(tx') <= 1 BY <1>9 DEF TxSend
  <2>2. tx # <<>> BY <1>9 DEF TxSend
  <2>3. tx[1] \in Event BY <1>1, <2>2, TailOf
  <2>4. tx[1].session \in Sessions BY <2>3 DEF Event
  <2> QED BY <1>1, <1>9, <2>1, <2>4 DEF TxSend
<1>10. CASE TxOther
  <2>1. Len(tx') <= 1 BY <1>10 DEF TxOther
  <2> QED BY <1>1, <1>10, <2>1 DEF TxOther
<1>11. CASE CloseAborted BY <1>1, <1>11 DEF CloseAborted
<1>12. ASSUME NEW s \in Sessions, AppWrites(s) \/ RxFastRetransmit(s) 
       PROVE  edge' \in 0 .. MaxEdge /\ UNCHANGED <<tx, alive, unacked, owed, overtaken>>
  BY <1>2, <1>12 DEF AppWrites, RxFastRetransmit, RxMay
<1>13. ASSUME NEW s \in Sessions, RxData(s)
       PROVE  edge' \in 0 .. MaxEdge /\ owed' \subseteq Sessions /\ UNCHANGED <<tx, alive, unacked, overtaken>>
  BY <1>1, <1>2, <1>13 DEF RxData, RxMay
<1>14. ASSUME NEW s \in Sessions, NEW all \in BOOLEAN, RxAck(s, all)
       PROVE  edge' \in 0 .. MaxEdge /\ unacked' \subseteq Sessions /\ UNCHANGED <<tx, alive, owed, overtaken>>
  BY <1>1, <1>2, <1>14 DEF RxAck, RxMay
<1>15. CASE RxStray BY <1>1, <1>2, <1>15 DEF RxStray
<1>16. CASE Edge BY <1>1, <1>12, <1>13, <1>14, <1>15, <1>16 DEF Edge
<1>17. CASE UNCHANGED vars BY <1>1, <1>17 DEF vars, loopVars
<1> QED BY <1>4, <1>5, <1>6, <1>7, <1>8, <1>9, <1>10, <1>11, <1>16, <1>17 DEF Next, Toe

LEMMA TypedStep == Typed /\ [Next]_vars => Typed'
<1> SUFFICES ASSUME Typed, [Next]_vars PROVE Typed' OBVIOUS
(* What a step may leave as it is, by module.                              *)
<1>1. UNCHANGED timerVars =>
        /\ row' \in [Rows -> Row] /\ position' \in Rows /\ prev' \in Rows
        /\ update' \in Clear /\ waiting' \in BOOLEAN /\ clearQ' \in Seq(Clear)
        /\ setQ' \in Seq(SetType) /\ abortQ' \in Seq(Given) /\ expiredQ' \in Seq(Event)
        /\ RunningRowsAreSessions'
  BY TypedRows DEF timerVars, RunningRowsAreSessions
<1>2. UNCHANGED row => RunningRowsAreSessions' BY TypedRows DEF RunningRowsAreSessions
<1> DEFINE TimerPart ==
             /\ row \in [Rows -> Row] /\ position \in Rows /\ prev \in Rows
             /\ update \in Clear /\ waiting \in BOOLEAN /\ clearQ \in Seq(Clear)
             /\ setQ \in Seq(SetType) /\ abortQ \in Seq(Given) /\ expiredQ \in Seq(Event)
             /\ RunningRowsAreSessions
           QueuePart ==
             /\ rxQ \in Seq(Event) /\ timerQ \in Seq(Event) /\ appQ \in Seq(Event)
             /\ pipe \in Seq(Event) /\ Len(pipe) <= EventDepth
             /\ out \in Seq(Event) /\ Len(out) <= EventDepth /\ tx \in Seq(Event)
           CountPart ==
             /\ \A c \in {written, adRead, adWritten, txRead} : c \in 0 .. CountSpace - 1
             /\ \A c \in {readC, writeC, takenC} : c \in 0 .. CountDepth
             /\ ackTable \in [Sessions -> 0 .. AckDelay] /\ pointer \in Sessions
<1>3. TimerPart' /\ QueuePart' /\ CountPart' => Typed'
  BY TypedSets DEF Typed, TypeOK, Clear, SetType, Given
<1>4. UNCHANGED timerVars => TimerPart' BY <1>1
<1>5. UNCHANGED <<eventVars, tx>> => QueuePart' /\ CountPart' BY TypedEvents DEF eventVars, counters
<1>6. UNCHANGED eventVars => CountPart' BY TypedEvents DEF eventVars, counters
<1>7. CASE RetransmitTimerCycle BY <1>3, <1>5, <1>7, TypedTimer DEF RetransmitTimerCycle
<1>8. CASE MergeTimers
  <2>1. Head(expiredQ) \in Event /\ Tail(expiredQ) \in Seq(Event)
    BY <1>8, TypedRows, TailOf DEF MergeTimers
  <2>2. timerQ' \in Seq(Event) BY <1>8, <2>1, TypedEvents, AppendOf DEF MergeTimers, PutTimer
  <2>3. TimerPart' BY <1>2, <1>8, <2>1, TypedRows DEF MergeTimers
  <2>4. QueuePart' BY <1>8, <2>2, TypedEvents DEF MergeTimers, loopVars
  <2>5. CountPart' BY <1>8, TypedEvents DEF MergeTimers, counters
  <2> QED BY <1>3, <2>3, <2>4, <2>5
<1>9. CASE EventEngineCycle
  <2>1. QueuePart' /\ CountPart'
    BY <1>9, TypedEngine, TypedEvents DEF EventEngineCycle, EventEngine, loopVars
  <2> QED BY <1>3, <1>4, <1>9, <2>1 DEF EventEngineCycle
<1>10. CASE AckDelayStep
  <2>1. QueuePart' /\ CountPart' BY <1>10, TypedAckDelay, TypedEvents DEF AckDelayStep, loopVars
  <2> QED BY <1>3, <1>4, <1>10, <2>1 DEF AckDelayStep
<1>11. CASE TxTake
  <2>1. /\ Head(out) \in Event /\ Tail(out) \in Seq(Event) /\ Len(Tail(out)) = Len(out) - 1
    BY <1>11, TypedEvents, TailOf DEF TxTake, TakeEvent
  <2>2. out' = Tail(out) /\ takenC' = takenC + 1 /\ takenC < CountDepth /\ tx' = <<Head(out)>>
    BY <1>11 DEF TxTake, TakeEvent
  <2>3. /\ Len(out) \in 0 .. EventDepth /\ takenC \in 0 .. CountDepth
        /\ EventDepth \in Nat /\ CountDepth \in Nat BY TypedEvents, Constants
  <2>4. Len(out') = Len(out) - 1 BY <2>1, <2>2
  <2>5. Len(out') <= EventDepth /\ takenC' \in 0 .. CountDepth BY <2>2, <2>3, <2>4
  <2>6. tx' \in Seq(Event) BY <2>1, <2>2
  <2>7. QueuePart' BY <1>11, <2>1, <2>2, <2>5, <2>6, TypedEvents DEF TxTake, TakeEvent
  <2>8. CountPart' BY <1>11, <2>5, TypedEvents DEF TxTake, TakeEvent
  <2> QED BY <1>3, <1>4, <1>11, <2>7, <2>8 DEF TxTake
<1>12. CASE TxSend
  <2>1. tx \in Seq(Event) /\ tx # <<>> BY <1>12, TypedEvents DEF TxSend
  <2>2. tx[1] \in Event BY <2>1, TailOf
  <2>3. [session |-> tx[1].session, type |-> "RT"] \in SetType BY <2>2, Constants DEF Event, SetType
  <2>4. setQ' \in Seq(SetType) BY <1>12, <2>3, TypedRows, AppendOf DEF TxSend, PutSet
  <2>5. TimerPart' BY <1>2, <1>12, <2>4, TypedRows DEF TxSend
  <2>6. <<>> \in Seq(Event) BY EmptySeq
  <2>7. QueuePart' BY <1>12, <2>6, TypedEvents DEF TxSend, eventVars
  <2> QED BY <1>3, <1>6, <1>12, <2>5, <2>7 DEF TxSend
<1>13. CASE TxOther
  <2>1. <<>> \in Seq(Event) BY EmptySeq
  <2>2. QueuePart' BY <1>13, <2>1, TypedEvents DEF TxOther, eventVars
  <2> QED BY <1>3, <1>4, <1>6, <1>13, <2>2 DEF TxOther
<1>14. CASE CloseAborted
  <2>1. Tail(abortQ) \in Seq(Given) BY <1>14, TypedRows, TailOf DEF CloseAborted
  <2>2. TimerPart' BY <1>2, <1>14, <2>1, TypedRows DEF CloseAborted
  <2> QED BY <1>3, <1>5, <1>14, <2>2 DEF CloseAborted
<1>15. ASSUME NEW s \in Sessions, AppWrites(s) PROVE Typed'
  <2>1. [type |-> "TX", session |-> s, count |-> 0] \in Event BY DEF Event
  <2>2. appQ' \in Seq(Event) BY <1>15, <2>1, TypedEvents, AppendOf DEF AppWrites, PutApp
  <2>3. QueuePart' BY <1>15, <2>2, TypedEvents DEF AppWrites
  <2>4. CountPart' BY <1>15, TypedEvents DEF AppWrites, counters
  <2> QED BY <1>3, <1>4, <1>15, <2>3, <2>4 DEF AppWrites
<1>16. ASSUME NEW e \in Event, PutRx(e), UNCHANGED <<timerVars, timerQ, appQ, pipe, out, counters, ackTable, pointer, tx>>
       PROVE  Typed'
  <2>1. rxQ' \in Seq(Event) BY <1>16, TypedEvents, AppendOf DEF PutRx
  <2>2. QueuePart' BY <1>16, <2>1, TypedEvents
  <2>3. CountPart' BY <1>16, TypedEvents DEF counters
  <2> QED BY <1>3, <1>4, <1>16, <2>2, <2>3
<1>17. ASSUME NEW s \in Sessions, RxData(s) PROVE Typed'
  <2>1. [type |-> "ACK", session |-> s, count |-> 0] \in Event BY DEF Event
  <2> QED BY <1>16, <1>17, <2>1 DEF RxData
<1>18. ASSUME NEW s \in Sessions, RxFastRetransmit(s) PROVE Typed'
  <2>1. [type |-> "RT", session |-> s, count |-> 0] \in Event BY DEF Event
  <2> QED BY <1>16, <1>18, <2>1 DEF RxFastRetransmit
<1>19. CASE RxStray
  <2>1. StrayRst \in Event BY Constants DEF StrayRst, Event
  <2> QED BY <1>16, <1>19, <2>1 DEF RxStray
<1>20. ASSUME NEW s \in Sessions, NEW all \in BOOLEAN, RxAck(s, all) PROVE Typed'
  <2>1. [session |-> s, stop |-> all] \in Clear BY Constants DEF Clear
  <2>2. clearQ' \in Seq(Clear) BY <1>20, <2>1, TypedRows, AppendOf DEF RxAck, PutClear
  <2>3. TimerPart' BY <1>2, <1>20, <2>2, TypedRows DEF RxAck
  <2> QED BY <1>3, <1>5, <1>20, <2>3 DEF RxAck
<1>21. CASE UNCHANGED vars BY <1>3, <1>4, <1>5, <1>21 DEF vars, loopVars
<1> QED BY <1>7, <1>8, <1>9, <1>10, <1>11, <1>12, <1>13, <1>14, <1>15, <1>17, <1>18, <1>19, <1>20, <1>21
        DEF Next, Toe, Edge

(* The loop keeps its types, and only rows of sessions ever run            *)
(* (retransmit_timer.cpp:76-206: the pointer may skip past the last one).  *)
THEOREM TypesAreKept == Spec => []Typed
<1>1. Init => Typed BY TypedInit
<1>2. Typed /\ [Next]_vars => Typed' BY TypedStep
<1> QED BY <1>1, <1>2, PTL DEF Spec

-----------------------------------------------------------------------------
(* Counters                                                                *)

Number == 0 .. CountSpace - 1

(* Arithmetic modulo CountSpace: counting one more of what is written adds *)
(* one to the gap, one more of what is read takes one away, as long as the *)
(* gap does not reach CountSpace or 0.                                     *)
LEMMA GapGrows ==
    ASSUME NEW a \in Number, NEW b \in Number, Gap(a, b) + 1 < CountSpace
    PROVE  Gap(Inc(a), b) = Gap(a, b) + 1
BY Constants DEF Number, Gap, Inc

LEMMA GapShrinks ==
    ASSUME NEW a \in Number, NEW b \in Number, Gap(a, b) > 0
    PROVE  Gap(a, Inc(b)) = Gap(a, b) - 1
BY Constants DEF Number, Gap, Inc

LEMMA PlusMoves ==
    ASSUME NEW a \in Number, NEW n \in 0 .. CountDepth, n > 0
    PROVE  Plus(Inc(a), n - 1) = Plus(a, n)
BY Constants DEF Number, Plus, Inc

LEMMA PlusGrows ==
    ASSUME NEW a \in Number, NEW n \in 0 .. CountDepth, n + 1 < CountSpace
    PROVE  Plus(a, n + 1) = Inc(Plus(a, n)) /\ Plus(a, n) \in Number
BY Constants DEF Number, Plus, Inc

LEMMA PlusNumber ==
    ASSUME NEW a \in Number, NEW n \in 0 .. CountDepth
    PROVE  Plus(a, n) \in Number
BY Constants DEF Number, Plus

LEMMA CountersInit == Init => CountersAgree
BY Constants DEF Init, EventInit, CountersAgree, Gap, Plus

(* The two halves of CountersAgree.                                        *)
PipeAgrees == Gap(written, adRead) = Len(pipe) + readC
OutAgrees == Gap(Plus(adWritten, writeC), Plus(txRead, takenC)) = Len(out)

LEMMA CountersEngine ==
    ASSUME Typed, CountersAgree, EventEngine
    PROVE  CountersAgree'
<1>1. PipeAgrees'
  <2> DEFINE w == IF readC > 0 THEN Inc(adRead) ELSE adRead
  <2>1. adRead' = w /\ readC' = Dec(readC) BY DEF EventEngine, TakeCounts
  <2>2. /\ written \in Number /\ adRead \in Number /\ readC \in 0 .. CountDepth
        /\ Len(pipe) \in 0 .. EventDepth BY TypedEvents DEF Number
  <2>3. Gap(written, adRead) = Len(pipe) + readC BY DEF CountersAgree
  <2>4. w \in Number /\ Gap(written, w) = Len(pipe) + readC'
    <3>1. CASE readC = 0 BY <2>1, <2>2, <2>3, <3>1 DEF Dec
    <3>2. CASE readC > 0
      <4>1. Gap(written, adRead) > 0 BY <2>2, <2>3, <3>2
      <4>2. Gap(written, Inc(adRead)) = Len(pipe) + readC - 1 BY <2>2, <2>3, <4>1, GapShrinks
      <4>3. Inc(adRead) \in Number BY <2>2, IncDec DEF Number
      <4> QED BY <2>1, <2>2, <3>2, <4>2, <4>3 DEF Dec
    <3> QED BY <2>2, <3>1, <3>2
  <2>5. readC' \in 0 .. CountDepth BY <2>1, <2>2, IncDec
  <2> HIDE DEF w
  <2>6. CASE UNCHANGED <<pipe, written>> BY <2>1, <2>4, <2>6 DEF PipeAgrees
  <2>7. CASE Len(pipe') = Len(pipe) + 1 /\ Len(pipe) < EventDepth /\ written' = Inc(written)
    <3>1. Gap(written, w) + 1 < CountSpace BY <2>2, <2>4, <2>5, <2>7, Constants
    <3>2. Gap(written', w) = Len(pipe) + readC' + 1 BY <2>2, <2>4, <2>7, <3>1, GapGrows
    <3> QED BY <2>1, <2>2, <2>5, <2>7, <3>2 DEF PipeAgrees
  <2>8. ASSUME NEW q \in Seq(Event), q # <<>>, Forward(q)
        PROVE  Len(pipe') = Len(pipe) + 1 /\ Len(pipe) < EventDepth /\ written' = Inc(written)
    BY <2>8, TypedForward DEF Forward
  <2>9. CASE ForwardRx BY <2>7, <2>8, <2>9, TypedEvents DEF ForwardRx, FromRx
  <2>10. CASE ForwardTimer BY <2>7, <2>8, <2>10, TypedEvents DEF ForwardTimer
  <2>11. CASE ForwardApp BY <2>7, <2>8, <2>11, TypedEvents DEF ForwardApp
  <2>12. CASE ForwardNone BY <2>6, <2>12 DEF ForwardNone
  <2> QED BY <2>9, <2>10, <2>11, <2>12 DEF EventEngine
<1>2. OutAgrees'
  <2>1. /\ adWritten \in Number /\ txRead \in Number
        /\ writeC \in 0 .. CountDepth /\ takenC \in 0 .. CountDepth BY TypedEvents DEF Number
  <2>2. Plus(adWritten', writeC') = Plus(adWritten, writeC)
    BY <2>1, PlusMoves DEF EventEngine, TakeCounts, Dec
  <2>3. Plus(txRead', takenC') = Plus(txRead, takenC)
    BY <2>1, PlusMoves DEF EventEngine, TakeCounts, Dec
  <2>4. out' = out BY DEF EventEngine
  <2> QED BY <2>2, <2>3, <2>4 DEF CountersAgree, OutAgrees
<1> QED BY <1>1, <1>2 DEF CountersAgree, PipeAgrees, OutAgrees

LEMMA CountersAckDelay ==
    ASSUME Typed, CountersAgree, AckDelayCycle
    PROVE  CountersAgree'
<1>1. /\ Len(pipe) \in 0 .. EventDepth /\ Len(out) \in 0 .. EventDepth
      /\ readC \in 0 .. CountDepth /\ writeC \in 0 .. CountDepth /\ takenC \in 0 .. CountDepth
      /\ adWritten \in Number /\ txRead \in Number
      /\ EventDepth + CountDepth < CountSpace /\ CountSpace \in Nat
      /\ EventDepth \in Nat /\ CountDepth \in Nat
  BY TypedEvents, Constants DEF Number
<1>2. UNCHANGED <<written, adRead, adWritten, txRead, takenC>> BY TypedAckDelay
<1>3. PipeAgrees'
  <2>1. CASE UNCHANGED <<pipe, readC>> BY <1>2, <2>1 DEF CountersAgree, PipeAgrees
  <2>2. CASE TakeInput
    <3>1. Len(pipe') = Len(pipe) - 1 /\ readC' = readC + 1
      BY <2>2, TypedEvents, TailOf DEF TakeInput
    <3> QED BY <1>1, <1>2, <3>1 DEF CountersAgree, PipeAgrees
  <2> QED BY <2>1, <2>2 DEF AckDelayCycle, AckHold, AckPass, AckScan
<1>4. OutAgrees'
  <2>1. CASE UNCHANGED <<out, writeC>> BY <1>2, <2>1 DEF CountersAgree, OutAgrees
  <2>2. ASSUME NEW e \in Event, Emit(e) PROVE OutAgrees'
    <3>1. /\ out' = Append(out, e) /\ Len(out) < EventDepth
          /\ writeC' = writeC + 1 /\ writeC < CountDepth BY <2>2 DEF Emit
    <3>2. Len(out') = Len(out) + 1 BY <3>1, TypedEvents, AppendOf
    <3> DEFINE a == Plus(adWritten, writeC)
               b == Plus(txRead, takenC)
    <3>3. a \in Number /\ b \in Number BY <1>1, PlusNumber
    <3>4. Plus(adWritten', writeC') = Inc(a) BY <1>1, <1>2, <3>1, PlusGrows
    <3>5. Plus(txRead', takenC') = b BY <1>2
    <3>6. Gap(a, b) = Len(out) BY DEF CountersAgree
    <3> HIDE DEF a, b
    <3>7. Gap(a, b) + 1 < CountSpace BY <1>1, <3>1, <3>6
    <3>8. Gap(Inc(a), b) = Len(out) + 1 BY <3>3, <3>6, <3>7, GapGrows
    <3> QED BY <3>2, <3>4, <3>5, <3>8 DEF OutAgrees
  <2>3. CASE AckHold BY <2>1, <2>3 DEF AckHold
  <2>4. CASE AckPass
    <3>1. Head(pipe) \in Event BY <2>4, TypedEvents, TailOf DEF AckPass, TakeInput
    <3> QED BY <2>2, <2>4, <3>1 DEF AckPass
  <2>5. CASE AckScan
    <3>1. [type |-> "ACK", session |-> pointer, count |-> 0] \in Event BY TypedEvents DEF Event
    <3> QED BY <2>1, <2>2, <2>5, <3>1 DEF AckScan
  <2> QED BY <2>3, <2>4, <2>5 DEF AckDelayCycle
<1> QED BY <1>3, <1>4 DEF CountersAgree, PipeAgrees, OutAgrees

LEMMA CountersTake ==
    ASSUME Typed, CountersAgree, TakeEvent
    PROVE  CountersAgree'
<1>1. /\ Len(out) \in Nat /\ adWritten \in Number /\ txRead \in Number
      /\ writeC \in 0 .. CountDepth /\ takenC \in 0 .. CountDepth
      /\ CountDepth < CountSpace /\ CountSpace \in Nat /\ CountDepth \in Nat
  BY TypedEvents, Constants DEF Number
<1>2. /\ out # <<>> /\ out' = Tail(out) /\ takenC' = takenC + 1 /\ takenC < CountDepth
      /\ UNCHANGED <<pipe, written, adRead, readC, adWritten, writeC, txRead>>
  BY DEF TakeEvent
<1>3. Len(out') = Len(out) - 1 /\ Len(out) > 0 BY <1>2, TypedEvents, TailOf
<1> DEFINE a == Plus(adWritten, writeC)
           b == Plus(txRead, takenC)
<1>4. a \in Number /\ b \in Number BY <1>1, PlusNumber
<1>5. Plus(txRead', takenC') = Inc(b) BY <1>1, <1>2, PlusGrows
<1>6. Plus(adWritten', writeC') = a BY <1>2
<1>7. Gap(a, b) = Len(out) BY DEF CountersAgree
<1> HIDE DEF a, b
<1>8. Gap(a, Inc(b)) = Len(out) - 1 BY <1>3, <1>4, <1>7, GapShrinks
<1>9. OutAgrees' BY <1>3, <1>5, <1>6, <1>8 DEF OutAgrees
<1>10. PipeAgrees' BY <1>2 DEF CountersAgree, PipeAgrees
<1> QED BY <1>9, <1>10 DEF CountersAgree, PipeAgrees, OutAgrees

LEMMA CountersStep == Typed /\ CountersAgree /\ [Next]_vars => CountersAgree'
<1> SUFFICES ASSUME Typed, CountersAgree, [Next]_vars PROVE CountersAgree' OBVIOUS
<1>1. UNCHANGED <<pipe, out, counters>> => CountersAgree' BY DEF CountersAgree, counters
<1>2. UNCHANGED eventVars => CountersAgree' BY <1>1 DEF eventVars
<1>3. CASE RetransmitTimerCycle BY <1>2, <1>3 DEF RetransmitTimerCycle
<1>4. CASE MergeTimers BY <1>1, <1>4 DEF MergeTimers
<1>5. CASE EventEngineCycle BY <1>5, CountersEngine DEF EventEngineCycle
<1>6. CASE AckDelayStep BY <1>6, CountersAckDelay DEF AckDelayStep
<1>7. CASE TxTake BY <1>7, CountersTake DEF TxTake
<1>8. CASE TxSend BY <1>2, <1>8 DEF TxSend
<1>9. CASE TxOther BY <1>2, <1>9 DEF TxOther
<1>10. CASE CloseAborted BY <1>2, <1>10 DEF CloseAborted
<1>11. CASE Edge
  BY <1>1, <1>2, <1>11 DEF Edge, AppWrites, RxData, RxFastRetransmit, RxStray, RxAck
<1>12. CASE UNCHANGED vars BY <1>2, <1>12 DEF vars
<1> QED BY <1>3, <1>4, <1>5, <1>6, <1>7, <1>8, <1>9, <1>10, <1>11, <1>12 DEF Next, Toe

(* The counters of the event engine, which wrap and which learn of what    *)
(* happened through FIFOs, never misstate how many events are in its two   *)
(* FIFOs, if the counters are wide enough for a FIFO of events and one of  *)
(* counts together (event_engine.cpp:40-120, ack_delay.cpp).               *)
THEOREM CountersAreExact == Spec => []CountersAgree
<1>1. Init => Typed /\ CountersAgree BY TypedInit, CountersInit
<1>2. Typed /\ CountersAgree /\ [Next]_vars => (Typed /\ CountersAgree)'
  BY TypedStep, CountersStep
<1> QED BY <1>1, <1>2, PTL DEF Spec

(* So the event engine, which writes events of timers and application      *)
(* without asking for room, always finds room (event_engine.cpp:83-99).    *)
THEOREM EngineNeverBlocks == Spec => []WritesNeverBlock
<1>1. Typed /\ CountersAgree => WritesNeverBlock
  <2> SUFFICES ASSUME Typed, CountersAgree, Drained PROVE pipe = <<>> BY DEF WritesNeverBlock
  <2>1. written = adRead /\ adRead \in Number /\ CountSpace \in Nat /\ readC \in Nat
    BY TypedEvents, Constants DEF Drained, Number
  <2>2. Len(pipe) + readC = 0 BY <2>1 DEF CountersAgree, Gap, Number
  <2>3. pipe \in Seq(Event) /\ Len(pipe) \in Nat BY TypedEvents
  <2>4. Len(pipe) = 0 BY <2>1, <2>2, <2>3
  <2> QED BY <2>3, <2>4, EmptySeq
<1> QED BY <1>1, TypesAreKept, CountersAreExact, PTL

-----------------------------------------------------------------------------
(* Data that is not acknowledged                                           *)

(* What an operation on a FIFO keeps of what the FIFO is about.            *)
LEMMA AboutAppend ==
    ASSUME NEW S, NEW q \in Seq(S), NEW e \in S, NEW s
    PROVE  /\ About(q, s) => About(Append(q, e), s)
           /\ e.session = s => About(Append(q, e), s)
BY AppendOf DEF About

LEMMA AboutTail ==
    ASSUME NEW S, NEW q \in Seq(S), q # <<>>, NEW s
    PROVE  About(q, s) => Head(q).session = s \/ About(Tail(q), s)
<1> SUFFICES ASSUME About(q, s), Head(q).session # s PROVE About(Tail(q), s) OBVIOUS
<1>1. PICK i \in DOMAIN q : q[i].session = s BY DEF About
<1>2. \E j \in DOMAIN Tail(q) : Tail(q)[j] = q[i] BY <1>1, TailOf
<1> QED BY <1>1, <1>2 DEF About

LEMMA SendsAppend ==
    ASSUME NEW S, NEW q \in Seq(S), NEW e \in S, NEW s
    PROVE  /\ SendsIn(q, s) => SendsIn(Append(q, e), s)
           /\ Sends(e, s) => SendsIn(Append(q, e), s)
BY AppendOf DEF SendsIn

LEMMA SendsTail ==
    ASSUME NEW S, NEW q \in Seq(S), q # <<>>, NEW s
    PROVE  SendsIn(q, s) => Sends(Head(q), s) \/ SendsIn(Tail(q), s)
<1> SUFFICES ASSUME SendsIn(q, s), ~Sends(Head(q), s) PROVE SendsIn(Tail(q), s) OBVIOUS
<1>1. PICK i \in DOMAIN q : Sends(q[i], s) BY DEF SendsIn
<1>2. \E j \in DOMAIN Tail(q) : Tail(q)[j] = q[i] BY <1>1, TailOf
<1> QED BY <1>1, <1>2 DEF SendsIn

LEMMA SendsOne ==
    ASSUME NEW q \in Seq(Event), Len(q) <= 1, q # <<>>, NEW s
    PROVE  SendsIn(q, s) => Sends(q[1], s)
<1>1. DOMAIN q = 1 .. Len(q) /\ Len(q) \in Nat BY LenProperties
<1> QED BY <1>1 DEF SendsIn

(* A set of session s that an older clear threatens: the pending clears    *)
(* after a step are pending before it, unless the step makes one.          *)
LEMMA OvertakesLatch ==
    ASSUME Typed, LatchClear, NEW s
    PROVE  Overtakes(s)' => Overtakes(s)
<1> SUFFICES ASSUME Overtakes(s)' PROVE Overtakes(s) OBVIOUS
<1> DEFINE stop == [session |-> s, stop |-> TRUE]
<1>1. clearQ \in Seq(Clear) /\ clearQ # <<>> /\ update' = Head(clearQ) /\ clearQ' = Tail(clearQ)
  BY TypedRows DEF LatchClear
<1>2. 1 \in DOMAIN clearQ /\ clearQ[1] = Head(clearQ)
  <2>1. DOMAIN clearQ = 1 .. Len(clearQ) BY <1>1, LenProperties
  <2>2. Len(clearQ) \in Nat \ {0} BY <1>1, EmptySeq
  <2> QED BY <1>1, <2>1, <2>2
<1>3. CASE update' = stop BY <1>1, <1>2, <1>3 DEF Overtakes
<1>4. CASE \E i \in DOMAIN clearQ' : clearQ'[i] = stop
  <2>1. PICK i \in DOMAIN Tail(clearQ) : Tail(clearQ)[i] = stop BY <1>1, <1>4
  <2>2. i + 1 \in DOMAIN clearQ /\ clearQ[i + 1] = stop BY <1>1, <2>1, TailOf
  <2> QED BY <2>2 DEF Overtakes
<1> QED BY <1>3, <1>4 DEF Overtakes

LEMMA OvertakesPut ==
    ASSUME Typed, NEW x \in Session, NEW all \in BOOLEAN, PutClear(x, all), UNCHANGED <<update, waiting>>,
           NEW s, x # s \/ ~all
    PROVE  Overtakes(s)' => Overtakes(s)
<1> SUFFICES ASSUME Overtakes(s)' PROVE Overtakes(s) OBVIOUS
<1> DEFINE stop == [session |-> s, stop |-> TRUE]
           clear == [session |-> x, stop |-> all]
<1>1. clearQ \in Seq(Clear) /\ clear \in Clear /\ clearQ' = Append(clearQ, clear)
  BY TypedRows DEF PutClear, Clear
<1>2. clear # stop OBVIOUS
<1>3. CASE waiting /\ update = stop BY <1>3 DEF Overtakes
<1> HIDE DEF clear
<1>4. CASE \E i \in DOMAIN clearQ' : clearQ'[i] = stop
  <2>1. PICK i \in DOMAIN Append(clearQ, clear) : Append(clearQ, clear)[i] = stop BY <1>1, <1>4
  <2>2. i \in DOMAIN clearQ /\ clearQ[i] = stop BY <1>1, <1>2, <2>1, AppendOf
  <2> QED BY <2>2 DEF Overtakes
<1> QED BY <1>3, <1>4 DEF Overtakes

Held(s) == row[s].active \/ About(setQ, s) \/ Posted(s) \/ About(abortQ, s)
Safe(s) == Held(s) /\ (Overtakes(s) => About(setQ, s))
Watched == unacked \ overtaken

LEMMA SafeInit == Init => \A s \in Watched : Safe(s)
BY DEF Init, Watched

LEMMA SafeTimer ==
    ASSUME Typed, RetransmitTimerCycle, NEW s \in Watched, Safe(s), s \in Watched'
    PROVE  Safe(s)'
<1>0. /\ s \in Sessions /\ s \in Session /\ s \in Rows /\ row \in [Rows -> Row]
      /\ UNCHANGED <<rxQ, timerQ, appQ, pipe, out, tx>>
  BY TypedRows, Constants DEF Typed, TypeOK, Watched, RetransmitTimerCycle, eventVars
<1>1. (SendsIn(expiredQ, s) => SendsIn(expiredQ', s)) => (Posted(s) => Posted(s)')
  BY <1>0 DEF Posted
<1>2. CASE ApplyClear
  <2>1. /\ waiting /\ row' = [row EXCEPT ![update.session] = Cleared(row[update.session])]
        /\ waiting' = FALSE /\ UNCHANGED <<update, clearQ, setQ, expiredQ, abortQ>>
    BY <1>2 DEF ApplyClear, MayApply
  <2>2. Overtakes(s)' => Overtakes(s) BY <2>1 DEF Overtakes
  <2>3. CASE row[s].active /\ ~About(setQ, s)
    <3>1. ~Overtakes(s) BY <2>3 DEF Safe
    <3>2. CASE update.session = s
      <4>1. update = [session |-> s, stop |-> update.stop] /\ update.stop \in BOOLEAN
        BY <3>2, TypedRows DEF Clear
      <4>2. ~update.stop BY <2>1, <3>1, <4>1 DEF Overtakes
      <4>3. Cleared(row[s]).active BY <1>0, <2>3, <4>2, ClearedRow
      <4>4. row'[s].active BY <1>0, <2>1, <3>2, <4>3
      <4> QED BY <2>1, <2>2, <3>1, <4>4 DEF Safe, Held
    <3>3. CASE update.session # s
      <4>1. row'[s] = row[s] BY <1>0, <2>1, <3>3
      <4> QED BY <2>1, <2>2, <2>3, <3>1, <4>1 DEF Safe, Held
    <3> QED BY <3>2, <3>3
  <2>4. CASE ~row[s].active \/ About(setQ, s)
    <3>1. About(setQ, s)' = About(setQ, s) /\ About(abortQ, s)' = About(abortQ, s) BY <2>1 DEF About
    <3> QED BY <1>1, <2>1, <2>2, <2>4, <3>1 DEF Safe, Held
  <2> QED BY <2>3, <2>4
<1>3. CASE LatchClear
  <2>1. UNCHANGED <<row, setQ, expiredQ, abortQ>> BY <1>3 DEF LatchClear
  <2>2. Overtakes(s)' => Overtakes(s) BY <1>3, OvertakesLatch
  <2> QED BY <1>1, <2>1, <2>2 DEF Safe, Held
<1>4. CASE TakeSet
  <2> DEFINE set == Head(setQ)
  <2>1. /\ setQ # <<>> /\ setQ' = Tail(setQ)
        /\ row' = [row EXCEPT ![set.session] = Armed(row[set.session], set.type)]
        /\ UNCHANGED <<update, waiting, clearQ, expiredQ, abortQ>>
    BY <1>4 DEF TakeSet
  <2>2. setQ \in Seq(SetType) /\ set \in SetType /\ setQ' # setQ
    BY <2>1, TypedRows, TailOf
  <2>3. set.type = "RT" /\ set.session \in Rows BY <2>2, TypedRows DEF SetType
  <2>4. Overtakes(s)' = Overtakes(s) BY <2>1 DEF Overtakes
  <2>5. CASE set.session = s
    <3>1. row'[s].active BY <1>0, <2>1, <2>3, <2>5, ArmedRow
    <3>2. Overtakes(s) => s \in overtaken' BY <1>0, <2>2, <2>5 DEF RetransmitTimerCycle
    <3>3. ~Overtakes(s) BY <3>2 DEF Watched
    <3> QED BY <2>4, <3>1, <3>3 DEF Safe, Held
  <2>6. CASE set.session # s
    <3>1. row'[s] = row[s] BY <1>0, <2>1, <2>6
    <3>2. About(setQ, s) => About(setQ', s) BY <2>1, <2>2, <2>6, AboutTail
    <3> QED BY <1>1, <2>1, <2>4, <3>1, <3>2 DEF Safe, Held
  <2> QED BY <2>5, <2>6
<1>5. CASE Scan
  <2> DEFINE r == row[position]
  <2>1. /\ ScanRow(position) /\ setQ = <<>>
        /\ UNCHANGED <<update, waiting, clearQ, setQ>> BY <1>5 DEF Scan
  <2>2. /\ r \in Row /\ position \in Rows /\ abortQ \in Seq(Given) /\ expiredQ \in Seq(Event)
        /\ (r.active => position \in Session /\ r.type = "RT") BY TypedRows
  <2>3. Overtakes(s)' = Overtakes(s) BY <2>1 DEF Overtakes
  <2>4. ASSUME row'[s] = row[s], UNCHANGED abortQ, SendsIn(expiredQ, s) => SendsIn(expiredQ', s)
        PROVE  Safe(s)'
    BY <1>1, <2>1, <2>3, <2>4 DEF Safe, Held
  <2>5. ASSUME Held(s)' PROVE Safe(s)' BY <2>1, <2>3, <2>5 DEF Safe
  <2>6. CASE UNCHANGED <<row, expiredQ, abortQ>> BY <2>4, <2>6
  <2>7. CASE /\ r.active /\ r.time > 0
             /\ row' = [row EXCEPT ![position].time = @ - 1] /\ UNCHANGED <<expiredQ, abortQ>>
    <3>1. CASE position = s
      <4>1. row' = [row EXCEPT ![s] = [row[s] EXCEPT !.time = @ - 1]] BY <1>0, <2>7, <3>1
      <4>2. row'[s].active BY <1>0, <2>2, <2>7, <3>1, <4>1, TickedRow
      <4> QED BY <2>5, <4>2 DEF Held
    <3>2. CASE position # s
      <4>1. row'[s] = row[s] BY <1>0, <2>7, <3>2
      <4> QED BY <2>4, <2>7, <4>1
    <3> QED BY <3>1, <3>2
  <2>8. CASE /\ r.active /\ ~GivesUp(r)
             /\ row' = [row EXCEPT ![position] = [Expire(position) EXCEPT !.retries = @ + 1]]
             /\ expiredQ' = Append(expiredQ, [type |-> r.type, session |-> position, count |-> r.retries + 1])
             /\ UNCHANGED abortQ
    <3> DEFINE e == [type |-> r.type, session |-> position, count |-> r.retries + 1]
    <3>1. e \in Event
      <4>1. r.retries \in 0 .. MaxRetries /\ ~(r.retries >= MaxRetries) BY <2>2, <2>8 DEF Row, GivesUp
      <4> DEFINE n == r.retries
      <4>2. n \in 0 .. MaxRetries /\ ~(n >= MaxRetries) /\ MaxRetries \in Nat /\ MaxRetries < 7
        BY <4>1, Constants
      <4> HIDE DEF n
      <4>3. n + 1 \in 0 .. 7 BY <4>2
      <4>4. r.retries + 1 \in 0 .. 7 BY <4>3 DEF n
      <4>5. position \in Sessions /\ r.type = "RT" BY <2>2, <2>8, Constants
      <4> QED BY <4>4, <4>5 DEF Event
    <3>2. e.session = position /\ e.type = "RT" BY <2>2, <2>8
    <3>3. expiredQ' = Append(expiredQ, e) BY <2>8
    <3> HIDE DEF e
    <3>4. SendsIn(expiredQ, s) => SendsIn(expiredQ', s) BY <2>2, <3>1, <3>3, SendsAppend
    <3>5. CASE position = s
      <4>1. Sends(e, s) BY <3>2, <3>5 DEF Sends
      <4>2. SendsIn(expiredQ', s) BY <2>2, <3>1, <3>3, <4>1, SendsAppend
      <4> QED BY <2>5, <4>2 DEF Held, Posted
    <3>6. CASE position # s
      <4>1. row'[s] = row[s] BY <1>0, <2>8, <3>6
      <4> QED BY <2>4, <2>8, <3>4, <4>1
    <3> QED BY <3>5, <3>6
  <2>9. CASE /\ r.active
             /\ row' = [row EXCEPT ![position] = [Expire(position) EXCEPT !.retries = 0]]
             /\ abortQ' = Append(abortQ, [session |-> position, opening |-> r.type = "SYN"])
             /\ UNCHANGED expiredQ
    <3> DEFINE g == [session |-> position, opening |-> r.type = "SYN"]
    <3>1. g \in Given /\ g.session = position BY <2>2, <2>9 DEF Given
    <3>2. abortQ' = Append(abortQ, g) BY <2>9
    <3> HIDE DEF g
    <3>3. CASE position = s
      <4>1. About(abortQ', s) BY <2>2, <3>1, <3>2, <3>3, AboutAppend
      <4> QED BY <2>5, <4>1 DEF Held
    <3>4. CASE position # s
      <4>1. row'[s] = row[s] BY <1>0, <2>9, <3>4
      <4>2. About(abortQ, s) => About(abortQ', s) BY <2>2, <3>1, <3>2, AboutAppend
      <4> QED BY <1>1, <2>1, <2>5, <2>9, <4>1, <4>2 DEF Safe, Held
    <3> QED BY <3>3, <3>4
  <2> QED BY <2>1, <2>6, <2>7, <2>8, <2>9 DEF ScanRow
<1> QED BY <1>2, <1>3, <1>4, <1>5 DEF RetransmitTimerCycle, TimerCycle

(* What a step that leaves the timer's rows alone owes.                    *)
LEMMA SafeUnlessMoved ==
    ASSUME NEW s, Safe(s), UNCHANGED <<row, setQ>>,
           About(abortQ, s) => About(abortQ', s), Posted(s) => Posted(s)',
           Overtakes(s)' => Overtakes(s)
    PROVE  Safe(s)'
BY DEF Safe, Held

LEMMA SafeMerge ==
    ASSUME Typed, MergeTimers, NEW s, Safe(s)
    PROVE  Safe(s)'
<1>1. expiredQ \in Seq(Event) /\ timerQ \in Seq(Event) BY TypedRows, TypedEvents
<1>2. /\ expiredQ # <<>> /\ expiredQ' = Tail(expiredQ) /\ timerQ' = Append(timerQ, Head(expiredQ))
      /\ UNCHANGED <<row, setQ, abortQ, rxQ, appQ, pipe, out, tx, update, waiting, clearQ>>
  BY DEF MergeTimers, PutTimer, loopVars
<1>3. SendsIn(expiredQ, s) => Sends(Head(expiredQ), s) \/ SendsIn(expiredQ', s)
  BY <1>1, <1>2, SendsTail
<1>4. Head(expiredQ) \in Event BY <1>1, <1>2, TailOf
<1>5. SendsIn(timerQ, s) \/ Sends(Head(expiredQ), s) => SendsIn(timerQ', s)
  BY <1>1, <1>2, <1>4, SendsAppend
<1>6. Posted(s) => Posted(s)' BY <1>2, <1>3, <1>5 DEF Posted
<1>7. Overtakes(s)' = Overtakes(s) BY <1>2 DEF Overtakes
<1> QED BY <1>2, <1>6, <1>7, SafeUnlessMoved

LEMMA SafeEngine ==
    ASSUME Typed, EventEngineCycle, NEW s, Safe(s)
    PROVE  Safe(s)'
<1>1. rxQ \in Seq(Event) /\ timerQ \in Seq(Event) /\ appQ \in Seq(Event) /\ pipe \in Seq(Event)
  BY TypedEvents
<1>2. UNCHANGED <<row, setQ, abortQ, expiredQ, out, tx, update, waiting, clearQ>>
  BY DEF EventEngineCycle, EventEngine, timerVars, loopVars
<1>3. ASSUME NEW q \in Seq(Event), q # <<>>, Forward(q)
      PROVE  /\ SendsIn(q, s) => SendsIn(Tail(q), s) \/ SendsIn(pipe', s)
             /\ SendsIn(pipe, s) => SendsIn(pipe', s)
  <2>1. Head(q) \in Event /\ pipe' = Append(pipe, Head(q)) BY <1>3, TailOf DEF Forward
  <2>2. SendsIn(pipe, s) \/ Sends(Head(q), s) => SendsIn(pipe', s) BY <1>1, <2>1, SendsAppend
  <2> QED BY <1>3, <2>2, SendsTail
<1>4. Posted(s) => Posted(s)'
  <2>1. CASE ForwardRx
    <3>1. rxQ # <<>> /\ Forward(rxQ) /\ rxQ' = Tail(rxQ) /\ UNCHANGED <<timerQ, appQ>>
      BY <2>1 DEF ForwardRx, FromRx
    <3> QED BY <1>1, <1>2, <1>3, <3>1 DEF Posted
  <2>2. CASE ForwardTimer
    <3>1. timerQ # <<>> /\ Forward(timerQ) /\ timerQ' = Tail(timerQ) /\ UNCHANGED <<rxQ, appQ>>
      BY <2>2 DEF ForwardTimer
    <3> QED BY <1>1, <1>2, <1>3, <3>1 DEF Posted
  <2>3. CASE ForwardApp
    <3>1. appQ # <<>> /\ Forward(appQ) /\ appQ' = Tail(appQ) /\ UNCHANGED <<rxQ, timerQ>>
      BY <2>3 DEF ForwardApp
    <3> QED BY <1>1, <1>2, <1>3, <3>1 DEF Posted
  <2>4. CASE ForwardNone BY <1>2, <2>4 DEF ForwardNone, Posted
  <2> QED BY <2>1, <2>2, <2>3, <2>4 DEF EventEngineCycle, EventEngine
<1>5. Overtakes(s)' = Overtakes(s) BY <1>2 DEF Overtakes
<1> QED BY <1>2, <1>4, <1>5, SafeUnlessMoved

LEMMA SafeAckDelay ==
    ASSUME Typed, AckDelayStep, NEW s, Safe(s)
    PROVE  Safe(s)'
<1>1. pipe \in Seq(Event) /\ out \in Seq(Event) BY TypedEvents
<1>2. UNCHANGED <<row, setQ, abortQ, expiredQ, tx, update, waiting, clearQ>>
  BY DEF AckDelayStep, timerVars, loopVars
<1>3. UNCHANGED <<rxQ, timerQ, appQ>> BY TypedAckDelay DEF AckDelayStep
<1>4. ASSUME NEW e \in Event, Emit(e)
      PROVE  SendsIn(out, s) \/ Sends(e, s) => SendsIn(out', s)
  BY <1>1, <1>4, SendsAppend DEF Emit
<1>5. ASSUME TakeInput
      PROVE  /\ Head(pipe) \in Event
             /\ SendsIn(pipe, s) => Sends(Head(pipe), s) \/ SendsIn(pipe', s)
  BY <1>1, <1>5, TailOf, SendsTail DEF TakeInput
<1>6. Posted(s) => Posted(s)'
  <2>1. CASE AckHold
    <3>1. ~Sends(Head(pipe), s) BY <2>1 DEF AckHold, HoldsBack, Sends
    <3>2. SendsIn(pipe, s) => SendsIn(pipe', s) BY <1>5, <2>1, <3>1 DEF AckHold
    <3>3. out' = out BY <2>1 DEF AckHold
    <3> QED BY <1>2, <1>3, <3>2, <3>3 DEF Posted
  <2>2. CASE AckPass
    <3>1. TakeInput /\ Emit(Head(pipe)) BY <2>2 DEF AckPass
    <3>2. SendsIn(pipe, s) \/ SendsIn(out, s) => SendsIn(pipe', s) \/ SendsIn(out', s)
      BY <1>4, <1>5, <3>1
    <3> QED BY <1>2, <1>3, <3>2 DEF Posted
  <2>3. CASE AckScan
    <3>1. [type |-> "ACK", session |-> pointer, count |-> 0] \in Event BY TypedEvents DEF Event
    <3>2. SendsIn(out, s) => SendsIn(out', s) BY <1>4, <2>3, <3>1 DEF AckScan
    <3>3. pipe' = pipe BY <2>3 DEF AckScan
    <3> QED BY <1>2, <1>3, <3>2, <3>3 DEF Posted
  <2> QED BY <2>1, <2>2, <2>3 DEF AckDelayStep, AckDelayCycle
<1>7. Overtakes(s)' = Overtakes(s) BY <1>2 DEF Overtakes
<1> QED BY <1>2, <1>6, <1>7, SafeUnlessMoved

LEMMA SafeTake ==
    ASSUME Typed, TxTake, NEW s, Safe(s)
    PROVE  Safe(s)'
<1>1. out \in Seq(Event) BY TypedEvents
<1>2. /\ tx = <<>> /\ out # <<>> /\ out' = Tail(out) /\ tx' = <<Head(out)>>
      /\ UNCHANGED <<row, setQ, abortQ, expiredQ, rxQ, timerQ, appQ, pipe, update, waiting, clearQ>>
  BY DEF TxTake, TakeEvent, timerVars
<1>3. SendsIn(out, s) => Sends(Head(out), s) \/ SendsIn(out', s) BY <1>1, <1>2, SendsTail
<1>4. Sends(Head(out), s) => SendsIn(tx', s) BY <1>2 DEF SendsIn
<1>5. ~SendsIn(tx, s) BY <1>2 DEF SendsIn
<1>6. Posted(s) => Posted(s)' BY <1>2, <1>3, <1>4, <1>5 DEF Posted
<1>7. Overtakes(s)' = Overtakes(s) BY <1>2 DEF Overtakes
<1> QED BY <1>2, <1>6, <1>7, SafeUnlessMoved

(* The session that sends is safe whatever was so before.                  *)
LEMMA SafeSend ==
    ASSUME Typed, TxSend, NEW s, s \in Watched => Safe(s), s \in Watched'
    PROVE  Safe(s)'
<1>1. /\ tx # <<>> /\ setQ' = Append(setQ, [session |-> tx[1].session, type |-> "RT"])
      /\ unacked' = unacked \union {tx[1].session}
      /\ UNCHANGED <<row, abortQ, expiredQ, rxQ, timerQ, appQ, pipe, out, update, waiting, clearQ, overtaken>>
  BY DEF TxSend, PutSet, eventVars
<1>2. tx \in Seq(Event) /\ Len(tx) <= 1 /\ setQ \in Seq(SetType)
  BY TypedRows DEF Typed, TypeOK
<1> DEFINE e == [session |-> tx[1].session, type |-> "RT"]
<1>3. tx[1] \in Event BY <1>1, <1>2, TailOf
<1>4. e \in SetType /\ e.session = tx[1].session BY <1>3, Constants DEF Event, SetType
<1>5. setQ' = Append(setQ, e) BY <1>1
<1> HIDE DEF e
<1>6. CASE tx[1].session = s
  <2>1. About(setQ', s) BY <1>2, <1>4, <1>5, <1>6, AboutAppend
  <2> QED BY <2>1 DEF Safe, Held
<1>7. CASE tx[1].session # s
  <2>1. Safe(s) BY <1>1, <1>7 DEF Watched
  <2>2. ~SendsIn(tx, s) BY <1>1, <1>2, <1>7, SendsOne DEF Sends
  <2>3. About(setQ, s) => About(setQ', s) BY <1>2, <1>4, <1>5, AboutAppend
  <2>4. Posted(s) => Posted(s)' BY <1>1, <2>2 DEF Posted
  <2>5. Overtakes(s)' = Overtakes(s) BY <1>1 DEF Overtakes
  <2> QED BY <1>1, <2>1, <2>3, <2>4, <2>5 DEF Safe, Held
<1> QED BY <1>6, <1>7

LEMMA SafeOther ==
    ASSUME Typed, TxOther, NEW s \in Watched, Safe(s)
    PROVE  Safe(s)'
<1>1. /\ tx # <<>> /\ ~Transmits(tx[1])
      /\ UNCHANGED <<row, setQ, abortQ, expiredQ, rxQ, timerQ, appQ, pipe, out, update, waiting, clearQ>>
  BY DEF TxOther, timerVars, eventVars
<1>2. tx \in Seq(Event) /\ Len(tx) <= 1 BY DEF Typed, TypeOK
<1>3. ~Sends(tx[1], s) BY <1>1 DEF Transmits, Sends, Watched
<1>4. ~SendsIn(tx, s) BY <1>1, <1>2, <1>3, SendsOne
<1>5. Posted(s) => Posted(s)' BY <1>1, <1>4 DEF Posted
<1>6. Overtakes(s)' = Overtakes(s) BY <1>1 DEF Overtakes
<1> QED BY <1>1, <1>5, <1>6, SafeUnlessMoved

LEMMA SafeAborted ==
    ASSUME Typed, CloseAborted, NEW s, Safe(s), s \in Watched'
    PROVE  Safe(s)'
<1>1. /\ abortQ # <<>> /\ abortQ' = Tail(abortQ) /\ unacked' = unacked \ {Head(abortQ).session}
      /\ UNCHANGED <<row, setQ, expiredQ, tx, update, waiting, clearQ, rxQ, timerQ, appQ, pipe, out>>
  BY DEF CloseAborted, eventVars
<1>2. Head(abortQ).session # s BY <1>1 DEF Watched
<1>3. About(abortQ, s) => About(abortQ', s) BY <1>1, <1>2, TypedRows, AboutTail
<1>4. Posted(s) => Posted(s)' BY <1>1 DEF Posted
<1>5. Overtakes(s)' = Overtakes(s) BY <1>1 DEF Overtakes
<1> QED BY <1>1, <1>3, <1>4, <1>5, SafeUnlessMoved

LEMMA SafeAck ==
    ASSUME Typed, NEW x \in Sessions, NEW all \in BOOLEAN, RxAck(x, all), NEW s, Safe(s), s \in Watched'
    PROVE  Safe(s)'
<1>1. /\ PutClear(x, all) /\ unacked' = IF all THEN unacked \ {x} ELSE unacked
      /\ UNCHANGED <<row, setQ, abortQ, expiredQ, tx, update, waiting, rxQ, timerQ, appQ, pipe, out>>
  BY DEF RxAck, eventVars
<1>2. x # s \/ ~all BY <1>1 DEF Watched
<1>3. Overtakes(s)' => Overtakes(s) BY <1>1, <1>2, Constants, OvertakesPut
<1>4. Posted(s) => Posted(s)' BY <1>1 DEF Posted
<1> QED BY <1>1, <1>3, <1>4, SafeUnlessMoved

(* The edge only adds events.                                              *)
LEMMA SafePut ==
    ASSUME Typed, NEW e \in Event, UNCHANGED <<timerVars, timerQ, pipe, out, tx>>,
           \/ rxQ' = Append(rxQ, e) /\ appQ' = appQ
           \/ appQ' = Append(appQ, e) /\ rxQ' = rxQ,
           NEW s, Safe(s)
    PROVE  Safe(s)'
<1>1. UNCHANGED <<row, setQ, abortQ, expiredQ, update, waiting, clearQ>> BY DEF timerVars
<1>2. (SendsIn(rxQ, s) => SendsIn(rxQ', s)) /\ (SendsIn(appQ, s) => SendsIn(appQ', s))
  BY TypedEvents, SendsAppend
<1>3. Posted(s) => Posted(s)' BY <1>1, <1>2 DEF Posted
<1>4. Overtakes(s)' = Overtakes(s) BY <1>1 DEF Overtakes
<1> QED BY <1>1, <1>3, <1>4, SafeUnlessMoved

LEMMA SafeStep ==
    ASSUME Typed, \A s \in Watched : Safe(s), [Next]_vars, NEW s \in Watched'
    PROVE  Safe(s)'
<1>1. CASE TxSend BY <1>1, SafeSend
<1>2. ASSUME unacked' \subseteq unacked, overtaken \subseteq overtaken'
      PROVE  s \in Watched /\ Safe(s)
  BY <1>2 DEF Watched
<1>3. CASE RetransmitTimerCycle BY <1>2, <1>3, SafeTimer DEF RetransmitTimerCycle
<1>4. CASE MergeTimers BY <1>2, <1>4, SafeMerge DEF MergeTimers, loopVars
<1>5. CASE EventEngineCycle BY <1>2, <1>5, SafeEngine DEF EventEngineCycle, loopVars
<1>6. CASE AckDelayStep BY <1>2, <1>6, SafeAckDelay DEF AckDelayStep, loopVars
<1>7. CASE TxTake BY <1>2, <1>7, SafeTake DEF TxTake
<1>8. CASE TxOther BY <1>2, <1>8, SafeOther DEF TxOther
<1>9. CASE CloseAborted BY <1>2, <1>9, SafeAborted DEF CloseAborted
<1>10. ASSUME NEW x \in Sessions, AppWrites(x) PROVE Safe(s)'
  <2>1. [type |-> "TX", session |-> x, count |-> 0] \in Event BY DEF Event
  <2> QED BY <1>2, <1>10, <2>1, SafePut DEF AppWrites, PutApp
<1>11. ASSUME NEW x \in Sessions, RxData(x) PROVE Safe(s)'
  <2>1. [type |-> "ACK", session |-> x, count |-> 0] \in Event BY DEF Event
  <2> QED BY <1>2, <1>11, <2>1, SafePut DEF RxData, PutRx
<1>12. ASSUME NEW x \in Sessions, RxFastRetransmit(x) PROVE Safe(s)'
  <2>1. [type |-> "RT", session |-> x, count |-> 0] \in Event BY DEF Event
  <2> QED BY <1>2, <1>12, <2>1, SafePut DEF RxFastRetransmit, PutRx
<1>13. CASE RxStray
  <2>1. StrayRst \in Event BY Constants DEF StrayRst, Event
  <2> QED BY <1>2, <1>13, <2>1, SafePut DEF RxStray, PutRx
<1>14. ASSUME NEW x \in Sessions, NEW all \in BOOLEAN, RxAck(x, all) PROVE Safe(s)'
  BY <1>2, <1>14, SafeAck DEF RxAck
<1>15. CASE UNCHANGED vars
  <2>1. UNCHANGED <<timerVars, eventVars, tx, unacked, overtaken>> BY <1>15 DEF vars, loopVars
  <2> QED BY <1>2, <2>1 DEF Safe, Held, Overtakes, Posted, timerVars, eventVars
<1> QED BY <1>1, <1>3, <1>4, <1>5, <1>6, <1>7, <1>8, <1>9, <1>10, <1>11, <1>12, <1>13, <1>14, <1>15
        DEF Next, Toe, Edge

(* Data that is sent and not acknowledged is never forgotten, whatever the *)
(* order in which the rx engine clears, the tx engine sets and the scan    *)
(* passes, but for the sessions whose set a pending older clear undoes     *)
(* (retransmit_timer.cpp:80).  That the pending clears are older than what *)
(* they would undo is the strengthening.                                   *)
THEOREM NothingIsForgotten == Spec => []UnackedIsTimed
<1> DEFINE AllSafe == \A s \in Watched : Safe(s)
<1>1. Init => Typed /\ AllSafe BY TypedInit, SafeInit
<1>2. Typed /\ AllSafe /\ [Next]_vars => (Typed /\ AllSafe)'
  <2>1. Typed /\ AllSafe /\ [Next]_vars => AllSafe' BY SafeStep
  <2> QED BY <2>1, TypedStep
<1>3. AllSafe => UnackedIsTimed BY DEF UnackedIsTimed, Watched, Safe, Held
<1> QED BY <1>1, <1>2, <1>3, PTL DEF Spec

-----------------------------------------------------------------------------
(* The close timer and the probe timer                                     *)

Scans == 0 .. ScanSessions - 1
ScanEntry == [active : BOOLEAN, time : 0 .. ScanTime]

\* A register for an identifier.
Wide == 0 .. CloseT!IdSpace - 1

LEMMA ScanConstants ==
    /\ ScanSessions \in Nat \ {0} /\ ScanTime \in Nat
    /\ 0 \in Scans /\ Scans \subseteq Wide
    /\ \A s \in Scans : (IF s + 1 = ScanSessions THEN 0 ELSE s + 1) \in Scans
    /\ CloseT!IdSpace \in Nat /\ ProbeT!IdSpace = CloseT!IdSpace
    /\ \A n \in Wide : (n - 1) % CloseT!IdSpace \in Wide
<1>1. PICK k \in Nat : k > 0 /\ ScanSessions <= k /\ k = CloseT!IdSpace
  BY ScanAssumption DEF CloseT!IdSpace
<1>2. ProbeT!IdSpace = CloseT!IdSpace BY DEF CloseT!IdSpace, ProbeT!IdSpace
<1>3. ScanSessions \in Nat \ {0} /\ ScanTime \in Nat BY ScanAssumption
<1> HIDE DEF CloseT!IdSpace
<1>4. Wide = 0 .. k - 1 BY <1>1 DEF Wide
<1>5. \A n \in 0 .. k - 1 : (n - 1) % k \in 0 .. k - 1 BY <1>1
<1> QED BY <1>1, <1>2, <1>3, <1>4, <1>5 DEF Scans

LEMMA ScanEntries ==
    /\ [active |-> FALSE, time |-> 0] \in ScanEntry /\ [active |-> TRUE, time |-> ScanTime] \in ScanEntry
    /\ \A e \in ScanEntry : e.time > 0 => [e EXCEPT !.time = @ - 1] \in ScanEntry
BY ScanConstants DEF ScanEntry

\* What the close timer holds, and what is in its FIFO.
CloseTyped ==
    /\ cEntry \in [Scans -> ScanEntry] /\ cCurr \in Scans /\ cSet \in Scans /\ cPrev \in Wide
    /\ cWaiting \in BOOLEAN /\ cSetQ \in Seq(Scans) /\ closedQ \in Seq(Scans)

LEMMA CloseTypedInit == CloseT!Init => CloseTyped
<1> SUFFICES ASSUME CloseT!Init PROVE CloseTyped OBVIOUS
<1>1. CloseT!Session = Scans BY DEF CloseT!Session, Scans
<1>2. cEntry \in [Scans -> ScanEntry] BY <1>1, ScanEntries DEF CloseT!Init
<1>3. cWaiting \in BOOLEAN BY DEF CloseT!Init
<1>5. cSetQ \in Seq(Scans) /\ closedQ \in Seq(Scans) BY DEF CloseT!Init
<1>4. cCurr \in Scans /\ cSet \in Scans /\ cPrev \in Wide BY ScanConstants DEF CloseT!Init
<1> QED BY <1>2, <1>3, <1>4, <1>5 DEF CloseTyped

LEMMA CloseTypedStep ==
    ASSUME CloseTyped, [CloseT!Next]_closeVars
    PROVE  CloseTyped'
<1> USE DEF CloseTyped
<1>1. CloseTyped OBVIOUS
<1>3. CASE CloseT!WriteSet
  <2>1. cPrev' \in Wide BY <1>1, <1>3, ScanConstants DEF CloseT!WriteSet, CloseT!Before
  <2>2. cEntry' \in [Scans -> ScanEntry] BY <1>1, <1>3, ScanEntries DEF CloseT!WriteSet, CloseT!Restart
  <2> QED BY <2>1, <2>2, <1>1, <1>3 DEF CloseT!WriteSet
<1>4. CASE CloseT!LatchSet
  <2>1. Head(cSetQ) \in Scans /\ Tail(cSetQ) \in Seq(Scans) BY <1>1, <1>4, TailOf DEF CloseT!LatchSet
  <2> QED BY <2>1, <1>1, <1>4 DEF CloseT!LatchSet
<1>5. CASE CloseT!Scan
  <2>1. cEntry' \in [Scans -> ScanEntry]
    <3>1. cEntry[cCurr] \in ScanEntry BY <1>1
    <3>2. CASE CloseT!Tick
      <4>1. [cEntry[cCurr] EXCEPT !.time = @ - 1] \in ScanEntry BY <3>1, <3>2, ScanEntries DEF CloseT!Tick
      <4> QED BY <4>1, <3>2, <1>1 DEF CloseT!Tick
    <3>3. CASE CloseT!Expire BY <3>3, <1>1, ScanEntries DEF CloseT!Expire
    <3> QED BY <3>2, <3>3, <1>1, <1>5 DEF CloseT!Scan
  <2>2. cCurr' \in Scans BY <1>1, <1>5, ScanConstants DEF CloseT!Scan, CloseT!Advance
  <2>3. cPrev' \in Wide BY <1>1, <1>5, ScanConstants DEF CloseT!Scan
  <2>4. closedQ' \in Seq(Scans)
    <3>1. closedQ' = closedQ \/ closedQ' = Append(closedQ, cCurr)
      BY <1>5 DEF CloseT!Scan, CloseT!Tick, CloseT!Expire
    <3> QED BY <3>1, <1>1
  <2> QED BY <2>1, <2>2, <2>3, <2>4, <1>1, <1>5 DEF CloseT!Scan
<1>6. ASSUME NEW s \in Scans, CloseT!Put(s)
      PROVE  UNCHANGED <<cEntry, cCurr, cSet, cPrev, cWaiting, closedQ>> /\ cSetQ' \in Seq(Scans)
  BY <1>1, <1>6 DEF CloseT!Put
<1>7. CASE UNCHANGED <<cEntry, cCurr, cSet, cPrev, cWaiting, cSetQ, closedQ>> BY <1>1, <1>7
<1>8. CASE CloseT!Merge
  <2>1. closedQ' \in Seq(Scans)
    <3>1. closedQ' = closedQ \/ (closedQ # <<>> /\ closedQ' = Tail(closedQ)) BY <1>8 DEF CloseT!Merge
    <3> QED BY <3>1, <1>1, TailOf
  <2>2. UNCHANGED <<cEntry, cCurr, cSet, cPrev, cWaiting, cSetQ>> BY <1>8 DEF CloseT!Merge
  <2> QED BY <2>1, <2>2, <1>1
<1>9. CASE CloseT!TakeRelease BY <1>7, <1>9 DEF CloseT!TakeRelease
<1>10. CASE \E s \in Scans : CloseT!Abort(s) BY <1>7, <1>10 DEF CloseT!Abort
<1>11. CASE UNCHANGED closeVars BY <1>7, <1>11 DEF closeVars
<1> QED BY <1>1, <1>3, <1>4, <1>5, <1>6, <1>8, <1>9, <1>10, <1>11
        DEF CloseT!Next, CloseT!CloseTimerCycle, CloseT!Session, Scans

\* A timer that runs was put in, and its scans so far and those to come are CloseTime.
CloseInv ==
    /\ CloseTyped
    /\ since \in [Scans -> Int]
    /\ \A s \in Scans : since[s] >= -1
    /\ \A s \in Scans : cEntry[s].active => since[s] >= 0 /\ since[s] + cEntry[s].time >= ScanTime

LEMMA CloseInit == CloseT!Init => CloseInv
BY CloseTypedInit DEF CloseInv, CloseT!Init, CloseT!Session, Scans

LEMMA CloseStep ==
    ASSUME CloseInv, [CloseT!Next]_closeVars
    PROVE  CloseInv'
<1>1. CloseTyped' BY CloseTypedStep DEF CloseInv
<1>2. /\ cEntry \in [Scans -> ScanEntry] /\ cCurr \in Scans /\ cSet \in Scans /\ cSetQ \in Seq(Scans)
      /\ since \in [Scans -> Int] /\ ScanTime \in Nat
      /\ \A s \in Scans : cEntry[s].active \in BOOLEAN /\ cEntry[s].time \in Nat /\ since[s] \in Int
  BY ScanConstants DEF CloseInv, CloseTyped, ScanEntry
<1> DEFINE Rest == /\ since \in [Scans -> Int]
                   /\ \A s \in Scans : since[s] >= -1
                   /\ \A s \in Scans : cEntry[s].active => since[s] >= 0 /\ since[s] + cEntry[s].time >= ScanTime
<1>3. Rest BY DEF CloseInv
<1>4. SUFFICES Rest' BY <1>1 DEF CloseInv
<1>5. ASSUME NEW s \in Scans, since' = CloseT!Started(s)
      PROVE  /\ since' \in [Scans -> Int] /\ since'[s] >= 0
             /\ \A t \in Scans : since'[t] >= since[t]
  BY <1>2, <1>5 DEF CloseT!Started
<1>6. CASE CloseT!WriteSet
  <2>1. CASE UNCHANGED <<cEntry, since>> BY <2>1, <1>3
  <2>2. CASE cEntry' = [cEntry EXCEPT ![cSet] = CloseT!Restart] /\ since' = CloseT!Started(cSet)
    <3>1. ASSUME NEW s \in Scans PROVE cEntry'[s] = cEntry[s] \/ (s = cSet /\ cEntry'[s].time = ScanTime)
      BY <2>2, <1>2 DEF CloseT!Restart
    <3>2. \A t \in Scans : since'[t] \in Int /\ since'[t] >= since[t] BY <2>2, <1>2, <1>5
    <3>3. since' \in [Scans -> Int] /\ since'[cSet] >= 0 BY <2>2, <1>2, <1>5
    <3>4. ASSUME NEW s \in Scans, cEntry'[s].active PROVE since'[s] >= 0 /\ since'[s] + cEntry'[s].time >= ScanTime
      <4>1. CASE cEntry'[s] = cEntry[s]
        <5>1. cEntry[s].active /\ cEntry'[s].time = cEntry[s].time BY <4>1, <3>4
        <5>2. since[s] >= 0 /\ since[s] + cEntry[s].time >= ScanTime BY <5>1, <1>3
        <5>3. since'[s] \in Int /\ since[s] \in Int /\ cEntry[s].time \in Nat /\ since'[s] >= since[s] BY <3>2, <1>2
        <5> QED BY <5>1, <5>2, <5>3, <1>2
      <4>2. CASE s = cSet /\ cEntry'[s].time = ScanTime BY <4>2, <3>2, <3>3, <1>2
      <4> QED BY <3>1, <4>1, <4>2
    <3>5. \A s \in Scans : since'[s] >= -1 BY <3>2, <1>2, <1>3
    <3> QED BY <3>3, <3>4, <3>5
  <2> QED BY <2>1, <2>2, <1>6 DEF CloseT!WriteSet
<1>7. CASE CloseT!Scan
  <2>1. since' = [since EXCEPT ![cCurr] = IF CloseT!Expires \/ since[cCurr] < 0 THEN -1 ELSE since[cCurr] + 1]
    BY <1>7 DEF CloseT!Scan
  <2>2. /\ since' \in [Scans -> Int] /\ \A s \in Scans : s # cCurr => since'[s] = since[s]
        /\ since'[cCurr] = IF CloseT!Expires \/ since[cCurr] < 0 THEN -1 ELSE since[cCurr] + 1
    BY <2>1, <1>2
  <2>3. \A s \in Scans : since'[s] >= -1 BY <2>2, <1>2, <1>3
  <2>4. ASSUME NEW s \in Scans, cEntry'[s].active PROVE since'[s] >= 0 /\ since'[s] + cEntry'[s].time >= ScanTime
    <3>1. CASE s # cCurr
      <4>1. cEntry'[s] = cEntry[s] BY <3>1, <1>2, <1>7 DEF CloseT!Scan, CloseT!Tick, CloseT!Expire
      <4> QED BY <4>1, <3>1, <2>2, <2>4, <1>2, <1>3
    <3>2. CASE s = cCurr
      <4>1. CASE CloseT!Tick
        <5>1. cEntry[s].active /\ cEntry[s].time > 0 /\ cEntry'[s].time = cEntry[s].time - 1
          BY <4>1, <3>2, <1>2 DEF CloseT!Tick, ScanEntry
        <5>2. ~CloseT!Expires BY <5>1, <3>2 DEF CloseT!Expires
        <5>3. since[s] >= 0 /\ since[s] + cEntry[s].time >= ScanTime BY <5>1, <1>3
        <5>4. since'[s] = since[s] + 1 BY <5>2, <5>3, <3>2, <2>2, <1>2
        <5> QED BY <5>1, <5>3, <5>4, <1>2
      <4>2. CASE CloseT!Expire BY <4>2, <3>2, <2>4, <1>2 DEF CloseT!Expire
      <4>3. CASE ~cEntry[cCurr].active /\ UNCHANGED cEntry BY <4>3, <3>2, <2>4
      <4> QED BY <4>1, <4>2, <4>3, <1>7 DEF CloseT!Scan
    <3> QED BY <3>1, <3>2
  <2> QED BY <2>2, <2>3, <2>4
<1>8. ASSUME NEW s \in Scans, CloseT!Put(s) PROVE Rest'
  <2>1. since' = CloseT!Started(s) /\ cEntry' = cEntry BY <1>8 DEF CloseT!Put
  <2>2. since' \in [Scans -> Int] /\ \A t \in Scans : since'[t] \in Int /\ since'[t] >= since[t] BY <2>1, <1>5
  <2>3. ASSUME NEW t \in Scans, cEntry'[t].active PROVE since'[t] >= 0 /\ since'[t] + cEntry'[t].time >= ScanTime
    <3>1. cEntry'[t].time = cEntry[t].time BY <2>1
    <3>2. since[t] >= 0 /\ since[t] + cEntry[t].time >= ScanTime BY <2>1, <2>3, <1>3
    <3>3. since'[t] \in Int /\ since[t] \in Int /\ cEntry[t].time \in Nat /\ since'[t] >= since[t] BY <2>2, <1>2
    <3>4. PICK a \in Int, b \in Int, c \in Nat : a = since[t] /\ b = since'[t] /\ c = cEntry[t].time BY <3>3
    <3>5. a >= 0 /\ a + c >= ScanTime /\ b >= a /\ ScanTime \in Nat BY <3>2, <3>3, <3>4, <1>2
    <3>6. b >= 0 /\ b + c >= ScanTime BY <3>5
    <3> QED BY <3>1, <3>4, <3>6
  <2>4. \A t \in Scans : since'[t] >= -1 BY <2>2, <1>2, <1>3
  <2> QED BY <2>2, <2>3, <2>4
<1>9. CASE UNCHANGED <<cEntry, since>> BY <1>3, <1>9
<1>10. CASE CloseT!LatchSet BY <1>9, <1>10 DEF CloseT!LatchSet
<1>11. CASE CloseT!Merge BY <1>9, <1>11 DEF CloseT!Merge
<1>12. CASE CloseT!TakeRelease BY <1>9, <1>12 DEF CloseT!TakeRelease
<1>13. CASE \E s \in Scans : CloseT!Abort(s) BY <1>9, <1>13 DEF CloseT!Abort
<1>14. CASE UNCHANGED closeVars BY <1>9, <1>14 DEF closeVars
<1> HIDE DEF Rest
<1> QED BY <1>6, <1>7, <1>8, <1>10, <1>11, <1>12, <1>13, <1>14
        DEF CloseT!Next, CloseT!CloseTimerCycle, CloseT!Session, Scans

\* What comes out of the timer has waited its time.
LEMMA CloseWaits ==
    ASSUME CloseInv, [CloseT!Next]_closeVars, NEW s \in Scans, closedQ' = Append(closedQ, s)
    PROVE  since[s] >= ScanTime
<1>1. closedQ \in Seq(Scans) /\ Len(closedQ) \in Nat BY DEF CloseInv, CloseTyped
<1>2. Len(closedQ') = Len(closedQ) + 1 /\ closedQ'[Len(closedQ) + 1] = s BY <1>1
<1>3. closedQ' # closedQ BY <1>1, <1>2
<1>4. CASE CloseT!Scan
  <2>1. CloseT!Expire BY <1>3, <1>4 DEF CloseT!Scan, CloseT!Tick
  <2>2. cCurr \in Scans /\ cEntry[cCurr].active /\ cEntry[cCurr].time = 0 /\ closedQ' = Append(closedQ, cCurr)
    BY <2>1 DEF CloseT!Expire, CloseT!Expires, CloseInv, CloseTyped
  <2>3. closedQ'[Len(closedQ) + 1] = cCurr BY <2>2, <1>1
  <2>4. s = cCurr BY <2>3, <1>2
  <2>5. since[s] + 0 >= ScanTime /\ since[s] \in Int BY <2>2, <2>4 DEF CloseInv
  <2> QED BY <2>5, ScanConstants
<1>5. CASE CloseT!Merge
  <2>1. closedQ # <<>> /\ closedQ' = Tail(closedQ) BY <1>3, <1>5 DEF CloseT!Merge
  <2>2. Len(closedQ') = Len(closedQ) - 1 BY <2>1, <1>1, TailOf
  <2> QED BY <2>2, <1>1, <1>2
<1>6. CASE CloseT!WriteSet BY <1>3, <1>6 DEF CloseT!WriteSet
<1>7. CASE CloseT!LatchSet BY <1>3, <1>7 DEF CloseT!LatchSet
<1>8. CASE CloseT!TakeRelease BY <1>3, <1>8 DEF CloseT!TakeRelease
<1>9. CASE \E x \in Scans : CloseT!Put(x) \/ CloseT!Abort(x) BY <1>3, <1>9 DEF CloseT!Put, CloseT!Abort
<1>10. CASE UNCHANGED closeVars BY <1>3, <1>10 DEF closeVars
<1> QED BY <1>4, <1>5, <1>6, <1>7, <1>8, <1>9, <1>10
        DEF CloseT!Next, CloseT!CloseTimerCycle, CloseT!Session, Scans

\* What the probe timer holds, and what is in its FIFOs.
ProbeTyped ==
    /\ pEntry \in [Scans -> ScanEntry] /\ pCurr \in Scans /\ pSet \in Scans /\ pPrev \in Wide
    /\ pWaiting \in BOOLEAN /\ pSetQ \in Seq(Scans) /\ pClearQ \in Seq(Scans)

LEMMA ProbeTypedInit == ProbeT!Init => ProbeTyped
<1> SUFFICES ASSUME ProbeT!Init PROVE ProbeTyped OBVIOUS
<1>1. ProbeT!Session = Scans BY DEF ProbeT!Session, Scans
<1>2. pEntry \in [Scans -> ScanEntry] BY <1>1, ScanEntries DEF ProbeT!Init
<1>3. pWaiting \in BOOLEAN BY DEF ProbeT!Init
<1>4. pSetQ \in Seq(Scans) /\ pClearQ \in Seq(Scans) BY DEF ProbeT!Init
<1>5. pCurr \in Scans /\ pSet \in Scans /\ pPrev \in Wide BY ScanConstants DEF ProbeT!Init
<1> QED BY <1>2, <1>3, <1>4, <1>5 DEF ProbeTyped

\* A row that is looked at: it stops only together with its event.
LEMMA ChecksRow ==
    ASSUME ProbeTyped, NEW s \in Scans, NEW fast \in BOOLEAN, ProbeT!Check(s, fast)
    PROVE  /\ pEntry' \in [Scans -> ScanEntry]
           /\ \A x \in Scans : x \in wanted' => x \in wanted /\ (pEntry[x].active => pEntry'[x].active)
<1>1. pEntry \in [Scans -> ScanEntry] /\ pEntry[s] \in ScanEntry BY DEF ProbeTyped
<1>2. CASE UNCHANGED <<pEntry, wanted>> BY <1>1, <1>2
<1>3. CASE /\ pEntry' = [pEntry EXCEPT ![s] = [active |-> FALSE, time |-> 0]]
           /\ wanted' = wanted \ {s}
  BY <1>1, <1>3, ScanEntries
<1>4. CASE /\ pEntry[s].active /\ pEntry[s].time > 0
           /\ pEntry' = [pEntry EXCEPT ![s].time = @ - 1] /\ UNCHANGED wanted
  <2>1. [pEntry[s] EXCEPT !.time = @ - 1] \in ScanEntry BY <1>1, <1>4, ScanEntries
  <2>2. [pEntry[s] EXCEPT !.time = @ - 1].active = pEntry[s].active BY <1>1 DEF ScanEntry
  <2>3. pEntry' = [pEntry EXCEPT ![s] = [pEntry[s] EXCEPT !.time = @ - 1]] BY <1>4
  <2> QED BY <2>1, <2>2, <2>3, <1>1, <1>4
<1> QED BY <1>2, <1>3, <1>4 DEF ProbeT!Check

ProbeInv == ProbeTyped /\ wanted \subseteq Scans /\ ProbeT!ProbeIsTimed

Waits(x) == pWaiting /\ pSet = x
Queued(q, x) == \E i \in DOMAIN q : q[i] = x

LEMMA ProbeStep ==
    ASSUME ProbeInv, [ProbeT!Next]_probeVars
    PROVE  ProbeInv'
<1>1. /\ pEntry \in [Scans -> ScanEntry] /\ pCurr \in Scans /\ pSet \in Scans /\ pPrev \in Wide
      /\ pWaiting \in BOOLEAN /\ pSetQ \in Seq(Scans) /\ pClearQ \in Seq(Scans)
      /\ wanted \subseteq Scans /\ ProbeTyped
  BY DEF ProbeInv, ProbeTyped
<1>2. \A x \in wanted : pEntry[x].active \/ Waits(x) \/ Queued(pSetQ, x)
  BY DEF ProbeInv, ProbeT!ProbeIsTimed, Waits, Queued
<1>3. SUFFICES /\ ProbeTyped' /\ wanted' \subseteq Scans
               /\ \A x \in wanted' : pEntry'[x].active \/ Waits(x)' \/ Queued(pSetQ', x)
  BY DEF ProbeInv, ProbeT!ProbeIsTimed, Waits, Queued
<1>4. CASE ProbeT!WriteSet
  <2>1. pPrev' \in Wide BY <1>1, <1>4, ScanConstants DEF ProbeT!WriteSet, ProbeT!Before
  <2>2. CASE UNCHANGED <<pEntry, pWaiting>> BY <2>1, <2>2, <1>1, <1>2, <1>4 DEF ProbeT!WriteSet, ProbeTyped, Waits
  <2>3. CASE pEntry' = [pEntry EXCEPT ![pSet] = ProbeT!Restart] /\ pWaiting' = FALSE
    <3>1. pEntry' \in [Scans -> ScanEntry] /\ pEntry'[pSet].active
      BY <2>3, <1>1, ScanEntries DEF ProbeT!Restart
    <3>2. \A x \in Scans : x # pSet => pEntry'[x] = pEntry[x] BY <2>3, <1>1
    <3>3. \A x \in Scans : pEntry[x].active \/ Waits(x) => pEntry'[x].active BY <3>1, <3>2 DEF Waits
    <3>4. UNCHANGED <<pCurr, pSet, pSetQ, pClearQ, wanted>> BY <1>4 DEF ProbeT!WriteSet
    <3>5. pWaiting' \in BOOLEAN BY <2>3
    <3>6. ProbeTyped' BY <2>1, <3>1, <3>4, <3>5, <1>1 DEF ProbeTyped
    <3> QED BY <3>3, <3>4, <3>6, <1>1, <1>2
  <2> QED BY <2>2, <2>3, <1>4 DEF ProbeT!WriteSet
<1>5. CASE ProbeT!LatchSet
  <2>1. /\ ~pWaiting /\ pSetQ # <<>> /\ pSet' = Head(pSetQ) /\ pSetQ' = Tail(pSetQ) /\ pWaiting' = TRUE
        /\ UNCHANGED <<pEntry, pCurr, pPrev, pClearQ, wanted>>
    BY <1>5 DEF ProbeT!LatchSet, ProbeT!Latches
  <2>2. /\ Head(pSetQ) \in Scans /\ Tail(pSetQ) \in Seq(Scans)
        /\ \A x : Queued(pSetQ, x) => x = Head(pSetQ) \/ Queued(Tail(pSetQ), x)
    BY <2>1, <1>1, TailOf DEF Queued
  <2>3. pWaiting' \in BOOLEAN BY <2>1
  <2>4. ProbeTyped' BY <2>1, <2>2, <2>3, <1>1 DEF ProbeTyped
  <2>5. \A x \in wanted' : pEntry'[x].active \/ Waits(x)' \/ Queued(pSetQ', x) BY <2>1, <2>2, <1>2 DEF Waits
  <2> QED BY <2>1, <2>4, <2>5, <1>1
<1>6. ASSUME NEW s \in Scans, NEW fast \in BOOLEAN, ProbeT!Check(s, fast), UNCHANGED <<pSet, pWaiting, pSetQ>>,
             pCurr' \in Scans, pPrev' \in Wide, pClearQ' \in Seq(Scans)
      PROVE  /\ ProbeTyped' /\ wanted' \subseteq Scans
             /\ \A x \in wanted' : pEntry'[x].active \/ Waits(x)' \/ Queued(pSetQ', x)
  <2>1. /\ pEntry' \in [Scans -> ScanEntry]
        /\ \A x \in Scans : x \in wanted' => x \in wanted /\ (pEntry[x].active => pEntry'[x].active)
    BY <1>1, <1>6, ChecksRow
  <2>2. wanted' \subseteq wanted BY <1>6 DEF ProbeT!Check
  <2>3. ProbeTyped' BY <2>1, <1>1, <1>6 DEF ProbeTyped
  <2>4. \A x : Waits(x)' = Waits(x) BY <1>6 DEF Waits
  <2> QED BY <2>1, <2>2, <2>3, <2>4, <1>1, <1>2, <1>6
<1>7. CASE ProbeT!Resume
  <2>1. Head(pClearQ) \in Scans /\ Tail(pClearQ) \in Seq(Scans) BY <1>1, <1>7, TailOf DEF ProbeT!Resume
  <2> QED BY <2>1, <1>1, <1>6, <1>7, ScanConstants DEF ProbeT!Resume
<1>8. CASE ProbeT!Scan
  <2>1. pCurr' \in Scans /\ pPrev' \in Wide BY <1>1, <1>8, ScanConstants DEF ProbeT!Scan, ProbeT!Advance
  <2> QED BY <2>1, <1>1, <1>6, <1>8 DEF ProbeT!Scan
<1>9. ASSUME NEW s \in Scans, ProbeT!Put(s)
      PROVE  /\ ProbeTyped' /\ wanted' \subseteq Scans
             /\ \A x \in wanted' : pEntry'[x].active \/ Waits(x)' \/ Queued(pSetQ', x)
  <2>1. /\ pSetQ' = Append(pSetQ, s) /\ wanted' = wanted \union {s}
        /\ UNCHANGED <<pEntry, pCurr, pSet, pPrev, pWaiting, pClearQ>>
    BY <1>9 DEF ProbeT!Put
  <2>2. pSetQ' \in Seq(Scans) /\ Queued(pSetQ', s) /\ \A x : Queued(pSetQ, x) => Queued(pSetQ', x)
    BY <2>1, <1>1, AppendOf DEF Queued
  <2>3. ProbeTyped' BY <2>1, <2>2, <1>1 DEF ProbeTyped
  <2> QED BY <2>1, <2>2, <2>3, <1>1, <1>2 DEF Waits
<1>10. ASSUME NEW s \in Scans, ProbeT!Clear(s)
       PROVE  pClearQ' \in Seq(Scans) /\ UNCHANGED <<pEntry, pCurr, pSet, pPrev, pWaiting, pSetQ, wanted>>
  BY <1>1, <1>10 DEF ProbeT!Clear
<1>11. ASSUME pClearQ' \in Seq(Scans), UNCHANGED <<pEntry, pCurr, pSet, pPrev, pWaiting, pSetQ, wanted>>
       PROVE  /\ ProbeTyped' /\ wanted' \subseteq Scans
              /\ \A x \in wanted' : pEntry'[x].active \/ Waits(x)' \/ Queued(pSetQ', x)
  BY <1>1, <1>2, <1>11 DEF ProbeTyped, Waits
<1>12. CASE ProbeT!TakeEvent BY <1>1, <1>11, <1>12 DEF ProbeT!TakeEvent
<1>13. CASE UNCHANGED probeVars BY <1>1, <1>11, <1>13 DEF probeVars
<1> QED BY <1>4, <1>5, <1>7, <1>8, <1>9, <1>10, <1>11, <1>12, <1>13
        DEF ProbeT!Next, ProbeT!ProbeTimerCycle, ProbeT!Session, Scans

-----------------------------------------------------------------------------
(* The three side by side                                                  *)

LEMMA SideBySide ==
    ASSUME [MCNext]_allVars
    PROVE  [Next]_vars /\ [CloseT!Next]_closeVars /\ [ProbeT!Next]_probeVars
BY DEF MCNext, InLoop, InClose, InProbe, InPorts, allVars

(* A session that waits for its probe has a timer that runs or one that is *)
(* about to be set: what the scan looks at stops only together with its    *)
(* event, and a set is latched before the next one is taken                *)
(* (probe_timer.cpp:62-125).                                               *)
THEOREM ProbesAreTimed == MCSpec => []ProbeIsTimed
<1>1. MCInit => ProbeInv
  <2> SUFFICES ASSUME MCInit PROVE ProbeInv OBVIOUS
  <2>1. ProbeT!Init /\ wanted = {} BY DEF MCInit, ProbeT!Init
  <2> QED BY <2>1, ProbeTypedInit DEF ProbeInv, ProbeT!ProbeIsTimed
<1>2. ProbeInv /\ [MCNext]_allVars => ProbeInv' BY SideBySide, ProbeStep
<1>3. ProbeInv => ProbeIsTimed BY DEF ProbeInv, ProbeIsTimed
<1> QED BY <1>1, <1>2, <1>3, PTL DEF MCSpec

(* A session in TIME_WAIT is not released before its time, however often   *)
(* it is put in and whatever waits to be written (close_timer.cpp:76-131): *)
(* scans so far and scans to come are never fewer than CloseTime.          *)
THEOREM ReleasesWait == MCSpec => CloseT!StaysItsTime
<1>1. MCInit => CloseInv BY CloseInit DEF MCInit
<1>2. CloseInv /\ [MCNext]_allVars => CloseInv' BY SideBySide, CloseStep
<1>3. CloseInv /\ [MCNext]_allVars
      => [\A s \in CloseT!Session : closedQ' = Append(closedQ, s) => since[s] >= ScanTime]_(CloseT!vars)
  BY SideBySide, CloseWaits DEF CloseT!Session, Scans
<1> QED BY <1>1, <1>2, <1>3, PTL DEF MCSpec, CloseT!StaysItsTime

(* The types of the three, and what makes the invariants of the loop       *)
(* inductive.                                                              *)
THEOREM MCTypesAreKept == MCSpec => []MCTypeOK
<1> DEFINE AllSafe == \A s \in Watched : Safe(s)
           All == Typed /\ AllSafe /\ CloseTyped /\ ProbeInv
<1>1. MCInit => All
  <2> SUFFICES ASSUME MCInit PROVE All OBVIOUS
  <2>1. Init /\ CloseT!Init /\ ProbeT!Init /\ wanted = {} BY DEF MCInit, ProbeT!Init
  <2>2. ProbeInv BY <2>1, ProbeTypedInit DEF ProbeInv, ProbeT!ProbeIsTimed
  <2> QED BY <2>1, <2>2, TypedInit, SafeInit, CloseTypedInit
<1>2. All /\ [MCNext]_allVars => All'
  <2> SUFFICES ASSUME All, [MCNext]_allVars PROVE All' OBVIOUS
  <2>1. [Next]_vars /\ [CloseT!Next]_closeVars /\ [ProbeT!Next]_probeVars BY SideBySide
  <2>2. AllSafe' BY <2>1, SafeStep
  <2> QED BY <2>1, <2>2, TypedStep, CloseTypedStep, ProbeStep
<1>3. All => MCTypeOK
  <2> SUFFICES ASSUME All PROVE MCTypeOK OBVIOUS
  <2>1. ClearsAreOlder BY DEF ClearsAreOlder, Watched, Safe
  <2>2. CloseT!TypeOK BY DEF CloseTyped, CloseT!TypeOK, CloseT!Session, Scans, ScanEntry, Wide
  <2>3. ProbeT!TypeOK BY ScanConstants DEF ProbeInv, ProbeTyped, ProbeT!TypeOK, ProbeT!Session, Scans, ScanEntry, Wide
  <2> QED BY <2>1, <2>2, <2>3 DEF MCTypeOK, Typed
<1> QED BY <1>1, <1>2, <1>3, PTL DEF MCSpec

=============================================================================
