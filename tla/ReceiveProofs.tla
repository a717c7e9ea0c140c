----------------------------- MODULE ReceiveProofs -----------------------------
(***************************************************************************)
(* Proofs about what comes to rx_engine and must meet in its order: the    *)
(* answers of port_table, for any width of a byte, any number of sessions  *)
(* and any depth of the FIFOs; the decisions about received payloads, for  *)
(* any sessions and any way to cut their streams; and what the application *)
(* then reads from the one FIFO of the default build.                      *)
(***************************************************************************)
EXTENDS PortTable, MCReceive, SequenceTheorems, TLAPS

-----------------------------------------------------------------------------
(* Ports                                                                   *)

\* A byte times a byte: what the two bytes of a port make is a port again.
LEMMA TwoBytes ==
    ASSUME NEW hi \in 0 .. Byte - 1, NEW lo \in 0 .. Byte - 1
    PROVE  hi * Byte + lo \in Ports
<1>1. Byte \in Nat /\ Byte >= 1 BY ByteAssumption
<1>2. hi * Byte \in Nat /\ Byte * Byte \in Nat BY <1>1
<1>3. hi * Byte <= (Byte - 1) * Byte BY <1>1
<1>4. (Byte - 1) * Byte = Byte * Byte - Byte BY <1>1
<1> QED BY <1>1, <1>2, <1>3, <1>4 DEF Ports

LEMMA BytesOf ==
    ASSUME NEW p \in Ports
    PROVE  p % Byte \in 0 .. Byte - 1 /\ p \div Byte \in 0 .. Byte - 1
<1>1. Byte \in Nat /\ Byte > 0 /\ p \in Nat BY ByteAssumption DEF Ports
<1>2. p % Byte \in 0 .. Byte - 1 BY <1>1
<1>3. p \div Byte \in Nat BY <1>1
<1>4. p = Byte * (p \div Byte) + (p % Byte) BY <1>1
<1>5. p < Byte * Byte BY <1>1 DEF Ports
<1>6. \A q \in Nat : q >= Byte => Byte * q >= Byte * Byte BY <1>1
<1>7. ~(p \div Byte >= Byte) BY <1>1, <1>2, <1>3, <1>4, <1>5, <1>6
<1> QED BY <1>1, <1>2, <1>3, <1>7

LEMMA SwapIsPort ==
    ASSUME NEW p \in Ports
    PROVE  Swap(p) \in Ports
BY BytesOf, TwoBytes DEF Swap

LEMMA HalfIsPositive == Half \in Nat \ {0} /\ 2 * Half <= Byte * Byte /\ Byte * Byte \in Nat
<1>1. Byte \in Nat /\ Byte >= 2 BY ByteAssumption
<1>2. Byte * Byte \in Nat BY <1>1
<1>3. Byte * Byte >= 2 * Byte BY <1>1
<1>4. ASSUME NEW n \in Nat, n >= 4 PROVE n \div 2 \in Nat \ {0} /\ 2 * (n \div 2) <= n BY <1>4
<1> QED BY <1>1, <1>2, <1>3, <1>4 DEF Half

LEMMA IndexesArePorts == Indexes \subseteq Ports /\ \A i \in Indexes : PortOf(i) \in Ports
BY HalfIsPositive DEF Indexes, Ports, PortOf

LEMMA CursorStays ==
    ASSUME cursor \in Indexes, MoveCursor
    PROVE  cursor' \in Indexes
<1>1. \A m \in Nat \ {0}, n \in Nat : n % m \in 0 .. m - 1 OBVIOUS
<1> QED BY <1>1, HalfIsPositive DEF Indexes, MoveCursor

-----------------------------------------------------------------------------
(* The inductive invariant                                                 *)

\* check_out has taken the entry of a check from dst and waits for its answer.
Busy == IF cm = "READ_DST" THEN 0 ELSE 1

\* The table that the i-th check without an answer was sent to.
TableOf(i) == IF i > Busy THEN dst[i - Busy] ELSE IF cm = "READ_LISTENING" THEN "LT" ELSE "FT"

\* Each check that is not answered has its entry, in order, and it names the table
\* of its port.
EachHasItsTable ==
    /\ Len(asked) = Len(dst) + Busy
    /\ \A i \in DOMAIN asked : TableOf(i) = IF asked[i].port < Half THEN "LT" ELSE "FT"

\* A port that was open stays open.
OpenStaysOpen == \A i \in DOMAIN asked : asked[i].open => asked[i].port \in listening

\* What one table has answered and what it has still to answer, as it would with
\* these ports open.
Line(rsp, req, ports) ==
    [k \in 1 .. Len(rsp) + Len(req) |->
        IF k <= Len(rsp) THEN rsp[k]
        ELSE [port |-> req[k - Len(rsp)], open |-> req[k - Len(rsp)] \in ports]]

\* f leads from a line to the checks that were sent to its table: all of them, in
\* their order, each with its port.
Leads(f, line, checked, low) ==
    /\ f \in [1 .. Len(line) -> 1 .. Len(checked)]
    /\ \A k \in 1 .. Len(line) :
          /\ (checked[f[k]].port < Half) = low
          /\ line[k].port = checked[f[k]].port
          /\ low /\ checked[f[k]].open => line[k].open
    /\ \A k, m \in 1 .. Len(line) : k < m => f[k] < f[m]
    /\ \A i \in 1 .. Len(checked) : (checked[i].port < Half) = low => \E k \in 1 .. Len(line) : f[k] = i

Meets(line, checked, low) == \E f : Leads(f, line, checked, low)

OrderInv ==
    /\ EachHasItsTable
    /\ OpenStaysOpen
    /\ Meets(Line(listenRsp, listenReq, listening), asked, TRUE)
    /\ Meets(Line(usedRsp, usedReq, {}), asked, FALSE)

-----------------------------------------------------------------------------
(* Lines                                                                   *)

LEMMA SameSequence ==
    ASSUME NEW S, NEW s \in Seq(S), NEW t \in Seq(S), NEW n \in Nat, Len(s) = n, Len(t) = n,
           \A k \in 1 .. n : s[k] = t[k]
    PROVE  s = t
OBVIOUS

LEMMA LineIsSeq ==
    ASSUME NEW rsp \in Seq(Answers), NEW req \in Seq(Ports), NEW ports
    PROVE  /\ Line(rsp, req, ports) \in Seq(Answers)
           /\ Len(Line(rsp, req, ports)) = Len(rsp) + Len(req)
<1> DEFINE n == Len(rsp) + Len(req)
<1>1. n \in Nat OBVIOUS
<1>2. ASSUME NEW k \in 1 .. n PROVE Line(rsp, req, ports)[k] \in Answers
  <2>1. k <= Len(rsp) => rsp[k] \in Answers OBVIOUS
  <2>2. ~(k <= Len(rsp)) => req[k - Len(rsp)] \in Ports OBVIOUS
  <2> QED BY <2>1, <2>2 DEF Line, Answers
<1>3. Line(rsp, req, ports) \in [1 .. n -> Answers] BY <1>2 DEF Line
<1> QED BY <1>1, <1>3

\* A question goes to the end of the line, the first answer is its head, and an
\* answer takes the place of its question.
LEMMA AskedLine ==
    ASSUME NEW rsp \in Seq(Answers), NEW req \in Seq(Ports), NEW ports, NEW p \in Ports
    PROVE  Line(rsp, Append(req, p), ports) = Append(Line(rsp, req, ports), [port |-> p, open |-> p \in ports])
<1> DEFINE n == Len(rsp) + Len(req)
           long == Line(rsp, Append(req, p), ports)
           short == Append(Line(rsp, req, ports), [port |-> p, open |-> p \in ports])
<1>1. n \in Nat /\ Len(Append(req, p)) = Len(req) + 1 OBVIOUS
<1>2. Line(rsp, req, ports) \in Seq(Answers) /\ Len(Line(rsp, req, ports)) = n BY LineIsSeq
<1>3. Append(req, p) \in Seq(Ports) OBVIOUS
<1>4. long \in Seq(Answers) /\ Len(long) = n + 1
  <2>1. long \in Seq(Answers) /\ Len(long) = Len(rsp) + Len(Append(req, p)) BY <1>3, LineIsSeq
  <2> QED BY <2>1, <1>1
<1>5. [port |-> p, open |-> p \in ports] \in Answers BY DEF Answers
<1>6. short \in Seq(Answers) /\ Len(short) = n + 1
  <2> HIDE DEF n
  <2> QED BY <1>2, <1>5
<1>7. ASSUME NEW k \in 1 .. n + 1 PROVE long[k] = short[k]
  <2>1. CASE k = n + 1
    <3>1. short[k] = [port |-> p, open |-> p \in ports] BY <2>1, <1>2
    <3>2. ~(k <= Len(rsp)) /\ k - Len(rsp) = Len(req) + 1 BY <2>1
    <3>3. Append(req, p)[k - Len(rsp)] = p BY <3>2
    <3>4. long[k] = [port |-> p, open |-> p \in ports] BY <3>2, <3>3, <1>1 DEF Line
    <3> QED BY <3>1, <3>4
  <2>2. CASE k # n + 1
    <3>1. k \in 1 .. n BY <2>2, <1>1
    <3>2. short[k] = Line(rsp, req, ports)[k] BY <3>1, <1>2
    <3>3. ~(k <= Len(rsp)) => k - Len(rsp) \in 1 .. Len(req) BY <3>1
    <3>4. ~(k <= Len(rsp)) => Append(req, p)[k - Len(rsp)] = req[k - Len(rsp)] BY <3>3
    <3> QED BY <3>1, <3>2, <3>4, <1>1 DEF Line
  <2> QED BY <2>1, <2>2
<1> HIDE DEF n, long, short
<1>8. long = short BY <1>1, <1>4, <1>6, <1>7, SameSequence
<1> QED BY <1>8 DEF long, short

LEMMA AnsweredLine ==
    ASSUME NEW rsp \in Seq(Answers), NEW req \in Seq(Ports), NEW ports, req # <<>>, NEW x \in Answers,
           x.port = Head(req)
    PROVE  /\ Len(Line(Append(rsp, x), Tail(req), ports)) = Len(Line(rsp, req, ports))
           /\ \A k \in 1 .. Len(Line(rsp, req, ports)) :
                 /\ Line(Append(rsp, x), Tail(req), ports)[k].port = Line(rsp, req, ports)[k].port
                 /\ \/ Line(Append(rsp, x), Tail(req), ports)[k].open = Line(rsp, req, ports)[k].open
                    \/ /\ Line(Append(rsp, x), Tail(req), ports)[k].open = x.open
                       /\ Line(rsp, req, ports)[k].open = (Head(req) \in ports)
<1> DEFINE n == Len(rsp) + Len(req)
<1>1. n \in Nat /\ Len(Tail(req)) = Len(req) - 1 /\ Tail(req) \in Seq(Ports) /\ Len(req) >= 1 OBVIOUS
<1>2. Append(rsp, x) \in Seq(Answers) /\ Len(Append(rsp, x)) = Len(rsp) + 1 OBVIOUS
<1>3. Len(Line(rsp, req, ports)) = n BY LineIsSeq
<1>4. Len(Line(Append(rsp, x), Tail(req), ports)) = n
  <2>1. Len(Line(Append(rsp, x), Tail(req), ports)) = Len(Append(rsp, x)) + Len(Tail(req)) BY <1>1, <1>2, LineIsSeq
  <2> QED BY <2>1, <1>1, <1>2
<1>5. ASSUME NEW k \in 1 .. n
      PROVE  /\ Line(Append(rsp, x), Tail(req), ports)[k].port = Line(rsp, req, ports)[k].port
             /\ \/ Line(Append(rsp, x), Tail(req), ports)[k].open = Line(rsp, req, ports)[k].open
                \/ /\ Line(Append(rsp, x), Tail(req), ports)[k].open = x.open
                   /\ Line(rsp, req, ports)[k].open = (Head(req) \in ports)
  <2>1. k \in 1 .. Len(Append(rsp, x)) + Len(Tail(req)) BY <1>1, <1>2
  <2>2. CASE k <= Len(rsp)
    <3>1. Append(rsp, x)[k] = rsp[k] /\ k <= Len(Append(rsp, x)) BY <2>2, <1>2
    <3>2. Line(Append(rsp, x), Tail(req), ports)[k] = rsp[k] BY <2>1, <3>1 DEF Line
    <3>3. Line(rsp, req, ports)[k] = rsp[k] BY <2>2 DEF Line
    <3> QED BY <3>2, <3>3
  <2>3. CASE k = Len(rsp) + 1
    <3>1. Append(rsp, x)[k] = x /\ k <= Len(Append(rsp, x)) BY <2>3, <1>2
    <3>2. Line(Append(rsp, x), Tail(req), ports)[k] = x BY <2>1, <3>1 DEF Line
    <3>3. ~(k <= Len(rsp)) /\ req[k - Len(rsp)] = Head(req) BY <2>3, <1>1
    <3>4. Line(rsp, req, ports)[k] = [port |-> Head(req), open |-> Head(req) \in ports] BY <3>3 DEF Line
    <3> QED BY <3>2, <3>4
  <2>4. CASE k > Len(rsp) + 1
    <3>1. ~(k <= Len(rsp)) /\ ~(k <= Len(Append(rsp, x))) /\ k - Len(rsp) \in 1 .. Len(req) BY <2>4, <1>2
    <3>2. k - Len(Append(rsp, x)) \in 1 .. Len(Tail(req)) /\ (k - Len(Append(rsp, x))) + 1 = k - Len(rsp) BY <2>4, <1>1, <1>2
    <3>3. Tail(req)[k - Len(Append(rsp, x))] = req[k - Len(rsp)] BY <3>2, <1>1
    <3>4. Line(Append(rsp, x), Tail(req), ports)[k] = Line(rsp, req, ports)[k] BY <2>1, <3>1, <3>3 DEF Line
    <3> QED BY <3>4
  <2> QED BY <2>2, <2>3, <2>4
<1> QED BY <1>3, <1>4, <1>5

LEMMA ReadLine ==
    ASSUME NEW rsp \in Seq(Answers), NEW req \in Seq(Ports), NEW ports, rsp # <<>>
    PROVE  /\ Line(rsp, req, ports)[1] = Head(rsp)
           /\ Line(Tail(rsp), req, ports) = Tail(Line(rsp, req, ports))
<1> DEFINE n == Len(rsp) + Len(req)
           line == Line(rsp, req, ports)
           read == Line(Tail(rsp), req, ports)
<1>1. n \in Nat \ {0} /\ Len(rsp) >= 1 /\ Len(Tail(rsp)) = Len(rsp) - 1 /\ Tail(rsp) \in Seq(Answers) OBVIOUS
<1>2. line \in Seq(Answers) /\ Len(line) = n BY LineIsSeq
<1>3. read \in Seq(Answers) /\ Len(read) = n - 1
  <2>1. read \in Seq(Answers) /\ Len(read) = Len(Tail(rsp)) + Len(req) BY <1>1, LineIsSeq
  <2> QED BY <2>1, <1>1
<1>4. line[1] = Head(rsp) BY <1>1 DEF Line
<1>5. ASSUME NEW k \in 1 .. n - 1 PROVE read[k] = line[k + 1]
  <2>1. k \in 1 .. Len(Tail(rsp)) + Len(req) /\ k + 1 \in 1 .. n BY <1>1
  <2>2. CASE k <= Len(Tail(rsp))
    <3>1. Tail(rsp)[k] = rsp[k + 1] /\ k + 1 <= Len(rsp) BY <2>2, <1>1
    <3> QED BY <2>1, <2>2, <3>1 DEF Line
  <2>3. CASE ~(k <= Len(Tail(rsp)))
    <3>1. ~(k + 1 <= Len(rsp)) /\ (k + 1) - Len(rsp) = k - Len(Tail(rsp)) BY <2>3, <1>1
    <3>2. read[k] = [port |-> req[k - Len(Tail(rsp))], open |-> req[k - Len(Tail(rsp))] \in ports] BY <2>1, <2>3 DEF Line
    <3>3. line[k + 1] = [port |-> req[(k + 1) - Len(rsp)], open |-> req[(k + 1) - Len(rsp)] \in ports] BY <2>1, <3>1 DEF Line
    <3> QED BY <3>1, <3>2, <3>3
  <2> QED BY <2>2, <2>3
<1> HIDE DEF line, read
<1>6. read = Tail(line) BY <1>1, <1>2, <1>3, <1>5
<1> QED BY <1>4, <1>6 DEF line, read

\* A new check of this table, at the end of both.
LEMMA NewCheckMeets ==
    ASSUME NEW line \in Seq(Answers), NEW checked \in Seq(Answers), NEW low \in BOOLEAN,
           NEW x \in Answers, NEW check \in Answers, Meets(line, checked, low),
           (check.port < Half) = low, x.port = check.port, low /\ check.open => x.open
    PROVE  Meets(Append(line, x), Append(checked, check), low)
<1>1. PICK f : Leads(f, line, checked, low) BY DEF Meets
<1> DEFINE n == Len(line)
           m == Len(checked)
           g == [k \in 1 .. n + 1 |-> IF k = n + 1 THEN m + 1 ELSE f[k]]
<1>2. n \in Nat /\ m \in Nat /\ f \in [1 .. n -> 1 .. m] BY <1>1 DEF Leads
<1>3. Len(Append(line, x)) = n + 1 /\ Len(Append(checked, check)) = m + 1 OBVIOUS
<1>4. g \in [1 .. n + 1 -> 1 .. m + 1] BY <1>2
<1>5. ASSUME NEW k \in 1 .. n + 1
      PROVE  /\ (Append(checked, check)[g[k]].port < Half) = low
             /\ Append(line, x)[k].port = Append(checked, check)[g[k]].port
             /\ low /\ Append(checked, check)[g[k]].open => Append(line, x)[k].open
  <2>1. CASE k = n + 1 BY <2>1, <1>2
  <2>2. CASE k # n + 1
    <3>1. k \in 1 .. n /\ g[k] = f[k] /\ f[k] \in 1 .. m BY <2>2, <1>2
    <3>2. Append(checked, check)[g[k]] = checked[f[k]] /\ Append(line, x)[k] = line[k] BY <3>1
    <3> QED BY <3>1, <3>2, <1>1 DEF Leads
  <2> QED BY <2>1, <2>2
<1>6. ASSUME NEW k \in 1 .. n + 1, NEW j \in 1 .. n + 1, k < j PROVE g[k] < g[j]
  <2>0. k \in 1 .. n
    <3>1. k \in Nat /\ j \in Nat /\ 1 <= k /\ k < j /\ j <= n + 1 /\ n \in Nat BY <1>2, <1>6
    <3> QED BY <3>1
  <2>1. k \in 1 .. n /\ g[k] = f[k] /\ f[k] \in 1 .. m
    <3>1. k \in 1 .. n + 1 /\ k # n + 1 /\ n \in Nat BY <2>0, <1>2
    <3>2. g[k] = f[k] BY <3>1
    <3> QED BY <2>0, <3>2, <1>2
  <2>2. CASE j = n + 1 BY <2>1, <2>2, <1>2
  <2>3. CASE j # n + 1
    <3>1. j \in 1 .. n /\ g[j] = f[j] BY <2>3, <1>2
    <3> QED BY <2>1, <3>1, <1>1, <1>6 DEF Leads
  <2> QED BY <2>2, <2>3
<1>7. ASSUME NEW i \in 1 .. m + 1, (Append(checked, check)[i].port < Half) = low
      PROVE  \E k \in 1 .. n + 1 : g[k] = i
  <2>1. CASE i = m + 1 BY <2>1, <1>2
  <2>2. CASE i # m + 1
    <3>1. i \in 1 .. m /\ Append(checked, check)[i] = checked[i] BY <2>2, <1>2
    <3>2. PICK k \in 1 .. n : f[k] = i BY <3>1, <1>1, <1>7 DEF Leads
    <3>3. k \in 1 .. n + 1 /\ g[k] = i BY <3>2, <1>2
    <3> QED BY <3>3
  <2> QED BY <2>1, <2>2
<1>8. Leads(g, Append(line, x), Append(checked, check), low)
  BY <1>3, <1>4, <1>5, <1>6, <1>7 DEF Leads
<1> QED BY <1>8 DEF Meets

\* A new check of the other table.
LEMMA OtherCheckMeets ==
    ASSUME NEW line \in Seq(Answers), NEW checked \in Seq(Answers), NEW low \in BOOLEAN,
           NEW check \in Answers, Meets(line, checked, low), (check.port < Half) # low
    PROVE  Meets(line, Append(checked, check), low)
<1>1. PICK f : Leads(f, line, checked, low) BY DEF Meets
<1> DEFINE n == Len(line)
           m == Len(checked)
<1>2. n \in Nat /\ m \in Nat /\ f \in [1 .. n -> 1 .. m] BY <1>1 DEF Leads
<1>3. Len(Append(checked, check)) = m + 1 OBVIOUS
<1>4. \A i \in 1 .. m : Append(checked, check)[i] = checked[i] BY <1>2
<1>5. Append(checked, check)[m + 1] = check BY <1>2
<1>6. f \in [1 .. n -> 1 .. m + 1] BY <1>2
<1>7. \A i \in 1 .. m + 1 : (Append(checked, check)[i].port < Half) = low => i \in 1 .. m BY <1>2, <1>5
<1>8. Leads(f, line, Append(checked, check), low)
  <2>1. \A k \in 1 .. n : f[k] \in 1 .. m BY <1>2
  <2>2. \A k \in 1 .. n : /\ (Append(checked, check)[f[k]].port < Half) = low
                          /\ line[k].port = Append(checked, check)[f[k]].port
                          /\ low /\ Append(checked, check)[f[k]].open => line[k].open
    BY <2>1, <1>4, <1>1 DEF Leads
  <2>3. \A k, j \in 1 .. n : k < j => f[k] < f[j] BY <1>1 DEF Leads
  <2>4. \A i \in 1 .. m + 1 : (Append(checked, check)[i].port < Half) = low => \E k \in 1 .. n : f[k] = i
    BY <1>4, <1>7, <1>1 DEF Leads
  <2> QED BY <1>3, <1>6, <2>2, <2>3, <2>4 DEF Leads
<1> QED BY <1>8 DEF Meets

\* The first check is of this table: the first of the line is its answer.
LEMMA FirstMeets ==
    ASSUME NEW line \in Seq(Answers), NEW checked \in Seq(Answers), NEW low \in BOOLEAN,
           Meets(line, checked, low), checked # <<>>, (checked[1].port < Half) = low
    PROVE  /\ line # <<>>
           /\ line[1].port = checked[1].port
           /\ low /\ checked[1].open => line[1].open
           /\ Meets(Tail(line), Tail(checked), low)
<1>1. PICK f : Leads(f, line, checked, low) BY DEF Meets
<1> DEFINE n == Len(line)
           m == Len(checked)
           g == [k \in 1 .. n - 1 |-> f[k + 1] - 1]
<1>2. n \in Nat /\ m \in Nat \ {0} /\ f \in [1 .. n -> 1 .. m] BY <1>1 DEF Leads
<1>3. PICK j \in 1 .. n : f[j] = 1 BY <1>1, <1>2 DEF Leads
<1>4. f[1] = 1
  <2>1. 1 \in 1 .. n /\ f[1] \in 1 .. m BY <1>2, <1>3
  <2>2. 1 < j => f[1] < f[j] BY <2>1, <1>1 DEF Leads
  <2> QED BY <2>1, <2>2, <1>3
<1>5. line # <<>> BY <1>2, <1>3
<1>6. 1 \in 1 .. n BY <1>2, <1>3
<1>7. Len(Tail(line)) = n - 1 /\ Len(Tail(checked)) = m - 1 BY <1>2, <1>5
<1>8. (\A k \in 1 .. n - 1 : Tail(line)[k] = line[k + 1]) /\ (\A i \in 1 .. m - 1 : Tail(checked)[i] = checked[i + 1])
  BY <1>2, <1>5
<1>9. \A k \in 1 .. n - 1 : k + 1 \in 1 .. n /\ f[k + 1] \in 2 .. m /\ g[k] = f[k + 1] - 1 /\ g[k] \in 1 .. m - 1
                            /\ Tail(checked)[g[k]] = checked[f[k + 1]]
  <2> SUFFICES ASSUME NEW k \in 1 .. n - 1
               PROVE  k + 1 \in 1 .. n /\ f[k + 1] \in 2 .. m /\ g[k] = f[k + 1] - 1 /\ g[k] \in 1 .. m - 1
                      /\ Tail(checked)[g[k]] = checked[f[k + 1]]  OBVIOUS
  <2>1. k + 1 \in 1 .. n /\ 1 < k + 1 BY <1>2
  <2>2. f[1] < f[k + 1] BY <2>1, <1>6, <1>1 DEF Leads
  <2>3. f[k + 1] \in 1 .. m BY <2>1, <1>2
  <2>4. f[k + 1] \in 2 .. m BY <2>2, <2>3, <1>4
  <2>5. g[k] = f[k + 1] - 1 OBVIOUS
  <2>6. g[k] \in 1 .. m - 1 /\ g[k] + 1 = f[k + 1] BY <2>4, <2>5, <1>2
  <2> QED BY <2>1, <2>4, <2>5, <2>6, <1>8
<1>10. Leads(g, Tail(line), Tail(checked), low)
  <2>1. g \in [1 .. n - 1 -> 1 .. m - 1] BY <1>9
  <2>2. \A k \in 1 .. n - 1 : /\ (Tail(checked)[g[k]].port < Half) = low
                              /\ Tail(line)[k].port = Tail(checked)[g[k]].port
                              /\ low /\ Tail(checked)[g[k]].open => Tail(line)[k].open
    BY <1>8, <1>9, <1>1 DEF Leads
  <2>3. ASSUME NEW k \in 1 .. n - 1, NEW i \in 1 .. n - 1, k < i PROVE g[k] < g[i]
    <3>1. f[k + 1] < f[i + 1] BY <1>9, <1>1, <2>3 DEF Leads
    <3>2. f[k + 1] \in Int /\ f[i + 1] \in Int BY <1>9
    <3> QED BY <3>1, <3>2
  <2>4. ASSUME NEW i \in 1 .. m - 1, (Tail(checked)[i].port < Half) = low PROVE \E k \in 1 .. n - 1 : g[k] = i
    <3>1. i + 1 \in 1 .. m /\ (checked[i + 1].port < Half) = low BY <1>8, <1>2, <2>4
    <3>2. PICK k \in 1 .. n : f[k] = i + 1 BY <3>1, <1>1 DEF Leads
    <3>3. k # 1 BY <3>2, <1>4
    <3>4. k - 1 \in 1 .. n - 1 /\ (k - 1) + 1 = k BY <3>2, <3>3, <1>2
    <3>5. g[k - 1] = f[k] - 1 BY <3>4
    <3>6. g[k - 1] = i BY <3>2, <3>5
    <3> HIDE DEF g
    <3> QED BY <3>4, <3>6
  <2> QED BY <1>7, <2>1, <2>2, <2>3, <2>4 DEF Leads
<1>11. line[1].port = checked[1].port /\ (low /\ checked[1].open => line[1].open) BY <1>1, <1>4, <1>6 DEF Leads
<1> QED BY <1>5, <1>10, <1>11 DEF Meets

\* The first check is of the other table.
LEMMA OtherFirstMeets ==
    ASSUME NEW line \in Seq(Answers), NEW checked \in Seq(Answers), NEW low \in BOOLEAN,
           Meets(line, checked, low), checked # <<>>, (checked[1].port < Half) # low
    PROVE  Meets(line, Tail(checked), low)
<1>1. PICK f : Leads(f, line, checked, low) BY DEF Meets
<1> DEFINE n == Len(line)
           m == Len(checked)
           g == [k \in 1 .. n |-> f[k] - 1]
<1>2. n \in Nat /\ m \in Nat \ {0} /\ f \in [1 .. n -> 1 .. m] BY <1>1 DEF Leads
<1>3. Len(Tail(checked)) = m - 1 /\ \A i \in 1 .. m - 1 : Tail(checked)[i] = checked[i + 1] BY <1>2
<1>4. ASSUME NEW k \in 1 .. n
      PROVE  f[k] \in 2 .. m /\ g[k] \in 1 .. m - 1 /\ g[k] = f[k] - 1 /\ Tail(checked)[g[k]] = checked[f[k]]
  <2>1. f[k] \in 1 .. m /\ (checked[f[k]].port < Half) = low BY <1>1, <1>2 DEF Leads
  <2>2. f[k] # 1 BY <2>1
  <2>3. g[k] = f[k] - 1 OBVIOUS
  <2>4. f[k] \in 2 .. m /\ g[k] \in 1 .. m - 1 /\ g[k] + 1 = f[k] BY <2>1, <2>2, <2>3, <1>2
  <2> QED BY <2>3, <2>4, <1>3
<1>5. Leads(g, line, Tail(checked), low)
  <2>1. g \in [1 .. n -> 1 .. m - 1] BY <1>4
  <2>2. \A k \in 1 .. n : /\ (Tail(checked)[g[k]].port < Half) = low
                          /\ line[k].port = Tail(checked)[g[k]].port
                          /\ low /\ Tail(checked)[g[k]].open => line[k].open
    BY <1>4, <1>1 DEF Leads
  <2>3. ASSUME NEW k \in 1 .. n, NEW i \in 1 .. n, k < i PROVE g[k] < g[i]
    <3>1. f[k] < f[i] BY <1>1, <2>3 DEF Leads
    <3> QED BY <3>1, <1>4
  <2>4. ASSUME NEW i \in 1 .. m - 1, (Tail(checked)[i].port < Half) = low PROVE \E k \in 1 .. n : g[k] = i
    <3>1. i + 1 \in 1 .. m /\ (checked[i + 1].port < Half) = low BY <1>3, <1>2, <2>4
    <3>2. PICK k \in 1 .. n : f[k] = i + 1 BY <3>1, <1>1 DEF Leads
    <3>3. g[k] = i BY <3>2
    <3> QED BY <3>2, <3>3
  <2> QED BY <1>3, <2>1, <2>2, <2>3, <2>4 DEF Leads
<1> QED BY <1>5 DEF Meets

\* The line is the same but for answers that have become better.
LEMMA BetterMeets ==
    ASSUME NEW line \in Seq(Answers), NEW better \in Seq(Answers), NEW checked \in Seq(Answers),
           NEW low \in BOOLEAN, Meets(line, checked, low), Len(better) = Len(line),
           \A k \in 1 .. Len(line) : /\ better[k].port = line[k].port
                                     /\ low /\ line[k].open => better[k].open
    PROVE  Meets(better, checked, low)
<1>1. PICK f : Leads(f, line, checked, low) BY DEF Meets
<1>2. \A k \in 1 .. Len(line) : /\ (checked[f[k]].port < Half) = low
                                /\ better[k].port = checked[f[k]].port
                                /\ low /\ checked[f[k]].open => better[k].open
  <2> SUFFICES ASSUME NEW k \in 1 .. Len(line)
               PROVE  /\ (checked[f[k]].port < Half) = low
                      /\ better[k].port = checked[f[k]].port
                      /\ low /\ checked[f[k]].open => better[k].open  OBVIOUS
  <2>1. (checked[f[k]].port < Half) = low /\ line[k].port = checked[f[k]].port BY <1>1 DEF Leads
  <2>2. low /\ checked[f[k]].open => line[k].open BY <1>1 DEF Leads
  <2>3. low /\ line[k].open => better[k].open OBVIOUS
  <2>4. better[k].port = line[k].port OBVIOUS
  <2> QED BY <2>1, <2>2, <2>3, <2>4
<1>3. Leads(f, better, checked, low) BY <1>1, <1>2 DEF Leads
<1> QED BY <1>3 DEF Meets

-----------------------------------------------------------------------------
(* Types                                                                   *)

LEMMA SwapCheckedIsPort ==
    ASSUME NEW p \in Ports
    PROVE  SwapChecked(p) \in Ports /\ SwapChecked(p) = Swap(p)
           /\ (SwapChecked(p) < Half => SwapChecked(p) \in Indexes)
           /\ (~(SwapChecked(p) < Half) => SwapChecked(p) \in Ports \ Indexes)
BY SwapIsPort, HalfIsPositive DEF SwapChecked, Ports, Indexes

LEMMA InitTypes == PortInit => PortTypeOK
BY HalfIsPositive DEF PortInit, PortTypeOK, Indexes

\* While check_out waits for an answer, the check is not answered.
LEMMA SomethingIsAsked ==
    ASSUME PortTypeOK, EachHasItsTable, cm # "READ_DST"
    PROVE  asked # <<>> /\ Len(asked) = Len(dst) + 1
BY DEF PortTypeOK, EachHasItsTable, Busy

LEMMA NextTypes ==
    ASSUME PortTypeOK, EachHasItsTable, [PortNext]_portVars
    PROVE  PortTypeOK'
<1> USE DEF PortTypeOK, tables, checks
<1>1. ASSUME NEW p \in Ports, Listen(p) PROVE PortTypeOK'
  <2>1. p < Half => p \in Indexes BY HalfIsPositive DEF Ports, Indexes
  <2> QED BY <1>1, <2>1 DEF Listen
<1>2. ASSUME NEW p \in Ports, CheckIn(p) PROVE PortTypeOK'
  <2>1. [port |-> Swap(p), open |-> Swap(p) \in listening] \in Answers BY SwapIsPort DEF Answers
  <2>2. Append(asked, [port |-> Swap(p), open |-> Swap(p) \in listening]) \in Seq(Answers) BY <2>1
  <2>3. Append(dst, "LT") \in Seq({"LT", "FT"}) /\ Append(dst, "FT") \in Seq({"LT", "FT"}) OBVIOUS
  <2>4. SwapChecked(p) < Half => Append(listenReq, SwapChecked(p)) \in Seq(Indexes) BY SwapCheckedIsPort
  <2>5. ~(SwapChecked(p) < Half) => Append(usedReq, SwapChecked(p)) \in Seq(Ports \ Indexes) BY SwapCheckedIsPort
  <2> QED BY <1>2, <2>2, <2>3, <2>4, <2>5 DEF CheckIn
<1>3. CASE CheckListening
  <2>1. Head(listenReq) \in Indexes /\ Tail(listenReq) \in Seq(Indexes) BY <1>3, HeadTailProperties DEF CheckListening
  <2>2. [port |-> Head(listenReq), open |-> Head(listenReq) \in listening] \in Answers BY <2>1, IndexesArePorts DEF Answers
  <2> QED BY <1>3, <2>1, <2>2 DEF CheckListening
<1>4. CASE ReleasePort
  <2>1. Tail(release) \in Seq(Ports) BY <1>4, HeadTailProperties DEF ReleasePort
  <2> QED BY <1>4, <2>1, CursorStays DEF ReleasePort
<1>5. CASE CheckUsed
  <2>1. Head(usedReq) \in Ports \ Indexes /\ Tail(usedReq) \in Seq(Ports \ Indexes) BY <1>5, HeadTailProperties DEF CheckUsed
  <2>2. [port |-> Head(usedReq), open |-> IndexOf(Head(usedReq)) \in usedPorts] \in Answers BY <2>1 DEF Answers
  <2> QED BY <1>5, <2>1, <2>2, CursorStays DEF CheckUsed
<1>6. CASE FindPort
  <2>1. Append(portRsp, PortOf(cursor)) \in Seq(Ports) BY IndexesArePorts
  <2> QED BY <1>6, <2>1, CursorStays DEF FindPort
<1>7. CASE ReadDst
  <2>1. Tail(dst) \in Seq({"LT", "FT"}) BY <1>7, HeadTailProperties DEF ReadDst
  <2> QED BY <1>7, <2>1 DEF ReadDst
<1>8. CASE ReadListening
  <2> asked # <<>> BY <1>8, SomethingIsAsked DEF ReadListening, ReadsFrom
  <2>1. Head(listenRsp) \in Answers /\ Tail(listenRsp) \in Seq(Answers) BY <1>8, HeadTailProperties DEF ReadListening
  <2>2. Head(asked) \in Answers /\ Tail(asked) \in Seq(Answers) BY <1>8, HeadTailProperties
  <2> QED BY <1>8, <2>1, <2>2 DEF ReadListening, Reply, AfterRead
<1>9. CASE ReadUsed
  <2> asked # <<>> BY <1>9, SomethingIsAsked DEF ReadUsed, ReadsFrom
  <2>1. Head(usedRsp) \in Answers /\ Tail(usedRsp) \in Seq(Answers) BY <1>9, HeadTailProperties DEF ReadUsed
  <2>2. Head(asked) \in Answers /\ Tail(asked) \in Seq(Answers) BY <1>9, HeadTailProperties
  <2> QED BY <1>9, <2>1, <2>2 DEF ReadUsed, Reply, AfterRead
<1>10. CASE Open
  <2>1. Head(portRsp) \in Ports /\ Tail(portRsp) \in Seq(Ports) BY <1>10, HeadTailProperties DEF Open
  <2> QED BY <1>10, <2>1 DEF Open
<1>11. ASSUME NEW id \in Owners, Accept(id) PROVE PortTypeOK'
  BY <1>11, IndexesArePorts DEF Accept
<1>12. ASSUME NEW id \in Owners, Close(id) PROVE PortTypeOK'
  <2>1. session[id] \in Ports BY <1>12 DEF Close
  <2>2. Append(release, Swap(session[id])) \in Seq(Ports) BY <2>1, SwapIsPort
  <2> QED BY <1>12, <2>2 DEF Close
<1>13. CASE UNCHANGED portVars BY <1>13 DEF portVars
<1> QED BY <1>1, <1>2, <1>3, <1>4, <1>5, <1>6, <1>7, <1>8, <1>9, <1>10, <1>11, <1>12, <1>13, WirePortsAssumption DEF PortNext



-----------------------------------------------------------------------------
(* The order of the checks                                                 *)

LEMMA RequestsArePorts == PortTypeOK => listenReq \in Seq(Ports) /\ usedReq \in Seq(Ports)
BY IndexesArePorts DEF PortTypeOK

\* Nothing that the order depends on has changed.
LEMMA SameOrder ==
    ASSUME OrderInv, UNCHANGED <<listening, checks>>
    PROVE  OrderInv'
BY DEF OrderInv, EachHasItsTable, TableOf, Busy, OpenStaysOpen, checks

\* A port more that is listened on: checks that wait for their answer get a better one.
LEMMA ListenKeepsOrder ==
    ASSUME PortTypeOK, OrderInv, NEW p \in Ports, Listen(p)
    PROVE  OrderInv'
<1>1. listening \subseteq listening' /\ UNCHANGED checks BY DEF Listen
<1>2. OpenStaysOpen' BY <1>1 DEF OrderInv, OpenStaysOpen, checks
<1>3. EachHasItsTable' BY <1>1 DEF OrderInv, EachHasItsTable, TableOf, Busy, checks
<1> DEFINE line == Line(listenRsp, listenReq, listening)
           better == Line(listenRsp, listenReq, listening')
<1>4. line \in Seq(Answers) /\ better \in Seq(Answers) /\ Len(better) = Len(line) /\ Len(line) = Len(listenRsp) + Len(listenReq)
  BY RequestsArePorts, LineIsSeq DEF PortTypeOK
<1>5. ASSUME NEW k \in 1 .. Len(line)
      PROVE  better[k].port = line[k].port /\ (line[k].open => better[k].open)
  <2>1. k \in 1 .. Len(listenRsp) + Len(listenReq) BY <1>4
  <2> QED BY <2>1, <1>1 DEF Line
<1> HIDE DEF line, better
<1>6. asked \in Seq(Answers) BY DEF PortTypeOK
<1>7. Meets(line, asked, TRUE) BY DEF OrderInv, line
<1>8. Meets(better, asked, TRUE) BY <1>4, <1>5, <1>6, <1>7, BetterMeets
<1>9. UNCHANGED <<listenRsp, listenReq, usedRsp, usedReq, asked>> BY <1>1 DEF checks
<1>10. Meets(Line(listenRsp, listenReq, listening), asked, TRUE)' BY <1>8, <1>9 DEF better
<1>11. Meets(Line(usedRsp, usedReq, {}), asked, FALSE)' BY <1>9 DEF OrderInv
<1> QED BY <1>2, <1>3, <1>10, <1>11 DEF OrderInv

LEMMA CheckInKeepsOrder ==
    ASSUME PortTypeOK, OrderInv, NEW wire \in Ports, CheckIn(wire)
    PROVE  OrderInv'
<1> DEFINE p == SwapChecked(wire)
           check == [port |-> p, open |-> p \in listening]
<1>1. p \in Ports /\ asked' = Append(asked, check) /\ check \in Answers
  BY SwapCheckedIsPort DEF CheckIn, Answers
<1>2. UNCHANGED <<listening, listenRsp, usedRsp, cm>> BY DEF CheckIn, tables
<1>3. /\ p < Half => listenReq' = Append(listenReq, p) /\ dst' = Append(dst, "LT") /\ usedReq' = usedReq
      /\ ~(p < Half) => usedReq' = Append(usedReq, p) /\ dst' = Append(dst, "FT") /\ listenReq' = listenReq
  BY DEF CheckIn
<1>4. check.port = p /\ check.open = (p \in listening) OBVIOUS
<1> HIDE DEF p, check
<1>5. /\ asked \in Seq(Answers) /\ dst \in Seq({"LT", "FT"})
      /\ listenRsp \in Seq(Answers) /\ usedRsp \in Seq(Answers)
      /\ listenReq \in Seq(Ports) /\ usedReq \in Seq(Ports)
  BY RequestsArePorts DEF PortTypeOK
<1>6. EachHasItsTable'
  <2>1. Busy' = Busy /\ Busy \in {0, 1} BY <1>2 DEF Busy
  <2>2. Len(asked) = Len(dst) + Busy BY DEF OrderInv, EachHasItsTable
  <2>3. Len(dst') = Len(dst) + 1 /\ Len(asked') = Len(asked) + 1 BY <1>1, <1>3, <1>5
  <2>4. dst'[Len(dst) + 1] = IF p < Half THEN "LT" ELSE "FT" BY <1>3, <1>5
  <2>5. \A i \in 1 .. Len(dst) : dst'[i] = dst[i]
    <3>1. \E table \in {"LT", "FT"} : dst' = Append(dst, table) BY <1>3
    <3>2. PICK table \in {"LT", "FT"} : dst' = Append(dst, table) BY <3>1
    <3> QED BY <3>2, <1>5
  <2>6. ASSUME NEW i \in 1 .. Len(asked) PROVE TableOf(i)' = IF asked'[i].port < Half THEN "LT" ELSE "FT"
    <3>1. asked'[i] = asked[i] BY <1>1, <1>5
    <3>2. i > Busy => i - Busy \in 1 .. Len(dst) BY <2>1, <2>2, <1>5
    <3>3. TableOf(i)' = TableOf(i) BY <2>1, <2>5, <3>2, <1>2 DEF TableOf
    <3>4. i \in DOMAIN asked BY <1>5
    <3>5. TableOf(i) = IF asked[i].port < Half THEN "LT" ELSE "FT" BY <3>4 DEF OrderInv, EachHasItsTable
    <3> QED BY <3>1, <3>3, <3>5
  <2>7. ASSUME NEW i, i = Len(asked) + 1 PROVE TableOf(i)' = IF asked'[i].port < Half THEN "LT" ELSE "FT"
    <3>1. asked'[i].port = p BY <2>7, <1>1, <1>4, <1>5
    <3>2. i > Busy' /\ i - Busy' = Len(dst) + 1 BY <2>7, <2>1, <2>2, <1>5
    <3>3. TableOf(i)' = dst'[Len(dst) + 1] BY <3>2 DEF TableOf
    <3> QED BY <2>4, <3>1, <3>3
  <2>8. DOMAIN asked' = 1 .. Len(asked) + 1 BY <1>1, <1>5
  <2>9. \A i \in DOMAIN asked' : i \in 1 .. Len(asked) \/ i = Len(asked) + 1 BY <2>8, <1>5
  <2>10. Len(asked') = Len(dst') + Busy' BY <2>1, <2>2, <2>3, <1>5
  <2> QED BY <2>6, <2>7, <2>9, <2>10 DEF EachHasItsTable
<1>7. OpenStaysOpen'
  <2>1. \A i \in DOMAIN asked' : asked'[i] = check \/ (i \in DOMAIN asked /\ asked'[i] = asked[i]) BY <1>1, <1>5
  <2> QED BY <2>1, <1>2, <1>4 DEF OrderInv, OpenStaysOpen
<1> DEFINE low == Line(listenRsp, listenReq, listening)
           high == Line(usedRsp, usedReq, {})
<1>8. low \in Seq(Answers) /\ high \in Seq(Answers) BY <1>5, LineIsSeq
<1>9. Meets(low, asked, TRUE) /\ Meets(high, asked, FALSE) BY DEF OrderInv
<1>10. CASE p < Half
  <2>1. Line(listenRsp, Append(listenReq, p), listening) = Append(low, check)
    BY <1>1, <1>5, AskedLine DEF check
  <2> HIDE DEF low, high
  <2>2. Meets(Append(low, check), Append(asked, check), TRUE)
    <3>1. (check.port < Half) = TRUE BY <1>10, <1>4
    <3> QED BY <3>1, <1>1, <1>5, <1>8, <1>9, NewCheckMeets
  <2>3. Meets(high, Append(asked, check), FALSE)
    <3>1. (check.port < Half) # FALSE BY <1>10, <1>4
    <3> QED BY <3>1, <1>1, <1>5, <1>8, <1>9, OtherCheckMeets
  <2>4. Meets(Line(listenRsp, listenReq, listening), asked, TRUE)' BY <2>1, <2>2, <1>1, <1>2, <1>3, <1>10
  <2>5. Meets(Line(usedRsp, usedReq, {}), asked, FALSE)' BY <2>3, <1>1, <1>2, <1>3, <1>10 DEF high
  <2> QED BY <1>6, <1>7, <2>4, <2>5 DEF OrderInv
<1>11. CASE ~(p < Half)
  <2> DEFINE x == [port |-> p, open |-> p \in {}]
  <2>1. Line(usedRsp, Append(usedReq, p), {}) = Append(high, x) BY <1>1, <1>5, AskedLine
  <2>2. x \in Answers /\ x.port = check.port BY <1>1, <1>4 DEF Answers
  <2> HIDE DEF low, high, x
  <2>3. Meets(Append(high, x), Append(asked, check), FALSE)
    <3>1. (check.port < Half) = FALSE BY <1>11, <1>4
    <3> QED BY <3>1, <2>2, <1>1, <1>5, <1>8, <1>9, NewCheckMeets
  <2>4. Meets(low, Append(asked, check), TRUE)
    <3>1. (check.port < Half) # TRUE BY <1>11, <1>4
    <3> QED BY <3>1, <1>1, <1>5, <1>8, <1>9, OtherCheckMeets
  <2>5. Meets(Line(usedRsp, usedReq, {}), asked, FALSE)' BY <2>1, <2>3, <1>1, <1>2, <1>3, <1>11
  <2>6. Meets(Line(listenRsp, listenReq, listening), asked, TRUE)' BY <2>4, <1>1, <1>2, <1>3, <1>11 DEF low
  <2> QED BY <1>6, <1>7, <2>5, <2>6 DEF OrderInv
<1> QED BY <1>10, <1>11

\* A table answers its oldest question: with what the line says already.
LEMMA AnswerKeepsOrder ==
    ASSUME PortTypeOK, OrderInv, CheckListening \/ CheckUsed
    PROVE  OrderInv'
<1>1. UNCHANGED <<listening, dst, cm, asked>> BY DEF CheckListening, CheckUsed, tables
<1>2. EachHasItsTable' BY <1>1 DEF OrderInv, EachHasItsTable, TableOf, Busy
<1>3. OpenStaysOpen' BY <1>1 DEF OrderInv, OpenStaysOpen
<1>4. /\ asked \in Seq(Answers) /\ listenRsp \in Seq(Answers) /\ usedRsp \in Seq(Answers)
      /\ listenReq \in Seq(Ports) /\ usedReq \in Seq(Ports)
  BY RequestsArePorts DEF PortTypeOK
<1>5. CASE CheckListening
  <2> DEFINE x == [port |-> Head(listenReq), open |-> Head(listenReq) \in listening]
             line == Line(listenRsp, listenReq, listening)
             better == Line(Append(listenRsp, x), Tail(listenReq), listening)
  <2>1. /\ listenReq # <<>> /\ listenRsp' = Append(listenRsp, x) /\ listenReq' = Tail(listenReq)
        /\ UNCHANGED <<usedReq, usedRsp>>
    BY <1>5 DEF CheckListening
  <2>2. Head(listenReq) \in Ports /\ Tail(listenReq) \in Seq(Ports) BY <2>1, <1>4, HeadTailProperties
  <2>3. x \in Answers /\ x.port = Head(listenReq) /\ x.open = (Head(listenReq) \in listening) BY <2>2 DEF Answers
  <2>4. Append(listenRsp, x) \in Seq(Answers) BY <2>3, <1>4
  <2>5. line \in Seq(Answers) /\ better \in Seq(Answers) BY <2>2, <2>4, <1>4, LineIsSeq
  <2> HIDE DEF x
  <2>6. Len(better) = Len(line) /\ \A k \in 1 .. Len(line) : better[k].port = line[k].port /\ (line[k].open => better[k].open)
    <3>1. /\ Len(better) = Len(line)
          /\ \A k \in 1 .. Len(line) :
                /\ better[k].port = line[k].port
                /\ \/ better[k].open = line[k].open
                   \/ better[k].open = x.open /\ line[k].open = (Head(listenReq) \in listening)
      <4>1. listenRsp \in Seq(Answers) /\ listenReq \in Seq(Ports) /\ listenReq # <<>> /\ x \in Answers
            /\ x.port = Head(listenReq)
        BY <2>1, <2>3, <1>4
      <4> QED BY <4>1, AnsweredLine
    <3> HIDE DEF better, line
    <3> QED BY <3>1, <2>3
  <2>7. Meets(line, asked, TRUE) BY DEF OrderInv
  <2> HIDE DEF line, better
  <2>8. Meets(better, asked, TRUE) BY <2>5, <2>6, <2>7, <1>4, BetterMeets
  <2>9. Meets(Line(listenRsp, listenReq, listening), asked, TRUE)' BY <2>1, <2>8, <1>1 DEF better
  <2>10. Meets(Line(usedRsp, usedReq, {}), asked, FALSE)' BY <2>1, <1>1 DEF OrderInv
  <2> QED BY <1>2, <1>3, <2>9, <2>10 DEF OrderInv
<1>6. CASE CheckUsed
  <2> DEFINE x == [port |-> Head(usedReq), open |-> IndexOf(Head(usedReq)) \in usedPorts]
             line == Line(usedRsp, usedReq, {})
             better == Line(Append(usedRsp, x), Tail(usedReq), {})
  <2>1. /\ usedReq # <<>> /\ usedRsp' = Append(usedRsp, x) /\ usedReq' = Tail(usedReq)
        /\ UNCHANGED <<listenReq, listenRsp>>
    BY <1>6 DEF CheckUsed
  <2>2. Head(usedReq) \in Ports /\ Tail(usedReq) \in Seq(Ports) BY <2>1, <1>4, HeadTailProperties
  <2>3. x \in Answers /\ x.port = Head(usedReq) BY <2>2 DEF Answers
  <2>4. Append(usedRsp, x) \in Seq(Answers) BY <2>3, <1>4
  <2>5. line \in Seq(Answers) /\ better \in Seq(Answers) BY <2>2, <2>4, <1>4, LineIsSeq
  <2> HIDE DEF x
  <2>6. Len(better) = Len(line) /\ \A k \in 1 .. Len(line) : better[k].port = line[k].port
    <3>1. usedRsp \in Seq(Answers) /\ usedReq \in Seq(Ports) /\ usedReq # <<>> /\ x \in Answers
          /\ x.port = Head(usedReq)
      BY <2>1, <2>3, <1>4
    <3> QED BY <3>1, AnsweredLine
  <2>7. Meets(line, asked, FALSE) BY DEF OrderInv
  <2> HIDE DEF line, better
  <2>8. Meets(better, asked, FALSE) BY <2>5, <2>6, <2>7, <1>4, BetterMeets
  <2>9. Meets(Line(usedRsp, usedReq, {}), asked, FALSE)' BY <2>1, <2>8, <1>1 DEF better
  <2>10. Meets(Line(listenRsp, listenReq, listening), asked, TRUE)' BY <2>1, <1>1 DEF OrderInv
  <2> QED BY <1>2, <1>3, <2>9, <2>10 DEF OrderInv
<1> QED BY <1>5, <1>6

\* check_out takes the next entry of dst.
LEMMA ReadDstKeepsOrder ==
    ASSUME PortTypeOK, OrderInv, ReadDst
    PROVE  OrderInv'
<1>1. UNCHANGED <<listening, listenReq, listenRsp, usedReq, usedRsp, asked>> BY DEF ReadDst, tables
<1>2. /\ cm = "READ_DST" /\ dst # <<>> /\ dst' = Tail(dst)
      /\ cm' = IF Head(dst) = "LT" THEN "READ_LISTENING" ELSE "READ_USED"
  BY DEF ReadDst
<1>3. dst \in Seq({"LT", "FT"}) /\ asked \in Seq(Answers) BY DEF PortTypeOK
<1>4. Busy = 0 /\ Busy' = 1 BY <1>2 DEF Busy
<1>5. Len(asked) = Len(dst) /\ Len(dst') = Len(dst) - 1 /\ Head(dst) = dst[1] /\ Head(dst) \in {"LT", "FT"}
  BY <1>2, <1>3, <1>4 DEF OrderInv, EachHasItsTable
<1>6. ASSUME NEW i \in DOMAIN asked PROVE TableOf(i)' = TableOf(i)
  <2>1. i \in 1 .. Len(dst) BY <1>3, <1>5
  <2>2. TableOf(i) = dst[i] BY <2>1, <1>4 DEF TableOf
  <2>3. CASE i = 1 BY <2>2, <2>3, <1>2, <1>4, <1>5 DEF TableOf
  <2>4. CASE i # 1
    <3>1. i > 1 /\ i - 1 \in 1 .. Len(dst) - 1 /\ (i - 1) + 1 = i BY <2>1, <2>4
    <3>2. dst'[i - 1] = dst[i] BY <3>1, <1>2, <1>3
    <3> QED BY <2>2, <3>1, <3>2, <1>4 DEF TableOf
  <2> QED BY <2>3, <2>4
<1>7. EachHasItsTable' BY <1>1, <1>3, <1>4, <1>5, <1>6 DEF OrderInv, EachHasItsTable
<1>8. OpenStaysOpen' BY <1>1 DEF OrderInv, OpenStaysOpen
<1>9. Meets(Line(listenRsp, listenReq, listening), asked, TRUE)' BY <1>1 DEF OrderInv
<1>10. Meets(Line(usedRsp, usedReq, {}), asked, FALSE)' BY <1>1 DEF OrderInv
<1> QED BY <1>7, <1>8, <1>9, <1>10 DEF OrderInv

\* The check that is answered leaves the others with their tables.
LEMMA RestHasItsTable ==
    ASSUME PortTypeOK, EachHasItsTable, cm # "READ_DST", cm' = "READ_DST", asked' = Tail(asked), dst' = dst
    PROVE  EachHasItsTable'
<1>1. dst \in Seq({"LT", "FT"}) /\ asked \in Seq(Answers) BY DEF PortTypeOK
<1>2. Busy = 1 /\ Busy' = 0 BY DEF Busy
<1>3. asked # <<>> /\ Len(asked) = Len(dst) + 1 BY SomethingIsAsked
<1>4. Len(asked') = Len(dst) BY <1>1, <1>3
<1>5. ASSUME NEW i \in DOMAIN asked' PROVE TableOf(i)' = IF asked'[i].port < Half THEN "LT" ELSE "FT"
  <2>1. i \in 1 .. Len(dst) BY <1>1, <1>3
  <2>2. TableOf(i)' = dst[i] BY <2>1, <1>2 DEF TableOf
  <2>3. i + 1 \in DOMAIN asked /\ i + 1 > 1 /\ (i + 1) - 1 = i BY <2>1, <1>1, <1>3
  <2>4. TableOf(i + 1) = dst[i] BY <2>3, <1>2 DEF TableOf
  <2>5. asked'[i] = asked[i + 1] BY <2>1, <1>1, <1>3
  <2> QED BY <2>2, <2>3, <2>4, <2>5 DEF EachHasItsTable
<1> QED BY <1>2, <1>4, <1>5, <1>1 DEF EachHasItsTable

LEMMA ReadListeningKeepsOrder ==
    ASSUME PortTypeOK, OrderInv, ReadListening
    PROVE  OrderInv' /\ AnswersInOrder' /\ ListenIsSeen'
<1>1. /\ cm = "READ_LISTENING" /\ cm' = "READ_DST" /\ listenRsp # <<>> /\ listenRsp' = Tail(listenRsp)
      /\ replied' = [answer |-> Head(listenRsp), ask |-> Head(asked)] /\ asked' = Tail(asked)
      /\ UNCHANGED <<listening, listenReq, usedReq, usedRsp, dst>>
  BY DEF ReadListening, ReadsFrom, AfterRead, Reply, tables
<1>2. /\ asked \in Seq(Answers) /\ listenRsp \in Seq(Answers) /\ usedRsp \in Seq(Answers)
      /\ listenReq \in Seq(Ports) /\ usedReq \in Seq(Ports)
  BY RequestsArePorts DEF PortTypeOK
<1>3. asked # <<>> /\ Head(asked) = asked[1] /\ 1 \in DOMAIN asked BY <1>1, <1>2, SomethingIsAsked DEF OrderInv
<1>4. asked[1].port < Half
  <2>1. TableOf(1) = "LT" BY <1>1 DEF TableOf, Busy
  <2> QED BY <2>1, <1>3 DEF OrderInv, EachHasItsTable
<1> DEFINE line == Line(listenRsp, listenReq, listening)
           other == Line(usedRsp, usedReq, {})
<1>5. line \in Seq(Answers) /\ other \in Seq(Answers) BY <1>2, LineIsSeq
<1>6. line[1] = Head(listenRsp) /\ Line(Tail(listenRsp), listenReq, listening) = Tail(line)
  BY <1>1, <1>2, ReadLine
<1>7. Meets(line, asked, TRUE) /\ Meets(other, asked, FALSE) BY DEF OrderInv
<1> HIDE DEF line, other
<1>8. /\ line[1].port = asked[1].port /\ (asked[1].open => line[1].open)
      /\ Meets(Tail(line), Tail(asked), TRUE)
  <2>1. (asked[1].port < Half) = TRUE BY <1>4
  <2> QED BY <2>1, <1>2, <1>3, <1>5, <1>7, FirstMeets
<1>9. Meets(other, Tail(asked), FALSE)
  <2>1. (asked[1].port < Half) # FALSE BY <1>4
  <2> QED BY <2>1, <1>2, <1>3, <1>5, <1>7, OtherFirstMeets
<1>10. Meets(Line(listenRsp, listenReq, listening), asked, TRUE)' BY <1>1, <1>6, <1>8
<1>11. Meets(Line(usedRsp, usedReq, {}), asked, FALSE)' BY <1>1, <1>9 DEF other
<1>12. EachHasItsTable' BY <1>1, RestHasItsTable DEF OrderInv
<1>13. OpenStaysOpen'
  <2>1. \A i \in DOMAIN asked' : i + 1 \in DOMAIN asked /\ asked'[i] = asked[i + 1] BY <1>1, <1>2, <1>3
  <2> QED BY <2>1, <1>1 DEF OrderInv, OpenStaysOpen
<1>14. AnswersInOrder' /\ ListenIsSeen' BY <1>1, <1>3, <1>6, <1>8 DEF AnswersInOrder, ListenIsSeen
<1> QED BY <1>10, <1>11, <1>12, <1>13, <1>14 DEF OrderInv

\* A port of the other half is never listened on.
LEMMA ReadUsedKeepsOrder ==
    ASSUME PortTypeOK, OrderInv, ReadUsed
    PROVE  OrderInv' /\ AnswersInOrder' /\ ListenIsSeen'
<1>1. /\ cm = "READ_USED" /\ cm' = "READ_DST" /\ usedRsp # <<>> /\ usedRsp' = Tail(usedRsp)
      /\ replied' = [answer |-> Head(usedRsp), ask |-> Head(asked)] /\ asked' = Tail(asked)
      /\ UNCHANGED <<listening, listenReq, usedReq, listenRsp, dst>>
  BY DEF ReadUsed, ReadsFrom, AfterRead, Reply, tables
<1>2. /\ asked \in Seq(Answers) /\ listenRsp \in Seq(Answers) /\ usedRsp \in Seq(Answers)
      /\ listenReq \in Seq(Ports) /\ usedReq \in Seq(Ports)
  BY RequestsArePorts DEF PortTypeOK
<1>3. asked # <<>> /\ Head(asked) = asked[1] /\ 1 \in DOMAIN asked BY <1>1, <1>2, SomethingIsAsked DEF OrderInv
<1>4. ~(asked[1].port < Half)
  <2>1. TableOf(1) = "FT" BY <1>1 DEF TableOf, Busy
  <2> QED BY <2>1, <1>3 DEF OrderInv, EachHasItsTable
<1> DEFINE line == Line(usedRsp, usedReq, {})
           other == Line(listenRsp, listenReq, listening)
<1>5. line \in Seq(Answers) /\ other \in Seq(Answers) BY <1>2, LineIsSeq
<1>6. line[1] = Head(usedRsp) /\ Line(Tail(usedRsp), usedReq, {}) = Tail(line) BY <1>1, <1>2, ReadLine
<1>7. Meets(line, asked, FALSE) /\ Meets(other, asked, TRUE) BY DEF OrderInv
<1> HIDE DEF line, other
<1>8. line[1].port = asked[1].port /\ Meets(Tail(line), Tail(asked), FALSE)
  <2>1. (asked[1].port < Half) = FALSE BY <1>4
  <2> QED BY <2>1, <1>2, <1>3, <1>5, <1>7, FirstMeets
<1>9. Meets(other, Tail(asked), TRUE)
  <2>1. (asked[1].port < Half) # TRUE BY <1>4
  <2> QED BY <2>1, <1>2, <1>3, <1>5, <1>7, OtherFirstMeets
<1>10. Meets(Line(usedRsp, usedReq, {}), asked, FALSE)' BY <1>1, <1>6, <1>8
<1>11. Meets(Line(listenRsp, listenReq, listening), asked, TRUE)' BY <1>1, <1>9 DEF other
<1>12. EachHasItsTable' BY <1>1, RestHasItsTable DEF OrderInv
<1>13. OpenStaysOpen'
  <2>1. \A i \in DOMAIN asked' : i + 1 \in DOMAIN asked /\ asked'[i] = asked[i + 1] BY <1>1, <1>2, <1>3
  <2> QED BY <2>1, <1>1 DEF OrderInv, OpenStaysOpen
<1>14. ~asked[1].open
  <2>1. asked[1].open => asked[1].port \in listening BY <1>3 DEF OrderInv, OpenStaysOpen
  <2>2. listening \subseteq Indexes BY DEF PortTypeOK
  <2>3. \A p \in Indexes : p < Half BY HalfIsPositive DEF Indexes
  <2> QED BY <2>1, <2>2, <2>3, <1>4
<1>15. AnswersInOrder' /\ ListenIsSeen' BY <1>1, <1>3, <1>6, <1>8, <1>14 DEF AnswersInOrder, ListenIsSeen
<1> QED BY <1>10, <1>11, <1>12, <1>13, <1>15 DEF OrderInv

-----------------------------------------------------------------------------
(* The theorems                                                            *)

IInv == PortTypeOK /\ OrderInv /\ AnswersInOrder /\ ListenIsSeen

LEMMA InitOrder == PortInit => IInv
<1> SUFFICES ASSUME PortInit PROVE IInv OBVIOUS
<1>1. PortTypeOK BY InitTypes
<1>2. EachHasItsTable /\ OpenStaysOpen BY DEF PortInit, EachHasItsTable, TableOf, Busy, OpenStaysOpen
<1>3. Len(Line(<<>>, <<>>, {})) = 0
  <2>1. ASSUME NEW e, e \in Seq(Answers), e \in Seq(Ports), Len(e) = 0 PROVE Len(Line(e, e, {})) = 0
    <3>1. Len(Line(e, e, {})) = Len(e) + Len(e) BY <2>1, LineIsSeq
    <3> QED BY <3>1, <2>1
  <2>2. <<>> \in Seq(Answers) /\ <<>> \in Seq(Ports) /\ Len(<<>>) = 0 OBVIOUS
  <2> QED BY <2>1, <2>2
<1>4. \A low \in BOOLEAN : Leads(<<>>, Line(<<>>, <<>>, {}), <<>>, low) BY <1>3 DEF Leads
<1>5. \A low \in BOOLEAN : Meets(Line(<<>>, <<>>, {}), <<>>, low) BY <1>4 DEF Meets
<1>6. OrderInv BY <1>2, <1>5 DEF OrderInv, PortInit
<1> QED BY <1>1, <1>6 DEF IInv, PortInit, AnswersInOrder, ListenIsSeen

LEMMA NextOrder == IInv /\ [PortNext]_portVars => IInv'
<1> SUFFICES ASSUME IInv, [PortNext]_portVars PROVE IInv' OBVIOUS
<1> USE DEF IInv
<1>1. PortTypeOK' BY NextTypes DEF OrderInv
<1>2. ASSUME UNCHANGED replied PROVE AnswersInOrder' /\ ListenIsSeen' BY <1>2 DEF AnswersInOrder, ListenIsSeen
<1>3. ASSUME UNCHANGED <<listening, checks>> PROVE IInv' BY <1>1, <1>2, <1>3, SameOrder DEF checks
<1>4. ASSUME NEW p \in Ports, Listen(p) PROVE IInv' BY <1>1, <1>2, <1>4, ListenKeepsOrder DEF Listen, checks
<1>5. ASSUME NEW p \in Ports, CheckIn(p) PROVE IInv' BY <1>1, <1>2, <1>5, CheckInKeepsOrder DEF CheckIn
<1>6. CASE CheckListening \/ CheckUsed
  <2>1. UNCHANGED replied BY <1>6 DEF CheckListening, CheckUsed
  <2> QED BY <1>1, <1>2, <1>6, <2>1, AnswerKeepsOrder
<1>7. CASE ReadDst
  <2>1. AnswersInOrder' /\ ListenIsSeen' BY <1>7 DEF ReadDst, AnswersInOrder, ListenIsSeen
  <2> QED BY <1>1, <1>7, <2>1, ReadDstKeepsOrder
<1>8. CASE ReadListening BY <1>1, <1>8, ReadListeningKeepsOrder
<1>9. CASE ReadUsed BY <1>1, <1>9, ReadUsedKeepsOrder
<1>10. CASE ReleasePort BY <1>3, <1>10 DEF ReleasePort
<1>11. CASE FindPort BY <1>3, <1>11 DEF FindPort
<1>12. CASE Open BY <1>3, <1>12 DEF Open, tables
<1>13. ASSUME NEW id \in Owners, Accept(id) PROVE IInv' BY <1>3, <1>13 DEF Accept, tables
<1>14. ASSUME NEW id \in Owners, Close(id) PROVE IInv' BY <1>3, <1>14 DEF Close, tables
<1>15. CASE UNCHANGED portVars BY <1>3, <1>15 DEF portVars, tables
<1> QED BY <1>4, <1>5, <1>6, <1>7, <1>8, <1>9, <1>10, <1>11, <1>12, <1>13, <1>14, <1>15, WirePortsAssumption DEF PortNext

LEMMA Invariance == PortSpec => []IInv
BY InitOrder, NextOrder, PTL DEF PortSpec

\* Every FIFO holds what it is read as, and ports of the half its table is for
\* (port_table.cpp:39, free_port_table and listening_port_table).
THEOREM TypeCorrect == PortSpec => []PortTypeOK
<1>1. IInv => PortTypeOK BY DEF IInv
<1> QED BY <1>1, Invariance, PTL

\* rx_engine gets the answers in the order of its checks, whichever table is
\* faster (check_in_multiplexer and check_out_multiplexer).
THEOREM OrderIsKept == PortSpec => []AnswersInOrder
<1>1. IInv => AnswersInOrder BY DEF IInv
<1> QED BY <1>1, Invariance, PTL

\* A check that was asked after the application had been told that it listens on
\* the port is answered that the port is open.
THEOREM ListeningIsSeen == PortSpec => []ListenIsSeen
<1>1. IInv => ListenIsSeen BY DEF IInv
<1> QED BY <1>1, Invariance, PTL

-----------------------------------------------------------------------------
(* The way of received bytes: the segments in rx_engine, by their names    *)

Kinds == {"ACK", "FIN", "PORT", "MISS", "SYN", "RST"}
Metas == [id : Nat, kind : Kinds, session : RxSessions, seq : Nat, length : Nat]
SarRows == [recvd : Nat, appd : Nat, head : Nat, offset : Nat, gap : BOOLEAN]
Decisions == [drop : BOOLEAN, id : Nat]
Payloads == [id : Nat, data : Seq((RxSessions \X Int) \cup {Foreign})]

DecisionTypes ==
    /\ build \in {"bypass", "memory", "scaled"}
    /\ arrived \in Nat
    /\ payloadQ \in Seq(Payloads)
    /\ metaQ \in Seq(Metas) /\ fsmQ \in Seq(Metas)
    /\ looking = <<>> \/ looking \in Metas
    /\ loaded = <<>> \/ loaded \in [segment : Metas, row : SarRows]
    /\ drop1Q \in Seq(Decisions) /\ drop2Q \in Seq(Decisions)
    /\ dropper \in [state : {"READ_DROP1", "READ_DROP2", "FWD", "DROP"}, of : Nat]
    /\ sar \in [RxSessions -> SarRows]

(* A segment with flags that take no decision carries no data; one of a    *)
(* stream is a piece of it.                                                *)
Piece(g, c) == c[3] = g.kind /\ g.seq = RxFirst + c[1] /\ g.length = c[2]
WellCut(g) ==
    /\ g.kind \in {"SYN", "RST"} => g.length = 0
    /\ g.kind \in {"ACK", "FIN"} => \E c \in Cuts[g.session] : Piece(g, c)
AllWellCut ==
    /\ \A i \in DOMAIN metaQ : WellCut(metaQ[i])
    /\ \A i \in DOMAIN fsmQ : WellCut(fsmQ[i])
    /\ looking # <<>> => WellCut(looking)
    /\ loaded # <<>> => WellCut(loaded.segment)

(* Behind a gap a piece of the stream begins.                              *)
GapIsSound(r, s) ==
    r.gap =>
       /\ build # "bypass" /\ r.recvd < r.offset
       /\ \E c \in Cuts[s] : r.offset = RxFirst + c[1]
GapsAreSound ==
    /\ \A s \in RxSessions : GapIsSound(sar[s], s)
    /\ loaded # <<>> => GapIsSound(loaded.row, loaded.segment.session)

(* The names of the segments in the queues: they come in their order.      *)
Names(q) == [i \in DOMAIN q |-> q[i].id]
Rising(q) == \A i, j \in DOMAIN q : i < j => q[i] < q[j]
Among(q) == {q[i] : i \in DOMAIN q}
Below(A, B) == \A a \in A, b \in B : a < b

InHand == IF dropper.state = "READ_DROP1" THEN {} ELSE {dropper.of}
Awaited == IF dropper.state = "READ_DROP2" THEN {dropper.of} ELSE {}
InLookup == IF looking = <<>> THEN {} ELSE {looking.id}
InFsm == IF loaded = <<>> THEN {} ELSE {loaded.segment.id}
WithData(q) == {q[i].id : i \in {j \in DOMAIN q : q[j].length # 0}}
LookupData == IF looking = <<>> \/ looking.length = 0 THEN {} ELSE {looking.id}
FsmData == IF loaded = <<>> \/ loaded.segment.length = 0 THEN {} ELSE {loaded.segment.id}
Kept(q) == {q[i].id : i \in {j \in DOMAIN q : ~q[j].drop}}

NamesRise ==
    /\ Rising(Names(payloadQ)) /\ Rising(Names(metaQ)) /\ Rising(Names(fsmQ))
    /\ Rising(Names(drop1Q)) /\ Rising(Names(drop2Q))
    /\ Below(InHand, Among(Names(drop1Q)))
    /\ Below(InHand \cup Among(Names(drop1Q)), InLookup \cup Among(Names(metaQ)))
    /\ Below(InLookup, Among(Names(metaQ)))
    /\ Below(Among(Names(drop2Q)), InFsm \cup Among(Names(fsmQ)))
    /\ Below(InFsm, Among(Names(fsmQ)))
    /\ Below(InFsm \cup Among(Names(fsmQ)), InLookup \cup Among(Names(metaQ)))
    /\ \A n \in Among(Names(payloadQ)) \cup Among(Names(metaQ)) \cup InLookup \cup InFsm \cup Among(Names(fsmQ)) :
          n <= arrived

(* Each payload has its first decision or will have it; each that is kept  *)
(* has its second decision or will have it.                                *)
DecidedInv ==
    /\ Among(Names(payloadQ)) = InHand \cup Among(Names(drop1Q)) \cup LookupData \cup WithData(metaQ)
    /\ Awaited \cup Kept(drop1Q) = Among(Names(drop2Q)) \cup FsmData \cup WithData(fsmQ)

DecisionInv == DecisionTypes /\ AllWellCut /\ GapsAreSound /\ NamesRise /\ DecidedInv
-----------------------------------------------------------------------------
(* Queues of names                                                         *)

LEMMA TailOf ==
    ASSUME NEW S, NEW q \in Seq(S), q # <<>>
    PROVE  /\ Head(q) \in S /\ Tail(q) \in Seq(S) /\ Head(q) = q[1]
           /\ 1 \in DOMAIN q
           /\ \A i \in DOMAIN Tail(q) : i + 1 \in DOMAIN q /\ Tail(q)[i] = q[i + 1]
           /\ \A i \in DOMAIN q : i = 1 \/ (i - 1 \in DOMAIN Tail(q) /\ Tail(q)[i - 1] = q[i])
<1>1. /\ Head(q) \in S /\ Tail(q) \in Seq(S) /\ Len(Tail(q)) = Len(q) - 1
      /\ \A i \in 1 .. Len(Tail(q)) : Tail(q)[i] = q[i + 1]
  BY HeadTailProperties
<1>2. PICK n \in Nat : n = Len(q)  OBVIOUS
<1>3. n # 0 BY <1>2, EmptySeq
<1>4. DOMAIN q = 1 .. n /\ DOMAIN Tail(q) = 1 .. n - 1 BY <1>1, <1>2
<1>5. \A i \in 1 .. n - 1 : i + 1 \in 1 .. n /\ Tail(q)[i] = q[i + 1] BY <1>1, <1>2
<1>6. \A i \in 1 .. n : i = 1 \/ (i - 1 \in 1 .. n - 1 /\ Tail(q)[i - 1] = q[i])
  <2> SUFFICES ASSUME NEW i \in 1 .. n, i # 1 PROVE i - 1 \in 1 .. n - 1 /\ Tail(q)[i - 1] = q[i]  OBVIOUS
  <2>1. PICK k \in 1 .. n - 1 : i = k + 1  OBVIOUS
  <2>2. i - 1 = k BY <2>1
  <2> QED BY <1>5, <2>1, <2>2
<1>7. Head(q) = q[1]  OBVIOUS
<1>8. 1 \in DOMAIN q BY <1>2, <1>3, <1>4
<1>9. \A i \in DOMAIN Tail(q) : i + 1 \in DOMAIN q /\ Tail(q)[i] = q[i + 1] BY <1>4, <1>5
<1>10. \A i \in DOMAIN q : i = 1 \/ (i - 1 \in DOMAIN Tail(q) /\ Tail(q)[i - 1] = q[i]) BY <1>4, <1>6
<1> QED BY <1>1, <1>7, <1>8, <1>9, <1>10

LEMMA AppendOf ==
    ASSUME NEW S, NEW q \in Seq(S), NEW e \in S
    PROVE  /\ Append(q, e) \in Seq(S)
           /\ Len(q) + 1 \in DOMAIN Append(q, e) /\ Append(q, e)[Len(q) + 1] = e
           /\ \A i \in DOMAIN q : i \in DOMAIN Append(q, e) /\ Append(q, e)[i] = q[i] /\ i < Len(q) + 1
           /\ \A i \in DOMAIN Append(q, e) : i \in DOMAIN q \/ i = Len(q) + 1
<1>1. PICK n \in Nat : n = Len(q)  OBVIOUS
<1>2. Append(q, e) \in Seq(S) /\ Len(Append(q, e)) = n + 1 BY <1>1
<1>3. DOMAIN q = 1 .. n /\ DOMAIN Append(q, e) = 1 .. n + 1 BY <1>1, <1>2
<1>4. \A i \in 1 .. n : Append(q, e)[i] = q[i] BY <1>1
<1>5. Append(q, e)[n + 1] = e BY <1>1
<1> QED BY <1>1, <1>2, <1>3, <1>4, <1>5

(* A queue whose entries have names, as the set of the names.              *)
LEMMA NamesTail ==
    ASSUME NEW S, \A x \in S : x.id \in Nat, NEW q \in Seq(S), q # <<>>, Rising(Names(q))
    PROVE  /\ Rising(Names(Tail(q)))
           /\ Among(Names(q)) = {Head(q).id} \cup Among(Names(Tail(q)))
           /\ \A n \in Among(Names(Tail(q))) : Head(q).id < n
           /\ Among(Names(q)) \subseteq Nat
<1>1. /\ Head(q) \in S /\ Tail(q) \in Seq(S) /\ Head(q) = q[1]
      /\ 1 \in DOMAIN q
      /\ \A i \in DOMAIN Tail(q) : i + 1 \in DOMAIN q /\ Tail(q)[i] = q[i + 1]
      /\ \A i \in DOMAIN q : i = 1 \/ (i - 1 \in DOMAIN Tail(q) /\ Tail(q)[i - 1] = q[i])
  BY TailOf
<1>2. DOMAIN Names(q) = DOMAIN q /\ \A i \in DOMAIN q : Names(q)[i] = q[i].id BY DEF Names
<1>3. DOMAIN Names(Tail(q)) = DOMAIN Tail(q) /\ \A i \in DOMAIN Tail(q) : Names(Tail(q))[i] = Tail(q)[i].id BY DEF Names
<1>4. DOMAIN q \subseteq Nat /\ DOMAIN Tail(q) \subseteq Nat \ {0} BY <1>1
<1>5. \A i, j \in DOMAIN q : i < j => q[i].id < q[j].id BY <1>2 DEF Rising
<1>6. Rising(Names(Tail(q)))
  <2> SUFFICES ASSUME NEW i \in DOMAIN Tail(q), NEW j \in DOMAIN Tail(q), i < j PROVE Tail(q)[i].id < Tail(q)[j].id
    BY <1>3 DEF Rising
  <2>1. i + 1 < j + 1 BY <1>4
  <2> QED BY <1>1, <1>5, <2>1
<1>7. Among(Names(q)) = {q[i].id : i \in DOMAIN q} BY <1>2 DEF Among
<1>8. Among(Names(Tail(q))) = {Tail(q)[i].id : i \in DOMAIN Tail(q)} BY <1>3 DEF Among
<1>9. \A n \in Among(Names(Tail(q))) : Head(q).id < n
  <2> SUFFICES ASSUME NEW i \in DOMAIN Tail(q) PROVE Head(q).id < Tail(q)[i].id BY <1>8
  <2>1. 1 < i + 1 BY <1>4
  <2> QED BY <1>1, <1>5, <2>1
<1>10. \A i \in DOMAIN q : q[i] \in S  OBVIOUS
<1>11. Among(Names(q)) \subseteq Nat BY <1>7, <1>10
<1>12. \A n \in Among(Names(q)) : n = Head(q).id \/ n \in Among(Names(Tail(q)))
  <2> SUFFICES ASSUME NEW i \in DOMAIN q PROVE q[i].id = Head(q).id \/ q[i].id \in Among(Names(Tail(q))) BY <1>7
  <2> QED BY <1>1, <1>8
<1>13. \A i \in DOMAIN Tail(q) : Tail(q)[i].id \in Among(Names(q)) BY <1>1, <1>7
<1>14. Head(q).id \in Among(Names(q)) BY <1>1, <1>7
<1>15. Among(Names(q)) = {Head(q).id} \cup Among(Names(Tail(q))) BY <1>8, <1>12, <1>13, <1>14
<1> QED BY <1>6, <1>9, <1>11, <1>15

LEMMA NamesAppend ==
    ASSUME NEW S, \A x \in S : x.id \in Nat, NEW q \in Seq(S), NEW e \in S,
           Rising(Names(q)), \A n \in Among(Names(q)) : n < e.id
    PROVE  /\ Rising(Names(Append(q, e)))
           /\ Among(Names(Append(q, e))) = Among(Names(q)) \cup {e.id}
<1> DEFINE p == Append(q, e)  k == Len(q) + 1
<1>1. /\ p \in Seq(S) /\ k \in DOMAIN p /\ p[k] = e
      /\ \A i \in DOMAIN q : i \in DOMAIN p /\ p[i] = q[i] /\ i < k
      /\ \A i \in DOMAIN p : i \in DOMAIN q \/ i = k
  BY AppendOf
<1>2. k \in Nat /\ DOMAIN q \subseteq Nat  OBVIOUS
<1> HIDE DEF p, k
<1>3. DOMAIN Names(q) = DOMAIN q /\ \A i \in DOMAIN q : Names(q)[i] = q[i].id BY DEF Names
<1>4. DOMAIN Names(p) = DOMAIN p /\ \A i \in DOMAIN p : Names(p)[i] = p[i].id BY DEF Names
<1>5. Among(Names(q)) = {q[i].id : i \in DOMAIN q} BY <1>3 DEF Among
<1>6. Among(Names(p)) = {p[i].id : i \in DOMAIN p} BY <1>4 DEF Among
<1>7. Among(Names(p)) = Among(Names(q)) \cup {e.id} BY <1>1, <1>5, <1>6
<1>8. \A i, j \in DOMAIN p : i < j => p[i].id < p[j].id
  <2> SUFFICES ASSUME NEW i \in DOMAIN p, NEW j \in DOMAIN p, i < j PROVE p[i].id < p[j].id  OBVIOUS
  <2>1. i \in DOMAIN q BY <1>1, <1>2
  <2>2. CASE j \in DOMAIN q BY <1>1, <1>3, <2>1, <2>2 DEF Rising
  <2>3. CASE j = k BY <1>1, <1>5, <2>1, <2>3
  <2> QED BY <1>1, <2>2, <2>3
<1>9. Rising(Names(p)) BY <1>4, <1>8 DEF Rising
<1> QED BY <1>7, <1>9 DEF p

LEMMA DataTail ==
    ASSUME NEW S, \A x \in S : x.id \in Nat, NEW q \in Seq(S), q # <<>>, Rising(Names(q))
    PROVE  /\ WithData(q) = (IF Head(q).length # 0 THEN {Head(q).id} ELSE {}) \cup WithData(Tail(q))
           /\ WithData(Tail(q)) \subseteq Among(Names(Tail(q)))
<1>1. /\ Head(q) \in S /\ Tail(q) \in Seq(S) /\ Head(q) = q[1]
      /\ 1 \in DOMAIN q
      /\ \A i \in DOMAIN Tail(q) : i + 1 \in DOMAIN q /\ Tail(q)[i] = q[i + 1]
      /\ \A i \in DOMAIN q : i = 1 \/ (i - 1 \in DOMAIN Tail(q) /\ Tail(q)[i - 1] = q[i])
  BY TailOf
<1>2. \A i \in DOMAIN q : q[i].length # 0 =>
        q[i].id \in (IF Head(q).length # 0 THEN {Head(q).id} ELSE {}) \cup WithData(Tail(q))
  <2> SUFFICES ASSUME NEW i \in DOMAIN q, q[i].length # 0
               PROVE  q[i].id \in (IF Head(q).length # 0 THEN {Head(q).id} ELSE {}) \cup WithData(Tail(q))
    OBVIOUS
  <2>1. CASE i = 1 BY <1>1, <2>1
  <2>2. CASE i # 1
    <3>1. PICK j \in DOMAIN Tail(q) : Tail(q)[j] = q[i] BY <1>1, <2>2
    <3>2. q[i].id \in WithData(Tail(q)) BY <3>1 DEF WithData
    <3> QED BY <3>2
  <2> QED BY <2>1, <2>2
<1>3. \A i \in DOMAIN Tail(q) : Tail(q)[i].length # 0 => Tail(q)[i].id \in WithData(q) BY <1>1 DEF WithData
<1>4. Head(q).length # 0 => Head(q).id \in WithData(q) BY <1>1 DEF WithData
<1>5. WithData(Tail(q)) \subseteq Among(Names(Tail(q))) BY DEF WithData, Among, Names
<1> QED BY <1>2, <1>3, <1>4, <1>5 DEF WithData

LEMMA DataAppend ==
    ASSUME NEW S, NEW q \in Seq(S), NEW e \in S
    PROVE  WithData(Append(q, e)) = WithData(q) \cup (IF e.length # 0 THEN {e.id} ELSE {})
<1> DEFINE p == Append(q, e)  k == Len(q) + 1
<1>1. /\ p \in Seq(S) /\ k \in DOMAIN p /\ p[k] = e
      /\ \A i \in DOMAIN q : i \in DOMAIN p /\ p[i] = q[i]
      /\ \A i \in DOMAIN p : i \in DOMAIN q \/ i = k
  BY AppendOf
<1> HIDE DEF p, k
<1>2. WithData(p) = WithData(q) \cup (IF e.length # 0 THEN {e.id} ELSE {}) BY <1>1 DEF WithData
<1> QED BY <1>2 DEF p

LEMMA KeptTail ==
    ASSUME NEW S, \A x \in S : x.id \in Nat, NEW q \in Seq(S), q # <<>>, Rising(Names(q))
    PROVE  /\ Kept(q) = (IF Head(q).drop THEN {} ELSE {Head(q).id}) \cup Kept(Tail(q))
           /\ Kept(Tail(q)) \subseteq Among(Names(Tail(q)))
<1>1. /\ Head(q) \in S /\ Tail(q) \in Seq(S) /\ Head(q) = q[1]
      /\ 1 \in DOMAIN q
      /\ \A i \in DOMAIN Tail(q) : i + 1 \in DOMAIN q /\ Tail(q)[i] = q[i + 1]
      /\ \A i \in DOMAIN q : i = 1 \/ (i - 1 \in DOMAIN Tail(q) /\ Tail(q)[i - 1] = q[i])
  BY TailOf
<1>2. \A i \in DOMAIN q : ~q[i].drop =>
        q[i].id \in (IF Head(q).drop THEN {} ELSE {Head(q).id}) \cup Kept(Tail(q))
  <2> SUFFICES ASSUME NEW i \in DOMAIN q, ~q[i].drop
               PROVE  (~Head(q).drop /\ q[i].id = Head(q).id) \/ q[i].id \in Kept(Tail(q))
    OBVIOUS
  <2>1. CASE i = 1 BY <1>1, <2>1
  <2>2. CASE i - 1 \in DOMAIN Tail(q) /\ Tail(q)[i - 1] = q[i] BY <2>2 DEF Kept
  <2> QED BY <1>1, <2>1, <2>2
<1>3. \A i \in DOMAIN Tail(q) : ~Tail(q)[i].drop => Tail(q)[i].id \in Kept(q) BY <1>1 DEF Kept
<1>4. ~Head(q).drop => Head(q).id \in Kept(q) BY <1>1 DEF Kept
<1>5. Kept(Tail(q)) \subseteq Among(Names(Tail(q))) BY DEF Kept, Among, Names
<1> QED BY <1>2, <1>3, <1>4, <1>5 DEF Kept

LEMMA KeptAppend ==
    ASSUME NEW S, NEW q \in Seq(S), NEW e \in S
    PROVE  Kept(Append(q, e)) = Kept(q) \cup (IF e.drop THEN {} ELSE {e.id})
<1> DEFINE p == Append(q, e)  k == Len(q) + 1
<1>1. /\ p \in Seq(S) /\ k \in DOMAIN p /\ p[k] = e
      /\ \A i \in DOMAIN q : i \in DOMAIN p /\ p[i] = q[i]
      /\ \A i \in DOMAIN p : i \in DOMAIN q \/ i = k
  BY AppendOf
<1> HIDE DEF p, k
<1>2. Kept(p) = Kept(q) \cup (IF e.drop THEN {} ELSE {e.id}) BY <1>1 DEF Kept
<1> QED BY <1>2 DEF p

-----------------------------------------------------------------------------
(* The steps                                                               *)

LEMMA DecisionStart == Receive!Init => DecisionInv
<1> SUFFICES ASSUME Receive!Init PROVE DecisionInv  OBVIOUS
<1> USE DEF Receive!Init
<1>1. DecisionTypes
  <2>1. \A s \in RxSessions : sar[s] \in SarRows
    <3>1. \A n \in Nat, b \in Nat \ {0} : n % b \in Nat  OBVIOUS
    <3>2. Receive!Ring(RxFirst) \in Nat BY <3>1, ReceiveAssumption DEF Receive!Ring
    <3>3. RxFirst \in Nat BY ReceiveAssumption
    <3> QED BY <3>2, <3>3 DEF SarRows
  <2>2. sar \in [RxSessions -> SarRows] BY <2>1
  <2>3. build \in {"bypass", "memory", "scaled"} BY ReceiveAssumption
  <2>4. dropper \in [state : {"READ_DROP1", "READ_DROP2", "FWD", "DROP"}, of : Nat]  OBVIOUS
  <2>5. payloadQ = <<>> /\ metaQ = <<>> /\ fsmQ = <<>> /\ drop1Q = <<>> /\ drop2Q = <<>>
        /\ looking = <<>> /\ loaded = <<>> /\ arrived = 0
    OBVIOUS
  <2>6. <<>> \in Seq(Payloads) /\ <<>> \in Seq(Metas) /\ <<>> \in Seq(Decisions)  OBVIOUS
  <2> HIDE DEF Receive!Init
  <2> QED BY <2>2, <2>3, <2>4, <2>5, <2>6 DEF DecisionTypes
<1>2. AllWellCut BY DEF AllWellCut
<1>3. GapsAreSound BY DEF GapsAreSound, GapIsSound
<1>4. Names(<<>>) = <<>> BY DEF Names
<1>5. Among(<<>>) = {} /\ WithData(<<>>) = {} /\ Kept(<<>>) = {} BY DEF Among, WithData, Kept
<1>6. NamesRise BY <1>4, <1>5 DEF NamesRise, Rising, Below, InHand, InLookup, InFsm
<1>7. DecidedInv BY <1>4, <1>5 DEF DecidedInv, InHand, Awaited, LookupData, FsmData
<1> QED BY <1>1, <1>2, <1>3, <1>6, <1>7 DEF DecisionInv

(* What the decisions do not depend on.                                    *)
KeepsRows ==
    /\ sar' \in [RxSessions -> SarRows]
    /\ \A s \in RxSessions : [sar'[s] EXCEPT !.appd = 0] = [sar[s] EXCEPT !.appd = 0]

LEMMA DecisionRests ==
    ASSUME DecisionInv, KeepsRows,
           UNCHANGED <<build, arrived, payloadQ, metaQ, looking, fsmQ, loaded, drop1Q, drop2Q, dropper>>
    PROVE  DecisionInv'
<1>1. DecisionTypes' BY DEF DecisionInv, DecisionTypes, KeepsRows
<1>2. AllWellCut' BY DEF DecisionInv, AllWellCut
<1>3. \A s \in RxSessions : /\ sar'[s].recvd = sar[s].recvd /\ sar'[s].gap = sar[s].gap
                            /\ sar'[s].offset = sar[s].offset
  <2> SUFFICES ASSUME NEW s \in RxSessions
               PROVE  /\ sar'[s].recvd = sar[s].recvd /\ sar'[s].gap = sar[s].gap
                      /\ sar'[s].offset = sar[s].offset
    OBVIOUS
  <2>1. sar[s] \in SarRows /\ sar'[s] \in SarRows BY DEF DecisionInv, DecisionTypes, KeepsRows
  <2>2. PICK a \in SarRows, b \in SarRows : a = sar[s] /\ b = sar'[s] BY <2>1
  <2>3. [b EXCEPT !.appd = 0] = [a EXCEPT !.appd = 0] BY <2>2 DEF KeepsRows
  <2>4. a.recvd = [a EXCEPT !.appd = 0].recvd /\ a.gap = [a EXCEPT !.appd = 0].gap
        /\ a.offset = [a EXCEPT !.appd = 0].offset BY DEF SarRows
  <2>5. b.recvd = [b EXCEPT !.appd = 0].recvd /\ b.gap = [b EXCEPT !.appd = 0].gap
        /\ b.offset = [b EXCEPT !.appd = 0].offset BY DEF SarRows
  <2> QED BY <2>2, <2>3, <2>4, <2>5
<1>4. GapsAreSound' BY <1>3 DEF DecisionInv, GapsAreSound, GapIsSound
<1>5. NamesRise' /\ DecidedInv'
  BY DEF DecisionInv, NamesRise, DecidedInv, InHand, Awaited, InLookup, InFsm, LookupData, FsmData
<1> QED BY <1>1, <1>2, <1>4, <1>5 DEF DecisionInv

LEMMA SegmentIs ==
    ASSUME NEW g \in Receive!Segments
    PROVE  /\ g.kind \in Kinds /\ g.session \in RxSessions /\ g.seq \in Nat /\ g.length \in Nat
           /\ g.data \in Seq((RxSessions \X Int) \cup {Foreign})
           /\ WellCut(g)
<1>1. CASE \E s \in RxSessions : \E c \in Cuts[s] : g = Receive!Data(s, c)
  <2>1. PICK s \in RxSessions : \E c \in Cuts[s] : g = Receive!Data(s, c) BY <1>1
  <2>2. PICK c \in Cuts[s] : g = Receive!Data(s, c) BY <2>1
  <2>3. c \in Nat \X Nat \X {"ACK", "FIN"} BY <2>2, ReceiveAssumption
  <2>4. PICK a \in Nat, n \in Nat, k \in {"ACK", "FIN"} : c = <<a, n, k>> BY <2>3
  <2>5. PICK f \in Nat : f = RxFirst + a BY <2>4, ReceiveAssumption
  <2>6. g = [kind |-> k, session |-> s, seq |-> f, length |-> n, data |-> Receive!Bytes(s, f, n)]
    BY <2>2, <2>4, <2>5 DEF Receive!Data
  <2>7. Receive!Bytes(s, f, n) \in Seq((RxSessions \X Int) \cup {Foreign})
    BY DEF Receive!Bytes, Receive!Byte
  <2>8. Piece(g, c) BY <2>4, <2>5, <2>6 DEF Piece
  <2>9. WellCut(g) BY <2>2, <2>6, <2>8 DEF WellCut
  <2> QED BY <2>6, <2>7, <2>9 DEF Kinds
<1>2. CASE \E x \in Strays : g = Receive!Stray(x[1], x[2], x[3])
  <2>1. PICK x \in Strays : g = Receive!Stray(x[1], x[2], x[3]) BY <1>2
  <2>2. x \in RxSessions \X {"PORT", "MISS", "SYN", "RST"} \X Nat /\ (x[2] \in {"SYN", "RST"} => x[3] = 0)
    BY ReceiveAssumption
  <2>3. PICK s \in RxSessions, k \in {"PORT", "MISS", "SYN", "RST"}, n \in Nat : x = <<s, k, n>> BY <2>2
  <2>4. g = [kind |-> k, session |-> s, seq |-> RxFirst, length |-> n, data |-> [i \in 1 .. n |-> Foreign]]
    BY <2>1, <2>3 DEF Receive!Stray
  <2>5. k \in {"SYN", "RST"} => n = 0 BY <2>2, <2>3
  <2>6. WellCut(g) BY <2>4, <2>5 DEF WellCut
  <2>7. RxFirst \in Nat BY ReceiveAssumption
  <2> QED BY <2>4, <2>6, <2>7 DEF Kinds
<1>3. g \in UNION {{Receive!Data(s, c) : c \in Cuts[s]} : s \in RxSessions}
      \/ g \in {Receive!Stray(x[1], x[2], x[3]) : x \in Strays}
  BY DEF Receive!Segments
<1>4. ASSUME g \in UNION {{Receive!Data(s, c) : c \in Cuts[s]} : s \in RxSessions}
      PROVE  \E s \in RxSessions : \E c \in Cuts[s] : g = Receive!Data(s, c)
  BY <1>4
<1>5. ASSUME g \in {Receive!Stray(x[1], x[2], x[3]) : x \in Strays}
      PROVE  \E x \in Strays : g = Receive!Stray(x[1], x[2], x[3])
  BY <1>5
<1> QED BY <1>1, <1>2, <1>3, <1>4, <1>5

LEMMA MetasHaveNames == \A x \in Metas : x.id \in Nat BY DEF Metas
LEMMA DecisionsHaveNames == \A x \in Decisions : x.id \in Nat BY DEF Decisions
LEMMA PayloadsHaveNames == \A x \in Payloads : x.id \in Nat BY DEF Payloads

LEMMA MetaNames ==
    ASSUME NEW q \in Seq(Metas), Rising(Names(q))
    PROVE  /\ q # <<>> =>
                /\ Head(q) \in Metas /\ Tail(q) \in Seq(Metas)
                /\ Rising(Names(Tail(q)))
                /\ Among(Names(q)) = {Head(q).id} \cup Among(Names(Tail(q)))
                /\ \A n \in Among(Names(Tail(q))) : Head(q).id < n
                /\ WithData(q) = (IF Head(q).length # 0 THEN {Head(q).id} ELSE {}) \cup WithData(Tail(q))
           /\ \A e \in Metas : (\A n \in Among(Names(q)) : n < e.id) =>
                /\ Append(q, e) \in Seq(Metas)
                /\ Rising(Names(Append(q, e)))
                /\ Among(Names(Append(q, e))) = Among(Names(q)) \cup {e.id}
                /\ WithData(Append(q, e)) = WithData(q) \cup (IF e.length # 0 THEN {e.id} ELSE {})
           /\ Among(Names(q)) \subseteq Nat
           /\ WithData(q) \subseteq Among(Names(q))
<1>1. ASSUME q # <<>>
      PROVE  /\ Head(q) \in Metas /\ Tail(q) \in Seq(Metas)
             /\ Rising(Names(Tail(q)))
             /\ Among(Names(q)) = {Head(q).id} \cup Among(Names(Tail(q)))
             /\ \A n \in Among(Names(Tail(q))) : Head(q).id < n
             /\ WithData(q) = (IF Head(q).length # 0 THEN {Head(q).id} ELSE {}) \cup WithData(Tail(q))
  <2>1. Head(q) \in Metas /\ Tail(q) \in Seq(Metas) BY <1>1, TailOf
  <2>2. /\ Rising(Names(Tail(q)))
        /\ Among(Names(q)) = {Head(q).id} \cup Among(Names(Tail(q)))
        /\ \A n \in Among(Names(Tail(q))) : Head(q).id < n
    BY <1>1, NamesTail, MetasHaveNames
  <2>3. WithData(q) = (IF Head(q).length # 0 THEN {Head(q).id} ELSE {}) \cup WithData(Tail(q))
    BY <1>1, DataTail, MetasHaveNames
  <2> QED BY <2>1, <2>2, <2>3
<1>2. ASSUME NEW e \in Metas, \A n \in Among(Names(q)) : n < e.id
      PROVE  /\ Append(q, e) \in Seq(Metas)
             /\ Rising(Names(Append(q, e)))
             /\ Among(Names(Append(q, e))) = Among(Names(q)) \cup {e.id}
             /\ WithData(Append(q, e)) = WithData(q) \cup (IF e.length # 0 THEN {e.id} ELSE {})
  <2>1. Rising(Names(Append(q, e))) /\ Among(Names(Append(q, e))) = Among(Names(q)) \cup {e.id}
    BY <1>2, NamesAppend, MetasHaveNames
  <2>2. WithData(Append(q, e)) = WithData(q) \cup (IF e.length # 0 THEN {e.id} ELSE {}) BY DataAppend
  <2> QED BY <2>1, <2>2
<1>3. Among(Names(q)) \subseteq Nat
  <2>1. \A i \in DOMAIN q : q[i] \in Metas  OBVIOUS
  <2>2. \A i \in DOMAIN q : Names(q)[i] = q[i].id BY DEF Names
  <2>3. DOMAIN Names(q) = DOMAIN q BY DEF Names
  <2> QED BY <2>1, <2>2, <2>3, MetasHaveNames DEF Among
<1>4. WithData(q) \subseteq Among(Names(q)) BY DEF WithData, Among, Names
<1> QED BY <1>1, <1>2, <1>3, <1>4

LEMMA DecisionNames ==
    ASSUME NEW q \in Seq(Decisions), Rising(Names(q))
    PROVE  /\ q # <<>> =>
                /\ Head(q) \in Decisions /\ Tail(q) \in Seq(Decisions)
                /\ Rising(Names(Tail(q)))
                /\ Among(Names(q)) = {Head(q).id} \cup Among(Names(Tail(q)))
                /\ \A n \in Among(Names(Tail(q))) : Head(q).id < n
                /\ Kept(q) = (IF Head(q).drop THEN {} ELSE {Head(q).id}) \cup Kept(Tail(q))
           /\ \A e \in Decisions : (\A n \in Among(Names(q)) : n < e.id) =>
                /\ Append(q, e) \in Seq(Decisions)
                /\ Rising(Names(Append(q, e)))
                /\ Among(Names(Append(q, e))) = Among(Names(q)) \cup {e.id}
                /\ Kept(Append(q, e)) = Kept(q) \cup (IF e.drop THEN {} ELSE {e.id})
           /\ Among(Names(q)) \subseteq Nat
           /\ Kept(q) \subseteq Among(Names(q))
<1>1. ASSUME q # <<>>
      PROVE  /\ Head(q) \in Decisions /\ Tail(q) \in Seq(Decisions)
             /\ Rising(Names(Tail(q)))
             /\ Among(Names(q)) = {Head(q).id} \cup Among(Names(Tail(q)))
             /\ \A n \in Among(Names(Tail(q))) : Head(q).id < n
             /\ Kept(q) = (IF Head(q).drop THEN {} ELSE {Head(q).id}) \cup Kept(Tail(q))
  <2>1. Head(q) \in Decisions /\ Tail(q) \in Seq(Decisions) BY <1>1, TailOf
  <2>2. /\ Rising(Names(Tail(q)))
        /\ Among(Names(q)) = {Head(q).id} \cup Among(Names(Tail(q)))
        /\ \A n \in Among(Names(Tail(q))) : Head(q).id < n
    BY <1>1, NamesTail, DecisionsHaveNames
  <2>3. Kept(q) = (IF Head(q).drop THEN {} ELSE {Head(q).id}) \cup Kept(Tail(q))
    BY <1>1, KeptTail, DecisionsHaveNames
  <2> QED BY <2>1, <2>2, <2>3
<1>2. ASSUME NEW e \in Decisions, \A n \in Among(Names(q)) : n < e.id
      PROVE  /\ Append(q, e) \in Seq(Decisions)
             /\ Rising(Names(Append(q, e)))
             /\ Among(Names(Append(q, e))) = Among(Names(q)) \cup {e.id}
             /\ Kept(Append(q, e)) = Kept(q) \cup (IF e.drop THEN {} ELSE {e.id})
  <2>1. Rising(Names(Append(q, e))) /\ Among(Names(Append(q, e))) = Among(Names(q)) \cup {e.id}
    BY <1>2, NamesAppend, DecisionsHaveNames
  <2>2. Kept(Append(q, e)) = Kept(q) \cup (IF e.drop THEN {} ELSE {e.id}) BY KeptAppend
  <2> QED BY <2>1, <2>2
<1>3. Among(Names(q)) \subseteq Nat
  <2>1. \A i \in DOMAIN q : q[i] \in Decisions  OBVIOUS
  <2>2. \A i \in DOMAIN q : Names(q)[i] = q[i].id BY DEF Names
  <2>3. DOMAIN Names(q) = DOMAIN q BY DEF Names
  <2> QED BY <2>1, <2>2, <2>3, DecisionsHaveNames DEF Among
<1>4. Kept(q) \subseteq Among(Names(q)) BY DEF Kept, Among, Names
<1> QED BY <1>1, <1>2, <1>3, <1>4

LEMMA PayloadNames ==
    ASSUME NEW q \in Seq(Payloads), Rising(Names(q))
    PROVE  /\ q # <<>> =>
                /\ Head(q) \in Payloads /\ Tail(q) \in Seq(Payloads)
                /\ Rising(Names(Tail(q)))
                /\ Among(Names(q)) = {Head(q).id} \cup Among(Names(Tail(q)))
                /\ \A n \in Among(Names(Tail(q))) : Head(q).id < n
           /\ \A e \in Payloads : (\A n \in Among(Names(q)) : n < e.id) =>
                /\ Append(q, e) \in Seq(Payloads)
                /\ Rising(Names(Append(q, e)))
                /\ Among(Names(Append(q, e))) = Among(Names(q)) \cup {e.id}
           /\ Among(Names(q)) \subseteq Nat
<1>1. ASSUME q # <<>>
      PROVE  /\ Head(q) \in Payloads /\ Tail(q) \in Seq(Payloads)
             /\ Rising(Names(Tail(q)))
             /\ Among(Names(q)) = {Head(q).id} \cup Among(Names(Tail(q)))
             /\ \A n \in Among(Names(Tail(q))) : Head(q).id < n
  <2>1. Head(q) \in Payloads /\ Tail(q) \in Seq(Payloads) BY <1>1, TailOf
  <2> QED BY <1>1, <2>1, NamesTail, PayloadsHaveNames
<1>2. ASSUME NEW e \in Payloads, \A n \in Among(Names(q)) : n < e.id
      PROVE  /\ Append(q, e) \in Seq(Payloads)
             /\ Rising(Names(Append(q, e)))
             /\ Among(Names(Append(q, e))) = Among(Names(q)) \cup {e.id}
  BY <1>2, NamesAppend, PayloadsHaveNames
<1>3. Among(Names(q)) \subseteq Nat
  <2>1. \A i \in DOMAIN q : q[i] \in Payloads  OBVIOUS
  <2>2. \A i \in DOMAIN q : Names(q)[i] = q[i].id BY DEF Names
  <2>3. DOMAIN Names(q) = DOMAIN q BY DEF Names
  <2> QED BY <2>1, <2>2, <2>3, PayloadsHaveNames DEF Among
<1> QED BY <1>1, <1>2, <1>3

(* What follows for the queues of the invariant.                           *)
LEMMA DecisionFacts ==
    ASSUME DecisionInv
    PROVE  /\ DecisionTypes /\ AllWellCut /\ GapsAreSound /\ NamesRise /\ DecidedInv
           /\ payloadQ \in Seq(Payloads) /\ Rising(Names(payloadQ))
           /\ metaQ \in Seq(Metas) /\ Rising(Names(metaQ))
           /\ fsmQ \in Seq(Metas) /\ Rising(Names(fsmQ))
           /\ drop1Q \in Seq(Decisions) /\ Rising(Names(drop1Q))
           /\ drop2Q \in Seq(Decisions) /\ Rising(Names(drop2Q))
BY DEF DecisionInv, DecisionTypes, NamesRise

LEMMA SetsOfNames ==
    ASSUME DecisionInv
    PROVE  /\ Among(Names(payloadQ)) \subseteq Nat /\ Among(Names(metaQ)) \subseteq Nat
           /\ Among(Names(fsmQ)) \subseteq Nat /\ Among(Names(drop1Q)) \subseteq Nat
           /\ Among(Names(drop2Q)) \subseteq Nat
           /\ InLookup \subseteq Nat /\ InFsm \subseteq Nat /\ InHand \subseteq Nat
           /\ LookupData \subseteq InLookup /\ FsmData \subseteq InFsm /\ Awaited \subseteq InHand
           /\ WithData(metaQ) \subseteq Among(Names(metaQ)) /\ WithData(fsmQ) \subseteq Among(Names(fsmQ))
           /\ Kept(drop1Q) \subseteq Among(Names(drop1Q))
<1>1. /\ DecisionTypes
      /\ payloadQ \in Seq(Payloads) /\ Rising(Names(payloadQ))
      /\ metaQ \in Seq(Metas) /\ Rising(Names(metaQ))
      /\ fsmQ \in Seq(Metas) /\ Rising(Names(fsmQ))
      /\ drop1Q \in Seq(Decisions) /\ Rising(Names(drop1Q))
      /\ drop2Q \in Seq(Decisions) /\ Rising(Names(drop2Q))
  BY DecisionFacts
<1>2. /\ Among(Names(metaQ)) \subseteq Nat /\ Among(Names(fsmQ)) \subseteq Nat
      /\ WithData(metaQ) \subseteq Among(Names(metaQ)) /\ WithData(fsmQ) \subseteq Among(Names(fsmQ))
  BY <1>1, MetaNames
<1>3. /\ Among(Names(drop1Q)) \subseteq Nat /\ Among(Names(drop2Q)) \subseteq Nat
      /\ Kept(drop1Q) \subseteq Among(Names(drop1Q))
  BY <1>1, DecisionNames
<1>4. Among(Names(payloadQ)) \subseteq Nat BY <1>1, PayloadNames
<1>5. InLookup \subseteq Nat /\ LookupData \subseteq InLookup
  BY <1>1 DEF DecisionTypes, InLookup, LookupData, Metas
<1>6. InFsm \subseteq Nat /\ FsmData \subseteq InFsm
  BY <1>1 DEF DecisionTypes, InFsm, FsmData, Metas
<1>7. InHand \subseteq Nat /\ Awaited \subseteq InHand
  BY <1>1 DEF DecisionTypes, InHand, Awaited
<1> QED BY <1>2, <1>3, <1>4, <1>5, <1>6, <1>7

LEMMA CutAppend ==
    ASSUME NEW q \in Seq(Metas), \A i \in DOMAIN q : WellCut(q[i]), NEW e \in Metas, WellCut(e)
    PROVE  \A i \in DOMAIN Append(q, e) : WellCut(Append(q, e)[i])
<1> DEFINE p == Append(q, e)  k == Len(q) + 1
<1>1. /\ p[k] = e
      /\ \A i \in DOMAIN q : i \in DOMAIN p /\ p[i] = q[i]
      /\ \A i \in DOMAIN p : i \in DOMAIN q \/ i = k
  BY AppendOf
<1> HIDE DEF p, k
<1>2. \A i \in DOMAIN p : WellCut(p[i])
  <2> SUFFICES ASSUME NEW i \in DOMAIN p PROVE WellCut(p[i])  OBVIOUS
  <2>1. CASE i \in DOMAIN q BY <1>1, <2>1
  <2>2. CASE i = k BY <1>1, <2>2
  <2> QED BY <1>1, <2>1, <2>2
<1> QED BY <1>2 DEF p

LEMMA CutTail ==
    ASSUME NEW q \in Seq(Metas), q # <<>>, \A i \in DOMAIN q : WellCut(q[i])
    PROVE  WellCut(Head(q)) /\ \A i \in DOMAIN Tail(q) : WellCut(Tail(q)[i])
<1>1. /\ Head(q) = q[1] /\ 1 \in DOMAIN q
      /\ \A i \in DOMAIN Tail(q) : i + 1 \in DOMAIN q /\ Tail(q)[i] = q[i + 1]
  BY TailOf
<1> QED BY <1>1

LEMMA ArriveDecides ==
    ASSUME DecisionInv, NEW g \in Receive!Segments, Receive!Arrive(g)
    PROVE  DecisionInv'
<1>1. /\ DecisionTypes /\ AllWellCut /\ GapsAreSound /\ NamesRise /\ DecidedInv
      /\ payloadQ \in Seq(Payloads) /\ Rising(Names(payloadQ))
      /\ metaQ \in Seq(Metas) /\ Rising(Names(metaQ))
  BY DecisionFacts
<1>2. /\ g.kind \in Kinds /\ g.session \in RxSessions /\ g.seq \in Nat /\ g.length \in Nat
      /\ g.data \in Seq((RxSessions \X Int) \cup {Foreign})
      /\ WellCut(g)
  BY SegmentIs
<1>3. PICK n \in Nat : n = arrived + 1 BY <1>1 DEF DecisionTypes
<1> DEFINE m == Receive!Named(n, g)  d == [id |-> n, data |-> g.data]
<1>4. /\ arrived' = n
      /\ metaQ' = Append(metaQ, m)
      /\ payloadQ' = IF g.length = 0 THEN payloadQ ELSE Append(payloadQ, d)
      /\ UNCHANGED <<build, looking, fsmQ, loaded, drop1Q, drop2Q, dropper, sar>>
  BY <1>3 DEF Receive!Arrive
<1>5. m = [id |-> n, kind |-> g.kind, session |-> g.session, seq |-> g.seq, length |-> g.length]
  BY DEF Receive!Named
<1>6. m \in Metas /\ m.id = n /\ m.length = g.length /\ m.kind = g.kind /\ m.session = g.session /\ m.seq = g.seq
  BY <1>2, <1>5 DEF Metas
<1>7. WellCut(m)
  <2>1. \A c : Piece(g, c) => Piece(m, c) BY <1>6 DEF Piece
  <2> QED BY <1>2, <1>6, <2>1 DEF WellCut
<1>8. d \in Payloads /\ d.id = n BY <1>2 DEF Payloads
<1> HIDE DEF m, d
<1>9. \A k \in Among(Names(payloadQ)) \cup Among(Names(metaQ)) \cup InLookup \cup InFsm \cup Among(Names(fsmQ)) :
        k <= arrived
  BY <1>1 DEF NamesRise
<1>10. Among(Names(metaQ)) \subseteq Nat /\ WithData(metaQ) \subseteq Among(Names(metaQ)) BY <1>1, MetaNames
<1>11. \A k \in Among(Names(metaQ)) : k < n BY <1>1, <1>3, <1>9, <1>10 DEF DecisionTypes
<1>12. /\ metaQ' \in Seq(Metas)
       /\ Rising(Names(metaQ'))
       /\ Among(Names(metaQ')) = Among(Names(metaQ)) \cup {n}
       /\ WithData(metaQ') = WithData(metaQ) \cup (IF g.length # 0 THEN {n} ELSE {})
  BY <1>1, <1>4, <1>6, <1>11, MetaNames
<1>13. /\ payloadQ' \in Seq(Payloads)
       /\ Rising(Names(payloadQ'))
       /\ Among(Names(payloadQ')) = Among(Names(payloadQ)) \cup (IF g.length # 0 THEN {n} ELSE {})
  <2>1. Among(Names(payloadQ)) \subseteq Nat BY <1>1, PayloadNames
  <2>2. \A k \in Among(Names(payloadQ)) : k < d.id BY <1>1, <1>3, <1>8, <1>9, <2>1 DEF DecisionTypes
  <2>3. CASE g.length = 0 BY <1>1, <1>4, <2>3
  <2>4. CASE g.length # 0 BY <1>1, <1>4, <1>8, <2>2, <2>4, PayloadNames
  <2> QED BY <2>3, <2>4
<1>14. DecisionTypes' BY <1>1, <1>4, <1>12, <1>13 DEF DecisionTypes
<1>15. AllWellCut'
  <2>1. \A i \in DOMAIN metaQ' : WellCut(metaQ'[i]) BY <1>1, <1>4, <1>6, <1>7, CutAppend DEF AllWellCut
  <2> QED BY <1>1, <1>4, <2>1 DEF AllWellCut
<1>16. GapsAreSound' BY <1>1, <1>4 DEF GapsAreSound, GapIsSound
<1>17. InHand' = InHand /\ Awaited' = Awaited /\ InLookup' = InLookup /\ InFsm' = InFsm
       /\ LookupData' = LookupData /\ FsmData' = FsmData
  BY <1>4 DEF InHand, Awaited, InLookup, InFsm, LookupData, FsmData
<1>18. DecidedInv' BY <1>1, <1>4, <1>12, <1>13, <1>17 DEF DecidedInv
<1>19. InLookup \subseteq Nat /\ InFsm \subseteq Nat /\ Among(Names(fsmQ)) \subseteq Nat
       /\ Among(Names(payloadQ)) \subseteq Nat
  BY <1>1, SetsOfNames
<1>20. InHand \cup Among(Names(drop1Q)) \subseteq Among(Names(payloadQ)) BY <1>1 DEF DecidedInv
<1>21. \A k \in InHand \cup Among(Names(drop1Q)) \cup InLookup \cup InFsm \cup Among(Names(fsmQ)) : k < n
  <2> SUFFICES ASSUME NEW k \in InHand \cup Among(Names(drop1Q)) \cup InLookup \cup InFsm \cup Among(Names(fsmQ))
               PROVE k < n
    OBVIOUS
  <2>1. k \in Nat /\ k <= arrived BY <1>9, <1>19, <1>20
  <2>2. arrived \in Nat BY <1>1 DEF DecisionTypes
  <2> QED BY <1>3, <2>1, <2>2
<1>22. \A k \in Among(Names(payloadQ)) \cup Among(Names(metaQ)) \cup InLookup \cup InFsm \cup Among(Names(fsmQ)) \cup {n} :
         k <= n
  <2> SUFFICES ASSUME NEW k \in Among(Names(payloadQ)) \cup Among(Names(metaQ)) \cup InLookup \cup InFsm
                                  \cup Among(Names(fsmQ)) \cup {n}
               PROVE k <= n
    OBVIOUS
  <2>1. CASE k = n BY <2>1
  <2>2. CASE k # n
    <3>1. k \in Nat /\ k <= arrived BY <1>9, <1>10, <1>19, <2>2
    <3>2. arrived \in Nat BY <1>1 DEF DecisionTypes
    <3> QED BY <1>3, <3>1, <3>2
  <2> QED BY <2>1, <2>2
<1>23. NamesRise'
  <2>1. UNCHANGED <<fsmQ, drop1Q, drop2Q>> /\ arrived' = n BY <1>4
  <2> QED BY <1>1, <1>12, <1>13, <1>17, <1>21, <1>22, <2>1 DEF NamesRise, Below
<1> QED BY <1>14, <1>15, <1>16, <1>18, <1>23 DEF DecisionInv

LEMMA DecisionOf ==
    ASSUME NEW h \in Metas, NEW d \in BOOLEAN
    PROVE  \E e \in Decisions : e = Receive!Decision(h, d) /\ (e.drop <=> d) /\ e.id = h.id
<1>1. h.id \in Nat BY DEF Metas
<1>2. Receive!Decision(h, d) = [drop |-> d, id |-> h.id] BY DEF Receive!Decision
<1>3. [drop |-> d, id |-> h.id] \in Decisions BY <1>1 DEF Decisions
<1>4. [drop |-> d, id |-> h.id].drop = d /\ [drop |-> d, id |-> h.id].id = h.id  OBVIOUS
<1> QED BY <1>2, <1>3, <1>4

LEMMA PortDecides ==
    ASSUME DecisionInv, Receive!MetaClosedPort
    PROVE  DecisionInv'
<1>1. /\ DecisionTypes /\ AllWellCut /\ GapsAreSound /\ NamesRise /\ DecidedInv
      /\ metaQ \in Seq(Metas) /\ Rising(Names(metaQ))
      /\ drop1Q \in Seq(Decisions) /\ Rising(Names(drop1Q))
  BY DecisionFacts
<1>2. /\ metaQ # <<>> /\ looking = <<>>
      /\ drop1Q' = IF Head(metaQ).length = 0 THEN drop1Q
                    ELSE Append(drop1Q, Receive!Decision(Head(metaQ), TRUE))
      /\ metaQ' = Tail(metaQ)
      /\ UNCHANGED <<build, arrived, payloadQ, looking, fsmQ, loaded, drop2Q, dropper, sar>>
  BY DEF Receive!MetaClosedPort
<1>3. /\ Head(metaQ) \in Metas /\ metaQ' \in Seq(Metas)
      /\ Rising(Names(metaQ'))
      /\ Among(Names(metaQ)) = {Head(metaQ).id} \cup Among(Names(metaQ'))
      /\ \A n \in Among(Names(metaQ')) : Head(metaQ).id < n
      /\ WithData(metaQ) = (IF Head(metaQ).length # 0 THEN {Head(metaQ).id} ELSE {}) \cup WithData(metaQ')
  BY <1>1, <1>2, MetaNames
<1>4. PICK h \in Metas : h = Head(metaQ) BY <1>3
<1>6. PICK e \in Decisions : e = Receive!Decision(h, TRUE) /\ (e.drop <=> TRUE) /\ e.id = h.id
  BY DecisionOf
<1>7. \A n \in InHand \cup Among(Names(drop1Q)) : n < h.id BY <1>1, <1>3, <1>4 DEF NamesRise, Below
<1>8. /\ drop1Q' \in Seq(Decisions)
      /\ Rising(Names(drop1Q'))
      /\ Among(Names(drop1Q')) = Among(Names(drop1Q)) \cup (IF h.length # 0 THEN {h.id} ELSE {})
      /\ Kept(drop1Q') = Kept(drop1Q)
  <2>1. CASE h.length = 0 BY <1>1, <1>2, <1>4, <2>1
  <2>2. CASE h.length # 0
    <3>1. drop1Q' = Append(drop1Q, e) BY <1>2, <1>4, <1>6, <2>2
    <3>2. \A n \in Among(Names(drop1Q)) : n < e.id BY <1>6, <1>7
    <3>3. /\ Append(drop1Q, e) \in Seq(Decisions)
          /\ Rising(Names(Append(drop1Q, e)))
          /\ Among(Names(Append(drop1Q, e))) = Among(Names(drop1Q)) \cup {e.id}
          /\ Kept(Append(drop1Q, e)) = Kept(drop1Q) \cup (IF e.drop THEN {} ELSE {e.id})
      BY <1>1, <1>6, <3>2, DecisionNames
    <3> QED BY <1>6, <2>2, <3>1, <3>3
  <2> QED BY <2>1, <2>2
<1>9. DecisionTypes' BY <1>1, <1>2, <1>3, <1>8 DEF DecisionTypes
<1>10. AllWellCut'
  <2>1. \A i \in DOMAIN metaQ' : WellCut(metaQ'[i]) BY <1>1, <1>2, CutTail DEF AllWellCut
  <2> QED BY <1>1, <1>2, <2>1 DEF AllWellCut
<1>11. GapsAreSound' BY <1>1, <1>2 DEF GapsAreSound, GapIsSound
<1>12. /\ InHand' = InHand /\ Awaited' = Awaited /\ InLookup' = {} /\ InLookup = {} /\ InFsm' = InFsm
       /\ LookupData' = {} /\ LookupData = {} /\ FsmData' = FsmData
  BY <1>2 DEF InHand, Awaited, InLookup, InFsm, LookupData, FsmData
<1>13. UNCHANGED <<fsmQ, drop2Q, payloadQ, arrived>> BY <1>2
<1>14. DecidedInv' BY <1>1, <1>3, <1>4, <1>8, <1>12, <1>13 DEF DecidedInv
<1>15. NamesRise' BY <1>1, <1>3, <1>4, <1>7, <1>8, <1>12, <1>13 DEF NamesRise, Below
<1> QED BY <1>9, <1>10, <1>11, <1>14, <1>15 DEF DecisionInv

LEMMA LookupDecides ==
    ASSUME DecisionInv, Receive!MetaLookup
    PROVE  DecisionInv'
<1>1. /\ DecisionTypes /\ AllWellCut /\ GapsAreSound /\ NamesRise /\ DecidedInv
      /\ metaQ \in Seq(Metas) /\ Rising(Names(metaQ))
  BY DecisionFacts
<1>2. /\ metaQ # <<>> /\ looking = <<>>
      /\ looking' = Head(metaQ) /\ metaQ' = Tail(metaQ)
      /\ UNCHANGED <<build, arrived, payloadQ, fsmQ, loaded, drop1Q, drop2Q, dropper, sar>>
  BY DEF Receive!MetaLookup
<1>3. /\ Head(metaQ) \in Metas /\ metaQ' \in Seq(Metas)
      /\ Rising(Names(metaQ'))
      /\ Among(Names(metaQ)) = {Head(metaQ).id} \cup Among(Names(metaQ'))
      /\ \A n \in Among(Names(metaQ')) : Head(metaQ).id < n
      /\ WithData(metaQ) = (IF Head(metaQ).length # 0 THEN {Head(metaQ).id} ELSE {}) \cup WithData(metaQ')
  BY <1>1, <1>2, MetaNames
<1>4. PICK h \in Metas : h = Head(metaQ) BY <1>3
<1>5. h # <<>>
  <2>1. DOMAIN h = {"id", "kind", "session", "seq", "length"} BY DEF Metas
  <2>2. DOMAIN <<>> = {}  OBVIOUS
  <2> QED BY <2>1, <2>2
<1>6. DecisionTypes' BY <1>1, <1>2, <1>3 DEF DecisionTypes
<1>7. AllWellCut'
  <2>1. WellCut(Head(metaQ)) /\ \A i \in DOMAIN metaQ' : WellCut(metaQ'[i]) BY <1>1, <1>2, CutTail DEF AllWellCut
  <2> QED BY <1>1, <1>2, <2>1 DEF AllWellCut
<1>8. GapsAreSound' BY <1>1, <1>2 DEF GapsAreSound, GapIsSound
<1>9. /\ InHand' = InHand /\ Awaited' = Awaited /\ InLookup' = {h.id} /\ InLookup = {} /\ InFsm' = InFsm
      /\ LookupData' = (IF h.length # 0 THEN {h.id} ELSE {}) /\ LookupData = {} /\ FsmData' = FsmData
  BY <1>2, <1>4, <1>5 DEF InHand, Awaited, InLookup, InFsm, LookupData, FsmData
<1>10. UNCHANGED <<fsmQ, drop1Q, drop2Q, payloadQ, arrived>> BY <1>2
<1>11. DecidedInv' BY <1>1, <1>3, <1>4, <1>9, <1>10 DEF DecidedInv
<1>12. NamesRise' BY <1>1, <1>3, <1>4, <1>9, <1>10 DEF NamesRise, Below
<1> QED BY <1>6, <1>7, <1>8, <1>11, <1>12 DEF DecisionInv

LEMMA AnsweredDecides ==
    ASSUME DecisionInv, Receive!MetaAnswered
    PROVE  DecisionInv'
<1>1. /\ DecisionTypes /\ AllWellCut /\ GapsAreSound /\ NamesRise /\ DecidedInv
      /\ fsmQ \in Seq(Metas) /\ Rising(Names(fsmQ))
      /\ drop1Q \in Seq(Decisions) /\ Rising(Names(drop1Q))
  BY DecisionFacts
<1>2. /\ Awaited \subseteq InHand /\ Kept(drop1Q) \subseteq Among(Names(drop1Q))
      /\ FsmData \subseteq InFsm /\ WithData(fsmQ) \subseteq Among(Names(fsmQ))
  BY SetsOfNames
<1>3. PICK h \in Metas : h = looking BY <1>1 DEF DecisionTypes, Receive!MetaAnswered
<1>4. /\ looking # <<>> /\ looking' = <<>>
      /\ fsmQ' = IF h.kind # "MISS" THEN Append(fsmQ, h) ELSE fsmQ
      /\ drop1Q' = IF h.length = 0 THEN drop1Q
                    ELSE Append(drop1Q, Receive!Decision(h, ~(h.kind # "MISS")))
      /\ UNCHANGED <<build, arrived, payloadQ, metaQ, loaded, drop2Q, dropper, sar>>
  BY <1>3 DEF Receive!MetaAnswered
<1>5. InLookup = {h.id} BY <1>3, <1>4 DEF InLookup
<1>6. \A n \in InHand \cup Among(Names(drop1Q)) \cup InFsm \cup Among(Names(fsmQ)) : n < h.id
  BY <1>1, <1>5 DEF NamesRise, Below
<1>7. /\ fsmQ' \in Seq(Metas)
      /\ Rising(Names(fsmQ'))
      /\ Among(Names(fsmQ')) = Among(Names(fsmQ)) \cup (IF h.kind # "MISS" THEN {h.id} ELSE {})
      /\ WithData(fsmQ') = WithData(fsmQ) \cup (IF h.kind # "MISS" /\ h.length # 0 THEN {h.id} ELSE {})
  <2>1. CASE h.kind = "MISS" BY <1>1, <1>4, <2>1
  <2>2. CASE h.kind # "MISS"
    <3>1. fsmQ' = Append(fsmQ, h) BY <1>4, <2>2
    <3>2. \A n \in Among(Names(fsmQ)) : n < h.id BY <1>6
    <3> QED BY <1>1, <2>2, <3>1, <3>2, MetaNames
  <2> QED BY <2>1, <2>2
<1>8. PICK e \in Decisions : /\ e = Receive!Decision(h, ~(h.kind # "MISS"))
                             /\ e.drop <=> ~(h.kind # "MISS")
                             /\ e.id = h.id
  <2>1. CASE h.kind = "MISS"
    <3>1. Receive!Decision(h, ~(h.kind # "MISS")) = [drop |-> TRUE, id |-> h.id] BY <2>1 DEF Receive!Decision
    <3>2. Receive!Decision(h, TRUE) = [drop |-> TRUE, id |-> h.id] BY DEF Receive!Decision
    <3>3. PICK e \in Decisions : e = Receive!Decision(h, TRUE) /\ (e.drop <=> TRUE) /\ e.id = h.id BY DecisionOf
    <3> QED BY <2>1, <3>1, <3>2, <3>3
  <2>2. CASE h.kind # "MISS"
    <3>1. Receive!Decision(h, ~(h.kind # "MISS")) = [drop |-> FALSE, id |-> h.id] BY <2>2 DEF Receive!Decision
    <3>2. Receive!Decision(h, FALSE) = [drop |-> FALSE, id |-> h.id] BY DEF Receive!Decision
    <3>3. PICK e \in Decisions : e = Receive!Decision(h, FALSE) /\ (e.drop <=> FALSE) /\ e.id = h.id BY DecisionOf
    <3> QED BY <2>2, <3>1, <3>2, <3>3
  <2> QED BY <2>1, <2>2
<1>9. /\ drop1Q' \in Seq(Decisions)
      /\ Rising(Names(drop1Q'))
      /\ Among(Names(drop1Q')) = Among(Names(drop1Q)) \cup (IF h.length # 0 THEN {h.id} ELSE {})
      /\ Kept(drop1Q') = Kept(drop1Q) \cup (IF h.kind # "MISS" /\ h.length # 0 THEN {h.id} ELSE {})
  <2>1. CASE h.length = 0 BY <1>1, <1>4, <2>1
  <2>2. CASE h.length # 0
    <3>1. drop1Q' = Append(drop1Q, e) BY <1>4, <1>8, <2>2
    <3>2. \A n \in Among(Names(drop1Q)) : n < e.id BY <1>6, <1>8
    <3>3. /\ Append(drop1Q, e) \in Seq(Decisions)
          /\ Rising(Names(Append(drop1Q, e)))
          /\ Among(Names(Append(drop1Q, e))) = Among(Names(drop1Q)) \cup {e.id}
          /\ Kept(Append(drop1Q, e)) = Kept(drop1Q) \cup (IF e.drop THEN {} ELSE {e.id})
      BY <1>1, <1>8, <3>2, DecisionNames
    <3>4. CASE e.drop BY <1>8, <2>2, <3>1, <3>3, <3>4
    <3>5. CASE ~e.drop BY <1>8, <2>2, <3>1, <3>3, <3>5
    <3> QED BY <3>4, <3>5
  <2> QED BY <2>1, <2>2
<1>10. DecisionTypes' BY <1>1, <1>4, <1>7, <1>9 DEF DecisionTypes
<1>11. AllWellCut'
  <2>1. WellCut(h) BY <1>1, <1>3, <1>4 DEF AllWellCut
  <2>2. \A i \in DOMAIN fsmQ' : WellCut(fsmQ'[i])
    <3>1. CASE h.kind = "MISS" BY <1>1, <1>4, <3>1 DEF AllWellCut
    <3>2. CASE h.kind # "MISS" BY <1>1, <1>4, <2>1, <3>2, CutAppend DEF AllWellCut
    <3> QED BY <3>1, <3>2
  <2> QED BY <1>1, <1>4, <2>2 DEF AllWellCut
<1>12. GapsAreSound' BY <1>1, <1>4 DEF GapsAreSound, GapIsSound
<1>13. /\ InHand' = InHand /\ Awaited' = Awaited /\ InLookup' = {} /\ InFsm' = InFsm
       /\ LookupData = (IF h.length # 0 THEN {h.id} ELSE {}) /\ LookupData' = {} /\ FsmData' = FsmData
  BY <1>3, <1>4 DEF InHand, Awaited, InLookup, InFsm, LookupData, FsmData
<1>14. UNCHANGED <<metaQ, drop2Q, payloadQ, arrived>> BY <1>4
<1>15. DecidedInv' BY <1>1, <1>7, <1>9, <1>13, <1>14 DEF DecidedInv
<1>16. \A n \in Among(Names(drop2Q)) : n < h.id BY <1>1, <1>2, <1>6 DEF DecidedInv
<1>17. NamesRise' BY <1>1, <1>5, <1>6, <1>7, <1>9, <1>13, <1>14, <1>16 DEF NamesRise, Below
<1> QED BY <1>10, <1>11, <1>12, <1>15, <1>17 DEF DecisionInv

LEMMA LoadDecides ==
    ASSUME DecisionInv, Receive!FsmLoad
    PROVE  DecisionInv'
<1>1. /\ DecisionTypes /\ AllWellCut /\ GapsAreSound /\ NamesRise /\ DecidedInv
      /\ fsmQ \in Seq(Metas) /\ Rising(Names(fsmQ))
  BY DecisionFacts
<1>2. /\ fsmQ # <<>> /\ loaded = <<>>
      /\ loaded' = [segment |-> Head(fsmQ), row |-> sar[Head(fsmQ).session]]
      /\ fsmQ' = Tail(fsmQ)
      /\ UNCHANGED <<build, arrived, payloadQ, metaQ, looking, drop1Q, drop2Q, dropper, sar>>
  BY DEF Receive!FsmLoad
<1>3. /\ Head(fsmQ) \in Metas /\ fsmQ' \in Seq(Metas)
      /\ Rising(Names(fsmQ'))
      /\ Among(Names(fsmQ)) = {Head(fsmQ).id} \cup Among(Names(fsmQ'))
      /\ \A n \in Among(Names(fsmQ')) : Head(fsmQ).id < n
      /\ WithData(fsmQ) = (IF Head(fsmQ).length # 0 THEN {Head(fsmQ).id} ELSE {}) \cup WithData(fsmQ')
  BY <1>1, <1>2, MetaNames
<1>4. PICK h \in Metas : h = Head(fsmQ) BY <1>3
<1>5. h.session \in RxSessions BY DEF Metas
<1>6. PICK r \in SarRows : r = sar[h.session] BY <1>1, <1>5 DEF DecisionTypes
<1>7. loaded' = [segment |-> h, row |-> r] BY <1>2, <1>4, <1>6
<1>8. loaded' # <<>> /\ loaded'.segment = h /\ loaded'.row = r
      /\ loaded' \in [segment : Metas, row : SarRows]
  <2>1. DOMAIN loaded' = {"segment", "row"} BY <1>7
  <2>2. DOMAIN <<>> = {}  OBVIOUS
  <2> QED BY <1>7, <2>1, <2>2
<1>9. DecisionTypes' BY <1>1, <1>2, <1>3, <1>8 DEF DecisionTypes
<1>10. AllWellCut'
  <2>1. WellCut(h) /\ \A i \in DOMAIN fsmQ' : WellCut(fsmQ'[i]) BY <1>1, <1>2, <1>4, CutTail DEF AllWellCut
  <2> QED BY <1>1, <1>2, <1>8, <2>1 DEF AllWellCut
<1>11. GapsAreSound'
  <2>1. GapIsSound(r, h.session) BY <1>1, <1>5, <1>6 DEF GapsAreSound
  <2>2. GapIsSound(r, h.session)' BY <1>2, <2>1 DEF GapIsSound
  <2>3. \A s \in RxSessions : GapIsSound(sar[s], s)' BY <1>1, <1>2 DEF GapsAreSound, GapIsSound
  <2> QED BY <1>8, <2>2, <2>3 DEF GapsAreSound, GapIsSound
<1>12. /\ InHand' = InHand /\ Awaited' = Awaited /\ InLookup' = InLookup /\ InFsm' = {h.id} /\ InFsm = {}
       /\ LookupData' = LookupData /\ FsmData' = (IF h.length # 0 THEN {h.id} ELSE {}) /\ FsmData = {}
  BY <1>2, <1>8 DEF InHand, Awaited, InLookup, InFsm, LookupData, FsmData
<1>13. UNCHANGED <<metaQ, drop1Q, drop2Q, payloadQ, arrived>> BY <1>2
<1>14. DecidedInv' BY <1>1, <1>3, <1>4, <1>12, <1>13 DEF DecidedInv
<1>15. NamesRise' BY <1>1, <1>3, <1>4, <1>12, <1>13 DEF NamesRise, Below
<1> QED BY <1>9, <1>10, <1>11, <1>14, <1>15 DEF DecisionInv

(* What rxTcpFSM does with a segment of a stream.                          *)
Decides(g) == \E e \in Decisions : e.id = g.id /\ drop2Q' = IF g.length = 0 THEN drop2Q ELSE Append(drop2Q, e)
Stores(s) ==
    \/ sar' = sar
    \/ \E row \in SarRows : GapIsSound(row, s) /\ sar' = [sar EXCEPT ![s] = row]

LEMMA BranchIs ==
    ASSUME NEW g \in Metas, NEW r \in SarRows
    PROVE  LET b == Receive!Branch(g, r) IN
           /\ b \in {"in_order", "opens_gap", "after_gap", "fills_gap", "into_gap", "none", "drop"}
           /\ b = "in_order" => ~r.gap
           /\ b = "opens_gap" => g.seq > r.recvd
           /\ b = "into_gap" => g.seq + g.length < r.offset
           /\ b = "none" => r.gap /\ g.seq = r.recvd /\ g.seq + g.length > r.offset
BY DEF Receive!Branch

LEMMA KeepDecides ==
    ASSUME DecisionTypes, NEW g \in Metas, NEW row \in SarRows, GapIsSound(row, g.session), NEW note,
           Receive!Keep(g, row, note)
    PROVE  Decides(g) /\ Stores(g.session)
<1>1. PICK e \in Decisions : e = Receive!Decision(g, FALSE) /\ (e.drop <=> FALSE) /\ e.id = g.id BY DecisionOf
<1>2. drop2Q' = IF g.length = 0 THEN drop2Q ELSE Append(drop2Q, e) BY <1>1 DEF Receive!Keep
<1>3. sar' = [sar EXCEPT ![g.session] = [row EXCEPT !.appd = sar[g.session].appd]] BY DEF Receive!Keep
<1>4. g.session \in RxSessions BY DEF Metas
<1>5. PICK a \in Nat : a = sar[g.session].appd BY <1>4 DEF DecisionTypes, SarRows
<1>6. PICK new \in SarRows : new = [row EXCEPT !.appd = a] BY DEF SarRows
<1>7. new.gap = row.gap /\ new.recvd = row.recvd /\ new.offset = row.offset BY <1>6 DEF SarRows
<1>8. GapIsSound(new, g.session) BY <1>7 DEF GapIsSound
<1>9. sar' = [sar EXCEPT ![g.session] = new] BY <1>3, <1>5, <1>6
<1> QED BY <1>1, <1>2, <1>8, <1>9 DEF Decides, Stores

LEMMA RefuseDecides ==
    ASSUME NEW g \in Metas, Receive!Refuse(g)
    PROVE  Decides(g) /\ Stores(g.session)
<1>1. PICK e \in Decisions : e = Receive!Decision(g, TRUE) /\ (e.drop <=> TRUE) /\ e.id = g.id BY DecisionOf
<1>2. drop2Q' = (IF g.length = 0 THEN drop2Q ELSE Append(drop2Q, e)) /\ sar' = sar BY <1>1 DEF Receive!Refuse
<1> QED BY <1>1, <1>2 DEF Decides, Stores

LEMMA NothingDecides ==
    ASSUME NEW g \in Metas, g.length = 0, Receive!NoDecision
    PROVE  Decides(g) /\ Stores(g.session)
<1>1. \E e \in Decisions : e.id = g.id BY DecisionOf
<1>2. drop2Q' = drop2Q /\ sar' = sar BY DEF Receive!NoDecision
<1> QED BY <1>1, <1>2 DEF Decides, Stores

(* Two pieces of a stream are the same or one is behind the other.         *)
LEMMA PiecesAreApart ==
    ASSUME NEW s \in RxSessions, NEW c \in Cuts[s], NEW d \in Cuts[s]
    PROVE  /\ c[1] \in Nat /\ c[2] \in Nat /\ d[1] \in Nat
           /\ c[1] < d[1] => c[1] + c[2] <= d[1]
           /\ c[3] = "FIN" => d[1] <= c[1]
<1>1. /\ c \in Nat \X Nat \X {"ACK", "FIN"} /\ d \in Nat \X Nat \X {"ACK", "FIN"}
      /\ d = c \/ c[1] + c[2] <= d[1] \/ d[1] + d[2] <= c[1]
      /\ c[3] = "FIN" => d[1] <= c[1]
  BY ReceiveAssumption
<1>2. PICK c1 \in Nat, c2 \in Nat, d1 \in Nat, d2 \in Nat : c1 = c[1] /\ c2 = c[2] /\ d1 = d[1] /\ d2 = d[2]
  BY <1>1
<1>3. d1 = c1 \/ c1 + c2 <= d1 \/ d1 + d2 <= c1 BY <1>1, <1>2
<1>4. c1 < d1 => c1 + c2 <= d1 BY <1>3
<1> QED BY <1>1, <1>2, <1>4

LEMMA AckDecides ==
    ASSUME DecisionTypes, NEW g \in Metas, WellCut(g), NEW r \in SarRows, GapIsSound(r, g.session),
           Receive!FsmAck(g, r)
    PROVE  Decides(g) /\ Stores(g.session)
<1>1. g.kind = "ACK" /\ g.session \in RxSessions BY DEF Receive!FsmAck, Metas
<1>2. PICK c \in Cuts[g.session] : Piece(g, c) BY <1>1 DEF WellCut
<1>3. PICK f \in Nat, n \in Nat : f = g.seq /\ n = g.length BY DEF Metas
<1>4. PICK e \in Nat : e = f + n  OBVIOUS
<1>5. PICK v \in Nat, o \in Nat, h \in Nat : v = r.recvd /\ o = r.offset /\ h = r.head BY DEF SarRows
<1>6. r.gap => build # "bypass" /\ v < o /\ \E d \in Cuts[g.session] : o = RxFirst + d[1] BY <1>5 DEF GapIsSound
<1>7. CASE g.length = 0
  <2>1. Receive!NoDecision BY <1>7 DEF Receive!FsmAck
  <2> QED BY <1>7, <2>1, NothingDecides
<1>8. CASE g.length # 0 /\ build = "bypass"
  <2>1. Receive!Refuse(g) \/ Receive!Keep(g, Receive!NewRow("in_order", g, r), Receive!Note(g.session, g.length, FALSE))
    <3>1. CASE Receive!Expected(g, r) /\ Receive!RoomInFifo BY <1>8, <3>1 DEF Receive!FsmAck
    <3>2. CASE ~(Receive!Expected(g, r) /\ Receive!RoomInFifo) BY <1>8, <3>2 DEF Receive!FsmAck
    <3> QED BY <3>1, <3>2
  <2>2. PICK row \in {Receive!NewRow("in_order", g, r)} : TRUE  OBVIOUS
  <2>3. row = [r EXCEPT !.recvd = e, !.head = e] BY <1>3, <1>4, <2>2 DEF Receive!NewRow
  <2>4. row \in SarRows /\ row.gap = r.gap BY <2>3 DEF SarRows
  <2>5. GapIsSound(row, g.session) BY <1>6, <1>8, <2>4 DEF GapIsSound
  <2> QED BY <2>1, <2>2, <2>4, <2>5, KeepDecides, RefuseDecides
<1>9. CASE g.length # 0 /\ build # "bypass"
  <2>1. PICK b \in {Receive!Branch(g, r)} : TRUE  OBVIOUS
  <2>2. /\ b \in {"in_order", "opens_gap", "after_gap", "fills_gap", "into_gap", "none", "drop"}
        /\ b = "in_order" => ~r.gap
        /\ b = "opens_gap" => g.seq > r.recvd
        /\ b = "into_gap" => g.seq + g.length < r.offset
        /\ b = "none" => r.gap /\ g.seq = r.recvd /\ g.seq + g.length > r.offset
    BY <2>1, BranchIs
  <2>3. build # "bypass" BY <1>9
  <2>4. b # "none"
    <3> SUFFICES ASSUME b = "none" PROVE FALSE  OBVIOUS
    <3>1. r.gap /\ f = v /\ f + n > o BY <1>3, <1>5, <2>2
    <3>2. PICK d \in Cuts[g.session] : o = RxFirst + d[1] BY <1>6, <3>1
    <3>3. PICK c1 \in Nat, c2 \in Nat, d1 \in Nat : c1 = c[1] /\ c2 = c[2] /\ d1 = d[1] BY <1>1, PiecesAreApart
    <3>4. c1 < d1 => c1 + c2 <= d1 BY <1>1, <3>3, PiecesAreApart
    <3>5. f = RxFirst + c1 /\ n = c2 /\ o = RxFirst + d1 BY <1>2, <1>3, <3>2, <3>3 DEF Piece
    <3>6. v < o BY <1>6, <3>1
    <3>7. RxFirst \in Nat BY ReceiveAssumption
    <3> QED BY <3>1, <3>4, <3>5, <3>6, <3>7
  <2>5. Receive!Refuse(g) \/ \E note : b # "drop" /\ Receive!Keep(g, Receive!NewRow(b, g, r), note)
    <3>1. CASE b = "drop" BY <1>9, <2>1, <3>1 DEF Receive!FsmAck
    <3>2. CASE b # "drop"
      <4>1. Receive!Keep(g, Receive!NewRow(b, g, r), Receive!Note(g.session, Receive!Told(b, g, r), FALSE))
        BY <1>9, <2>1, <2>4, <3>2 DEF Receive!FsmAck
      <4> QED BY <3>2, <4>1
    <3> QED BY <3>1, <3>2
  <2>6. ASSUME b # "drop"
        PROVE  LET row == Receive!NewRow(b, g, r) IN row \in SarRows /\ GapIsSound(row, g.session)
    <3>1. CASE b = "in_order"
      <4>1. PICK row \in {Receive!NewRow("in_order", g, r)} : TRUE  OBVIOUS
      <4>2. row = [r EXCEPT !.recvd = e, !.head = e] BY <1>3, <1>4, <4>1 DEF Receive!NewRow
      <4>3. row \in SarRows /\ row.gap = r.gap BY <4>2 DEF SarRows
      <4>4. ~row.gap BY <2>2, <3>1, <4>3
      <4> QED BY <3>1, <4>1, <4>3, <4>4 DEF GapIsSound
    <3>2. CASE b = "opens_gap"
      <4>1. PICK row \in {Receive!NewRow("opens_gap", g, r)} : TRUE  OBVIOUS
      <4>2. row = [r EXCEPT !.head = e, !.offset = f, !.gap = TRUE] BY <1>3, <1>4, <4>1 DEF Receive!NewRow
      <4>3. row \in SarRows /\ row.recvd = v /\ row.offset = f BY <1>5, <4>2 DEF SarRows
      <4>4. v < f BY <1>3, <1>5, <2>2, <3>2
      <4>5. f = RxFirst + c[1] BY <1>2, <1>3 DEF Piece
      <4> QED BY <1>2, <2>3, <3>2, <4>1, <4>3, <4>4, <4>5 DEF GapIsSound
    <3>3. CASE b = "after_gap"
      <4>1. PICK row \in {Receive!NewRow("after_gap", g, r)} : TRUE  OBVIOUS
      <4>2. row = [r EXCEPT !.head = e] BY <1>3, <1>4, <4>1 DEF Receive!NewRow
      <4>3. row \in SarRows /\ row.recvd = r.recvd /\ row.offset = r.offset /\ row.gap = r.gap BY <4>2 DEF SarRows
      <4> QED BY <3>3, <4>1, <4>3 DEF GapIsSound
    <3>4. CASE b = "fills_gap"
      <4>1. PICK row \in {Receive!NewRow("fills_gap", g, r)} : TRUE  OBVIOUS
      <4>2. row = [r EXCEPT !.recvd = h, !.gap = FALSE] BY <1>5, <4>1 DEF Receive!NewRow
      <4>3. row \in SarRows /\ row.gap = FALSE BY <4>2 DEF SarRows
      <4> QED BY <3>4, <4>1, <4>3 DEF GapIsSound
    <3>5. CASE b = "into_gap"
      <4>1. PICK row \in {Receive!NewRow("into_gap", g, r)} : TRUE  OBVIOUS
      <4>2. row = [r EXCEPT !.recvd = e] BY <1>3, <1>4, <4>1 DEF Receive!NewRow
      <4>3. row \in SarRows /\ row.recvd = e /\ row.offset = r.offset /\ row.gap = r.gap BY <4>2 DEF SarRows
      <4>4. e < o BY <1>3, <1>5, <1>4, <2>2, <3>5
      <4>5. GapIsSound(row, g.session) BY <1>5, <1>6, <4>3, <4>4 DEF GapIsSound
      <4> QED BY <3>5, <4>1, <4>3, <4>5
    <3> QED BY <2>2, <2>4, <2>6, <3>1, <3>2, <3>3, <3>4, <3>5
  <2> QED BY <2>5, <2>6, KeepDecides, RefuseDecides
<1> QED BY <1>7, <1>8, <1>9

LEMMA FinDecides ==
    ASSUME DecisionTypes, NEW g \in Metas, WellCut(g), NEW r \in SarRows, GapIsSound(r, g.session),
           Receive!FsmFin(g, r)
    PROVE  Decides(g) /\ Stores(g.session)
<1>1. g.kind = "FIN" /\ g.session \in RxSessions BY DEF Receive!FsmFin, Metas
<1>2. PICK c \in Cuts[g.session] : Piece(g, c) BY <1>1 DEF WellCut
<1>3. PICK f \in Nat, n \in Nat : f = g.seq /\ n = g.length BY DEF Metas
<1>4. PICK v \in Nat, o \in Nat : v = r.recvd /\ o = r.offset BY DEF SarRows
<1>5. r.gap => v < o /\ \E d \in Cuts[g.session] : o = RxFirst + d[1] BY <1>4 DEF GapIsSound
<1>6. CASE Receive!Refuse(g) BY <1>6, RefuseDecides
<1>7. CASE ~Receive!Refuse(g)
  <2>1. /\ Receive!Expected(g, r)
        /\ Receive!Keep(g, [r EXCEPT !.recvd = g.seq + g.length + 1, !.head = g.seq + g.length + 1],
                        Receive!Note(g.session, g.length, TRUE))
    <3>1. CASE g.session \in open /\ Receive!Expected(g, r) BY <3>1 DEF Receive!FsmFin
    <3>2. CASE ~(g.session \in open /\ Receive!Expected(g, r)) BY <1>7, <3>2 DEF Receive!FsmFin
    <3> QED BY <3>1, <3>2
  <2>2. f = v BY <1>3, <1>4, <2>1 DEF Receive!Expected
  <2>3. r.gap = FALSE
    <3> SUFFICES ASSUME r.gap PROVE FALSE BY DEF SarRows
    <3>1. PICK d \in Cuts[g.session] : o = RxFirst + d[1] BY <1>5
    <3>2. PICK c1 \in Nat, d1 \in Nat : c1 = c[1] /\ d1 = d[1] /\ d1 <= c1
      <4>1. c[3] = "FIN" BY <1>1, <1>2 DEF Piece
      <4> QED BY <1>1, <4>1, PiecesAreApart
    <3>3. f = RxFirst + c1 /\ o = RxFirst + d1 BY <1>2, <1>3, <3>1, <3>2 DEF Piece
    <3>4. RxFirst \in Nat BY ReceiveAssumption
    <3> QED BY <1>5, <2>2, <3>2, <3>3, <3>4
  <2>4. PICK e \in Nat : e = g.seq + g.length + 1 BY <1>3
  <2>5. PICK row \in {[r EXCEPT !.recvd = e, !.head = e]} : TRUE  OBVIOUS
  <2>6. row \in SarRows /\ row.gap = r.gap BY <2>5 DEF SarRows
  <2>7. GapIsSound(row, g.session) BY <2>3, <2>6 DEF GapIsSound
  <2>8. Receive!Keep(g, row, Receive!Note(g.session, g.length, TRUE)) BY <2>1, <2>4, <2>5
  <2> QED BY <2>6, <2>7, <2>8, KeepDecides
<1> QED BY <1>6, <1>7

LEMMA TransitionDecides ==
    ASSUME DecisionInv, Receive!FsmTransition
    PROVE  DecisionInv'
<1>1. /\ DecisionTypes /\ AllWellCut /\ GapsAreSound /\ NamesRise /\ DecidedInv
      /\ drop2Q \in Seq(Decisions) /\ Rising(Names(drop2Q))
  BY DecisionFacts
<1>2. /\ loaded # <<>> /\ loaded' = <<>>
      /\ \/ Receive!FsmAck(loaded.segment, loaded.row) \/ Receive!FsmFin(loaded.segment, loaded.row)
         \/ Receive!FsmOther(loaded.segment, loaded.row)
      /\ UNCHANGED <<build, arrived, payloadQ, metaQ, looking, fsmQ, drop1Q, dropper>>
  BY DEF Receive!FsmTransition
<1>3. PICK g \in Metas, r \in SarRows : g = loaded.segment /\ r = loaded.row
  BY <1>1, <1>2 DEF DecisionTypes
<1>4. WellCut(g) BY <1>1, <1>2, <1>3 DEF AllWellCut
<1>5. GapIsSound(r, g.session) BY <1>1, <1>2, <1>3 DEF GapsAreSound
<1>6. Decides(g) /\ Stores(g.session)
  <2>1. CASE Receive!FsmAck(g, r) BY <1>1, <1>4, <1>5, <2>1, AckDecides
  <2>2. CASE Receive!FsmFin(g, r) BY <1>1, <1>4, <1>5, <2>2, FinDecides
  <2>3. CASE Receive!FsmOther(g, r)
    <3>1. g.length = 0 BY <1>4, <2>3 DEF WellCut, Receive!FsmOther
    <3>2. Receive!NoDecision BY <2>3 DEF Receive!FsmOther
    <3> QED BY <3>1, <3>2, NothingDecides
  <2> QED BY <1>2, <1>3, <2>1, <2>2, <2>3
<1>7. PICK e \in Decisions : e.id = g.id /\ drop2Q' = IF g.length = 0 THEN drop2Q ELSE Append(drop2Q, e)
  BY <1>6 DEF Decides
<1>8. InFsm = {g.id} /\ FsmData = (IF g.length # 0 THEN {g.id} ELSE {})
  BY <1>2, <1>3 DEF InFsm, FsmData
<1>9. \A n \in Among(Names(drop2Q)) : n < g.id BY <1>1, <1>8 DEF NamesRise, Below
<1>10. /\ drop2Q' \in Seq(Decisions)
       /\ Rising(Names(drop2Q'))
       /\ Among(Names(drop2Q')) = Among(Names(drop2Q)) \cup (IF g.length # 0 THEN {g.id} ELSE {})
  <2>1. CASE g.length = 0 BY <1>1, <1>7, <2>1
  <2>2. CASE g.length # 0
    <3>1. drop2Q' = Append(drop2Q, e) BY <1>7, <2>2
    <3>2. \A n \in Among(Names(drop2Q)) : n < e.id BY <1>7, <1>9
    <3>3. /\ Append(drop2Q, e) \in Seq(Decisions)
          /\ Rising(Names(Append(drop2Q, e)))
          /\ Among(Names(Append(drop2Q, e))) = Among(Names(drop2Q)) \cup {e.id}
      BY <1>1, <3>2, DecisionNames
    <3> QED BY <1>7, <2>2, <3>1, <3>3
  <2> QED BY <2>1, <2>2
<1>11. g.session \in RxSessions BY DEF Metas
<1>12. sar' \in [RxSessions -> SarRows] BY <1>1, <1>6, <1>11 DEF Stores, DecisionTypes
<1>13. \A s \in RxSessions : GapIsSound(sar[s], s)'
  <2> SUFFICES ASSUME NEW s \in RxSessions PROVE GapIsSound(sar[s], s)'  OBVIOUS
  <2>1. GapIsSound(sar[s], s) BY <1>1 DEF GapsAreSound
  <2>2. CASE sar' = sar BY <1>2, <2>1, <2>2 DEF GapIsSound
  <2>3. ASSUME NEW row \in SarRows, GapIsSound(row, g.session), sar' = [sar EXCEPT ![g.session] = row]
        PROVE  GapIsSound(sar[s], s)'
    <3>1. sar'[s] = IF s = g.session THEN row ELSE sar[s] BY <1>1, <2>3 DEF DecisionTypes
    <3>2. CASE s = g.session BY <1>2, <2>3, <3>1, <3>2 DEF GapIsSound
    <3>3. CASE s # g.session BY <1>2, <2>1, <3>1, <3>3 DEF GapIsSound
    <3> QED BY <3>2, <3>3
  <2> QED BY <1>6, <2>2, <2>3 DEF Stores
<1>14. DecisionTypes' BY <1>1, <1>2, <1>10, <1>12 DEF DecisionTypes
<1>15. AllWellCut' BY <1>1, <1>2 DEF AllWellCut
<1>16. GapsAreSound' BY <1>2, <1>13 DEF GapsAreSound
<1>17. /\ InHand' = InHand /\ Awaited' = Awaited /\ InLookup' = InLookup /\ InFsm' = {}
       /\ LookupData' = LookupData /\ FsmData' = {}
  BY <1>2 DEF InHand, Awaited, InLookup, InFsm, LookupData, FsmData
<1>18. UNCHANGED <<metaQ, fsmQ, drop1Q, payloadQ, arrived>> BY <1>2
<1>19. DecidedInv' BY <1>1, <1>8, <1>10, <1>17, <1>18 DEF DecidedInv
<1>20. NamesRise' BY <1>1, <1>8, <1>9, <1>10, <1>17, <1>18 DEF NamesRise, Below
<1> QED BY <1>14, <1>15, <1>16, <1>19, <1>20 DEF DecisionInv

LEMMA FirstDecides ==
    ASSUME DecisionInv, Receive!ReadDrop1,
           UNCHANGED <<build, arrived, payloadQ, metaQ, looking, fsmQ, loaded, sar>>
    PROVE  DecisionInv'
<1>1. /\ DecisionTypes /\ AllWellCut /\ GapsAreSound /\ NamesRise /\ DecidedInv
      /\ drop1Q \in Seq(Decisions) /\ Rising(Names(drop1Q))
  BY DecisionFacts
<1>2. /\ dropper.state = "READ_DROP1" /\ drop1Q # <<>>
      /\ dropper' = [state |-> IF Head(drop1Q).drop THEN "DROP" ELSE "READ_DROP2", of |-> Head(drop1Q).id]
      /\ drop1Q' = Tail(drop1Q) /\ drop2Q' = drop2Q
  BY DEF Receive!ReadDrop1
<1>3. /\ Head(drop1Q) \in Decisions /\ drop1Q' \in Seq(Decisions)
      /\ Rising(Names(drop1Q'))
      /\ Among(Names(drop1Q)) = {Head(drop1Q).id} \cup Among(Names(drop1Q'))
      /\ \A n \in Among(Names(drop1Q')) : Head(drop1Q).id < n
      /\ Kept(drop1Q) = (IF Head(drop1Q).drop THEN {} ELSE {Head(drop1Q).id}) \cup Kept(drop1Q')
  BY <1>1, <1>2, DecisionNames
<1>4. PICK h \in Decisions : h = Head(drop1Q) BY <1>3
<1>5. PICK n \in Nat : n = h.id BY DEF Decisions
<1>6. /\ InHand = {} /\ Awaited = {} /\ InHand' = {n}
      /\ Kept(drop1Q) = Awaited' \cup Kept(drop1Q')
      /\ dropper' \in [state : {"READ_DROP1", "READ_DROP2", "FWD", "DROP"}, of : Nat]
  <2>1. InHand = {} /\ Awaited = {} BY <1>2 DEF InHand, Awaited
  <2>2. CASE h.drop
    <3>1. dropper' = [state |-> "DROP", of |-> n] BY <1>2, <1>4, <1>5, <2>2
    <3>2. InHand' = {n} /\ Awaited' = {} BY <3>1 DEF InHand, Awaited
    <3>3. Kept(drop1Q) = Kept(drop1Q') BY <1>3, <1>4, <2>2
    <3> QED BY <2>1, <3>1, <3>2, <3>3
  <2>3. CASE ~h.drop
    <3>1. dropper' = [state |-> "READ_DROP2", of |-> n] BY <1>2, <1>4, <1>5, <2>3
    <3>2. InHand' = {n} /\ Awaited' = {n} BY <3>1 DEF InHand, Awaited
    <3>3. Kept(drop1Q) = {n} \cup Kept(drop1Q') BY <1>3, <1>4, <1>5, <2>3
    <3> QED BY <2>1, <3>1, <3>2, <3>3
  <2> QED BY <2>2, <2>3
<1>7. DecisionTypes' BY <1>1, <1>2, <1>3, <1>6 DEF DecisionTypes
<1>8. AllWellCut' BY <1>1 DEF AllWellCut
<1>9. GapsAreSound' BY <1>1 DEF GapsAreSound, GapIsSound
<1>10. InLookup' = InLookup /\ InFsm' = InFsm /\ LookupData' = LookupData /\ FsmData' = FsmData
  BY DEF InLookup, InFsm, LookupData, FsmData
<1>11. UNCHANGED <<metaQ, fsmQ, drop2Q, payloadQ, arrived>> BY <1>2
<1>12. Among(Names(drop1Q)) = {n} \cup Among(Names(drop1Q')) /\ \A k \in Among(Names(drop1Q')) : n < k
  BY <1>3, <1>4, <1>5
<1>13. DecidedInv' BY <1>1, <1>6, <1>10, <1>11, <1>12 DEF DecidedInv
<1>14. NamesRise' BY <1>1, <1>3, <1>6, <1>10, <1>11, <1>12 DEF NamesRise, Below
<1> QED BY <1>7, <1>8, <1>9, <1>13, <1>14 DEF DecisionInv

(* The second decision that is read is that of the payload in hand.        *)
LEMMA SecondDecides ==
    ASSUME DecisionInv, Receive!ReadDrop2,
           UNCHANGED <<build, arrived, payloadQ, metaQ, looking, fsmQ, loaded, sar>>
    PROVE  DecisionInv'
<1>1. /\ DecisionTypes /\ AllWellCut /\ GapsAreSound /\ NamesRise /\ DecidedInv
      /\ drop2Q \in Seq(Decisions) /\ Rising(Names(drop2Q))
  BY DecisionFacts
<1>2. /\ dropper.state = "READ_DROP2" /\ drop2Q # <<>>
      /\ dropper' = [state |-> IF Head(drop2Q).drop THEN "DROP" ELSE "FWD", of |-> Head(drop2Q).id]
      /\ drop2Q' = Tail(drop2Q) /\ drop1Q' = drop1Q
  BY DEF Receive!ReadDrop2
<1>3. /\ Head(drop2Q) \in Decisions /\ drop2Q' \in Seq(Decisions)
      /\ Rising(Names(drop2Q'))
      /\ Among(Names(drop2Q)) = {Head(drop2Q).id} \cup Among(Names(drop2Q'))
      /\ \A n \in Among(Names(drop2Q')) : Head(drop2Q).id < n
  BY <1>1, <1>2, DecisionNames
<1>4. PICK h \in Decisions : h = Head(drop2Q) BY <1>3
<1>5. PICK n \in Nat : n = h.id BY DEF Decisions
<1>6. PICK o \in Nat : o = dropper.of BY <1>1 DEF DecisionTypes
<1>7. InHand = {o} /\ Awaited = {o} BY <1>2, <1>6 DEF InHand, Awaited
<1>8. Among(Names(drop2Q)) = {n} \cup Among(Names(drop2Q')) /\ \A k \in Among(Names(drop2Q')) : n < k
  BY <1>3, <1>4, <1>5
<1>9. /\ Kept(drop1Q) \subseteq Among(Names(drop1Q)) /\ FsmData \subseteq InFsm
      /\ WithData(fsmQ) \subseteq Among(Names(fsmQ))
  BY SetsOfNames
<1>10. \A k \in FsmData \cup WithData(fsmQ) : n < k BY <1>1, <1>8, <1>9 DEF NamesRise, Below
<1>11. \A k \in Kept(drop1Q) : o < k BY <1>1, <1>7, <1>9 DEF NamesRise, Below
<1>12. {o} \cup Kept(drop1Q) = {n} \cup Among(Names(drop2Q')) \cup FsmData \cup WithData(fsmQ)
  BY <1>1, <1>7, <1>8 DEF DecidedInv
<1>13. n = o
  <2>1. n = o \/ o < n BY <1>11, <1>12
  <2>2. o = n \/ n < o BY <1>8, <1>10, <1>12
  <2> QED BY <2>1, <2>2
<1>14. Kept(drop1Q) = Among(Names(drop2Q')) \cup FsmData \cup WithData(fsmQ)
  <2>1. o \notin Kept(drop1Q) BY <1>11
  <2>2. o \notin Among(Names(drop2Q')) \cup FsmData \cup WithData(fsmQ) BY <1>8, <1>10, <1>13
  <2> QED BY <1>12, <1>13, <2>1, <2>2
<1>15. /\ InHand' = {o} /\ Awaited' = {}
       /\ dropper' \in [state : {"READ_DROP1", "READ_DROP2", "FWD", "DROP"}, of : Nat]
  <2>1. CASE h.drop
    <3>1. dropper' = [state |-> "DROP", of |-> n] BY <1>2, <1>4, <1>5, <2>1
    <3> QED BY <1>13, <3>1 DEF InHand, Awaited
  <2>2. CASE ~h.drop
    <3>1. dropper' = [state |-> "FWD", of |-> n] BY <1>2, <1>4, <1>5, <2>2
    <3> QED BY <1>13, <3>1 DEF InHand, Awaited
  <2> QED BY <2>1, <2>2
<1>16. DecisionTypes' BY <1>1, <1>2, <1>3, <1>15 DEF DecisionTypes
<1>17. AllWellCut' BY <1>1 DEF AllWellCut
<1>18. GapsAreSound' BY <1>1 DEF GapsAreSound, GapIsSound
<1>19. InLookup' = InLookup /\ InFsm' = InFsm /\ LookupData' = LookupData /\ FsmData' = FsmData
  BY DEF InLookup, InFsm, LookupData, FsmData
<1>20. UNCHANGED <<metaQ, fsmQ, drop1Q, payloadQ, arrived>> BY <1>2
<1>21. DecidedInv' BY <1>1, <1>7, <1>14, <1>15, <1>19, <1>20 DEF DecidedInv
<1>22. NamesRise' BY <1>1, <1>3, <1>7, <1>8, <1>15, <1>19, <1>20 DEF NamesRise, Below
<1> QED BY <1>16, <1>17, <1>18, <1>21, <1>22 DEF DecisionInv

(* The payload in hand is the first of those that wait.                    *)
LEMMA InHandIsFirst ==
    ASSUME DecisionInv, dropper.state # "READ_DROP1", payloadQ # <<>>
    PROVE  dropper.of = Head(payloadQ).id
<1>1. DecisionTypes /\ NamesRise /\ DecidedInv /\ payloadQ \in Seq(Payloads) /\ Rising(Names(payloadQ))
  BY DecisionFacts
<1>2. /\ Head(payloadQ) \in Payloads
      /\ Among(Names(payloadQ)) = {Head(payloadQ).id} \cup Among(Names(Tail(payloadQ)))
      /\ \A n \in Among(Names(Tail(payloadQ))) : Head(payloadQ).id < n
  BY <1>1, PayloadNames
<1>3. PICK n \in Nat : n = Head(payloadQ).id BY <1>2 DEF Payloads
<1>4. PICK o \in Nat : o = dropper.of BY <1>1 DEF DecisionTypes
<1>5. InHand = {o} BY <1>4 DEF InHand
<1>6. LookupData \subseteq InLookup /\ WithData(metaQ) \subseteq Among(Names(metaQ)) BY SetsOfNames
<1>7. \A k \in Among(Names(drop1Q)) \cup LookupData \cup WithData(metaQ) : o < k
  BY <1>1, <1>5, <1>6 DEF NamesRise, Below
<1>8. Among(Names(payloadQ)) = {o} \cup Among(Names(drop1Q)) \cup LookupData \cup WithData(metaQ)
  BY <1>1, <1>5 DEF DecidedInv
<1>9. n = o \/ o < n BY <1>2, <1>3, <1>7, <1>8
<1>10. o = n \/ n < o BY <1>2, <1>3, <1>8
<1> QED BY <1>3, <1>4, <1>9, <1>10

(* A payload that was dropped or forwarded.                                *)
LEMMA PayloadLeaves ==
    ASSUME DecisionInv, dropper.state \in {"DROP", "FWD"}, payloadQ # <<>>,
           payloadQ' = Tail(payloadQ), dropper' = [state |-> "READ_DROP1", of |-> 0],
           UNCHANGED <<build, arrived, metaQ, looking, fsmQ, loaded, drop1Q, drop2Q, sar>>
    PROVE  DecisionInv'
<1>1. /\ DecisionTypes /\ AllWellCut /\ GapsAreSound /\ NamesRise /\ DecidedInv
      /\ payloadQ \in Seq(Payloads) /\ Rising(Names(payloadQ))
  BY DecisionFacts
<1>2. /\ Head(payloadQ) \in Payloads /\ payloadQ' \in Seq(Payloads)
      /\ Rising(Names(payloadQ'))
      /\ Among(Names(payloadQ)) = {Head(payloadQ).id} \cup Among(Names(payloadQ'))
      /\ \A n \in Among(Names(payloadQ')) : Head(payloadQ).id < n
  BY <1>1, PayloadNames
<1>3. PICK o \in Nat : o = dropper.of BY <1>1 DEF DecisionTypes
<1>4. Head(payloadQ).id = o BY <1>3, InHandIsFirst
<1>5. InHand = {o} /\ Awaited = {} /\ InHand' = {} /\ Awaited' = {} BY <1>3 DEF InHand, Awaited
<1>6. LookupData \subseteq InLookup /\ WithData(metaQ) \subseteq Among(Names(metaQ)) BY SetsOfNames
<1>7. \A k \in Among(Names(drop1Q)) \cup LookupData \cup WithData(metaQ) : o < k
  BY <1>1, <1>5, <1>6 DEF NamesRise, Below
<1>8. {o} \cup Among(Names(payloadQ')) = {o} \cup Among(Names(drop1Q)) \cup LookupData \cup WithData(metaQ)
  BY <1>1, <1>2, <1>4, <1>5 DEF DecidedInv
<1>9. Among(Names(payloadQ')) = Among(Names(drop1Q)) \cup LookupData \cup WithData(metaQ)
  <2>1. o \notin Among(Names(payloadQ')) BY <1>2, <1>4
  <2>2. o \notin Among(Names(drop1Q)) \cup LookupData \cup WithData(metaQ) BY <1>7
  <2> QED BY <1>8, <2>1, <2>2
<1>10. DecisionTypes' BY <1>1, <1>2 DEF DecisionTypes
<1>11. AllWellCut' BY <1>1 DEF AllWellCut
<1>12. GapsAreSound' BY <1>1 DEF GapsAreSound, GapIsSound
<1>13. InLookup' = InLookup /\ InFsm' = InFsm /\ LookupData' = LookupData /\ FsmData' = FsmData
  BY DEF InLookup, InFsm, LookupData, FsmData
<1>14. UNCHANGED <<metaQ, fsmQ, drop1Q, drop2Q, arrived>>  OBVIOUS
<1>15. DecidedInv' BY <1>1, <1>5, <1>9, <1>13, <1>14 DEF DecidedInv
<1>16. NamesRise' BY <1>1, <1>2, <1>5, <1>13, <1>14 DEF NamesRise, Below
<1> QED BY <1>10, <1>11, <1>12, <1>15, <1>16 DEF DecisionInv

(* The notifications and the read they lead to.                            *)
Notices == [session : RxSessions, length : Nat, closed : BOOLEAN]
Asks == [session : RxSessions, length : Nat, appd : Nat]
NoticeTypes ==
    /\ notes \in Seq(Notices) /\ noteQ \in Seq(Notices) /\ delayed \in Seq(Notices)
    /\ half = <<>> \/ half \in Notices
    /\ rxAsked = <<>> \/ rxAsked \in Asks

LEMMA RingIs == \A x \in Int : Receive!Ring(x) \in Nat
<1>1. \A x \in Int, b \in Nat \ {0} : x % b \in Nat  OBVIOUS
<1> QED BY <1>1, ReceiveAssumption DEF Receive!Ring

LEMMA NoteIs == \A s \in RxSessions, n \in Nat, c \in BOOLEAN : Receive!Note(s, n, c) \in Notices
BY DEF Receive!Note, Notices

LEMMA KeepNotes ==
    ASSUME NoticeTypes, NEW g, NEW row, NEW note \in Notices, Receive!Keep(g, row, note)
    PROVE  notes' \in Seq(Notices) /\ noteQ' \in Seq(Notices)
<1>1. notes \in Seq(Notices) /\ noteQ \in Seq(Notices) BY DEF NoticeTypes
<1>2. \A q \in Seq(Notices) : Append(q, note) \in Seq(Notices)  OBVIOUS
<1>3. \/ noteQ' = Append(noteQ, note) /\ notes' = notes
      \/ notes' = Append(notes, note) /\ noteQ' = noteQ
  BY Zenon DEF Receive!Keep
<1> QED BY <1>1, <1>2, <1>3, Zenon

LEMMA ToldIs ==
    ASSUME NEW g \in Metas, NEW r \in SarRows,
           NEW b \in {"in_order", "opens_gap", "after_gap", "fills_gap", "into_gap"}
    PROVE  Receive!Told(b, g, r) \in Nat
<1>1. g.length \in Nat /\ g.seq \in Nat BY DEF Metas
<1>2. PICK d \in Int : d = r.head - g.seq BY <1>1 DEF SarRows
<1>3. Receive!Ring(d) \in Nat BY RingIs
<1>4. Receive!Ring(r.head - g.seq) \in Nat BY <1>2, <1>3
<1> HIDE DEF Receive!Ring
<1>5. CASE b \in {"in_order", "into_gap"} BY <1>1, <1>5 DEF Receive!Told
<1>6. CASE b \in {"opens_gap", "after_gap"} BY <1>6 DEF Receive!Told
<1>7. CASE b = "fills_gap" BY <1>4, <1>7 DEF Receive!Told
<1> QED BY <1>5, <1>6, <1>7

LEMMA TransitionNotes ==
    ASSUME DecisionTypes, NoticeTypes, Receive!FsmTransition
    PROVE  notes' \in Seq(Notices) /\ noteQ' \in Seq(Notices)
<1>1. /\ loaded # <<>>
      /\ \/ Receive!FsmAck(loaded.segment, loaded.row) \/ Receive!FsmFin(loaded.segment, loaded.row)
         \/ Receive!FsmOther(loaded.segment, loaded.row)
  BY DEF Receive!FsmTransition
<1>2. PICK g \in Metas, r \in SarRows : g = loaded.segment /\ r = loaded.row BY <1>1 DEF DecisionTypes
<1>3. g.session \in RxSessions /\ g.length \in Nat BY DEF Metas
<1>4. notes \in Seq(Notices) /\ noteQ \in Seq(Notices) BY DEF NoticeTypes
<1>5. CASE Receive!NoDecision \/ Receive!Refuse(g) BY <1>4, <1>5 DEF Receive!NoDecision, Receive!Refuse
<1>6. ASSUME NEW row, NEW n \in Nat, NEW c \in BOOLEAN,
             Receive!Keep(g, row, Receive!Note(g.session, n, c))
      PROVE  notes' \in Seq(Notices) /\ noteQ' \in Seq(Notices)
  <2>1. Receive!Note(g.session, n, c) \in Notices BY <1>3, NoteIs
  <2> QED BY <1>6, <2>1, KeepNotes
<1>7. CASE Receive!FsmFin(g, r)
  <2>1. CASE g.session \in open /\ Receive!Expected(g, r)
    <3>1. Receive!Keep(g, [r EXCEPT !.recvd = g.seq + g.length + 1, !.head = g.seq + g.length + 1],
                       Receive!Note(g.session, g.length, TRUE))
      BY <1>7, <2>1 DEF Receive!FsmFin
    <3> QED BY <1>3, <1>6, <3>1
  <2>2. CASE ~(g.session \in open /\ Receive!Expected(g, r)) BY <1>5, <1>7, <2>2 DEF Receive!FsmFin
  <2> QED BY <2>1, <2>2
<1>8. CASE Receive!FsmOther(g, r) BY <1>5, <1>8 DEF Receive!FsmOther
<1>9. CASE Receive!FsmAck(g, r)
  <2>1. CASE g.length = 0 BY <1>5, <1>9, <2>1 DEF Receive!FsmAck
  <2>2. CASE g.length # 0 /\ build = "bypass"
    <3>1. CASE Receive!Expected(g, r) /\ Receive!RoomInFifo
      <4>1. Receive!Keep(g, Receive!NewRow("in_order", g, r), Receive!Note(g.session, g.length, FALSE))
        BY <1>9, <2>2, <3>1 DEF Receive!FsmAck
      <4> QED BY <1>3, <1>6, <4>1
    <3>2. CASE ~(Receive!Expected(g, r) /\ Receive!RoomInFifo) BY <1>5, <1>9, <2>2, <3>2 DEF Receive!FsmAck
    <3> QED BY <3>1, <3>2
  <2>3. CASE g.length # 0 /\ build # "bypass"
    <3>1. PICK b \in {Receive!Branch(g, r)} : TRUE  OBVIOUS
    <3>2. b \in {"in_order", "opens_gap", "after_gap", "fills_gap", "into_gap", "none", "drop"}
      BY <3>1, BranchIs
    <3>3. CASE b = "drop" BY <1>5, <1>9, <2>3, <3>1, <3>3 DEF Receive!FsmAck
    <3>4. CASE b = "none" BY <1>5, <1>9, <2>3, <3>1, <3>4 DEF Receive!FsmAck
    <3>5. CASE b # "drop" /\ b # "none"
      <4>1. Receive!Keep(g, Receive!NewRow(b, g, r), Receive!Note(g.session, Receive!Told(b, g, r), FALSE))
        BY <1>9, <2>3, <3>1, <3>5 DEF Receive!FsmAck
      <4>2. Receive!Told(b, g, r) \in Nat BY <3>2, <3>5, ToldIs
      <4> QED BY <1>6, <4>1, <4>2
    <3> QED BY <3>3, <3>4, <3>5
  <2> QED BY <2>1, <2>2, <2>3
<1> QED BY <1>1, <1>2, <1>7, <1>8, <1>9

LEMMA DelayerNotes ==
    ASSUME NoticeTypes, Receive!Delayer
    PROVE  NoticeTypes'
<1>1. /\ notes \in Seq(Notices) /\ noteQ \in Seq(Notices) /\ delayed \in Seq(Notices)
      /\ half = <<>> \/ half \in Notices
      /\ rxAsked = <<>> \/ rxAsked \in Asks
  BY DEF NoticeTypes
<1>2. rxAsked' = rxAsked BY DEF Receive!Delayer, Receive!appVars
<1>3. ASSUME NEW n \in Notices, Receive!Tell(n) PROVE notes' \in Seq(Notices)
  BY <1>1, <1>3 DEF Receive!Tell
<1>4. noteQ # <<>> => Head(noteQ) \in Notices /\ Tail(noteQ) \in Seq(Notices) BY <1>1, TailOf
<1>5. delayed # <<>> => Head(delayed) \in Notices /\ Tail(delayed) \in Seq(Notices) BY <1>1, TailOf
<1>6. CASE Receive!SecondStatus
  <2>1. half \in Notices /\ Receive!Tell(half) /\ half' = <<>> /\ UNCHANGED <<noteQ, delayed>>
    BY <1>1, <1>6 DEF Receive!SecondStatus
  <2>2. notes' \in Seq(Notices) BY <1>3, <2>1
  <2> QED BY <1>1, <1>2, <2>1, <2>2 DEF NoticeTypes
<1>7. CASE Receive!FirstStatus
  <2>1. /\ delayed # <<>> /\ delayed' = Tail(delayed) /\ noteQ' = noteQ /\ half = <<>>
        /\ (half' = Head(delayed) /\ notes' = notes) \/ (Receive!Tell(Head(delayed)) /\ half' = half)
    <3>1. delayed # <<>> /\ delayed' = Tail(delayed) /\ noteQ' = noteQ /\ half = <<>>
      BY <1>7, Zenon DEF Receive!FirstStatus
    <3>2. (half' = Head(delayed) /\ notes' = notes) \/ (Receive!Tell(Head(delayed)) /\ half' = half)
      BY <1>7, Zenon DEF Receive!FirstStatus
    <3> QED BY <3>1, <3>2, Zenon
  <2>2. (half' = <<>> \/ half' \in Notices) /\ notes' \in Seq(Notices) BY <1>1, <1>3, <1>5, <2>1
  <2> QED BY <1>1, <1>2, <1>5, <2>1, <2>2 DEF NoticeTypes
<1>8. CASE Receive!Delay
  <2>1. /\ noteQ # <<>> /\ noteQ' = Tail(noteQ) /\ half' = half
        /\ \/ notes' = Append(notes, Head(noteQ)) /\ delayed' = delayed
           \/ delayed' = Append(delayed, Head(noteQ)) /\ notes' = notes
    BY <1>8 DEF Receive!Delay
  <2>2. \A q \in Seq(Notices), n \in Notices : Append(q, n) \in Seq(Notices)  OBVIOUS
  <2>3. notes' \in Seq(Notices) /\ delayed' \in Seq(Notices) BY <1>1, <1>4, <2>1, <2>2, Zenon
  <2> QED BY <1>1, <1>2, <1>4, <2>1, <2>3 DEF NoticeTypes
<1> QED BY <1>6, <1>7, <1>8 DEF Receive!Delayer

LEMMA AskNotes ==
    ASSUME DecisionTypes, NoticeTypes, Receive!AskRead
    PROVE  NoticeTypes'
<1>1. /\ notes \in Seq(Notices) /\ noteQ \in Seq(Notices) /\ delayed \in Seq(Notices)
      /\ half = <<>> \/ half \in Notices
  BY DEF NoticeTypes
<1>2. /\ notes # <<>> /\ notes' = Tail(notes)
      /\ rxAsked' = IF Head(notes).length = 0 THEN <<>>
                     ELSE [session |-> Head(notes).session, length |-> Head(notes).length,
                           appd |-> sar[Head(notes).session].appd]
      /\ UNCHANGED <<noteQ, delayed, half>>
  BY DEF Receive!AskRead, Receive!noteVars
<1>3. Head(notes) \in Notices /\ notes' \in Seq(Notices) BY <1>1, <1>2, TailOf
<1>4. PICK n \in Notices : n = Head(notes) BY <1>3
<1>5. n.session \in RxSessions /\ n.length \in Nat BY DEF Notices
<1>6. sar[n.session].appd \in Nat BY <1>5 DEF DecisionTypes, SarRows
<1>7. rxAsked' = <<>> \/ rxAsked' \in Asks BY <1>2, <1>4, <1>5, <1>6 DEF Asks
<1> QED BY <1>1, <1>2, <1>3, <1>7 DEF NoticeTypes

LEMMA StartKeepsRows ==
    ASSUME DecisionTypes, NoticeTypes, Receive!StartRead
    PROVE  KeepsRows
<1>1. rxAsked # <<>> /\ sar' = [sar EXCEPT ![rxAsked.session].appd = Receive!Ring(rxAsked.appd + rxAsked.length)]
  BY DEF Receive!StartRead
<1>2. PICK a \in Asks : a = rxAsked BY <1>1 DEF NoticeTypes
<1>3. a.session \in RxSessions BY DEF Asks
<1>4. PICK x \in Int : x = a.appd + a.length BY DEF Asks
<1>5. PICK y \in Nat : y = Receive!Ring(x) BY RingIs
<1>6. sar' = [sar EXCEPT ![a.session] = [sar[a.session] EXCEPT !.appd = y]] BY <1>1, <1>2, <1>4, <1>5
<1>7. sar \in [RxSessions -> SarRows] BY DEF DecisionTypes
<1>8. PICK r \in SarRows : r = sar[a.session] BY <1>3, <1>7
<1>9. PICK q \in SarRows : q = [r EXCEPT !.appd = y] BY DEF SarRows
<1>10. sar' = [sar EXCEPT ![a.session] = q] BY <1>6, <1>8, <1>9
<1>11. [q EXCEPT !.appd = 0] = [r EXCEPT !.appd = 0] BY <1>9 DEF SarRows
<1>12. \A s \in RxSessions : sar'[s] = IF s = a.session THEN q ELSE sar[s] BY <1>7, <1>10
<1>13. \A s \in RxSessions : [sar'[s] EXCEPT !.appd = 0] = [sar[s] EXCEPT !.appd = 0]
  BY <1>8, <1>11, <1>12
<1>14. sar' \in [RxSessions -> SarRows] BY <1>7, <1>10
<1> QED BY <1>13, <1>14 DEF KeepsRows

LEMMA NoticeStep ==
    ASSUME DecisionTypes, NoticeTypes, [Receive!Next]_receiveVars
    PROVE  NoticeTypes'
<1>1. UNCHANGED <<notes, noteQ, delayed, half, rxAsked>> => NoticeTypes' BY DEF NoticeTypes
<1> USE DEF Receive!noteVars, Receive!appVars
<1>2. ASSUME NEW g \in Receive!Segments, Receive!Arrive(g) PROVE NoticeTypes'
  BY <1>1, <1>2 DEF Receive!Arrive
<1>3. CASE Receive!MetaClosedPort BY <1>1, <1>3 DEF Receive!MetaClosedPort
<1>4. CASE Receive!MetaLookup BY <1>1, <1>4 DEF Receive!MetaLookup
<1>5. CASE Receive!MetaAnswered BY <1>1, <1>5 DEF Receive!MetaAnswered
<1>6. CASE Receive!FsmLoad BY <1>1, <1>6 DEF Receive!FsmLoad
<1>7. CASE Receive!FsmTransition
  <2>1. UNCHANGED <<delayed, half, rxAsked>> BY <1>7 DEF Receive!FsmTransition
  <2> QED BY <1>7, <2>1, TransitionNotes DEF NoticeTypes
<1>8. CASE Receive!ReadDecision BY <1>1, <1>8 DEF Receive!ReadDecision
<1>9. CASE Receive!DropPayload BY <1>1, <1>9 DEF Receive!DropPayload
<1>10. CASE Receive!ForwardPayload BY <1>1, <1>10 DEF Receive!ForwardPayload
<1>11. CASE Receive!MoverWrites BY <1>1, <1>11 DEF Receive!MoverWrites
<1>12. CASE Receive!Delayer BY <1>12, DelayerNotes
<1>13. CASE Receive!AskRead BY <1>13, AskNotes
<1>14. CASE Receive!StartRead BY <1>14 DEF Receive!StartRead, NoticeTypes
<1>15. CASE Receive!Read BY <1>1, <1>15 DEF Receive!Read
<1>16. CASE UNCHANGED receiveVars BY <1>1, <1>16 DEF receiveVars
<1> QED
  BY <1>2, <1>3, <1>4, <1>5, <1>6, <1>7, <1>8, <1>9, <1>10, <1>11, <1>12, <1>13, <1>14, <1>15, <1>16
  DEF Receive!Next

LEMMA DecisionStep ==
    ASSUME DecisionInv, NoticeTypes, [Receive!Next]_receiveVars
    PROVE  DecisionInv'
<1>1. DecisionTypes BY DecisionFacts
<1>2. sar \in [RxSessions -> SarRows] BY <1>1 DEF DecisionTypes
<1>3. sar' = sar => KeepsRows BY <1>2 DEF KeepsRows
<1>4. ASSUME NEW g \in Receive!Segments, Receive!Arrive(g) PROVE DecisionInv' BY <1>4, ArriveDecides
<1>5. CASE Receive!MetaClosedPort \/ Receive!MetaLookup \/ Receive!MetaAnswered
  BY <1>5, PortDecides, LookupDecides, AnsweredDecides
<1>6. CASE Receive!FsmLoad \/ Receive!FsmTransition BY <1>6, LoadDecides, TransitionDecides
<1>7. CASE Receive!ReadDecision
  <2>1. /\ Receive!ReadDrop1 \/ Receive!ReadDrop2
        /\ UNCHANGED <<build, arrived, payloadQ, metaQ, looking, fsmQ, loaded, sar>>
    BY <1>7 DEF Receive!ReadDecision
  <2> QED BY <2>1, FirstDecides, SecondDecides
<1>8. CASE Receive!DropPayload BY <1>8, PayloadLeaves DEF Receive!DropPayload
<1>9. CASE Receive!ForwardPayload BY <1>9, PayloadLeaves DEF Receive!ForwardPayload
<1>10. CASE Receive!MoverWrites
  <2>1. UNCHANGED <<build, arrived, payloadQ, metaQ, looking, fsmQ, loaded, drop1Q, drop2Q, dropper, sar>>
    BY <1>10 DEF Receive!MoverWrites, Receive!decisionVars
  <2> QED BY <1>3, <2>1, DecisionRests
<1>11. CASE Receive!Delayer
  <2>1. UNCHANGED <<build, arrived, payloadQ, metaQ, looking, fsmQ, loaded, drop1Q, drop2Q, dropper, sar>>
    BY <1>11 DEF Receive!Delayer, Receive!decisionVars
  <2> QED BY <1>3, <2>1, DecisionRests
<1>12. CASE Receive!AskRead
  <2>1. UNCHANGED <<build, arrived, payloadQ, metaQ, looking, fsmQ, loaded, drop1Q, drop2Q, dropper, sar>>
    BY <1>12 DEF Receive!AskRead, Receive!decisionVars
  <2> QED BY <1>3, <2>1, DecisionRests
<1>13. CASE Receive!StartRead
  <2>1. UNCHANGED <<build, arrived, payloadQ, metaQ, looking, fsmQ, loaded, drop1Q, drop2Q, dropper>>
    BY <1>13 DEF Receive!StartRead, Receive!decisionVars
  <2>2. KeepsRows BY <1>1, <1>13, StartKeepsRows
  <2> QED BY <2>1, <2>2, DecisionRests
<1>14. CASE Receive!Read
  <2>1. UNCHANGED <<build, arrived, payloadQ, metaQ, looking, fsmQ, loaded, drop1Q, drop2Q, dropper, sar>>
    BY <1>14 DEF Receive!Read, Receive!decisionVars
  <2> QED BY <1>3, <2>1, DecisionRests
<1>15. CASE UNCHANGED receiveVars
  <2>1. UNCHANGED <<build, arrived, payloadQ, metaQ, looking, fsmQ, loaded, drop1Q, drop2Q, dropper, sar>>
    BY <1>15 DEF receiveVars
  <2> QED BY <1>3, <2>1, DecisionRests
<1> QED BY <1>4, <1>5, <1>6, <1>7, <1>8, <1>9, <1>10, <1>11, <1>12, <1>13, <1>14, <1>15 DEF Receive!Next

(* rx_engine.cpp:1602: a payload is dropped or forwarded by the decisions  *)
(* taken for its own segment, for any sessions, cuts and depth.            *)
THEOREM DecisionsMeet == ReceiveSpec => []DecisionsMeetTheirPayload
<1>1. DecisionInv => DecisionsMeetTheirPayload
  BY InHandIsFirst DEF DecisionsMeetTheirPayload, Receive!DecisionsMeetTheirPayload
<1>2. Receive!Init => DecisionInv /\ NoticeTypes
  <2>1. Receive!Init => NoticeTypes BY DEF Receive!Init, NoticeTypes
  <2> QED BY <2>1, DecisionStart
<1>3. DecisionInv /\ NoticeTypes /\ [Receive!Next]_receiveVars => (DecisionInv /\ NoticeTypes)'
  BY DecisionFacts, DecisionStep, NoticeStep
<1> QED BY <1>1, <1>2, <1>3, PTL DEF ReceiveSpec

-----------------------------------------------------------------------------
(* What the application reads in the build with bypass.  The invariant     *)
(* speaks of a log of the segments that were kept, which is not in the     *)
(* model: it is a witness.  Counted from 0: L[k] is a segment, at[k] says  *)
(* how far the streams go before it; the application has read a of them,   *)
(* w are through the dropper, r are in a read command, q are asked for; p  *)
(* says where in the log a notification stands.                            *)

Datas == Seq((RxSessions \X Int) \cup {Foreign})

BypassTypes ==
    /\ build = "bypass"
    /\ noteQ = <<>> /\ delayed = <<>> /\ half = <<>>
    /\ fifo \in Seq(Datas)
    /\ got \in [upto : [RxSessions -> Nat], last : Datas, session : RxSessions \cup {0}]

Elements(s) == {s[i] : i \in DOMAIN s}
Underway ==
    Elements(metaQ) \cup Elements(fsmQ) \cup (IF looking = <<>> THEN {} ELSE {looking})
      \cup (IF loaded = <<>> THEN {} ELSE {loaded.segment})

DataOf(m) == Receive!Bytes(m.session, m.seq, m.length)
Fits(s, m) == \A i \in DOMAIN s : s[i].id = m.id => s[i].data = DataOf(m)
DataInv == \A m \in Underway : m.kind \in {"ACK", "FIN"} => Fits(payloadQ, m)

LoadedIsCurrent == loaded # <<>> => loaded.row.recvd = sar[loaded.segment.session].recvd

(* After a FIN nothing of its stream is expected.                          *)
EndIsBehind ==
    \A s \in RxSessions : s \notin open =>
        \E c \in Cuts[s] : c[3] = "FIN" /\ sar[s].recvd = RxFirst + c[1] + c[2] + 1

NothingAfterEnd ==
    /\ \A i \in DOMAIN notes : notes[i].closed =>
          /\ notes[i].session \notin open
          /\ \A j \in DOMAIN notes : i < j => notes[j].session # notes[i].session
    /\ \A s \in closed : s \notin open /\ \A i \in DOMAIN notes : notes[i].session # s

LogIs(n, L, at) ==
    \A k \in 0 .. n - 1 :
        /\ L[k] \in Metas /\ L[k].seq = at[k][L[k].session]
        /\ at[k + 1] = [at[k] EXCEPT ![L[k].session] = L[k].seq + L[k].length]
Reach(n, at) == \A s \in RxSessions : sar[s].recvd = at[n][s] + (IF s \in open THEN 0 ELSE 1)
ReadTo(a, at) == \A s \in RxSessions : got.upto[s] = at[a][s]
InFifo(a, w, L) == Len(fifo) = w - a /\ \A i \in 1 .. w - a : fifo[i] = DataOf(L[a + i - 1])
Announces(x, m) == x.session = m.session /\ x.length = m.length
IsRead(a, r, L) ==
    \/ readQ = <<>> /\ r = a
    \/ r = a + 1 /\ \E c : readQ = <<c>> /\ Announces(c, L[a])
IsAsked(r, q, L) ==
    \/ rxAsked = <<>> /\ q = r
    \/ rxAsked # <<>> /\ q = r + 1 /\ Announces(rxAsked, L[r])
Stands(x, i, n, L, p) ==
    \/ x.length = 0 /\ p[i + 1] = p[i]
    \/ x.length # 0 /\ p[i + 1] = p[i] + 1 /\ p[i] < n /\ Announces(x, L[p[i]])
IsTold(q, n, L, p) ==
    /\ p[1] = q /\ p[Len(notes) + 1] = n
    /\ \A i \in DOMAIN notes : Stands(notes[i], i, n, L, p)
Passing == IF dropper.state = "FWD" THEN {dropper.of} ELSE {}
Waiting == Passing \cup Kept(drop2Q)
IdsFrom(w, n, L) == {L[k].id : k \in w .. n - 1}
Waits(w, n, L) ==
    /\ Waiting = IdsFrom(w, n, L)
    /\ \A j, k \in w .. n - 1 : j < k => L[j].id < L[k].id
    /\ \A k \in w .. n - 1 : Fits(payloadQ, L[k])

Logs == [Nat -> Metas \cup {<<>>}]
Places == [Nat -> [RxSessions -> Nat]]
Log(n, a, w, r, q, L, at, p) ==
    /\ a <= w /\ w <= n /\ r <= n /\ q <= n
    /\ LogIs(n, L, at) /\ Reach(n, at) /\ ReadTo(a, at)
    /\ InFifo(a, w, L) /\ IsRead(a, r, L) /\ IsAsked(r, q, L) /\ IsTold(q, n, L, p)
    /\ Waits(w, n, L)
LogInv ==
    \E n, a, w, r, q \in Nat : \E L \in Logs, at \in Places, p \in [Nat -> Nat] :
        Log(n, a, w, r, q, L, at, p)

StreamInv ==
    BypassTypes /\ DataInv /\ LoadedIsCurrent /\ EndIsBehind /\ NothingAfterEnd /\ LogInv
      /\ Receive!StreamIsRead

LEMMA DataIs ==
    ASSUME NEW m \in Metas
    PROVE  DataOf(m) \in Datas /\ Len(DataOf(m)) = m.length
<1>1. PICK s \in RxSessions, f \in Nat, n \in Nat : s = m.session /\ f = m.seq /\ n = m.length BY DEF Metas
<1>2. DataOf(m) = [k \in 1 .. n |-> <<s, f + k - 1>>] BY <1>1 DEF DataOf, Receive!Bytes, Receive!Byte
<1> QED BY <1>1, <1>2 DEF Datas

LEMMA FitsTail ==
    ASSUME NEW s \in Seq(Payloads), s # <<>>, NEW m, Fits(s, m)
    PROVE  Fits(Tail(s), m) /\ (Head(s).id = m.id => Head(s).data = DataOf(m))
<1>1. /\ Head(s) = s[1] /\ 1 \in DOMAIN s
      /\ \A i \in DOMAIN Tail(s) : i + 1 \in DOMAIN s /\ Tail(s)[i] = s[i + 1]
  BY TailOf
<1> QED BY <1>1 DEF Fits

LEMMA FitsAppend ==
    ASSUME NEW s \in Seq(Payloads), NEW e \in Payloads, NEW m, Fits(s, m),
           e.id = m.id => e.data = DataOf(m)
    PROVE  Fits(Append(s, e), m)
<1> DEFINE z == Append(s, e)  k == Len(s) + 1
<1>1. /\ k \in DOMAIN z /\ z[k] = e
      /\ \A i \in DOMAIN s : i \in DOMAIN z /\ z[i] = s[i]
      /\ \A i \in DOMAIN z : i \in DOMAIN s \/ i = k
  BY AppendOf
<1> HIDE DEF z, k
<1>2. Fits(z, m) BY <1>1 DEF Fits
<1> QED BY <1>2 DEF z

LEMMA ElementsOf ==
    ASSUME NEW s \in Seq(Metas)
    PROVE  /\ s # <<>> => Head(s) \in Elements(s) /\ Elements(Tail(s)) \subseteq Elements(s)
           /\ \A e \in Metas : Elements(Append(s, e)) = Elements(s) \cup {e}
<1>1. s # <<>> => Head(s) \in Elements(s) /\ Elements(Tail(s)) \subseteq Elements(s) BY TailOf DEF Elements
<1>2. ASSUME NEW e \in Metas PROVE Elements(Append(s, e)) = Elements(s) \cup {e}
  <2> DEFINE z == Append(s, e)  k == Len(s) + 1
  <2>1. /\ k \in DOMAIN z /\ z[k] = e
        /\ \A i \in DOMAIN s : i \in DOMAIN z /\ z[i] = s[i]
        /\ \A i \in DOMAIN z : i \in DOMAIN s \/ i = k
    BY AppendOf
  <2> HIDE DEF z, k
  <2>2. Elements(z) = Elements(s) \cup {e} BY <2>1 DEF Elements
  <2> QED BY <2>2 DEF z
<1> QED BY <1>1, <1>2

(* The names of what is under way, and of what waits for the dropper.      *)
LEMMA UnderwayIs ==
    ASSUME DecisionInv
    PROVE  /\ \A m \in Underway : m \in Metas /\ m.id <= arrived /\ WellCut(m)
           /\ Waiting \subseteq Among(Names(payloadQ))
           /\ \A k \in Among(Names(payloadQ)) : k \in Nat /\ k <= arrived
           /\ loaded # <<>> /\ loaded.segment.length # 0 => \A k \in Waiting : k < loaded.segment.id
           /\ \A j \in Passing, k \in Kept(drop2Q) : j < k
<1>1. /\ DecisionTypes /\ AllWellCut /\ NamesRise /\ DecidedInv
      /\ metaQ \in Seq(Metas) /\ fsmQ \in Seq(Metas)
      /\ looking = <<>> \/ looking \in Metas
      /\ loaded = <<>> \/ loaded \in [segment : Metas, row : SarRows]
      /\ drop2Q \in Seq(Decisions) /\ Rising(Names(drop2Q))
  BY DecisionFacts DEF DecisionTypes
<1>2. Elements(metaQ) \subseteq Metas /\ Elements(fsmQ) \subseteq Metas BY <1>1 DEF Elements
<1>3. Underway \subseteq Metas BY <1>1, <1>2 DEF Underway
<1>4. \A m \in Underway : m.id \in Among(Names(metaQ)) \cup InLookup \cup InFsm \cup Among(Names(fsmQ))
  <2>1. \A m \in Elements(metaQ) : m.id \in Among(Names(metaQ)) BY DEF Elements, Among, Names
  <2>2. \A m \in Elements(fsmQ) : m.id \in Among(Names(fsmQ)) BY DEF Elements, Among, Names
  <2>3. looking # <<>> => looking.id \in InLookup BY DEF InLookup
  <2>4. loaded # <<>> => loaded.segment.id \in InFsm BY DEF InFsm
  <2> QED BY <2>1, <2>2, <2>3, <2>4 DEF Underway
<1>5. \A m \in Underway : m.id <= arrived BY <1>1, <1>4 DEF NamesRise
<1>6. \A m \in Underway : WellCut(m) BY <1>1 DEF AllWellCut, Underway, Elements
<1>7. /\ Awaited \subseteq InHand /\ Kept(drop1Q) \subseteq Among(Names(drop1Q))
      /\ Among(Names(payloadQ)) \subseteq Nat
  BY SetsOfNames
<1>8. Kept(drop2Q) \subseteq Among(Names(drop2Q)) BY <1>1, DecisionNames
<1>9. Passing \subseteq InHand /\ (Passing # {} => Awaited = {}) BY DEF Passing, InHand, Awaited
<1>10. InHand \cup Among(Names(drop1Q)) \subseteq Among(Names(payloadQ)) BY <1>1 DEF DecidedInv
<1>11. Waiting \subseteq Among(Names(payloadQ)) BY <1>1, <1>7, <1>8, <1>9, <1>10 DEF DecidedInv, Waiting
<1>12. \A k \in Among(Names(payloadQ)) : k <= arrived BY <1>1 DEF NamesRise
<1>13. \A j \in Passing, k \in Among(Names(drop2Q)) \cup FsmData : j < k
  <2> SUFFICES ASSUME NEW j \in Passing PROVE \A k \in Among(Names(drop2Q)) \cup FsmData : j < k  OBVIOUS
  <2>1. Among(Names(drop2Q)) \cup FsmData \subseteq Among(Names(drop1Q)) BY <1>1, <1>7, <1>9 DEF DecidedInv
  <2> QED BY <1>1, <1>9, <2>1 DEF NamesRise, Below
<1>14. ASSUME loaded # <<>>, loaded.segment.length # 0 PROVE \A k \in Waiting : k < loaded.segment.id
  <2>1. loaded.segment.id \in FsmData /\ loaded.segment.id \in InFsm BY <1>14 DEF FsmData, InFsm
  <2>2. \A k \in Among(Names(drop2Q)) : k < loaded.segment.id BY <1>1, <2>1 DEF NamesRise, Below
  <2> QED BY <1>8, <1>13, <2>1, <2>2 DEF Waiting
<1> QED BY <1>3, <1>5, <1>6, <1>7, <1>8, <1>11, <1>12, <1>13, <1>14

(* The log in the steps that leave it as it is.                            *)
LEMMA LogRests ==
    ASSUME LogInv, UNCHANGED <<open, fifo, notes, rxAsked, readQ, got>>,
           \A s \in RxSessions : sar'[s].recvd = sar[s].recvd,
           Waiting' = Waiting,
           \A m \in Metas : m.id \in Waiting /\ Fits(payloadQ, m) => Fits(payloadQ', m)
    PROVE  LogInv'
<1>1. PICK n \in Nat, a \in Nat, w \in Nat, r \in Nat, q \in Nat, L \in Logs, at \in Places, p \in [Nat -> Nat] :
        Log(n, a, w, r, q, L, at, p)
  BY DEF LogInv
<1>2. /\ a <= w /\ w <= n /\ r <= n /\ q <= n
      /\ LogIs(n, L, at) /\ Reach(n, at) /\ ReadTo(a, at)
      /\ InFifo(a, w, L) /\ IsRead(a, r, L) /\ IsAsked(r, q, L) /\ IsTold(q, n, L, p)
      /\ Waits(w, n, L)
  BY <1>1 DEF Log
<1>3. Reach(n, at)' /\ ReadTo(a, at)' BY <1>2 DEF Reach, ReadTo
<1>4. InFifo(a, w, L)' /\ IsRead(a, r, L)' /\ IsAsked(r, q, L)' /\ IsTold(q, n, L, p)'
  BY <1>2 DEF InFifo, IsRead, IsAsked, IsTold
<1>5. \A k \in w .. n - 1 : L[k] \in Metas /\ L[k].id \in Waiting /\ Fits(payloadQ, L[k])
  <2> SUFFICES ASSUME NEW k \in w .. n - 1 PROVE L[k] \in Metas /\ L[k].id \in Waiting /\ Fits(payloadQ, L[k])
    OBVIOUS
  <2>1. k \in 0 .. n - 1  OBVIOUS
  <2>2. L[k] \in Metas BY <1>2, <2>1 DEF LogIs
  <2> QED BY <1>2, <2>2 DEF Waits, IdsFrom
<1>6. \A k \in w .. n - 1 : Fits(payloadQ', L[k]) BY <1>5
<1>7. Waits(w, n, L)' BY <1>2, <1>6 DEF Waits
<1>8. Log(n, a, w, r, q, L, at, p)' BY <1>2, <1>3, <1>4, <1>7 DEF Log
<1> QED BY <1>1, <1>8 DEF LogInv

(* A segment is kept: its session is open and expects it.                  *)
Keeping(g, c, x) ==
    /\ g.session \in open /\ g.seq = sar[g.session].recvd
    /\ open' = IF c THEN open \ {g.session} ELSE open
    /\ \A s \in RxSessions :
          sar'[s].recvd = IF s = g.session THEN g.seq + g.length + (IF c THEN 1 ELSE 0) ELSE sar[s].recvd
    /\ Announces(x, g) /\ notes' = Append(notes, x)
    /\ Waiting' = Waiting \cup (IF g.length = 0 THEN {} ELSE {g.id})
    /\ UNCHANGED <<payloadQ, fifo, rxAsked, readQ, got>>

(* With data it is the next of the log.                                    *)
LEMMA LogGrows ==
    ASSUME LogInv, NEW g \in Metas, NEW c \in BOOLEAN, NEW x \in Notices, notes \in Seq(Notices),
           Keeping(g, c, x), g.length # 0, \A k \in Waiting : k < g.id, Fits(payloadQ, g)
    PROVE  LogInv'
<1>1. PICK n \in Nat, a \in Nat, w \in Nat, r \in Nat, q \in Nat, L \in Logs, at \in Places, p \in [Nat -> Nat] :
        Log(n, a, w, r, q, L, at, p)
  BY DEF LogInv
<1>2. /\ a <= w /\ w <= n /\ r <= n /\ q <= n
      /\ LogIs(n, L, at) /\ Reach(n, at) /\ ReadTo(a, at)
      /\ InFifo(a, w, L) /\ IsRead(a, r, L) /\ IsAsked(r, q, L) /\ IsTold(q, n, L, p)
      /\ Waits(w, n, L)
  BY <1>1 DEF Log
<1>0. /\ g.session \in open /\ g.seq = sar[g.session].recvd
      /\ open' = IF c THEN open \ {g.session} ELSE open
      /\ \A s \in RxSessions :
            sar'[s].recvd = IF s = g.session THEN g.seq + g.length + (IF c THEN 1 ELSE 0) ELSE sar[s].recvd
      /\ Announces(x, g) /\ notes' = Append(notes, x)
      /\ Waiting' = Waiting \cup {g.id}
      /\ UNCHANGED <<payloadQ, fifo, rxAsked, readQ, got>>
  BY DEF Keeping
<1>3. PICK m \in Nat : m = n + 1  OBVIOUS
<1>4. PICK e \in Nat : e = g.seq + g.length
  <2>1. g.seq \in Nat /\ g.length \in Nat BY DEF Metas
  <2> QED BY <2>1
<1>5. PICK t \in RxSessions : t = g.session BY DEF Metas
<1>6. PICK l \in Nat : l = Len(notes)  OBVIOUS
<1>7. PICK u \in [RxSessions -> Nat] : u = [at[n] EXCEPT ![t] = e]
  <2>1. at[n] \in [RxSessions -> Nat] BY DEF Places
  <2> QED BY <2>1
<1>8. PICK K \in Logs : K = [L EXCEPT ![n] = g] BY DEF Logs
<1>9. PICK to \in Places : to = [at EXCEPT ![m] = u] BY DEF Places
<1>10. PICK z \in [Nat -> Nat] : z = [p EXCEPT ![l + 2] = m]  OBVIOUS
<1>11. /\ K[n] = g /\ \A k \in 0 .. n - 1 : K[k] = L[k]
  BY <1>8 DEF Logs
<1>12. /\ to[m] = u /\ \A k \in 0 .. n : to[k] = at[k]
  BY <1>3, <1>9 DEF Places
<1>13. g.seq = at[n][t]
  <2>1. at[n][t] \in Nat BY DEF Places
  <2>2. g.seq = sar[t].recvd /\ t \in open BY <1>0, <1>5
  <2>3. PICK y \in Nat : y = at[n][t] BY <2>1
  <2>4. sar[t].recvd = y + 0 BY <1>2, <2>2, <2>3 DEF Reach
  <2>5. y + 0 = y  OBVIOUS
  <2> QED BY <2>2, <2>3, <2>4, <2>5
<1>14. LogIs(m, K, to)
  <2> SUFFICES ASSUME NEW k \in 0 .. m - 1
               PROVE  /\ K[k] \in Metas /\ K[k].seq = to[k][K[k].session]
                      /\ to[k + 1] = [to[k] EXCEPT ![K[k].session] = K[k].seq + K[k].length]
    BY DEF LogIs
  <2>1. CASE k = n
    <3>1. K[k] = g /\ to[k] = at[n] /\ to[k + 1] = u BY <1>3, <1>11, <1>12, <2>1
    <3> QED BY <1>4, <1>5, <1>7, <1>13, <3>1
  <2>2. CASE k # n
    <3>1. k \in 0 .. n - 1 /\ k \in 0 .. n /\ k + 1 \in 0 .. n BY <1>3, <2>2
    <3>2. K[k] = L[k] /\ to[k] = at[k] /\ to[k + 1] = at[k + 1] BY <1>11, <1>12, <3>1
    <3> QED BY <1>2, <3>1, <3>2 DEF LogIs
  <2> QED BY <2>1, <2>2
<1>15. Reach(m, to)'
  <2> SUFFICES ASSUME NEW s \in RxSessions PROVE sar'[s].recvd = to[m][s] + (IF s \in open' THEN 0 ELSE 1)
    BY DEF Reach
  <2>1. to[m][s] = IF s = t THEN e ELSE at[n][s] BY <1>7, <1>12 DEF Places
  <2>2. sar[s].recvd = at[n][s] + (IF s \in open THEN 0 ELSE 1) BY <1>2 DEF Reach
  <2>3. CASE s = t
    <3>1. sar'[s].recvd = e + (IF c THEN 1 ELSE 0) BY <1>0, <1>4, <1>5, <2>3
    <3>2. s \in open' <=> ~c BY <1>0, <1>5, <2>3
    <3> QED BY <2>1, <2>3, <3>1, <3>2
  <2>4. CASE s # t
    <3>1. s \in open' <=> s \in open BY <1>0, <1>5, <2>4
    <3>2. sar'[s].recvd = sar[s].recvd BY <1>0, <1>5, <2>4
    <3> QED BY <2>1, <2>2, <2>4, <3>1, <3>2
  <2> QED BY <2>3, <2>4
<1>16. ReadTo(a, to)'
  <2>1. a \in 0 .. n BY <1>2
  <2>2. to[a] = at[a] BY <1>12, <2>1
  <2> QED BY <1>0, <1>2, <2>2 DEF ReadTo
<1>17. InFifo(a, w, K)'
  <2>1. ASSUME NEW i \in 1 .. w - a PROVE a + i - 1 \in 0 .. n - 1 BY <1>2
  <2>2. \A i \in 1 .. w - a : K[a + i - 1] = L[a + i - 1] BY <1>11, <2>1
  <2> QED BY <1>0, <1>2, <2>2 DEF InFifo
<1>18. IsRead(a, r, K)'
  <2>1. r = a + 1 => a \in 0 .. n - 1 BY <1>2
  <2>2. r = a + 1 => K[a] = L[a] BY <1>11, <2>1
  <2> QED BY <1>0, <1>2, <2>2 DEF IsRead
<1>19. IsAsked(r, q, K)'
  <2>1. q = r + 1 => r \in 0 .. n - 1 BY <1>2
  <2>2. q = r + 1 => K[r] = L[r] BY <1>11, <2>1
  <2> QED BY <1>0, <1>2, <2>2 DEF IsAsked
<1>20. IsTold(q, m, K, z)'
  <2>1. /\ notes' \in Seq(Notices) /\ Len(notes') = l + 1 /\ DOMAIN notes' = 1 .. l + 1 /\ DOMAIN notes = 1 .. l
        /\ notes'[l + 1] = x /\ \A i \in 1 .. l : notes'[i] = notes[i]
    BY <1>0, <1>6
  <2>2. z[l + 2] = m /\ \A i \in 1 .. l + 1 : z[i] = p[i] BY <1>10
  <2>3. z[1] = q /\ z[l + 1] = n
    <3>1. 1 \in 1 .. l + 1 /\ l + 1 \in 1 .. l + 1  OBVIOUS
    <3> QED BY <1>2, <1>6, <2>2, <3>1 DEF IsTold
  <2>4. ASSUME NEW i \in 1 .. l PROVE Stands(notes'[i], i, m, K, z)
    <3>1. Stands(notes[i], i, n, L, p) BY <1>2, <2>1, <2>4 DEF IsTold
    <3>2. z[i] = p[i] /\ z[i + 1] = p[i + 1] /\ notes'[i] = notes[i]
      <4>1. i \in 1 .. l + 1 /\ i + 1 \in 1 .. l + 1  OBVIOUS
      <4> QED BY <2>1, <2>2, <4>1
    <3>3. p[i] < n => p[i] < m /\ K[p[i]] = L[p[i]]
      <4>1. i \in Nat  OBVIOUS
      <4>2. PICK y \in Nat : y = p[i] BY <4>1
      <4>3. y < n => y < m /\ y \in 0 .. n - 1 BY <1>3
      <4> QED BY <1>11, <4>2, <4>3
    <3> QED BY <3>1, <3>2, <3>3 DEF Stands
  <2>5. Stands(x, l + 1, m, K, z)
    <3>1. z[(l + 1) + 1] = z[l + 1] + 1 /\ z[l + 1] < m BY <1>3, <2>2, <2>3
    <3>2. x.length # 0 BY <1>0 DEF Announces
    <3> QED BY <1>0, <1>11, <2>3, <3>1, <3>2 DEF Stands
  <2>6. \A i \in 1 .. l + 1 : i \in 1 .. l \/ i = l + 1  OBVIOUS
  <2>7. \A i \in 1 .. l + 1 : Stands(notes'[i], i, m, K, z) BY <2>1, <2>4, <2>5, <2>6
  <2>8. z[(l + 1) + 1] = m BY <2>2
  <2> QED BY <2>1, <2>3, <2>7, <2>8 DEF IsTold
<1>21. \A k \in w .. m - 1 : (k = n /\ K[k] = g) \/ (k \in w .. n - 1 /\ k \in 0 .. n - 1 /\ K[k] = L[k])
  <2>1. \A k \in w .. m - 1 : k = n \/ (k \in w .. n - 1 /\ k \in 0 .. n - 1) BY <1>3
  <2> QED BY <1>11, <2>1
<1>22. \A k \in w .. n - 1 : k \in w .. m - 1 /\ K[k] = L[k]
  <2>1. \A k \in w .. n - 1 : k \in w .. m - 1 /\ k \in 0 .. n - 1 BY <1>3
  <2> QED BY <1>11, <2>1
<1>23. n \in w .. m - 1 BY <1>2, <1>3
<1>24. Waits(w, m, K)'
  <2>1. Waiting' = IdsFrom(w, m, K)
    <3>1. \A k \in w .. m - 1 : K[k].id \in Waiting \cup {g.id} BY <1>2, <1>21 DEF Waits, IdsFrom
    <3>2. \A i \in Waiting : \E k \in w .. m - 1 : i = K[k].id BY <1>2, <1>22 DEF Waits, IdsFrom
    <3>3. \E k \in w .. m - 1 : g.id = K[k].id BY <1>11, <1>23
    <3>4. IdsFrom(w, m, K) \subseteq Waiting \cup {g.id} BY <3>1 DEF IdsFrom
    <3>5. Waiting \cup {g.id} \subseteq IdsFrom(w, m, K) BY <3>2, <3>3 DEF IdsFrom
    <3> QED BY <1>0, <3>4, <3>5
  <2>2. \A j, k \in w .. m - 1 : j < k => K[j].id < K[k].id
    <3> SUFFICES ASSUME NEW j \in w .. m - 1, NEW k \in w .. m - 1, j < k PROVE K[j].id < K[k].id  OBVIOUS
    <3>1. j \in w .. n - 1 /\ K[j] = L[j]
      <4>1. j # n BY <1>3
      <4> QED BY <1>21, <4>1
    <3>2. CASE k \in w .. n - 1 BY <1>2, <1>22, <3>1, <3>2 DEF Waits
    <3>3. CASE k = n
      <4>1. L[j].id \in Waiting BY <1>2, <3>1 DEF Waits, IdsFrom
      <4> QED BY <1>11, <3>1, <3>3, <4>1
    <3> QED BY <1>21, <3>2, <3>3
  <2>3. \A k \in w .. m - 1 : Fits(payloadQ', K[k]) BY <1>0, <1>2, <1>21 DEF Waits
  <2> QED BY <2>1, <2>2, <2>3 DEF Waits
<1>25. a <= w /\ w <= m /\ r <= m /\ q <= m BY <1>2, <1>3
<1>26. LogIs(m, K, to)' BY <1>14
<1>27. Log(m, a, w, r, q, K, to, z)'
  BY <1>15, <1>16, <1>17, <1>18, <1>19, <1>20, <1>24, <1>25, <1>26 DEF Log
<1> QED BY <1>27 DEF LogInv

(* A FIN without data is a notification more, at the end of the log.       *)
LEMMA LogEnds ==
    ASSUME LogInv, NEW g \in Metas, NEW x \in Notices, notes \in Seq(Notices),
           Keeping(g, TRUE, x), g.length = 0
    PROVE  LogInv'
<1>1. PICK n \in Nat, a \in Nat, w \in Nat, r \in Nat, q \in Nat, L \in Logs, at \in Places, p \in [Nat -> Nat] :
        Log(n, a, w, r, q, L, at, p)
  BY DEF LogInv
<1>2. /\ a <= w /\ w <= n /\ r <= n /\ q <= n
      /\ LogIs(n, L, at) /\ Reach(n, at) /\ ReadTo(a, at)
      /\ InFifo(a, w, L) /\ IsRead(a, r, L) /\ IsAsked(r, q, L) /\ IsTold(q, n, L, p)
      /\ Waits(w, n, L)
  BY <1>1 DEF Log
<1>0. /\ g.session \in open /\ g.seq = sar[g.session].recvd
      /\ open' = open \ {g.session}
      /\ \A s \in RxSessions : sar'[s].recvd = IF s = g.session THEN g.seq + g.length + 1 ELSE sar[s].recvd
      /\ Announces(x, g) /\ notes' = Append(notes, x)
      /\ Waiting' = Waiting
      /\ UNCHANGED <<payloadQ, fifo, rxAsked, readQ, got>>
  BY DEF Keeping
<1>3. PICK l \in Nat : l = Len(notes)  OBVIOUS
<1>4. PICK z \in [Nat -> Nat] : z = [p EXCEPT ![l + 2] = n]  OBVIOUS
<1>5. Reach(n, at)'
  <2> SUFFICES ASSUME NEW s \in RxSessions PROVE sar'[s].recvd = at[n][s] + (IF s \in open' THEN 0 ELSE 1)
    BY DEF Reach
  <2>1. sar[s].recvd = at[n][s] + (IF s \in open THEN 0 ELSE 1) /\ at[n][s] \in Nat BY <1>2 DEF Reach, Places
  <2>2. CASE s = g.session
    <3>1. PICK y \in Nat : y = at[n][s] BY <2>1
    <3>2. g.seq = sar[s].recvd /\ s \in open BY <1>0, <2>2
    <3>3. y + 0 = y /\ y + 0 + 1 = y + 1  OBVIOUS
    <3>4. g.seq = y BY <2>1, <3>1, <3>2, <3>3
    <3>5. s \notin open' /\ sar'[s].recvd = y + 0 + 1 BY <1>0, <2>2, <3>4
    <3> QED BY <3>1, <3>3, <3>5
  <2>3. CASE s # g.session
    <3>1. (s \in open' <=> s \in open) /\ sar'[s].recvd = sar[s].recvd BY <1>0, <2>3
    <3> QED BY <2>1, <3>1
  <2> QED BY <2>2, <2>3
<1>6. ReadTo(a, at)' /\ InFifo(a, w, L)' /\ IsRead(a, r, L)' /\ IsAsked(r, q, L)'
  BY <1>0, <1>2 DEF ReadTo, InFifo, IsRead, IsAsked
<1>7. IsTold(q, n, L, z)'
  <2>1. /\ notes' \in Seq(Notices) /\ Len(notes') = l + 1 /\ DOMAIN notes' = 1 .. l + 1 /\ DOMAIN notes = 1 .. l
        /\ notes'[l + 1] = x /\ \A i \in 1 .. l : notes'[i] = notes[i]
    BY <1>0, <1>3
  <2>2. z[l + 2] = n /\ \A i \in 1 .. l + 1 : z[i] = p[i] BY <1>4
  <2>3. z[1] = q /\ z[l + 1] = n
    <3>1. 1 \in 1 .. l + 1 /\ l + 1 \in 1 .. l + 1  OBVIOUS
    <3> QED BY <1>2, <1>3, <2>2, <3>1 DEF IsTold
  <2>4. ASSUME NEW i \in 1 .. l PROVE Stands(notes'[i], i, n, L, z)
    <3>1. Stands(notes[i], i, n, L, p) BY <1>2, <2>1, <2>4 DEF IsTold
    <3>2. z[i] = p[i] /\ z[i + 1] = p[i + 1] /\ notes'[i] = notes[i]
      <4>1. i \in 1 .. l + 1 /\ i + 1 \in 1 .. l + 1  OBVIOUS
      <4> QED BY <2>1, <2>2, <4>1
    <3> QED BY <3>1, <3>2 DEF Stands
  <2>5. Stands(x, l + 1, n, L, z)
    <3>1. z[(l + 1) + 1] = z[l + 1] BY <2>2, <2>3
    <3>2. x.length = 0 BY <1>0 DEF Announces
    <3> QED BY <3>1, <3>2 DEF Stands
  <2>6. \A i \in 1 .. l + 1 : i \in 1 .. l \/ i = l + 1  OBVIOUS
  <2>7. \A i \in 1 .. l + 1 : Stands(notes'[i], i, n, L, z) BY <2>1, <2>4, <2>5, <2>6
  <2>8. z[(l + 1) + 1] = n BY <2>2
  <2> QED BY <2>1, <2>3, <2>7, <2>8 DEF IsTold
<1>8. Waits(w, n, L)' BY <1>0, <1>2 DEF Waits
<1>9. Log(n, a, w, r, q, L, at, z)' BY <1>2, <1>5, <1>6, <1>7, <1>8 DEF Log
<1> QED BY <1>9 DEF LogInv

LEMMA Spans ==
    \A w, n \in Nat : \A k \in w .. n - 1 :
        w \in w .. n - 1 /\ w + 1 <= n /\ k \in Nat /\ (k = w \/ (w < k /\ k \in w + 1 .. n - 1))
OBVIOUS

LEMMA FifoGrows ==
    ASSUME fifo \in Seq(Datas), NEW d \in Datas, NEW b \in Nat, Len(fifo) = b, fifo' = Append(fifo, d)
    PROVE  /\ fifo' \in Seq(Datas) /\ Len(fifo) = b /\ Len(fifo') = b + 1 /\ fifo'[b + 1] = d
           /\ \A i \in 1 .. b : fifo'[i] = fifo[i]
OBVIOUS

LEMMA NotBelow == \A x, y \in Nat : x < y => x # y /\ ~(y < x)
OBVIOUS

(* A payload is forwarded: it is that of the first segment that waits.     *)
LEMMA LogForwards ==
    ASSUME LogInv, DecisionInv, payloadQ # <<>>, dropper.state = "FWD",
           fifo \in Seq(Datas), fifo' = Append(fifo, Head(payloadQ).data),
           payloadQ' = Tail(payloadQ), dropper' = [state |-> "READ_DROP1", of |-> 0],
           UNCHANGED <<drop2Q, sar, open, notes, rxAsked, readQ, got>>
    PROVE  LogInv' /\ fifo' \in Seq(Datas)
<1>1. PICK n \in Nat, a \in Nat, w \in Nat, r \in Nat, q \in Nat, L \in Logs, at \in Places, p \in [Nat -> Nat] :
        Log(n, a, w, r, q, L, at, p)
  BY DEF LogInv
<1>2. /\ a <= w /\ w <= n /\ r <= n /\ q <= n
      /\ LogIs(n, L, at) /\ Reach(n, at) /\ ReadTo(a, at)
      /\ InFifo(a, w, L) /\ IsRead(a, r, L) /\ IsAsked(r, q, L) /\ IsTold(q, n, L, p)
      /\ Waits(w, n, L)
  BY <1>1 DEF Log
<1>3. PICK v \in Nat : v = w + 1  OBVIOUS
<1>4. /\ payloadQ \in Seq(Payloads) /\ Head(payloadQ) \in Payloads /\ DecisionTypes
  BY DecisionFacts, TailOf
<1>5. PICK d \in Datas : d = Head(payloadQ).data BY <1>4 DEF Payloads, Datas
<1>6. PICK o \in Nat : o = dropper.of BY <1>4 DEF DecisionTypes
<1>7. Head(payloadQ).id = o BY <1>6, InHandIsFirst
<1>8. Passing = {o} /\ Passing' = {} BY <1>6 DEF Passing
<1>9. Waiting = {o} \cup Kept(drop2Q) /\ Waiting' = Kept(drop2Q) BY <1>8 DEF Waiting
<1>10. \A k \in Kept(drop2Q) : o < k BY <1>8, UnderwayIs
<1>11. \A k \in w .. n - 1 : L[k] \in Metas /\ L[k].id \in Nat /\ L[k].id \in Waiting
  <2>1. \A k \in w .. n - 1 : k \in 0 .. n - 1  OBVIOUS
  <2>2. \A k \in w .. n - 1 : L[k] \in Metas BY <1>2, <2>1 DEF LogIs
  <2> QED BY <1>2, <2>2, MetasHaveNames DEF Waits, IdsFrom
<1>12. w \in w .. n - 1 /\ L[w].id = o
  <2>1. PICK k \in w .. n - 1 : L[k].id = o BY <1>2, <1>9 DEF Waits, IdsFrom
  <2>2. w \in w .. n - 1 /\ (k = w \/ w < k) BY <2>1, Spans
  <2>3. L[w].id = o \/ o < L[w].id BY <1>9, <1>10, <1>11, <2>2
  <2>4. L[w].id = o \/ L[w].id < o BY <1>2, <2>1, <2>2 DEF Waits
  <2>5. L[w].id \in Nat BY <1>11, <2>2
  <2>6. L[w].id = o BY <2>3, <2>4, <2>5, NotBelow
  <2> QED BY <2>2, <2>6
<1>13. \A k \in v .. n - 1 : k \in w .. n - 1 /\ w < k BY <1>3
<1>14. \A k \in v .. n - 1 : L[k].id \in Kept(drop2Q)
  <2> SUFFICES ASSUME NEW k \in v .. n - 1 PROVE L[k].id \in Kept(drop2Q)  OBVIOUS
  <2>1. o < L[k].id BY <1>2, <1>12, <1>13 DEF Waits
  <2>2. L[k].id # o BY <1>11, <1>13, <2>1, NotBelow
  <2> QED BY <1>9, <1>11, <1>13, <2>2
<1>15. \A i \in Kept(drop2Q) : \E k \in v .. n - 1 : i = L[k].id
  <2> SUFFICES ASSUME NEW i \in Kept(drop2Q) PROVE \E k \in v .. n - 1 : i = L[k].id  OBVIOUS
  <2>1. PICK k \in w .. n - 1 : i = L[k].id BY <1>2, <1>9 DEF Waits, IdsFrom
  <2>2. PICK y \in Nat : y = L[k].id BY <1>11
  <2>3. o < y BY <1>10, <2>1, <2>2
  <2>4. k # w BY <1>12, <2>2, <2>3, NotBelow
  <2>5. k \in v .. n - 1 BY <1>3, <2>4, Spans
  <2> QED BY <2>1, <2>5
<1>16. Waits(v, n, L)'
  <2>1. IdsFrom(v, n, L) \subseteq Kept(drop2Q) BY <1>14 DEF IdsFrom
  <2>2. Kept(drop2Q) \subseteq IdsFrom(v, n, L) BY <1>15 DEF IdsFrom
  <2>3. Waiting' = IdsFrom(v, n, L) BY <1>9, <2>1, <2>2
  <2>4. \A j, k \in v .. n - 1 : j < k => L[j].id < L[k].id BY <1>2, <1>13 DEF Waits
  <2>5. \A k \in v .. n - 1 : Fits(payloadQ', L[k]) BY <1>2, <1>4, <1>13, FitsTail DEF Waits
  <2> QED BY <2>3, <2>4, <2>5 DEF Waits
<1>17. d = DataOf(L[w])
  <2>1. Fits(payloadQ, L[w]) BY <1>2, <1>12 DEF Waits
  <2> QED BY <1>4, <1>5, <1>7, <1>12, <2>1, FitsTail
<1>18. PICK b \in Nat : b = w - a /\ v - a = b + 1 /\ a + (b + 1) - 1 = w BY <1>2, <1>3
<1>19. /\ fifo' \in Seq(Datas) /\ Len(fifo) = b /\ Len(fifo') = b + 1 /\ fifo'[b + 1] = d
       /\ \A i \in 1 .. b : fifo'[i] = fifo[i]
  <2>1. Len(fifo) = b BY <1>2, <1>18 DEF InFifo
  <2>2. fifo' = Append(fifo, d) BY <1>5
  <2> QED BY <2>1, <2>2, FifoGrows
<1>20. InFifo(a, v, L)'
  <2>1. \A i \in 1 .. b : fifo[i] = DataOf(L[a + i - 1]) BY <1>2, <1>18 DEF InFifo
  <2>2. fifo'[b + 1] = DataOf(L[a + (b + 1) - 1]) BY <1>17, <1>18, <1>19
  <2>3. \A i \in 1 .. b + 1 : i \in 1 .. b \/ i = b + 1  OBVIOUS
  <2>4. \A i \in 1 .. b + 1 : fifo'[i] = DataOf(L[a + i - 1]) BY <1>19, <2>1, <2>2, <2>3
  <2> QED BY <1>18, <1>19, <2>4 DEF InFifo
<1>21. Reach(n, at)' /\ ReadTo(a, at)' /\ IsRead(a, r, L)' /\ IsAsked(r, q, L)' /\ IsTold(q, n, L, p)'
  BY <1>2 DEF Reach, ReadTo, IsRead, IsAsked, IsTold
<1>22. a <= v /\ v <= n
  <2>1. w + 1 <= n BY <1>12, Spans
  <2>2. a <= w BY <1>2
  <2> QED BY <1>3, <2>1, <2>2
<1>23. Log(n, a, v, r, q, L, at, p)' BY <1>2, <1>16, <1>20, <1>21, <1>22 DEF Log
<1>24. LogInv' BY <1>23 DEF LogInv
<1> QED BY <1>19, <1>24

(* A read delivers the next segment of the log.                            *)
LEMMA LogIsRead ==
    ASSUME LogInv, BypassTypes, Receive!Read
    PROVE  LogInv' /\ Receive!StreamIsRead' /\ BypassTypes'
<1>1. PICK n \in Nat, a \in Nat, w \in Nat, r \in Nat, q \in Nat, L \in Logs, at \in Places, p \in [Nat -> Nat] :
        Log(n, a, w, r, q, L, at, p)
  BY DEF LogInv
<1>2. /\ a <= w /\ w <= n /\ r <= n /\ q <= n
      /\ LogIs(n, L, at) /\ Reach(n, at) /\ ReadTo(a, at)
      /\ InFifo(a, w, L) /\ IsRead(a, r, L) /\ IsAsked(r, q, L) /\ IsTold(q, n, L, p)
      /\ Waits(w, n, L)
  BY <1>1 DEF Log
<1>3. /\ build = "bypass" /\ fifo \in Seq(Datas)
      /\ noteQ = <<>> /\ delayed = <<>> /\ half = <<>>
      /\ got \in [upto : [RxSessions -> Nat], last : Datas, session : RxSessions \cup {0}]
  BY DEF BypassTypes
<1>4. /\ readQ # <<>> /\ fifo # <<>> /\ fifo' = Tail(fifo) /\ readQ' = Tail(readQ)
      /\ Receive!Deliver(Head(readQ), Head(fifo))
      /\ UNCHANGED <<build, payloadQ, drop2Q, dropper, sar, open, noteQ, delayed, half, notes, rxAsked>>
  BY <1>3 DEF Receive!Read, Receive!decisionVars, Receive!noteVars
<1>5. PICK b \in Nat : b = a + 1  OBVIOUS
<1>6. PICK c : readQ = <<c>> /\ Announces(c, L[a]) BY <1>2, <1>4 DEF IsRead
<1>7. r = b BY <1>2, <1>4, <1>5 DEF IsRead
<1>8. Head(readQ) = c /\ readQ' = <<>> BY <1>4, <1>6
<1>9. PICK y \in Nat : y = Len(fifo) BY <1>3
<1>10. y # 0 BY <1>3, <1>4, <1>9, EmptySeq
<1>11. y = w - a BY <1>2, <1>9 DEF InFifo
<1>12. a \in 0 .. n - 1 /\ b <= w /\ y - 1 = w - b /\ 1 \in 1 .. w - a /\ a + 1 - 1 = a
  BY <1>2, <1>5, <1>10, <1>11
<1>13. PICK m \in Metas : m = L[a] BY <1>2, <1>12 DEF LogIs
<1>14. PICK s \in RxSessions, f \in Nat, k \in Nat : s = m.session /\ f = m.seq /\ k = m.length BY DEF Metas
<1>15. Head(fifo) = DataOf(m)
  <2>1. fifo[1] = DataOf(L[a + 1 - 1]) BY <1>2, <1>12 DEF InFifo
  <2> QED BY <1>3, <1>4, <1>12, <1>13, <2>1, TailOf
<1>16. PICK d \in Datas : d = Head(fifo) /\ d = DataOf(m) /\ Len(d) = k BY <1>14, <1>15, DataIs
<1>17. PICK g \in [upto : [RxSessions -> Nat], last : Datas, session : RxSessions \cup {0}] : g = got BY <1>3
<1>18. PICK old \in [RxSessions -> Nat] : old = g.upto  OBVIOUS
<1>19. f = at[a][s] /\ at[b] = [at[a] EXCEPT ![s] = f + k] /\ old[s] = at[a][s]
  <2>1. m.seq = at[a][m.session] /\ at[a + 1] = [at[a] EXCEPT ![m.session] = m.seq + m.length]
    BY <1>2, <1>12, <1>13 DEF LogIs
  <2>2. old[s] = at[a][s] BY <1>2, <1>17, <1>18 DEF ReadTo
  <2> QED BY <1>5, <1>14, <2>1, <2>2
<1>20. PICK e \in Nat : e = f + k  OBVIOUS
<1>21. PICK new \in [RxSessions -> Nat] : new = [old EXCEPT ![s] = e]  OBVIOUS
<1>22. got' = [g EXCEPT !.upto = new, !.last = d, !.session = s]
  <2>1. c.session = s /\ c.length = k BY <1>6, <1>13, <1>14 DEF Announces
  <2>2. got' = [g EXCEPT !.upto[s] = @ + k, !.last = d, !.session = s]
    BY <1>4, <1>8, <1>16, <1>17, <2>1 DEF Receive!Deliver
  <2>3. g.upto[s] + k = e BY <1>18, <1>19, <1>20
  <2>4. [g.upto EXCEPT ![s] = g.upto[s] + k] = new BY <1>18, <1>21, <2>3
  <2>5. got' = [g EXCEPT !.upto = [g.upto EXCEPT ![s] = g.upto[s] + k], !.last = d, !.session = s] BY <2>2
  <2> QED BY <2>4, <2>5
<1>23. /\ got' \in [upto : [RxSessions -> Nat], last : Datas, session : RxSessions \cup {0}]
       /\ got'.upto = new /\ got'.last = d /\ got'.session = s
  BY <1>22
<1>24. Receive!StreamIsRead'
  <2>1. got'.upto[got'.session] - Len(got'.last) = f
    <3>1. got'.upto[got'.session] = e /\ Len(got'.last) = k BY <1>16, <1>21, <1>23
    <3>2. e - k = f BY <1>20
    <3> QED BY <3>1, <3>2
  <2>2. got'.last = Receive!Bytes(s, f, k) BY <1>14, <1>16, <1>23 DEF DataOf
  <2> QED BY <1>16, <1>23, <2>1, <2>2 DEF Receive!StreamIsRead
<1>25. ReadTo(b, at)'
  <2> SUFFICES ASSUME NEW t \in RxSessions PROVE got'.upto[t] = at[b][t] BY DEF ReadTo
  <2>1. old[t] = at[a][t] BY <1>2, <1>17, <1>18 DEF ReadTo
  <2>2. at[a] \in [RxSessions -> Nat] BY DEF Places
  <2> QED BY <1>19, <1>20, <1>21, <1>23, <2>1, <2>2
<1>26. /\ fifo' \in Seq(Datas) /\ Len(fifo') = y - 1
       /\ \A i \in 1 .. y - 1 : fifo'[i] = fifo[i + 1]
  BY <1>3, <1>4, <1>9, HeadTailProperties
<1>27. InFifo(b, w, L)'
  <2>1. \A i \in 1 .. w - b : i \in 1 .. y - 1 /\ i + 1 \in 1 .. w - a /\ a + (i + 1) - 1 = b + i - 1
    BY <1>5, <1>11, <1>12
  <2>2. \A i \in 1 .. w - b : fifo'[i] = DataOf(L[b + i - 1])
    <3> SUFFICES ASSUME NEW i \in 1 .. w - b PROVE fifo'[i] = DataOf(L[b + i - 1])  OBVIOUS
    <3>1. fifo'[i] = fifo[i + 1] BY <1>26, <2>1
    <3>2. fifo[i + 1] = DataOf(L[a + (i + 1) - 1]) BY <1>2, <2>1 DEF InFifo
    <3> QED BY <2>1, <3>1, <3>2
  <2> QED BY <1>12, <1>26, <2>2 DEF InFifo
<1>28. IsRead(b, r, L)' BY <1>7, <1>8 DEF IsRead
<1>29. Reach(n, at)' /\ IsAsked(r, q, L)' /\ IsTold(q, n, L, p)' BY <1>2, <1>4 DEF Reach, IsAsked, IsTold
<1>30. Waits(w, n, L)' BY <1>2, <1>4 DEF Waits, Waiting, Passing
<1>31. Log(n, b, w, r, q, L, at, p)' BY <1>2, <1>12, <1>25, <1>27, <1>28, <1>29, <1>30 DEF Log
<1>32. LogInv' BY <1>31 DEF LogInv
<1>33. BypassTypes' BY <1>3, <1>4, <1>23, <1>26 DEF BypassTypes
<1> QED BY <1>24, <1>32, <1>33

(* The application asks for what the first notification announces.         *)
LEMMA LogIsAsked ==
    ASSUME LogInv, NoticeTypes, Receive!AskRead
    PROVE  LogInv'
<1>1. PICK n \in Nat, a \in Nat, w \in Nat, r \in Nat, q \in Nat, L \in Logs, at \in Places, p \in [Nat -> Nat] :
        Log(n, a, w, r, q, L, at, p)
  BY DEF LogInv
<1>2. /\ a <= w /\ w <= n /\ r <= n /\ q <= n
      /\ LogIs(n, L, at) /\ Reach(n, at) /\ ReadTo(a, at)
      /\ InFifo(a, w, L) /\ IsRead(a, r, L) /\ IsAsked(r, q, L) /\ IsTold(q, n, L, p)
      /\ Waits(w, n, L)
  BY <1>1 DEF Log
<1>3. /\ rxAsked = <<>> /\ notes # <<>> /\ notes' = Tail(notes)
      /\ rxAsked' = IF Head(notes).length = 0 THEN <<>>
                     ELSE [session |-> Head(notes).session, length |-> Head(notes).length,
                           appd |-> sar[Head(notes).session].appd]
      /\ UNCHANGED <<payloadQ, drop2Q, dropper, sar, open, fifo, readQ, got>>
  BY DEF Receive!AskRead, Receive!decisionVars
<1>4. notes \in Seq(Notices) BY DEF NoticeTypes
<1>5. /\ Head(notes) = notes[1] /\ 1 \in DOMAIN notes
      /\ \A i \in DOMAIN Tail(notes) : i + 1 \in DOMAIN notes /\ Tail(notes)[i] = notes[i + 1]
  BY <1>3, <1>4, TailOf
<1>6. PICK l \in Nat : l + 1 = Len(notes)
  <2>1. Len(notes) \in Nat /\ Len(notes) # 0 BY <1>3, <1>4, EmptySeq
  <2>2. PICK y \in Nat : y = Len(notes) BY <2>1
  <2>3. y - 1 \in Nat /\ (y - 1) + 1 = y BY <2>1, <2>2
  <2> QED BY <2>2, <2>3
<1>7. Len(notes') = l /\ DOMAIN notes' = 1 .. l
  <2>1. Len(Tail(notes)) = Len(notes) - 1 /\ Tail(notes) \in Seq(Notices) BY <1>3, <1>4, HeadTailProperties
  <2>2. Len(Tail(notes)) = l BY <1>6, <2>1
  <2>3. PICK s \in Seq(Notices) : s = Tail(notes) BY <2>1
  <2>4. Len(s) = l /\ DOMAIN s = 1 .. Len(s) BY <2>2, <2>3
  <2> QED BY <1>3, <2>3, <2>4
<1>8. PICK z \in [Nat -> Nat] : z = [i \in Nat |-> p[i + 1]]
  <2>1. [i \in Nat |-> p[i + 1]] \in [Nat -> Nat]  OBVIOUS
  <2> QED BY <2>1
<1>9. \A i \in Nat : z[i] = p[i + 1] BY <1>8
<1>10. PICK x \in Notices : x = Head(notes) BY <1>3, <1>4, TailOf
<1>11. q = r /\ p[1] = q BY <1>2, <1>3 DEF IsAsked, IsTold
<1>12. Stands(x, 1, n, L, p) BY <1>2, <1>5, <1>10 DEF IsTold
<1>13. PICK t \in Nat : t = p[2]  OBVIOUS
<1>14. 1 + 1 = 2  OBVIOUS
<1>15. IsAsked(r, t, L)' /\ t <= n
  <2>1. CASE x.length = 0
    <3>1. t = q BY <1>11, <1>12, <1>13, <1>14, <2>1 DEF Stands
    <3>2. rxAsked' = <<>> BY <1>3, <1>10, <2>1
    <3> QED BY <1>2, <1>11, <3>1, <3>2 DEF IsAsked
  <2>2. CASE x.length # 0
    <3>1. t = q + 1 /\ q < n /\ Announces(x, L[q]) BY <1>11, <1>12, <1>13, <1>14, <2>2 DEF Stands
    <3>2. rxAsked' = [session |-> x.session, length |-> x.length, appd |-> sar[x.session].appd] BY <1>3, <1>10, <2>2
    <3>3. rxAsked'.session = x.session /\ rxAsked'.length = x.length BY <3>2
    <3>4. rxAsked' # <<>>
      <4>1. DOMAIN rxAsked' = {"session", "length", "appd"} BY <3>2
      <4>2. DOMAIN <<>> = {}  OBVIOUS
      <4> QED BY <4>1, <4>2
    <3>5. Announces(rxAsked', L[r]) BY <1>11, <3>1, <3>3 DEF Announces
    <3>6. t <= n BY <3>1
    <3> QED BY <1>11, <3>1, <3>4, <3>5, <3>6 DEF IsAsked
  <2> QED BY <2>1, <2>2
<1>16. IsTold(t, n, L, z)'
  <2>1. z[1] = t BY <1>9, <1>13, <1>14
  <2>2. z[l + 1] = n
    <3>1. p[(l + 1) + 1] = n BY <1>2, <1>6 DEF IsTold
    <3> QED BY <1>9, <3>1
  <2>3. ASSUME NEW i \in 1 .. l PROVE Stands(notes'[i], i, n, L, z)
    <3>1. i + 1 \in DOMAIN notes /\ notes'[i] = notes[i + 1] BY <1>3, <1>5, <1>7
    <3>2. Stands(notes[i + 1], i + 1, n, L, p) BY <1>2, <3>1 DEF IsTold
    <3>3. i \in Nat /\ i + 1 \in Nat  OBVIOUS
    <3>4. z[i] = p[i + 1] /\ z[i + 1] = p[(i + 1) + 1] BY <1>9, <3>3
    <3> QED BY <3>1, <3>2, <3>4 DEF Stands
  <2> QED BY <1>7, <2>1, <2>2, <2>3 DEF IsTold
<1>17. Reach(n, at)' /\ ReadTo(a, at)' /\ InFifo(a, w, L)' /\ IsRead(a, r, L)'
  BY <1>2, <1>3 DEF Reach, ReadTo, InFifo, IsRead
<1>18. Waits(w, n, L)' BY <1>2, <1>3 DEF Waits, Waiting, Passing
<1>19. Log(n, a, w, r, t, L, at, z)' BY <1>2, <1>15, <1>16, <1>17, <1>18 DEF Log
<1> QED BY <1>19 DEF LogInv

LEMMA LogIsStarted ==
    ASSUME LogInv, DecisionTypes, NoticeTypes, Receive!StartRead
    PROVE  LogInv'
<1>1. PICK n \in Nat, a \in Nat, w \in Nat, r \in Nat, q \in Nat, L \in Logs, at \in Places, p \in [Nat -> Nat] :
        Log(n, a, w, r, q, L, at, p)
  BY DEF LogInv
<1>2. /\ a <= w /\ w <= n /\ r <= n /\ q <= n
      /\ LogIs(n, L, at) /\ Reach(n, at) /\ ReadTo(a, at)
      /\ InFifo(a, w, L) /\ IsRead(a, r, L) /\ IsAsked(r, q, L) /\ IsTold(q, n, L, p)
      /\ Waits(w, n, L)
  BY <1>1 DEF Log
<1>3. PICK c \in {[session |-> rxAsked.session, address |-> rxAsked.appd, length |-> rxAsked.length]} : TRUE  OBVIOUS
<1>4. /\ rxAsked # <<>> /\ Len(readQ) < 1 /\ readQ' = Append(readQ, c) /\ rxAsked' = <<>>
      /\ UNCHANGED <<payloadQ, drop2Q, dropper, open, fifo, notes, got>>
  BY <1>3 DEF Receive!StartRead, Receive!decisionVars
<1>5. readQ = <<>> /\ r = a
  <2>1. ASSUME NEW x, readQ = <<x>> PROVE FALSE
    <3>1. Len(readQ) = 1 BY <2>1
    <3> QED BY <1>4, <3>1
  <2> QED BY <1>2, <2>1 DEF IsRead
<1>6. q = r + 1 /\ Announces(rxAsked, L[a]) BY <1>2, <1>4, <1>5 DEF IsAsked
<1>7. c.session = rxAsked.session /\ c.length = rxAsked.length BY <1>3
<1>8. readQ' = <<c>> BY <1>4, <1>5
<1>9. IsRead(a, q, L)' BY <1>5, <1>6, <1>7, <1>8 DEF IsRead, Announces
<1>10. IsAsked(q, q, L)' BY <1>4 DEF IsAsked
<1>11. \A s \in RxSessions : sar'[s].recvd = sar[s].recvd
  <2> SUFFICES ASSUME NEW s \in RxSessions PROVE sar'[s].recvd = sar[s].recvd  OBVIOUS
  <2>1. KeepsRows BY StartKeepsRows
  <2>2. sar[s] \in SarRows /\ sar'[s] \in SarRows /\ [sar'[s] EXCEPT !.appd = 0] = [sar[s] EXCEPT !.appd = 0]
    BY <2>1 DEF KeepsRows, DecisionTypes
  <2>3. [sar'[s] EXCEPT !.appd = 0].recvd = sar'[s].recvd /\ [sar[s] EXCEPT !.appd = 0].recvd = sar[s].recvd
    BY <2>2 DEF SarRows
  <2> QED BY <2>2, <2>3
<1>12. Reach(n, at)' BY <1>2, <1>4, <1>11 DEF Reach
<1>13. ReadTo(a, at)' /\ InFifo(a, w, L)' /\ IsTold(q, n, L, p)' BY <1>2, <1>4 DEF ReadTo, InFifo, IsTold
<1>14. Waits(w, n, L)' BY <1>2, <1>4 DEF Waits, Waiting, Passing
<1>15. Log(n, a, w, q, q, L, at, p)' BY <1>2, <1>9, <1>10, <1>12, <1>13, <1>14 DEF Log
<1> QED BY <1>15 DEF LogInv

LEMMA StreamRests ==
    ASSUME StreamInv, DataInv', LoadedIsCurrent', Waiting' = Waiting,
           \A m \in Metas : m.id \in Waiting /\ Fits(payloadQ, m) => Fits(payloadQ', m),
           UNCHANGED <<build, noteQ, delayed, half, sar, open, fifo, notes, rxAsked, readQ, got, closed>>
    PROVE  StreamInv'
<1>1. BypassTypes /\ EndIsBehind /\ NothingAfterEnd /\ LogInv /\ Receive!StreamIsRead BY DEF StreamInv
<1>2. BypassTypes' BY <1>1 DEF BypassTypes
<1>3. EndIsBehind' BY <1>1 DEF EndIsBehind
<1>4. NothingAfterEnd' BY <1>1 DEF NothingAfterEnd
<1>5. LogInv' BY <1>1, LogRests
<1>6. Receive!StreamIsRead' BY <1>1 DEF Receive!StreamIsRead
<1> QED BY <1>2, <1>3, <1>4, <1>5, <1>6 DEF StreamInv

LEMMA SegmentData ==
    ASSUME NEW g \in Receive!Segments, g.kind \in {"ACK", "FIN"}
    PROVE  g.data = DataOf(g)
<1>1. CASE \E s \in RxSessions : \E c \in Cuts[s] : g = Receive!Data(s, c)
  <2>1. PICK s \in RxSessions : \E c \in Cuts[s] : g = Receive!Data(s, c) BY <1>1
  <2>2. PICK c \in Cuts[s] : g = Receive!Data(s, c) BY <2>1
  <2>3. PICK d \in {Receive!Bytes(s, RxFirst + c[1], c[2])} : TRUE  OBVIOUS
  <2>4. PICK f \in {RxFirst + c[1]} : TRUE  OBVIOUS
  <2>5. g = [kind |-> c[3], session |-> s, seq |-> f, length |-> c[2], data |-> d] BY <2>2, <2>3, <2>4 DEF Receive!Data
  <2>6. g.session = s /\ g.seq = f /\ g.length = c[2] /\ g.data = d BY <2>5
  <2>7. d = Receive!Bytes(s, f, c[2]) BY <2>3, <2>4
  <2> QED BY <2>6, <2>7 DEF DataOf
<1>2. ASSUME NEW x \in Strays, g = Receive!Stray(x[1], x[2], x[3]) PROVE FALSE
  <2>1. PICK s \in RxSessions, k \in {"PORT", "MISS", "SYN", "RST"}, n \in Nat : x = <<s, k, n>> BY ReceiveAssumption
  <2>2. g.kind = k BY <1>2, <2>1 DEF Receive!Stray
  <2> QED BY <2>2
<1>3. g \in UNION {{Receive!Data(s, c) : c \in Cuts[s]} : s \in RxSessions}
      \/ g \in {Receive!Stray(x[1], x[2], x[3]) : x \in Strays}
  BY DEF Receive!Segments
<1>4. ASSUME g \in UNION {{Receive!Data(s, c) : c \in Cuts[s]} : s \in RxSessions}
      PROVE  \E s \in RxSessions : \E c \in Cuts[s] : g = Receive!Data(s, c)
  BY <1>4
<1>5. ASSUME g \in {Receive!Stray(x[1], x[2], x[3]) : x \in Strays}
      PROVE  \E x \in Strays : g = Receive!Stray(x[1], x[2], x[3])
  BY <1>5
<1> QED BY <1>1, <1>2, <1>3, <1>4, <1>5

LEMMA ArriveStreams ==
    ASSUME DecisionInv, StreamInv, NEW g \in Receive!Segments, Receive!Arrive(g)
    PROVE  StreamInv'
<1>1. DecisionTypes /\ payloadQ \in Seq(Payloads) /\ metaQ \in Seq(Metas) BY DecisionFacts
<1>2. /\ g.kind \in Kinds /\ g.session \in RxSessions /\ g.seq \in Nat /\ g.length \in Nat
      /\ g.data \in Seq((RxSessions \X Int) \cup {Foreign})
  BY SegmentIs
<1>3. arrived \in Nat BY <1>1 DEF DecisionTypes
<1>4. PICK n \in Nat : n = arrived + 1 BY <1>3
<1>5. PICK m \in Metas : /\ m = Receive!Named(n, g) /\ m.id = n /\ m.kind = g.kind
                         /\ m.session = g.session /\ m.seq = g.seq /\ m.length = g.length
  <2>1. Receive!Named(n, g) = [id |-> n, kind |-> g.kind, session |-> g.session, seq |-> g.seq, length |-> g.length]
    BY DEF Receive!Named
  <2>2. [id |-> n, kind |-> g.kind, session |-> g.session, seq |-> g.seq, length |-> g.length] \in Metas
    BY <1>2 DEF Metas
  <2> QED BY <2>1, <2>2
<1>6. PICK d \in Payloads : d = [id |-> n, data |-> g.data] /\ d.id = n /\ d.data = g.data
  <2>1. [id |-> n, data |-> g.data] \in Payloads BY <1>2 DEF Payloads
  <2> QED BY <2>1
<1>7. /\ metaQ' = Append(metaQ, m)
      /\ payloadQ' = payloadQ \/ payloadQ' = Append(payloadQ, d)
      /\ UNCHANGED <<build, looking, fsmQ, loaded, drop2Q, dropper, sar, open, fifo, noteQ, delayed, half,
                     notes, rxAsked, readQ, got, closed>>
  BY <1>4, <1>5, <1>6 DEF Receive!Arrive, Receive!noteVars, Receive!appVars
<1>8. DataInv /\ LoadedIsCurrent BY DEF StreamInv
<1>9. \A k \in Among(Names(payloadQ)) : k < n
  <2> SUFFICES ASSUME NEW k \in Among(Names(payloadQ)) PROVE k < n  OBVIOUS
  <2>1. k \in Nat /\ k <= arrived BY UnderwayIs
  <2> QED BY <1>3, <1>4, <2>1
<1>10. \A i \in DOMAIN payloadQ : payloadQ[i].id \in Nat /\ payloadQ[i].id < n
  <2>1. \A i \in DOMAIN payloadQ : payloadQ[i].id \in Among(Names(payloadQ)) BY DEF Among, Names
  <2> QED BY <1>9, <2>1, UnderwayIs
<1>11. ASSUME NEW x, x.id # n, Fits(payloadQ, x) PROVE Fits(payloadQ', x)
  <2>1. CASE payloadQ' = payloadQ BY <1>11, <2>1
  <2>2. CASE payloadQ' = Append(payloadQ, d) BY <1>1, <1>6, <1>11, <2>2, FitsAppend
  <2> QED BY <1>7, <2>1, <2>2
<1>12. Underway' = Underway \cup {m}
  <2>1. Elements(metaQ') = Elements(metaQ) \cup {m} BY <1>1, <1>7, ElementsOf
  <2>2. UNCHANGED <<fsmQ, looking, loaded>> BY <1>7
  <2> QED BY <2>1, <2>2 DEF Underway
<1>13. DataInv'
  <2> SUFFICES ASSUME NEW x \in Underway', x.kind \in {"ACK", "FIN"} PROVE Fits(payloadQ', x) BY DEF DataInv
  <2>1. CASE x \in Underway
    <3>1. x.id \in Nat /\ x.id <= arrived BY <2>1, UnderwayIs, MetasHaveNames
    <3>2. x.id # n BY <1>3, <1>4, <3>1
    <3> QED BY <1>8, <1>11, <2>1, <3>2 DEF DataInv
  <2>2. CASE x = m
    <3>1. d.data = DataOf(m) BY <1>5, <1>6, <2>2, SegmentData DEF DataOf
    <3>2. \A i \in DOMAIN payloadQ : payloadQ[i].id # m.id BY <1>5, <1>10, NotBelow
    <3>3. Fits(payloadQ, m) BY <3>2 DEF Fits
    <3>4. Fits(payloadQ', m)
      <4>1. CASE payloadQ' = payloadQ BY <3>3, <4>1
      <4>2. CASE payloadQ' = Append(payloadQ, d) BY <1>1, <3>1, <3>3, <4>2, FitsAppend
      <4> QED BY <1>7, <4>1, <4>2
    <3> QED BY <2>2, <3>4
  <2> QED BY <1>12, <2>1, <2>2
<1>14. LoadedIsCurrent' BY <1>7, <1>8 DEF LoadedIsCurrent
<1>15. Waiting' = Waiting BY <1>7 DEF Waiting, Passing
<1>16. \A x \in Metas : x.id \in Waiting /\ Fits(payloadQ, x) => Fits(payloadQ', x)
  <2> SUFFICES ASSUME NEW x \in Metas, x.id \in Waiting, Fits(payloadQ, x) PROVE Fits(payloadQ', x)  OBVIOUS
  <2>1. x.id \in Nat /\ x.id < n BY <1>9, UnderwayIs, MetasHaveNames
  <2>2. x.id # n BY <2>1, NotBelow
  <2> QED BY <1>11, <2>2
<1> QED BY <1>7, <1>13, <1>14, <1>15, <1>16, StreamRests

(* rxMetadataHandler and the load of the state machine pass a segment on.  *)
LEMMA PassingStreams ==
    ASSUME DecisionInv, StreamInv,
           Receive!MetaClosedPort \/ Receive!MetaLookup \/ Receive!MetaAnswered \/ Receive!FsmLoad
    PROVE  StreamInv'
<1>1. /\ DecisionTypes /\ metaQ \in Seq(Metas) /\ fsmQ \in Seq(Metas)
      /\ looking = <<>> \/ looking \in Metas
  BY DecisionFacts DEF DecisionTypes
<1>2. DataInv /\ LoadedIsCurrent BY DEF StreamInv
<1>3. UNCHANGED <<build, payloadQ, drop2Q, dropper, sar, open, fifo, noteQ, delayed, half,
                  notes, rxAsked, readQ, got, closed>>
  <2> USE DEF Receive!noteVars, Receive!appVars
  <2>1. CASE Receive!MetaClosedPort BY <2>1 DEF Receive!MetaClosedPort
  <2>2. CASE Receive!MetaLookup BY <2>2 DEF Receive!MetaLookup
  <2>3. CASE Receive!MetaAnswered BY <2>3 DEF Receive!MetaAnswered
  <2>4. CASE Receive!FsmLoad BY <2>4 DEF Receive!FsmLoad
  <2> QED BY <2>1, <2>2, <2>3, <2>4
<1>4. Underway' \subseteq Underway /\ LoadedIsCurrent'
  <2>1. CASE Receive!MetaClosedPort
    <3>1. metaQ # <<>> /\ metaQ' = Tail(metaQ) /\ UNCHANGED <<fsmQ, looking, loaded>>
      BY <2>1 DEF Receive!MetaClosedPort
    <3>2. Elements(metaQ') \subseteq Elements(metaQ) BY <1>1, <3>1, ElementsOf
    <3> QED BY <1>2, <1>3, <3>1, <3>2 DEF Underway, LoadedIsCurrent
  <2>2. CASE Receive!MetaLookup
    <3>1. metaQ # <<>> /\ metaQ' = Tail(metaQ) /\ looking' = Head(metaQ) /\ UNCHANGED <<fsmQ, loaded>>
      BY <2>2 DEF Receive!MetaLookup
    <3>2. Elements(metaQ') \subseteq Elements(metaQ) /\ Head(metaQ) \in Elements(metaQ) BY <1>1, <3>1, ElementsOf
    <3> QED BY <1>2, <1>3, <3>1, <3>2 DEF Underway, LoadedIsCurrent
  <2>3. CASE Receive!MetaAnswered
    <3>1. /\ looking # <<>> /\ looking' = <<>> /\ UNCHANGED <<metaQ, loaded>>
          /\ fsmQ' = IF looking.kind # "MISS" THEN Append(fsmQ, looking) ELSE fsmQ
      BY <2>3 DEF Receive!MetaAnswered
    <3>2. Elements(fsmQ') \subseteq Elements(fsmQ) \cup {looking} BY <1>1, <3>1, ElementsOf
    <3> QED BY <1>2, <1>3, <3>1, <3>2 DEF Underway, LoadedIsCurrent
  <2>4. CASE Receive!FsmLoad
    <3>1. /\ fsmQ # <<>> /\ fsmQ' = Tail(fsmQ) /\ UNCHANGED <<metaQ, looking>>
          /\ loaded' = [segment |-> Head(fsmQ), row |-> sar[Head(fsmQ).session]]
      BY <2>4 DEF Receive!FsmLoad
    <3>2. Elements(fsmQ') \subseteq Elements(fsmQ) /\ Head(fsmQ) \in Elements(fsmQ) BY <1>1, <3>1, ElementsOf
    <3>3. loaded'.segment = Head(fsmQ) /\ loaded'.row = sar[Head(fsmQ).session] BY <3>1
    <3>4. Underway' \subseteq Underway BY <3>1, <3>2, <3>3 DEF Underway
    <3>5. LoadedIsCurrent' BY <1>3, <3>3 DEF LoadedIsCurrent
    <3> QED BY <3>4, <3>5
  <2> QED BY <2>1, <2>2, <2>3, <2>4
<1>5. DataInv' BY <1>2, <1>3, <1>4 DEF DataInv
<1>6. Waiting' = Waiting BY <1>3 DEF Waiting, Passing
<1>7. payloadQ' = payloadQ BY <1>3
<1> QED BY <1>3, <1>4, <1>5, <1>6, <1>7, StreamRests

(* The dropper reads a decision or drops a payload.                        *)
LEMMA DropperStreams ==
    ASSUME DecisionInv, StreamInv, Receive!ReadDecision \/ Receive!DropPayload
    PROVE  StreamInv'
<1>1. /\ DecisionTypes /\ payloadQ \in Seq(Payloads)
      /\ drop2Q \in Seq(Decisions) /\ Rising(Names(drop2Q))
  BY DecisionFacts
<1>2. DataInv /\ LoadedIsCurrent BY DEF StreamInv
<1>3. UNCHANGED <<build, metaQ, fsmQ, looking, loaded, sar, open, fifo, noteQ, delayed, half,
                  notes, rxAsked, readQ, got, closed>>
  <2> USE DEF Receive!noteVars, Receive!appVars
  <2>1. CASE Receive!ReadDecision BY <2>1 DEF Receive!ReadDecision
  <2>2. CASE Receive!DropPayload BY <2>2 DEF Receive!DropPayload
  <2> QED BY <2>1, <2>2
<1>4. Underway' = Underway /\ LoadedIsCurrent' BY <1>2, <1>3 DEF Underway, LoadedIsCurrent
<1>5. CASE Receive!ReadDecision
  <2>1. payloadQ' = payloadQ /\ (Receive!ReadDrop1 \/ Receive!ReadDrop2) BY <1>5 DEF Receive!ReadDecision
  <2>2. Waiting' = Waiting
    <3>1. CASE Receive!ReadDrop1
      <4>1. /\ dropper.state = "READ_DROP1" /\ drop2Q' = drop2Q
            /\ dropper' = [state |-> IF Head(drop1Q).drop THEN "DROP" ELSE "READ_DROP2", of |-> Head(drop1Q).id]
        BY <3>1 DEF Receive!ReadDrop1
      <4>2. dropper'.state \in {"DROP", "READ_DROP2"} BY <4>1
      <4> QED BY <4>1, <4>2 DEF Waiting, Passing
    <3>2. CASE Receive!ReadDrop2
      <4>1. /\ dropper.state = "READ_DROP2" /\ drop2Q # <<>> /\ drop2Q' = Tail(drop2Q)
            /\ dropper' = [state |-> IF Head(drop2Q).drop THEN "DROP" ELSE "FWD", of |-> Head(drop2Q).id]
        BY <3>2 DEF Receive!ReadDrop2
      <4>2. Kept(drop2Q) = (IF Head(drop2Q).drop THEN {} ELSE {Head(drop2Q).id}) \cup Kept(drop2Q')
        BY <1>1, <4>1, DecisionNames
      <4>3. Passing = {} BY <4>1 DEF Passing
      <4>4. Passing' = IF Head(drop2Q).drop THEN {} ELSE {Head(drop2Q).id}
        <5>1. CASE Head(drop2Q).drop
          <6>1. dropper' = [state |-> "DROP", of |-> Head(drop2Q).id] BY <4>1, <5>1
          <6> QED BY <5>1, <6>1 DEF Passing
        <5>2. CASE ~Head(drop2Q).drop
          <6>1. dropper' = [state |-> "FWD", of |-> Head(drop2Q).id] BY <4>1, <5>2
          <6> QED BY <5>2, <6>1 DEF Passing
        <5> QED BY <5>1, <5>2
      <4>5. Waiting = Kept(drop2Q) BY <4>3 DEF Waiting
      <4>6. Waiting' = Passing' \cup Kept(drop2Q') BY DEF Waiting
      <4> QED BY <4>2, <4>4, <4>5, <4>6
    <3> QED BY <2>1, <3>1, <3>2
  <2>3. DataInv' BY <1>2, <1>4, <2>1 DEF DataInv
  <2> QED BY <1>3, <1>4, <2>1, <2>2, <2>3, StreamRests
<1>6. CASE Receive!DropPayload
  <2>1. /\ dropper.state = "DROP" /\ payloadQ # <<>> /\ payloadQ' = Tail(payloadQ) /\ drop2Q' = drop2Q
        /\ dropper' = [state |-> "READ_DROP1", of |-> 0]
    BY <1>6 DEF Receive!DropPayload
  <2>2. Waiting' = Waiting BY <2>1 DEF Waiting, Passing
  <2>3. \A x : Fits(payloadQ, x) => Fits(payloadQ', x) BY <1>1, <2>1, FitsTail
  <2>4. DataInv' BY <1>2, <1>4, <2>3 DEF DataInv
  <2> QED BY <1>3, <1>4, <2>2, <2>3, <2>4, StreamRests
<1> QED BY <1>5, <1>6

LEMMA StreamStart ==
    ASSUME Receive!Init, build = "bypass"
    PROVE  StreamInv
<1>1. /\ fsmQ = <<>> /\ metaQ = <<>> /\ looking = <<>> /\ loaded = <<>> /\ drop2Q = <<>>
      /\ dropper = [state |-> "READ_DROP1", of |-> 0] /\ payloadQ = <<>>
      /\ fifo = <<>> /\ noteQ = <<>> /\ delayed = <<>> /\ half = <<>> /\ notes = <<>>
      /\ rxAsked = <<>> /\ readQ = <<>> /\ closed = {} /\ open = RxSessions
      /\ got = [upto |-> [s \in RxSessions |-> RxFirst], last |-> <<>>, session |-> 0]
      /\ \A s \in RxSessions : sar[s].recvd = RxFirst
  BY DEF Receive!Init
<1>2. RxFirst \in Nat BY ReceiveAssumption
<1>3. Kept(<<>>) = {} /\ Elements(<<>>) = {} BY DEF Kept, Elements
<1>4. <<>> \in Datas BY DEF Datas
<1>5. got \in [upto : [RxSessions -> Nat], last : Datas, session : RxSessions \cup {0}]
  <2>1. [s \in RxSessions |-> RxFirst] \in [RxSessions -> Nat] BY <1>2
  <2> QED BY <1>1, <1>4, <2>1
<1>6. fifo \in Seq(Datas) BY <1>1
<1>7. BypassTypes BY <1>1, <1>5, <1>6 DEF BypassTypes
<1>8. Underway = {} /\ Waiting = {} BY <1>1, <1>3 DEF Underway, Waiting, Passing
<1>9. DataInv /\ LoadedIsCurrent BY <1>1, <1>8 DEF DataInv, LoadedIsCurrent
<1>10. EndIsBehind /\ NothingAfterEnd BY <1>1 DEF EndIsBehind, NothingAfterEnd
<1>11. Receive!StreamIsRead BY <1>1 DEF Receive!StreamIsRead
<1>12. LogInv
  <2>1. PICK L \in Logs : L = [k \in Nat |-> <<>>] BY DEF Logs
  <2>2. PICK at \in Places : at[0] = [s \in RxSessions |-> RxFirst]
    <3>1. [k \in Nat |-> [s \in RxSessions |-> RxFirst]] \in Places BY <1>2 DEF Places
    <3> QED BY <3>1
  <2>3. PICK p \in [Nat -> Nat] : p[1] = 0
    <3>1. [k \in Nat |-> 0] \in [Nat -> Nat]  OBVIOUS
    <3> QED BY <3>1
  <2>4. \A k \in 0 .. 0 - 1 : FALSE  OBVIOUS
  <2>5. LogIs(0, L, at) BY <2>4 DEF LogIs
  <2>6. Reach(0, at) /\ ReadTo(0, at) BY <1>1, <1>2, <2>2 DEF Reach, ReadTo
  <2>7. InFifo(0, 0, L) BY <1>1 DEF InFifo
  <2>8. IsRead(0, 0, L) /\ IsAsked(0, 0, L) BY <1>1 DEF IsRead, IsAsked
  <2>9. IsTold(0, 0, L, p)
    <3>1. DOMAIN notes = {} /\ p[Len(notes) + 1] = 0 BY <1>1, <2>3
    <3> QED BY <2>3, <3>1 DEF IsTold
  <2>10. Waits(0, 0, L) BY <1>8, <2>4 DEF Waits, IdsFrom
  <2>11. Log(0, 0, 0, 0, 0, L, at, p) BY <2>5, <2>6, <2>7, <2>8, <2>9, <2>10 DEF Log
  <2> QED BY <2>11 DEF LogInv
<1> QED BY <1>7, <1>9, <1>10, <1>11, <1>12 DEF StreamInv

(* A segment is kept by rxTcpFSM in the build with bypass.                 *)
LEMMA KeepIsKeeping ==
    ASSUME DecisionTypes, NEW g \in Metas, NEW row \in SarRows, NEW c \in BOOLEAN, NEW x \in Notices,
           build = "bypass", Receive!Keep(g, row, x), Announces(x, g),
           row.recvd = g.seq + g.length + (IF c THEN 1 ELSE 0),
           g.session \in open, g.seq = sar[g.session].recvd,
           open' = IF c THEN open \ {g.session} ELSE open,
           UNCHANGED <<dropper, payloadQ, fifo, rxAsked, readQ, got>>
    PROVE  Keeping(g, c, x) /\ noteQ' = noteQ
<1>1. sar \in [RxSessions -> SarRows] /\ drop2Q \in Seq(Decisions) BY DEF DecisionTypes
<1>2. PICK s \in RxSessions : s = g.session BY DEF Metas
<1>3. PICK a \in Nat : a = sar[s].appd BY <1>1 DEF SarRows
<1>4. PICK new \in SarRows : new = [row EXCEPT !.appd = a] BY DEF SarRows
<1>5. new.recvd = row.recvd BY <1>4 DEF SarRows
<1>6. sar' = [sar EXCEPT ![s] = new] BY <1>2, <1>3, <1>4 DEF Receive!Keep
<1>7. \A t \in RxSessions : sar'[t].recvd = IF t = s THEN row.recvd ELSE sar[t].recvd BY <1>1, <1>5, <1>6
<1>8. notes' = Append(notes, x) /\ noteQ' = noteQ BY DEF Receive!Keep
<1>9. PICK e \in Decisions : e = Receive!Decision(g, FALSE) /\ (e.drop <=> FALSE) /\ e.id = g.id BY DecisionOf
<1>10. drop2Q' = IF g.length = 0 THEN drop2Q ELSE Append(drop2Q, e) BY <1>9 DEF Receive!Keep
<1>11. Kept(Append(drop2Q, e)) = Kept(drop2Q) \cup {g.id}
  <2>1. Kept(Append(drop2Q, e)) = Kept(drop2Q) \cup (IF e.drop THEN {} ELSE {e.id}) BY <1>1, KeptAppend
  <2>2. ~e.drop /\ e.id = g.id BY <1>9
  <2> QED BY <2>1, <2>2
<1>12. Kept(drop2Q') = Kept(drop2Q) \cup (IF g.length = 0 THEN {} ELSE {g.id}) BY <1>10, <1>11
<1>13. Passing' = Passing BY DEF Passing
<1>14. Waiting' = Waiting \cup (IF g.length = 0 THEN {} ELSE {g.id}) BY <1>12, <1>13 DEF Waiting
<1>15. \A t \in RxSessions :
          sar'[t].recvd = IF t = g.session THEN g.seq + g.length + (IF c THEN 1 ELSE 0) ELSE sar[t].recvd
  BY <1>2, <1>7
<1> QED BY <1>8, <1>14, <1>15 DEF Keeping

(* A segment is kept, it ends its stream or carries data, or nothing is    *)
(* kept.                                                                   *)
KeptNow(g) ==
    \E c \in BOOLEAN, x \in Notices :
        /\ Keeping(g, c, x) /\ noteQ' = noteQ
        /\ x.closed = c /\ g.kind = (IF c THEN "FIN" ELSE "ACK") /\ (c \/ g.length # 0)
NothingKept ==
    UNCHANGED <<sar, open, notes, noteQ>> /\ Kept(drop2Q') = Kept(drop2Q)

LEMMA TransitionKeeps ==
    ASSUME DecisionInv, StreamInv, Receive!FsmTransition
    PROVE  KeptNow(loaded.segment) \/ NothingKept
<1>1. /\ DecisionTypes /\ AllWellCut /\ drop2Q \in Seq(Decisions)
      /\ build = "bypass" /\ LoadedIsCurrent /\ EndIsBehind
  BY DecisionFacts DEF StreamInv, BypassTypes
<1>2. /\ loaded # <<>>
      /\ \/ Receive!FsmAck(loaded.segment, loaded.row) \/ Receive!FsmFin(loaded.segment, loaded.row)
         \/ Receive!FsmOther(loaded.segment, loaded.row)
      /\ UNCHANGED <<dropper, payloadQ, fifo, rxAsked, readQ, got>>
  BY DEF Receive!FsmTransition, Receive!appVars
<1>3. PICK g \in Metas, r \in SarRows : g = loaded.segment /\ r = loaded.row BY <1>1, <1>2 DEF DecisionTypes
<1>4. WellCut(g) /\ r.recvd = sar[g.session].recvd BY <1>1, <1>2, <1>3 DEF AllWellCut, LoadedIsCurrent
<1>5. PICK s \in RxSessions, f \in Nat, n \in Nat : s = g.session /\ f = g.seq /\ n = g.length BY DEF Metas
<1>6. CASE UNCHANGED open /\ Receive!NoDecision BY <1>6 DEF Receive!NoDecision, NothingKept
<1>7. CASE UNCHANGED open /\ Receive!Refuse(g)
  <2>1. PICK e \in Decisions : e = Receive!Decision(g, TRUE) /\ (e.drop <=> TRUE) /\ e.id = g.id BY DecisionOf
  <2>2. /\ drop2Q' = IF g.length = 0 THEN drop2Q ELSE Append(drop2Q, e)
        /\ UNCHANGED <<sar, notes, noteQ>>
    BY <1>7, <2>1 DEF Receive!Refuse
  <2>3. Kept(Append(drop2Q, e)) = Kept(drop2Q) BY <1>1, <2>1, KeptAppend
  <2>4. Kept(drop2Q') = Kept(drop2Q) BY <2>2, <2>3
  <2> QED BY <1>7, <2>2, <2>4 DEF NothingKept
<1>8. CASE Receive!FsmOther(g, r) BY <1>6, <1>8 DEF Receive!FsmOther
<1>9. CASE Receive!FsmFin(g, r)
  <2>1. CASE g.session \in open /\ Receive!Expected(g, r)
    <3>1. PICK e \in Nat : e = f + n + 1 /\ e = f + n + (IF TRUE THEN 1 ELSE 0)  OBVIOUS
    <3>2. PICK row \in SarRows : row = [r EXCEPT !.recvd = e, !.head = e] BY DEF SarRows
    <3>3. row.recvd = e BY <3>2 DEF SarRows
    <3>4. PICK x \in Notices : x = Receive!Note(g.session, g.length, TRUE) BY <1>5, NoteIs
    <3>5. x.session = g.session /\ x.length = g.length /\ x.closed = TRUE BY <3>4 DEF Receive!Note
    <3>6. Receive!Keep(g, row, x) BY <1>5, <1>9, <2>1, <3>1, <3>2, <3>4 DEF Receive!FsmFin
    <3>7. g.kind = "FIN" /\ open' = open \ {g.session} BY <1>9, <2>1 DEF Receive!FsmFin
    <3>8. g.seq = sar[g.session].recvd BY <1>4, <2>1 DEF Receive!Expected
    <3>9. Keeping(g, TRUE, x) /\ noteQ' = noteQ
      <4>1. row.recvd = g.seq + g.length + (IF TRUE THEN 1 ELSE 0) BY <1>5, <3>1, <3>3
      <4>2. Announces(x, g) BY <3>5 DEF Announces
      <4> QED BY <1>1, <1>2, <2>1, <3>6, <3>7, <3>8, <4>1, <4>2, KeepIsKeeping
    <3> QED BY <1>3, <3>5, <3>7, <3>9 DEF KeptNow
  <2>2. CASE ~(g.session \in open /\ Receive!Expected(g, r)) BY <1>7, <1>9, <2>2 DEF Receive!FsmFin
  <2> QED BY <2>1, <2>2
<1>10. CASE Receive!FsmAck(g, r)
  <2>1. g.kind = "ACK" /\ open' = open BY <1>10 DEF Receive!FsmAck
  <2>2. CASE g.length = 0 BY <1>6, <1>10, <2>1, <2>2 DEF Receive!FsmAck
  <2>3. CASE g.length # 0 /\ ~(Receive!Expected(g, r) /\ Receive!RoomInFifo)
    BY <1>1, <1>7, <1>10, <2>1, <2>3 DEF Receive!FsmAck
  <2>4. CASE g.length # 0 /\ Receive!Expected(g, r) /\ Receive!RoomInFifo
    <3>1. PICK e \in Nat : e = f + n /\ e = f + n + (IF FALSE THEN 1 ELSE 0)  OBVIOUS
    <3>2. PICK row \in SarRows : row = [r EXCEPT !.recvd = e, !.head = e] BY DEF SarRows
    <3>3. row.recvd = e BY <3>2 DEF SarRows
    <3>4. PICK x \in Notices : x = Receive!Note(g.session, g.length, FALSE) BY <1>5, NoteIs
    <3>5. x.session = g.session /\ x.length = g.length /\ x.closed = FALSE BY <3>4 DEF Receive!Note
    <3>6. Receive!Keep(g, row, x)
      <4>1. Receive!Keep(g, Receive!NewRow("in_order", g, r), Receive!Note(g.session, g.length, FALSE))
        BY <1>1, <1>10, <2>4 DEF Receive!FsmAck
      <4>2. Receive!NewRow("in_order", g, r) = row BY <1>5, <3>1, <3>2 DEF Receive!NewRow
      <4> QED BY <3>4, <4>1, <4>2
    <3>7. g.seq = sar[g.session].recvd BY <1>4, <2>4 DEF Receive!Expected
    <3>8. s \in open
      <4> SUFFICES ASSUME s \notin open PROVE FALSE  OBVIOUS
      <4>1. PICK c \in Cuts[s] : c[3] = "FIN" /\ sar[s].recvd = RxFirst + c[1] + c[2] + 1 BY <1>1 DEF EndIsBehind
      <4>2. PICK d \in Cuts[s] : Piece(g, d) BY <1>4, <1>5, <2>1 DEF WellCut
      <4>3. PICK c1 \in Nat, c2 \in Nat, d1 \in Nat : c1 = c[1] /\ c2 = c[2] /\ d1 = d[1] /\ d1 <= c1
        BY <4>1, PiecesAreApart
      <4>4. f = RxFirst + d1 /\ f = RxFirst + c1 + c2 + 1 BY <1>5, <3>7, <4>1, <4>2, <4>3 DEF Piece
      <4>5. RxFirst \in Nat BY ReceiveAssumption
      <4> QED BY <4>3, <4>4, <4>5
    <3>9. Keeping(g, FALSE, x) /\ noteQ' = noteQ
      <4>1. row.recvd = g.seq + g.length + (IF FALSE THEN 1 ELSE 0) BY <1>5, <3>1, <3>3
      <4>2. Announces(x, g) BY <3>5 DEF Announces
      <4>3. g.session \in open BY <1>5, <3>8
      <4>4. open' = IF FALSE THEN open \ {g.session} ELSE open BY <2>1
      <4> QED BY <1>1, <1>2, <3>6, <3>7, <4>1, <4>2, <4>3, <4>4, KeepIsKeeping
    <3> QED BY <1>3, <2>1, <2>4, <3>5, <3>9 DEF KeptNow
  <2> QED BY <2>2, <2>3, <2>4
<1> QED BY <1>2, <1>3, <1>8, <1>9, <1>10

LEMMA KeepingEnds ==
    ASSUME notes \in Seq(Notices), NothingAfterEnd, NEW g, NEW c \in BOOLEAN, NEW x \in Notices,
           Keeping(g, c, x), x.closed = c, closed' = closed
    PROVE  NothingAfterEnd'
<1>1. /\ g.session \in open /\ x.session = g.session /\ notes' = Append(notes, x)
      /\ open' \subseteq open /\ (c => g.session \notin open')
  BY DEF Keeping, Announces
<1> DEFINE z == Append(notes, x)
<1>2. PICK k \in Nat : k = Len(notes) + 1  OBVIOUS
<1>3. /\ k \in DOMAIN z /\ z[k] = x
      /\ \A i \in DOMAIN notes : i \in DOMAIN z /\ z[i] = notes[i] /\ i < k
      /\ \A i \in DOMAIN z : i \in DOMAIN notes \/ i = k
  BY <1>2, AppendOf
<1>4. \A i \in DOMAIN notes : i \in Nat  OBVIOUS
<1> HIDE DEF z
<1>5. notes' = z BY <1>1 DEF z
<1>6. ASSUME NEW i \in DOMAIN z, z[i].closed
      PROVE  z[i].session \notin open' /\ \A j \in DOMAIN z : i < j => z[j].session # z[i].session
  <2>1. CASE i \in DOMAIN notes
    <3>1. /\ z[i].session \notin open
          /\ \A j \in DOMAIN notes : i < j => notes[j].session # z[i].session
      BY <1>3, <1>6, <2>1 DEF NothingAfterEnd
    <3>2. ASSUME NEW j \in DOMAIN z, i < j PROVE z[j].session # z[i].session
      <4>1. CASE j \in DOMAIN notes BY <1>3, <3>1, <3>2, <4>1
      <4>2. CASE j = k BY <1>1, <1>3, <3>1, <4>2
      <4> QED BY <1>3, <4>1, <4>2
    <3> QED BY <1>1, <3>1, <3>2
  <2>2. CASE i = k
    <3>1. \A j \in DOMAIN z : ~(i < j) BY <1>2, <1>3, <1>4, <2>2
    <3>2. z[i] = x BY <1>3, <2>2
    <3> QED BY <1>1, <1>6, <3>1, <3>2
  <2> QED BY <1>3, <2>1, <2>2
<1>7. ASSUME NEW s \in closed
      PROVE  s \notin open' /\ \A i \in DOMAIN z : z[i].session # s
  <2>1. s \notin open /\ \A i \in DOMAIN notes : notes[i].session # s BY DEF NothingAfterEnd
  <2> QED BY <1>1, <1>3, <2>1
<1> QED BY <1>5, <1>6, <1>7 DEF NothingAfterEnd

LEMMA KeepingEndIsBehind ==
    ASSUME EndIsBehind, NEW g \in Metas, WellCut(g), NEW c \in BOOLEAN, NEW x, Keeping(g, c, x),
           g.kind = IF c THEN "FIN" ELSE "ACK"
    PROVE  EndIsBehind'
<1> SUFFICES ASSUME NEW s \in RxSessions, s \notin open'
             PROVE  \E e \in Cuts[s] : e[3] = "FIN" /\ sar'[s].recvd = RxFirst + e[1] + e[2] + 1
  BY DEF EndIsBehind
<1>1. /\ open' = IF c THEN open \ {g.session} ELSE open
      /\ g.session \in open
      /\ sar'[s].recvd = IF s = g.session THEN g.seq + g.length + (IF c THEN 1 ELSE 0) ELSE sar[s].recvd
  BY DEF Keeping
<1>2. CASE s # g.session
  <2>1. s \notin open /\ sar'[s].recvd = sar[s].recvd BY <1>1, <1>2
  <2> QED BY <2>1 DEF EndIsBehind
<1>3. CASE s = g.session
  <2>1. c /\ g.kind = "FIN" BY <1>1, <1>3
  <2>2. PICK e \in Cuts[s] : Piece(g, e) BY <1>3, <2>1 DEF WellCut
  <2>3. sar'[s].recvd = g.seq + g.length + 1 BY <1>1, <1>3, <2>1
  <2> QED BY <2>1, <2>2, <2>3 DEF Piece
<1> QED BY <1>2, <1>3

LEMMA TransitionStreams ==
    ASSUME DecisionInv, NoticeTypes, StreamInv, Receive!FsmTransition
    PROVE  StreamInv'
<1>1. /\ DecisionTypes /\ AllWellCut /\ notes \in Seq(Notices) /\ payloadQ \in Seq(Payloads)
      /\ BypassTypes /\ DataInv /\ LoadedIsCurrent /\ EndIsBehind /\ NothingAfterEnd /\ LogInv
      /\ Receive!StreamIsRead
  BY DecisionFacts DEF StreamInv, NoticeTypes
<1>2. /\ loaded # <<>> /\ loaded' = <<>>
      /\ UNCHANGED <<build, payloadQ, metaQ, looking, fsmQ, dropper, fifo, delayed, half, rxAsked, readQ, got, closed>>
  BY DEF Receive!FsmTransition, Receive!noteVars, Receive!appVars
<1>3. PICK g \in Metas : g = loaded.segment BY <1>1, <1>2 DEF DecisionTypes
<1>4. WellCut(g) /\ g \in Underway BY <1>1, <1>2, <1>3 DEF AllWellCut, Underway
<1>5. LoadedIsCurrent' BY <1>2 DEF LoadedIsCurrent
<1>6. Underway' \subseteq Underway BY <1>2 DEF Underway
<1>7. DataInv' BY <1>1, <1>2, <1>6 DEF DataInv
<1>8. CASE NothingKept
  <2>1. Waiting' = Waiting BY <1>2, <1>8 DEF NothingKept, Waiting, Passing
  <2>2. UNCHANGED <<sar, open, notes, noteQ>> BY <1>8 DEF NothingKept
  <2>3. payloadQ' = payloadQ BY <1>2
  <2> QED BY <1>2, <1>5, <1>7, <2>1, <2>2, <2>3, StreamRests
<1>9. CASE KeptNow(g)
  <2>1. PICK c \in BOOLEAN, x \in Notices :
            /\ Keeping(g, c, x) /\ noteQ' = noteQ
            /\ x.closed = c /\ g.kind = (IF c THEN "FIN" ELSE "ACK") /\ (c \/ g.length # 0)
    BY <1>9 DEF KeptNow
  <2>2. NothingAfterEnd' BY <1>1, <1>2, <2>1, KeepingEnds
  <2>3. EndIsBehind' BY <1>1, <1>4, <2>1, KeepingEndIsBehind
  <2>4. LogInv'
    <3>1. CASE g.length # 0
      <4>1. \A k \in Waiting : k < g.id BY <1>2, <1>3, <3>1, UnderwayIs
      <4>2. g.kind \in {"ACK", "FIN"} BY <2>1
      <4>3. Fits(payloadQ, g) BY <1>1, <1>4, <4>2 DEF DataInv
      <4> QED BY <1>1, <2>1, <3>1, <4>1, <4>3, LogGrows
    <3>2. CASE g.length = 0
      <4>1. Keeping(g, TRUE, x) BY <2>1, <3>2
      <4> QED BY <1>1, <3>2, <4>1, LogEnds
    <3> QED BY <3>1, <3>2
  <2>5. BypassTypes' BY <1>1, <1>2, <2>1 DEF BypassTypes
  <2>6. Receive!StreamIsRead' BY <1>1, <1>2 DEF Receive!StreamIsRead
  <2> QED BY <1>5, <1>7, <2>2, <2>3, <2>4, <2>5, <2>6 DEF StreamInv
<1> QED BY <1>3, <1>8, <1>9, TransitionKeeps

LEMMA ForwardStreams ==
    ASSUME DecisionInv, StreamInv, Receive!ForwardPayload
    PROVE  StreamInv'
<1>1. /\ DecisionTypes /\ payloadQ \in Seq(Payloads) /\ BypassTypes /\ DataInv /\ LoadedIsCurrent
      /\ EndIsBehind /\ NothingAfterEnd /\ LogInv /\ Receive!StreamIsRead
  BY DecisionFacts DEF StreamInv
<1>2. build = "bypass" /\ fifo \in Seq(Datas) BY <1>1 DEF BypassTypes
<1>3. /\ dropper.state = "FWD" /\ payloadQ # <<>>
      /\ payloadQ' = Tail(payloadQ) /\ dropper' = [state |-> "READ_DROP1", of |-> 0]
      /\ UNCHANGED <<build, metaQ, looking, fsmQ, loaded, drop2Q, sar, open, noteQ, delayed, half, notes,
                     rxAsked, readQ, got, closed>>
  BY DEF Receive!ForwardPayload, Receive!noteVars, Receive!appVars
<1>4. fifo' = Append(fifo, Head(payloadQ).data) BY <1>2 DEF Receive!ForwardPayload
<1>5. LogInv' /\ fifo' \in Seq(Datas) BY <1>1, <1>2, <1>3, <1>4, LogForwards
<1>6. BypassTypes' BY <1>1, <1>3, <1>5 DEF BypassTypes
<1>7. Underway' = Underway BY <1>3 DEF Underway
<1>8. \A x : Fits(payloadQ, x) => Fits(payloadQ', x) BY <1>1, <1>3, FitsTail
<1>9. DataInv' BY <1>1, <1>7, <1>8 DEF DataInv
<1>10. LoadedIsCurrent' BY <1>1, <1>3 DEF LoadedIsCurrent
<1>11. EndIsBehind' BY <1>1, <1>3 DEF EndIsBehind
<1>12. NothingAfterEnd' BY <1>1, <1>3 DEF NothingAfterEnd
<1>13. Receive!StreamIsRead' BY <1>1, <1>3 DEF Receive!StreamIsRead
<1> QED BY <1>5, <1>6, <1>9, <1>10, <1>11, <1>12, <1>13 DEF StreamInv

(* The end of a stream is its last notification.                           *)
LEMMA AskKeepsEnds ==
    ASSUME notes \in Seq(Notices), NothingAfterEnd, Receive!AskRead
    PROVE  NothingAfterEnd'
<1>1. /\ notes # <<>> /\ notes' = Tail(notes) /\ open' = open
      /\ closed' = IF Head(notes).closed THEN closed \cup {Head(notes).session} ELSE closed
  BY DEF Receive!AskRead
<1>2. /\ Head(notes) = notes[1] /\ 1 \in DOMAIN notes
      /\ \A i \in DOMAIN Tail(notes) : i + 1 \in DOMAIN notes /\ Tail(notes)[i] = notes[i + 1]
      /\ Tail(notes) \in Seq(Notices)
  BY <1>1, TailOf
<1>3. \A i, j \in DOMAIN Tail(notes) : 1 < i + 1 /\ (i < j => i + 1 < j + 1) BY <1>2
<1> DEFINE z == Tail(notes)
<1> HIDE DEF z
<1>4. ASSUME NEW i \in DOMAIN z, z[i].closed
      PROVE  z[i].session \notin open /\ \A j \in DOMAIN z : i < j => z[j].session # z[i].session
  <2>1. PICK k \in DOMAIN notes : k = i + 1 /\ z[i] = notes[k] BY <1>2 DEF z
  <2>2. notes[k].session \notin open /\ \A j \in DOMAIN notes : k < j => notes[j].session # notes[k].session
    BY <1>4, <2>1 DEF NothingAfterEnd
  <2>3. ASSUME NEW j \in DOMAIN z, i < j PROVE z[j].session # z[i].session
    <3>1. j + 1 \in DOMAIN notes /\ z[j] = notes[j + 1] /\ k < j + 1 BY <1>2, <1>3, <2>1, <2>3 DEF z
    <3> QED BY <2>1, <2>2, <3>1
  <2> QED BY <2>1, <2>2, <2>3
<1>5. ASSUME NEW s \in closed'
      PROVE  s \notin open /\ \A i \in DOMAIN z : z[i].session # s
  <2>1. CASE s \in closed
    <3>1. s \notin open /\ \A i \in DOMAIN notes : notes[i].session # s BY <2>1 DEF NothingAfterEnd
    <3> QED BY <1>2, <3>1 DEF z
  <2>2. CASE s \notin closed
    <3>1. notes[1].closed /\ s = notes[1].session BY <1>1, <1>2, <1>5, <2>2
    <3>2. s \notin open /\ \A j \in DOMAIN notes : 1 < j => notes[j].session # s
      BY <1>2, <3>1 DEF NothingAfterEnd
    <3> QED BY <1>2, <1>3, <3>2 DEF z
  <2> QED BY <2>1, <2>2
<1>6. notes' = z BY <1>1 DEF z
<1> QED BY <1>1, <1>4, <1>5, <1>6 DEF NothingAfterEnd

LEMMA AskStreams ==
    ASSUME DecisionInv, NoticeTypes, StreamInv, Receive!AskRead
    PROVE  StreamInv'
<1>1. /\ notes \in Seq(Notices) /\ BypassTypes /\ DataInv /\ LoadedIsCurrent
      /\ EndIsBehind /\ NothingAfterEnd /\ LogInv /\ Receive!StreamIsRead
  BY DEF StreamInv, NoticeTypes
<1>2. UNCHANGED <<build, payloadQ, metaQ, looking, fsmQ, loaded, sar, open, fifo, noteQ, delayed, half, got>>
  BY DEF Receive!AskRead, Receive!decisionVars, Receive!noteVars
<1>3. LogInv' BY <1>1, LogIsAsked
<1>4. BypassTypes' BY <1>1, <1>2 DEF BypassTypes
<1>5. DataInv' BY <1>1, <1>2 DEF DataInv, Underway
<1>6. LoadedIsCurrent' BY <1>1, <1>2 DEF LoadedIsCurrent
<1>7. EndIsBehind' BY <1>1, <1>2 DEF EndIsBehind
<1>8. NothingAfterEnd' BY <1>1, AskKeepsEnds
<1>9. Receive!StreamIsRead' BY <1>1, <1>2 DEF Receive!StreamIsRead
<1> QED BY <1>3, <1>4, <1>5, <1>6, <1>7, <1>8, <1>9 DEF StreamInv

LEMMA StartStreams ==
    ASSUME DecisionInv, NoticeTypes, StreamInv, Receive!StartRead
    PROVE  StreamInv'
<1>1. /\ DecisionTypes /\ BypassTypes /\ DataInv /\ LoadedIsCurrent
      /\ EndIsBehind /\ NothingAfterEnd /\ LogInv /\ Receive!StreamIsRead
  BY DecisionFacts DEF StreamInv
<1>2. UNCHANGED <<build, payloadQ, metaQ, looking, fsmQ, loaded, open, fifo, noteQ, delayed, half, notes, got, closed>>
  BY DEF Receive!StartRead, Receive!decisionVars, Receive!noteVars
<1>3. LogInv' BY <1>1, LogIsStarted
<1>4. \A s \in RxSessions : sar'[s].recvd = sar[s].recvd
  <2>1. KeepsRows BY <1>1, StartKeepsRows
  <2> SUFFICES ASSUME NEW s \in RxSessions PROVE sar'[s].recvd = sar[s].recvd  OBVIOUS
  <2>2. PICK a \in SarRows, b \in SarRows : a = sar[s] /\ b = sar'[s] BY <1>1, <2>1 DEF DecisionTypes, KeepsRows
  <2>3. [b EXCEPT !.appd = 0] = [a EXCEPT !.appd = 0] BY <2>1, <2>2 DEF KeepsRows
  <2>4. a.recvd = [a EXCEPT !.appd = 0].recvd /\ b.recvd = [b EXCEPT !.appd = 0].recvd BY DEF SarRows
  <2> QED BY <2>2, <2>3, <2>4
<1>5. BypassTypes' BY <1>1, <1>2 DEF BypassTypes
<1>6. DataInv' BY <1>1, <1>2 DEF DataInv, Underway
<1>7. LoadedIsCurrent'
  <2>1. loaded # <<>> => loaded.segment.session \in RxSessions BY <1>1 DEF DecisionTypes, Metas
  <2> QED BY <1>1, <1>2, <1>4, <2>1 DEF LoadedIsCurrent
<1>8. EndIsBehind' BY <1>1, <1>2, <1>4 DEF EndIsBehind
<1>9. NothingAfterEnd' BY <1>1, <1>2 DEF NothingAfterEnd
<1>10. Receive!StreamIsRead' BY <1>1, <1>2 DEF Receive!StreamIsRead
<1> QED BY <1>3, <1>5, <1>6, <1>7, <1>8, <1>9, <1>10 DEF StreamInv

LEMMA ReadStreams ==
    ASSUME StreamInv, Receive!Read
    PROVE  StreamInv'
<1>1. /\ BypassTypes /\ DataInv /\ LoadedIsCurrent /\ EndIsBehind /\ NothingAfterEnd /\ LogInv
  BY DEF StreamInv
<1>2. UNCHANGED <<build, payloadQ, metaQ, looking, fsmQ, loaded, sar, open, notes, closed>>
  BY DEF Receive!Read, Receive!decisionVars
<1>3. LogInv' /\ Receive!StreamIsRead' /\ BypassTypes' BY <1>1, LogIsRead
<1>4. DataInv' BY <1>1, <1>2 DEF DataInv, Underway
<1>5. LoadedIsCurrent' BY <1>1, <1>2 DEF LoadedIsCurrent
<1>6. EndIsBehind' BY <1>1, <1>2 DEF EndIsBehind
<1>7. NothingAfterEnd' BY <1>1, <1>2 DEF NothingAfterEnd
<1> QED BY <1>3, <1>4, <1>5, <1>6, <1>7 DEF StreamInv

(* The steps that nothing of this depends on.                              *)
LEMMA StreamsRest ==
    ASSUME StreamInv,
           UNCHANGED <<build, payloadQ, metaQ, looking, fsmQ, loaded, drop2Q, dropper, sar, open, fifo,
                       noteQ, delayed, half, notes, rxAsked, readQ, got, closed>>
    PROVE  StreamInv'
<1>1. DataInv /\ LoadedIsCurrent BY DEF StreamInv
<1>2. DataInv' BY <1>1 DEF DataInv, Underway
<1>3. LoadedIsCurrent' BY <1>1 DEF LoadedIsCurrent
<1>4. Waiting' = Waiting BY DEF Waiting, Passing
<1>5. payloadQ' = payloadQ  OBVIOUS
<1> QED BY <1>2, <1>3, <1>4, <1>5, StreamRests

LEMMA StreamStep ==
    ASSUME DecisionInv, NoticeTypes, StreamInv, [Receive!Next]_receiveVars
    PROVE  StreamInv'
<1>1. ASSUME NEW g \in Receive!Segments, Receive!Arrive(g) PROVE StreamInv' BY <1>1, ArriveStreams
<1>2. CASE Receive!MetaClosedPort \/ Receive!MetaLookup \/ Receive!MetaAnswered \/ Receive!FsmLoad
  BY <1>2, PassingStreams
<1>3. CASE Receive!FsmTransition BY <1>3, TransitionStreams
<1>4. CASE Receive!ReadDecision \/ Receive!DropPayload BY <1>4, DropperStreams
<1>5. CASE Receive!ForwardPayload BY <1>5, ForwardStreams
<1>6. CASE Receive!MoverWrites
  <2>1. UNCHANGED <<build, payloadQ, metaQ, looking, fsmQ, loaded, drop2Q, dropper, sar, open, fifo,
                    noteQ, delayed, half, notes, rxAsked, readQ, got, closed>>
    BY <1>6 DEF Receive!MoverWrites, Receive!decisionVars, Receive!noteVars, Receive!appVars
  <2> QED BY <2>1, StreamsRest
<1>7. CASE Receive!Delayer
  <2>1. half = <<>> /\ delayed = <<>> /\ noteQ = <<>> BY DEF StreamInv, BypassTypes
  <2>2. half # <<>> \/ delayed # <<>> \/ noteQ # <<>>
    BY <1>7, Zenon DEF Receive!Delayer, Receive!SecondStatus, Receive!FirstStatus, Receive!Delay
  <2> QED BY <2>1, <2>2
<1>8. CASE Receive!AskRead BY <1>8, AskStreams
<1>9. CASE Receive!StartRead BY <1>9, StartStreams
<1>10. CASE Receive!Read BY <1>10, ReadStreams
<1>11. CASE UNCHANGED receiveVars
  <2>1. UNCHANGED <<build, payloadQ, metaQ, looking, fsmQ, loaded, drop2Q, dropper, sar, open, fifo,
                    noteQ, delayed, half, notes, rxAsked, readQ, got, closed>>
    BY <1>11 DEF receiveVars
  <2> QED BY <2>1, StreamsRest
<1> QED BY <1>1, <1>2, <1>3, <1>4, <1>5, <1>6, <1>7, <1>8, <1>9, <1>10, <1>11 DEF Receive!Next

LEMMA BuildStays == [Receive!Next]_receiveVars => build' = build
<1> SUFFICES ASSUME [Receive!Next]_receiveVars PROVE build' = build  OBVIOUS
<1>1. ASSUME NEW g \in Receive!Segments, Receive!Arrive(g) PROVE build' = build BY <1>1 DEF Receive!Arrive
<1>2. CASE Receive!MetaClosedPort BY <1>2 DEF Receive!MetaClosedPort
<1>3. CASE Receive!MetaLookup BY <1>3 DEF Receive!MetaLookup
<1>4. CASE Receive!MetaAnswered BY <1>4 DEF Receive!MetaAnswered
<1>5. CASE Receive!FsmLoad BY <1>5 DEF Receive!FsmLoad
<1>6. CASE Receive!FsmTransition BY <1>6 DEF Receive!FsmTransition
<1>7. CASE Receive!ReadDecision BY <1>7 DEF Receive!ReadDecision
<1>8. CASE Receive!DropPayload BY <1>8 DEF Receive!DropPayload
<1>9. CASE Receive!ForwardPayload BY <1>9 DEF Receive!ForwardPayload
<1>10. CASE Receive!MoverWrites BY <1>10 DEF Receive!MoverWrites
<1>11. CASE Receive!Delayer BY <1>11 DEF Receive!Delayer
<1>12. CASE Receive!AskRead BY <1>12 DEF Receive!AskRead
<1>13. CASE Receive!StartRead BY <1>13 DEF Receive!StartRead
<1>14. CASE Receive!Read BY <1>14 DEF Receive!Read
<1>15. CASE UNCHANGED receiveVars BY <1>15 DEF receiveVars
<1> QED
  BY <1>1, <1>2, <1>3, <1>4, <1>5, <1>6, <1>7, <1>8, <1>9, <1>10, <1>11, <1>12, <1>13, <1>14, <1>15
  DEF Receive!Next

(* In the build with RX_DDR_BYPASS what the application reads is its       *)
(* session's stream: no hole and no byte of another session, although all  *)
(* sessions share one FIFO, the notification overtakes the payload, and    *)
(* segments come in any order and more than once; and nothing of a stream  *)
(* is announced after its end.                                             *)
THEOREM StreamIsReadInBypass == ReceiveSpec => [](build = "bypass" => StreamIsRead)
<1> DEFINE Inv == DecisionInv /\ NoticeTypes /\ (build = "bypass" => StreamInv)
<1>1. Receive!Init => Inv
  <2>1. Receive!Init => NoticeTypes BY DEF Receive!Init, NoticeTypes
  <2> QED BY <2>1, DecisionStart, StreamStart
<1>2. Inv /\ [Receive!Next]_receiveVars => Inv'
  <2>1. Inv /\ [Receive!Next]_receiveVars => DecisionInv' /\ NoticeTypes'
    BY DecisionFacts, DecisionStep, NoticeStep
  <2> QED BY <2>1, StreamStep, BuildStays
<1>3. Inv => (build = "bypass" => StreamIsRead)
  <2> SUFFICES ASSUME StreamInv, build = "bypass" PROVE StreamIsRead  OBVIOUS
  <2>1. Receive!EndIsLast BY DEF StreamInv, NothingAfterEnd, Receive!EndIsLast
  <2> QED BY <2>1 DEF StreamInv, StreamIsRead
<1> HIDE DEF Inv
<1> QED BY <1>1, <1>2, <1>3, PTL DEF ReceiveSpec

=============================================================================
