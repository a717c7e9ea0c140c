--------------------------- MODULE EchoKernelProofs ---------------------------
(***************************************************************************)
(* What goes back to a client is what it sent (EchoIsOwn), for any clients,*)
(* any lengths of packets, any depth of the FIFOs and any number of packets*)
(* under way - where the toe has room and no client closes early.          *)
(*                                                                         *)
(* Requests and words go separate ways, and only their order says which    *)
(* request is for which words.  The invariant speaks of the log of all     *)
(* packets sent: each queue of words leads from one place in it to         *)
(* another, each queue of requests from one packet to another.             *)
(***************************************************************************)
EXTENDS EchoKernel, SequenceTheorems, TLAPS

(* What the theorem is about: no packet is empty, the toe has room, and a  *)
(* client has its echo before it closes.                                   *)
Served == Lengths \subseteq Nat \ {0} /\ Room /\ ~EarlyClose

Word == [client : Clients, number : Nat, last : BOOLEAN]
Request == [session : Clients, length : Nat]

(* A packet of the log: whose it is, and the number of its last word.      *)
Packet == [session : Clients, last : Nat]

(* A place in the log: the words of each client and the packets before it. *)
Place == [words : [Clients -> Nat], packets : Nat]

(* The word that is next: of the packet's client, the next one it sent.    *)
IsNumber(log, src, p, w, c, n) ==
    /\ c = log[p.packets + 1].session /\ n = p.words[c] + 1
    /\ n <= Len(src[c]) /\ w = src[c][n] /\ w.client = c
    /\ w.last <=> n = log[p.packets + 1].last
IsNext(log, src, p, w) ==
    p.packets < Len(log) /\ \E c \in Clients, n \in Nat : IsNumber(log, src, p, w, c, n)

Past(p, w) ==
    [words |-> [p.words EXCEPT ![w.client] = @ + 1],
     packets |-> IF w.last THEN p.packets + 1 ELSE p.packets]

(* f is the way through the words of q, from place a to place z.           *)
Way(log, src, q, n, a, z, f) ==
    /\ f \in [0 .. n -> Place] /\ f[0] = a /\ f[n] = z
    /\ \A j \in 1 .. n : IsNext(log, src, f[j - 1], q[j]) /\ f[j] = Past(f[j - 1], q[j])
    /\ \A i, j \in 0 .. n : i <= j => f[i].packets <= f[j].packets
Line(log, src, q, a, z) == \E f : Way(log, src, q, Len(q), a, z, f)

(* The requests of q are those for the packets after a, up to z.           *)
Orders(log, q, a, z) ==
    /\ a + Len(q) = z /\ z <= Len(log)
    /\ \A j \in 1 .. Len(q) : q[j].session = log[a + j].session

(* The same where notices of a close stand in between.                     *)
Counts(log, q, n, a, z, f) ==
    /\ f \in [0 .. n -> Nat] /\ f[0] = a /\ f[n] = z
    /\ \A j \in 1 .. n : IF q[j].length = 0 THEN f[j] = f[j - 1]
                         ELSE f[j] = f[j - 1] + 1 /\ f[j] <= Len(log) /\ q[j].session = log[f[j]].session
Notices(log, q, a, z) == \E f : Counts(log, q, Len(q), a, z, f)

-----------------------------------------------------------------------------
(* Words                                                                   *)

LEMMA PastIs ==
    ASSUME NEW p \in Place, NEW w \in Word
    PROVE  /\ Past(p, w) \in Place
           /\ Past(p, w).packets = (IF w.last THEN p.packets + 1 ELSE p.packets)
           /\ p.packets <= Past(p, w).packets /\ p.packets \in Nat
           /\ \A c \in Clients : Past(p, w).words[c] = IF c = w.client THEN p.words[c] + 1 ELSE p.words[c]
<1>1. p.words \in [Clients -> Nat] /\ p.packets \in Nat BY DEF Place
<1>2. w.client \in Clients /\ w.last \in BOOLEAN BY DEF Word
<1>3. PICK v : v = [p.words EXCEPT ![w.client] = @ + 1] OBVIOUS
<1>4. v \in [Clients -> Nat] /\ \A c \in Clients : v[c] = IF c = w.client THEN p.words[c] + 1 ELSE p.words[c]
  BY <1>1, <1>2, <1>3
<1>5. Past(p, w) = [words |-> v, packets |-> IF w.last THEN p.packets + 1 ELSE p.packets] BY <1>3 DEF Past
<1>6. PICK o : o = Past(p, w) OBVIOUS
<1>7. o.words = v /\ o.packets = IF w.last THEN p.packets + 1 ELSE p.packets BY <1>5, <1>6
<1>8. o \in Place BY <1>1, <1>2, <1>4, <1>5, <1>6 DEF Place
<1>9. p.packets <= o.packets BY <1>1, <1>7
<1> QED BY <1>1, <1>4, <1>6, <1>7, <1>8, <1>9

LEMMA LineEnds ==
    ASSUME NEW log, NEW src, NEW q \in Seq(Word), NEW a, NEW z, Line(log, src, q, a, z)
    PROVE  /\ a \in Place /\ z \in Place /\ a.packets \in Nat /\ z.packets \in Nat /\ a.packets <= z.packets
           /\ q = <<>> => a = z
<1>1. PICK f : Way(log, src, q, Len(q), a, z, f) BY DEF Line
<1>2. PICK n \in Nat : n = Len(q) OBVIOUS
<1>3. 0 \in 0 .. n /\ n \in 0 .. n /\ 0 <= n OBVIOUS
<1>4. a \in Place /\ z \in Place /\ a.packets <= z.packets BY <1>1, <1>2, <1>3 DEF Way
<1>5. a.packets \in Nat /\ z.packets \in Nat BY <1>4 DEF Place
<1>6. q = <<>> => n = 0 BY <1>2
<1> QED BY <1>1, <1>2, <1>4, <1>5, <1>6 DEF Way

LEMMA NoLine ==
    ASSUME NEW log, NEW src, NEW a \in Place
    PROVE  Line(log, src, <<>>, a, a)
<1>1. PICK f : f = [j \in 0 .. 0 |-> a] OBVIOUS
<1>2. f \in [0 .. 0 -> Place] /\ f[0] = a BY <1>1
<1>3. \A i, j \in 0 .. 0 : i = 0 /\ j = 0 OBVIOUS
<1>4. a.packets <= a.packets BY DEF Place
<1>5. Len(<<>>) = 0 OBVIOUS
<1>6. Way(log, src, <<>>, 0, a, a, f) BY <1>2, <1>3, <1>4 DEF Way
<1> QED BY <1>5, <1>6 DEF Line

LEMMA LinePops ==
    ASSUME NEW log, NEW src, NEW q \in Seq(Word), q # <<>>, NEW a, NEW z, Line(log, src, q, a, z)
    PROVE  /\ Head(q) \in Word /\ Tail(q) \in Seq(Word) /\ IsNext(log, src, a, Head(q))
           /\ Past(a, Head(q)) \in Place /\ Line(log, src, Tail(q), Past(a, Head(q)), z)
<1>1. PICK f : Way(log, src, q, Len(q), a, z, f) BY DEF Line
<1>2. PICK n \in Nat : n = Len(q) /\ n > 0 OBVIOUS
<1>3. PICK g : g = [j \in 0 .. n - 1 |-> f[j + 1]] OBVIOUS
<1>4. /\ f \in [0 .. n -> Place] /\ f[0] = a /\ f[n] = z
      /\ \A j \in 1 .. n : IsNext(log, src, f[j - 1], q[j]) /\ f[j] = Past(f[j - 1], q[j])
      /\ \A i, j \in 0 .. n : i <= j => f[i].packets <= f[j].packets
  BY <1>1, <1>2 DEF Way
<1>5. /\ Head(q) = q[1] /\ Head(q) \in Word /\ Tail(q) \in Seq(Word) /\ Len(Tail(q)) = n - 1
      /\ \A j \in 1 .. n - 1 : Tail(q)[j] = q[j + 1]
  BY <1>2
<1>6. 1 \in 1 .. n /\ 1 \in 0 .. n /\ 1 - 1 = 0 BY <1>2
<1>7. IsNext(log, src, f[1 - 1], q[1]) /\ f[1] = Past(f[1 - 1], q[1]) BY <1>4, <1>6
<1>8. IsNext(log, src, a, Head(q)) /\ f[1] = Past(a, Head(q)) BY <1>4, <1>5, <1>6, <1>7
<1>9. f[1] \in Place BY <1>4, <1>6
<1>10. g \in [0 .. n - 1 -> Place] /\ g[0] = f[1] /\ g[n - 1] = z
  <2>1. \A j \in 0 .. n - 1 : j + 1 \in 0 .. n OBVIOUS
  <2>2. 0 \in 0 .. n - 1 /\ n - 1 \in 0 .. n - 1 /\ (n - 1) + 1 = n /\ 0 + 1 = 1 BY <1>2
  <2> QED BY <2>1, <2>2, <1>3, <1>4
<1>11. ASSUME NEW j \in 1 .. n - 1
       PROVE  IsNext(log, src, g[j - 1], Tail(q)[j]) /\ g[j] = Past(g[j - 1], Tail(q)[j])
  <2>1. j + 1 \in 1 .. n /\ (j + 1) - 1 = j /\ j \in 0 .. n - 1 /\ j - 1 \in 0 .. n - 1 /\ (j - 1) + 1 = j OBVIOUS
  <2>2. g[j] = f[j + 1] /\ g[j - 1] = f[j] BY <2>1, <1>3
  <2>3. IsNext(log, src, f[(j + 1) - 1], q[j + 1]) /\ f[j + 1] = Past(f[(j + 1) - 1], q[j + 1]) BY <2>1, <1>4
  <2> QED BY <2>1, <2>2, <2>3, <1>5
<1>12. ASSUME NEW i \in 0 .. n - 1, NEW j \in 0 .. n - 1, i <= j PROVE g[i].packets <= g[j].packets
  <2>1. i + 1 \in 0 .. n /\ j + 1 \in 0 .. n /\ i + 1 <= j + 1 BY <1>12
  <2>2. g[i] = f[i + 1] /\ g[j] = f[j + 1] BY <1>3
  <2> QED BY <2>1, <2>2, <1>4
<1>13. Way(log, src, Tail(q), n - 1, f[1], z, g) BY <1>10, <1>11, <1>12 DEF Way
<1> QED BY <1>5, <1>8, <1>9, <1>13 DEF Line

(* One queue after the other.                                              *)
LEMMA LinesJoin ==
    ASSUME NEW log, NEW src, NEW q \in Seq(Word), NEW r \in Seq(Word), NEW a, NEW b, NEW z,
           Line(log, src, q, a, b), Line(log, src, r, b, z)
    PROVE  Line(log, src, q \o r, a, z)
<1>1. PICK f : Way(log, src, q, Len(q), a, b, f) BY DEF Line
<1>2. PICK g : Way(log, src, r, Len(r), b, z, g) BY DEF Line
<1>3. PICK n \in Nat, m \in Nat : n = Len(q) /\ m = Len(r) OBVIOUS
<1>4. PICK h : h = [j \in 0 .. n + m |-> IF j <= n THEN f[j] ELSE g[j - n]] OBVIOUS
<1>5. /\ f \in [0 .. n -> Place] /\ f[0] = a /\ f[n] = b
      /\ \A j \in 1 .. n : IsNext(log, src, f[j - 1], q[j]) /\ f[j] = Past(f[j - 1], q[j])
      /\ \A i, j \in 0 .. n : i <= j => f[i].packets <= f[j].packets
  BY <1>1, <1>3 DEF Way
<1>6. /\ g \in [0 .. m -> Place] /\ g[0] = b /\ g[m] = z
      /\ \A j \in 1 .. m : IsNext(log, src, g[j - 1], r[j]) /\ g[j] = Past(g[j - 1], r[j])
      /\ \A i, j \in 0 .. m : i <= j => g[i].packets <= g[j].packets
  BY <1>2, <1>3 DEF Way
<1>7. Len(q \o r) = n + m /\ \A j \in 1 .. n + m : (q \o r)[j] = IF j <= n THEN q[j] ELSE r[j - n] BY <1>3
<1>8. \A j \in 0 .. n : h[j] = f[j] BY <1>4
<1>9. \A j \in 0 .. m : h[n + j] = g[j]
  <2> SUFFICES ASSUME NEW j \in 0 .. m PROVE h[n + j] = g[j] OBVIOUS
  <2>1. n + j \in 0 .. n + m /\ (n + j) - n = j /\ (n + j <= n <=> j = 0) OBVIOUS
  <2>2. h[n + j] = IF n + j <= n THEN f[n + j] ELSE g[(n + j) - n] BY <2>1, <1>4
  <2>3. j = 0 => n + j = n OBVIOUS
  <2> QED BY <2>1, <2>2, <2>3, <1>5, <1>6
<1>10. h \in [0 .. n + m -> Place] /\ h[0] = a /\ h[n + m] = z
  <2>1. \A j \in 0 .. n + m : j <= n => j \in 0 .. n OBVIOUS
  <2>2. \A j \in 0 .. n + m : ~(j <= n) => j - n \in 0 .. m OBVIOUS
  <2>3. h \in [0 .. n + m -> Place] BY <2>1, <2>2, <1>4, <1>5, <1>6
  <2>4. 0 \in 0 .. n /\ m \in 0 .. m OBVIOUS
  <2> QED BY <2>3, <2>4, <1>5, <1>6, <1>8, <1>9
<1>11. ASSUME NEW j \in 1 .. n + m
       PROVE  IsNext(log, src, h[j - 1], (q \o r)[j]) /\ h[j] = Past(h[j - 1], (q \o r)[j])
  <2>1. CASE j <= n
    <3>1. j \in 1 .. n /\ j \in 0 .. n /\ j - 1 \in 0 .. n BY <2>1
    <3> QED BY <3>1, <2>1, <1>5, <1>7, <1>8
  <2>2. CASE ~(j <= n)
    <3>1. PICK k \in 1 .. m : k = j - n BY <2>2
    <3>2. k \in 0 .. m /\ k - 1 \in 0 .. m /\ n + k = j /\ n + (k - 1) = j - 1 BY <3>1
    <3>3. h[n + k] = g[k] /\ h[n + (k - 1)] = g[k - 1] BY <3>2, <1>9
    <3>4. (q \o r)[j] = r[k] BY <2>2, <3>1, <1>7
    <3> QED BY <3>1, <3>2, <3>3, <3>4, <1>6
  <2> QED BY <2>1, <2>2
<1>12. ASSUME NEW i \in 0 .. n + m, NEW j \in 0 .. n + m, i <= j PROVE h[i].packets <= h[j].packets
  <2>1. n \in 0 .. n /\ 0 \in 0 .. m OBVIOUS
  <2>2. CASE j <= n
    <3>1. i \in 0 .. n /\ j \in 0 .. n BY <2>2, <1>12
    <3> QED BY <3>1, <1>5, <1>8, <1>12
  <2>3. CASE ~(j <= n)
    <3>1. PICK k \in 0 .. m : k = j - n BY <2>3
    <3>2. h[j] = g[k] /\ g[0].packets <= g[k].packets
      <4>1. n + k = j BY <3>1
      <4> QED BY <4>1, <2>1, <3>1, <1>6, <1>9
    <3>3. CASE i <= n
      <4>1. i \in 0 .. n BY <3>3
      <4>2. h[i] = f[i] /\ f[i].packets <= f[n].packets BY <4>1, <2>1, <1>5, <1>8
      <4>3. f[i] \in Place /\ f[n] \in Place /\ g[k] \in Place BY <4>1, <2>1, <3>1, <1>5, <1>6
      <4>4. f[i].packets \in Nat /\ f[n].packets \in Nat /\ g[k].packets \in Nat BY <4>3 DEF Place
      <4> QED BY <3>2, <4>2, <4>4, <1>5, <1>6
    <3>4. CASE ~(i <= n)
      <4>1. PICK l \in 0 .. m : l = i - n BY <3>4
      <4>2. n + l = i /\ l <= k BY <4>1, <3>1, <1>12
      <4>3. h[i] = g[l] BY <4>1, <4>2, <1>9
      <4> QED BY <4>1, <4>2, <4>3, <3>1, <3>2, <1>6
    <3> QED BY <3>3, <3>4
  <2> QED BY <2>2, <2>3
<1>13. Way(log, src, q \o r, n + m, a, z, h) BY <1>10, <1>11, <1>12 DEF Way
<1> QED BY <1>7, <1>13 DEF Line

LEMMA LineOfOne ==
    ASSUME NEW log, NEW src, NEW a \in Place, NEW w \in Word, IsNext(log, src, a, w)
    PROVE  Line(log, src, <<w>>, a, Past(a, w))
<1>1. PICK z \in Place : z = Past(a, w) /\ a.packets <= z.packets BY PastIs
<1>2. PICK f : f = [j \in 0 .. 1 |-> IF j = 0 THEN a ELSE z] OBVIOUS
<1>3. f \in [0 .. 1 -> Place] /\ f[0] = a /\ f[1] = z BY <1>2
<1>4. \A j \in 0 .. 1 : j = 0 \/ j = 1 OBVIOUS
<1>5. \A j \in 1 .. 1 : j = 1 /\ j - 1 = 0 OBVIOUS
<1>6. a.packets \in Nat /\ z.packets \in Nat BY DEF Place
<1>7. \A i, j \in 0 .. 1 : i <= j => f[i].packets <= f[j].packets BY <1>1, <1>3, <1>4, <1>6
<1>8. <<w>>[1] = w /\ Len(<<w>>) = 1 OBVIOUS
<1>9. \A j \in 1 .. 1 : IsNext(log, src, f[j - 1], <<w>>[j]) /\ f[j] = Past(f[j - 1], <<w>>[j])
  BY <1>1, <1>3, <1>5, <1>8
<1>10. Way(log, src, <<w>>, 1, a, z, f) BY <1>3, <1>7, <1>9 DEF Way
<1> QED BY <1>1, <1>8, <1>10 DEF Line

LEMMA LineGrows ==
    ASSUME NEW log, NEW src, NEW q \in Seq(Word), NEW a, NEW z, Line(log, src, q, a, z),
           NEW w \in Word, IsNext(log, src, z, w)
    PROVE  Line(log, src, Append(q, w), a, Past(z, w))
<1>1. z \in Place BY LineEnds
<1>2. Line(log, src, <<w>>, z, Past(z, w)) BY <1>1, LineOfOne
<1>3. <<w>> \in Seq(Word) /\ Append(q, w) = q \o <<w>> OBVIOUS
<1>4. Line(log, src, q \o <<w>>, a, Past(z, w)) BY <1>2, <1>3, LinesJoin
<1> QED BY <1>3, <1>4

(* The log and what is sent get longer, the queues stay what they are.     *)
Extends(src, longer) ==
    \A c \in Clients : Len(src[c]) <= Len(longer[c]) /\ \A i \in 1 .. Len(src[c]) : longer[c][i] = src[c][i]

LEMMA LineLonger ==
    ASSUME NEW log \in Seq(Packet), NEW e \in Packet,
           NEW src \in [Clients -> Seq(Word)], NEW longer \in [Clients -> Seq(Word)], Extends(src, longer),
           NEW q \in Seq(Word), NEW a, NEW z, Line(log, src, q, a, z)
    PROVE  Line(Append(log, e), longer, q, a, z)
<1>1. PICK f : Way(log, src, q, Len(q), a, z, f) BY DEF Line
<1>2. PICK n \in Nat : n = Len(q) OBVIOUS
<1>3. PICK l \in Nat : l = Len(log) OBVIOUS
<1>4. PICK more : more = Append(log, e) OBVIOUS
<1>5. Len(more) = l + 1 /\ \A k \in 1 .. l : more[k] = log[k] BY <1>3, <1>4
<1>6. ASSUME NEW p \in Place, NEW w, IsNext(log, src, p, w) PROVE IsNext(more, longer, p, w)
  <2>1. PICK c \in Clients, n1 \in Nat : IsNumber(log, src, p, w, c, n1) BY <1>6 DEF IsNext
  <2>2. p.packets \in Nat /\ p.words[c] \in Nat BY DEF Place
  <2>3. p.packets + 1 \in 1 .. l /\ p.packets < l BY <2>2, <1>3, <1>6 DEF IsNext
  <2>4. more[p.packets + 1] = log[p.packets + 1] BY <2>3, <1>5
  <2>5. n1 = p.words[c] + 1 /\ n1 <= Len(src[c]) /\ w = src[c][n1] BY <2>1 DEF IsNumber
  <2>6. src[c] \in Seq(Word) /\ longer[c] \in Seq(Word) OBVIOUS
  <2>7. n1 \in 1 .. Len(src[c]) BY <2>2, <2>5, <2>6
  <2>8. n1 <= Len(longer[c]) /\ longer[c][n1] = src[c][n1] BY <2>5, <2>6, <2>7 DEF Extends
  <2>9. IsNumber(more, longer, p, w, c, n1) BY <2>1, <2>4, <2>8 DEF IsNumber
  <2>10. p.packets < Len(more) BY <2>2, <2>3, <1>5
  <2> QED BY <2>9, <2>10 DEF IsNext
<1>7. /\ f \in [0 .. n -> Place] /\ f[0] = a /\ f[n] = z
      /\ \A j \in 1 .. n : IsNext(log, src, f[j - 1], q[j]) /\ f[j] = Past(f[j - 1], q[j])
      /\ \A i, j \in 0 .. n : i <= j => f[i].packets <= f[j].packets
  BY <1>1, <1>2 DEF Way
<1>8. ASSUME NEW j \in 1 .. n PROVE IsNext(more, longer, f[j - 1], q[j])
  <2>1. j - 1 \in 0 .. n OBVIOUS
  <2>2. f[j - 1] \in Place BY <2>1, <1>7
  <2> QED BY <2>2, <1>6, <1>7
<1>9. Way(more, longer, q, n, a, z, f) BY <1>7, <1>8 DEF Way
<1> QED BY <1>2, <1>4, <1>9 DEF Line

(* q is a whole packet of client c, n words, the one after place a.        *)
IsPacket(log, src, q, a, c, n) ==
    /\ Len(q) = n /\ a.packets < Len(log) /\ a.words[c] + n <= Len(src[c])
    /\ log[a.packets + 1].session = c /\ log[a.packets + 1].last = a.words[c] + n
    /\ \A i \in 1 .. n : q[i] = src[c][a.words[c] + i] /\ q[i].client = c /\ (q[i].last <=> i = n)

LEMMA LineOfPacket ==
    ASSUME NEW log \in Seq(Packet), NEW src \in [Clients -> Seq(Word)], NEW a \in Place, NEW c \in Clients,
           NEW n \in Nat, n > 0, NEW q \in Seq(Word), IsPacket(log, src, q, a, c, n)
    PROVE  \E z \in Place : /\ Line(log, src, q, a, z) /\ z.packets = a.packets + 1
                            /\ \A d \in Clients : z.words[d] = IF d = c THEN a.words[c] + n ELSE a.words[d]
<1> USE DEF IsPacket
<1>1. a.words \in [Clients -> Nat] /\ a.packets \in Nat /\ a.words[c] \in Nat
      /\ a = [words |-> a.words, packets |-> a.packets] BY DEF Place
<1>2. PICK u \in [Clients -> Nat], k \in Nat, b \in Nat : u = a.words /\ k = a.packets /\ b = a.words[c] BY <1>1
<1>3. PICK v : v = [j \in 0 .. n |-> [u EXCEPT ![c] = b + j]] OBVIOUS
<1>4. ASSUME NEW j \in 0 .. n PROVE v[j] \in [Clients -> Nat] /\ \A d \in Clients : v[j][d] = IF d = c THEN b + j ELSE u[d]
  <2>1. v[j] = [u EXCEPT ![c] = b + j] BY <1>3
  <2>2. b + j \in Nat OBVIOUS
  <2> QED BY <2>1, <2>2
<1>5. PICK f : f = [j \in 0 .. n |-> [words |-> v[j], packets |-> IF j = n THEN k + 1 ELSE k]] OBVIOUS
<1>6. ASSUME NEW j \in 0 .. n
      PROVE  f[j] \in Place /\ f[j].words = v[j] /\ f[j].packets = IF j = n THEN k + 1 ELSE k
  <2>1. f[j] = [words |-> v[j], packets |-> IF j = n THEN k + 1 ELSE k] BY <1>5
  <2>2. PICK o : o = f[j] OBVIOUS
  <2>3. o.words = v[j] /\ o.packets = IF j = n THEN k + 1 ELSE k BY <2>1, <2>2
  <2>4. o \in Place BY <2>1, <2>2, <1>4 DEF Place
  <2> QED BY <2>2, <2>3, <2>4
<1>7. f[0] = a
  <2>1. 0 \in 0 .. n /\ 0 # n OBVIOUS
  <2>2. v[0] \in [Clients -> Nat] /\ \A d \in Clients : v[0][d] = u[d]
    <3>1. \A d \in Clients : v[0][d] = IF d = c THEN b + 0 ELSE u[d] BY <2>1, <1>4
    <3>2. b + 0 = u[c] BY <1>2
    <3> QED BY <3>1, <3>2, <2>1, <1>4
  <2>3. v[0] = u BY <2>2
  <2>4. f[0] = [words |-> v[0], packets |-> k] BY <2>1, <1>5
  <2> QED BY <2>3, <2>4, <1>1, <1>2
<1>8. f \in [0 .. n -> Place] BY <1>5, <1>6
<1>9. ASSUME NEW j \in 1 .. n PROVE IsNext(log, src, f[j - 1], q[j]) /\ f[j] = Past(f[j - 1], q[j])
  <2>1. j - 1 \in 0 .. n /\ j \in 0 .. n /\ j - 1 # n /\ b + (j - 1) + 1 = b + j OBVIOUS
  <2>2. PICK p \in Place : p = f[j - 1] BY <2>1, <1>6
  <2>3. p.words = v[j - 1] /\ p.packets = k BY <2>1, <2>2, <1>6
  <2>4. p.words[c] = b + (j - 1) BY <2>1, <2>3, <1>4
  <2>5. q[j] = src[c][b + j] /\ q[j].client = c /\ (q[j].last <=> j = n) /\ q[j] \in Word BY <1>2
  <2>6. b + j <= Len(src[c])
    <3>1. PICK l \in Nat : l = Len(src[c]) OBVIOUS
    <3> QED BY <3>1, <1>2
  <2>7. q[j].last <=> b + j = log[k + 1].last
    <3>1. log[k + 1].last = b + n BY <1>2
    <3> QED BY <3>1, <2>5
  <2>8. IsNumber(log, src, p, q[j], c, b + j) BY <2>1, <2>3, <2>4, <2>5, <2>6, <2>7, <1>2 DEF IsNumber
  <2>9. IsNext(log, src, p, q[j])
    <3>1. b + j \in Nat /\ p.packets < Len(log) BY <2>3, <1>2
    <3> QED BY <3>1, <2>8 DEF IsNext
  <2>10. PICK y : y = [p.words EXCEPT ![q[j].client] = @ + 1] OBVIOUS
  <2>11. y = v[j]
    <3>1. v[j - 1] \in [Clients -> Nat] /\ \A d \in Clients : v[j - 1][d] = IF d = c THEN b + (j - 1) ELSE u[d] BY <2>1, <1>4
    <3>2. v[j] \in [Clients -> Nat] /\ \A d \in Clients : v[j][d] = IF d = c THEN b + j ELSE u[d] BY <2>1, <1>4
    <3>3. y = [v[j - 1] EXCEPT ![c] = v[j - 1][c] + 1] BY <2>3, <2>5, <2>10
    <3>4. v[j - 1][c] + 1 = b + j BY <2>1, <3>1
    <3>5. y \in [Clients -> Nat] /\ \A d \in Clients : y[d] = IF d = c THEN b + j ELSE u[d] BY <3>1, <3>3, <3>4
    <3>6. \A d \in Clients : y[d] = v[j][d] BY <3>2, <3>5
    <3>7. \A g, h \in [Clients -> Nat] : (\A d \in Clients : g[d] = h[d]) => g = h OBVIOUS
    <3> QED BY <3>2, <3>5, <3>6, <3>7
  <2>12. Past(p, q[j]) = [words |-> y, packets |-> IF q[j].last THEN k + 1 ELSE k] BY <2>3, <2>10 DEF Past
  <2>13. f[j] = [words |-> v[j], packets |-> IF j = n THEN k + 1 ELSE k] BY <2>1, <1>5
  <2> QED BY <2>2, <2>5, <2>9, <2>11, <2>12, <2>13
<1>10. ASSUME NEW i \in 0 .. n, NEW j \in 0 .. n, i <= j PROVE f[i].packets <= f[j].packets
  BY <1>6, <1>10
<1>11. n \in 0 .. n OBVIOUS
<1>12. PICK z \in Place : z = f[n] /\ z.words = v[n] /\ z.packets = k + 1 BY <1>6, <1>11
<1>13. Way(log, src, q, n, a, z, f) BY <1>7, <1>8, <1>9, <1>10, <1>12 DEF Way
<1>14. Line(log, src, q, a, z) BY <1>13 DEF Line
<1>15. \A d \in Clients : z.words[d] = IF d = c THEN a.words[c] + n ELSE a.words[d] BY <1>2, <1>4, <1>11, <1>12
<1> QED BY <1>2, <1>12, <1>14, <1>15

-----------------------------------------------------------------------------
(* Requests                                                                *)

LEMMA OrdersPop ==
    ASSUME NEW log \in Seq(Packet), NEW q \in Seq(Request), q # <<>>, NEW a \in Nat, NEW z \in Nat, Orders(log, q, a, z)
    PROVE  /\ Head(q) \in Request /\ Tail(q) \in Seq(Request) /\ Head(q).session = log[a + 1].session
           /\ a + 1 <= z /\ z <= Len(log) /\ Orders(log, Tail(q), a + 1, z)
<1>1. PICK n \in Nat : n = Len(q) /\ n > 0 OBVIOUS
<1>2. a + n = z /\ z <= Len(log) /\ \A j \in 1 .. n : q[j].session = log[a + j].session BY <1>1 DEF Orders
<1>3. /\ Head(q) \in Request /\ Head(q) = q[1] /\ Tail(q) \in Seq(Request) /\ Len(Tail(q)) = n - 1
      /\ \A j \in 1 .. n - 1 : Tail(q)[j] = q[j + 1]
  BY <1>1
<1>4. 1 \in 1 .. n BY <1>1
<1>5. ASSUME NEW j \in 1 .. n - 1 PROVE Tail(q)[j].session = log[(a + 1) + j].session
  <2>1. j + 1 \in 1 .. n /\ a + (j + 1) = (a + 1) + j OBVIOUS
  <2> QED BY <2>1, <1>2, <1>3
<1>6. (a + 1) + (n - 1) = z /\ a + 1 <= z
  <2>1. a + n = z BY <1>2
  <2> QED BY ONLY <2>1, <1>1, a \in Nat, z \in Nat
<1>7. Orders(log, Tail(q), a + 1, z) BY <1>2, <1>3, <1>5, <1>6 DEF Orders
<1> QED BY <1>2, <1>3, <1>4, <1>6, <1>7

LEMMA OrdersGrow ==
    ASSUME NEW log \in Seq(Packet), NEW q \in Seq(Request), NEW a \in Nat, NEW z \in Nat, Orders(log, q, a, z),
           NEW e, z + 1 <= Len(log), e.session = log[z + 1].session
    PROVE  Orders(log, Append(q, e), a, z + 1)
<1>1. PICK n \in Nat : n = Len(q) OBVIOUS
<1>2. a + n = z /\ \A j \in 1 .. n : q[j].session = log[a + j].session BY <1>1 DEF Orders
<1>3. Len(Append(q, e)) = n + 1 /\ Append(q, e)[n + 1] = e /\ \A j \in 1 .. n : Append(q, e)[j] = q[j] BY <1>1
<1>4. a + (n + 1) = z + 1 BY <1>2
<1>5. ASSUME NEW j \in 1 .. n + 1 PROVE Append(q, e)[j].session = log[a + j].session
  <2>1. j = n + 1 \/ j \in 1 .. n OBVIOUS
  <2> QED BY <2>1, <1>2, <1>3, <1>4
<1> QED BY <1>3, <1>4, <1>5 DEF Orders

LEMMA OrdersLonger ==
    ASSUME NEW log \in Seq(Packet), NEW e \in Packet, NEW q \in Seq(Request), NEW a \in Nat, NEW z \in Nat, Orders(log, q, a, z)
    PROVE  Orders(Append(log, e), q, a, z)
<1>1. PICK n \in Nat, l \in Nat : n = Len(q) /\ l = Len(log) OBVIOUS
<1>2. a + n = z /\ z <= l /\ \A j \in 1 .. n : q[j].session = log[a + j].session BY <1>1 DEF Orders
<1>3. Len(Append(log, e)) = l + 1 /\ \A k \in 1 .. l : Append(log, e)[k] = log[k] BY <1>1
<1>4. \A j \in 1 .. n : a + j \in 1 .. l BY <1>2
<1> QED BY <1>1, <1>2, <1>3, <1>4 DEF Orders

LEMMA NoticesEnds ==
    ASSUME NEW log \in Seq(Packet), NEW q \in Seq(Request), NEW a, NEW z, Notices(log, q, a, z)
    PROVE  a \in Nat /\ z \in Nat
<1>1. PICK f : Counts(log, q, Len(q), a, z, f) BY DEF Notices
<1>2. PICK n \in Nat : n = Len(q) OBVIOUS
<1>3. 0 \in 0 .. n /\ n \in 0 .. n OBVIOUS
<1> QED BY <1>1, <1>2, <1>3 DEF Counts

LEMMA NoNotices ==
    ASSUME NEW log, NEW a \in Nat
    PROVE  Notices(log, <<>>, a, a)
<1>1. PICK f : f = [j \in 0 .. 0 |-> a] OBVIOUS
<1>2. f \in [0 .. 0 -> Nat] /\ f[0] = a /\ Len(<<>>) = 0 BY <1>1
<1>3. Counts(log, <<>>, 0, a, a, f) BY <1>2 DEF Counts
<1> QED BY <1>2, <1>3 DEF Notices

LEMMA NoticesPop ==
    ASSUME NEW log \in Seq(Packet), NEW q \in Seq(Request), q # <<>>, NEW a, NEW z, Notices(log, q, a, z)
    PROVE  /\ Head(q) \in Request /\ Tail(q) \in Seq(Request)
           /\ Head(q).length = 0 => Notices(log, Tail(q), a, z)
           /\ Head(q).length # 0 => /\ a + 1 <= Len(log) /\ Head(q).session = log[a + 1].session
                                    /\ Notices(log, Tail(q), a + 1, z)
<1>1. PICK f : Counts(log, q, Len(q), a, z, f) BY DEF Notices
<1>2. PICK n \in Nat : n = Len(q) /\ n > 0 OBVIOUS
<1>3. /\ f \in [0 .. n -> Nat] /\ f[0] = a /\ f[n] = z
      /\ \A j \in 1 .. n : IF q[j].length = 0 THEN f[j] = f[j - 1]
                           ELSE f[j] = f[j - 1] + 1 /\ f[j] <= Len(log) /\ q[j].session = log[f[j]].session
  BY <1>1, <1>2 DEF Counts
<1>4. PICK h \in Request : h = Head(q) /\ h = q[1] BY <1>2
<1>5. Tail(q) \in Seq(Request) /\ Len(Tail(q)) = n - 1 /\ \A j \in 1 .. n - 1 : Tail(q)[j] = q[j + 1] BY <1>2
<1>6. IF h.length = 0 THEN f[1] = a ELSE f[1] = a + 1 /\ f[1] <= Len(log) /\ h.session = log[f[1]].session
  <2>1. 1 \in 1 .. n /\ 1 - 1 = 0 BY <1>2
  <2> QED BY <2>1, <1>3, <1>4
<1>7. PICK g : g = [j \in 0 .. n - 1 |-> f[j + 1]] OBVIOUS
<1>8. g \in [0 .. n - 1 -> Nat] /\ g[0] = f[1] /\ g[n - 1] = z
  <2>1. \A j \in 0 .. n - 1 : j + 1 \in 0 .. n OBVIOUS
  <2>2. 0 \in 0 .. n - 1 /\ n - 1 \in 0 .. n - 1 /\ (n - 1) + 1 = n /\ 0 + 1 = 1 BY <1>2
  <2> QED BY <2>1, <2>2, <1>3, <1>7
<1>9. ASSUME NEW j \in 1 .. n - 1
      PROVE  IF Tail(q)[j].length = 0 THEN g[j] = g[j - 1]
             ELSE g[j] = g[j - 1] + 1 /\ g[j] <= Len(log) /\ Tail(q)[j].session = log[g[j]].session
  <2>1. j + 1 \in 1 .. n /\ (j + 1) - 1 = j /\ j \in 0 .. n - 1 /\ j - 1 \in 0 .. n - 1 /\ (j - 1) + 1 = j OBVIOUS
  <2>2. g[j] = f[j + 1] /\ g[j - 1] = f[j] BY <2>1, <1>7
  <2>3. IF q[j + 1].length = 0 THEN f[j + 1] = f[(j + 1) - 1]
        ELSE f[j + 1] = f[(j + 1) - 1] + 1 /\ f[j + 1] <= Len(log) /\ q[j + 1].session = log[f[j + 1]].session
    BY <2>1, <1>3
  <2> QED BY <2>1, <2>2, <2>3, <1>5
<1>10. Counts(log, Tail(q), n - 1, f[1], z, g) BY <1>8, <1>9 DEF Counts
<1>11. Notices(log, Tail(q), f[1], z) BY <1>5, <1>10 DEF Notices
<1> QED BY <1>4, <1>5, <1>6, <1>11

LEMMA NoticesGrow ==
    ASSUME NEW log \in Seq(Packet), NEW q \in Seq(Request), NEW a, NEW z, Notices(log, q, a, z),
           NEW e, NEW y \in Nat,
           IF e.length = 0 THEN y = z ELSE y = z + 1 /\ y <= Len(log) /\ e.session = log[y].session
    PROVE  Notices(log, Append(q, e), a, y)
<1>1. PICK f : Counts(log, q, Len(q), a, z, f) BY DEF Notices
<1>2. PICK n \in Nat : n = Len(q) OBVIOUS
<1>3. /\ f \in [0 .. n -> Nat] /\ f[0] = a /\ f[n] = z
      /\ \A j \in 1 .. n : IF q[j].length = 0 THEN f[j] = f[j - 1]
                           ELSE f[j] = f[j - 1] + 1 /\ f[j] <= Len(log) /\ q[j].session = log[f[j]].session
  BY <1>1, <1>2 DEF Counts
<1>4. PICK r : r = Append(q, e) OBVIOUS
<1>5. Len(r) = n + 1 /\ r[n + 1] = e /\ \A j \in 1 .. n : r[j] = q[j] BY <1>2, <1>4
<1>6. PICK g : g = [j \in 0 .. n + 1 |-> IF j <= n THEN f[j] ELSE y] OBVIOUS
<1>7. g \in [0 .. n + 1 -> Nat] /\ g[n + 1] = y /\ \A j \in 0 .. n : g[j] = f[j]
  <2>1. \A j \in 0 .. n + 1 : j <= n => j \in 0 .. n OBVIOUS
  <2>2. n + 1 \in 0 .. n + 1 /\ ~(n + 1 <= n) OBVIOUS
  <2>3. \A j \in 0 .. n : j \in 0 .. n + 1 /\ j <= n OBVIOUS
  <2> QED BY <2>1, <2>2, <2>3, <1>3, <1>6
<1>8. 0 \in 0 .. n /\ n \in 0 .. n /\ (n + 1) - 1 = n OBVIOUS
<1>9. ASSUME NEW j \in 1 .. n + 1
      PROVE  IF r[j].length = 0 THEN g[j] = g[j - 1]
             ELSE g[j] = g[j - 1] + 1 /\ g[j] <= Len(log) /\ r[j].session = log[g[j]].session
  <2>1. CASE j = n + 1 BY <2>1, <1>3, <1>5, <1>7, <1>8
  <2>2. CASE j # n + 1
    <3>1. j \in 1 .. n /\ j \in 0 .. n /\ j - 1 \in 0 .. n BY <2>2
    <3>2. g[j] = f[j] /\ g[j - 1] = f[j - 1] /\ r[j] = q[j] BY <3>1, <1>5, <1>7
    <3> QED BY <3>1, <3>2, <1>3
  <2> QED BY <2>1, <2>2
<1>10. Counts(log, r, n + 1, a, y, g) BY <1>3, <1>7, <1>8, <1>9 DEF Counts
<1> QED BY <1>4, <1>5, <1>10 DEF Notices

LEMMA NoticesLonger ==
    ASSUME NEW log \in Seq(Packet), NEW e \in Packet, NEW q \in Seq(Request), NEW a, NEW z, Notices(log, q, a, z)
    PROVE  Notices(Append(log, e), q, a, z)
<1>1. PICK f : Counts(log, q, Len(q), a, z, f) BY DEF Notices
<1>2. PICK n \in Nat, l \in Nat : n = Len(q) /\ l = Len(log) OBVIOUS
<1>3. /\ f \in [0 .. n -> Nat] /\ f[0] = a /\ f[n] = z
      /\ \A j \in 1 .. n : IF q[j].length = 0 THEN f[j] = f[j - 1]
                           ELSE f[j] = f[j - 1] + 1 /\ f[j] <= l /\ q[j].session = log[f[j]].session
  BY <1>1, <1>2 DEF Counts
<1>4. PICK more : more = Append(log, e) OBVIOUS
<1>5. more = Append(log, e) /\ Len(more) = l + 1 /\ \A k \in 1 .. l : more[k] = log[k] BY <1>2, <1>4
<1>6. ASSUME NEW j \in 1 .. n
      PROVE  IF q[j].length = 0 THEN f[j] = f[j - 1]
             ELSE f[j] = f[j - 1] + 1 /\ f[j] <= Len(more) /\ q[j].session = more[f[j]].session
  <2>1. j \in 0 .. n /\ j - 1 \in 0 .. n OBVIOUS
  <2>2. f[j] \in Nat /\ f[j - 1] \in Nat BY <2>1, <1>3
  <2>3. f[j] = f[j - 1] + 1 /\ f[j] <= l => f[j] \in 1 .. l /\ f[j] <= l + 1 BY <2>2
  <2> QED BY <2>3, <1>3, <1>5
<1>7. Counts(more, q, n, a, z, f) BY <1>3, <1>6 DEF Counts
<1> QED BY <1>2, <1>5, <1>7 DEF Notices

-----------------------------------------------------------------------------
(* The inductive invariant                                                 *)

Types ==
    /\ notifQ \in Seq(Request) /\ rxMetaQ \in Seq(Request) /\ txMetaQ \in Seq(Request)
    /\ readQ \in Seq(Request) /\ grantedQ \in Seq(Request)
    /\ rxQ \in Seq(Word) /\ txQ \in Seq(Word) /\ dataQ \in Seq(Word) /\ storeQ \in Seq(Word)
    /\ statusQ \in Seq({0})
    /\ open \subseteq Clients
    /\ sent \in [Clients -> Seq(Word)] /\ echoed \in [Clients -> Seq(Word)]

EchoInv ==
    \A c \in Clients :
        /\ Len(echoed[c]) <= Len(sent[c])
        /\ \A i \in 1 .. Len(echoed[c]) : echoed[c][i] = sent[c][i]

(* The clients of the packets that are not echoed are open, so that no     *)
(* request of theirs is refused.                                           *)
LogInv(log, t) ==
    /\ \A k \in 1 .. Len(log) : log[k].last <= Len(sent[log[k].session])
    /\ \A i, k \in 1 .. Len(log) : i < k /\ log[i].session = log[k].session => log[i].last < log[k].last
    /\ \A k \in 1 .. Len(log) :
         k > t.packets => log[k].session \in open /\ t.words[log[k].session] < log[k].last

(* Where the toe (t), pkt_sender (d), the wires between the two modules    *)
(* (x), the delivery (m) and the clients (s) stand.                        *)
WordsInv(log, t, d, x, m, s) ==
    /\ Line(log, sent, dataQ, t, d) /\ Line(log, sent, txQ, d, x)
    /\ Line(log, sent, rxQ, x, m) /\ Line(log, sent, storeQ, m, s)
    /\ s.packets = Len(log)
    /\ \A c \in Clients : t.words[c] = Len(echoed[c]) /\ s.words[c] = Len(sent[c])

(* Which packets are granted (up to g), and asked for by pkt_receiver (r). *)
RequestsInv(log, t, x, m, g, r) ==
    /\ Orders(log, grantedQ, t.packets, g) /\ Orders(log, txMetaQ, g, x.packets) /\ Orders(log, rxMetaQ, x.packets, r)
    /\ Notices(log, notifQ, r, Len(log))
    /\ Len(readQ) + m.packets = r

QueuesInv ==
    \E log \in Seq(Packet), t, d, x, m, s \in Place, g, r \in Nat :
        WordsInv(log, t, d, x, m, s) /\ RequestsInv(log, t, x, m, g, r) /\ LogInv(log, t)

IInv == Served /\ Types /\ EchoInv /\ QueuesInv

LEMMA InitInv == Served /\ Init => IInv
<1> SUFFICES ASSUME Served, Init PROVE IInv OBVIOUS
<1> USE DEF Init, ServiceInit
<1>1. PICK none : none = [c \in Clients |-> <<>>] OBVIOUS
<1>2. sent = none /\ echoed = none /\ none \in [Clients -> Seq(Word)] /\ \A c \in Clients : Len(none[c]) = 0 BY <1>1
<1>3. Types BY <1>2 DEF Types
<1>4. EchoInv BY <1>2 DEF EchoInv
<1>5. PICK w : w = [c \in Clients |-> 0] OBVIOUS
<1>6. w \in [Clients -> Nat] /\ \A c \in Clients : w[c] = 0 BY <1>5
<1>7. PICK o : o = [words |-> w, packets |-> 0] OBVIOUS
<1>8. o.words = w /\ o.packets = 0 /\ o \in Place BY <1>6, <1>7 DEF Place
<1>9. <<>> \in Seq(Packet) /\ Len(<<>>) = 0 OBVIOUS
<1>10. PICK log \in Seq(Packet) : log = <<>> /\ Len(log) = 0 BY <1>9
<1>11. Line(log, sent, <<>>, o, o) BY <1>8, NoLine
<1>12. WordsInv(log, o, o, o, o, o) BY <1>2, <1>6, <1>8, <1>10, <1>11 DEF WordsInv
<1>13. Orders(log, <<>>, 0, 0) BY <1>9, <1>10 DEF Orders
<1>14. Notices(log, <<>>, 0, 0) BY NoNotices
<1>15. RequestsInv(log, o, o, o, 0, 0) BY <1>8, <1>9, <1>10, <1>13, <1>14 DEF RequestsInv
<1>16. LogInv(log, o) BY <1>10 DEF LogInv
<1>17. QueuesInv BY <1>8, <1>12, <1>15, <1>16 DEF QueuesInv
<1> QED BY <1>3, <1>4, <1>17 DEF IInv

-----------------------------------------------------------------------------
(* The kernel                                                              *)

LEMMA NothingIsRefused ==
    ASSUME Types
    PROVE  ~Refused
<1>1. statusQ \in Seq({0}) BY DEF Types
<1>2. statusQ # <<>> => Head(statusQ) \in {0} BY <1>1
<1> QED BY <1>2 DEF Refused, Valid

LEMMA ClockKeeps ==
    ASSUME IInv, Clock
    PROVE  IInv'
<1> USE DEF IInv
<1>1. /\ notifQ \in Seq(Request) /\ rxMetaQ \in Seq(Request) /\ txMetaQ \in Seq(Request) /\ readQ \in Seq(Request)
      /\ rxQ \in Seq(Word) /\ txQ \in Seq(Word) /\ dataQ \in Seq(Word) /\ statusQ \in Seq({0})
  BY DEF Types
<1>2. PICK log \in Seq(Packet), t \in Place, d \in Place, x \in Place, m \in Place, s \in Place, g \in Nat, r \in Nat :
        WordsInv(log, t, d, x, m, s) /\ RequestsInv(log, t, x, m, g, r) /\ LogInv(log, t)
  BY DEF QueuesInv
<1>3. /\ Line(log, sent, dataQ, t, d) /\ Line(log, sent, txQ, d, x) /\ Line(log, sent, rxQ, x, m)
      /\ Line(log, sent, storeQ, m, s) /\ s.packets = Len(log)
      /\ \A c \in Clients : t.words[c] = Len(echoed[c]) /\ s.words[c] = Len(sent[c])
  BY <1>2 DEF WordsInv
<1>4. /\ Orders(log, grantedQ, t.packets, g) /\ Orders(log, txMetaQ, g, x.packets) /\ Orders(log, rxMetaQ, x.packets, r)
      /\ Notices(log, notifQ, r, Len(log)) /\ Len(readQ) + m.packets = r
  BY <1>2 DEF RequestsInv
<1>5. ~Refused BY NothingIsRefused
<1>6. PICK q : q = Popped(txQ, TakesWord) OBVIOUS
<1>7. /\ notifQ' = Popped(notifQ, Discards \/ Requests)
      /\ readQ' = (IF Requests THEN Append(readQ, Head(notifQ)) ELSE readQ)
      /\ rxMetaQ' = (IF Requests THEN Append(Popped(rxMetaQ, MovesLast), Head(notifQ)) ELSE Popped(rxMetaQ, MovesLast))
      /\ rxQ' = Popped(rxQ, Moves)
      /\ txQ' = (IF Moves THEN Append(q, Head(rxQ)) ELSE q)
      /\ txMetaQ' = (IF MovesLast THEN Append(txMetaQ, Head(rxMetaQ)) ELSE txMetaQ)
      /\ statusQ' = Popped(statusQ, TakesStatus)
      /\ dataQ' = (IF HandsWord THEN Append(dataQ, Head(txQ)) ELSE dataQ)
      /\ storeQ' = storeQ /\ grantedQ' = grantedQ /\ open' = open /\ sent' = sent /\ echoed' = echoed
  BY <1>6 DEF Clock
<1>8. PICK e \in Place : Line(log, sent, dataQ', t, e) /\ Line(log, sent, q, e, x) /\ q \in Seq(Word) /\ dataQ' \in Seq(Word)
  <2>1. CASE HandsWord
    <3>1. hold /\ txQ # <<>> BY <2>1 DEF HandsWord, Valid
    <3>2. q = Tail(txQ) BY <3>1, <1>6 DEF Popped, TakesWord, Valid
    <3>3. PICK w : w = Head(txQ) OBVIOUS
    <3>4. w \in Word /\ IsNext(log, sent, d, w) /\ Past(d, w) \in Place /\ Line(log, sent, q, Past(d, w), x) /\ q \in Seq(Word)
      BY <3>1, <3>2, <3>3, <1>1, <1>3, LinePops
    <3>5. Line(log, sent, Append(dataQ, w), t, Past(d, w)) BY <3>4, <1>1, <1>3, LineGrows
    <3> QED BY <2>1, <3>3, <3>4, <3>5, <1>1, <1>7
  <2>2. CASE ~HandsWord
    <3>1. q = txQ BY <2>2, <1>5, <1>6 DEF HandsWord, Popped, TakesWord
    <3> QED BY <2>2, <3>1, <1>1, <1>3, <1>7
  <2> QED BY <2>1, <2>2
<1>9. PICK y \in Place :
        /\ Line(log, sent, txQ', e, y) /\ Line(log, sent, rxQ', y, m) /\ txQ' \in Seq(Word) /\ rxQ' \in Seq(Word)
        /\ y.packets = IF MovesLast THEN x.packets + 1 ELSE x.packets
  <2>1. CASE Moves
    <3>1. rxQ # <<>> BY <2>1 DEF Moves, Valid
    <3>2. rxQ' = Tail(rxQ) BY <2>1, <3>1, <1>7 DEF Popped, Valid
    <3>3. PICK w : w = Head(rxQ) OBVIOUS
    <3>4. w \in Word /\ IsNext(log, sent, x, w) /\ Past(x, w) \in Place /\ Line(log, sent, rxQ', Past(x, w), m) /\ rxQ' \in Seq(Word)
      BY <3>1, <3>2, <3>3, <1>1, <1>3, LinePops
    <3>5. Line(log, sent, Append(q, w), e, Past(x, w)) BY <3>4, <1>8, LineGrows
    <3>6. txQ' = Append(q, w) /\ Append(q, w) \in Seq(Word) BY <2>1, <3>3, <3>4, <1>7, <1>8
    <3>7. Past(x, w).packets = IF w.last THEN x.packets + 1 ELSE x.packets BY <3>4, PastIs
    <3>8. MovesLast <=> w.last BY <2>1, <3>3 DEF MovesLast
    <3> QED BY <3>4, <3>5, <3>6, <3>7, <3>8
  <2>2. CASE ~Moves
    <3>1. rxQ' = rxQ /\ txQ' = q /\ ~MovesLast BY <2>2, <1>7 DEF Popped, MovesLast
    <3> QED BY <3>1, <1>1, <1>3, <1>8
  <2> QED BY <2>1, <2>2
<1>10. x.packets \in Nat /\ y.packets \in Nat /\ m.packets \in Nat /\ y.packets <= m.packets BY <1>9, LineEnds DEF Place
<1>11. PICK p : p = Popped(rxMetaQ, MovesLast) OBVIOUS
<1>12. /\ Orders(log, txMetaQ', g, y.packets) /\ txMetaQ' \in Seq(Request)
       /\ Orders(log, p, y.packets, r) /\ p \in Seq(Request)
  <2>1. CASE MovesLast
    <3>1. PICK l \in Nat : l = Len(readQ) BY <1>1
    <3>2. r >= x.packets + 1 BY <2>1, <3>1, <1>4, <1>9, <1>10
    <3>3. PICK k \in Nat : k = Len(rxMetaQ) BY <1>1
    <3>4. x.packets + k = r BY <3>3, <1>4 DEF Orders
    <3>5. k > 0 BY <3>2, <3>4, <1>10
    <3>6. rxMetaQ # <<>> BY <3>3, <3>5
    <3>7. p = Tail(rxMetaQ) BY <2>1, <3>6, <1>11 DEF Popped, Valid
    <3>8. PICK h : h = Head(rxMetaQ) OBVIOUS
    <3>9. /\ h \in Request /\ p \in Seq(Request) /\ h.session = log[x.packets + 1].session
          /\ x.packets + 1 <= r /\ r <= Len(log) /\ Orders(log, p, x.packets + 1, r)
      <4>1. rxMetaQ \in Seq(Request) /\ x.packets \in Nat /\ Orders(log, rxMetaQ, x.packets, r) BY <1>1, <1>4, <1>10
      <4>2. /\ Head(rxMetaQ) \in Request /\ Tail(rxMetaQ) \in Seq(Request)
            /\ Head(rxMetaQ).session = log[x.packets + 1].session
            /\ x.packets + 1 <= r /\ r <= Len(log) /\ Orders(log, Tail(rxMetaQ), x.packets + 1, r)
        BY ONLY <4>1, <3>6, log \in Seq(Packet), r \in Nat, OrdersPop
      <4> QED BY <4>2, <3>7, <3>8
    <3>10. x.packets + 1 <= Len(log) BY <3>9, <1>10
    <3>11. Orders(log, Append(txMetaQ, h), g, x.packets + 1) BY <3>9, <3>10, <1>1, <1>4, <1>10, OrdersGrow
    <3>12. txMetaQ' = Append(txMetaQ, h) /\ Append(txMetaQ, h) \in Seq(Request) BY <2>1, <3>8, <3>9, <1>1, <1>7
    <3> QED BY <2>1, <3>9, <3>11, <3>12, <1>9
  <2>2. CASE ~MovesLast
    <3>1. p = rxMetaQ /\ txMetaQ' = txMetaQ BY <2>2, <1>7, <1>11 DEF Popped
    <3> QED BY <2>2, <3>1, <1>1, <1>4, <1>9
  <2> QED BY <2>1, <2>2
<1>13. PICK z \in Nat :
         /\ Orders(log, rxMetaQ', y.packets, z) /\ Notices(log, notifQ', z, Len(log)) /\ Len(readQ') + m.packets = z
         /\ rxMetaQ' \in Seq(Request) /\ notifQ' \in Seq(Request) /\ readQ' \in Seq(Request)
  <2>1. CASE notifQ = <<>>
    <3>1. ~Requests /\ notifQ' = notifQ BY <2>1, <1>7 DEF Requests, Popped, Valid
    <3> QED BY <3>1, <1>1, <1>4, <1>7, <1>11, <1>12
  <2>2. CASE notifQ # <<>>
    <3>1. PICK h : h = Head(notifQ) OBVIOUS
    <3>2. /\ h \in Request /\ Tail(notifQ) \in Seq(Request)
          /\ h.length = 0 => Notices(log, Tail(notifQ), r, Len(log))
          /\ h.length # 0 => /\ r + 1 <= Len(log) /\ h.session = log[r + 1].session
                             /\ Notices(log, Tail(notifQ), r + 1, Len(log))
      BY <2>2, <3>1, <1>1, <1>4, NoticesPop
    <3>3. CASE Discards
      <4>1. ~Requests /\ h.length = 0 /\ notifQ' = Tail(notifQ) BY <2>2, <3>1, <3>3, <1>7 DEF Requests, Discards, Popped, Valid
      <4> QED BY <3>2, <4>1, <1>1, <1>4, <1>7, <1>11, <1>12
    <3>4. CASE Requests
      <4>1. h.length # 0 /\ notifQ' = Tail(notifQ) BY <2>2, <3>1, <3>4, <1>7 DEF Requests, Discards, Popped, Valid
      <4>2. rxMetaQ' = Append(p, h) /\ readQ' = Append(readQ, h) BY <3>1, <3>4, <1>7, <1>11
      <4>3. Orders(log, Append(p, h), y.packets, r + 1) BY <3>2, <4>1, <1>10, <1>12, OrdersGrow
      <4>4. Len(Append(readQ, h)) + m.packets = r + 1
        <5>1. PICK l \in Nat : l = Len(readQ) /\ Len(Append(readQ, h)) = l + 1 BY <1>1
        <5>2. PICK b \in Nat : b = m.packets BY <1>10
        <5>3. l + b = r BY <5>1, <5>2, <1>4
        <5>4. (l + 1) + b = r + 1 BY <5>3
        <5> QED BY <5>1, <5>2, <5>4
      <4>5. Append(p, h) \in Seq(Request) /\ Append(readQ, h) \in Seq(Request) BY <3>2, <1>1, <1>12
      <4> QED BY <3>2, <4>1, <4>2, <4>3, <4>4, <4>5
    <3>5. CASE ~Discards /\ ~Requests
      <4>1. notifQ' = notifQ BY <3>5, <1>7 DEF Popped
      <4> QED BY <3>5, <4>1, <1>1, <1>4, <1>7, <1>11, <1>12
    <3> QED BY <3>3, <3>4, <3>5
  <2> QED BY <2>1, <2>2
<1>14. Types'
  <2>1. statusQ' \in Seq({0})
    <3>1. statusQ # <<>> => Tail(statusQ) \in Seq({0}) BY <1>1
    <3> QED BY <3>1, <1>1, <1>7 DEF Popped, Valid
  <2> QED BY <2>1, <1>7, <1>8, <1>9, <1>12, <1>13 DEF Types
<1>15. EchoInv' BY <1>7 DEF EchoInv
<1>16. QueuesInv'
  <2>1. WordsInv(log, t, e, y, m, s)' BY <1>3, <1>7, <1>8, <1>9 DEF WordsInv
  <2>2. RequestsInv(log, t, y, m, g, z)' BY <1>4, <1>7, <1>12, <1>13 DEF RequestsInv
  <2>3. LogInv(log, t)' BY <1>2, <1>7 DEF LogInv
  <2> QED BY <2>1, <2>2, <2>3 DEF QueuesInv
<1> QED BY <1>14, <1>15, <1>16 DEF Served


-----------------------------------------------------------------------------
(* The toe                                                                 *)

LEMMA ToeDeliverKeeps ==
    ASSUME IInv, ToeDeliver
    PROVE  IInv'
<1> USE DEF IInv
<1>1. storeQ \in Seq(Word) /\ rxQ \in Seq(Word) /\ readQ \in Seq(Request) BY DEF Types
<1>2. PICK log \in Seq(Packet), t \in Place, d \in Place, x \in Place, m \in Place, s \in Place, g \in Nat, r \in Nat :
        WordsInv(log, t, d, x, m, s) /\ RequestsInv(log, t, x, m, g, r) /\ LogInv(log, t)
  BY DEF QueuesInv
<1>3. /\ Line(log, sent, dataQ, t, d) /\ Line(log, sent, txQ, d, x) /\ Line(log, sent, rxQ, x, m)
      /\ Line(log, sent, storeQ, m, s) /\ s.packets = Len(log)
      /\ \A c \in Clients : t.words[c] = Len(echoed[c]) /\ s.words[c] = Len(sent[c])
  BY <1>2 DEF WordsInv
<1>4. Len(readQ) + m.packets = r BY <1>2 DEF RequestsInv
<1>5. PICK w : w = Head(storeQ) OBVIOUS
<1>6. /\ readQ # <<>> /\ storeQ # <<>>
      /\ rxQ' = Append(rxQ, w) /\ storeQ' = Tail(storeQ) /\ readQ' = IF w.last THEN Tail(readQ) ELSE readQ
      /\ notifQ' = notifQ /\ rxMetaQ' = rxMetaQ /\ txQ' = txQ /\ txMetaQ' = txMetaQ /\ statusQ' = statusQ
      /\ grantedQ' = grantedQ /\ dataQ' = dataQ /\ open' = open /\ sent' = sent /\ echoed' = echoed
  BY <1>5 DEF ToeDeliver, Popped, Valid
<1>7. w \in Word /\ IsNext(log, sent, m, w) /\ storeQ' \in Seq(Word) /\ Line(log, sent, storeQ', Past(m, w), s)
  BY <1>1, <1>3, <1>5, <1>6, LinePops
<1>8. PICK o \in Place : o = Past(m, w) BY <1>7, PastIs
<1>9. o.packets = (IF w.last THEN m.packets + 1 ELSE m.packets) /\ m.packets \in Nat BY <1>7, <1>8, PastIs
<1>10. Line(log, sent, rxQ', x, o) BY <1>1, <1>3, <1>6, <1>7, <1>8, LineGrows
<1>11. readQ' \in Seq(Request) /\ Len(readQ') + o.packets = r
  <2>1. PICK l \in Nat : l = Len(readQ) BY <1>1
  <2>2. Tail(readQ) \in Seq(Request) /\ Len(Tail(readQ)) = l - 1 BY <2>1, <1>1, <1>6
  <2>3. l + m.packets = r /\ m.packets \in Nat BY <2>1, <1>4, <1>9
  <2>4. (l - 1) + (m.packets + 1) = r BY <2>3
  <2>5. CASE w.last
    <3>1. readQ' = Tail(readQ) /\ o.packets = m.packets + 1 BY <2>5, <1>6, <1>9
    <3>2. Len(readQ') + o.packets = (l - 1) + (m.packets + 1) BY <3>1, <2>2
    <3> QED BY <3>1, <3>2, <2>2, <2>4
  <2>6. CASE ~w.last
    <3>1. readQ' = readQ /\ o.packets = m.packets BY <2>6, <1>6, <1>9
    <3> QED BY <3>1, <1>1, <1>4
  <2> QED BY <2>5, <2>6
<1>12. Types' BY <1>1, <1>6, <1>7, <1>11 DEF Types
<1>13. EchoInv' BY <1>6 DEF EchoInv
<1>14. QueuesInv'
  <2>1. WordsInv(log, t, d, x, o, s)' BY <1>3, <1>6, <1>7, <1>8, <1>10 DEF WordsInv
  <2>2. RequestsInv(log, t, x, o, g, r)' BY <1>2, <1>6, <1>11 DEF RequestsInv
  <2>3. LogInv(log, t)' BY <1>2, <1>6 DEF LogInv
  <2> QED BY <2>1, <2>2, <2>3 DEF QueuesInv
<1> QED BY <1>12, <1>13, <1>14 DEF Served

(* The client of the first request that is not granted is open.            *)
LEMMA ToeAnswerKeeps ==
    ASSUME IInv, ToeAnswer
    PROVE  IInv'
<1> USE DEF IInv
<1>1. txMetaQ \in Seq(Request) /\ grantedQ \in Seq(Request) /\ statusQ \in Seq({0}) BY DEF Types
<1>2. PICK log \in Seq(Packet), t \in Place, d \in Place, x \in Place, m \in Place, s \in Place, g \in Nat, r \in Nat :
        WordsInv(log, t, d, x, m, s) /\ RequestsInv(log, t, x, m, g, r) /\ LogInv(log, t)
  BY DEF QueuesInv
<1>3. /\ Orders(log, grantedQ, t.packets, g) /\ Orders(log, txMetaQ, g, x.packets) /\ Orders(log, rxMetaQ, x.packets, r)
      /\ Notices(log, notifQ, r, Len(log)) /\ Len(readQ) + m.packets = r
  BY <1>2 DEF RequestsInv
<1>4. t.packets \in Nat /\ x.packets \in Nat BY DEF Place
<1>5. txMetaQ # <<>> BY DEF ToeAnswer
<1>6. PICK h : h = Head(txMetaQ) OBVIOUS
<1>7. /\ h \in Request /\ Tail(txMetaQ) \in Seq(Request) /\ h.session = log[g + 1].session
      /\ g + 1 <= x.packets /\ x.packets <= Len(log) /\ Orders(log, Tail(txMetaQ), g + 1, x.packets)
  BY <1>1, <1>3, <1>4, <1>5, <1>6, OrdersPop
<1>8. g + 1 \in 1 .. Len(log) /\ g + 1 > t.packets
  <2>1. PICK l \in Nat, n \in Nat : l = Len(log) /\ n = Len(grantedQ) BY <1>1
  <2>2. t.packets + n = g BY <2>1, <1>3 DEF Orders
  <2> QED BY <2>1, <2>2, <1>4, <1>7
<1>9. h.session \in open BY <1>2, <1>7, <1>8 DEF LogInv
<1>10. /\ statusQ' = Append(statusQ, 0) /\ grantedQ' = Append(grantedQ, h) /\ txMetaQ' = Tail(txMetaQ)
       /\ notifQ' = notifQ /\ rxMetaQ' = rxMetaQ /\ rxQ' = rxQ /\ txQ' = txQ /\ readQ' = readQ /\ storeQ' = storeQ
       /\ dataQ' = dataQ /\ open' = open /\ sent' = sent /\ echoed' = echoed
  <2>1. PICK error \in (IF h.session \notin open THEN {1} ELSE IF Room THEN {0} ELSE {0, 2}) :
          /\ statusQ' = Append(statusQ, StatusBit(error))
          /\ grantedQ' = IF error = 0 THEN Append(grantedQ, h) ELSE grantedQ
    BY <1>6 DEF ToeAnswer
  <2>2. error = 0 BY <2>1, <1>9 DEF Served
  <2>3. StatusBit(0) = 0 BY DEF StatusBit
  <2> QED BY <2>1, <2>2, <2>3 DEF ToeAnswer
<1>11. g + 1 <= Len(log) BY <1>8
<1>12. Orders(log, grantedQ', t.packets, g + 1) BY <1>1, <1>3, <1>4, <1>7, <1>10, <1>11, OrdersGrow
<1>13. Types'
  <2>1. Append(statusQ, 0) \in Seq({0}) /\ Append(grantedQ, h) \in Seq(Request) BY <1>1, <1>7
  <2> QED BY <2>1, <1>7, <1>10 DEF Types
<1>14. EchoInv' BY <1>10 DEF EchoInv
<1>15. QueuesInv'
  <2>1. WordsInv(log, t, d, x, m, s)' BY <1>2, <1>10 DEF WordsInv
  <2>2. RequestsInv(log, t, x, m, g + 1, r)' BY <1>3, <1>7, <1>10, <1>12 DEF RequestsInv
  <2>3. LogInv(log, t)' BY <1>2, <1>10 DEF LogInv
  <2>4. g + 1 \in Nat OBVIOUS
  <2> QED BY <2>1, <2>2, <2>3, <2>4 DEF QueuesInv
<1> QED BY <1>13, <1>14, <1>15 DEF Served

(* The first request the toe has granted is for the first word it has: the *)
(* word is the next one of that client.                                    *)
LEMMA ToeTakeKeeps ==
    ASSUME IInv, ToeTake
    PROVE  IInv'
<1> USE DEF IInv
<1>1. /\ dataQ \in Seq(Word) /\ grantedQ \in Seq(Request)
      /\ sent \in [Clients -> Seq(Word)] /\ echoed \in [Clients -> Seq(Word)]
  BY DEF Types
<1>2. PICK log \in Seq(Packet), t \in Place, d \in Place, x \in Place, m \in Place, s \in Place, g \in Nat, r \in Nat :
        WordsInv(log, t, d, x, m, s) /\ RequestsInv(log, t, x, m, g, r) /\ LogInv(log, t)
  BY DEF QueuesInv
<1>3. /\ Line(log, sent, dataQ, t, d) /\ Line(log, sent, txQ, d, x) /\ Line(log, sent, rxQ, x, m)
      /\ Line(log, sent, storeQ, m, s) /\ s.packets = Len(log)
      /\ \A c \in Clients : t.words[c] = Len(echoed[c]) /\ s.words[c] = Len(sent[c])
  BY <1>2 DEF WordsInv
<1>4. Orders(log, grantedQ, t.packets, g) BY <1>2 DEF RequestsInv
<1>5. t.packets \in Nat /\ t.words \in [Clients -> Nat] BY DEF Place
<1>6. PICK w, h : w = Head(dataQ) /\ h = Head(grantedQ) OBVIOUS
<1>7. /\ grantedQ # <<>> /\ dataQ # <<>>
      /\ echoed' = [echoed EXCEPT ![h.session] = Append(@, w)]
      /\ grantedQ' = (IF w.last THEN Tail(grantedQ) ELSE grantedQ) /\ dataQ' = Tail(dataQ)
      /\ notifQ' = notifQ /\ rxMetaQ' = rxMetaQ /\ rxQ' = rxQ /\ txQ' = txQ /\ txMetaQ' = txMetaQ /\ statusQ' = statusQ
      /\ readQ' = readQ /\ storeQ' = storeQ /\ open' = open /\ sent' = sent
  BY <1>6 DEF ToeTake, Popped, Valid, kernelVars
<1>8. w \in Word /\ IsNext(log, sent, t, w) /\ dataQ' \in Seq(Word) /\ Line(log, sent, dataQ', Past(t, w), d)
  BY <1>1, <1>3, <1>6, <1>7, LinePops
<1>9. PICK o \in Place : o = Past(t, w) BY <1>8, PastIs
<1>10. /\ o.packets = (IF w.last THEN t.packets + 1 ELSE t.packets)
       /\ \A c \in Clients : o.words[c] = IF c = w.client THEN t.words[c] + 1 ELSE t.words[c]
  BY <1>8, <1>9, PastIs
<1>11. /\ h \in Request /\ Tail(grantedQ) \in Seq(Request) /\ h.session = log[t.packets + 1].session
       /\ t.packets + 1 <= g /\ g <= Len(log) /\ Orders(log, Tail(grantedQ), t.packets + 1, g)
  BY <1>1, <1>4, <1>5, <1>6, <1>7, OrdersPop
<1>12. PICK k \in 1 .. Len(log) : k = t.packets + 1 BY <1>5, <1>11
<1>13. PICK c \in Clients, n \in Nat : IsNumber(log, sent, t, w, c, n) BY <1>8 DEF IsNext
<1>14. /\ c = log[k].session /\ c = h.session /\ c = w.client /\ n = Len(echoed[c]) + 1 /\ n = t.words[c] + 1
       /\ n <= Len(sent[c]) /\ w = sent[c][n] /\ (w.last <=> n = log[k].last)
  BY <1>3, <1>11, <1>12, <1>13 DEF IsNumber
<1>15. PICK a : a = Append(echoed[c], w) OBVIOUS
<1>16. a \in Seq(Word) /\ Len(a) = n /\ a[n] = w /\ \A i \in 1 .. Len(echoed[c]) : a[i] = echoed[c][i]
  <2>1. echoed[c] \in Seq(Word) BY <1>1
  <2>2. PICK old \in Seq(Word) : old = echoed[c] BY <2>1
  <2>3. PICK l \in Nat : l = Len(old) OBVIOUS
  <2>4. /\ Append(old, w) \in Seq(Word) /\ Len(Append(old, w)) = l + 1 /\ Append(old, w)[l + 1] = w
        /\ \A i \in 1 .. l : Append(old, w)[i] = old[i]
    BY <2>3, <1>8
  <2>5. n = l + 1 BY <2>2, <2>3, <1>14
  <2> QED BY <2>2, <2>3, <2>4, <2>5, <1>15
<1>17. /\ echoed' \in [Clients -> Seq(Word)]
       /\ \A y \in Clients : echoed'[y] = IF y = c THEN a ELSE echoed[y]
  BY <1>1, <1>7, <1>14, <1>15, <1>16
<1>18. grantedQ' \in Seq(Request) /\ Orders(log, grantedQ', o.packets, g) BY <1>1, <1>4, <1>7, <1>10, <1>11
<1>19. LogInv(log, o)
  <2>1. /\ \A i, j \in 1 .. Len(log) : i < j /\ log[i].session = log[j].session => log[i].last < log[j].last
        /\ \A j \in 1 .. Len(log) : log[j].last <= Len(sent[log[j].session])
        /\ \A j \in 1 .. Len(log) :
             j > t.packets => log[j].session \in open /\ t.words[log[j].session] < log[j].last
    BY <1>2 DEF LogInv
  <2>2. ASSUME NEW j \in 1 .. Len(log), j > o.packets
        PROVE  log[j].session \in open /\ o.words[log[j].session] < log[j].last
    <3>1. j > t.packets /\ (w.last => j > k) /\ (j = k \/ j > k) BY <2>2, <1>5, <1>10, <1>12
    <3>2. log[j] \in Packet /\ log[k] \in Packet OBVIOUS
    <3>3. log[j].last \in Nat /\ log[k].last \in Nat /\ log[j].session \in Clients BY <3>2 DEF Packet
    <3>4. log[j].session \in open /\ t.words[log[j].session] < log[j].last BY <2>1, <3>1
    <3>5. CASE log[j].session # c BY <3>3, <3>4, <3>5, <1>10, <1>14
    <3>6. CASE log[j].session = c
      <4>1. k > t.packets BY <1>5, <1>12
      <4>2. t.words[c] < log[k].last BY <4>1, <2>1, <1>14
      <4>3. PICK e \in Nat, b \in Nat, v \in Nat : e = log[k].last /\ b = log[j].last /\ v = t.words[c] BY <1>5, <3>3
      <4>4. v < e /\ n = v + 1 BY <4>2, <4>3, <1>14
      <4>5. j > k => e < b
        <5>1. k < j /\ log[k].session = log[j].session => log[k].last < log[j].last BY <2>1
        <5>2. j > k => k < j OBVIOUS
        <5> QED BY <5>1, <5>2, <4>3, <3>6, <1>14
      <4>6. n < log[j].last
        <5>1. n <= e BY <4>4
        <5>2. CASE j > k
          <6>1. e < b BY <5>2, <4>5
          <6> QED BY <5>1, <6>1, <4>3
        <5>3. CASE j = k
          <6>1. ~w.last BY <5>3, <3>1
          <6>2. n # e BY <6>1, <4>3, <1>14
          <6>3. n < e BY <6>2, <5>1
          <6> QED BY <6>3, <5>3, <4>3
        <5> QED BY <5>2, <5>3, <3>1
      <4>7. o.words[log[j].session] = n BY <3>6, <1>10, <1>14
      <4> QED BY <4>6, <4>7, <3>4
    <3> QED BY <3>5, <3>6
  <2> QED BY <2>1, <2>2 DEF LogInv
<1>20. Types' BY <1>7, <1>8, <1>17, <1>18 DEF Types
<1>21. EchoInv'
  <2> SUFFICES ASSUME NEW y \in Clients
               PROVE  /\ Len(echoed'[y]) <= Len(sent[y])
                      /\ \A i \in 1 .. Len(echoed'[y]) : echoed'[y][i] = sent[y][i]
    BY <1>7 DEF EchoInv
  <2>1. CASE y # c BY <2>1, <1>17 DEF EchoInv
  <2>2. CASE y = c
    <3>1. PICK l \in Nat : l = Len(echoed[c]) BY <1>1
    <3>2. \A i \in 1 .. l : echoed[c][i] = sent[c][i] BY <3>1 DEF EchoInv
    <3>3. \A i \in 1 .. n : i = n \/ i \in 1 .. l
      <4>1. n = l + 1 BY <3>1, <1>14
      <4>2. \A i \in 1 .. l + 1 : i = l + 1 \/ i \in 1 .. l OBVIOUS
      <4> QED BY <4>1, <4>2
    <3>4. echoed'[y] = a /\ Len(a) = n BY <2>2, <1>16, <1>17
    <3>5. Len(echoed'[y]) <= Len(sent[y]) BY <2>2, <3>4, <1>14
    <3>6. ASSUME NEW i \in 1 .. n PROVE a[i] = sent[c][i]
      <4>1. CASE i = n BY <4>1, <1>14, <1>16
      <4>2. CASE i \in 1 .. l BY <4>2, <3>1, <3>2, <1>16
      <4> QED BY <3>3, <4>1, <4>2
    <3> QED BY <2>2, <3>4, <3>5, <3>6
  <2> QED BY <2>1, <2>2
<1>22. QueuesInv'
  <2>1. ASSUME NEW y \in Clients PROVE o.words[y] = Len(echoed'[y])
    <3>1. CASE y = c BY <3>1, <1>10, <1>14, <1>16, <1>17
    <3>2. CASE y # c BY <3>2, <1>3, <1>10, <1>14, <1>17
    <3> QED BY <3>1, <3>2
  <2>2. WordsInv(log, o, d, x, m, s)' BY <2>1, <1>3, <1>7, <1>8, <1>9 DEF WordsInv
  <2>3. RequestsInv(log, o, x, m, g, r)' BY <1>2, <1>7, <1>18 DEF RequestsInv
  <2>4. LogInv(log, o)' BY <1>7, <1>19 DEF LogInv
  <2> QED BY <2>2, <2>3, <2>4 DEF QueuesInv
<1> QED BY <1>20, <1>21, <1>22 DEF Served

-----------------------------------------------------------------------------
(* The clients                                                             *)

(* The packet is the next one of the log, and its words go to the end of   *)
(* what the toe has.                                                       *)
LEMMA ClientSendsKeeps ==
    ASSUME IInv, NEW c \in Clients, NEW n \in Lengths, ClientSends(c, n)
    PROVE  IInv'
<1> USE DEF IInv
<1>1. /\ notifQ \in Seq(Request) /\ rxMetaQ \in Seq(Request) /\ txMetaQ \in Seq(Request) /\ grantedQ \in Seq(Request)
      /\ rxQ \in Seq(Word) /\ txQ \in Seq(Word) /\ dataQ \in Seq(Word) /\ storeQ \in Seq(Word)
      /\ sent \in [Clients -> Seq(Word)] /\ echoed \in [Clients -> Seq(Word)]
  BY DEF Types
<1>2. PICK log \in Seq(Packet), t \in Place, d \in Place, x \in Place, m \in Place, s \in Place, g \in Nat, r \in Nat :
        WordsInv(log, t, d, x, m, s) /\ RequestsInv(log, t, x, m, g, r) /\ LogInv(log, t)
  BY DEF QueuesInv
<1>3. /\ Line(log, sent, dataQ, t, d) /\ Line(log, sent, txQ, d, x) /\ Line(log, sent, rxQ, x, m)
      /\ Line(log, sent, storeQ, m, s) /\ s.packets = Len(log)
      /\ \A b \in Clients : t.words[b] = Len(echoed[b]) /\ s.words[b] = Len(sent[b])
  BY <1>2 DEF WordsInv
<1>4. /\ Orders(log, grantedQ, t.packets, g) /\ Orders(log, txMetaQ, g, x.packets) /\ Orders(log, rxMetaQ, x.packets, r)
      /\ Notices(log, notifQ, r, Len(log)) /\ Len(readQ) + m.packets = r
  BY <1>2 DEF RequestsInv
<1>5. n \in Nat /\ n > 0 BY DEF Served
<1>6. PICK old \in Seq(Word) : old = sent[c] BY <1>1
<1>7. PICK from \in Nat : from = Len(old) OBVIOUS
<1>8. PICK packet : packet = [i \in 1 .. n |-> [client |-> c, number |-> from + i, last |-> i = n]] OBVIOUS
<1>9. /\ packet \in Seq(Word) /\ Len(packet) = n
      /\ \A i \in 1 .. n : packet[i].client = c /\ (packet[i].last <=> i = n)
  <2>1. ASSUME NEW i \in 1 .. n PROVE packet[i] \in Word /\ packet[i].client = c /\ (packet[i].last <=> i = n)
    <3>1. packet[i] = [client |-> c, number |-> from + i, last |-> i = n] BY <1>8
    <3>2. PICK l \in BOOLEAN : l = (i = n) OBVIOUS
    <3>3. PICK k \in Nat : k = from + i BY <1>5
    <3>4. packet[i] = [client |-> c, number |-> k, last |-> l] BY <3>1, <3>2, <3>3
    <3>5. [client |-> c, number |-> k, last |-> l] \in Word BY DEF Word
    <3>6. packet[i].client = c /\ packet[i].last = l BY <3>4
    <3> QED BY <3>2, <3>4, <3>5, <3>6
  <2>2. packet \in [1 .. n -> Word] BY <2>1, <1>8
  <2> QED BY <2>1, <2>2, <1>5
<1>10. PICK new \in Seq(Word) : new = old \o packet
  <2>1. old \o packet \in Seq(Word) BY <1>9
  <2> QED BY <2>1
<1>11. /\ Len(new) = from + n
       /\ \A i \in 1 .. from : new[i] = old[i]
       /\ \A i \in 1 .. n : new[from + i] = packet[i]
  <2>1. PICK p \in Seq(Word) : p = packet BY <1>9
  <2>2. /\ Len(old \o p) = from + n
        /\ \A i \in 1 .. from + n : (old \o p)[i] = IF i <= from THEN old[i] ELSE p[i - from]
    <3>1. Len(p) = n BY <2>1, <1>9
    <3>2. Len(old \o p) = Len(old) + Len(p) /\ \A i \in 1 .. Len(old) + Len(p) :
            (old \o p)[i] = IF i <= Len(old) THEN old[i] ELSE p[i - Len(old)]
      OBVIOUS
    <3> QED BY ONLY <3>1, <3>2, <1>7
  <2>3. ASSUME NEW i \in 1 .. from PROVE new[i] = old[i]
    <3>1. i \in 1 .. from + n /\ i <= from BY <1>5
    <3> QED BY <3>1, <2>1, <2>2, <1>10
  <2>4. ASSUME NEW i \in 1 .. n PROVE new[from + i] = packet[i]
    <3>1. from + i \in 1 .. from + n /\ ~(from + i <= from) /\ (from + i) - from = i BY <1>5
    <3> QED BY <3>1, <2>1, <2>2, <1>10
  <2> QED BY <2>1, <2>2, <2>3, <2>4, <1>10
<1>12. PICK longer : longer = [sent EXCEPT ![c] = new] OBVIOUS
<1>13. longer \in [Clients -> Seq(Word)] /\ \A b \in Clients : longer[b] = IF b = c THEN new ELSE sent[b]
  BY <1>1, <1>10, <1>12
<1>14. /\ c \in open /\ sent' = longer /\ storeQ' = storeQ \o packet
       /\ notifQ' = Append(notifQ, [session |-> c, length |-> n])
       /\ rxMetaQ' = rxMetaQ /\ rxQ' = rxQ /\ txQ' = txQ /\ txMetaQ' = txMetaQ /\ statusQ' = statusQ
       /\ readQ' = readQ /\ grantedQ' = grantedQ /\ dataQ' = dataQ /\ open' = open /\ echoed' = echoed
  BY <1>6, <1>7, <1>8, <1>10, <1>12 DEF ClientSends
<1>15. Extends(sent, longer)
  <2> SUFFICES ASSUME NEW b \in Clients
               PROVE  Len(sent[b]) <= Len(longer[b]) /\ \A i \in 1 .. Len(sent[b]) : longer[b][i] = sent[b][i]
    BY DEF Extends
  <2>1. CASE b = c BY <2>1, <1>5, <1>6, <1>7, <1>11, <1>13
  <2>2. CASE b # c
    <3>1. sent[b] \in Seq(Word) BY <1>1
    <3> QED BY <2>2, <3>1, <1>13
  <2> QED BY <2>1, <2>2
<1>16. PICK e : e = [session |-> c, last |-> from + n] OBVIOUS
<1>17. e \in Packet /\ e.session = c /\ e.last = from + n
  <2>1. from + n \in Nat BY <1>5
  <2> QED BY <2>1, <1>16 DEF Packet
<1>18. PICK l \in Nat : l = Len(log) OBVIOUS
<1>19. PICK more \in Seq(Packet) : more = Append(log, e)
  <2>1. Append(log, e) \in Seq(Packet) BY <1>17
  <2> QED BY <2>1
<1>20. Len(more) = l + 1 /\ more[l + 1] = e /\ \A k \in 1 .. l : more[k] = log[k] BY <1>18, <1>19
<1>21. /\ Line(more, longer, dataQ, t, d) /\ Line(more, longer, txQ, d, x) /\ Line(more, longer, rxQ, x, m)
       /\ Line(more, longer, storeQ, m, s)
  BY <1>1, <1>3, <1>13, <1>15, <1>17, <1>19, LineLonger
<1>22. s.packets = l /\ s.words[c] = from BY <1>3, <1>6, <1>7, <1>18
<1>23. PICK z \in Place : /\ Line(more, longer, packet, s, z) /\ z.packets = s.packets + 1
                          /\ \A b \in Clients : z.words[b] = IF b = c THEN s.words[c] + n ELSE s.words[b]
  <2>1. s.packets < Len(more) /\ more[s.packets + 1].session = c /\ more[s.packets + 1].last = s.words[c] + n
    BY <1>17, <1>20, <1>22
  <2>2. s.words[c] + n <= Len(longer[c])
    <3>1. from + n <= from + n BY <1>5
    <3> QED BY <3>1, <1>11, <1>13, <1>22
  <2>3. \A i \in 1 .. n : packet[i] = longer[c][s.words[c] + i] BY <1>11, <1>13, <1>22
  <2>4. IsPacket(more, longer, packet, s, c, n) BY <2>1, <2>2, <2>3, <1>9 DEF IsPacket
  <2>5. PICK q \in Seq(Word), src \in [Clients -> Seq(Word)], k \in Nat : q = packet /\ src = longer /\ k = n
    BY <1>5, <1>9, <1>13
  <2>6. k > 0 /\ IsPacket(more, src, q, s, c, k) BY <2>4, <2>5, <1>5
  <2>7. PICK z \in Place : /\ Line(more, src, q, s, z) /\ z.packets = s.packets + 1
                           /\ \A b \in Clients : z.words[b] = IF b = c THEN s.words[c] + k ELSE s.words[b]
    BY <2>6, LineOfPacket
  <2> QED BY <2>5, <2>7
<1>24. Line(more, longer, storeQ', m, z) /\ storeQ' \in Seq(Word)
  <2>1. storeQ \o packet \in Seq(Word) BY <1>1, <1>9
  <2> QED BY <2>1, <1>1, <1>9, <1>14, <1>21, <1>23, LinesJoin
<1>25. z.packets = Len(more) /\ \A b \in Clients : z.words[b] = Len(longer[b])
  BY <1>3, <1>11, <1>13, <1>20, <1>22, <1>23
<1>26. t.packets \in Nat /\ x.packets \in Nat /\ t.words \in [Clients -> Nat] BY DEF Place
<1>27. /\ Orders(more, grantedQ, t.packets, g) /\ Orders(more, txMetaQ, g, x.packets)
       /\ Orders(more, rxMetaQ, x.packets, r)
  BY <1>1, <1>4, <1>17, <1>19, <1>26, OrdersLonger
<1>28. Notices(more, notifQ', r, Len(more)) /\ notifQ' \in Seq(Request)
  <2>1. Notices(more, notifQ, r, l) BY <1>1, <1>4, <1>17, <1>18, <1>19, NoticesLonger
  <2>2. PICK notice : notice = [session |-> c, length |-> n] OBVIOUS
  <2>3. notice \in Request /\ notice.session = c /\ notice.length = n BY <2>2, <1>5 DEF Request
  <2>4. n # 0 /\ l + 1 \in Nat /\ l + 1 <= Len(more) /\ notice.session = more[l + 1].session
    BY <2>3, <1>5, <1>17, <1>20
  <2>5. Notices(more, Append(notifQ, notice), r, l + 1) BY <2>1, <2>3, <2>4, <1>1, NoticesGrow
  <2>6. Append(notifQ, notice) \in Seq(Request) BY <2>3, <1>1
  <2> QED BY <2>2, <2>5, <2>6, <1>14, <1>20
<1>29. \A b \in Clients : Len(sent[b]) \in Nat /\ Len(longer[b]) \in Nat /\ Len(sent[b]) <= Len(longer[b])
                          /\ Len(echoed[b]) \in Nat
  <2> SUFFICES ASSUME NEW b \in Clients
               PROVE  Len(sent[b]) \in Nat /\ Len(longer[b]) \in Nat /\ Len(sent[b]) <= Len(longer[b])
                      /\ Len(echoed[b]) \in Nat
    OBVIOUS
  <2>1. sent[b] \in Seq(Word) /\ longer[b] \in Seq(Word) /\ echoed[b] \in Seq(Word) BY <1>1, <1>13
  <2> QED BY <2>1, <1>15 DEF Extends
<1>30. \A k \in 1 .. l + 1 : k = l + 1 \/ k \in 1 .. l OBVIOUS
<1>31. \A k \in 1 .. l : log[k].last \in Nat /\ log[k].session \in Clients
  <2>1. \A k \in 1 .. l : log[k] \in Packet BY <1>18
  <2> QED BY <2>1 DEF Packet
<1>32. \A k \in 1 .. Len(more) : more[k].last <= Len(longer[more[k].session])
  <2> SUFFICES ASSUME NEW k \in 1 .. l + 1 PROVE more[k].last <= Len(longer[more[k].session]) BY <1>20
  <2>1. CASE k = l + 1
    <3>1. Len(longer[c]) = from + n BY <1>11, <1>13
    <3>2. from + n <= from + n BY <1>5
    <3> QED BY <2>1, <3>1, <3>2, <1>17, <1>20
  <2>2. CASE k \in 1 .. l
    <3>1. log[k].last <= Len(sent[log[k].session]) BY <2>2, <1>2, <1>18 DEF LogInv
    <3>2. more[k] = log[k] BY <2>2, <1>20
    <3> QED BY <2>2, <3>1, <3>2, <1>29, <1>31
  <2> QED BY <2>1, <2>2, <1>30
<1>33. \A i, k \in 1 .. Len(more) : i < k /\ more[i].session = more[k].session => more[i].last < more[k].last
  <2> SUFFICES ASSUME NEW i \in 1 .. l + 1, NEW k \in 1 .. l + 1, i < k, more[i].session = more[k].session
               PROVE  more[i].last < more[k].last
    BY <1>20
  <2>1. i \in 1 .. l /\ more[i] = log[i] BY <1>20
  <2>2. CASE k = l + 1
    <3>1. log[i].session = c /\ more[k].last = from + n BY <2>1, <2>2, <1>17, <1>20
    <3>2. log[i].last <= Len(sent[log[i].session]) BY <2>1, <1>2, <1>18 DEF LogInv
    <3>3. log[i].last <= from /\ log[i].last \in Nat BY <2>1, <3>1, <3>2, <1>6, <1>7, <1>31
    <3>4. log[i].last < from + n BY <3>3, <1>5
    <3> QED BY <2>1, <3>1, <3>4
  <2>3. CASE k \in 1 .. l
    <3>1. more[k] = log[k] BY <2>3, <1>20
    <3> QED BY <2>1, <2>3, <3>1, <1>2, <1>18 DEF LogInv
  <2> QED BY <2>2, <2>3, <1>30
<1>34. \A k \in 1 .. Len(more) :
         k > t.packets => more[k].session \in open /\ t.words[more[k].session] < more[k].last
  <2> SUFFICES ASSUME NEW k \in 1 .. l + 1, k > t.packets
               PROVE  more[k].session \in open /\ t.words[more[k].session] < more[k].last
    BY <1>20
  <2>1. CASE k = l + 1
    <3>1. PICK b \in Nat : b = Len(echoed[c]) BY <1>29
    <3>2. b <= from BY <3>1, <1>6, <1>7 DEF EchoInv
    <3>3. t.words[c] = b BY <3>1, <1>3
    <3>4. b < from + n BY <3>2, <1>5
    <3> QED BY <2>1, <3>3, <3>4, <1>14, <1>17, <1>20
  <2>2. CASE k \in 1 .. l
    <3>1. more[k] = log[k] BY <2>2, <1>20
    <3> QED BY <2>2, <3>1, <1>2, <1>18 DEF LogInv
  <2> QED BY <2>1, <2>2, <1>30
<1>35. Types' BY <1>13, <1>14, <1>24, <1>28 DEF Types
<1>36. EchoInv'
  <2> SUFFICES ASSUME NEW b \in Clients
               PROVE  /\ Len(echoed[b]) <= Len(longer[b])
                      /\ \A i \in 1 .. Len(echoed[b]) : echoed[b][i] = longer[b][i]
    BY <1>14 DEF EchoInv
  <2>1. Len(echoed[b]) <= Len(sent[b]) /\ \A i \in 1 .. Len(echoed[b]) : echoed[b][i] = sent[b][i] BY DEF EchoInv
  <2>2. \A i \in 1 .. Len(sent[b]) : longer[b][i] = sent[b][i] BY <1>15 DEF Extends
  <2>3. PICK u \in Nat, v \in Nat, w \in Nat : u = Len(echoed[b]) /\ v = Len(sent[b]) /\ w = Len(longer[b]) /\ v <= w BY <1>29
  <2>4. ASSUME NEW i \in 1 .. u PROVE echoed[b][i] = longer[b][i]
    <3>1. u <= v BY <2>1, <2>3
    <3>2. i \in 1 .. v BY <3>1
    <3> QED BY <3>2, <2>1, <2>2, <2>3
  <2>5. u <= w BY <2>1, <2>3
  <2> QED BY <2>3, <2>4, <2>5
<1>37. QueuesInv'
  <2>1. WordsInv(more, t, d, x, m, z)' BY <1>3, <1>14, <1>21, <1>24, <1>25 DEF WordsInv
  <2>2. RequestsInv(more, t, x, m, g, r)' BY <1>4, <1>14, <1>27, <1>28 DEF RequestsInv
  <2>3. LogInv(more, t)' BY <1>14, <1>32, <1>33, <1>34 DEF LogInv
  <2> QED BY <2>1, <2>2, <2>3 DEF QueuesInv
<1> QED BY <1>35, <1>36, <1>37 DEF Served

(* Nothing of a client that closes is under way.                           *)
LEMMA ClientClosesKeeps ==
    ASSUME IInv, NEW c \in Clients, ClientCloses(c)
    PROVE  IInv'
<1> USE DEF IInv
<1>1. notifQ \in Seq(Request) BY DEF Types
<1>2. PICK log \in Seq(Packet), t \in Place, d \in Place, x \in Place, m \in Place, s \in Place, g \in Nat, r \in Nat :
        WordsInv(log, t, d, x, m, s) /\ RequestsInv(log, t, x, m, g, r) /\ LogInv(log, t)
  BY DEF QueuesInv
<1>3. PICK notice : notice = [session |-> c, length |-> 0] OBVIOUS
<1>4. /\ echoed[c] = sent[c] /\ open' = open \ {c} /\ notifQ' = Append(notifQ, notice)
      /\ rxMetaQ' = rxMetaQ /\ rxQ' = rxQ /\ txQ' = txQ /\ txMetaQ' = txMetaQ /\ statusQ' = statusQ /\ readQ' = readQ
      /\ storeQ' = storeQ /\ grantedQ' = grantedQ /\ dataQ' = dataQ /\ sent' = sent /\ echoed' = echoed
  BY <1>3 DEF ClientCloses, Served
<1>5. notice \in Request /\ notice.length = 0 /\ notifQ' \in Seq(Request)
  <2>1. notice \in Request /\ notice.length = 0 BY <1>3 DEF Request
  <2> QED BY <2>1, <1>1, <1>4
<1>6. Notices(log, notifQ', r, Len(log))
  <2>1. Notices(log, notifQ, r, Len(log)) /\ Len(log) \in Nat BY <1>2 DEF RequestsInv
  <2> QED BY <2>1, <1>1, <1>4, <1>5, NoticesGrow
<1>7. ASSUME NEW k \in 1 .. Len(log), k > t.packets PROVE log[k].session # c
  <2> SUFFICES ASSUME log[k].session = c PROVE FALSE OBVIOUS
  <2>1. log[k].last <= Len(sent[c]) /\ t.words[c] < log[k].last BY <1>2, <1>7 DEF LogInv
  <2>2. t.words[c] = Len(sent[c]) BY <1>2, <1>4 DEF WordsInv
  <2>3. sent[c] \in Seq(Word) /\ log[k] \in Packet BY DEF Types
  <2>4. Len(sent[c]) \in Nat /\ log[k].last \in Nat BY <2>3 DEF Packet
  <2> QED BY <2>1, <2>2, <2>4
<1>8. Types' BY <1>4, <1>5 DEF Types
<1>9. EchoInv' BY <1>4 DEF EchoInv
<1>10. QueuesInv'
  <2>1. WordsInv(log, t, d, x, m, s)' BY <1>2, <1>4 DEF WordsInv
  <2>2. RequestsInv(log, t, x, m, g, r)' BY <1>2, <1>4, <1>6 DEF RequestsInv
  <2>3. LogInv(log, t)' BY <1>2, <1>4, <1>7 DEF LogInv
  <2> QED BY <2>1, <2>2, <2>3 DEF QueuesInv
<1> QED BY <1>8, <1>9, <1>10 DEF Served

LEMMA StutterKeeps ==
    ASSUME IInv, UNCHANGED vars
    PROVE  IInv'
<1>1. /\ notifQ' = notifQ /\ rxMetaQ' = rxMetaQ /\ rxQ' = rxQ /\ txQ' = txQ /\ txMetaQ' = txMetaQ /\ statusQ' = statusQ
      /\ readQ' = readQ /\ storeQ' = storeQ /\ grantedQ' = grantedQ /\ dataQ' = dataQ
      /\ open' = open /\ sent' = sent /\ echoed' = echoed
  BY DEF vars, kernelVars
<1>2. Types' BY <1>1 DEF IInv, Types
<1>3. EchoInv' BY <1>1 DEF IInv, EchoInv
<1>4. QueuesInv'
  <2>1. PICK log \in Seq(Packet), t \in Place, d \in Place, x \in Place, m \in Place, s \in Place, g \in Nat, r \in Nat :
          WordsInv(log, t, d, x, m, s) /\ RequestsInv(log, t, x, m, g, r) /\ LogInv(log, t)
    BY DEF IInv, QueuesInv
  <2>2. WordsInv(log, t, d, x, m, s)' BY <2>1, <1>1 DEF WordsInv
  <2>3. RequestsInv(log, t, x, m, g, r)' BY <2>1, <1>1 DEF RequestsInv
  <2>4. LogInv(log, t)' BY <2>1, <1>1 DEF LogInv
  <2> QED BY <2>2, <2>3, <2>4 DEF QueuesInv
<1> QED BY <1>2, <1>3, <1>4 DEF IInv, Served

LEMMA StepKeeps ==
    ASSUME IInv, [Next]_vars
    PROVE  IInv'
<1>1. CASE Clock BY <1>1, ClockKeeps
<1>2. CASE ToeDeliver BY <1>2, ToeDeliverKeeps
<1>3. CASE ToeAnswer BY <1>3, ToeAnswerKeeps
<1>4. CASE ToeTake BY <1>4, ToeTakeKeeps
<1>5. CASE \E c \in Clients : ClientCloses(c) BY <1>5, ClientClosesKeeps
<1>6. CASE \E c \in Clients, n \in Lengths : ClientSends(c, n) BY <1>6, ClientSendsKeeps
<1>7. CASE UNCHANGED vars BY <1>7, StutterKeeps
<1> QED BY <1>1, <1>2, <1>3, <1>4, <1>5, <1>6, <1>7 DEF Next

(* The requests and the words on their separate ways stand in the order in *)
(* which the packets came: in the FIFOs of the kernel, at the toe, and in  *)
(* the data the toe keeps for all sessions.                                *)
THEOREM Invariance == Served => (Spec => []IInv)
<1>1. Served /\ Init => IInv BY InitInv
<1>2. IInv /\ [Next]_vars => IInv' BY StepKeeps
<1> QED BY <1>1, <1>2, PTL DEF Spec

-----------------------------------------------------------------------------
(* What the clients see                                                    *)

LEMMA PrefixIs ==
    ASSUME NEW a \in Seq(Word), NEW b \in Seq(Word), Len(a) <= Len(b), \A i \in 1 .. Len(a) : b[i] = a[i]
    PROVE  IsPrefix(a, b)
<1>1. PICK n \in Nat, k \in Nat : n = Len(a) /\ k = Len(b) OBVIOUS
<1>2. SubSeq(a, 1, n) = [i \in 1 .. n |-> a[i]] /\ SubSeq(b, 1, n) = [i \in 1 .. n |-> b[i]] BY <1>1
<1>3. SubSeq(a, 1, n) = SubSeq(b, 1, n) BY <1>1, <1>2
<1> QED BY <1>1, <1>3 DEF IsPrefix

(* What goes back to a client is what that client sent, in order and       *)
(* nothing else, although neither the words nor the data at the toe name   *)
(* their session.                                                          *)
THEOREM EchoesAreOwn == Served => (Spec => []EchoIsOwn)
<1>1. IInv => EchoIsOwn
  <2> SUFFICES ASSUME IInv, NEW c \in Clients PROVE IsPrefix(echoed[c], sent[c]) BY DEF EchoIsOwn
  <2>1. PICK a \in Seq(Word), b \in Seq(Word) : a = echoed[c] /\ b = sent[c] BY DEF IInv, Types
  <2>2. Len(a) <= Len(b) /\ \A i \in 1 .. Len(a) : b[i] = a[i] BY <2>1 DEF IInv, EchoInv
  <2> QED BY <2>1, <2>2, PrefixIs
<1> QED BY <1>1, Invariance, PTL

(* The word the toe takes is the next one of the client it is for.         *)
LEMMA TakenIsNext ==
    ASSUME IInv, ToeTake
    PROVE  \E c \in Clients : EchoNextWord(c)
<1> USE DEF IInv
<1>1. dataQ \in Seq(Word) /\ grantedQ \in Seq(Request) /\ echoed \in [Clients -> Seq(Word)] BY DEF Types
<1>2. PICK log \in Seq(Packet), t \in Place, d \in Place, x \in Place, m \in Place, s \in Place, g \in Nat, r \in Nat :
        WordsInv(log, t, d, x, m, s) /\ RequestsInv(log, t, x, m, g, r) /\ LogInv(log, t)
  BY DEF QueuesInv
<1>3. Line(log, sent, dataQ, t, d) /\ \A c \in Clients : t.words[c] = Len(echoed[c]) BY <1>2 DEF WordsInv
<1>4. Orders(log, grantedQ, t.packets, g) /\ t.packets \in Nat BY <1>2 DEF RequestsInv, Place
<1>5. grantedQ # <<>> /\ dataQ # <<>> BY DEF ToeTake
<1>6. PICK w, h : w = Head(dataQ) /\ h = Head(grantedQ) OBVIOUS
<1>7. IsNext(log, sent, t, w) BY <1>1, <1>3, <1>5, <1>6, LinePops
<1>8. h.session = log[t.packets + 1].session BY <1>1, <1>4, <1>5, <1>6, OrdersPop
<1>9. PICK c \in Clients, n \in Nat : IsNumber(log, sent, t, w, c, n) BY <1>7 DEF IsNext
<1>10. c = h.session /\ n = Len(echoed[c]) + 1 /\ n <= Len(sent[c]) /\ w = sent[c][n]
  BY <1>3, <1>8, <1>9 DEF IsNumber
<1>11. echoed' = [echoed EXCEPT ![c] = Append(echoed[c], w)] /\ sent' = sent BY <1>6, <1>10 DEF ToeTake
<1>12. Len(echoed[c]) < Len(sent[c])
  <2>1. echoed[c] \in Seq(Word) /\ sent[c] \in Seq(Word) BY DEF Types
  <2>2. PICK a \in Nat, b \in Nat : a = Len(echoed[c]) /\ b = Len(sent[c]) BY <2>1
  <2> QED BY <2>2, <1>10
<1> QED BY <1>10, <1>11, <1>12 DEF EchoNextWord

LEMMA SendIsSend ==
    ASSUME IInv, NEW c \in Clients, NEW n \in Lengths, ClientSends(c, n)
    PROVE  ClientsSend
<1>1. /\ sent \in [Clients -> Seq(Word)] /\ sent' \in [Clients -> Seq(Word)]
  BY ClientSendsKeeps DEF IInv, Types
<1>2. PICK packet : sent' = [sent EXCEPT ![c] = @ \o packet] /\ packet \in Seq(Word)
  <2>1. PICK packet : packet = [i \in 1 .. n |-> [client |-> c, number |-> Len(sent[c]) + i, last |-> i = n]] OBVIOUS
  <2>2. ASSUME NEW i \in 1 .. n PROVE packet[i] \in Word
    <3>1. packet[i] = [client |-> c, number |-> Len(sent[c]) + i, last |-> i = n] BY <2>1
    <3>2. PICK l \in BOOLEAN : l = (i = n) OBVIOUS
    <3>3. sent[c] \in Seq(Word) BY <1>1
    <3>4. PICK k \in Nat : k = Len(sent[c]) + i BY <3>3 DEF IInv, Served
    <3>5. [client |-> c, number |-> k, last |-> l] \in Word BY DEF Word
    <3> QED BY <3>1, <3>2, <3>4, <3>5
  <2>3. packet \in [1 .. n -> Word] BY <2>1, <2>2
  <2>4. n \in Nat BY DEF IInv, Served
  <2>5. packet \in Seq(Word) BY <2>3, <2>4
  <2> QED BY <2>1, <2>5 DEF ClientSends
<1>3. ASSUME NEW b \in Clients PROVE IsPrefix(sent[b], sent'[b])
  <2>1. PICK a \in Seq(Word), p \in Seq(Word), z \in Seq(Word) : a = sent[b] /\ p = packet /\ z = sent'[b] BY <1>1, <1>2
  <2>2. z = IF b = c THEN a \o p ELSE a BY <2>1, <1>1, <1>2
  <2>3. Len(a) <= Len(a \o p) /\ \A i \in 1 .. Len(a) : (a \o p)[i] = a[i] OBVIOUS
  <2>4. Len(a) <= Len(z) /\ \A i \in 1 .. Len(a) : z[i] = a[i] BY <2>2, <2>3
  <2> QED BY <2>1, <2>4, PrefixIs
<1>4. echoed' = echoed BY DEF ClientSends
<1> QED BY <1>3, <1>4 DEF ClientsSend

(* The kernel with the toe beneath it is an echo service: every step of    *)
(* the two that a client can see is one the service allows.                *)
THEOREM ImplementsService == Served => (Spec => Service)
<1>1. Init => ServiceInit BY DEF Init
<1>2. IInv /\ [Next]_vars => [ServiceNext]_<<sent, echoed>>
  <2> SUFFICES ASSUME IInv, [Next]_vars PROVE [ServiceNext]_<<sent, echoed>> OBVIOUS
  <2>1. CASE Clock BY <2>1 DEF Clock
  <2>2. CASE ToeDeliver BY <2>2 DEF ToeDeliver
  <2>3. CASE ToeAnswer BY <2>3 DEF ToeAnswer
  <2>4. CASE ToeTake BY <2>4, TakenIsNext DEF ServiceNext
  <2>5. CASE \E c \in Clients : ClientCloses(c) BY <2>5 DEF ClientCloses
  <2>6. CASE \E c \in Clients, n \in Lengths : ClientSends(c, n) BY <2>6, SendIsSend DEF ServiceNext
  <2>7. CASE UNCHANGED vars BY <2>7 DEF vars
  <2> QED BY <2>1, <2>2, <2>3, <2>4, <2>5, <2>6, <2>7 DEF Next
<1> QED BY <1>1, <1>2, Invariance, PTL DEF Spec, Service

=============================================================================
