---------------------------- MODULE AllReduceProofs ----------------------------
(***************************************************************************)
(* Theorems about AllReduce, for any number of connections, any length of  *)
(* packages, any number of packages of each connection, any depth of the   *)
(* streams and any number of refusals: the sums are those of the words of  *)
(* the same place (SumsAreExact).                                          *)
(*                                                                         *)
(* Gather, split and broadcast count apart, and nothing but the order of   *)
(* the words keeps them in step.  A place is where one of them stands in   *)
(* that order: which connection's turn it is, how many words every         *)
(* connection has had in the rounds before, and how many of this package.  *)
(* The invariant says that each stream between two of them holds the words *)
(* from the place of the one to the place of the other.                    *)
(***************************************************************************)
EXTENDS AllReduce, SequenceTheorems, TLAPS

Multiples == {m * PkgWords : m \in Nat}
Places == [conn : Conns, base : Multiples, at : 0 .. PkgWords - 1]

NextPackage(p) ==
    [conn |-> NextConn(p.conn),
     base |-> IF NextConn(p.conn) = 0 THEN p.base + PkgWords ELSE p.base,
     at |-> 0]

(* The place n words later, in the same package or at the start of the     *)
(* next one.                                                               *)
Advance(p, n) ==
    IF p.at + n < PkgWords THEN [conn |-> p.conn, base |-> p.base, at |-> p.at + n] ELSE NextPackage(p)

(* How many words of connection c lie before place p.                      *)
Before(p, c) ==
    IF c < p.conn THEN p.base + PkgWords ELSE IF c = p.conn THEN p.base + p.at ELSE p.base

(* f has the n places from a to z, word by word; as far as one package     *)
(* reaches they are known without counting.                                *)
Way(f, n, a, z) ==
    /\ f \in [0 .. n -> Places] /\ f[0] = a /\ f[n] = z
    /\ \A j \in 0 .. n, m \in Nat : j + m <= n /\ f[j].at + m <= PkgWords => f[j + m] = Advance(f[j], m)

(* The same package by package.                                            *)
Round(f, n, a, z) ==
    /\ f \in [0 .. n -> Places] /\ f[0] = a /\ f[n] = z
    /\ \A j \in 0 .. n : f[j].at = 0
    /\ \A j \in 1 .. n : f[j] = NextPackage(f[j - 1])
    /\ \A j, k \in 0 .. n, c \in Conns : j <= k => Before(f[j], c) <= Before(f[k], c)

WordAt(p) == <<p.conn, p.base + p.at + 1>>
IsLast(p) == p.at + 1 = PkgWords
DataAt(p) == [word |-> WordAt(p), last |-> IsLast(p)]
SumAt(p) == [sum |-> SumOf(p.base + p.at + 1), last |-> IsLast(p)]
PackageAt(p) == [conn |-> p.conn, length |-> PkgWords]

(* The queue holds what lies between two places.                           *)
Item(kind, p) ==
    CASE kind = "word" -> WordAt(p) [] kind = "data" -> DataAt(p) [] kind = "sum" -> SumAt(p)
Holds(kind, q, a, z) == \E f : Way(f, Len(q), a, z) /\ \A j \in 1 .. Len(q) : q[j] = Item(kind, f[j - 1])
Packages(q, a, z) == \E f : Round(f, Len(q), a, z) /\ \A j \in 1 .. Len(q) : q[j] = PackageAt(f[j - 1])

-----------------------------------------------------------------------------
(* Places                                                                  *)

LEMMA Parameters ==
    /\ UseConn \in Nat /\ UseConn >= 2 /\ PkgWords \in Nat /\ PkgWords >= 1
    /\ ExpWords \in Nat /\ ExpWords \in Multiples
<1>1. UseConn \in Nat /\ UseConn >= 2 /\ PkgWords \in Nat /\ PkgWords >= 1 /\ ExpWords \in Nat BY AllReduceAssumption
<1>2. ExpWords % PkgWords = 0 BY AllReduceAssumption
<1>3. ExpWords = PkgWords * (ExpWords \div PkgWords) + (ExpWords % PkgWords) BY <1>1
<1>4. ExpWords \div PkgWords \in Nat BY <1>1
<1>5. ExpWords = (ExpWords \div PkgWords) * PkgWords BY <1>1, <1>2, <1>3, <1>4
<1> QED BY <1>1, <1>4, <1>5 DEF Multiples

LEMMA MultiplesStep ==
    ASSUME NEW b \in Multiples
    PROVE  b \in Nat /\ b + PkgWords \in Multiples
<1>1. PICK m \in Nat : b = m * PkgWords BY DEF Multiples
<1>2. PkgWords \in Nat BY Parameters
<1>3. m * PkgWords \in Nat /\ m * PkgWords + PkgWords = (m + 1) * PkgWords BY <1>2
<1> QED BY <1>1, <1>3 DEF Multiples

LEMMA NothingBetweenMultiples ==
    ASSUME NEW b \in Multiples, NEW d \in Multiples, b < d
    PROVE  b + PkgWords <= d
<1>1. PICK m \in Nat : b = m * PkgWords BY DEF Multiples
<1>2. PICK n \in Nat : d = n * PkgWords BY DEF Multiples
<1>3. PkgWords \in Nat BY Parameters
<1>4. m < n
  <2>1. ASSUME n <= m PROVE FALSE
    <3>1. n * PkgWords <= m * PkgWords BY <2>1, <1>3
    <3>2. n * PkgWords \in Nat /\ m * PkgWords \in Nat BY <1>3
    <3> QED BY <3>1, <3>2, <1>1, <1>2
  <2> QED BY <2>1
<1>5. (m + 1) * PkgWords <= n * PkgWords BY <1>3, <1>4
<1>6. (m + 1) * PkgWords = m * PkgWords + PkgWords /\ m * PkgWords \in Nat BY <1>3
<1> QED BY <1>1, <1>2, <1>5, <1>6

LEMMA EndsInMultiples ==
    ASSUME NEW b \in Multiples, NEW i \in 1 .. PkgWords
    PROVE  (b + i) % PkgWords = 0 <=> i = PkgWords
<1>1. PICK m \in Nat : b = m * PkgWords BY DEF Multiples
<1>2. PkgWords \in Nat /\ PkgWords >= 1 BY Parameters
<1>3. m * PkgWords \in Nat BY <1>2
<1>4. (b + i) % PkgWords \in 0 .. PkgWords - 1 /\ (b + i) \div PkgWords \in Nat BY <1>1, <1>2, <1>3
<1>5. b + i = PkgWords * ((b + i) \div PkgWords) + ((b + i) % PkgWords) BY <1>1, <1>2, <1>3
<1>6. ASSUME i = PkgWords PROVE (b + i) % PkgWords = 0
  <2>1. b + i = (m + 1) * PkgWords BY <1>1, <1>2, <1>6
  <2>2. ((m + 1) * PkgWords) % PkgWords = 0 BY <1>2
  <2> QED BY <2>1, <2>2
<1>7. ASSUME (b + i) % PkgWords = 0 PROVE i = PkgWords
  <2>1. PICK q \in Nat : q = (b + i) \div PkgWords BY <1>4
  <2>2. m * PkgWords + i = q * PkgWords BY <2>1, <1>7, <1>5, <1>1, <1>2
  <2>3. q > m
    <3>1. ASSUME q <= m PROVE FALSE
      <4>1. q * PkgWords <= m * PkgWords BY <3>1, <1>2
      <4> QED BY <4>1, <2>2, <1>2, <1>3
    <3> QED BY <3>1
  <2>4. (m + 1) * PkgWords <= q * PkgWords BY <2>3, <1>2
  <2>5. (m + 1) * PkgWords = m * PkgWords + PkgWords BY <1>2
  <2> QED BY <2>2, <2>4, <2>5, <1>2, <1>3
<1> QED BY <1>6, <1>7

LEMMA PlaceIs ==
    ASSUME NEW p \in Places
    PROVE  /\ p.conn \in Conns /\ p.base \in Multiples /\ p.base \in Nat /\ p.at \in 0 .. PkgWords - 1
           /\ p = [conn |-> p.conn, base |-> p.base, at |-> p.at]
BY MultiplesStep DEF Places

LEMMA ConnsTurn ==
    ASSUME NEW c \in Conns
    PROVE  c \in Nat /\ c < UseConn /\ NextConn(c) \in Conns /\ (NextConn(c) = 1 <=> c = 0)
BY Parameters DEF Conns, NextConn

LEMMA NextPackageIs ==
    ASSUME NEW p \in Places
    PROVE  /\ NextPackage(p) \in Places /\ NextPackage(p).at = 0 /\ NextPackage(p).conn = NextConn(p.conn)
           /\ NextPackage(p).base = IF NextConn(p.conn) = 0 THEN p.base + PkgWords ELSE p.base
<1>1. p.conn \in Conns /\ p.base \in Multiples BY PlaceIs
<1>2. NextConn(p.conn) \in Conns BY <1>1, ConnsTurn
<1>3. p.base + PkgWords \in Multiples BY <1>1, MultiplesStep
<1>4. 0 \in 0 .. PkgWords - 1 BY Parameters
<1> QED BY <1>1, <1>2, <1>3, <1>4 DEF NextPackage, Places

LEMMA AdvanceIsPlace ==
    ASSUME NEW p \in Places, NEW n \in Nat
    PROVE  Advance(p, n) \in Places
<1>1. NextPackage(p) \in Places BY NextPackageIs
<1>2. p.conn \in Conns /\ p.base \in Multiples /\ p.at \in 0 .. PkgWords - 1 BY PlaceIs
<1>3. p.at + n < PkgWords => p.at + n \in 0 .. PkgWords - 1 BY <1>2, Parameters
<1> QED BY <1>1, <1>2, <1>3 DEF Advance, Places

LEMMA AdvanceTwice ==
    ASSUME NEW p \in Places, NEW m \in Nat, NEW n \in Nat, p.at + m < PkgWords
    PROVE  Advance(Advance(p, m), n) = Advance(p, m + n)
<1>1. p.at \in Nat BY PlaceIs, Parameters
<1>2. PICK q : q = Advance(p, m) OBVIOUS
<1>3. q.conn = p.conn /\ q.base = p.base /\ q.at = p.at + m BY <1>2 DEF Advance
<1>4. q.at + n = p.at + (m + n) BY <1>1, <1>3
<1>5. NextPackage(q) = NextPackage(p) BY <1>3 DEF NextPackage
<1>6. Advance(q, n) = Advance(p, m + n) BY <1>3, <1>4, <1>5 DEF Advance
<1> QED BY <1>2, <1>6

LEMMA AdvanceNone ==
    ASSUME NEW p \in Places
    PROVE  Advance(p, 0) = p
<1>1. p.at \in 0 .. PkgWords - 1 /\ p = [conn |-> p.conn, base |-> p.base, at |-> p.at] BY PlaceIs
<1>2. p.at + 0 = p.at /\ p.at < PkgWords BY <1>1, Parameters
<1> QED BY <1>1, <1>2 DEF Advance

LEMMA BeforeIs ==
    ASSUME NEW p \in Places, NEW c \in Conns
    PROVE  Before(p, c) \in Nat
<1>1. p.base \in Nat /\ p.at \in Nat /\ PkgWords \in Nat BY PlaceIs, Parameters
<1> QED BY <1>1 DEF Before

(* A word more is one of the connection whose turn it is.                  *)
LEMMA BeforeAdvance ==
    ASSUME NEW p \in Places, NEW c \in Conns
    PROVE  Before(Advance(p, 1), c) = IF c = p.conn THEN Before(p, c) + 1 ELSE Before(p, c)
<1>1. p.base \in Nat /\ p.at \in 0 .. PkgWords - 1 /\ p.conn \in Conns BY PlaceIs
<1>2. c \in 0 .. UseConn - 1 /\ p.conn \in 0 .. UseConn - 1 BY <1>1 DEF Conns
<1>3. CASE p.at + 1 < PkgWords BY <1>1, <1>2, <1>3, Parameters DEF Advance, Before
<1>4. CASE ~(p.at + 1 < PkgWords)
  <2>1. p.at + 1 = PkgWords BY <1>1, <1>4, Parameters
  <2>2. Advance(p, 1) = NextPackage(p) BY <1>4 DEF Advance
  <2>3. NextPackage(p).conn = NextConn(p.conn) /\ NextPackage(p).at = 0
        /\ NextPackage(p).base = IF NextConn(p.conn) = 0 THEN p.base + PkgWords ELSE p.base BY NextPackageIs
  <2> QED BY <1>1, <1>2, <2>1, <2>2, <2>3, Parameters DEF Before, NextConn
<1> QED BY <1>3, <1>4

LEMMA BeforeNextPackage ==
    ASSUME NEW p \in Places, p.at = 0, NEW c \in Conns
    PROVE  Before(NextPackage(p), c) = IF c = p.conn THEN Before(p, c) + PkgWords ELSE Before(p, c)
<1>1. p.base \in Nat /\ p.conn \in Conns BY PlaceIs
<1>2. c \in 0 .. UseConn - 1 /\ p.conn \in 0 .. UseConn - 1 BY <1>1 DEF Conns
<1>3. NextPackage(p).conn = NextConn(p.conn) /\ NextPackage(p).at = 0
      /\ NextPackage(p).base = IF NextConn(p.conn) = 0 THEN p.base + PkgWords ELSE p.base BY NextPackageIs
<1> QED BY <1>1, <1>2, <1>3, Parameters DEF Before, NextConn

-----------------------------------------------------------------------------
(* Ways                                                                    *)

LEMMA WayStays ==
    ASSUME NEW a \in Places
    PROVE  Way([j \in 0 .. 0 |-> a], 0, a, a)
<1> DEFINE f == [j \in 0 .. 0 |-> a]
<1>1. f \in [0 .. 0 -> Places] /\ f[0] = a OBVIOUS
<1>2. ASSUME NEW j \in 0 .. 0, NEW m \in Nat, j + m <= 0 PROVE f[j + m] = Advance(f[j], m)
  <2>1. j = 0 /\ m = 0 BY <1>2
  <2> QED BY <2>1, <1>1, AdvanceNone
<1> QED BY <1>1, <1>2 DEF Way

LEMMA WayEmpty ==
    ASSUME NEW f, NEW a, NEW z, Way(f, 0, a, z)
    PROVE  a = z
BY DEF Way

LEMMA WayEnds ==
    ASSUME NEW n \in Nat, NEW f, NEW a, NEW z, Way(f, n, a, z)
    PROVE  a \in Places /\ z \in Places
<1>1. 0 \in 0 .. n /\ n \in 0 .. n OBVIOUS
<1> QED BY <1>1 DEF Way

LEMMA WayPops ==
    ASSUME NEW n \in Nat, n > 0, NEW f, NEW a, NEW z, Way(f, n, a, z)
    PROVE  Way([j \in 0 .. n - 1 |-> f[j + 1]], n - 1, Advance(a, 1), z)
<1> DEFINE g == [j \in 0 .. n - 1 |-> f[j + 1]]
<1>1. f \in [0 .. n -> Places] /\ f[0] = a /\ f[n] = z BY DEF Way
<1>2. a \in Places /\ a.at \in 0 .. PkgWords - 1 BY WayEnds, PlaceIs
<1>3. 0 \in 0 .. n /\ 0 + 1 <= n /\ f[0].at + 1 <= PkgWords BY <1>1, <1>2, Parameters
<1>4. f[0 + 1] = Advance(f[0], 1) BY <1>3 DEF Way
<1>5. f[1] = Advance(a, 1) BY <1>4, <1>1
<1>6. \A j \in 0 .. n - 1 : j + 1 \in 0 .. n OBVIOUS
<1>7. g \in [0 .. n - 1 -> Places] BY <1>1, <1>6
<1>8. g[0] = Advance(a, 1) /\ g[n - 1] = z BY <1>1, <1>5
<1>9. ASSUME NEW j \in 0 .. n - 1, NEW m \in Nat, j + m <= n - 1, g[j].at + m <= PkgWords
      PROVE  g[j + m] = Advance(g[j], m)
  <2>1. j + 1 \in 0 .. n /\ (j + 1) + m <= n /\ j + m \in 0 .. n - 1 BY <1>9
  <2>2. g[j] = f[j + 1] /\ g[j + m] = f[(j + m) + 1] BY <2>1
  <2>3. f[(j + 1) + m] = Advance(f[j + 1], m) BY <2>1, <2>2, <1>9 DEF Way
  <2>4. (j + 1) + m = (j + m) + 1 BY <1>9
  <2> QED BY <2>2, <2>3, <2>4
<1> HIDE DEF g
<1>10. Way(g, n - 1, Advance(a, 1), z) BY <1>7, <1>8, <1>9 DEF Way
<1> QED BY <1>10 DEF g

LEMMA WayGrows ==
    ASSUME NEW n \in Nat, NEW f, NEW a, NEW z, Way(f, n, a, z)
    PROVE  Way([j \in 0 .. n + 1 |-> IF j <= n THEN f[j] ELSE Advance(z, 1)], n + 1, a, Advance(z, 1))
<1> DEFINE g == [j \in 0 .. n + 1 |-> IF j <= n THEN f[j] ELSE Advance(z, 1)]
<1>1. f \in [0 .. n -> Places] /\ f[0] = a /\ f[n] = z BY DEF Way
<1>2. z \in Places /\ Advance(z, 1) \in Places BY WayEnds, AdvanceIsPlace
<1>3. \A j \in 0 .. n + 1 : j <= n => j \in 0 .. n OBVIOUS
<1>4. g \in [0 .. n + 1 -> Places] BY <1>1, <1>2, <1>3
<1>5. 0 \in 0 .. n + 1 /\ n + 1 \in 0 .. n + 1 /\ 0 <= n /\ ~(n + 1 <= n) OBVIOUS
<1>6. g[0] = a /\ g[n + 1] = Advance(z, 1) BY <1>1, <1>5
<1>7. ASSUME NEW j \in 0 .. n + 1, NEW m \in Nat, j + m <= n + 1, g[j].at + m <= PkgWords
      PROVE  g[j + m] = Advance(g[j], m)
  <2>1. CASE j + m <= n
    <3>1. j \in 0 .. n /\ j + m \in 0 .. n BY <2>1, <1>7
    <3>2. g[j] = f[j] /\ g[j + m] = f[j + m] BY <3>1
    <3> QED BY <3>1, <3>2, <1>7, <2>1 DEF Way
  <2>2. CASE j + m = n + 1 /\ m = 0
    <3>1. j = n + 1 /\ j + m = n + 1 BY <2>2
    <3>2. g[j] = Advance(z, 1) /\ g[j + m] = g[j] BY <3>1, <1>6
    <3> QED BY <3>2, <2>2, <1>2, AdvanceNone
  <2>3. CASE j + m = n + 1 /\ m # 0
    <3>1. PICK k \in Nat : m = k + 1 BY <2>3
    <3>2. j \in 0 .. n /\ j + k = n BY <2>3, <3>1
    <3>3. g[j] = f[j] /\ f[j] \in Places BY <3>2, <1>1
    <3>4. f[j].at \in Nat BY <3>3, PlaceIs, Parameters
    <3>5. f[j].at + k < PkgWords /\ f[j].at + k <= PkgWords BY <1>7, <3>1, <3>3, <3>4, Parameters
    <3>6. f[j + k] = Advance(f[j], k) BY <3>2, <3>5 DEF Way
    <3>7. Advance(Advance(f[j], k), 1) = Advance(f[j], k + 1) BY <3>3, <3>5, AdvanceTwice
    <3>8. Advance(z, 1) = Advance(g[j], m) BY <3>1, <3>2, <3>3, <3>6, <3>7, <1>1
    <3> QED BY <3>8, <2>3, <1>6
  <2> QED BY <2>1, <2>2, <2>3, <1>7
<1> HIDE DEF g
<1>8. Way(g, n + 1, a, Advance(z, 1)) BY <1>4, <1>6, <1>7 DEF Way
<1> QED BY <1>8 DEF g

(* A whole package.                                                        *)
LEMMA WayOfPackage ==
    ASSUME NEW a \in Places, a.at = 0
    PROVE  Way([j \in 0 .. PkgWords |-> Advance(a, j)], PkgWords, a, NextPackage(a))
<1> DEFINE f == [j \in 0 .. PkgWords |-> Advance(a, j)]
<1>1. PkgWords \in Nat /\ PkgWords >= 1 BY Parameters
<1>2. 0 \in 0 .. PkgWords /\ PkgWords \in 0 .. PkgWords BY <1>1
<1>3. f \in [0 .. PkgWords -> Places] BY AdvanceIsPlace
<1>4. f[0] = a BY <1>2, AdvanceNone
<1>5. f[PkgWords] = NextPackage(a) BY <1>1, <1>2 DEF Advance
<1>6. ASSUME NEW j \in 0 .. PkgWords, NEW m \in Nat, j + m <= PkgWords, f[j].at + m <= PkgWords
      PROVE  f[j + m] = Advance(f[j], m)
  <2>1. j + m \in 0 .. PkgWords /\ f[j] = Advance(a, j) /\ f[j + m] = Advance(a, j + m) BY <1>6, <1>1
  <2>2. CASE j < PkgWords
    <3>1. a.at + j < PkgWords BY <2>2
    <3> QED BY <2>1, <3>1, AdvanceTwice
  <2>3. CASE j = PkgWords
    <3>1. m = 0 /\ j + m = j BY <2>3, <1>6, <1>1
    <3>2. f[j] \in Places BY <1>3
    <3> QED BY <3>1, <3>2, AdvanceNone
  <2> QED BY <2>2, <2>3, <1>1
<1> HIDE DEF f
<1>7. Way(f, PkgWords, a, NextPackage(a)) BY <1>3, <1>4, <1>5, <1>6 DEF Way
<1> QED BY <1>7 DEF f

LEMMA WayLosesPackage ==
    ASSUME NEW n \in Nat, n >= PkgWords, NEW f, NEW a, NEW z, a.at = 0, Way(f, n, a, z)
    PROVE  /\ \A j \in 0 .. PkgWords : f[j] = Advance(a, j)
           /\ Way([j \in 0 .. n - PkgWords |-> f[j + PkgWords]], n - PkgWords, NextPackage(a), z)
<1> DEFINE g == [j \in 0 .. n - PkgWords |-> f[j + PkgWords]]
<1>1. PkgWords \in Nat /\ PkgWords >= 1 BY Parameters
<1>2. f \in [0 .. n -> Places] /\ f[0] = a /\ f[n] = z /\ a \in Places BY WayEnds DEF Way
<1>3. ASSUME NEW j \in 0 .. PkgWords PROVE f[j] = Advance(a, j)
  <2>1. 0 \in 0 .. n /\ j \in Nat /\ 0 + j <= n /\ f[0].at + j <= PkgWords BY <1>1, <1>2, <1>3
  <2>2. f[0 + j] = Advance(f[0], j) BY <2>1 DEF Way
  <2>3. 0 + j = j BY <2>1
  <2> QED BY <2>2, <2>3, <1>2
<1>4. f[PkgWords] = NextPackage(a)
  <2>1. PkgWords \in 0 .. PkgWords /\ ~(a.at + PkgWords < PkgWords) BY <1>1
  <2> QED BY <2>1, <1>3 DEF Advance
<1>5. n - PkgWords \in Nat BY <1>1
<1>6. \A j \in 0 .. n - PkgWords : j + PkgWords \in 0 .. n BY <1>1
<1>7. g \in [0 .. n - PkgWords -> Places] BY <1>2, <1>6
<1>8. 0 \in 0 .. n - PkgWords /\ n - PkgWords \in 0 .. n - PkgWords
      /\ 0 + PkgWords = PkgWords /\ (n - PkgWords) + PkgWords = n BY <1>1, <1>5
<1>9. g[0] = NextPackage(a) /\ g[n - PkgWords] = z BY <1>2, <1>4, <1>8
<1>10. ASSUME NEW j \in 0 .. n - PkgWords, NEW m \in Nat, j + m <= n - PkgWords, g[j].at + m <= PkgWords
       PROVE  g[j + m] = Advance(g[j], m)
  <2>1. j + PkgWords \in 0 .. n /\ (j + PkgWords) + m <= n /\ j + m \in 0 .. n - PkgWords BY <1>10, <1>1
  <2>2. g[j] = f[j + PkgWords] /\ g[j + m] = f[(j + m) + PkgWords] BY <2>1
  <2>3. f[(j + PkgWords) + m] = Advance(f[j + PkgWords], m) BY <2>1, <2>2, <1>10 DEF Way
  <2>4. (j + PkgWords) + m = (j + m) + PkgWords BY <1>10, <1>1
  <2> QED BY <2>2, <2>3, <2>4
<1> HIDE DEF g
<1>11. Way(g, n - PkgWords, NextPackage(a), z) BY <1>7, <1>9, <1>10 DEF Way
<1> QED BY <1>3, <1>11 DEF g

LEMMA RoundStays ==
    ASSUME NEW a \in Places, a.at = 0
    PROVE  Round([j \in 0 .. 0 |-> a], 0, a, a)
<1> DEFINE f == [j \in 0 .. 0 |-> a]
<1>1. f \in [0 .. 0 -> Places] /\ f[0] = a OBVIOUS
<1>2. \A j \in 0 .. 0 : f[j] = a OBVIOUS
<1>3. \A c \in Conns : Before(a, c) <= Before(a, c) BY BeforeIs
<1> HIDE DEF f
<1>4. Round(f, 0, a, a) BY <1>1, <1>2, <1>3 DEF Round
<1> QED BY <1>4 DEF f

LEMMA RoundPops ==
    ASSUME NEW n \in Nat, n > 0, NEW f, NEW a, NEW z, Round(f, n, a, z)
    PROVE  Round([j \in 0 .. n - 1 |-> f[j + 1]], n - 1, NextPackage(a), z)
<1> DEFINE g == [j \in 0 .. n - 1 |-> f[j + 1]]
<1>1. f \in [0 .. n -> Places] /\ f[0] = a /\ f[n] = z BY DEF Round
<1>2. \A j \in 0 .. n - 1 : j + 1 \in 0 .. n OBVIOUS
<1>3. g \in [0 .. n - 1 -> Places] BY <1>1, <1>2
<1>4. f[1] = NextPackage(f[1 - 1]) BY DEF Round
<1>5. g[0] = NextPackage(a) /\ g[n - 1] = z BY <1>1, <1>4
<1>6. \A j \in 0 .. n - 1 : g[j].at = 0 BY <1>2 DEF Round
<1>7. ASSUME NEW j \in 1 .. n - 1 PROVE g[j] = NextPackage(g[j - 1])
  <2>1. j + 1 \in 1 .. n /\ j - 1 \in 0 .. n - 1 /\ (j + 1) - 1 = (j - 1) + 1 OBVIOUS
  <2>2. f[j + 1] = NextPackage(f[(j + 1) - 1]) BY <2>1 DEF Round
  <2> QED BY <2>1, <2>2
<1>8. ASSUME NEW j \in 0 .. n - 1, NEW k \in 0 .. n - 1, NEW c \in Conns, j <= k
      PROVE  Before(g[j], c) <= Before(g[k], c)
  <2>1. j + 1 \in 0 .. n /\ k + 1 \in 0 .. n /\ j + 1 <= k + 1 BY <1>8
  <2>2. Before(f[j + 1], c) <= Before(f[k + 1], c) BY <2>1 DEF Round
  <2> QED BY <2>2
<1> HIDE DEF g
<1>9. Round(g, n - 1, NextPackage(a), z) BY <1>3, <1>5, <1>6, <1>7, <1>8 DEF Round
<1> QED BY <1>9 DEF g

LEMMA RoundGrows ==
    ASSUME NEW n \in Nat, NEW f, NEW a, NEW z, Round(f, n, a, z)
    PROVE  Round([j \in 0 .. n + 1 |-> IF j <= n THEN f[j] ELSE NextPackage(z)], n + 1, a, NextPackage(z))
<1> DEFINE g == [j \in 0 .. n + 1 |-> IF j <= n THEN f[j] ELSE NextPackage(z)]
<1>1. f \in [0 .. n -> Places] /\ f[0] = a /\ f[n] = z BY DEF Round
<1>2. n \in 0 .. n OBVIOUS
<1>3. z \in Places /\ z.at = 0 BY <1>1, <1>2 DEF Round
<1>4. NextPackage(z) \in Places /\ NextPackage(z).at = 0 BY <1>3, NextPackageIs
<1>5. \A j \in 0 .. n + 1 : (j <= n => j \in 0 .. n) /\ (~(j <= n) => j = n + 1) OBVIOUS
<1>6. g \in [0 .. n + 1 -> Places] BY <1>1, <1>4, <1>5
<1>7. \A j \in 0 .. n : g[j] = f[j] OBVIOUS
<1>8. g[n + 1] = NextPackage(z) /\ g[0] = a /\ g[n] = z BY <1>1, <1>2
<1>9. \A j \in 0 .. n + 1 : g[j].at = 0
  <2>1. \A j \in 0 .. n : g[j].at = 0 BY <1>7 DEF Round
  <2> QED BY <2>1, <1>4, <1>5, <1>8
<1>10. ASSUME NEW j \in 1 .. n + 1 PROVE g[j] = NextPackage(g[j - 1])
  <2>1. CASE j <= n
    <3>1. j \in 1 .. n /\ j \in 0 .. n /\ j - 1 \in 0 .. n BY <2>1
    <3>2. f[j] = NextPackage(f[j - 1]) BY <3>1 DEF Round
    <3> QED BY <3>1, <3>2, <1>7
  <2>2. CASE j = n + 1
    <3>1. j - 1 = n BY <2>2
    <3> QED BY <3>1, <2>2, <1>8
  <2> QED BY <2>1, <2>2
<1>11. ASSUME NEW j \in 0 .. n + 1, NEW k \in 0 .. n + 1, NEW c \in Conns, j <= k
       PROVE  Before(g[j], c) <= Before(g[k], c)
  <2>1. CASE k <= n
    <3>1. j \in 0 .. n /\ k \in 0 .. n BY <2>1, <1>11
    <3>2. Before(f[j], c) <= Before(f[k], c) BY <3>1, <1>11 DEF Round
    <3> QED BY <3>1, <3>2, <1>7
  <2>2. CASE k = n + 1 /\ j <= n
    <3>1. j \in 0 .. n /\ j <= n BY <2>2
    <3>2. Before(f[j], c) <= Before(f[n], c) BY <3>1, <1>2 DEF Round
    <3>3. Before(z, c) <= Before(NextPackage(z), c) BY <1>3, BeforeIs, BeforeNextPackage, Parameters
    <3>4. f[j] \in Places BY <3>1, <1>1
    <3>5. Before(f[j], c) \in Nat /\ Before(z, c) \in Nat /\ Before(NextPackage(z), c) \in Nat BY <3>4, <1>3, <1>4, BeforeIs
    <3>6. Before(f[j], c) <= Before(NextPackage(z), c) BY <3>2, <3>3, <3>5, <1>1
    <3> QED BY <3>1, <3>6, <2>2, <1>7, <1>8
  <2>3. CASE k = n + 1 /\ j = n + 1
    <3>1. Before(NextPackage(z), c) \in Nat BY <1>4, BeforeIs
    <3> QED BY <3>1, <2>3, <1>8
  <2> QED BY <2>1, <2>2, <2>3, <1>11
<1> HIDE DEF g
<1>12. Round(g, n + 1, a, NextPackage(z)) BY <1>6, <1>8, <1>9, <1>10, <1>11 DEF Round
<1> QED BY <1>12 DEF g

-----------------------------------------------------------------------------
(* Queues between places                                                   *)

LEMMA HoldsEnds ==
    ASSUME NEW S, NEW q \in Seq(S), NEW kind, NEW a, NEW z, Holds(kind, q, a, z)
    PROVE  a \in Places /\ z \in Places /\ (q = <<>> => a = z)
<1>1. PICK f : Way(f, Len(q), a, z) BY DEF Holds
<1>2. Len(q) \in Nat OBVIOUS
<1>3. q = <<>> => Len(q) = 0 OBVIOUS
<1> QED BY <1>1, <1>2, <1>3, WayEnds, WayEmpty

LEMMA HoldsNothing ==
    ASSUME NEW kind, NEW a \in Places
    PROVE  Holds(kind, <<>>, a, a)
<1>1. Len(<<>>) = 0 OBVIOUS
<1>2. PICK f : f = [j \in 0 .. 0 |-> a] OBVIOUS
<1>3. Way(f, 0, a, a) BY <1>2, WayStays
<1> QED BY <1>1, <1>3 DEF Holds

LEMMA HoldsPops ==
    ASSUME NEW S, NEW q \in Seq(S), q # <<>>, NEW kind, NEW a, NEW z, Holds(kind, q, a, z)
    PROVE  Head(q) = Item(kind, a) /\ Holds(kind, Tail(q), Advance(a, 1), z)
<1>1. PICK f : Way(f, Len(q), a, z) /\ \A j \in 1 .. Len(q) : q[j] = Item(kind, f[j - 1]) BY DEF Holds
<1>2. PICK n \in Nat : n = Len(q) OBVIOUS
<1>3. n > 0 /\ Head(q) = q[1] /\ Tail(q) \in Seq(S) /\ Len(Tail(q)) = n - 1 BY <1>2
<1>4. \A j \in 1 .. n - 1 : Tail(q)[j] = q[j + 1] BY <1>2, <1>3
<1>5. Way(f, n, a, z) /\ f[0] = a BY <1>1, <1>2 DEF Way
<1>6. PICK g : g = [j \in 0 .. n - 1 |-> f[j + 1]] OBVIOUS
<1>7. Way(g, n - 1, Advance(a, 1), z) BY <1>3, <1>5, <1>6, WayPops
<1>8. Head(q) = Item(kind, a)
  <2>1. 1 \in 1 .. Len(q) /\ 1 - 1 = 0 BY <1>2, <1>3
  <2> QED BY <2>1, <1>1, <1>3, <1>5
<1>9. ASSUME NEW j \in 1 .. n - 1 PROVE Tail(q)[j] = Item(kind, g[j - 1])
  <2>1. j + 1 \in 1 .. Len(q) /\ j - 1 \in 0 .. n - 1 /\ (j + 1) - 1 = (j - 1) + 1 BY <1>2
  <2>2. q[j + 1] = Item(kind, f[(j + 1) - 1]) BY <2>1, <1>1
  <2>3. g[j - 1] = f[(j - 1) + 1] BY <2>1, <1>6
  <2> QED BY <2>1, <2>2, <2>3, <1>4
<1> QED BY <1>3, <1>7, <1>8, <1>9 DEF Holds

LEMMA HoldsGrows ==
    ASSUME NEW S, NEW q \in Seq(S), NEW kind, NEW a, NEW z, Holds(kind, q, a, z), NEW e, e = Item(kind, z)
    PROVE  Holds(kind, Append(q, e), a, Advance(z, 1))
<1>1. PICK f : Way(f, Len(q), a, z) /\ \A j \in 1 .. Len(q) : q[j] = Item(kind, f[j - 1]) BY DEF Holds
<1>2. PICK n \in Nat : n = Len(q) OBVIOUS
<1>3. Len(Append(q, e)) = n + 1 /\ Append(q, e)[n + 1] = e /\ \A j \in 1 .. n : Append(q, e)[j] = q[j]
  <2>1. PICK T : T = S \cup {e} OBVIOUS
  <2>2. q \in Seq(T) /\ e \in T BY <2>1
  <2> QED BY <2>2, <1>2
<1>4. Way(f, n, a, z) /\ f[n] = z BY <1>1, <1>2 DEF Way
<1>5. PICK g : g = [j \in 0 .. n + 1 |-> IF j <= n THEN f[j] ELSE Advance(z, 1)] OBVIOUS
<1>6. Way(g, n + 1, a, Advance(z, 1)) BY <1>4, <1>5, WayGrows
<1>7. ASSUME NEW j \in 1 .. n + 1 PROVE Append(q, e)[j] = Item(kind, g[j - 1])
  <2>1. j - 1 \in 0 .. n + 1 /\ j - 1 <= n OBVIOUS
  <2>2. g[j - 1] = f[j - 1] BY <2>1, <1>5
  <2>3. CASE j = n + 1
    <3>1. j - 1 = n BY <2>3
    <3> QED BY <3>1, <2>2, <2>3, <1>3, <1>4
  <2>4. CASE j \in 1 .. n BY <2>4, <2>2, <1>1, <1>2, <1>3
  <2>5. j = n + 1 \/ j \in 1 .. n OBVIOUS
  <2> QED BY <2>3, <2>4, <2>5
<1> QED BY <1>3, <1>6, <1>7 DEF Holds

LEMMA PackageIsHeld ==
    ASSUME NEW S, NEW q \in Seq(S), Len(q) = PkgWords, NEW kind, NEW a \in Places, a.at = 0,
           \A j \in 1 .. PkgWords : q[j] = Item(kind, Advance(a, j - 1))
    PROVE  Holds(kind, q, a, NextPackage(a))
<1>1. PICK f : f = [j \in 0 .. PkgWords |-> Advance(a, j)] OBVIOUS
<1>2. Way(f, PkgWords, a, NextPackage(a)) BY <1>1, WayOfPackage
<1>3. ASSUME NEW j \in 1 .. Len(q) PROVE q[j] = Item(kind, f[j - 1])
  <2>1. j \in 1 .. PkgWords /\ j - 1 \in 0 .. PkgWords BY Parameters
  <2>2. f[j - 1] = Advance(a, j - 1) BY <2>1, <1>1
  <2> QED BY <2>1, <2>2
<1> QED BY <1>2, <1>3 DEF Holds

LEMMA HoldsLosesPackage ==
    ASSUME NEW S, NEW q \in Seq(S), Len(q) >= PkgWords, NEW kind, NEW a, NEW z, a.at = 0, Holds(kind, q, a, z)
    PROVE  /\ \A j \in 1 .. PkgWords : q[j] = Item(kind, Advance(a, j - 1))
           /\ Holds(kind, SubSeq(q, PkgWords + 1, Len(q)), NextPackage(a), z)
<1>1. PICK f : Way(f, Len(q), a, z) /\ \A j \in 1 .. Len(q) : q[j] = Item(kind, f[j - 1]) BY DEF Holds
<1>2. PICK n \in Nat : n = Len(q) OBVIOUS
<1>3. PkgWords \in Nat /\ PkgWords >= 1 BY Parameters
<1>4. n >= PkgWords /\ Way(f, n, a, z) BY <1>1, <1>2
<1>5. /\ \A j \in 0 .. PkgWords : f[j] = Advance(a, j)
      /\ Way([j \in 0 .. n - PkgWords |-> f[j + PkgWords]], n - PkgWords, NextPackage(a), z)
  BY <1>4, WayLosesPackage
<1>6. PICK g : g = [j \in 0 .. n - PkgWords |-> f[j + PkgWords]] OBVIOUS
<1>7. Way(g, n - PkgWords, NextPackage(a), z) BY <1>5, <1>6
<1>8. ASSUME NEW j \in 1 .. PkgWords PROVE q[j] = Item(kind, Advance(a, j - 1))
  <2>1. j \in 1 .. Len(q) /\ j - 1 \in 0 .. PkgWords BY <1>2, <1>3, <1>4
  <2> QED BY <2>1, <1>1, <1>5
<1>9. PICK t : t = SubSeq(q, PkgWords + 1, Len(q)) OBVIOUS
<1>10. Len(t) = n - PkgWords /\ \A j \in 1 .. n - PkgWords : t[j] = q[j + PkgWords]
  BY <1>2, <1>3, <1>4, <1>9
<1>11. ASSUME NEW j \in 1 .. n - PkgWords PROVE t[j] = Item(kind, g[j - 1])
  <2>1. j + PkgWords \in 1 .. Len(q) /\ j - 1 \in 0 .. n - PkgWords /\ (j + PkgWords) - 1 = (j - 1) + PkgWords
    BY <1>2, <1>3, <1>4
  <2>2. q[j + PkgWords] = Item(kind, f[(j + PkgWords) - 1]) BY <2>1, <1>1
  <2>3. g[j - 1] = f[(j - 1) + PkgWords] BY <2>1, <1>6
  <2> QED BY <2>1, <2>2, <2>3, <1>10
<1>12. Holds(kind, t, NextPackage(a), z) BY <1>7, <1>10, <1>11 DEF Holds
<1> QED BY <1>8, <1>9, <1>12

LEMMA PackagesEnds ==
    ASSUME NEW S, NEW q \in Seq(S), NEW a, NEW z, Packages(q, a, z)
    PROVE  /\ a \in Places /\ z \in Places /\ a.at = 0 /\ z.at = 0
           /\ \A c \in Conns : Before(a, c) <= Before(z, c)
<1>1. PICK f : Round(f, Len(q), a, z) BY DEF Packages
<1>2. 0 \in 0 .. Len(q) /\ Len(q) \in 0 .. Len(q) /\ 0 <= Len(q) OBVIOUS
<1> QED BY <1>1, <1>2 DEF Round

LEMMA NoPackages ==
    ASSUME NEW a \in Places, a.at = 0
    PROVE  Packages(<<>>, a, a)
<1>1. Len(<<>>) = 0 OBVIOUS
<1>2. PICK f : f = [j \in 0 .. 0 |-> a] OBVIOUS
<1>3. Round(f, 0, a, a) BY <1>2, RoundStays
<1> QED BY <1>1, <1>3 DEF Packages

LEMMA PackagesPop ==
    ASSUME NEW S, NEW q \in Seq(S), q # <<>>, NEW a, NEW z, Packages(q, a, z)
    PROVE  Head(q) = PackageAt(a) /\ Packages(Tail(q), NextPackage(a), z)
<1>1. PICK f : Round(f, Len(q), a, z) /\ \A j \in 1 .. Len(q) : q[j] = PackageAt(f[j - 1]) BY DEF Packages
<1>2. PICK n \in Nat : n = Len(q) OBVIOUS
<1>3. n > 0 /\ Head(q) = q[1] /\ Tail(q) \in Seq(S) /\ Len(Tail(q)) = n - 1 BY <1>2
<1>4. \A j \in 1 .. n - 1 : Tail(q)[j] = q[j + 1] BY <1>2, <1>3
<1>5. Round(f, n, a, z) /\ f[0] = a BY <1>1, <1>2 DEF Round
<1>6. PICK g : g = [j \in 0 .. n - 1 |-> f[j + 1]] OBVIOUS
<1>7. Round(g, n - 1, NextPackage(a), z) BY <1>3, <1>5, <1>6, RoundPops
<1>8. Head(q) = PackageAt(a)
  <2>1. 1 \in 1 .. Len(q) /\ 1 - 1 = 0 BY <1>2, <1>3
  <2> QED BY <2>1, <1>1, <1>3, <1>5
<1>9. ASSUME NEW j \in 1 .. n - 1 PROVE Tail(q)[j] = PackageAt(g[j - 1])
  <2>1. j + 1 \in 1 .. Len(q) /\ j - 1 \in 0 .. n - 1 /\ (j + 1) - 1 = (j - 1) + 1 BY <1>2
  <2>2. q[j + 1] = PackageAt(f[(j + 1) - 1]) BY <2>1, <1>1
  <2>3. g[j - 1] = f[(j - 1) + 1] BY <2>1, <1>6
  <2> QED BY <2>1, <2>2, <2>3, <1>4
<1> QED BY <1>3, <1>7, <1>8, <1>9 DEF Packages

LEMMA PackagesGrow ==
    ASSUME NEW S, NEW q \in Seq(S), NEW a, NEW z, Packages(q, a, z), NEW e, e = PackageAt(z)
    PROVE  Packages(Append(q, e), a, NextPackage(z))
<1>1. PICK f : Round(f, Len(q), a, z) /\ \A j \in 1 .. Len(q) : q[j] = PackageAt(f[j - 1]) BY DEF Packages
<1>2. PICK n \in Nat : n = Len(q) OBVIOUS
<1>3. Len(Append(q, e)) = n + 1 /\ Append(q, e)[n + 1] = e /\ \A j \in 1 .. n : Append(q, e)[j] = q[j]
  <2>1. PICK T : T = S \cup {e} OBVIOUS
  <2>2. q \in Seq(T) /\ e \in T BY <2>1
  <2> QED BY <2>2, <1>2
<1>4. Round(f, n, a, z) /\ f[n] = z BY <1>1, <1>2 DEF Round
<1>5. PICK g : g = [j \in 0 .. n + 1 |-> IF j <= n THEN f[j] ELSE NextPackage(z)] OBVIOUS
<1>6. Round(g, n + 1, a, NextPackage(z)) BY <1>4, <1>5, RoundGrows
<1>7. ASSUME NEW j \in 1 .. n + 1 PROVE Append(q, e)[j] = PackageAt(g[j - 1])
  <2>1. j - 1 \in 0 .. n + 1 /\ j - 1 <= n OBVIOUS
  <2>2. g[j - 1] = f[j - 1] BY <2>1, <1>5
  <2>3. CASE j = n + 1
    <3>1. j - 1 = n BY <2>3
    <3> QED BY <3>1, <2>2, <2>3, <1>3, <1>4
  <2>4. CASE j \in 1 .. n BY <2>4, <2>2, <1>1, <1>2, <1>3
  <2>5. j = n + 1 \/ j \in 1 .. n OBVIOUS
  <2> QED BY <2>3, <2>4, <2>5
<1> QED BY <1>3, <1>6, <1>7 DEF Packages

-----------------------------------------------------------------------------
(* The inductive invariant                                                 *)

WordSet == Conns \X Nat
Letters == SUBSET WordSet
Requests == [conn : Conns, length : Nat]
Sent == [sum : Letters, last : BOOLEAN]

GatherTypes ==
    /\ arrived \in [Conns -> Nat] /\ readAt \in [Conns -> Nat]
    /\ available \in [Conns -> Nat] /\ rxCount \in [Conns -> Nat]
    /\ rxTurn \in Conns
    /\ notifications \in Seq(Requests) /\ readPkg \in Seq(Requests)
    /\ rxData \in Seq([word : WordSet, last : BOOLEAN])
    /\ gathered \in Seq(WordSet)
    /\ streamIndex \in Conns /\ pkgWordIndex \in 0 .. PkgWords - 1
    /\ lanes \in [Conns -> Seq(WordSet)]
SumTypes == sums \in Seq(Letters) /\ toSend \in Seq(Letters) /\ result \in Seq(Letters)
CastTypes ==
    /\ txTurn \in Conns /\ sentWords \in Nat /\ pkgWords \in Nat
    /\ sending \in {None} \cup [source : {"stream", "buffer"}, at : 1 .. PkgWords]
    /\ buffer \in Seq(Letters)
    /\ txMeta \in Seq(Requests) /\ granted \in Seq(Requests)
    /\ txStatus \in Seq([conn : Conns, length : Nat, error : {0, 2}])
    /\ txData \in Seq(Sent)
    /\ received \in [Conns -> Seq(Sent)]

(* A lane holds the words of its connection behind the n that are added.   *)
IsLane(q, c, n, m) == Len(q) + n = m /\ \A j \in 1 .. Len(q) : q[j] = <<c, n + j>>

(* Where the split (x), the end of what is gathered (y), the toe (z) and   *)
(* the requests (w) stand.                                                 *)
GatherInv ==
    \E x, y, z, w \in Places :
        /\ x.conn = streamIndex /\ x.at = pkgWordIndex /\ w.conn = rxTurn
        /\ Holds("word", gathered, x, y) /\ Holds("data", rxData, y, z) /\ Packages(readPkg, z, w)
        /\ \A c \in Conns :
              /\ IsLane(lanes[c], c, Len(result) + Len(sums), Before(x, c))
              /\ readAt[c] = Before(z, c) /\ rxCount[c] = Before(w, c)

(* The words of connection c in the notifications of q are n.              *)
Notices(q, c, n) ==
    \E f \in [0 .. Len(q) -> Nat] :
        /\ f[0] = n /\ f[Len(q)] = 0
        /\ \A k \in 1 .. Len(q) : f[k - 1] = f[k] + (IF q[k].conn = c THEN q[k].length ELSE 0)
NoticeInv ==
    \A c \in Conns :
        /\ arrived[c] <= ExpWords
        /\ \E n \in Nat : Notices(notifications, c, n) /\ available[c] + rxCount[c] + n = arrived[c]

AreSums(q, n) == \A j \in 1 .. Len(q) : q[j] = SumOf(n + j)
SumsInv ==
    /\ Len(toSend) <= Len(result)
    /\ AreSums(result, 0) /\ AreSums(sums, Len(result)) /\ AreSums(toSend, Len(result) - Len(toSend))

(* Whose turn it is to be sent to, and what was granted last.              *)
Turn(c, n) == [conn |-> c, base |-> n, at |-> 0]
Granted(status, p) == IF status # <<>> /\ Head(status).error = 0 THEN NextPackage(p) ELSE p

(* There is one request at a time, for this turn.                          *)
OneRequest(meta, status, begun, p) ==
    \/ meta = <<>> /\ status = <<>>
    \/ begun /\ meta = <<PackageAt(p)>> /\ status = <<>>
    \/ begun /\ meta = <<>> /\ \E e \in {0, 2} : status = <<[conn |-> p.conn, length |-> PkgWords, error |-> e]>>

(* While a package is sent, its place is that of the turn before.          *)
IsSending(now, s, p, n) ==
    IF now = None THEN s = p
    ELSE /\ now.at = s.at + 1 /\ NextPackage(s) = p /\ n = PkgWords
         /\ now.source = IF s.conn = 0 THEN "stream" ELSE "buffer"

(* The buffer has what the first connection got in this round.             *)
IsBuffer(now, b, s) ==
    now # None \/ s.conn # 0 => Len(b) = (IF s.conn = 0 THEN s.at ELSE PkgWords) /\ AreSums(b, s.base)

AreReceived(q, n) ==
    Len(q) = n /\ \A i \in 1 .. Len(q) : q[i] = [sum |-> SumOf(i), last |-> EndsPackage(i)]

(* Where the toe (t) and the words handed to it (s) stand.                 *)
CastInv ==
    /\ sentWords \in Multiples /\ sentWords <= ExpWords
    /\ OneRequest(txMeta, txStatus, started, Turn(txTurn, sentWords))
    /\ txTurn # 0 \/ sentWords > 0 => pkgWords = PkgWords
    /\ \E t, s \in Places :
          /\ Packages(granted, t, Granted(txStatus, Turn(txTurn, sentWords)))
          /\ Holds("sum", txData, t, s)
          /\ IsSending(sending, s, Turn(txTurn, sentWords), pkgWords)
          /\ IsBuffer(sending, buffer, s)
          /\ Len(result) - Len(toSend) = Before(s, 0)
          /\ \A c \in Conns : AreReceived(received[c], Before(t, c))

IInv == GatherTypes /\ SumTypes /\ CastTypes /\ GatherInv /\ NoticeInv /\ SumsInv /\ CastInv

-----------------------------------------------------------------------------
(* What a step leaves alone                                                *)

LEMMA GatherTypesFrame ==
    GatherTypes /\ UNCHANGED <<rxVars, available, rxCount, rxTurn, gathered, streamIndex, pkgWordIndex, lanes>> => GatherTypes'
BY DEF GatherTypes, rxVars
LEMMA SumTypesFrame == SumTypes /\ UNCHANGED <<sums, toSend, result>> => SumTypes'
BY DEF SumTypes
LEMMA CastTypesFrame == CastTypes /\ UNCHANGED <<castVars, txVars>> => CastTypes'
BY DEF CastTypes, castVars, txVars
LEMMA GatherFrame ==
    GatherInv /\ UNCHANGED <<rxVars, rxCount, rxTurn, gathered, streamIndex, pkgWordIndex, lanes, sums, result>> => GatherInv'
BY DEF GatherInv, rxVars
LEMMA NoticeFrame == NoticeInv /\ UNCHANGED <<arrived, notifications, available, rxCount>> => NoticeInv'
BY DEF NoticeInv
LEMMA SumsFrame == SumsInv /\ UNCHANGED <<sums, toSend, result>> => SumsInv'
BY DEF SumsInv
LEMMA CastFrame == CastInv /\ UNCHANGED <<castVars, txVars, toSend, result>> => CastInv'
BY DEF CastInv, castVars, txVars

-----------------------------------------------------------------------------
(* The start                                                               *)

Origin == [conn |-> 0, base |-> 0, at |-> 0]

LEMMA OriginIs == Origin \in Places /\ \A c \in Conns : Before(Origin, c) = 0
<1>1. 0 \in Conns /\ 0 \in 0 .. PkgWords - 1 BY Parameters DEF Conns
<1>2. 0 \in Multiples
  <2>1. 0 * PkgWords = 0 /\ 0 \in Nat BY Parameters
  <2> QED BY <2>1 DEF Multiples
<1>3. Origin \in Places BY <1>1, <1>2 DEF Origin, Places
<1>4. \A c \in Conns : Before(Origin, c) = 0 BY Parameters DEF Origin, Before, Conns
<1> QED BY <1>3, <1>4

LEMMA InitInv == Init => IInv
<1> SUFFICES ASSUME Init PROVE IInv OBVIOUS
<1> USE DEF Init
<1>1. 0 \in Conns /\ 0 \in 0 .. PkgWords - 1 /\ PkgWords \in Nat /\ ExpWords \in Nat BY Parameters DEF Conns
<1>2. GatherTypes BY <1>1 DEF GatherTypes
<1>3. SumTypes BY DEF SumTypes
<1>4. CastTypes BY <1>1 DEF CastTypes
<1>5. GatherInv
  <2>1. PICK o \in Places : o = Origin /\ o.conn = 0 /\ o.at = 0 BY OriginIs DEF Origin
  <2>2. Holds("word", <<>>, o, o) /\ Holds("data", <<>>, o, o) /\ Packages(<<>>, o, o)
    BY <2>1, HoldsNothing, NoPackages
  <2>3. \A c \in Conns : Before(o, c) = 0 BY <2>1, OriginIs
  <2>4. \A c \in Conns : /\ IsLane(lanes[c], c, Len(result) + Len(sums), Before(o, c))
                         /\ readAt[c] = Before(o, c) /\ rxCount[c] = Before(o, c)
    BY <2>3 DEF IsLane
  <2> QED BY <2>1, <2>2, <2>4 DEF GatherInv
<1>6. NoticeInv
  <2> SUFFICES ASSUME NEW c \in Conns
               PROVE  arrived[c] <= ExpWords /\ \E n \in Nat : Notices(notifications, c, n) /\ available[c] + rxCount[c] + n = arrived[c]
    BY DEF NoticeInv
  <2>1. arrived[c] = 0 /\ available[c] = 0 /\ rxCount[c] = 0 /\ notifications = <<>> OBVIOUS
  <2>2. PICK f : f = [k \in 0 .. 0 |-> 0] OBVIOUS
  <2>3. f \in [0 .. 0 -> Nat] /\ f[0] = 0 BY <2>2
  <2>4. Notices(<<>>, c, 0) BY <2>3 DEF Notices
  <2> QED BY <2>1, <2>4, <1>1
<1>7. SumsInv BY DEF SumsInv, AreSums
<1>8. CastInv
  <2>1. PICK o \in Places : o = Origin /\ o.conn = 0 /\ o.at = 0 /\ o = Turn(txTurn, sentWords) BY OriginIs DEF Origin, Turn
  <2>2. Holds("sum", <<>>, o, o) /\ Packages(<<>>, o, o) BY <2>1, HoldsNothing, NoPackages
  <2>3. \A c \in Conns : Before(o, c) = 0 BY <2>1, OriginIs
  <2>4. sentWords \in Multiples BY <2>1, PlaceIs DEF Origin
  <2>5. Granted(txStatus, o) = o BY DEF Granted
  <2>6. IsSending(sending, o, o, pkgWords) BY DEF IsSending
  <2>7. IsBuffer(sending, buffer, o) BY <2>1 DEF IsBuffer
  <2>8. \A c \in Conns : AreReceived(received[c], Before(o, c)) BY <2>3 DEF AreReceived
  <2>9. OneRequest(txMeta, txStatus, started, o) BY DEF OneRequest
  <2>10. Len(result) - Len(toSend) = Before(o, 0) BY <2>3, <1>1
  <2> QED BY <2>1, <2>2, <2>4, <2>5, <2>6, <2>7, <2>8, <2>9, <2>10, <1>1 DEF CastInv
<1> QED BY <1>2, <1>3, <1>4, <1>5, <1>6, <1>7, <1>8 DEF IInv

-----------------------------------------------------------------------------
(* Gather                                                                  *)

LEMMA NoticesTaken ==
    ASSUME NEW q \in Seq(Requests), q # <<>>, NEW c \in Conns, NEW n \in Nat, Notices(q, c, n)
    PROVE  \E m \in Nat : Notices(Tail(q), c, m) /\ n = m + (IF Head(q).conn = c THEN Head(q).length ELSE 0)
<1>1. PICK f \in [0 .. Len(q) -> Nat] :
        /\ f[0] = n /\ f[Len(q)] = 0
        /\ \A k \in 1 .. Len(q) : f[k - 1] = f[k] + (IF q[k].conn = c THEN q[k].length ELSE 0)
  BY DEF Notices
<1>2. PICK l \in Nat : l = Len(q) OBVIOUS
<1>3. l > 0 /\ Head(q) = q[1] /\ Tail(q) \in Seq(Requests) /\ Len(Tail(q)) = l - 1
      /\ \A k \in 1 .. l - 1 : Tail(q)[k] = q[k + 1] BY <1>2
<1>4. PICK g : g = [k \in 0 .. l - 1 |-> f[k + 1]] OBVIOUS
<1>5. \A k \in 0 .. l - 1 : k + 1 \in 0 .. Len(q) BY <1>2
<1>6. g \in [0 .. l - 1 -> Nat] BY <1>4, <1>5
<1>7. g[l - 1] = 0 /\ g[0] = f[1] /\ f[1] \in Nat BY <1>1, <1>2, <1>3, <1>4
<1>8. ASSUME NEW k \in 1 .. l - 1
      PROVE  g[k - 1] = g[k] + (IF Tail(q)[k].conn = c THEN Tail(q)[k].length ELSE 0)
  <2>1. k + 1 \in 1 .. Len(q) /\ (k + 1) - 1 = k /\ k \in 0 .. l - 1 /\ k - 1 \in 0 .. l - 1 /\ (k - 1) + 1 = k BY <1>2
  <2>2. f[k] = f[k + 1] + (IF q[k + 1].conn = c THEN q[k + 1].length ELSE 0) BY <2>1, <1>1
  <2>3. g[k - 1] = f[k] /\ g[k] = f[k + 1] /\ Tail(q)[k] = q[k + 1] BY <2>1, <1>3, <1>4
  <2> QED BY <2>2, <2>3
<1>9. Notices(Tail(q), c, f[1]) BY <1>3, <1>6, <1>7, <1>8 DEF Notices
<1>10. n = f[1] + (IF Head(q).conn = c THEN Head(q).length ELSE 0)
  <2>1. 1 \in 1 .. Len(q) /\ 1 - 1 = 0 BY <1>2, <1>3
  <2> QED BY <2>1, <1>1, <1>3
<1> QED BY <1>7, <1>9, <1>10

LEMMA NoticesCome ==
    ASSUME NEW q \in Seq(Requests), NEW e \in Requests, NEW c \in Conns, NEW n \in Nat, Notices(q, c, n)
    PROVE  Notices(Append(q, e), c, n + (IF e.conn = c THEN e.length ELSE 0))
<1>1. PICK f \in [0 .. Len(q) -> Nat] :
        /\ f[0] = n /\ f[Len(q)] = 0
        /\ \A k \in 1 .. Len(q) : f[k - 1] = f[k] + (IF q[k].conn = c THEN q[k].length ELSE 0)
  BY DEF Notices
<1>2. PICK l \in Nat : l = Len(q) OBVIOUS
<1>3. PICK m \in Nat : m = (IF e.conn = c THEN e.length ELSE 0) BY DEF Requests
<1>4. Len(Append(q, e)) = l + 1 /\ Append(q, e)[l + 1] = e /\ \A k \in 1 .. l : Append(q, e)[k] = q[k] BY <1>2
<1>5. PICK g : g = [k \in 0 .. l + 1 |-> IF k <= l THEN f[k] + m ELSE 0] OBVIOUS
<1>6. \A k \in 0 .. l + 1 : k <= l => k \in 0 .. Len(q) BY <1>2
<1>7. g \in [0 .. l + 1 -> Nat] BY <1>5, <1>6
<1>8. 0 \in 0 .. l + 1 /\ 0 <= l /\ l + 1 \in 0 .. l + 1 /\ ~(l + 1 <= l) OBVIOUS
<1>9. g[0] = n + m /\ g[l + 1] = 0 BY <1>1, <1>5, <1>8
<1>10. ASSUME NEW k \in 1 .. l + 1
       PROVE  g[k - 1] = g[k] + (IF Append(q, e)[k].conn = c THEN Append(q, e)[k].length ELSE 0)
  <2>1. k - 1 \in 0 .. l + 1 /\ k - 1 <= l /\ k \in 0 .. l + 1 /\ k - 1 \in 0 .. Len(q) BY <1>2
  <2>2. g[k - 1] = f[k - 1] + m BY <2>1, <1>5
  <2>3. CASE k = l + 1
    <3>1. k - 1 = Len(q) BY <2>3, <1>2
    <3>2. g[k - 1] = m /\ g[k] = 0 BY <3>1, <2>2, <2>3, <1>1, <1>9
    <3> QED BY <3>2, <2>3, <1>3, <1>4
  <2>4. CASE k \in 1 .. l
    <3>1. k \in 1 .. Len(q) /\ k <= l /\ k \in 0 .. Len(q) BY <2>4, <1>2
    <3>2. PICK d : d = IF q[k].conn = c THEN q[k].length ELSE 0 OBVIOUS
    <3>3. f[k - 1] = f[k] + d BY <3>1, <3>2, <1>1
    <3>4. q[k] \in Requests BY <3>1
    <3>5. d \in Nat /\ f[k] \in Nat BY <3>1, <3>2, <3>4 DEF Requests
    <3>6. g[k] = f[k] + m BY <3>1, <2>1, <1>5
    <3> QED BY <2>2, <2>4, <3>2, <3>3, <3>5, <3>6, <1>4
  <2>5. k = l + 1 \/ k \in 1 .. l OBVIOUS
  <2> QED BY <2>3, <2>4, <2>5
<1>11. Notices(Append(q, e), c, n + m) BY <1>4, <1>7, <1>9, <1>10 DEF Notices
<1> QED BY <1>3, <1>11

LEMMA ArriveKeeps ==
    ASSUME IInv, NEW c \in Conns, NEW l \in 1 .. ExpWords, Arrive(c, l)
    PROVE  IInv'
<1> USE DEF IInv
<1>1. SumTypes' BY SumTypesFrame DEF Arrive, sumVars
<1>2. CastTypes' BY CastTypesFrame DEF Arrive
<1>3. GatherInv'
  BY DEF GatherInv, Arrive, handshakeVars, sumVars
<1>4. SumsInv' BY SumsFrame DEF Arrive, sumVars
<1>5. CastInv' BY CastFrame DEF Arrive, sumVars
<1>6. arrived \in [Conns -> Nat] /\ notifications \in Seq(Requests) BY DEF GatherTypes
<1>7. l \in Nat /\ ExpWords \in Nat BY Parameters
<1>8. PICK e \in Requests : e = [conn |-> c, length |-> l] BY <1>7 DEF Requests
<1>9. arrived' = [arrived EXCEPT ![c] = @ + l] /\ notifications' = Append(notifications, e)
      /\ arrived[c] + l <= ExpWords /\ UNCHANGED <<available, rxCount>>
  BY <1>8 DEF Arrive, handshakeVars
<1>10. GatherTypes'
  <2>1. arrived' \in [Conns -> Nat] /\ notifications' \in Seq(Requests) BY <1>6, <1>7, <1>9
  <2> QED BY <2>1 DEF GatherTypes, Arrive, handshakeVars, sumVars
<1>11. NoticeInv'
  <2> SUFFICES ASSUME NEW d \in Conns
               PROVE  arrived'[d] <= ExpWords /\ \E n \in Nat : Notices(notifications', d, n) /\ available'[d] + rxCount'[d] + n = arrived'[d]
    BY DEF NoticeInv
  <2>1. PICK n \in Nat : Notices(notifications, d, n) /\ available[d] + rxCount[d] + n = arrived[d] BY DEF NoticeInv
  <2>2. PICK m \in Nat : m = (IF e.conn = d THEN e.length ELSE 0) BY <1>7, <1>8
  <2>3. Notices(notifications', d, n + m) BY <2>1, <2>2, <1>6, <1>9, NoticesCome
  <2>4. available[d] \in Nat /\ rxCount[d] \in Nat /\ arrived[d] \in Nat /\ arrived[d] <= ExpWords
    BY DEF GatherTypes, NoticeInv
  <2>5. arrived'[d] = arrived[d] + m BY <2>2, <1>6, <1>8, <1>9
  <2>6. arrived'[d] <= ExpWords BY <2>2, <2>4, <2>5, <1>7, <1>8, <1>9
  <2>7. available' = available /\ rxCount' = rxCount BY <1>9
  <2>8. n + m \in Nat /\ available'[d] + rxCount'[d] + (n + m) = arrived'[d]
    <3>1. available[d] + rxCount[d] + (n + m) = arrived[d] + m BY <2>1, <2>4
    <3> QED BY <3>1, <2>5, <2>7
  <2> QED BY <2>3, <2>6, <2>8
<1> QED BY <1>1, <1>2, <1>3, <1>4, <1>5, <1>10, <1>11

LEMMA NotifiedKeeps ==
    ASSUME IInv, Notified
    PROVE  IInv'
<1> USE DEF IInv
<1>1. SumTypes' BY SumTypesFrame DEF Notified, sumVars
<1>2. CastTypes' BY CastTypesFrame DEF Notified
<1>3. GatherInv'
  BY DEF GatherInv, Notified, sumVars
<1>4. SumsInv' BY SumsFrame DEF Notified, sumVars
<1>5. CastInv' BY CastFrame DEF Notified, sumVars
<1>6. available \in [Conns -> Nat] /\ notifications \in Seq(Requests) /\ notifications # <<>> BY DEF GatherTypes, Notified
<1>7. PICK e \in Requests : e = Head(notifications) BY <1>6
<1>8. e.conn \in Conns /\ e.length \in Nat BY DEF Requests
<1>9. available' = [available EXCEPT ![e.conn] = @ + e.length] /\ notifications' = Tail(notifications)
      /\ UNCHANGED <<arrived, rxCount>>
  BY <1>7 DEF Notified
<1>10. GatherTypes'
  <2>1. available' \in [Conns -> Nat] /\ notifications' \in Seq(Requests) BY <1>6, <1>8, <1>9
  <2> QED BY <2>1 DEF GatherTypes, Notified, sumVars
<1>11. NoticeInv'
  <2> SUFFICES ASSUME NEW d \in Conns
               PROVE  arrived'[d] <= ExpWords /\ \E n \in Nat : Notices(notifications', d, n) /\ available'[d] + rxCount'[d] + n = arrived'[d]
    BY DEF NoticeInv
  <2>1. PICK n \in Nat : Notices(notifications, d, n) /\ available[d] + rxCount[d] + n = arrived[d] BY DEF NoticeInv
  <2>2. PICK k \in Nat : k = (IF e.conn = d THEN e.length ELSE 0) BY <1>8
  <2>3. PICK m \in Nat : Notices(notifications', d, m) /\ n = m + k
    BY <2>1, <2>2, <1>6, <1>7, <1>9, NoticesTaken
  <2>4. available[d] \in Nat /\ rxCount[d] \in Nat /\ arrived[d] \in Nat /\ arrived[d] <= ExpWords
    BY DEF GatherTypes, NoticeInv
  <2>5. available'[d] = available[d] + k BY <2>2, <1>6, <1>8, <1>9
  <2>6. available'[d] + rxCount'[d] + m = arrived'[d] BY <2>1, <2>3, <2>4, <2>5, <1>9
  <2> QED BY <2>3, <2>4, <2>6, <1>9
<1> QED BY <1>1, <1>2, <1>3, <1>4, <1>5, <1>10, <1>11

LEMMA RequestPackageKeeps ==
    ASSUME IInv, RequestPackage
    PROVE  IInv'
<1> USE DEF IInv
<1>1. SumTypes' BY SumTypesFrame DEF RequestPackage, sumVars
<1>2. CastTypes' BY CastTypesFrame DEF RequestPackage
<1>3. SumsInv' BY SumsFrame DEF RequestPackage, sumVars
<1>4. CastInv' BY CastFrame DEF RequestPackage, sumVars
<1>5. PICK x \in Places, y \in Places, z \in Places, w \in Places :
        /\ x.conn = streamIndex /\ x.at = pkgWordIndex /\ w.conn = rxTurn
        /\ Holds("word", gathered, x, y) /\ Holds("data", rxData, y, z) /\ Packages(readPkg, z, w)
        /\ \A c \in Conns :
              /\ IsLane(lanes[c], c, Len(result) + Len(sums), Before(x, c))
              /\ readAt[c] = Before(z, c) /\ rxCount[c] = Before(w, c)
  BY DEF GatherInv
<1>6. /\ readPkg \in Seq(Requests) /\ rxCount \in [Conns -> Nat] /\ available \in [Conns -> Nat]
      /\ rxTurn \in Conns /\ notifications \in Seq(Requests)
  BY DEF GatherTypes
<1>7. PkgWords \in Nat /\ PkgWords >= 1 /\ ExpWords \in Nat /\ ExpWords \in Multiples BY Parameters
<1>8. w.at = 0 BY <1>5, <1>6, PackagesEnds
<1>9. rxCount[rxTurn] = w.base /\ w.base \in Multiples /\ w.base \in Nat
  <2>1. w.base \in Multiples /\ w.base \in Nat BY PlaceIs
  <2>2. rxTurn \in Nat BY <1>6, ConnsTurn
  <2> QED BY <2>1, <2>2, <1>5, <1>6, <1>8 DEF Before
<1>10. available[rxTurn] + rxCount[rxTurn] <= ExpWords
  <2>1. PICK n \in Nat : available[rxTurn] + rxCount[rxTurn] + n = arrived[rxTurn] BY <1>6 DEF NoticeInv
  <2>2. arrived[rxTurn] <= ExpWords BY <1>6 DEF NoticeInv
  <2>3. available[rxTurn] \in Nat /\ rxCount[rxTurn] \in Nat /\ arrived[rxTurn] \in Nat BY <1>6 DEF GatherTypes
  <2> QED BY <2>1, <2>2, <2>3, <1>7
<1>11. ReadLength(rxTurn) = PkgWords /\ available[rxTurn] >= PkgWords
  <2>1. available[rxTurn] \in Nat /\ rxCount[rxTurn] \in Nat BY <1>6
  <2>2. ReadLength(rxTurn) > 0 BY DEF RequestPackage
  <2>3. CASE available[rxTurn] >= PkgWords BY <2>3 DEF ReadLength
  <2>4. CASE ~(available[rxTurn] >= PkgWords)
    <3>1. available[rxTurn] > 0 /\ rxCount[rxTurn] + PkgWords > ExpWords BY <2>2, <2>4 DEF ReadLength
    <3>2. w.base < ExpWords BY <3>1, <2>1, <1>9, <1>10, <1>7
    <3>3. w.base + PkgWords <= ExpWords BY <3>2, <1>7, <1>9, NothingBetweenMultiples
    <3> QED BY <3>1, <3>3, <1>9, <1>7
  <2> QED BY <2>3, <2>4
<1>12. /\ readPkg' = Append(readPkg, PackageAt(w))
       /\ rxCount' = [rxCount EXCEPT ![rxTurn] = @ + PkgWords]
       /\ available' = [available EXCEPT ![rxTurn] = @ - PkgWords]
       /\ rxTurn' = NextConn(rxTurn)
       /\ UNCHANGED <<arrived, readAt, notifications, rxData, gathered, streamIndex, pkgWordIndex, lanes, sums, result>>
  BY <1>5, <1>11 DEF RequestPackage, PackageAt, sumVars
<1>13. GatherTypes'
  <2>1. PackageAt(w) \in Requests BY <1>5, <1>6, <1>7 DEF PackageAt, Requests
  <2>2. readPkg' \in Seq(Requests) BY <2>1, <1>6, <1>12
  <2>3. rxCount' \in [Conns -> Nat] BY <1>6, <1>7, <1>12
  <2>4. available[rxTurn] - PkgWords \in Nat BY <1>6, <1>7, <1>11
  <2>5. available' \in [Conns -> Nat] BY <2>4, <1>6, <1>12
  <2>6. rxTurn' \in Conns BY <1>6, <1>12, ConnsTurn
  <2> QED BY <2>2, <2>3, <2>5, <2>6, <1>12 DEF GatherTypes
<1>14. GatherInv'
  <2>1. PICK v \in Places : v = NextPackage(w) /\ v.conn = NextConn(w.conn) BY NextPackageIs
  <2>2. Packages(readPkg', z, v) BY <2>1, <1>5, <1>6, <1>12, PackagesGrow
  <2>3. ASSUME NEW c \in Conns PROVE rxCount'[c] = Before(v, c)
    <3>1. Before(v, c) = IF c = w.conn THEN Before(w, c) + PkgWords ELSE Before(w, c)
      BY <2>1, <1>8, BeforeNextPackage
    <3>2. rxCount[c] = Before(w, c) BY <1>5
    <3> QED BY <3>1, <3>2, <1>5, <1>6, <1>12
  <2>4. v.conn = rxTurn' BY <2>1, <1>5, <1>12
  <2> QED BY <2>2, <2>3, <2>4, <1>5, <1>12 DEF GatherInv
<1>15. NoticeInv'
  <2> SUFFICES ASSUME NEW d \in Conns
               PROVE  arrived'[d] <= ExpWords /\ \E n \in Nat : Notices(notifications', d, n) /\ available'[d] + rxCount'[d] + n = arrived'[d]
    BY DEF NoticeInv
  <2>1. PICK n \in Nat : Notices(notifications, d, n) /\ available[d] + rxCount[d] + n = arrived[d] BY DEF NoticeInv
  <2>2. arrived[d] <= ExpWords BY DEF NoticeInv
  <2>3. available[d] \in Nat /\ rxCount[d] \in Nat BY <1>6
  <2>4. available'[d] + rxCount'[d] = available[d] + rxCount[d] BY <2>3, <1>6, <1>7, <1>12
  <2> QED BY <2>1, <2>2, <2>4, <1>12
<1> QED BY <1>1, <1>2, <1>3, <1>4, <1>13, <1>14, <1>15

LEMMA ToeReadKeeps ==
    ASSUME IInv, ToeRead
    PROVE  IInv'
<1> USE DEF IInv
<1>1. SumTypes' BY SumTypesFrame DEF ToeRead, sumVars
<1>2. CastTypes' BY CastTypesFrame DEF ToeRead
<1>3. SumsInv' BY SumsFrame DEF ToeRead, sumVars
<1>4. CastInv' BY CastFrame DEF ToeRead, sumVars
<1>5. NoticeInv' BY NoticeFrame DEF ToeRead, handshakeVars
<1>6. PICK x \in Places, y \in Places, z \in Places, w \in Places :
        /\ x.conn = streamIndex /\ x.at = pkgWordIndex /\ w.conn = rxTurn
        /\ Holds("word", gathered, x, y) /\ Holds("data", rxData, y, z) /\ Packages(readPkg, z, w)
        /\ \A c \in Conns :
              /\ IsLane(lanes[c], c, Len(result) + Len(sums), Before(x, c))
              /\ readAt[c] = Before(z, c) /\ rxCount[c] = Before(w, c)
  BY DEF GatherInv
<1>7. /\ readPkg \in Seq(Requests) /\ readPkg # <<>> /\ rxData = <<>> /\ rxData \in Seq([word : WordSet, last : BOOLEAN])
      /\ readAt \in [Conns -> Nat] /\ arrived \in [Conns -> Nat]
  BY DEF GatherTypes, ToeRead
<1>8. PkgWords \in Nat /\ PkgWords >= 1 BY Parameters
<1>9. y = z BY <1>6, <1>7, HoldsEnds
<1>10. z.at = 0 /\ z.conn \in Conns /\ z.base \in Nat /\ z.conn \in Nat BY <1>6, <1>7, PackagesEnds, PlaceIs, ConnsTurn
<1>11. Head(readPkg) = PackageAt(z) /\ Packages(Tail(readPkg), NextPackage(z), w) /\ Tail(readPkg) \in Seq(Requests)
  BY <1>6, <1>7, PackagesPop
<1>12. PICK v \in Places : v = NextPackage(z) BY NextPackageIs
<1>13. \A c \in Conns : Before(v, c) = IF c = z.conn THEN Before(z, c) + PkgWords ELSE Before(z, c)
  BY <1>10, <1>12, BeforeNextPackage
<1>14. readAt[z.conn] = z.base BY <1>6, <1>10 DEF Before
<1>15. z.base + PkgWords <= arrived[z.conn]
  <2>1. Before(v, z.conn) = z.base + PkgWords BY <1>6, <1>10, <1>13, <1>14
  <2>2. Before(v, z.conn) <= Before(w, z.conn) BY <1>10, <1>11, <1>12, PackagesEnds
  <2>3. PICK n \in Nat : available[z.conn] + rxCount[z.conn] + n = arrived[z.conn] BY <1>10 DEF NoticeInv
  <2>4. available[z.conn] \in Nat /\ rxCount[z.conn] \in Nat /\ arrived[z.conn] \in Nat BY <1>10 DEF GatherTypes
  <2>5. rxCount[z.conn] = Before(w, z.conn) BY <1>6, <1>10
  <2> QED BY <2>1, <2>2, <2>3, <2>4, <2>5, <1>8, <1>10
<1>16. /\ rxData' = [i \in 1 .. PkgWords |->
                       [word |-> <<z.conn, IF z.base + i <= arrived[z.conn] THEN z.base + i ELSE 0>>, last |-> i = PkgWords]]
       /\ readAt' = [readAt EXCEPT ![z.conn] = z.base + PkgWords]
       /\ readPkg' = Tail(readPkg)
       /\ UNCHANGED <<arrived, notifications, available, rxCount, rxTurn, gathered, streamIndex, pkgWordIndex, lanes, sums, result>>
  <2>1. PICK p : p = Head(readPkg) OBVIOUS
  <2>2. p.conn = z.conn /\ p.length = PkgWords BY <2>1, <1>11 DEF PackageAt
  <2>3. /\ rxData' = [i \in 1 .. p.length |->
                        [word |-> <<p.conn, IF readAt[p.conn] + i <= arrived[p.conn] THEN readAt[p.conn] + i ELSE 0>>,
                         last |-> i = p.length]]
        /\ readAt' = [readAt EXCEPT ![p.conn] = readAt[p.conn] + p.length]
    BY <2>1 DEF ToeRead
  <2>4. /\ readPkg' = Tail(readPkg)
        /\ UNCHANGED <<arrived, notifications, available, rxCount, rxTurn, gathered, streamIndex, pkgWordIndex, lanes, sums, result>>
    BY DEF ToeRead, sumVars, handshakeVars
  <2>5. rxData' = [i \in 1 .. PkgWords |->
                     [word |-> <<z.conn, IF z.base + i <= arrived[z.conn] THEN z.base + i ELSE 0>>, last |-> i = PkgWords]]
    BY <2>2, <2>3, <1>14
  <2>6. readAt' = [readAt EXCEPT ![z.conn] = z.base + PkgWords] BY <2>2, <2>3, <1>14
  <2> QED BY <2>4, <2>5, <2>6
<1>17. \A i \in 1 .. PkgWords : rxData'[i] = Item("data", Advance(z, i - 1))
  <2> SUFFICES ASSUME NEW i \in 1 .. PkgWords PROVE rxData'[i] = Item("data", Advance(z, i - 1)) OBVIOUS
  <2>1. z.at + (i - 1) < PkgWords /\ z.at + (i - 1) = i - 1 BY <1>10, <1>8
  <2>2. Advance(z, i - 1) = [conn |-> z.conn, base |-> z.base, at |-> i - 1] BY <2>1 DEF Advance
  <2>3. PICK a : a = Advance(z, i - 1) OBVIOUS
  <2>4. a.conn = z.conn /\ a.base = z.base /\ a.at = i - 1 BY <2>2, <2>3
  <2>5. z.base + (i - 1) + 1 = z.base + i /\ (i - 1) + 1 = i BY <1>10
  <2>6. DataAt(a) = [word |-> <<z.conn, z.base + i>>, last |-> i = PkgWords] BY <2>4, <2>5 DEF DataAt, WordAt, IsLast
  <2>7. z.base + i <= arrived[z.conn] BY <1>7, <1>8, <1>10, <1>15
  <2>8. rxData'[i] = [word |-> <<z.conn, z.base + i>>, last |-> i = PkgWords] BY <2>7, <1>16
  <2> QED BY <2>3, <2>6, <2>8 DEF Item
<1>18. rxData' \in Seq([word : WordSet, last : BOOLEAN]) /\ Len(rxData') = PkgWords
  <2>1. \A i \in 1 .. PkgWords :
          [word |-> <<z.conn, IF z.base + i <= arrived[z.conn] THEN z.base + i ELSE 0>>, last |-> i = PkgWords]
            \in [word : WordSet, last : BOOLEAN]
    BY <1>8, <1>10 DEF WordSet
  <2> QED BY <2>1, <1>8, <1>16
<1>19. GatherTypes'
  <2>1. readAt' \in [Conns -> Nat] BY <1>7, <1>8, <1>10, <1>16
  <2> QED BY <2>1, <1>11, <1>16, <1>18 DEF GatherTypes
<1>20. GatherInv'
  <2>1. Holds("data", rxData', z, v) BY <1>10, <1>12, <1>17, <1>18, PackageIsHeld
  <2>2. Packages(readPkg', v, w) BY <1>11, <1>12, <1>16
  <2>3. ASSUME NEW c \in Conns PROVE readAt'[c] = Before(v, c)
    <3>1. readAt[c] = Before(z, c) BY <1>6
    <3> QED BY <3>1, <1>7, <1>10, <1>13, <1>14, <1>16
  <2>4. Holds("word", gathered', x, z) BY <1>6, <1>9, <1>16
  <2>5. /\ x.conn = streamIndex' /\ x.at = pkgWordIndex' /\ w.conn = rxTurn' BY <1>6, <1>16
  <2>6. \A c \in Conns : IsLane(lanes[c], c, Len(result) + Len(sums), Before(x, c)) /\ rxCount[c] = Before(w, c)
    BY <1>6
  <2>7. lanes' = lanes /\ result' = result /\ sums' = sums /\ rxCount' = rxCount BY <1>16
  <2>8. \A c \in Conns : IsLane(lanes'[c], c, Len(result') + Len(sums'), Before(x, c)) /\ rxCount'[c] = Before(w, c)
    BY <2>6, <2>7
  <2>9. \A c \in Conns : IsLane(lanes'[c], c, Len(result') + Len(sums'), Before(x, c))
                          /\ readAt'[c] = Before(v, c) /\ rxCount'[c] = Before(w, c)
    BY <2>3, <2>8
  <2> QED BY <2>1, <2>2, <2>4, <2>5, <2>9, <1>6, <1>12 DEF GatherInv
<1> QED BY <1>1, <1>2, <1>3, <1>4, <1>5, <1>19, <1>20

LEMMA ConsumeWordKeeps ==
    ASSUME IInv, ConsumeWord
    PROVE  IInv'
<1> USE DEF IInv
<1>1. SumTypes' BY SumTypesFrame DEF ConsumeWord
<1>2. CastTypes' BY CastTypesFrame DEF ConsumeWord
<1>3. SumsInv' BY SumsFrame DEF ConsumeWord
<1>4. CastInv' BY CastFrame DEF ConsumeWord
<1>5. NoticeInv' BY NoticeFrame DEF ConsumeWord
<1>6. PICK x \in Places, y \in Places, z \in Places, w \in Places :
        /\ x.conn = streamIndex /\ x.at = pkgWordIndex /\ w.conn = rxTurn
        /\ Holds("word", gathered, x, y) /\ Holds("data", rxData, y, z) /\ Packages(readPkg, z, w)
        /\ \A c \in Conns :
              /\ IsLane(lanes[c], c, Len(result) + Len(sums), Before(x, c))
              /\ readAt[c] = Before(z, c) /\ rxCount[c] = Before(w, c)
  BY DEF GatherInv
<1>7. rxData \in Seq([word : WordSet, last : BOOLEAN]) /\ rxData # <<>> /\ gathered \in Seq(WordSet)
  BY DEF GatherTypes, ConsumeWord
<1>8. /\ gathered' = Append(gathered, Head(rxData).word) /\ rxData' = Tail(rxData)
      /\ UNCHANGED <<arrived, readAt, notifications, readPkg, available, rxCount, rxTurn, streamIndex, pkgWordIndex, lanes, sums, result>>
  BY DEF ConsumeWord
<1>9. Head(rxData) = Item("data", y) /\ Holds("data", Tail(rxData), Advance(y, 1), z) BY <1>6, <1>7, HoldsPops
<1>10. Head(rxData).word = Item("word", y) BY <1>9 DEF Item, DataAt
<1>11. PICK e : e = Head(rxData).word OBVIOUS
<1>12. Holds("word", Append(gathered, e), x, Advance(y, 1)) BY <1>6, <1>7, <1>10, <1>11, HoldsGrows
<1>13. PICK v \in Places : v = Advance(y, 1) BY AdvanceIsPlace
<1>14. GatherTypes'
  <2>1. PICK T : T = [word : WordSet, last : BOOLEAN] OBVIOUS
  <2>2. PICK q \in Seq(T) : q = rxData /\ q # <<>> BY <2>1, <1>7
  <2>3. Head(q) \in T /\ Tail(q) \in Seq(T) BY <2>2
  <2>4. e \in WordSet BY <2>1, <2>2, <2>3, <1>11
  <2>5. gathered' \in Seq(WordSet) BY <2>4, <1>7, <1>8, <1>11
  <2>6. rxData' \in Seq(T) BY <2>2, <2>3, <1>8
  <2> QED BY <2>1, <2>5, <2>6, <1>8 DEF GatherTypes
<1>15. GatherInv'
  <2>1. Holds("word", gathered', x, v) /\ Holds("data", rxData', v, z) BY <1>8, <1>9, <1>11, <1>12, <1>13
  <2> QED BY <2>1, <1>6, <1>8, <1>13 DEF GatherInv
<1> QED BY <1>1, <1>2, <1>3, <1>4, <1>5, <1>14, <1>15

-----------------------------------------------------------------------------
(* Reduce                                                                  *)

LEMMA SplitWordKeeps ==
    ASSUME IInv, SplitWord
    PROVE  IInv'
<1> USE DEF IInv
<1>1. SumTypes' BY SumTypesFrame DEF SplitWord
<1>2. CastTypes' BY CastTypesFrame DEF SplitWord
<1>3. SumsInv' BY SumsFrame DEF SplitWord
<1>4. CastInv' BY CastFrame DEF SplitWord
<1>5. NoticeInv' BY NoticeFrame DEF SplitWord, rxVars, handshakeVars
<1>6. PICK x \in Places, y \in Places, z \in Places, w \in Places :
        /\ x.conn = streamIndex /\ x.at = pkgWordIndex /\ w.conn = rxTurn
        /\ Holds("word", gathered, x, y) /\ Holds("data", rxData, y, z) /\ Packages(readPkg, z, w)
        /\ \A c \in Conns :
              /\ IsLane(lanes[c], c, Len(result) + Len(sums), Before(x, c))
              /\ readAt[c] = Before(z, c) /\ rxCount[c] = Before(w, c)
  BY DEF GatherInv
<1>7. /\ gathered \in Seq(WordSet) /\ gathered # <<>> /\ lanes \in [Conns -> Seq(WordSet)]
      /\ streamIndex \in Conns /\ pkgWordIndex \in 0 .. PkgWords - 1
  BY DEF GatherTypes, SplitWord
<1>8. PkgWords \in Nat /\ PkgWords >= 1 BY Parameters
<1>9. /\ lanes' = [lanes EXCEPT ![streamIndex] = Append(@, Head(gathered))] /\ gathered' = Tail(gathered)
      /\ UNCHANGED <<rxVars, available, rxCount, rxTurn, sums, result>>
      /\ IF pkgWordIndex + 1 = PkgWords
           THEN streamIndex' = NextConn(streamIndex) /\ pkgWordIndex' = 0
           ELSE pkgWordIndex' = pkgWordIndex + 1 /\ UNCHANGED streamIndex
  BY DEF SplitWord, PkgIsSplit, handshakeVars
<1>10. Head(gathered) = Item("word", x) /\ Holds("word", Tail(gathered), Advance(x, 1), y) BY <1>6, <1>7, HoldsPops
<1>11. PICK v \in Places : v = Advance(x, 1) BY AdvanceIsPlace
<1>12. v.conn = streamIndex' /\ v.at = pkgWordIndex'
  <2>1. CASE pkgWordIndex + 1 = PkgWords
    <3>1. v = NextPackage(x) BY <2>1, <1>6, <1>8, <1>11 DEF Advance
    <3> QED BY <3>1, <2>1, <1>6, <1>9, NextPackageIs
  <2>2. CASE pkgWordIndex + 1 # PkgWords
    <3>1. x.at + 1 < PkgWords BY <2>2, <1>6, <1>7, <1>8
    <3>2. v = [conn |-> x.conn, base |-> x.base, at |-> x.at + 1] BY <3>1, <1>11 DEF Advance
    <3> QED BY <3>2, <2>2, <1>6, <1>9
  <2> QED BY <2>1, <2>2
<1>13. PICK n \in Nat : n = Len(result) + Len(sums) BY DEF SumTypes
<1>14. ASSUME NEW c \in Conns PROVE IsLane(lanes'[c], c, n, Before(v, c))
  <2>1. Before(v, c) = IF c = x.conn THEN Before(x, c) + 1 ELSE Before(x, c) BY <1>11, BeforeAdvance
  <2>2. IsLane(lanes[c], c, n, Before(x, c)) BY <1>6, <1>13
  <2>3. CASE c # streamIndex
    <3>1. lanes'[c] = lanes[c] BY <2>3, <1>7, <1>9
    <3> QED BY <3>1, <2>1, <2>2, <2>3, <1>6
  <2>4. CASE c = streamIndex
    <3>1. lanes'[c] = Append(lanes[c], Head(gathered)) BY <2>4, <1>7, <1>9
    <3>2. PICK l \in Nat : l = Len(lanes[c]) BY <1>7
    <3>3. PICK q \in Seq(WordSet) : q = lanes[c] BY <1>7
    <3>4. PICK e \in WordSet : e = Head(gathered) BY <1>7
    <3>5. Len(Append(q, e)) = l + 1 /\ Append(q, e)[l + 1] = e /\ \A j \in 1 .. l : Append(q, e)[j] = q[j] BY <3>2, <3>3
    <3>6. Before(x, c) = x.base + x.at /\ x.base \in Nat /\ x.at \in Nat
      <4>1. c \in Nat BY ConnsTurn
      <4> QED BY <4>1, <2>4, <1>6, <1>8, PlaceIs DEF Before
    <3>7. l + n = x.base + x.at /\ \A j \in 1 .. l : q[j] = <<c, n + j>> BY <2>2, <3>2, <3>3, <3>6 DEF IsLane
    <3>8. e = <<c, x.base + x.at + 1>> BY <3>4, <1>10, <2>4, <1>6 DEF Item, WordAt
    <3>9. x.base + x.at + 1 = n + (l + 1) BY <3>6, <3>7
    <3>10. \A j \in 1 .. l + 1 : Append(q, e)[j] = <<c, n + j>>
      <4>1. \A j \in 1 .. l + 1 : j = l + 1 \/ j \in 1 .. l OBVIOUS
      <4> QED BY <4>1, <3>5, <3>7, <3>8, <3>9
    <3>11. (l + 1) + n = Before(v, c) BY <3>6, <3>7, <2>1, <2>4, <1>6
    <3>12. IsLane(Append(q, e), c, n, Before(v, c)) BY <3>5, <3>10, <3>11 DEF IsLane
    <3> QED BY <3>1, <3>3, <3>4, <3>12
  <2> QED BY <2>3, <2>4
<1>15. GatherTypes'
  <2>1. Head(gathered) \in WordSet /\ Tail(gathered) \in Seq(WordSet) BY <1>7
  <2>2. lanes' \in [Conns -> Seq(WordSet)] BY <2>1, <1>7, <1>9
  <2>3. streamIndex' \in Conns /\ pkgWordIndex' \in 0 .. PkgWords - 1 BY <1>11, <1>12, PlaceIs
  <2> QED BY <2>1, <2>2, <2>3, <1>9 DEF GatherTypes, rxVars
<1>16. GatherInv'
  <2>1. Holds("word", gathered', v, y) BY <1>9, <1>10, <1>11
  <2>2. n = Len(result') + Len(sums') BY <1>9, <1>13
  <2> QED BY <2>1, <2>2, <1>6, <1>9, <1>12, <1>14 DEF GatherInv, rxVars
<1> QED BY <1>1, <1>2, <1>3, <1>4, <1>5, <1>15, <1>16

LEMMA SumWordKeeps ==
    ASSUME IInv, SumWord
    PROVE  IInv'
<1> USE DEF IInv
<1>1. CastTypes' BY CastTypesFrame DEF SumWord
<1>2. CastInv' BY CastFrame DEF SumWord
<1>3. NoticeInv' BY NoticeFrame DEF SumWord, rxVars, handshakeVars
<1>4. PICK x \in Places, y \in Places, z \in Places, w \in Places :
        /\ x.conn = streamIndex /\ x.at = pkgWordIndex /\ w.conn = rxTurn
        /\ Holds("word", gathered, x, y) /\ Holds("data", rxData, y, z) /\ Packages(readPkg, z, w)
        /\ \A c \in Conns :
              /\ IsLane(lanes[c], c, Len(result) + Len(sums), Before(x, c))
              /\ readAt[c] = Before(z, c) /\ rxCount[c] = Before(w, c)
  BY DEF GatherInv
<1>5. lanes \in [Conns -> Seq(WordSet)] /\ \A c \in Conns : lanes[c] # <<>> BY DEF GatherTypes, SumWord
<1>6. sums \in Seq(Letters) /\ toSend \in Seq(Letters) /\ result \in Seq(Letters) BY DEF SumTypes
<1>7. PICK n \in Nat, m \in Nat : n = Len(result) /\ m = Len(sums) BY <1>6
<1>8. \A c \in Conns : Head(lanes[c]) = <<c, n + (m + 1)>>
  <2> SUFFICES ASSUME NEW c \in Conns PROVE Head(lanes[c]) = <<c, n + (m + 1)>> OBVIOUS
  <2>1. lanes[c] \in Seq(WordSet) /\ lanes[c] # <<>> BY <1>5
  <2>2. 1 \in 1 .. Len(lanes[c]) /\ Head(lanes[c]) = lanes[c][1] BY <2>1
  <2>3. lanes[c][1] = <<c, (n + m) + 1>> BY <2>2, <1>4, <1>7 DEF IsLane
  <2>4. (n + m) + 1 = n + (m + 1) OBVIOUS
  <2> QED BY <2>2, <2>3, <2>4
<1>9. PICK e \in Letters : e = {Head(lanes[c]) : c \in Conns} /\ e = SumOf(n + (m + 1))
  <2>1. {Head(lanes[c]) : c \in Conns} = SumOf(n + (m + 1)) BY <1>8 DEF SumOf
  <2>2. \A c \in Conns : <<c, n + (m + 1)>> \in WordSet BY DEF WordSet
  <2>3. SumOf(n + (m + 1)) \in Letters BY <2>2 DEF SumOf, Letters
  <2> QED BY <2>1, <2>3
<1>10. /\ sums' = Append(sums, e) /\ lanes' = [c \in Conns |-> Tail(lanes[c])]
       /\ UNCHANGED <<rxVars, available, rxCount, rxTurn, gathered, streamIndex, pkgWordIndex, toSend, result>>
  BY <1>9 DEF SumWord, handshakeVars
<1>11. Len(sums') = m + 1 /\ sums'[m + 1] = e /\ \A j \in 1 .. m : sums'[j] = sums[j] BY <1>6, <1>7, <1>10
<1>12. SumTypes' BY <1>6, <1>10 DEF SumTypes
<1>13. SumsInv'
  <2>1. \A j \in 1 .. m : sums[j] = SumOf(n + j) BY <1>7 DEF SumsInv, AreSums
  <2>2. \A j \in 1 .. m + 1 : j = m + 1 \/ j \in 1 .. m OBVIOUS
  <2>3. AreSums(sums', n) BY <2>1, <2>2, <1>9, <1>11 DEF AreSums
  <2> QED BY <2>3, <1>7, <1>10 DEF SumsInv
<1>14. GatherTypes'
  <2>1. lanes' \in [Conns -> Seq(WordSet)] BY <1>5, <1>10
  <2> QED BY <2>1, <1>10 DEF GatherTypes, rxVars
<1>15. GatherInv'
  <2>1. ASSUME NEW c \in Conns PROVE IsLane(lanes'[c], c, n + (m + 1), Before(x, c))
    <3>1. PICK q \in Seq(WordSet) : q = lanes[c] /\ q # <<>> BY <1>5
    <3>2. IsLane(q, c, n + m, Before(x, c)) BY <3>1, <1>4, <1>7
    <3>3. PICK l \in Nat : l = Len(q) /\ l > 0 BY <3>1
    <3>4. Len(Tail(q)) = l - 1 /\ \A j \in 1 .. l - 1 : Tail(q)[j] = q[j + 1] BY <3>1, <3>3
    <3>5. l + (n + m) = Before(x, c) /\ \A j \in 1 .. l : q[j] = <<c, (n + m) + j>> BY <3>2, <3>3 DEF IsLane
    <3>6. (l - 1) + (n + (m + 1)) = Before(x, c)
      <4>1. (l - 1) + (n + (m + 1)) = l + (n + m) OBVIOUS
      <4> QED BY <4>1, <3>5
    <3>7. \A j \in 1 .. l - 1 : Tail(q)[j] = <<c, (n + (m + 1)) + j>>
      <4> SUFFICES ASSUME NEW j \in 1 .. l - 1 PROVE Tail(q)[j] = <<c, (n + (m + 1)) + j>> OBVIOUS
      <4>1. j + 1 \in 1 .. l /\ (n + m) + (j + 1) = (n + (m + 1)) + j OBVIOUS
      <4>2. q[j + 1] = <<c, (n + m) + (j + 1)>> BY <4>1, <3>5
      <4> QED BY <4>1, <4>2, <3>4
    <3>8. IsLane(Tail(q), c, n + (m + 1), Before(x, c)) BY <3>4, <3>6, <3>7 DEF IsLane
    <3> QED BY <3>1, <3>8, <1>10
  <2>2. Len(result') + Len(sums') = n + (m + 1) BY <1>7, <1>10, <1>11
  <2> QED BY <2>1, <2>2, <1>4, <1>10 DEF GatherInv, rxVars
<1> QED BY <1>1, <1>2, <1>3, <1>12, <1>13, <1>14, <1>15

LEMMA DuplicateWordKeeps ==
    ASSUME IInv, DuplicateWord
    PROVE  IInv'
<1> USE DEF IInv
<1>1. CastTypes' BY CastTypesFrame DEF DuplicateWord
<1>2. NoticeInv' BY NoticeFrame DEF DuplicateWord, rxVars, handshakeVars
<1>3. GatherTypes' BY GatherTypesFrame DEF DuplicateWord, handshakeVars
<1>4. sums \in Seq(Letters) /\ sums # <<>> /\ toSend \in Seq(Letters) /\ result \in Seq(Letters) BY DEF SumTypes, DuplicateWord
<1>5. PICK e \in Letters : e = Head(sums) BY <1>4
<1>6. /\ toSend' = Append(toSend, e) /\ result' = Append(result, e) /\ sums' = Tail(sums)
      /\ UNCHANGED <<rxVars, rxCount, rxTurn, gathered, streamIndex, pkgWordIndex, lanes, castVars, txVars>>
  BY <1>5 DEF DuplicateWord, handshakeVars
<1>7. PICK n \in Nat, m \in Nat, k \in Nat : n = Len(result) /\ m = Len(sums) /\ k = Len(toSend) BY <1>4
<1>8. /\ Len(result') = n + 1 /\ result'[n + 1] = e /\ \A j \in 1 .. n : result'[j] = result[j]
      /\ Len(toSend') = k + 1 /\ toSend'[k + 1] = e /\ \A j \in 1 .. k : toSend'[j] = toSend[j]
      /\ m > 0 /\ e = sums[1] /\ Len(sums') = m - 1 /\ \A j \in 1 .. m - 1 : sums'[j] = sums[j + 1]
  BY <1>4, <1>5, <1>6, <1>7
<1>9. SumTypes' BY <1>4, <1>6 DEF SumTypes
<1>10. SumsInv'
  <2>1. /\ k <= n
        /\ \A j \in 1 .. n : result[j] = SumOf(0 + j)
        /\ \A j \in 1 .. m : sums[j] = SumOf(n + j)
        /\ \A j \in 1 .. k : toSend[j] = SumOf((n - k) + j)
    BY <1>7 DEF SumsInv, AreSums
  <2>2. e = SumOf(n + 1)
    <3>1. 1 \in 1 .. m BY <1>8
    <3>2. \A j \in 1 .. m : sums[j] = SumOf(n + j) BY <2>1
    <3>3. sums[1] = SumOf(n + 1) BY ONLY <3>1, <3>2
    <3> QED BY <3>3, <1>8
  <2>3. \A j \in 1 .. n + 1 : result'[j] = SumOf(0 + j)
    <3>1. \A j \in 1 .. n + 1 : j = n + 1 \/ j \in 1 .. n OBVIOUS
    <3>2. 0 + (n + 1) = n + 1 OBVIOUS
    <3> QED BY <3>1, <3>2, <2>1, <2>2, <1>8
  <2>4. \A j \in 1 .. m - 1 : sums'[j] = SumOf((n + 1) + j)
    <3> SUFFICES ASSUME NEW j \in 1 .. m - 1 PROVE sums'[j] = SumOf((n + 1) + j) OBVIOUS
    <3>1. j + 1 \in 1 .. m /\ n + (j + 1) = (n + 1) + j OBVIOUS
    <3>2. \A i \in 1 .. m : sums[i] = SumOf(n + i) BY <2>1
    <3>3. sums[j + 1] = SumOf(n + (j + 1)) BY ONLY <3>1, <3>2
    <3> QED BY <3>1, <3>3, <1>8
  <2>5. \A j \in 1 .. k + 1 : toSend'[j] = SumOf(((n + 1) - (k + 1)) + j)
    <3>1. \A j \in 1 .. k + 1 : j = k + 1 \/ j \in 1 .. k OBVIOUS
    <3>2. (n + 1) - (k + 1) = n - k /\ (n - k) + (k + 1) = n + 1 OBVIOUS
    <3> QED BY <3>1, <3>2, <2>1, <2>2, <1>8
  <2> QED BY <2>1, <2>3, <2>4, <2>5, <1>8 DEF SumsInv, AreSums
<1>11. Len(result') + Len(sums') = Len(result) + Len(sums) /\ Len(result') - Len(toSend') = Len(result) - Len(toSend)
  BY <1>7, <1>8
<1>12. GatherInv'
  <2>1. PICK x \in Places, y \in Places, z \in Places, w \in Places :
          /\ x.conn = streamIndex /\ x.at = pkgWordIndex /\ w.conn = rxTurn
          /\ Holds("word", gathered, x, y) /\ Holds("data", rxData, y, z) /\ Packages(readPkg, z, w)
          /\ \A c \in Conns :
                /\ IsLane(lanes[c], c, Len(result) + Len(sums), Before(x, c))
                /\ readAt[c] = Before(z, c) /\ rxCount[c] = Before(w, c)
    BY DEF GatherInv
  <2>2. /\ lanes' = lanes /\ readAt' = readAt /\ rxCount' = rxCount /\ rxTurn' = rxTurn /\ streamIndex' = streamIndex
        /\ pkgWordIndex' = pkgWordIndex /\ gathered' = gathered /\ rxData' = rxData /\ readPkg' = readPkg
    BY <1>6 DEF rxVars
  <2>3. \A c \in Conns : /\ IsLane(lanes'[c], c, Len(result') + Len(sums'), Before(x, c))
                          /\ readAt'[c] = Before(z, c) /\ rxCount'[c] = Before(w, c)
    BY <2>1, <2>2, <1>11
  <2> QED BY <2>1, <2>2, <2>3 DEF GatherInv
<1>13. CastInv' BY <1>6, <1>11 DEF CastInv, castVars, txVars
<1> QED BY <1>1, <1>2, <1>3, <1>9, <1>10, <1>12, <1>13


-----------------------------------------------------------------------------
(* Broadcast                                                               *)

LEMMA TurnIs ==
    ASSUME CastTypes, sentWords \in Multiples
    PROVE  /\ Turn(txTurn, sentWords) \in Places /\ Turn(txTurn, sentWords).conn = txTurn
           /\ Turn(txTurn, sentWords).base = sentWords /\ Turn(txTurn, sentWords).at = 0
BY Parameters DEF CastTypes, Turn, Places

LEMMA StartBroadcastKeeps ==
    ASSUME IInv, StartBroadcast
    PROVE  IInv'
<1> USE DEF IInv
<1>1. GatherTypes' BY GatherTypesFrame DEF StartBroadcast, handshakeVars, sumVars
<1>2. SumTypes' BY SumTypesFrame DEF StartBroadcast, sumVars
<1>3. GatherInv' BY GatherFrame DEF StartBroadcast, handshakeVars, sumVars
<1>4. NoticeInv' BY NoticeFrame DEF StartBroadcast, rxVars, handshakeVars
<1>5. SumsInv' BY SumsFrame DEF StartBroadcast, sumVars
<1>6. txMeta = <<>> /\ txStatus = <<>> BY DEF CastInv, OneRequest, StartBroadcast
<1>7. PICK p \in Places : p = Turn(txTurn, sentWords) /\ p.conn = txTurn BY TurnIs DEF CastInv
<1>8. PICK r \in Requests : r = PackageAt(p) BY <1>7, PlaceIs, Parameters DEF PackageAt, Requests
<1>9. /\ started' = TRUE /\ txMeta' = <<r>>
      /\ txTurn' = txTurn /\ sentWords' = sentWords /\ pkgWords' = pkgWords /\ sending' = sending /\ buffer' = buffer
      /\ txStatus' = txStatus /\ txData' = txData /\ granted' = granted /\ received' = received
      /\ toSend' = toSend /\ result' = result
  <2>1. txMeta' = Append(txMeta, r) BY <1>7, <1>8 DEF StartBroadcast, PackageAt
  <2> QED BY <2>1, <1>6 DEF StartBroadcast, sumVars
<1>10. CastTypes'
  <2>1. <<r>> \in Seq(Requests) OBVIOUS
  <2> QED BY <2>1, <1>9 DEF CastTypes
<1>11. OneRequest(txMeta', txStatus', started', Turn(txTurn', sentWords'))
  BY <1>6, <1>7, <1>8, <1>9 DEF OneRequest
<1>12. CastInv' BY <1>9, <1>11 DEF CastInv
<1> QED BY <1>1, <1>2, <1>3, <1>4, <1>5, <1>10, <1>12

LEMMA OnRefusedKeeps ==
    ASSUME IInv, OnRefused
    PROVE  IInv'
<1> USE DEF IInv
<1>1. GatherTypes' BY GatherTypesFrame DEF OnRefused, handshakeVars, sumVars
<1>2. SumTypes' BY SumTypesFrame DEF OnRefused, sumVars
<1>3. GatherInv' BY GatherFrame DEF OnRefused, handshakeVars, sumVars
<1>4. NoticeInv' BY NoticeFrame DEF OnRefused, rxVars, handshakeVars
<1>5. SumsInv' BY SumsFrame DEF OnRefused, sumVars
<1>6. PICK p \in Places : p = Turn(txTurn, sentWords) /\ p.conn = txTurn BY TurnIs DEF CastInv
<1>7. started /\ txMeta = <<>> /\ \E e \in {0, 2} : txStatus = <<[conn |-> p.conn, length |-> PkgWords, error |-> e]>>
  BY <1>6 DEF CastInv, OneRequest, OnRefused
<1>8. PICK e \in {0, 2} : txStatus = <<[conn |-> p.conn, length |-> PkgWords, error |-> e]>> BY <1>7
<1>9. PICK h : h = [conn |-> p.conn, length |-> PkgWords, error |-> e] OBVIOUS
<1>10. Head(txStatus) = h /\ Tail(txStatus) = <<>> /\ h.conn = p.conn /\ h.length = PkgWords /\ h.error = e BY <1>8, <1>9
<1>11. h.error = 2 BY <1>10 DEF OnRefused
<1>12. PICK r \in Requests : r = PackageAt(p) BY <1>6, PlaceIs, Parameters DEF PackageAt, Requests
<1>13. /\ txMeta' = <<r>> /\ txStatus' = <<>> /\ started' = started
       /\ txTurn' = txTurn /\ sentWords' = sentWords /\ pkgWords' = pkgWords /\ sending' = sending /\ buffer' = buffer
       /\ txData' = txData /\ granted' = granted /\ received' = received /\ toSend' = toSend /\ result' = result
  <2>1. txMeta' = Append(txMeta, r) BY <1>10, <1>11, <1>12 DEF OnRefused, PackageAt
  <2> QED BY <2>1, <1>7, <1>10 DEF OnRefused, sumVars, castVars
<1>14. CastTypes'
  <2>1. <<r>> \in Seq(Requests) /\ <<>> \in Seq([conn : Conns, length : Nat, error : {0, 2}]) OBVIOUS
  <2> QED BY <2>1, <1>13 DEF CastTypes
<1>15. OneRequest(txMeta', txStatus', started', Turn(txTurn', sentWords'))
  BY <1>6, <1>7, <1>12, <1>13 DEF OneRequest
<1>16. Granted(txStatus', p) = Granted(txStatus, p) BY <1>10, <1>11, <1>13 DEF Granted
<1>17. CastInv'
  <2>1. PICK t \in Places, s \in Places :
          /\ Packages(granted, t, Granted(txStatus, p)) /\ Holds("sum", txData, t, s)
          /\ IsSending(sending, s, p, pkgWords) /\ IsBuffer(sending, buffer, s)
          /\ Len(result) - Len(toSend) = Before(s, 0)
          /\ \A c \in Conns : AreReceived(received[c], Before(t, c))
    BY <1>6 DEF CastInv
  <2>2. p = Turn(txTurn', sentWords') BY <1>6, <1>13
  <2>3. Packages(granted', t, Granted(txStatus', p)) BY <2>1, <1>13, <1>16
  <2> QED BY <2>1, <2>2, <2>3, <1>13, <1>15 DEF CastInv
<1> QED BY <1>1, <1>2, <1>3, <1>4, <1>5, <1>14, <1>17

LEMMA OnAcceptedKeeps ==
    ASSUME IInv, OnAccepted
    PROVE  IInv'
<1> USE DEF IInv
<1>1. GatherTypes' BY GatherTypesFrame DEF OnAccepted, handshakeVars, sumVars
<1>2. SumTypes' BY SumTypesFrame DEF OnAccepted, sumVars
<1>3. GatherInv' BY GatherFrame DEF OnAccepted, handshakeVars, sumVars
<1>4. NoticeInv' BY NoticeFrame DEF OnAccepted, rxVars, handshakeVars
<1>5. SumsInv' BY SumsFrame DEF OnAccepted, sumVars
<1>6. PICK p \in Places : p = Turn(txTurn, sentWords) /\ p.conn = txTurn /\ p.base = sentWords /\ p.at = 0
  BY TurnIs DEF CastInv
<1>7. started /\ sending = None /\ sentWords < ExpWords /\ txStatus # <<>> /\ Head(txStatus).error = 0 BY DEF OnAccepted
<1>8. txMeta = <<>> /\ \E e \in {0, 2} : txStatus = <<[conn |-> p.conn, length |-> PkgWords, error |-> e]>>
  BY <1>6, <1>7 DEF CastInv, OneRequest
<1>9. PICK e \in {0, 2} : txStatus = <<[conn |-> p.conn, length |-> PkgWords, error |-> e]>> BY <1>8
<1>10. Head(txStatus).length = PkgWords /\ Tail(txStatus) = <<>> BY <1>9
<1>11. PICK t \in Places :
         /\ Packages(granted, t, NextPackage(p)) /\ Holds("sum", txData, t, p) /\ IsBuffer(sending, buffer, p)
         /\ Len(result) - Len(toSend) = Before(p, 0)
         /\ \A c \in Conns : AreReceived(received[c], Before(t, c))
  <2>1. PICK t \in Places, s \in Places :
          /\ Packages(granted, t, Granted(txStatus, p)) /\ Holds("sum", txData, t, s)
          /\ IsSending(sending, s, p, pkgWords) /\ IsBuffer(sending, buffer, s)
          /\ Len(result) - Len(toSend) = Before(s, 0)
          /\ \A c \in Conns : AreReceived(received[c], Before(t, c))
    BY <1>6 DEF CastInv
  <2>2. s = p BY <2>1, <1>7 DEF IsSending
  <2>3. Granted(txStatus, p) = NextPackage(p) BY <1>7 DEF Granted
  <2> QED BY <2>1, <2>2, <2>3
<1>12. PICK v \in Places :
         /\ v = NextPackage(p) /\ v.at = 0 /\ v.conn = NextConn(txTurn)
         /\ v.base = IF NextConn(txTurn) = 0 THEN sentWords + PkgWords ELSE sentWords
  BY <1>6, NextPackageIs
<1>13. v.conn \in Conns /\ v.base \in Multiples /\ v.base \in Nat /\ v = Turn(v.conn, v.base) BY <1>12, PlaceIs DEF Turn
<1>14. txTurn \in Conns /\ (NextConn(txTurn) = 1 <=> txTurn = 0) /\ sentWords \in Multiples /\ sentWords \in Nat
  BY <1>6, PlaceIs, ConnsTurn
<1>15. PkgWords \in Nat /\ PkgWords >= 1 /\ ExpWords \in Nat /\ ExpWords \in Multiples BY Parameters
<1>16. v.base <= ExpWords
  <2>1. sentWords + PkgWords <= ExpWords BY <1>7, <1>14, <1>15, NothingBetweenMultiples
  <2> QED BY <2>1, <1>7, <1>12, <1>14, <1>15
<1>17. v.base < ExpWords => NextLength(v.base) = PkgWords
  <2> SUFFICES ASSUME v.base < ExpWords PROVE NextLength(v.base) = PkgWords OBVIOUS
  <2>1. v.base + PkgWords <= ExpWords BY <1>13, <1>15, NothingBetweenMultiples
  <2> QED BY <2>1, <1>13, <1>15 DEF NextLength
<1>18. /\ txTurn' = v.conn /\ sentWords' = v.base
       /\ pkgWords' = IF v.base < ExpWords THEN NextLength(v.base) ELSE pkgWords
       /\ txMeta' = IF v.base < ExpWords THEN Append(txMeta, [conn |-> v.conn, length |-> NextLength(v.base)]) ELSE txMeta
       /\ sending' = [source |-> IF v.conn = 1 THEN "stream" ELSE "buffer", at |-> 1]
       /\ buffer' = IF v.conn = 1 THEN <<>> ELSE buffer
       /\ txStatus' = <<>>
  <2>1. SentAfter(Head(txStatus).length) = v.base BY <1>10, <1>12 DEF SentAfter
  <2> QED BY <2>1, <1>10, <1>12 DEF OnAccepted
<1>19. started' = started /\ txData' = txData /\ granted' = granted /\ received' = received /\ toSend' = toSend /\ result' = result
  BY DEF OnAccepted, sumVars
<1>20. pkgWords' = PkgWords
  <2>1. CASE v.base < ExpWords BY <2>1, <1>17, <1>18
  <2>2. CASE ~(v.base < ExpWords)
    <3>1. NextConn(txTurn) = 0 BY <2>2, <1>7, <1>12
    <3>2. txTurn # 0 BY <3>1, <1>14
    <3>3. pkgWords = PkgWords BY <3>2 DEF CastInv
    <3> QED BY <3>3, <2>2, <1>18
  <2> QED BY <2>1, <2>2
<1>21. PICK r \in Requests : r = PackageAt(v) BY <1>13, <1>15 DEF PackageAt, Requests
<1>22. txMeta' = IF v.base < ExpWords THEN <<r>> ELSE <<>> BY <1>8, <1>17, <1>18, <1>21 DEF PackageAt
<1>23. sending' # None /\ sending'.at = 1 /\ sending'.source = IF p.conn = 0 THEN "stream" ELSE "buffer"
  BY <1>6, <1>12, <1>14, <1>18 DEF None
<1>24. CastTypes'
  <2>1. <<r>> \in Seq(Requests) /\ <<>> \in Seq(Requests) /\ <<>> \in Seq(Letters)
        /\ <<>> \in Seq([conn : Conns, length : Nat, error : {0, 2}]) OBVIOUS
  <2>2. txMeta' \in Seq(Requests) BY <2>1, <1>22
  <2>3. buffer' \in Seq(Letters) BY <2>1, <1>18 DEF CastTypes
  <2>4. sending' \in [source : {"stream", "buffer"}, at : 1 .. PkgWords] BY <1>15, <1>18
  <2> QED BY <2>1, <2>2, <2>3, <2>4, <1>13, <1>15, <1>18, <1>19, <1>20 DEF CastTypes
<1>25. CastInv'
  <2>1. OneRequest(txMeta', txStatus', started', v) BY <1>7, <1>18, <1>19, <1>21, <1>22 DEF OneRequest
  <2>2. Packages(granted', t, Granted(txStatus', v)) BY <1>11, <1>12, <1>18, <1>19 DEF Granted
  <2>3. IsSending(sending', p, v, pkgWords')
    <3>1. sending'.at = p.at + 1 BY <1>6, <1>23
    <3> QED BY <3>1, <1>12, <1>20, <1>23 DEF IsSending
  <2>4. IsBuffer(sending', buffer', p)
    <3>1. CASE p.conn = 0
      <4>1. buffer' = <<>> BY <3>1, <1>6, <1>12, <1>14, <1>18
      <4>2. Len(<<>>) = 0 /\ AreSums(<<>>, p.base) BY DEF AreSums
      <4> QED BY <4>1, <4>2, <3>1, <1>6 DEF IsBuffer
    <3>2. CASE p.conn # 0
      <4>1. buffer' = buffer BY <3>2, <1>6, <1>12, <1>14, <1>18
      <4> QED BY <4>1, <3>2, <1>11 DEF IsBuffer
    <3> QED BY <3>1, <3>2
  <2>5. v = Turn(txTurn', sentWords') BY <1>13, <1>18
  <2>6. sentWords' \in Multiples /\ sentWords' <= ExpWords BY <1>13, <1>16, <1>18
  <2>7. Holds("sum", txData', t, p) /\ Len(result') - Len(toSend') = Before(p, 0)
        /\ \A c \in Conns : AreReceived(received'[c], Before(t, c)) BY <1>11, <1>19
  <2> QED BY <2>1, <2>2, <2>3, <2>4, <2>5, <2>6, <2>7, <1>20 DEF CastInv
<1> QED BY <1>1, <1>2, <1>3, <1>4, <1>5, <1>24, <1>25

LEMMA SendWordKeeps ==
    ASSUME IInv, SendWord
    PROVE  IInv'
<1> USE DEF IInv
<1>1. GatherTypes' BY GatherTypesFrame DEF SendWord, handshakeVars
<1>2. GatherInv' BY GatherFrame DEF SendWord, handshakeVars
<1>3. NoticeInv' BY NoticeFrame DEF SendWord, rxVars, handshakeVars
<1>4. PICK p \in Places : p = Turn(txTurn, sentWords) /\ p.conn = txTurn BY TurnIs DEF CastInv
<1>5. PICK t \in Places, s \in Places :
        /\ Packages(granted, t, Granted(txStatus, p)) /\ Holds("sum", txData, t, s)
        /\ IsSending(sending, s, p, pkgWords) /\ IsBuffer(sending, buffer, s)
        /\ Len(result) - Len(toSend) = Before(s, 0)
        /\ \A c \in Conns : AreReceived(received[c], Before(t, c))
  BY <1>4 DEF CastInv
<1>6. s.conn \in Conns /\ s.conn \in Nat /\ s.base \in Nat /\ s.at \in 0 .. PkgWords - 1 BY PlaceIs, ConnsTurn
<1>7. PkgWords \in Nat /\ PkgWords >= 1 BY Parameters
<1>8. /\ sending # None /\ sending.at = s.at + 1 /\ NextPackage(s) = p /\ pkgWords = PkgWords
      /\ sending.source = IF s.conn = 0 THEN "stream" ELSE "buffer"
  BY <1>5 DEF SendWord, IsSending
<1>9. sending \in [source : {"stream", "buffer"}, at : 1 .. PkgWords] BY <1>8 DEF CastTypes
<1>10. buffer \in Seq(Letters) /\ txData \in Seq(Sent) BY DEF CastTypes
<1>11. sums \in Seq(Letters) /\ toSend \in Seq(Letters) /\ result \in Seq(Letters) BY DEF SumTypes
<1>12. PICK n \in Nat, k \in Nat : n = Len(result) /\ k = Len(toSend) BY <1>11
<1>13. k <= n /\ (\A j \in 1 .. k : toSend[j] = SumOf((n - k) + j)) /\ AreSums(result, 0) /\ AreSums(sums, n)
  BY <1>12 DEF SumsInv, AreSums
<1>14. Len(buffer) = (IF s.conn = 0 THEN s.at ELSE PkgWords) /\ \A j \in 1 .. Len(buffer) : buffer[j] = SumOf(s.base + j)
  BY <1>5, <1>8 DEF IsBuffer, AreSums
<1>15. /\ sums' = sums /\ result' = result /\ started' = started /\ txTurn' = txTurn /\ sentWords' = sentWords
       /\ pkgWords' = pkgWords /\ txMeta' = txMeta /\ txStatus' = txStatus /\ granted' = granted /\ received' = received
  BY DEF SendWord
<1>16. /\ toSend' \in Seq(Letters)
       /\ Len(toSend') = (IF s.conn = 0 THEN k - 1 ELSE k) /\ Len(toSend') <= n
       /\ AreSums(toSend', n - Len(toSend'))
       /\ buffer' \in Seq(Letters) /\ Len(buffer') = (IF s.conn = 0 THEN s.at + 1 ELSE PkgWords) /\ AreSums(buffer', s.base)
  <2>1. CASE s.conn # 0
    <3>1. toSend' = toSend /\ buffer' = buffer BY <2>1, <1>8 DEF SendWord
    <3> QED BY <3>1, <2>1, <1>10, <1>11, <1>12, <1>13, <1>14 DEF AreSums
  <2>2. CASE s.conn = 0
    <3>1. toSend # <<>> /\ toSend' = Tail(toSend) /\ buffer' = Append(buffer, Head(toSend)) BY <2>2, <1>8 DEF SendWord
    <3>2. PICK e \in Letters : e = Head(toSend) /\ e = toSend[1] BY <3>1, <1>11
    <3>3. k > 0 /\ Len(toSend') = k - 1 /\ toSend' \in Seq(Letters) /\ \A j \in 1 .. k - 1 : toSend'[j] = toSend[j + 1]
      BY <3>1, <1>11, <1>12
    <3>4. Before(s, 0) = s.base + s.at BY <2>2 DEF Before
    <3>5. e = SumOf(s.base + (s.at + 1))
      <4>1. (n - k) + 1 = s.base + (s.at + 1) BY <3>4, <1>5, <1>6, <1>12
      <4>2. 1 \in 1 .. k BY <3>3
      <4>3. toSend[1] = SumOf((n - k) + 1) BY <4>2, <1>13
      <4> QED BY <4>1, <4>3, <3>2
    <3>6. \A j \in 1 .. k - 1 : toSend'[j] = SumOf((n - (k - 1)) + j)
      <4> SUFFICES ASSUME NEW j \in 1 .. k - 1 PROVE toSend'[j] = SumOf((n - (k - 1)) + j) OBVIOUS
      <4>1. j + 1 \in 1 .. k /\ (n - k) + (j + 1) = (n - (k - 1)) + j OBVIOUS
      <4>2. toSend[j + 1] = SumOf((n - k) + (j + 1)) BY <4>1, <1>13
      <4> QED BY <4>1, <4>2, <3>3
    <3>7. PICK l \in Nat : l = s.at BY <1>6
    <3>8. Len(buffer) = l /\ \A j \in 1 .. l : buffer[j] = SumOf(s.base + j) BY <2>2, <3>7, <1>14
    <3>9. buffer' \in Seq(Letters) /\ Len(buffer') = l + 1 /\ buffer'[l + 1] = e /\ \A j \in 1 .. l : buffer'[j] = buffer[j]
      BY <3>1, <3>2, <3>8, <1>10
    <3>10. \A j \in 1 .. l + 1 : buffer'[j] = SumOf(s.base + j)
      <4>1. \A j \in 1 .. l + 1 : j = l + 1 \/ j \in 1 .. l OBVIOUS
      <4> QED BY <4>1, <3>5, <3>7, <3>8, <3>9
    <3>11. AreSums(toSend', n - Len(toSend')) BY <3>3, <3>6 DEF AreSums
    <3>12. AreSums(buffer', s.base) BY <3>9, <3>10 DEF AreSums
    <3> QED BY <2>2, <3>3, <3>7, <3>9, <3>11, <3>12, <1>13
  <2> QED BY <2>1, <2>2
<1>17. SumTypes' BY <1>11, <1>15, <1>16 DEF SumTypes
<1>18. SumsInv' BY <1>12, <1>13, <1>15, <1>16 DEF SumsInv
<1>19. PICK x \in Sent : x = SumAt(s) /\ txData' = Append(txData, x)
  <2>1. s.at + 1 \in 1 .. Len(buffer') BY <1>6, <1>7, <1>16
  <2>2. buffer'[s.at + 1] \in Letters BY <2>1, <1>16
  <2>3. buffer'[s.at + 1] = SumOf(s.base + (s.at + 1)) BY <2>1, <1>16 DEF AreSums
  <2>4. s.base + (s.at + 1) = s.base + s.at + 1 BY <1>6
  <2>5. PICK x : x = [sum |-> buffer'[s.at + 1], last |-> s.at + 1 = PkgWords] OBVIOUS
  <2>6. x \in Sent BY <2>2, <2>5 DEF Sent
  <2>7. x = SumAt(s) BY <2>3, <2>4, <2>5 DEF SumAt, IsLast
  <2>8. txData' = Append(txData, [sum |-> buffer'[sending.at], last |-> sending.at = pkgWords]) BY DEF SendWord
  <2>9. txData' = Append(txData, x) BY <2>5, <2>8, <1>8
  <2> QED BY <2>6, <2>7, <2>9
<1>20. PICK v \in Places : v = Advance(s, 1) BY AdvanceIsPlace
<1>21. Holds("sum", txData', t, v)
  <2>1. x = Item("sum", s) BY <1>19 DEF Item
  <2>2. Holds("sum", Append(txData, x), t, Advance(s, 1)) BY <2>1, <1>5, <1>10, HoldsGrows
  <2> QED BY <2>2, <1>19, <1>20
<1>22. Len(result') - Len(toSend') = Before(v, 0)
  <2>1. 0 \in Conns BY Parameters DEF Conns
  <2>2. Before(v, 0) = IF 0 = s.conn THEN Before(s, 0) + 1 ELSE Before(s, 0) BY <2>1, <1>20, BeforeAdvance
  <2> QED BY <2>2, <1>5, <1>12, <1>15, <1>16
<1>23. /\ IsSending(sending', v, p, pkgWords') /\ IsBuffer(sending', buffer', v)
       /\ sending' \in {None} \cup [source : {"stream", "buffer"}, at : 1 .. PkgWords]
  <2>1. CASE sending.at = PkgWords
    <3>1. sending' = None BY <2>1, <1>8 DEF SendWord
    <3>2. v = p /\ v = NextPackage(s)
      <4>1. ~(s.at + 1 < PkgWords) BY <2>1, <1>6, <1>7, <1>8
      <4>2. Advance(s, 1) = NextPackage(s) BY <4>1 DEF Advance
      <4> QED BY <4>2, <1>8, <1>20
    <3>3. v.conn = NextConn(s.conn) /\ v.base = IF NextConn(s.conn) = 0 THEN s.base + PkgWords ELSE s.base
      BY <3>2, NextPackageIs
    <3>4. Len(buffer') = PkgWords BY <2>1, <1>8, <1>16
    <3>5. v.conn # 0 => v.base = s.base BY <3>3
    <3> QED BY <3>1, <3>2, <3>4, <3>5, <1>16 DEF IsSending, IsBuffer
  <2>2. CASE sending.at # PkgWords
    <3>1. sending' = [sending EXCEPT !.at = @ + 1] BY <2>2, <1>8 DEF SendWord
    <3>2. s.at + 1 < PkgWords BY <2>2, <1>6, <1>7, <1>8
    <3>3. v = [conn |-> s.conn, base |-> s.base, at |-> s.at + 1] BY <3>2, <1>20 DEF Advance
    <3>4. v.conn = s.conn /\ v.base = s.base /\ v.at = s.at + 1 BY <3>3
    <3>5. NextPackage(v) = p BY <3>4, <1>8 DEF NextPackage
    <3>6. sending' = [source |-> sending.source, at |-> sending.at + 1] BY <3>1, <1>9
    <3>7. sending'.source = sending.source /\ sending'.at = v.at + 1 /\ sending'.at \in 1 .. PkgWords
      BY <3>2, <3>4, <3>6, <1>6, <1>7, <1>8
    <3>8. sending' \in [source : {"stream", "buffer"}, at : 1 .. PkgWords] BY <3>6, <3>7, <1>9
    <3>9. sending' # None BY <3>8, <3>7, <1>9 DEF None
    <3>10. IsSending(sending', v, p, pkgWords') BY <3>4, <3>5, <3>7, <3>9, <1>8, <1>15 DEF IsSending
    <3>11. IsBuffer(sending', buffer', v) BY <3>4, <1>16 DEF IsBuffer
    <3> QED BY <3>8, <3>10, <3>11
  <2> QED BY <2>1, <2>2
<1>24. CastTypes'
  <2>1. txData' \in Seq(Sent) BY <1>10, <1>19
  <2> QED BY <2>1, <1>15, <1>16, <1>23 DEF CastTypes
<1>25. CastInv'
  <2>1. p = Turn(txTurn', sentWords') BY <1>4, <1>15
  <2>2. Packages(granted', t, Granted(txStatus', p)) BY <1>5, <1>15
  <2>3. \A c \in Conns : AreReceived(received'[c], Before(t, c)) BY <1>5, <1>15
  <2>4. /\ sentWords' \in Multiples /\ sentWords' <= ExpWords
        /\ OneRequest(txMeta', txStatus', started', p)
        /\ txTurn' # 0 \/ sentWords' > 0 => pkgWords' = PkgWords
    BY <1>4, <1>15 DEF CastInv
  <2> QED BY <2>1, <2>2, <2>3, <2>4, <1>21, <1>22, <1>23 DEF CastInv
<1> QED BY <1>1, <1>2, <1>3, <1>17, <1>18, <1>24, <1>25

-----------------------------------------------------------------------------
(* The toe                                                                 *)

LEMMA ToeAnswerKeeps ==
    ASSUME IInv, ToeAnswer
    PROVE  IInv'
<1> USE DEF IInv
<1>1. GatherTypes' BY GatherTypesFrame DEF ToeAnswer, handshakeVars, sumVars
<1>2. SumTypes' BY SumTypesFrame DEF ToeAnswer, sumVars
<1>3. GatherInv' BY GatherFrame DEF ToeAnswer, handshakeVars, sumVars
<1>4. NoticeInv' BY NoticeFrame DEF ToeAnswer, rxVars, handshakeVars
<1>5. SumsInv' BY SumsFrame DEF ToeAnswer, sumVars
<1>6. PICK p \in Places : p = Turn(txTurn, sentWords) /\ p.conn = txTurn BY TurnIs DEF CastInv
<1>7. PICK r \in Requests : r = PackageAt(p) /\ r.conn = p.conn /\ r.length = PkgWords
  <2>1. PICK r : r = PackageAt(p) OBVIOUS
  <2>2. r = [conn |-> p.conn, length |-> PkgWords] BY <2>1 DEF PackageAt
  <2>3. r \in Requests BY <2>2, PlaceIs, Parameters DEF Requests
  <2> QED BY <2>1, <2>2, <2>3
<1>8. started /\ txMeta = <<r>> /\ txStatus = <<>> BY <1>6, <1>7 DEF CastInv, OneRequest, ToeAnswer
<1>9. Head(txMeta) = r /\ Tail(txMeta) = <<>> BY <1>8
<1>10. PICK e \in {0, 2} :
         /\ txStatus' = Append(txStatus, [conn |-> Head(txMeta).conn, length |-> Head(txMeta).length, error |-> e])
         /\ granted' = IF e = 0 THEN Append(granted, Head(txMeta)) ELSE granted
  BY DEF ToeAnswer
<1>11. PICK h \in [conn : Conns, length : Nat, error : {0, 2}] :
         h = [conn |-> p.conn, length |-> PkgWords, error |-> e] /\ h.error = e
  <2>1. p.conn \in Conns /\ PkgWords \in Nat BY PlaceIs, Parameters
  <2>2. PICK h : h = [conn |-> p.conn, length |-> PkgWords, error |-> e] OBVIOUS
  <2> QED BY <2>1, <2>2
<1>12. /\ txStatus' = <<h>> /\ txMeta' = <<>> /\ granted' = IF e = 0 THEN Append(granted, r) ELSE granted
       /\ started' = started /\ txTurn' = txTurn /\ sentWords' = sentWords /\ pkgWords' = pkgWords /\ sending' = sending
       /\ buffer' = buffer /\ txData' = txData /\ received' = received /\ toSend' = toSend /\ result' = result
  <2>1. txStatus' = Append(<<>>, h) BY <1>7, <1>8, <1>9, <1>10, <1>11
  <2>2. txStatus' = <<h>> BY <2>1
  <2> QED BY <2>2, <1>9, <1>10 DEF ToeAnswer, castVars, sumVars
<1>13. granted \in Seq(Requests) BY DEF CastTypes
<1>14. CastTypes'
  <2>1. <<h>> \in Seq([conn : Conns, length : Nat, error : {0, 2}]) /\ <<>> \in Seq(Requests) OBVIOUS
  <2>2. granted' \in Seq(Requests) BY <1>12, <1>13
  <2> QED BY <2>1, <2>2, <1>12 DEF CastTypes
<1>15. CastInv'
  <2>1. PICK t \in Places, s \in Places :
          /\ Packages(granted, t, Granted(txStatus, p)) /\ Holds("sum", txData, t, s)
          /\ IsSending(sending, s, p, pkgWords) /\ IsBuffer(sending, buffer, s)
          /\ Len(result) - Len(toSend) = Before(s, 0)
          /\ \A c \in Conns : AreReceived(received[c], Before(t, c))
    BY <1>6 DEF CastInv
  <2>2. p = Turn(txTurn', sentWords') BY <1>6, <1>12
  <2>3. Packages(granted, t, p) BY <2>1, <1>8 DEF Granted
  <2>4. Head(<<h>>) = h /\ <<h>> # <<>> OBVIOUS
  <2>5. Packages(granted', t, Granted(txStatus', p))
    <3>1. CASE e = 0
      <4>1. Granted(txStatus', p) = NextPackage(p) BY <3>1, <2>4, <1>11, <1>12 DEF Granted
      <4>2. Packages(Append(granted, r), t, NextPackage(p)) BY <2>3, <1>7, <1>13, PackagesGrow
      <4> QED BY <4>1, <4>2, <3>1, <1>12
    <3>2. CASE e # 0
      <4>1. Granted(txStatus', p) = p BY <3>2, <2>4, <1>11, <1>12 DEF Granted
      <4> QED BY <4>1, <3>2, <2>3, <1>12
    <3> QED BY <3>1, <3>2
  <2>6. OneRequest(txMeta', txStatus', started', p) BY <1>8, <1>11, <1>12 DEF OneRequest
  <2>7. sentWords' \in Multiples /\ sentWords' <= ExpWords /\ (txTurn' # 0 \/ sentWords' > 0 => pkgWords' = PkgWords)
    BY <1>12 DEF CastInv
  <2> QED BY <2>1, <2>2, <2>5, <2>6, <2>7, <1>12 DEF CastInv
<1> QED BY <1>1, <1>2, <1>3, <1>4, <1>5, <1>14, <1>15

LEMMA ToeTakeKeeps ==
    ASSUME IInv, ToeTake
    PROVE  IInv'
<1> USE DEF IInv
<1>1. GatherTypes' BY GatherTypesFrame DEF ToeTake, handshakeVars, sumVars
<1>2. SumTypes' BY SumTypesFrame DEF ToeTake, sumVars
<1>3. GatherInv' BY GatherFrame DEF ToeTake, handshakeVars, sumVars
<1>4. NoticeInv' BY NoticeFrame DEF ToeTake, rxVars, handshakeVars
<1>5. SumsInv' BY SumsFrame DEF ToeTake, sumVars
<1>6. PICK p \in Places : p = Turn(txTurn, sentWords) BY TurnIs DEF CastInv
<1>7. PICK t \in Places, s \in Places :
        /\ Packages(granted, t, Granted(txStatus, p)) /\ Holds("sum", txData, t, s)
        /\ IsSending(sending, s, p, pkgWords) /\ IsBuffer(sending, buffer, s)
        /\ Len(result) - Len(toSend) = Before(s, 0)
        /\ \A c \in Conns : AreReceived(received[c], Before(t, c))
  BY <1>6 DEF CastInv
<1>8. granted \in Seq(Requests) /\ granted # <<>> /\ txData \in Seq(Sent) /\ received \in [Conns -> Seq(Sent)]
  BY DEF CastTypes, ToeTake
<1>9. PkgWords \in Nat /\ PkgWords >= 1 /\ ExpWords \in Multiples /\ ExpWords \in Nat BY Parameters
<1>10. Head(granted) = PackageAt(t) /\ Packages(Tail(granted), NextPackage(t), Granted(txStatus, p)) /\ t.at = 0
  BY <1>7, <1>8, PackagesPop, PackagesEnds
<1>11. t.conn \in Conns /\ t.conn \in Nat /\ t.base \in Multiples /\ t.base \in Nat BY PlaceIs, ConnsTurn
<1>12. PICK h : h = Head(granted) /\ h.conn = t.conn /\ h.length = PkgWords BY <1>10 DEF PackageAt
<1>13. PICK n \in Nat : n = Len(txData) /\ n >= PkgWords BY <1>8, <1>12 DEF ToeTake
<1>14. PICK w : w = SubSeq(txData, 1, PkgWords) OBVIOUS
<1>15. PICK u : u = SubSeq(txData, PkgWords + 1, n) OBVIOUS
<1>16. /\ received' = [received EXCEPT ![t.conn] = @ \o w] /\ txData' = u /\ granted' = Tail(granted)
       /\ started' = started /\ txTurn' = txTurn /\ sentWords' = sentWords /\ pkgWords' = pkgWords /\ sending' = sending
       /\ buffer' = buffer /\ txMeta' = txMeta /\ txStatus' = txStatus /\ toSend' = toSend /\ result' = result
  BY <1>12, <1>13, <1>14, <1>15 DEF ToeTake, castVars, sumVars
<1>17. (\A j \in 1 .. PkgWords : txData[j] = Item("sum", Advance(t, j - 1))) /\ Holds("sum", u, NextPackage(t), s)
  BY <1>7, <1>8, <1>10, <1>13, <1>15, HoldsLosesPackage
<1>18. w \in Seq(Sent) /\ Len(w) = PkgWords /\ \A j \in 1 .. PkgWords : w[j] = txData[j]
  BY <1>8, <1>9, <1>13, <1>14
<1>19. u \in Seq(Sent) BY <1>8, <1>9, <1>13, <1>15
<1>20. ASSUME NEW j \in 1 .. PkgWords
       PROVE  w[j] = [sum |-> SumOf(t.base + j), last |-> EndsPackage(t.base + j)]
  <2>1. t.at + (j - 1) < PkgWords /\ t.at + (j - 1) = j - 1 BY <1>9, <1>10
  <2>2. Advance(t, j - 1) = [conn |-> t.conn, base |-> t.base, at |-> j - 1] BY <2>1 DEF Advance
  <2>3. PICK a : a = Advance(t, j - 1) OBVIOUS
  <2>4. a.conn = t.conn /\ a.base = t.base /\ a.at = j - 1 BY <2>2, <2>3
  <2>5. t.base + (j - 1) + 1 = t.base + j /\ (j - 1) + 1 = j BY <1>11
  <2>6. SumAt(a) = [sum |-> SumOf(t.base + j), last |-> j = PkgWords] BY <2>4, <2>5 DEF SumAt, IsLast
  <2>7. EndsPackage(t.base + j) <=> j = PkgWords
    <3>1. (t.base + j) % PkgWords = 0 <=> j = PkgWords BY <1>11, EndsInMultiples
    <3>2. t.base + j = ExpWords => j = PkgWords
      <4>1. ASSUME t.base + j = ExpWords PROVE t.base + PkgWords <= ExpWords
        <5>1. t.base < ExpWords BY <4>1, <1>9, <1>11
        <5> QED BY <5>1, <1>9, <1>11, NothingBetweenMultiples
      <4> QED BY <4>1, <1>9, <1>11
    <3> QED BY <3>1, <3>2 DEF EndsPackage
  <2>8. w[j] = SumAt(a) BY <1>17, <1>18, <2>3 DEF Item
  <2>9. EndsPackage(t.base + j) \in BOOLEAN BY DEF EndsPackage
  <2>10. EndsPackage(t.base + j) = (j = PkgWords) BY <2>7, <2>9
  <2> QED BY <2>6, <2>8, <2>10
<1>21. PICK v \in Places :
         v = NextPackage(t) /\ \A c \in Conns : Before(v, c) = IF c = t.conn THEN Before(t, c) + PkgWords ELSE Before(t, c)
  BY <1>10, NextPackageIs, BeforeNextPackage
<1>22. ASSUME NEW c \in Conns PROVE AreReceived(received'[c], Before(v, c))
  <2>1. CASE c # t.conn
    <3>1. received'[c] = received[c] BY <2>1, <1>8, <1>16
    <3> QED BY <3>1, <2>1, <1>7, <1>21
  <2>2. CASE c = t.conn
    <3>1. PICK r \in Seq(Sent) : r = received[c] BY <1>8
    <3>2. received'[c] = r \o w BY <2>2, <3>1, <1>8, <1>16
    <3>3. Before(t, c) = t.base BY <2>2, <1>10, <1>11 DEF Before
    <3>4. PICK b \in Nat : b = t.base BY <1>11
    <3>5. Len(r) = b /\ \A i \in 1 .. b : r[i] = [sum |-> SumOf(i), last |-> EndsPackage(i)]
      BY <3>1, <3>3, <3>4, <1>7 DEF AreReceived
    <3>6. Len(r \o w) = b + PkgWords /\ \A i \in 1 .. b + PkgWords : (r \o w)[i] = IF i <= b THEN r[i] ELSE w[i - b]
      BY <3>1, <3>5, <1>9, <1>18
    <3>7. ASSUME NEW i \in 1 .. b + PkgWords PROVE (r \o w)[i] = [sum |-> SumOf(i), last |-> EndsPackage(i)]
      <4>1. CASE i <= b
        <5>1. i \in 1 .. b BY <4>1
        <5>2. r[i] = [sum |-> SumOf(i), last |-> EndsPackage(i)] BY <5>1, <3>5
        <5> QED BY <5>2, <4>1, <3>6
      <4>2. CASE ~(i <= b)
        <5>1. i - b \in 1 .. PkgWords /\ b + (i - b) = i BY <4>2, <1>9
        <5>2. w[i - b] = [sum |-> SumOf(b + (i - b)), last |-> EndsPackage(b + (i - b))] BY <5>1, <3>4, <1>20
        <5> QED BY <5>1, <5>2, <4>2, <3>6
      <4> QED BY <4>1, <4>2
    <3>8. Before(v, c) = b + PkgWords BY <2>2, <3>3, <3>4, <1>21
    <3>9. AreReceived(r \o w, b + PkgWords) BY <3>6, <3>7 DEF AreReceived
    <3> QED BY <3>2, <3>8, <3>9
  <2> QED BY <2>1, <2>2
<1>23. CastTypes'
  <2>1. Tail(granted) \in Seq(Requests) BY <1>8
  <2>2. received' \in [Conns -> Seq(Sent)]
    <3>1. received[t.conn] \in Seq(Sent) BY <1>8, <1>11
    <3>2. received[t.conn] \o w \in Seq(Sent) BY <3>1, <1>18
    <3> QED BY <3>2, <1>8, <1>11, <1>16
  <2> QED BY <2>1, <2>2, <1>16, <1>19 DEF CastTypes
<1>24. CastInv'
  <2>1. p = Turn(txTurn', sentWords') BY <1>6, <1>16
  <2>2. Packages(granted', v, Granted(txStatus', p)) /\ Holds("sum", txData', v, s) BY <1>10, <1>16, <1>17, <1>21
  <2>3. IsSending(sending', s, p, pkgWords') /\ IsBuffer(sending', buffer', s) /\ Len(result') - Len(toSend') = Before(s, 0)
    BY <1>7, <1>16
  <2>4. /\ sentWords' \in Multiples /\ sentWords' <= ExpWords
        /\ OneRequest(txMeta', txStatus', started', p)
        /\ txTurn' # 0 \/ sentWords' > 0 => pkgWords' = PkgWords
    BY <1>6, <1>16 DEF CastInv
  <2> QED BY <2>1, <2>2, <2>3, <2>4, <1>22 DEF CastInv
<1> QED BY <1>1, <1>2, <1>3, <1>4, <1>5, <1>23, <1>24

-----------------------------------------------------------------------------
(* The theorems                                                            *)

LEMMA StutterKeeps ==
    ASSUME IInv, UNCHANGED vars
    PROVE  IInv'
<1> USE DEF IInv
<1>1. GatherTypes' BY GatherTypesFrame DEF vars, handshakeVars, sumVars
<1>2. SumTypes' BY SumTypesFrame DEF vars, sumVars
<1>3. CastTypes' BY CastTypesFrame DEF vars
<1>4. GatherInv' BY GatherFrame DEF vars, handshakeVars, sumVars
<1>5. NoticeInv' BY NoticeFrame DEF vars, rxVars, handshakeVars
<1>6. SumsInv' BY SumsFrame DEF vars, sumVars
<1>7. CastInv' BY CastFrame DEF vars, sumVars
<1> QED BY <1>1, <1>2, <1>3, <1>4, <1>5, <1>6, <1>7

LEMMA StepKeeps ==
    ASSUME IInv, [Next]_vars
    PROVE  IInv'
<1>1. CASE Notified BY <1>1, NotifiedKeeps
<1>2. CASE RequestPackage BY <1>2, RequestPackageKeeps
<1>3. CASE ConsumeWord BY <1>3, ConsumeWordKeeps
<1>4. CASE SplitWord BY <1>4, SplitWordKeeps
<1>5. CASE SumWord BY <1>5, SumWordKeeps
<1>6. CASE DuplicateWord BY <1>6, DuplicateWordKeeps
<1>7. CASE StartBroadcast BY <1>7, StartBroadcastKeeps
<1>8. CASE OnAccepted BY <1>8, OnAcceptedKeeps
<1>9. CASE OnRefused BY <1>9, OnRefusedKeeps
<1>10. CASE SendWord BY <1>10, SendWordKeeps
<1>11. CASE ToeRead BY <1>11, ToeReadKeeps
<1>12. CASE ToeAnswer BY <1>12, ToeAnswerKeeps
<1>13. CASE ToeTake BY <1>13, ToeTakeKeeps
<1>14. CASE \E c \in Conns, length \in 1 .. ExpWords : Arrive(c, length) BY <1>14, ArriveKeeps
<1>15. CASE UNCHANGED vars BY <1>15, StutterKeeps
<1> QED
  BY <1>1, <1>2, <1>3, <1>4, <1>5, <1>6, <1>7, <1>8, <1>9, <1>10, <1>11, <1>12, <1>13, <1>14, <1>15
  DEF Next, Gather, Reduce, Broadcast

(* In every reachable state each queue between two of gather, split, sum,  *)
(* broadcast and the toe holds exactly the words, packages or sums from    *)
(* the place of its reader to the place of its writer in the order of      *)
(* turns, and what is asked of the toe has arrived.                        *)
THEOREM Invariance == Spec => []IInv
<1>1. Init => IInv BY InitInv
<1>2. IInv /\ [Next]_vars => IInv' BY StepKeeps
<1> QED BY <1>1, <1>2, PTL DEF Spec

(* Sum i that the kernel keeps (sum_from_streams, duplicate_stream) and    *)
(* that the toe takes from broadcast for each connection is that of word i *)
(* of every connection, and the packages end where their requests said.    *)
THEOREM SumsAreAdded == Spec => []SumsAreExact
<1>1. ASSUME IInv PROVE SumsAreExact
  <2>1. result \in Seq(Letters) /\ received \in [Conns -> Seq(Sent)] BY <1>1 DEF IInv, SumTypes, CastTypes
  <2>2. ASSUME NEW i \in DOMAIN result PROVE result[i] = SumOf(i)
    <3>1. i \in 1 .. Len(result) /\ 0 + i = i BY <2>1, <2>2
    <3>2. result[i] = SumOf(0 + i) BY <3>1, <1>1 DEF IInv, SumsInv, AreSums
    <3> QED BY <3>1, <3>2
  <2>3. ASSUME NEW c \in Conns, NEW i \in DOMAIN received[c]
        PROVE  received[c][i] = [sum |-> SumOf(i), last |-> EndsPackage(i)]
    <3>1. PICK t \in Places : \A d \in Conns : AreReceived(received[d], Before(t, d)) BY <1>1 DEF IInv, CastInv
    <3>2. i \in 1 .. Len(received[c]) BY <2>1, <2>3
    <3> QED BY <3>1, <3>2 DEF AreReceived
  <2> QED BY <2>2, <2>3 DEF SumsAreExact
<1>2. IInv => SumsAreExact BY <1>1
<1> QED BY <1>2, Invariance, PTL

=============================================================================
