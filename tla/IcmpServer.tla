------------------------------ MODULE IcmpServer ------------------------------
(***************************************************************************)
(* icmp_server: it answers echo requests, and tells the senders of packets *)
(* that nobody listened to, or whose time to live was over.  The verdict on*)
(* a request, and its checksum, are known when its last word has been read;*)
(* until then a FIFO has to keep it.                                       *)
(*                                                                         *)
(* A unit is two bytes, <<part, packet, position>>; a word has four.  Only *)
(* the sums are numbers: of 16 bits, added with the carry at the other end.*)
(***************************************************************************)
EXTENDS AxiStream

CONSTANTS
    Workloads,      \* for each input, a sequence of packets
    PkgDepth,       \* packageBuffer1 (64), which has to keep a request
    Depth           \* of the other FIFOs (8 and more)

VARIABLES
    work,           \* one of Workloads: [dataIn, udpIn, ttlIn]
    raw,            \* for each input, words still to come
    delivered       \* dataOut

vars == <<work, raw, q, reg, delivered>>

Inputs == {"dataIn", "udpIn", "ttlIn"}
Errors == {"udpIn", "ttlIn"}

(* A packet of len units, its IP header included.  An echo request is      *)
(* answered if its checksum is right; its data add up to value.  Each unit *)
(* of the other packets has that value.                                    *)
Packet(request, intact, len, value) == [request |-> request, intact |-> intact, len |-> len, value |-> value]

PacketAt(name) == work[name[1]][name[2]]
Part(part, name, n) == [k \in 1 .. n |-> <<part, name, k>>]
WordsOf(name) == Words(Part("pkt", name, PacketAt(name).len))
NameIn(word) == word.data[1][2]

Init ==
    /\ work \in Workloads
    /\ raw = [i \in Inputs |-> FlattenSeq([n \in DOMAIN work[i] |-> WordsOf(<<i, n>>)])]
    /\ q = [package |-> <<>>, valid |-> <<>>, data |-> <<>>, header |-> <<>>,
            stream1 |-> <<>>, stream2 |-> <<>>, checksum1 |-> <<>>, checksum2 |-> <<>>]
    /\ reg = [wordCount |-> 0, prev |-> NoWord, writeLast |-> FALSE, compute |-> FALSE,
              drop |-> "first", udp |-> [state |-> "IDLE"], ip |-> [state |-> "IDLE"], insert |-> [count |-> 0, source |-> 1]]
    /\ delivered = <<>>

DepthOf(fifo) == CASE fifo = "package" -> PkgDepth [] fifo = "data" -> 2 * Depth [] OTHER -> Depth
HasRoom(fifo) == Len(q[fifo]) < DepthOf(fifo)
Put(fifos, fifo, x) == [fifos EXCEPT ![fifo] = Append(@, x)]

-----------------------------------------------------------------------------
(* Arithmetic of checksums                                                 *)

Ones == 65535                           \* 16 bits
EndAround(x) == (x % (Ones + 1)) + (x \div (Ones + 1))
Complement(x) == Ones - x
EchoRequest == 8

(* What check_icmp_checksum makes of a request's checksum: the type is     *)
(* taken from the sum, with a borrow from the other end.                   *)
BorrowNone(x) == x % (Ones + 1)
Borrow(x) == IF x < 0 THEN x + Ones ELSE x
ReplyChecksum(checksum) == Complement(Borrow(Complement(checksum) - EchoRequest))

(* The checksum a request has.                                             *)
RequestChecksum(name) == Complement(EndAround(EchoRequest + PacketAt(name).value))

(* The sum of an error message has 20 bits and is folded at the end.       *)
Wrap == 1048576
ErrorChecksum(sum) == Complement(EndAround(EndAround(sum)))

-----------------------------------------------------------------------------
(* check_icmp_checksum.  The first words of the reply: source and          *)
(* destination change places, the request becomes a reply.                 *)
TypeUnit(name) == <<"echo reply", name>>

CheckWriteLast ==
    /\ reg.writeLast /\ HasRoom("package")
    /\ q' = Put(q, "package", reg.prev)
    /\ reg' = [reg EXCEPT !.writeLast = FALSE]

(* Four cycles.                                                            *)
CheckCompute ==
    /\ ~reg.writeLast /\ reg.compute /\ HasRoom("valid")
    /\ LET name == NameIn(reg.prev)
           valid == PacketAt(name).request /\ PacketAt(name).intact
       IN /\ valid => HasRoom("checksum1")
          /\ q' = IF valid THEN Put(Put(q, "valid", TRUE), "checksum1", ReplyChecksum(RequestChecksum(name)))
                  ELSE Put(q, "valid", FALSE)
    /\ reg' = [reg EXCEPT !.compute = FALSE]

(* What is written, and kept, when a word is read.                         *)
Sent(word) == IF reg.wordCount = 2 THEN Word(First(2, reg.prev.data) \o First(2, word.data), FALSE) ELSE reg.prev
Kept(word) ==
    IF reg.wordCount = 2
    THEN [word EXCEPT !.data = Rest(2, reg.prev.data) \o <<TypeUnit(NameIn(word))>> \o Rest(3, @)]
    ELSE word

CheckWord ==
    /\ ~reg.writeLast /\ ~reg.compute /\ raw.dataIn # <<>>
    /\ reg.wordCount # 0 => HasRoom("package")
    /\ LET word == Head(raw.dataIn) IN
         /\ q' = IF reg.wordCount = 0 THEN q ELSE Put(q, "package", Sent(word))
         /\ reg' = [reg EXCEPT !.prev = Kept(word), !.writeLast = word.last, !.compute = word.last,
                               !.wordCount = IF word.last THEN 0 ELSE Least(@ + 1, 3)]
    /\ raw' = [raw EXCEPT !.dataIn = Tail(@)]

(* dropper                                                                 *)
DropFirst ==
    /\ reg.drop = "first" /\ q.package # <<>> /\ q.valid # <<>>
    /\ Head(q.valid) => HasRoom("stream1")
    /\ LET word == Head(q.package)
           read == [q EXCEPT !.package = Tail(@), !.valid = Tail(@)]
       IN /\ q' = IF Head(q.valid) THEN Put(read, "stream1", word) ELSE read
          /\ reg' = [reg EXCEPT !.drop = IF word.last THEN "first" ELSE IF Head(q.valid) THEN "forward" ELSE "drop"]

DropNext ==
    /\ reg.drop # "first" /\ q.package # <<>>
    /\ reg.drop = "forward" => HasRoom("stream1")
    /\ LET word == Head(q.package) IN
         /\ q' = IF reg.drop = "forward" THEN Move("package", "stream1", word) ELSE [q EXCEPT !.package = Tail(@)]
         /\ reg' = [reg EXCEPT !.drop = IF word.last THEN "first" ELSE @]

-----------------------------------------------------------------------------
(* udpPortUnreachable: an ICMP header, then the packet; the words of its IP*)
(* header go to udpAddIpHeader, too.                                       *)
Value(unit) == IF unit[1] = "pkt" THEN PacketAt(unit[2]).value ELSE 0
Sum(word) == FoldLeft(LAMBDA x, unit : x + Value(unit), 0, word.data)

ErrorType(input) == IF input = "udpIn" THEN 771 ELSE 11    \* 0x0303, 0x000B
IcmpHeader(input) == Word(<<<<"type", ErrorType(input)>>, <<"none">>, <<"none">>, <<"none">>>>, FALSE)

UdpIdle ==
    /\ reg.udp.state = "IDLE" /\ HasRoom("data")
    /\ \E input \in Errors :
          /\ raw[input] # <<>> /\ (input = "ttlIn" => raw.udpIn = <<>>)
          /\ q' = Put(q, "data", IcmpHeader(input))
          /\ reg' = [reg EXCEPT !.udp = [state |-> "IP", source |-> input, count |-> 0, sum |-> ErrorType(input)]]
    /\ UNCHANGED raw

UdpWord ==
    /\ reg.udp.state \in {"IP", "STREAM"} /\ HasRoom("data")
    /\ LET input == reg.udp.source
           isIp == reg.udp.state = "IP"
       IN /\ raw[input] # <<>>
          /\ isIp => HasRoom("header")
          /\ LET word == Head(raw[input])
                 copied == Put(q, "data", word)
             IN /\ q' = IF isIp THEN Put(copied, "header", word) ELSE copied
                /\ reg' = [reg EXCEPT !.udp.sum = (@ + Sum(word)) % Wrap,
                                      !.udp.count = Least(@ + 1, 3),
                                      !.udp.state = IF isIp THEN (IF reg.udp.count = 2 THEN "STREAM" ELSE "IP")
                                                    ELSE IF word.last THEN "CS" ELSE "STREAM"]
          /\ raw' = [raw EXCEPT ![input] = Tail(@)]

UdpChecksum ==
    /\ reg.udp.state = "CS" /\ HasRoom("checksum2")
    /\ q' = Put(q, "checksum2", ErrorChecksum(reg.udp.sum))
    /\ reg' = [reg EXCEPT !.udp = [state |-> "IDLE"]]
    /\ UNCHANGED raw

(* udpAddIpHeader: the sender becomes the destination, the length is that  *)
(* of the message.                                                         *)
HeaderWord(word) ==
    IF reg.ip.state = "IDLE" THEN [word EXCEPT !.data[2] = <<"length", NameIn(word)>>]
    ELSE Word(<<<<"ttl 128, icmp">>, word.data[2], <<"me">>, <<"me">>>>, FALSE)

IpHeader ==
    /\ reg.ip.state \in {"IDLE", "IP"} /\ q.header # <<>> /\ HasRoom("stream2")
    /\ LET word == Head(q.header) IN
         /\ q' = Move("header", "stream2", HeaderWord(word))
         /\ reg' = [reg EXCEPT !.ip = IF reg.ip.state = "IDLE" THEN [state |-> "IP"]
                                      ELSE [state |-> "MERGE", sourceIP |-> Rest(2, word.data)]]

IpMerge ==
    /\ reg.ip.state = "MERGE" /\ q.header # <<>> /\ q.data # <<>> /\ HasRoom("stream2")
    /\ LET word == Head(q.data) IN
         /\ q' = [Move("data", "stream2", Word(reg.ip.sourceIP \o First(2, word.data), FALSE)) EXCEPT !.header = Tail(@)]
         /\ reg' = [reg EXCEPT !.ip = [state |-> "STREAM", word |-> word]]

IpStream ==
    /\ reg.ip.state = "STREAM" /\ q.data # <<>> /\ HasRoom("stream2")
    /\ LET word == Head(q.data)
           fits == word.last /\ Len(word.data) <= 2
       IN /\ q' = Move("data", "stream2", Word(Rest(2, reg.ip.word.data) \o First(2, word.data), fits))
          /\ reg' = [reg EXCEPT !.ip = IF fits THEN [state |-> "IDLE"]
                                       ELSE [state |-> IF word.last THEN "RESIDUE" ELSE "STREAM", word |-> word]]

IpResidue ==
    /\ reg.ip.state = "RESIDUE" /\ HasRoom("stream2")
    /\ q' = Put(q, "stream2", Word(Rest(2, reg.ip.word.data), TRUE))
    /\ reg' = [reg EXCEPT !.ip = [state |-> "IDLE"]]

-----------------------------------------------------------------------------
(* insertChecksum: whole packets of the two streams, requests first.       *)
StreamOf(source) == IF source = 1 THEN "stream1" ELSE "stream2"
ChecksumOf(source) == IF source = 1 THEN "checksum1" ELSE "checksum2"
Written(word) == delivered' = Append(delivered, word)

InsertFirst ==
    /\ reg.insert.count = 0
    /\ \E source \in 1 .. 2 :
          /\ q[StreamOf(source)] # <<>> /\ (source = 2 => q.stream1 = <<>>)
          /\ Written(Head(q[StreamOf(source)]))
          /\ q' = [q EXCEPT ![StreamOf(source)] = Tail(@)]
          /\ reg' = [reg EXCEPT !.insert = [count |-> 1, source |-> source]]

InsertChecksum ==
    /\ reg.insert.count = 2
    /\ LET stream == StreamOf(reg.insert.source)
           checksum == ChecksumOf(reg.insert.source)
       IN /\ q[stream] # <<>> /\ q[checksum] # <<>>
          /\ Written([Head(q[stream]) EXCEPT !.data[4] = <<"checksum", Head(q[checksum])>>])
          /\ q' = [q EXCEPT ![stream] = Tail(@), ![checksum] = Tail(@)]
    /\ reg' = [reg EXCEPT !.insert.count = 3]

InsertNext ==
    /\ reg.insert.count \in {1, 3}
    /\ LET stream == StreamOf(reg.insert.source) IN
         /\ q[stream] # <<>>
         /\ Written(Head(q[stream]))
         /\ q' = [q EXCEPT ![stream] = Tail(@)]
         /\ reg' = [reg EXCEPT !.insert.count = IF Head(q[stream]).last THEN 0 ELSE Least(@ + 1, 3)]

-----------------------------------------------------------------------------

Next ==
    \/ CheckWord /\ UNCHANGED <<work, delivered>>
    \/ (UdpIdle \/ UdpWord \/ UdpChecksum) /\ UNCHANGED <<work, delivered>>
    \/ (CheckWriteLast \/ CheckCompute \/ DropFirst \/ DropNext) /\ UNCHANGED <<work, raw, delivered>>
    \/ (IpHeader \/ IpMerge \/ IpStream \/ IpResidue) /\ UNCHANGED <<work, raw, delivered>>
    \/ (InsertFirst \/ InsertChecksum \/ InsertNext) /\ UNCHANGED <<work, raw>>

(* No stage waits but for its FIFOs.                                       *)
Spec == Init /\ [][Next]_vars /\ WF_vars(Next)

-----------------------------------------------------------------------------
(* The words without their checksums, which are looked at apart.           *)
IsChecksum(unit) == unit[1] = "checksum"
Masked(word) == [word EXCEPT !.data = [k \in DOMAIN @ |-> IF IsChecksum(@[k]) THEN <<"checksum">> ELSE @[k]]]

Reply(name) ==
    LET request == Part("pkt", name, PacketAt(name).len)
    IN Words(First(6, request) \o SubSeq(request, 9, 10) \o SubSeq(request, 7, 8)
             \o <<TypeUnit(name), <<"checksum">>>> \o Rest(12, request))

Message(name) ==
    LET packet == Part("pkt", name, PacketAt(name).len)
    IN Words([First(4, packet) EXCEPT ![2] = <<"length", name>>]
             \o <<<<"ttl 128, icmp">>, packet[6], <<"me">>, <<"me">>, packet[7], packet[8],
                  <<"type", ErrorType(name[1])>>, <<"checksum">>, <<"none">>, <<"none">>>> \o packet)

Replies == FlattenSeq([n \in DOMAIN work.dataIn |->
    LET p == work.dataIn[n] IN IF p.request /\ p.intact THEN Reply(<<"dataIn", n>>) ELSE <<>>])
Messages(input) == FlattenSeq([n \in DOMAIN work[input] |-> Message(<<input, n>>)])

(* The words that were sent for packets of an input: the inputs follow each*)
(* other packet by packet, and every packet names its own in its first     *)
(* word.                                                                   *)
StartsAt(n) == n = 1 \/ delivered[n - 1].last
InputOf(n) == NameIn(delivered[CHOOSE m \in 1 .. n : StartsAt(m) /\ \A k \in m + 1 .. n : ~StartsAt(k)])[1]
SentFor(input) == FlattenSeq([n \in DOMAIN delivered |-> IF InputOf(n) = input THEN <<Masked(delivered[n])>> ELSE <<>>])

(* A checksum is right if everything adds up to all ones.                  *)
Valid(sum, checksum) == EndAround(EndAround(sum + checksum)) = Ones

(* What a checksum has to cover: the data of a reply, whose type and code  *)
(* are 0, or the whole error message.                                      *)
SumOf(name) ==
    IF name[1] = "dataIn" THEN PacketAt(name).value
    ELSE ErrorType(name[1]) + PacketAt(name).len * PacketAt(name).value

ChecksumsAreRight ==
    \A n \in DOMAIN delivered : \A k \in DOMAIN delivered[n].data :
        IsChecksum(delivered[n].data[k]) =>
            Valid(SumOf(NameIn([data |-> <<delivered[n].data[1]>>])), delivered[n].data[k][2])

(* Every reply and every message is whole, meets its own checksum, which is*)
(* right, and answers a packet that asks for it; each input's are in the   *)
(* order of its packets.                                                   *)
RepliesAreRight ==
    /\ IsPrefix(SentFor("dataIn"), Replies)
    /\ \A input \in Errors : IsPrefix(SentFor(input), Messages(input))
    /\ ChecksumsAreRight

(* In the end all are sent.                                                *)
Finished == SentFor("dataIn") = Replies /\ \A input \in Errors : SentFor(input) = Messages(input)
AllAreAnswered == <>Finished

=============================================================================
