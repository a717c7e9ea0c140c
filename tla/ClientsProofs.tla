----------------------------- MODULE ClientsProofs -----------------------------
(***************************************************************************)
(* Proofs about the DHCP client and the iperf client, for any pool of      *)
(* addresses, any number of connections and any bound.                     *)
(***************************************************************************)
EXTENDS MCClients, SequencesExt, SequenceTheorems, FunctionTheorems, FiniteSetTheorems, TLAPS

LEMMA TailIsPart ==
    ASSUME NEW S, NEW q \in Seq(S), q # <<>>
    PROVE  /\ Head(q) \in S /\ Tail(q) \in Seq(S)
           /\ Head(q) \in ToSet(q) /\ ToSet(Tail(q)) \subseteq ToSet(q)
<1>1. /\ Head(q) \in S /\ Tail(q) \in Seq(S) /\ Len(Tail(q)) = Len(q) - 1
      /\ \A i \in 1 .. Len(Tail(q)) : Tail(q)[i] = q[i + 1]
  BY HeadTailProperties
<1>2. Len(q) \in Nat \ {0} /\ DOMAIN q = 1 .. Len(q) BY EmptySeq
<1>3. DOMAIN Tail(q) = 1 .. Len(q) - 1 BY <1>1
<1>4. Head(q) = q[1] OBVIOUS
<1>5. \A i \in DOMAIN Tail(q) : i + 1 \in DOMAIN q /\ Tail(q)[i] = q[i + 1] BY <1>1, <1>2, <1>3
<1>6. Head(q) \in ToSet(q) BY <1>2, <1>4 DEF ToSet
<1> QED BY <1>1, <1>5, <1>6 DEF ToSet

LEMMA AppendIsMore ==
    ASSUME NEW S, NEW q \in Seq(S), NEW e \in S
    PROVE  Append(q, e) \in Seq(S) /\ ToSet(Append(q, e)) = ToSet(q) \cup {e}
<1>1. Append(q, e) \in Seq(S) /\ Len(Append(q, e)) = Len(q) + 1 /\ Len(q) \in Nat OBVIOUS
<1>2. DOMAIN Append(q, e) = 1 .. Len(q) + 1 /\ DOMAIN q = 1 .. Len(q) BY <1>1
<1>3. \A i \in 1 .. Len(q) : Append(q, e)[i] = q[i] OBVIOUS
<1>4. Append(q, e)[Len(q) + 1] = e OBVIOUS
<1>5. \A i \in 1 .. Len(q) + 1 : i = Len(q) + 1 \/ i \in 1 .. Len(q) BY <1>1
<1>6. \A i \in 1 .. Len(q) : i \in 1 .. Len(q) + 1 BY <1>1
<1>7. Len(q) + 1 \in 1 .. Len(q) + 1 BY <1>1
<1> QED BY <1>1, <1>2, <1>3, <1>4, <1>5, <1>6, <1>7 DEF ToSet

-----------------------------------------------------------------------------
(* The DHCP client                                                         *)

Messages ==
    [type : {"DISCOVER", "REQUEST", "OFFER", "ACK", "NAK"}, identifier : Nat, address : Addresses \cup {Fixed}]

DhcpTypes ==
    /\ myIdentity \in Nat
    /\ dhcpRequestQ \in Seq(Messages) /\ dhcpReplyQ \in Seq(Messages)
    /\ toServer \in SUBSET Messages
    /\ toClient \in SUBSET [to : {"me", "other"}, reply : Messages]
    /\ owner \in [Addresses -> {"none", "me", "other"}]

(* A message of the present exchange about one address is about the one    *)
(* that was offered, and there is none before the offer.                   *)
FitsExchange(m) ==
    m.identifier = myIdentity =>
       /\ dhcpState # "SELECTING"
       /\ dhcpState = "REQUESTING" => m.address = IpAddressBuffer

RequestIsSound(m) ==
    /\ m.identifier <= myIdentity
    /\ m.type = "REQUEST" => m.address \in Addresses /\ FitsExchange(m)

AnswerIsSound(m) ==
    /\ m.identifier <= myIdentity
    /\ m.type = "OFFER" => m.address \in Addresses
    /\ m.type = "ACK" => m.address \in Addresses /\ owner[m.address] = "me" /\ FitsExchange(m)

(* Only the answers to other stations can be anything.                     *)
RequestsUnderWay == ToSet(dhcpRequestQ) \cup toServer
AnswersUnderWay == ToSet(dhcpReplyQ) \cup {m.reply : m \in {n \in toClient : n.to = "me"}}
MessagesAreSound ==
    /\ \A m \in RequestsUnderWay : RequestIsSound(m)
    /\ \A m \in AnswersUnderWay : AnswerIsSound(m)

DhcpInv == DhcpTypes /\ MessagesAreSound /\ Dhcp!AddressIsGranted

LEMMA MessageIs ==
    /\ \A t, i, a : /\ Dhcp!Message(t, i, a).type = t /\ Dhcp!Message(t, i, a).identifier = i
                    /\ Dhcp!Message(t, i, a).address = a
    /\ \A t \in {"DISCOVER", "REQUEST", "OFFER", "ACK", "NAK"}, i \in Nat, a \in Addresses \cup {Fixed} :
          Dhcp!Message(t, i, a) \in Messages
BY DEF Dhcp!Message, Messages

(* What was said stays sound while the client stays where it is, or goes   *)
(* to a state in which no address matters, or starts a new exchange; and   *)
(* leases are not given up.                                                *)
Passes ==
    /\ myIdentity' \in Nat
    /\ \/ myIdentity' = myIdentity /\ dhcpState' \notin {"SELECTING", "REQUESTING"}
       \/ myIdentity' = myIdentity /\ dhcpState' = dhcpState /\ IpAddressBuffer' = IpAddressBuffer
       \/ myIdentity' > myIdentity
       \/ myIdentity' = myIdentity /\ dhcpState = "SELECTING"
KeepsLeases == \A a \in Addresses : owner[a] = "me" => owner'[a] = "me"

LEMMA FitsOn ==
    ASSUME DhcpTypes, Passes, NEW m \in Messages, m.identifier <= myIdentity, FitsExchange(m)
    PROVE  FitsExchange(m)'
<1>1. m.identifier \in Nat /\ myIdentity \in Nat /\ myIdentity' \in Nat BY DEF Messages, DhcpTypes, Passes
<1>2. CASE myIdentity' = myIdentity
  <2>1. \/ dhcpState' \notin {"SELECTING", "REQUESTING"}
        \/ dhcpState' = dhcpState /\ IpAddressBuffer' = IpAddressBuffer
        \/ dhcpState = "SELECTING"
    BY <1>1, <1>2 DEF Passes
  <2> QED BY <2>1, <1>2 DEF FitsExchange
<1>3. CASE myIdentity' > myIdentity BY <1>1, <1>3 DEF FitsExchange
<1> QED BY <1>2, <1>3 DEF Passes

LEMMA SoundOn ==
    ASSUME DhcpTypes, Passes, KeepsLeases, NEW m \in Messages
    PROVE  /\ RequestIsSound(m) => RequestIsSound(m)'
           /\ AnswerIsSound(m) => AnswerIsSound(m)'
<1>1. m.identifier \in Nat /\ myIdentity \in Nat /\ myIdentity' \in Nat /\ myIdentity' >= myIdentity
  BY DEF Messages, DhcpTypes, Passes
<1>2. m.identifier <= myIdentity => m.identifier <= myIdentity' BY <1>1
<1> QED BY <1>2, FitsOn DEF RequestIsSound, AnswerIsSound, KeepsLeases

LEMMA AllAreMessages ==
    ASSUME DhcpTypes
    PROVE  RequestsUnderWay \subseteq Messages /\ AnswersUnderWay \subseteq Messages
<1>1. ASSUME NEW q \in Seq(Messages) PROVE ToSet(q) \subseteq Messages BY DEF ToSet
<1> QED BY <1>1 DEF DhcpTypes, RequestsUnderWay, AnswersUnderWay

(* The step only takes messages away, or adds one that is sound.           *)
LEMMA SoundAfter ==
    ASSUME DhcpTypes, MessagesAreSound, Passes, KeepsLeases,
           \A m \in RequestsUnderWay' : m \in RequestsUnderWay \/ RequestIsSound(m)',
           \A m \in AnswersUnderWay' : m \in AnswersUnderWay \/ AnswerIsSound(m)'
    PROVE  MessagesAreSound'
<1>1. \A m \in RequestsUnderWay : RequestIsSound(m)' BY AllAreMessages, SoundOn DEF MessagesAreSound
<1>2. \A m \in AnswersUnderWay : AnswerIsSound(m)' BY AllAreMessages, SoundOn DEF MessagesAreSound
<1> QED BY <1>1, <1>2 DEF MessagesAreSound

-----------------------------------------------------------------------------
(* Each step of the DHCP client, the server and the network                *)

LEMMA ClientStays ==
    ASSUME DhcpTypes,
           myIdentity' = myIdentity, IpAddressBuffer' = IpAddressBuffer,
           dhcpState' = dhcpState \/ dhcpState' \notin {"SELECTING", "REQUESTING"}
    PROVE  Passes
BY DEF DhcpTypes, Passes

LEMMA DiscoverKeeps ==
    ASSUME DhcpInv, Dhcp!Discover, Dhcp!Fsm
    PROVE  DhcpInv'
<1>1. /\ myIpAddress' = Fixed /\ myIdentity' = myIdentity + 1 /\ dhcpState' = "SELECTING"
      /\ dhcpRequestQ' = Append(dhcpRequestQ, Dhcp!Message("DISCOVER", myIdentity + 1, Fixed))
      /\ IpAddressBuffer' = IpAddressBuffer /\ dhcpReplyQ' = dhcpReplyQ
      /\ toServer' = toServer /\ toClient' = toClient /\ owner' = owner
  BY DEF Dhcp!Discover, Dhcp!Fsm, Dhcp!serverVars
<1>2. DhcpTypes /\ MessagesAreSound /\ myIdentity \in Nat BY DEF DhcpInv, DhcpTypes
<1>3. PICK m \in Messages :
         m = Dhcp!Message("DISCOVER", myIdentity + 1, Fixed) /\ m.type = "DISCOVER" /\ m.identifier = myIdentity + 1
  BY <1>2, MessageIs
<1>4. ToSet(dhcpRequestQ') = ToSet(dhcpRequestQ) \cup {m} /\ dhcpRequestQ' \in Seq(Messages)
  BY <1>1, <1>2, <1>3, AppendIsMore DEF DhcpTypes
<1>5. DhcpTypes' BY <1>1, <1>2, <1>4 DEF DhcpTypes
<1>6. RequestIsSound(m)' BY <1>1, <1>2, <1>3 DEF RequestIsSound
<1>7. Passes BY <1>1, <1>2 DEF Passes
<1>8. RequestsUnderWay' = RequestsUnderWay \cup {m} /\ AnswersUnderWay' = AnswersUnderWay
  BY <1>1, <1>4 DEF RequestsUnderWay, AnswersUnderWay
<1>9. MessagesAreSound' BY <1>1, <1>2, <1>6, <1>7, <1>8, SoundAfter DEF KeepsLeases
<1> QED BY <1>1, <1>5, <1>9 DEF DhcpInv, Dhcp!AddressIsGranted

(* It takes an answer, which is sound.                                     *)
LEMMA AnswerTaken ==
    ASSUME DhcpTypes, MessagesAreSound, dhcpReplyQ # <<>>
    PROVE  /\ Head(dhcpReplyQ) \in Messages /\ AnswerIsSound(Head(dhcpReplyQ))
           /\ Tail(dhcpReplyQ) \in Seq(Messages) /\ ToSet(Tail(dhcpReplyQ)) \subseteq ToSet(dhcpReplyQ)
<1>1. dhcpReplyQ \in Seq(Messages) BY DEF DhcpTypes
<1>2. /\ Head(dhcpReplyQ) \in Messages /\ Tail(dhcpReplyQ) \in Seq(Messages)
      /\ Head(dhcpReplyQ) \in ToSet(dhcpReplyQ) /\ ToSet(Tail(dhcpReplyQ)) \subseteq ToSet(dhcpReplyQ)
  BY <1>1, TailIsPart
<1> QED BY <1>2 DEF MessagesAreSound, AnswersUnderWay

LEMMA SelectingKeeps ==
    ASSUME DhcpInv, Dhcp!Selecting, Dhcp!Fsm
    PROVE  DhcpInv'
<1> DEFINE reply == Head(dhcpReplyQ)
           Asked == Dhcp!Message("REQUEST", myIdentity, reply.address)
<1>1. /\ dhcpState = "SELECTING" /\ dhcpReplyQ # <<>> /\ dhcpReplyQ' = Tail(dhcpReplyQ)
      /\ myIdentity' = myIdentity /\ myIpAddress' = myIpAddress
      /\ toServer' = toServer /\ toClient' = toClient /\ owner' = owner
  BY DEF Dhcp!Selecting, Dhcp!Fsm, Dhcp!serverVars
<1>2. DhcpTypes /\ MessagesAreSound /\ myIdentity \in Nat /\ myIpAddress = Fixed
  BY <1>1 DEF DhcpInv, DhcpTypes, Dhcp!AddressIsGranted
<1>3. /\ reply \in Messages /\ AnswerIsSound(reply)
      /\ dhcpReplyQ' \in Seq(Messages) /\ ToSet(dhcpReplyQ') \subseteq ToSet(dhcpReplyQ)
  BY <1>1, <1>2, AnswerTaken
<1>4. KeepsLeases BY <1>1 DEF KeepsLeases
<1>5. Passes BY <1>1, <1>2 DEF Passes
<1>6. AnswersUnderWay' \subseteq AnswersUnderWay BY <1>1, <1>3 DEF AnswersUnderWay
<1>7. CASE /\ Dhcp!IsMine(reply) /\ reply.type = "OFFER"
           /\ IpAddressBuffer' = reply.address /\ dhcpState' = "REQUESTING"
           /\ dhcpRequestQ' = Append(dhcpRequestQ, Asked)
  <2>1. PICK m \in Messages :
           /\ m = Asked /\ m.identifier = myIdentity
           /\ m.address = reply.address /\ m.address \in Addresses
    BY <1>2, <1>3, <1>7, MessageIs DEF AnswerIsSound, Messages
  <2>2. ToSet(dhcpRequestQ') = ToSet(dhcpRequestQ) \cup {m} /\ dhcpRequestQ' \in Seq(Messages)
    BY <1>2, <1>7, <2>1, AppendIsMore DEF DhcpTypes
  <2>3. DhcpTypes' BY <1>1, <1>2, <1>3, <2>2 DEF DhcpTypes
  <2>4. RequestIsSound(m)' BY <1>1, <1>2, <1>7, <2>1 DEF RequestIsSound, FitsExchange
  <2>5. RequestsUnderWay' = RequestsUnderWay \cup {m} BY <1>1, <2>2 DEF RequestsUnderWay
  <2>6. MessagesAreSound' BY <1>2, <1>4, <1>5, <1>6, <2>4, <2>5, SoundAfter
  <2> QED BY <1>1, <1>2, <1>7, <2>3, <2>6 DEF DhcpInv, Dhcp!AddressIsGranted
<1>8. CASE /\ dhcpState' \in {"INIT", dhcpState}
           /\ UNCHANGED <<IpAddressBuffer, dhcpRequestQ>>
  <2>1. DhcpTypes' BY <1>1, <1>2, <1>3, <1>8 DEF DhcpTypes
  <2>2. RequestsUnderWay' = RequestsUnderWay BY <1>1, <1>8 DEF RequestsUnderWay
  <2>3. MessagesAreSound' BY <1>2, <1>4, <1>5, <1>6, <2>2, SoundAfter
  <2> QED BY <1>1, <1>2, <1>8, <2>1, <2>3 DEF DhcpInv, Dhcp!AddressIsGranted
<1> QED BY <1>7, <1>8 DEF Dhcp!Selecting

(* The address of an acknowledgement of this exchange is the one the       *)
(* client has asked for, and it is leased to this station.                 *)
LEMMA RequestingKeeps ==
    ASSUME DhcpInv, Dhcp!Requesting, Dhcp!Fsm
    PROVE  DhcpInv'
<1> DEFINE reply == Head(dhcpReplyQ)
<1>1. /\ dhcpState = "REQUESTING" /\ dhcpReplyQ # <<>> /\ dhcpReplyQ' = Tail(dhcpReplyQ)
      /\ myIdentity' = myIdentity /\ IpAddressBuffer' = IpAddressBuffer /\ dhcpRequestQ' = dhcpRequestQ
      /\ toServer' = toServer /\ toClient' = toClient /\ owner' = owner
      /\ \/ Dhcp!IsMine(reply) /\ reply.type = "ACK" /\ myIpAddress' = IpAddressBuffer /\ dhcpState' = "BOUND"
         \/ dhcpState' \in {"INIT", dhcpState} /\ myIpAddress' = myIpAddress
  BY DEF Dhcp!Requesting, Dhcp!Fsm, Dhcp!serverVars
<1>2. DhcpTypes /\ MessagesAreSound /\ myIpAddress = Fixed BY <1>1 DEF DhcpInv, Dhcp!AddressIsGranted
<1>3. /\ reply \in Messages /\ AnswerIsSound(reply)
      /\ dhcpReplyQ' \in Seq(Messages) /\ ToSet(dhcpReplyQ') \subseteq ToSet(dhcpReplyQ)
  BY <1>1, <1>2, AnswerTaken
<1>4. DhcpTypes' BY <1>1, <1>2, <1>3 DEF DhcpTypes
<1>5. Passes BY <1>1, <1>2, ClientStays
<1>6. RequestsUnderWay' = RequestsUnderWay /\ AnswersUnderWay' \subseteq AnswersUnderWay
  BY <1>1, <1>3 DEF RequestsUnderWay, AnswersUnderWay
<1>7. MessagesAreSound' BY <1>1, <1>2, <1>5, <1>6, SoundAfter DEF KeepsLeases
<1>8. Dhcp!AddressIsGranted'
  <2>1. CASE /\ Dhcp!IsMine(reply) /\ reply.type = "ACK"
             /\ myIpAddress' = IpAddressBuffer /\ dhcpState' = "BOUND"
    <3>1. reply.address \in Addresses /\ owner[reply.address] = "me" /\ FitsExchange(reply)
      BY <1>3, <2>1 DEF AnswerIsSound
    <3>2. reply.address = IpAddressBuffer BY <1>1, <2>1, <3>1 DEF FitsExchange, Dhcp!IsMine
    <3> QED BY <1>1, <2>1, <3>1, <3>2 DEF Dhcp!AddressIsGranted
  <2>2. CASE dhcpState' \in {"INIT", dhcpState} /\ myIpAddress' = myIpAddress
    BY <1>1, <1>2, <2>2 DEF Dhcp!AddressIsGranted
  <2> QED BY <1>1, <2>1, <2>2
<1> QED BY <1>4, <1>7, <1>8 DEF DhcpInv

(* The other steps of the FSM, the port, the time-outs and the switch leave*)
(* the exchange alone, or give it up.                                      *)
LEMMA QuietStepsKeep ==
    ASSUME DhcpInv,
           myIdentity' = myIdentity, IpAddressBuffer' = IpAddressBuffer,
           dhcpRequestQ' = dhcpRequestQ, dhcpReplyQ' \in {dhcpReplyQ, Tail(dhcpReplyQ)},
           dhcpReplyQ = <<>> => dhcpReplyQ' = dhcpReplyQ,
           toServer' = toServer, toClient' = toClient, owner' = owner,
           \/ dhcpState' = dhcpState /\ myIpAddress' = myIpAddress
           \/ dhcpState' \in {"PORT_WAIT", "INIT"}
    PROVE  DhcpInv'
<1>1. DhcpTypes /\ MessagesAreSound /\ dhcpReplyQ \in Seq(Messages) BY DEF DhcpInv, DhcpTypes
<1>2. dhcpReplyQ' \in Seq(Messages) /\ ToSet(dhcpReplyQ') \subseteq ToSet(dhcpReplyQ)
  BY <1>1, TailIsPart
<1>3. DhcpTypes' BY <1>1, <1>2 DEF DhcpTypes
<1>4. Passes BY <1>1, ClientStays
<1>5. RequestsUnderWay' = RequestsUnderWay /\ AnswersUnderWay' \subseteq AnswersUnderWay
  BY <1>2 DEF RequestsUnderWay, AnswersUnderWay
<1>6. MessagesAreSound' BY <1>1, <1>4, <1>5, SoundAfter DEF KeepsLeases
<1> QED BY <1>3, <1>6 DEF DhcpInv, Dhcp!AddressIsGranted

(* What the environment does: the client keeps still.                      *)
ClientRests ==
    /\ dhcpState' = dhcpState /\ myIdentity' = myIdentity
    /\ myIpAddress' = myIpAddress /\ IpAddressBuffer' = IpAddressBuffer

LEMMA EnvironmentKeeps ==
    ASSUME DhcpInv, ClientRests, DhcpTypes', KeepsLeases,
           \A m \in RequestsUnderWay' : m \in RequestsUnderWay \/ RequestIsSound(m)',
           \A m \in AnswersUnderWay' : m \in AnswersUnderWay \/ AnswerIsSound(m)'
    PROVE  DhcpInv'
<1>1. DhcpTypes /\ MessagesAreSound /\ Dhcp!AddressIsGranted BY DEF DhcpInv
<1>2. Passes BY <1>1, ClientStays DEF ClientRests
<1>3. MessagesAreSound' BY <1>1, <1>2, SoundAfter
<1>4. Dhcp!AddressIsGranted' BY <1>1 DEF ClientRests, KeepsLeases, Dhcp!AddressIsGranted
<1> QED BY <1>3, <1>4 DEF DhcpInv

LEMMA SendKeeps ==
    ASSUME DhcpInv, Dhcp!SendMessage
    PROVE  DhcpInv'
<1>1. /\ dhcpRequestQ # <<>> /\ dhcpRequestQ' = Tail(dhcpRequestQ)
      /\ toServer' = toServer \cup {Head(dhcpRequestQ)}
      /\ dhcpReplyQ' = dhcpReplyQ /\ toClient' = toClient /\ owner' = owner /\ ClientRests
  BY DEF Dhcp!SendMessage, Dhcp!serverVars, ClientRests
<1>2. DhcpTypes /\ dhcpRequestQ \in Seq(Messages) BY DEF DhcpInv, DhcpTypes
<1>3. /\ Head(dhcpRequestQ) \in Messages /\ Head(dhcpRequestQ) \in ToSet(dhcpRequestQ)
      /\ dhcpRequestQ' \in Seq(Messages) /\ ToSet(dhcpRequestQ') \subseteq ToSet(dhcpRequestQ)
  BY <1>1, <1>2, TailIsPart
<1>4. DhcpTypes' BY <1>1, <1>2, <1>3 DEF DhcpTypes, ClientRests
<1>5. RequestsUnderWay' \subseteq RequestsUnderWay /\ AnswersUnderWay' = AnswersUnderWay
  BY <1>1, <1>3 DEF RequestsUnderWay, AnswersUnderWay
<1> QED BY <1>1, <1>4, <1>5, EnvironmentKeeps DEF KeepsLeases

LEMMA ReceiveKeeps ==
    ASSUME DhcpInv, NEW n \in toClient, NEW stays \in BOOLEAN, Dhcp!ReceiveMessage(n, stays)
    PROVE  DhcpInv'
<1>1. /\ dhcpReplyQ' = IF n.to = "me" THEN Append(dhcpReplyQ, n.reply) ELSE dhcpReplyQ
      /\ toClient' \subseteq toClient
      /\ dhcpRequestQ' = dhcpRequestQ /\ toServer' = toServer /\ owner' = owner /\ ClientRests
  BY DEF Dhcp!ReceiveMessage, Dhcp!IsForMe, Dhcp!clientVars, ClientRests
<1>2. DhcpTypes /\ dhcpReplyQ \in Seq(Messages) /\ n.reply \in Messages BY DEF DhcpInv, DhcpTypes
<1>3. Append(dhcpReplyQ, n.reply) \in Seq(Messages)
      /\ ToSet(Append(dhcpReplyQ, n.reply)) = ToSet(dhcpReplyQ) \cup {n.reply}
  BY <1>2, AppendIsMore
<1>4. DhcpTypes' BY <1>1, <1>2, <1>3 DEF DhcpTypes, ClientRests
<1>5. RequestsUnderWay' = RequestsUnderWay BY <1>1 DEF RequestsUnderWay
<1>6. AnswersUnderWay' \subseteq AnswersUnderWay BY <1>1, <1>3 DEF AnswersUnderWay
<1> QED BY <1>1, <1>4, <1>5, <1>6, EnvironmentKeeps DEF KeepsLeases

(* The server answers a request, or another station takes an address: one  *)
(* more answer, and a lease at most.                                       *)
LEMMA AnswerKeeps ==
    ASSUME DhcpInv, ClientRests, NEW n \in [to : {"me", "other"}, reply : Messages],
           toClient' = toClient \cup {n}, toServer' \subseteq toServer,
           dhcpRequestQ' = dhcpRequestQ, dhcpReplyQ' = dhcpReplyQ,
           owner' \in [Addresses -> {"none", "me", "other"}], KeepsLeases,
           n.to = "me" => AnswerIsSound(n.reply)'
    PROVE  DhcpInv'
<1>1. DhcpTypes BY DEF DhcpInv
<1>2. DhcpTypes' BY <1>1 DEF DhcpTypes, ClientRests
<1>3. RequestsUnderWay' \subseteq RequestsUnderWay BY DEF RequestsUnderWay
<1>4. \A m \in AnswersUnderWay' : m \in AnswersUnderWay \/ AnswerIsSound(m)' BY DEF AnswersUnderWay
<1> QED BY <1>2, <1>3, <1>4, EnvironmentKeeps

LEMMA ServeKeeps ==
    ASSUME DhcpInv, NEW m \in toServer, NEW stays \in BOOLEAN, Dhcp!Serve(m, stays)
    PROVE  DhcpInv'
<1>1. /\ toServer' \subseteq toServer /\ dhcpRequestQ' = dhcpRequestQ /\ dhcpReplyQ' = dhcpReplyQ /\ ClientRests
  BY DEF Dhcp!Serve, Dhcp!clientVars, ClientRests
<1>2. DhcpTypes /\ m \in Messages /\ RequestIsSound(m) /\ m.identifier \in Nat
  BY DEF DhcpInv, DhcpTypes, MessagesAreSound, RequestsUnderWay, Messages
<1>3. owner \in [Addresses -> {"none", "me", "other"}] BY <1>2 DEF DhcpTypes
<1>4. CASE Dhcp!Offer(m)
  <2>1. PICK a \in Addresses : Dhcp!Reply("me", Dhcp!Message("OFFER", m.identifier, a))
    BY <1>4 DEF Dhcp!Offer
  <2>2. PICK r \in Messages :
           r = Dhcp!Message("OFFER", m.identifier, a) /\ r.type = "OFFER"
           /\ r.identifier = m.identifier /\ r.address = a
    BY <1>2, MessageIs
  <2>3. PICK n \in [to : {"me", "other"}, reply : Messages] : n = [to |-> "me", reply |-> r]  OBVIOUS
  <2>4. toClient' = toClient \cup {n} /\ n.reply = r BY <2>1, <2>2, <2>3 DEF Dhcp!Reply
  <2>5. owner' = owner BY <1>4 DEF Dhcp!Offer
  <2>6. AnswerIsSound(r)' BY <1>1, <1>2, <2>2 DEF AnswerIsSound, RequestIsSound, ClientRests
  <2> QED BY <1>1, <1>3, <2>4, <2>5, <2>6, AnswerKeeps DEF KeepsLeases
<1>5. CASE Dhcp!Grant(m)
  <2>1. /\ m.type = "REQUEST" /\ owner' = [owner EXCEPT ![m.address] = "me"]
        /\ Dhcp!Reply("me", Dhcp!Message("ACK", m.identifier, m.address))
    BY <1>5 DEF Dhcp!Grant
  <2>2. m.address \in Addresses /\ FitsExchange(m) /\ m.identifier <= myIdentity
    BY <1>2, <2>1 DEF RequestIsSound
  <2>3. PICK r \in Messages :
           r = Dhcp!Message("ACK", m.identifier, m.address) /\ r.type = "ACK"
           /\ r.identifier = m.identifier /\ r.address = m.address
    BY <1>2, <2>2, MessageIs
  <2>4. PICK n \in [to : {"me", "other"}, reply : Messages] : n = [to |-> "me", reply |-> r]  OBVIOUS
  <2>5. toClient' = toClient \cup {n} /\ n.reply = r BY <2>1, <2>3, <2>4 DEF Dhcp!Reply
  <2>6. owner' \in [Addresses -> {"none", "me", "other"}] /\ KeepsLeases /\ owner'[m.address] = "me"
    BY <1>3, <2>1, <2>2 DEF KeepsLeases
  <2>7. AnswerIsSound(r)' BY <1>1, <2>2, <2>3, <2>6 DEF AnswerIsSound, FitsExchange, ClientRests
  <2> QED BY <1>1, <2>5, <2>6, <2>7, AnswerKeeps
<1>6. CASE Dhcp!Refuse(m)
  <2>1. /\ m.type = "REQUEST" /\ owner' = owner
        /\ Dhcp!Reply("me", Dhcp!Message("NAK", m.identifier, m.address))
    BY <1>6 DEF Dhcp!Refuse
  <2>2. m.address \in Addresses /\ m.identifier <= myIdentity BY <1>2, <2>1 DEF RequestIsSound
  <2>3. PICK r \in Messages :
           r = Dhcp!Message("NAK", m.identifier, m.address) /\ r.type = "NAK" /\ r.identifier = m.identifier
    BY <1>2, <2>2, MessageIs
  <2>4. PICK n \in [to : {"me", "other"}, reply : Messages] : n = [to |-> "me", reply |-> r]  OBVIOUS
  <2>5. toClient' = toClient \cup {n} /\ n.reply = r BY <2>1, <2>3, <2>4 DEF Dhcp!Reply
  <2>6. AnswerIsSound(r)' BY <1>1, <2>2, <2>3 DEF AnswerIsSound, ClientRests
  <2> QED BY <1>1, <1>3, <2>1, <2>5, <2>6, AnswerKeeps DEF KeepsLeases
<1> QED BY <1>4, <1>5, <1>6 DEF Dhcp!Serve

LEMMA OtherTakesKeeps ==
    ASSUME DhcpInv, NEW a \in Addresses, NEW id \in 1 .. MaxTries, Dhcp!OtherTakes(a, id)
    PROVE  DhcpInv'
<1>1. /\ owner[a] = "none" /\ owner' = [owner EXCEPT ![a] = "other"]
      /\ Dhcp!Reply("other", Dhcp!Message("ACK", id, a))
      /\ toServer' = toServer /\ dhcpRequestQ' = dhcpRequestQ /\ dhcpReplyQ' = dhcpReplyQ /\ ClientRests
  BY DEF Dhcp!OtherTakes, Dhcp!clientVars, ClientRests
<1>2. owner \in [Addresses -> {"none", "me", "other"}] BY DEF DhcpInv, DhcpTypes
<1>3. id \in Nat BY ClientsAssumption
<1>4. PICK n \in [to : {"me", "other"}, reply : Messages] :
         n = [to |-> "other", reply |-> Dhcp!Message("ACK", id, a)]
  BY <1>3, MessageIs
<1>5. toClient' = toClient \cup {n} /\ n.to # "me" BY <1>1, <1>4 DEF Dhcp!Reply
<1>6. owner' \in [Addresses -> {"none", "me", "other"}] /\ KeepsLeases BY <1>1, <1>2 DEF KeepsLeases
<1> QED BY <1>1, <1>5, <1>6, AnswerKeeps

LEMMA LoseKeeps ==
    ASSUME DhcpInv, Dhcp!Lose
    PROVE  DhcpInv'
<1>1. /\ toServer' \subseteq toServer /\ toClient' \subseteq toClient
      /\ dhcpRequestQ' = dhcpRequestQ /\ dhcpReplyQ' = dhcpReplyQ /\ owner' = owner /\ ClientRests
  BY DEF Dhcp!Lose, Dhcp!clientVars, ClientRests
<1>2. DhcpTypes' BY <1>1 DEF DhcpInv, DhcpTypes, ClientRests
<1>3. RequestsUnderWay' \subseteq RequestsUnderWay /\ AnswersUnderWay' \subseteq AnswersUnderWay
  BY <1>1 DEF RequestsUnderWay, AnswersUnderWay
<1> QED BY <1>1, <1>2, <1>3, EnvironmentKeeps DEF KeepsLeases

LEMMA DhcpStep == DhcpInv /\ Dhcp!Next => DhcpInv'
<1> SUFFICES ASSUME DhcpInv, Dhcp!Next PROVE DhcpInv'  OBVIOUS
<1>1. CASE Dhcp!OpenPort \/ Dhcp!PortAnswer
  BY <1>1, QuietStepsKeep DEF Dhcp!OpenPort, Dhcp!PortAnswer, Dhcp!serverVars
<1>2. CASE Dhcp!Fsm
  <2>1. toServer' = toServer /\ toClient' = toClient /\ owner' = owner BY <1>2 DEF Dhcp!Fsm, Dhcp!serverVars
  <2>2. CASE Dhcp!PortIsOpen BY <2>1, <2>2, QuietStepsKeep DEF Dhcp!PortIsOpen
  <2>3. CASE Dhcp!UseFixed BY <2>1, <2>3, QuietStepsKeep DEF Dhcp!UseFixed
  <2>4. CASE Dhcp!Bound BY <2>1, <2>4, QuietStepsKeep DEF Dhcp!Bound
  <2> QED BY <1>2, <2>2, <2>3, <2>4, DiscoverKeeps, SelectingKeeps, RequestingKeeps DEF Dhcp!Fsm
<1>3. CASE Dhcp!TimeOut \/ Dhcp!EarlyTimeOut
  BY <1>3, QuietStepsKeep DEF Dhcp!TimeOut, Dhcp!EarlyTimeOut, Dhcp!Expire, Dhcp!serverVars
<1>4. CASE Dhcp!Toggle BY <1>4, QuietStepsKeep DEF Dhcp!Toggle, Dhcp!clientVars, Dhcp!serverVars
<1>5. CASE Dhcp!ClientHears BY <1>5, ReceiveKeeps DEF Dhcp!ClientHears
<1>6. CASE Dhcp!ServerAnswers BY <1>6, ServeKeeps DEF Dhcp!ServerAnswers
<1>7. CASE Dhcp!Repeat BY <1>7, ServeKeeps, ReceiveKeeps DEF Dhcp!Repeat
<1>8. CASE \E a \in Addresses, id \in 1 .. MaxTries : Dhcp!OtherTakes(a, id) BY <1>8, OtherTakesKeeps
<1> QED BY <1>1, <1>2, <1>3, <1>4, <1>5, <1>6, <1>7, <1>8, SendKeeps, LoseKeeps DEF Dhcp!Next

LEMMA DhcpStart == ClientsInit => DhcpInv
<1> SUFFICES ASSUME Dhcp!Init PROVE DhcpInv BY DEF ClientsInit
<1>1. ToSet(dhcpRequestQ) = {} /\ ToSet(dhcpReplyQ) = {} BY DEF Dhcp!Init, ToSet
<1>2. MessagesAreSound BY <1>1 DEF Dhcp!Init, MessagesAreSound, RequestsUnderWay, AnswersUnderWay
<1> QED BY <1>2 DEF Dhcp!Init, DhcpInv, DhcpTypes, Dhcp!AddressIsGranted

LEMMA DhcpRests == DhcpInv /\ UNCHANGED dhcpVars => DhcpInv'
<1> SUFFICES ASSUME DhcpInv, UNCHANGED dhcpVars PROVE DhcpInv'  OBVIOUS
<1> QED BY QuietStepsKeep DEF dhcpVars

\* The station uses an address that was granted to it and to nobody else.
THEOREM AddressIsItsOwn == ClientsSpec => []AddressIsGranted
<1>1. DhcpInv /\ [ClientsNext]_<<iperfVars, dhcpVars>> => DhcpInv'
  BY DhcpStep, DhcpRests DEF ClientsNext
<1>2. DhcpInv => AddressIsGranted BY DEF DhcpInv, AddressIsGranted
<1> QED BY DhcpStart, <1>1, <1>2, PTL DEF ClientsSpec

-----------------------------------------------------------------------------
(* The iperf client                                                        *)

Metas == [session : Nat, kind : {"header", "package"}]
Statuses == [session : Nat, error : {0, 2}]
Openings == [session : Nat, success : BOOLEAN]

IperfTypes ==
    /\ state \in {"IDLE", "INIT_CON", "WAIT_CON", "CONSTRUCT_HEADER", "INIT_RUN",
                  "CHECK_REQ", "START_PKG", "WRITE_PKG", "CHECK_TIME"}
    /\ sessionIt \in Nat /\ closeIt \in Nat /\ numConnections \in Nat /\ currentSession \in Nat
    /\ timeOver \in BOOLEAN /\ stopSend \in BOOLEAN /\ stopSignal \in BOOLEAN
    /\ openQ \in Seq(Nat) /\ openStatusQ \in Seq(Openings)
    /\ metaQ \in Seq(Metas) /\ iperfStatusQ \in Seq(Statuses)
    /\ iperfDataQ \in Seq(Metas) /\ iperfGranted \in Seq(Metas)
    /\ closed \in Seq(Nat)

(* The connection the client works on, if its next request is not yet made *)
(* and it is not yet closed.                                               *)
Holds ==
    \/ state \in {"INIT_RUN", "START_PKG"}
    \/ state = "WRITE_PKG" /\ stopSend
    \/ state = "CHECK_TIME" /\ stopSend /\ closeIt # numConnections
Held == IF Holds THEN <<currentSession>> ELSE <<>>

SessionsOf(q) == [i \in 1 .. Len(q) |-> q[i].session]

(* The connections in the order in which their turn comes, behind those    *)
(* that are closed.  A request and its answer keep the place.              *)
Ring == Held \o (SessionsOf(iperfStatusQ) \o SessionsOf(metaQ))
Line == closed \o Ring

OnceEach(q) == \A i, j \in DOMAIN q : q[i] = q[j] => i = j

(* The connections that have answered, and those that were asked for.      *)
Answered ==
    CASE state = "INIT_CON" -> 0
      [] state = "WAIT_CON" -> sessionIt
      [] OTHER -> IperfConns
Asked == IF state = "INIT_CON" THEN sessionIt ELSE IperfConns

OpeningInv ==
    /\ \A i \in DOMAIN openStatusQ : openStatusQ[i].session = Answered + i
    /\ \A i \in DOMAIN openQ : openQ[i] = Answered + Len(openStatusQ) + i
    /\ Answered + Len(openStatusQ) + Len(openQ) = Asked
    /\ state \in {"INIT_CON", "WAIT_CON"} => sessionIt < IperfConns

JustOpened == {openStatusQ[i].session : i \in {j \in DOMAIN openStatusQ : openStatusQ[j].success}}

LineInv ==
    /\ OnceEach(Line)
    /\ Len(Line) = numConnections
    /\ \A x \in ToSet(Line) : x <= Answered
    /\ opened = ToSet(Line) \cup JustOpened

(* The requests, and answers, for headers are the first in the line; a     *)
(* header is never refused.                                                *)
Headers ==
    CASE state = "WAIT_CON" -> numConnections
      [] state = "CONSTRUCT_HEADER" -> numConnections - sessionIt
      [] state = "INIT_RUN" -> numConnections - sessionIt - 1
      [] OTHER -> 0

HeadersFirst(h, answers, requests) ==
    /\ h \in 0 .. Len(answers) + Len(requests)
    /\ \A i \in DOMAIN answers : i <= h => answers[i].error = 0
    /\ \A i \in DOMAIN requests :
          requests[i].kind = IF Len(answers) + i <= h THEN "header" ELSE "package"
HeaderInv == HeadersFirst(Headers, iperfStatusQ, metaQ)

PhaseInv ==
    /\ stopSend => timeOver
    /\ closeIt = Len(closed)
    /\ state = "INIT_CON" => numConnections = 0
    /\ state = "IDLE" => closeIt = numConnections

(* What the client writes now, and what it was granted besides: one grant  *)
(* for each answer that is no refusal.                                     *)
Writing ==
    CASE state = "INIT_RUN" -> <<[session |-> currentSession, kind |-> "header"]>>
      [] state \in {"START_PKG", "WRITE_PKG"} -> <<[session |-> currentSession, kind |-> "package"]>>
      [] OTHER -> <<>>

GrantOf(q, h, i) == [session |-> q[i].session, kind |-> IF i <= h THEN "header" ELSE "package"]
Matches(f, r, q, h) ==
    /\ \A j, k \in DOMAIN r : j < k => f[j] < f[k]
    /\ \A i \in DOMAIN q : q[i].error = 0 <=> \E k \in DOMAIN r : f[k] = i
    /\ \A k \in DOMAIN r : r[k] = GrantOf(q, h, f[k])
Grants(r, q, h) == \E f \in [DOMAIN r -> DOMAIN q] : Matches(f, r, q, h)
GrantInv ==
    \E r \in Seq(Metas) :
       /\ iperfGranted = iperfDataQ \o (Writing \o r)
       /\ Grants(r, iperfStatusQ, Headers)

IperfInv == IperfTypes /\ OpeningInv /\ LineInv /\ HeaderInv /\ PhaseInv /\ GrantInv

-----------------------------------------------------------------------------
(* Sequences put together                                                  *)

LEMMA ConcatIs ==
    ASSUME NEW S, NEW s \in Seq(S), NEW t \in Seq(S)
    PROVE  /\ s \o t \in Seq(S) /\ Len(s \o t) = Len(s) + Len(t)
           /\ ToSet(s \o t) = ToSet(s) \cup ToSet(t)
           /\ OnceEach(s \o t) <=> OnceEach(s) /\ OnceEach(t) /\ ToSet(s) \cap ToSet(t) = {}
<1> DEFINE u == s \o t
<1>1. PICK m \in Nat, n \in Nat : m = Len(s) /\ n = Len(t) OBVIOUS
<1>2. /\ u \in Seq(S) /\ Len(u) = m + n
      /\ DOMAIN s = 1 .. m /\ DOMAIN t = 1 .. n /\ DOMAIN u = 1 .. m + n
      /\ \A i \in 1 .. m : u[i] = s[i]
      /\ \A i \in 1 .. n : u[m + i] = t[i]
  BY <1>1
<1> HIDE DEF u
<1>3. /\ \A i \in 1 .. m + n : i \in 1 .. m \/ \E j \in 1 .. n : i = m + j
      /\ \A i \in 1 .. m : i \in 1 .. m + n
      /\ \A i \in 1 .. n : m + i \in 1 .. m + n
  <2>1. ASSUME NEW i \in 1 .. m + n, i \notin 1 .. m PROVE i - m \in 1 .. n /\ i = m + (i - m) BY <2>1
  <2> QED BY <2>1
<1>4. ToSet(u) = ToSet(s) \cup ToSet(t)
  <2>1. ASSUME NEW i \in 1 .. m + n PROVE u[i] \in ToSet(s) \cup ToSet(t)
    <3>1. CASE i \in 1 .. m BY <3>1, <1>2 DEF ToSet
    <3>2. ASSUME NEW j \in 1 .. n, i = m + j PROVE u[i] \in ToSet(t) BY <3>2, <1>2 DEF ToSet
    <3> QED BY <3>1, <3>2, <1>3
  <2>2. ASSUME NEW i \in 1 .. m PROVE s[i] \in ToSet(u)
    <3>1. i \in DOMAIN u /\ u[i] = s[i] BY <1>2, <1>3
    <3> QED BY <3>1 DEF ToSet
  <2>3. ASSUME NEW i \in 1 .. n PROVE t[i] \in ToSet(u)
    <3>1. m + i \in DOMAIN u /\ u[m + i] = t[i] BY <1>2, <1>3
    <3> QED BY <3>1 DEF ToSet
  <2>4. ToSet(u) \subseteq ToSet(s) \cup ToSet(t) BY <1>2, <2>1 DEF ToSet
  <2>5. ToSet(s) \subseteq ToSet(u) BY <1>2, <2>2 DEF ToSet
  <2>6. ToSet(t) \subseteq ToSet(u) BY <1>2, <2>3 DEF ToSet
  <2> QED BY <2>4, <2>5, <2>6
<1>5. ASSUME OnceEach(u) PROVE OnceEach(s) /\ OnceEach(t) /\ ToSet(s) \cap ToSet(t) = {}
  <2>1. OnceEach(s) BY <1>2, <1>3, <1>5 DEF OnceEach
  <2>2. ASSUME NEW i \in 1 .. n, NEW j \in 1 .. n, t[i] = t[j] PROVE i = j
    <3>1. m + i \in DOMAIN u /\ m + j \in DOMAIN u /\ u[m + i] = u[m + j] BY <1>2, <1>3, <2>2
    <3>2. m + i = m + j BY <1>5, <3>1 DEF OnceEach
    <3> QED BY <3>2
  <2>3. ASSUME NEW i \in 1 .. m, NEW j \in 1 .. n, s[i] = t[j] PROVE FALSE
    <3>1. i \in DOMAIN u /\ m + j \in DOMAIN u /\ u[i] = u[m + j] BY <1>2, <1>3, <2>3
    <3>2. i = m + j BY <1>5, <3>1 DEF OnceEach
    <3> QED BY <3>2
  <2> QED BY <1>2, <2>1, <2>2, <2>3 DEF OnceEach, ToSet
<1>6. ASSUME OnceEach(s), OnceEach(t), ToSet(s) \cap ToSet(t) = {} PROVE OnceEach(u)
  <2>1. ASSUME NEW i \in 1 .. m, NEW j \in 1 .. n PROVE u[i] # u[m + j] BY <1>2, <1>6 DEF ToSet
  <2> SUFFICES ASSUME NEW i \in 1 .. m + n, NEW j \in 1 .. m + n, u[i] = u[j] PROVE i = j
    BY <1>2 DEF OnceEach
  <2>2. CASE i \in 1 .. m /\ j \in 1 .. m BY <2>2, <1>2, <1>6 DEF OnceEach
  <2>3. CASE i \notin 1 .. m /\ j \notin 1 .. m
    <3>1. PICK k \in 1 .. n, l \in 1 .. n : i = m + k /\ j = m + l BY <1>3, <2>3
    <3>2. k = l BY <3>1, <1>2, <1>6 DEF OnceEach
    <3> QED BY <3>1, <3>2
  <2> QED BY <1>3, <2>1, <2>2, <2>3
<1> QED BY <1>1, <1>2, <1>4, <1>5, <1>6 DEF u

LEMMA OneIs == \A x : ToSet(<<x>>) = {x} /\ OnceEach(<<x>>) /\ Len(<<x>>) = 1
BY DEF ToSet, OnceEach

LEMMA NoneIs == ToSet(<<>>) = {} /\ OnceEach(<<>>) /\ Len(<<>>) = 0
BY DEF ToSet, OnceEach

(* The first goes to the end.                                              *)
LEMMA Rotates ==
    ASSUME NEW S, NEW c \in Seq(S), NEW r \in Seq(S), NEW x \in S
    PROVE  /\ Len(c \o (r \o <<x>>)) = Len(c \o (<<x>> \o r))
           /\ ToSet(c \o (r \o <<x>>)) = ToSet(c \o (<<x>> \o r))
           /\ OnceEach(c \o (r \o <<x>>)) <=> OnceEach(c \o (<<x>> \o r))
<1>1. <<x>> \in Seq(S) /\ ToSet(<<x>>) = {x} /\ OnceEach(<<x>>) /\ Len(<<x>>) = 1 BY OneIs
<1>2. /\ r \o <<x>> \in Seq(S) /\ Len(r \o <<x>>) = Len(r) + 1 /\ ToSet(r \o <<x>>) = ToSet(r) \cup {x}
      /\ OnceEach(r \o <<x>>) <=> OnceEach(r) /\ x \notin ToSet(r)
  <2>1. /\ r \o <<x>> \in Seq(S) /\ Len(r \o <<x>>) = Len(r) + Len(<<x>>)
        /\ ToSet(r \o <<x>>) = ToSet(r) \cup ToSet(<<x>>)
        /\ OnceEach(r \o <<x>>) <=> OnceEach(r) /\ OnceEach(<<x>>) /\ ToSet(r) \cap ToSet(<<x>>) = {}
    BY <1>1, ConcatIs
  <2>2. ToSet(r) \cap {x} = {} <=> x \notin ToSet(r)  OBVIOUS
  <2> QED BY <1>1, <2>1, <2>2
<1>3. /\ <<x>> \o r \in Seq(S) /\ Len(<<x>> \o r) = Len(r) + 1 /\ ToSet(<<x>> \o r) = ToSet(r) \cup {x}
      /\ OnceEach(<<x>> \o r) <=> OnceEach(r) /\ x \notin ToSet(r)
  <2>1. /\ <<x>> \o r \in Seq(S) /\ Len(<<x>> \o r) = Len(<<x>>) + Len(r)
        /\ ToSet(<<x>> \o r) = ToSet(<<x>>) \cup ToSet(r)
        /\ OnceEach(<<x>> \o r) <=> OnceEach(<<x>>) /\ OnceEach(r) /\ ToSet(<<x>>) \cap ToSet(r) = {}
    BY <1>1, ConcatIs
  <2>2. {x} \cap ToSet(r) = {} <=> x \notin ToSet(r)  OBVIOUS
  <2>3. Len(<<x>> \o r) = Len(r) + 1
    <3>1. Len(r) \in Nat  OBVIOUS
    <3> QED BY <1>1, <2>1, <3>1
  <2> QED BY <1>1, <2>1, <2>2, <2>3
<1>4. /\ Len(c \o (r \o <<x>>)) = Len(c) + Len(r \o <<x>>)
      /\ ToSet(c \o (r \o <<x>>)) = ToSet(c) \cup ToSet(r \o <<x>>)
      /\ OnceEach(c \o (r \o <<x>>)) <=>
            OnceEach(c) /\ OnceEach(r \o <<x>>) /\ ToSet(c) \cap ToSet(r \o <<x>>) = {}
  BY <1>2, ConcatIs
<1>5. /\ Len(c \o (<<x>> \o r)) = Len(c) + Len(<<x>> \o r)
      /\ ToSet(c \o (<<x>> \o r)) = ToSet(c) \cup ToSet(<<x>> \o r)
      /\ OnceEach(c \o (<<x>> \o r)) <=>
            OnceEach(c) /\ OnceEach(<<x>> \o r) /\ ToSet(c) \cap ToSet(<<x>> \o r) = {}
  BY <1>3, ConcatIs
<1> QED BY <1>2, <1>3, <1>4, <1>5

LEMMA AppendIs ==
    ASSUME NEW S, NEW q \in Seq(S), NEW e \in S, NEW n \in Nat, n = Len(q)
    PROVE  /\ Append(q, e) \in Seq(S) /\ Len(Append(q, e)) = n + 1
           /\ DOMAIN q = 1 .. n /\ DOMAIN Append(q, e) = 1 .. n + 1
           /\ Append(q, e)[n + 1] = e
           /\ \A i \in 1 .. n : i \in 1 .. n + 1 /\ Append(q, e)[i] = q[i]
<1>1. /\ Append(q, e) \in Seq(S) /\ Len(Append(q, e)) = Len(q) + 1
      /\ \A i \in 1 .. Len(q) : Append(q, e)[i] = q[i]
      /\ Append(q, e)[Len(q) + 1] = e
  BY AppendProperties
<1>2. PICK a \in Seq(S) : a = Append(q, e) BY <1>1
<1>3. DOMAIN a = 1 .. Len(a) /\ DOMAIN q = 1 .. Len(q)  OBVIOUS
<1>4. \A i \in 1 .. n : i \in 1 .. n + 1  OBVIOUS
<1> QED BY <1>1, <1>2, <1>3, <1>4

LEMMA TailIs ==
    ASSUME NEW S, NEW q \in Seq(S), NEW n \in Nat, Len(q) = n + 1
    PROVE  /\ Head(q) \in S /\ Head(q) = q[1]
           /\ Tail(q) \in Seq(S) /\ Len(Tail(q)) = n
           /\ DOMAIN q = 1 .. n + 1 /\ DOMAIN Tail(q) = 1 .. n
           /\ 1 \in 1 .. n + 1
           /\ \A i \in 1 .. n : i + 1 \in 1 .. n + 1 /\ Tail(q)[i] = q[i + 1]
<1>1. q # <<>>  OBVIOUS
<1>2. /\ Head(q) \in S
      /\ Tail(q) \in Seq(S) /\ Len(Tail(q)) = Len(q) - 1
      /\ \A i \in 1 .. Len(Tail(q)) : Tail(q)[i] = q[i + 1]
  BY <1>1, HeadTailProperties
<1>3. Len(q) - 1 = n  OBVIOUS
<1>4. PICK b \in Seq(S) : b = Tail(q) BY <1>2
<1>5. DOMAIN b = 1 .. Len(b) /\ DOMAIN q = 1 .. n + 1 /\ Head(q) = q[1]  OBVIOUS
<1>6. \A i \in 1 .. n : i + 1 \in 1 .. n + 1  OBVIOUS
<1>7. 1 \in 1 .. n + 1  OBVIOUS
<1> QED BY <1>2, <1>3, <1>4, <1>5, <1>6, <1>7

LEMMA NotEmpty ==
    ASSUME NEW S, NEW q \in Seq(S), q # <<>>
    PROVE  \E n \in Nat : Len(q) = n + 1
<1>1. PICK k \in Nat : k = Len(q)  OBVIOUS
<1>2. k # 0 BY <1>1, EmptySeq
<1>3. k - 1 \in Nat /\ k = (k - 1) + 1 BY <1>2
<1> QED BY <1>1, <1>3

LEMMA HeadAndTail ==
    ASSUME NEW S, NEW s \in Seq(S), s # <<>>
    PROVE  s = <<Head(s)>> \o Tail(s)
OBVIOUS

(* A record of the head, and of the one that is appended.                  *)
LEMMA SessionsAre ==
    ASSUME NEW S, \A e \in S : e.session \in Nat, NEW s \in Seq(S)
    PROVE  /\ SessionsOf(s) \in Seq(Nat) /\ Len(SessionsOf(s)) = Len(s)
           /\ \A e \in S : SessionsOf(Append(s, e)) = SessionsOf(s) \o <<e.session>>
           /\ s # <<>> => SessionsOf(s) = <<Head(s).session>> \o SessionsOf(Tail(s))
<1>1. ASSUME NEW t \in Seq(S) PROVE SessionsOf(t) \in Seq(Nat) /\ Len(SessionsOf(t)) = Len(t)
  BY DEF SessionsOf
<1>2. ASSUME NEW e \in S PROVE SessionsOf(Append(s, e)) = SessionsOf(s) \o <<e.session>>
  <2>1. PICK n \in Nat : n = Len(s) OBVIOUS
  <2>2. PICK a \in Seq(S) :
           a = Append(s, e) /\ Len(a) = n + 1 /\ a[n + 1] = e /\ \A i \in 1 .. n : a[i] = s[i]
    <3>1. /\ Append(s, e) \in Seq(S) /\ Len(Append(s, e)) = Len(s) + 1
          /\ \A i \in 1 .. Len(s) : Append(s, e)[i] = s[i]
          /\ Append(s, e)[Len(s) + 1] = e
      BY AppendProperties
    <3> QED BY <2>1, <3>1
  <2>3. PICK f \in Seq(Nat) : f = SessionsOf(Append(s, e)) BY <1>1, <2>2
  <2>4. PICK g \in Seq(Nat) : g = SessionsOf(s) BY <1>1
  <2>5. PICK x \in Nat : x = e.session  OBVIOUS
  <2>6. Len(f) = n + 1 /\ f[n + 1] = x /\ \A i \in 1 .. n : f[i] = s[i].session
    <3>1. f = [i \in 1 .. n + 1 |-> a[i].session] BY <2>2, <2>3 DEF SessionsOf
    <3>2. \A i \in 1 .. n : i \in 1 .. n + 1 /\ a[i] = s[i] BY <2>2
    <3>3. n + 1 \in 1 .. n + 1  OBVIOUS
    <3>4. Len(f) = n + 1 BY <3>1
    <3>5. f[n + 1] = x BY <3>1, <3>3, <2>2, <2>5
    <3> QED BY <3>1, <3>2, <3>4, <3>5
  <2>7. Len(g) = n /\ \A i \in 1 .. n : g[i] = s[i].session BY <2>1, <2>4, <1>1 DEF SessionsOf
  <2>8. /\ g \o <<x>> \in Seq(Nat) /\ Len(g \o <<x>>) = n + 1
        /\ \A i \in 1 .. n : (g \o <<x>>)[i] = g[i]
        /\ (g \o <<x>>)[n + 1] = x
    BY <2>7
  <2>9. \A i \in 1 .. n + 1 : i = n + 1 \/ i \in 1 .. n BY <2>1
  <2>10. \A i \in 1 .. n + 1 : f[i] = (g \o <<x>>)[i] BY <2>6, <2>7, <2>8, <2>9
  <2>11. f = g \o <<x>> BY <2>6, <2>8, <2>10, SeqEqual
  <2> QED BY <2>3, <2>4, <2>5, <2>11
<1>3. ASSUME s # <<>> PROVE SessionsOf(s) = <<Head(s).session>> \o SessionsOf(Tail(s))
  <2>1. PICK n \in Nat : Len(s) = n + 1
    <3>1. PICK k \in Nat : k = Len(s)  OBVIOUS
    <3>2. k # 0 BY <1>3, <3>1, EmptySeq
    <3>3. k - 1 \in Nat /\ k = (k - 1) + 1 BY <3>2
    <3> QED BY <3>1, <3>3
  <2>2. Tail(s) \in Seq(S) /\ Len(Tail(s)) = n /\ Head(s) = s[1] /\ \A i \in 1 .. n : Tail(s)[i] = s[i + 1]
    BY <1>3, <2>1
  <2>3. SessionsOf(Tail(s)) = [i \in 1 .. n |-> s[i + 1].session] BY <2>2 DEF SessionsOf
  <2>4. SessionsOf(Tail(s)) \in Seq(Nat) /\ Len(SessionsOf(Tail(s))) = n BY <1>1, <2>2
  <2>5. <<Head(s).session>> \o SessionsOf(Tail(s))
           = [i \in 1 .. n + 1 |-> IF i = 1 THEN s[1].session ELSE SessionsOf(Tail(s))[i - 1]]
    BY <2>2, <2>4
  <2>6. \A i \in 1 .. n + 1 : i # 1 => i - 1 \in 1 .. n /\ (i - 1) + 1 = i OBVIOUS
  <2>7. \A i \in 1 .. n + 1 : i # 1 => SessionsOf(Tail(s))[i - 1] = s[i].session BY <2>3, <2>6
  <2>8. SessionsOf(s) = [i \in 1 .. n + 1 |-> s[i].session] BY <2>1 DEF SessionsOf
  <2> QED BY <2>5, <2>7, <2>8
<1> QED BY <1>1, <1>2, <1>3

-----------------------------------------------------------------------------
(* The line of the connections                                             *)

LEMMA QueuesAre ==
    ASSUME IperfTypes
    PROVE  /\ SessionsOf(iperfStatusQ) \in Seq(Nat) /\ Len(SessionsOf(iperfStatusQ)) = Len(iperfStatusQ)
           /\ SessionsOf(metaQ) \in Seq(Nat) /\ Len(SessionsOf(metaQ)) = Len(metaQ)
           /\ Len(iperfStatusQ) \in Nat /\ Len(metaQ) \in Nat /\ Len(closed) \in Nat
           /\ Held \in Seq(Nat) /\ Len(Held) = (IF Holds THEN 1 ELSE 0)
           /\ SessionsOf(iperfStatusQ) \o SessionsOf(metaQ) \in Seq(Nat)
           /\ Ring \in Seq(Nat) /\ Line \in Seq(Nat)
           /\ Len(Ring) = Len(Held) + (Len(iperfStatusQ) + Len(metaQ))
           /\ Len(Line) = Len(closed) + Len(Ring)
<1>1. (\A e \in Statuses : e.session \in Nat) /\ (\A e \in Metas : e.session \in Nat) BY DEF Statuses, Metas
<1>2. /\ iperfStatusQ \in Seq(Statuses) /\ metaQ \in Seq(Metas)
      /\ closed \in Seq(Nat) /\ currentSession \in Nat
  BY DEF IperfTypes
<1>3. SessionsOf(iperfStatusQ) \in Seq(Nat) /\ Len(SessionsOf(iperfStatusQ)) = Len(iperfStatusQ)
  BY <1>1, <1>2, SessionsAre
<1>4. SessionsOf(metaQ) \in Seq(Nat) /\ Len(SessionsOf(metaQ)) = Len(metaQ) BY <1>1, <1>2, SessionsAre
<1>5. Held \in Seq(Nat) /\ Len(Held) = (IF Holds THEN 1 ELSE 0) BY <1>2 DEF Held
<1>6. Len(iperfStatusQ) \in Nat /\ Len(metaQ) \in Nat /\ Len(closed) \in Nat BY <1>2
<1>7. PICK u \in Seq(Nat) :
         u = SessionsOf(iperfStatusQ) \o SessionsOf(metaQ) /\ Len(u) = Len(iperfStatusQ) + Len(metaQ)
  <2>1. PICK a \in Seq(Nat) : a = SessionsOf(iperfStatusQ) BY <1>3
  <2>2. PICK b \in Seq(Nat) : b = SessionsOf(metaQ) BY <1>4
  <2>3. a \o b \in Seq(Nat) /\ Len(a \o b) = Len(a) + Len(b) BY ConcatIs
  <2> QED BY <1>3, <1>4, <2>1, <2>2, <2>3
<1>8. PICK h \in Seq(Nat) : h = Held BY <1>5
<1>9. h \o u \in Seq(Nat) /\ Len(h \o u) = Len(h) + Len(u) BY ConcatIs
<1>10. PICK r \in Seq(Nat) : r = Ring /\ Len(r) = Len(Held) + (Len(iperfStatusQ) + Len(metaQ))
  BY <1>7, <1>8, <1>9 DEF Ring
<1>11. closed \o r \in Seq(Nat) /\ Len(closed \o r) = Len(closed) + Len(r) BY <1>2, ConcatIs
<1>12. Line \in Seq(Nat) /\ Len(Line) = Len(closed) + Len(Ring) BY <1>10, <1>11 DEF Line
<1>13. SessionsOf(iperfStatusQ) \o SessionsOf(metaQ) \in Seq(Nat) BY <1>7
<1>14. Ring \in Seq(Nat) /\ Len(Ring) = Len(Held) + (Len(iperfStatusQ) + Len(metaQ)) BY <1>10
<1> QED BY <1>3, <1>4, <1>5, <1>6, <1>12, <1>13, <1>14

(* What a step does to the line: nothing, or the first that is not closed  *)
(* goes to its end, or a connection is new.                                *)
LineStays == Line' = Line
LineTurns ==
    \E c \in Seq(Nat), r \in Seq(Nat), x \in Nat :
       Line = c \o (<<x>> \o r) /\ Line' = c \o (r \o <<x>>)

LEMMA LineIsKept ==
    ASSUME LineInv, LineStays \/ LineTurns,
           numConnections' = numConnections, Answered' = Answered,
           opened' = opened, openStatusQ' = openStatusQ
    PROVE  LineInv'
<1>1. Len(Line') = Len(Line) /\ ToSet(Line') = ToSet(Line) /\ (OnceEach(Line') <=> OnceEach(Line))
  <2>1. CASE LineStays BY <2>1 DEF LineStays
  <2>2. CASE LineTurns
    <3>1. PICK c \in Seq(Nat), r \in Seq(Nat), x \in Nat :
             Line = c \o (<<x>> \o r) /\ Line' = c \o (r \o <<x>>)
      BY <2>2 DEF LineTurns
    <3>2. /\ Len(c \o (r \o <<x>>)) = Len(c \o (<<x>> \o r))
          /\ ToSet(c \o (r \o <<x>>)) = ToSet(c \o (<<x>> \o r))
          /\ OnceEach(c \o (r \o <<x>>)) <=> OnceEach(c \o (<<x>> \o r))
      BY Rotates
    <3> QED BY <3>1, <3>2
  <2> QED BY <2>1, <2>2
<1>2. JustOpened' = JustOpened BY DEF JustOpened
<1>3. OnceEach(Line)' BY <1>1 DEF LineInv, OnceEach
<1>4. Len(Line)' = numConnections' BY <1>1 DEF LineInv
<1>5. \A x \in ToSet(Line') : x <= Answered' BY <1>1 DEF LineInv
<1>6. opened' = ToSet(Line') \cup JustOpened' BY <1>1, <1>2 DEF LineInv
<1>7. ToSet(Line)' = ToSet(Line') BY DEF ToSet
<1> QED BY <1>3, <1>4, <1>5, <1>6, <1>7 DEF LineInv

LEMMA Regroup ==
    ASSUME NEW s \in Seq(Nat), NEW m \in Seq(Nat), NEW x \in Nat
    PROVE  /\ (s \o m) \o <<x>> = s \o (m \o <<x>>)
           /\ (s \o <<x>>) \o m = s \o (<<x>> \o m)
           /\ (<<x>> \o s) \o m = <<x>> \o (s \o m)
           /\ <<>> \o s = s /\ s \o <<>> = s
<1>1. <<x>> \in Seq(Nat)  OBVIOUS
<1>2. (s \o m) \o <<x>> = s \o (m \o <<x>>) BY <1>1, ConcatAssociative
<1>3. (s \o <<x>>) \o m = s \o (<<x>> \o m) BY <1>1, ConcatAssociative
<1>4. (<<x>> \o s) \o m = <<x>> \o (s \o m) BY <1>1, ConcatAssociative
<1>5. <<>> \o s = s /\ s \o <<>> = s BY ConcatEmptySeq
<1> QED BY <1>2, <1>3, <1>4, <1>5

LEMMA LineOf ==
    ASSUME IperfTypes
    PROVE  /\ Line = closed \o (Held \o (SessionsOf(iperfStatusQ) \o SessionsOf(metaQ)))
           /\ Line' = closed' \o (Held' \o (SessionsOf(iperfStatusQ') \o SessionsOf(metaQ')))
           /\ Held = <<>> => Line = closed \o (SessionsOf(iperfStatusQ) \o SessionsOf(metaQ))
<1>1. Line = closed \o (Held \o (SessionsOf(iperfStatusQ) \o SessionsOf(metaQ))) BY DEF Line, Ring
<1>2. Line' = closed' \o (Held' \o (SessionsOf(iperfStatusQ') \o SessionsOf(metaQ')))
  BY DEF Line, Ring, SessionsOf
<1>3. PICK u \in Seq(Nat) : u = SessionsOf(iperfStatusQ) \o SessionsOf(metaQ) BY QueuesAre
<1>4. <<>> \o u = u BY ConcatEmptySeq
<1> QED BY <1>1, <1>2, <1>3, <1>4

-----------------------------------------------------------------------------
(* The types                                                               *)

LEMMA ReadStopTypes ==
    ASSUME NEW b \in BOOLEAN, stopSignal \in BOOLEAN, Iperf!ReadStop(b)
    PROVE  timeOver' \in BOOLEAN /\ stopSignal' \in BOOLEAN /\ (b => timeOver')
BY DEF Iperf!ReadStop

LEMMA MetaIs ==
    /\ \A x \in Nat : Iperf!Meta(x, "header") \in Metas /\ Iperf!Meta(x, "package") \in Metas
    /\ \A x, k : Iperf!Meta(x, k).session = x /\ Iperf!Meta(x, k).kind = k
BY DEF Iperf!Meta, Metas

LEMMA IperfTypesKept == IperfTypes /\ Iperf!Next => IperfTypes'
<1> SUFFICES ASSUME IperfTypes, Iperf!Next PROVE IperfTypes'  OBVIOUS
<1> USE DEF IperfTypes
<1>1. CASE Iperf!Idle
  <2>1. timeOver' \in BOOLEAN /\ stopSignal' \in BOOLEAN BY <1>1, ReadStopTypes DEF Iperf!Idle
  <2>2. state' = "INIT_CON" /\ sessionIt' = 0 /\ closeIt' = 0 /\ numConnections' = 0 /\ stopSend' = FALSE
    BY <1>1 DEF Iperf!Idle
  <2>3. closed' \in Seq(Nat) BY <1>1 DEF Iperf!Idle
  <2>4. sessionIt' \in Nat /\ closeIt' \in Nat /\ numConnections' \in Nat BY <2>2
  <2>5. stopSend' \in BOOLEAN BY <2>2
  <2>6. currentSession' \in Nat /\ openQ' \in Seq(Nat) /\ openStatusQ' \in Seq(Openings) BY <1>1 DEF Iperf!Idle
  <2>7. /\ metaQ' \in Seq(Metas) /\ iperfStatusQ' \in Seq(Statuses)
        /\ iperfDataQ' \in Seq(Metas) /\ iperfGranted' \in Seq(Metas)
    BY <1>1 DEF Iperf!Idle
  <2> QED BY <2>1, <2>2, <2>3, <2>4, <2>5, <2>6, <2>7
<1>2. CASE Iperf!InitCon
  <2>1. openQ' \in Seq(Nat) /\ sessionIt' \in Nat /\ state' \in {"INIT_CON", "WAIT_CON"}
    BY <1>2 DEF Iperf!InitCon
  <2> QED BY <1>2, <2>1, ReadStopTypes DEF Iperf!InitCon
<1>3. CASE Iperf!WaitCon
  <2> DEFINE s == Head(openStatusQ)
  <2>1. s \in Openings /\ openStatusQ' \in Seq(Openings) BY <1>3, HeadTailProperties DEF Iperf!WaitCon
  <2>2. s.session \in Nat BY <2>1 DEF Openings
  <2>3. metaQ' \in Seq(Metas) /\ numConnections' \in Nat
    BY <1>3, <2>2, MetaIs, AppendProperties DEF Iperf!WaitCon
  <2>4. sessionIt' \in Nat /\ state' \in {"WAIT_CON", "CONSTRUCT_HEADER"}
    <3>1. \/ sessionIt' = 0 /\ state' = "CONSTRUCT_HEADER"
          \/ sessionIt' = sessionIt + 1 /\ state' = state
      BY <1>3 DEF Iperf!WaitCon
    <3>2. state = "WAIT_CON" /\ sessionIt \in Nat BY <1>3 DEF Iperf!WaitCon
    <3> HIDE DEF IperfTypes
    <3> QED BY <3>1, <3>2
  <2> QED BY <1>3, <2>1, <2>3, <2>4, ReadStopTypes DEF Iperf!WaitCon
<1>4. CASE Iperf!HeadersDone BY <1>4, ReadStopTypes DEF Iperf!HeadersDone, Iperf!toeVars
<1>5. CASE Iperf!HeaderAnswered
  <2> DEFINE s == Head(iperfStatusQ)
  <2>1. s \in Statuses /\ iperfStatusQ' \in Seq(Statuses) BY <1>5, HeadTailProperties DEF Iperf!HeaderAnswered
  <2>2. s.session \in Nat /\ s.error # 1 BY <2>1 DEF Statuses
  <2>3. /\ currentSession' \in Nat /\ state' \in {"CONSTRUCT_HEADER", "INIT_RUN"}
        /\ numConnections' = numConnections
    BY <1>5, <2>2 DEF Iperf!HeaderAnswered
  <2> QED BY <1>5, <2>1, <2>3, ReadStopTypes DEF Iperf!HeaderAnswered
<1>6. CASE Iperf!InitRun
  <2>1. metaQ' \in Seq(Metas) /\ iperfDataQ' \in Seq(Metas)
    BY <1>6, MetaIs, AppendProperties DEF Iperf!InitRun
  <2> QED BY <1>6, <2>1, ReadStopTypes DEF Iperf!InitRun
<1>7. CASE Iperf!CheckReq
  <2> DEFINE s == Head(iperfStatusQ)
  <2>1. s \in Statuses /\ iperfStatusQ' \in Seq(Statuses) BY <1>7, HeadTailProperties DEF Iperf!CheckReq
  <2>2. s.session \in Nat /\ s.error # 1 BY <2>1 DEF Statuses
  <2>3. /\ currentSession' \in Nat /\ state' \in {"CHECK_REQ", "START_PKG"}
        /\ numConnections' = numConnections
    BY <1>7, <2>2 DEF Iperf!CheckReq
  <2>4. metaQ' \in Seq(Metas) BY <1>7, <2>2, MetaIs, AppendProperties DEF Iperf!CheckReq
  <2> QED BY <1>7, <2>1, <2>3, <2>4, ReadStopTypes DEF Iperf!CheckReq
<1>8. CASE Iperf!StartPkg
  <2>1. metaQ' \in Seq(Metas) BY <1>8, MetaIs, AppendProperties DEF Iperf!StartPkg
  <2> QED BY <1>8, <2>1, ReadStopTypes DEF Iperf!StartPkg
<1>9. CASE Iperf!WritePkg
  <2>1. iperfDataQ' \in Seq(Metas) /\ state' \in {"WRITE_PKG", "CHECK_TIME"}
    <3>1. \/ state' = "CHECK_TIME" /\ iperfDataQ' = Append(iperfDataQ, Iperf!Meta(currentSession, "package"))
          \/ state' = state /\ iperfDataQ' = iperfDataQ
      BY <1>9 DEF Iperf!WritePkg
    <3>2. state = "WRITE_PKG" BY <1>9 DEF Iperf!WritePkg
    <3>3. Append(iperfDataQ, Iperf!Meta(currentSession, "package")) \in Seq(Metas) BY MetaIs, AppendProperties
    <3> QED BY <3>1, <3>2, <3>3
  <2> QED BY <1>9, <2>1, ReadStopTypes DEF Iperf!WritePkg
<1>10. CASE Iperf!CheckTime
  <2>1. closed' \in Seq(Nat) /\ closeIt' \in Nat /\ state' \in {"IDLE", "CHECK_REQ", "CHECK_TIME"}
    <3>1. \/ state' = "IDLE" /\ closed' = closed /\ closeIt' = closeIt
          \/ /\ closed' = Append(closed, currentSession) \/ closed' = closed
             /\ closeIt' = closeIt + 1 \/ closeIt' = closeIt
             /\ state' = "CHECK_REQ" \/ state' = state
      BY <1>10 DEF Iperf!CheckTime
    <3>2. closed' \in Seq(Nat)
      <4>1. closed' = Append(closed, currentSession) \/ closed' = closed BY <3>1
      <4>2. Append(closed, currentSession) \in Seq(Nat) BY AppendProperties
      <4>3. closed \in Seq(Nat)  OBVIOUS
      <4> HIDE DEF IperfTypes
      <4> QED BY <4>1, <4>2, <4>3
    <3>3. closeIt' \in Nat
      <4>1. closeIt' = closeIt + 1 \/ closeIt' = closeIt BY <3>1
      <4> QED BY <4>1
    <3>4. state = "CHECK_TIME" BY <1>10 DEF Iperf!CheckTime
    <3>5. state' \in {"IDLE", "CHECK_REQ", "CHECK_TIME"} BY <3>1, <3>4
    <3> QED BY <3>2, <3>3, <3>5
  <2> QED BY <1>10, <2>1, ReadStopTypes DEF Iperf!CheckTime
<1>11. CASE Iperf!Waits BY <1>11, ReadStopTypes DEF Iperf!Waits, Iperf!fsmVars, Iperf!toeVars
<1>12. CASE Iperf!TimeIsOver BY <1>12 DEF Iperf!TimeIsOver, Iperf!fsmVars, Iperf!toeVars
<1>13. CASE Iperf!ToeOpens
  <2>1. Head(openQ) \in Nat /\ openQ' \in Seq(Nat) BY <1>13, HeadTailProperties DEF Iperf!ToeOpens
  <2>2. openStatusQ' \in Seq(Openings)
    <3>1. PICK success \in BOOLEAN :
             openStatusQ' = Append(openStatusQ, [session |-> Head(openQ), success |-> success])
      BY <1>13 DEF Iperf!ToeOpens
    <3>2. [session |-> Head(openQ), success |-> success] \in Openings BY <2>1 DEF Openings
    <3> QED BY <3>1, <3>2, AppendProperties
  <2> QED BY <1>13, <2>1, <2>2 DEF Iperf!ToeOpens, Iperf!fsmVars
<1>14. CASE Iperf!ToeAnswers
  <2>1. Head(metaQ) \in Metas /\ metaQ' \in Seq(Metas) BY <1>14, HeadTailProperties DEF Iperf!ToeAnswers
  <2>2. PICK error \in {0, 2} :
           /\ iperfStatusQ' = Append(iperfStatusQ, [session |-> Head(metaQ).session, error |-> error])
           /\ iperfGranted' = IF error = 0 THEN Append(iperfGranted, Head(metaQ)) ELSE iperfGranted
    BY <1>14 DEF Iperf!ToeAnswers
  <2>3. [session |-> Head(metaQ).session, error |-> error] \in Statuses BY <2>1 DEF Statuses, Metas
  <2>4. iperfStatusQ' \in Seq(Statuses) BY <2>2, <2>3, AppendProperties
  <2>5. iperfGranted' \in Seq(Metas) BY <2>1, <2>2, AppendProperties
  <2> QED BY <1>14, <2>1, <2>4, <2>5 DEF Iperf!ToeAnswers, Iperf!fsmVars
<1>15. CASE Iperf!ToeTakes
  <2>1. iperfGranted' \in Seq(Metas) /\ iperfDataQ' \in Seq(Metas)
    BY <1>15, HeadTailProperties DEF Iperf!ToeTakes
  <2> QED BY <1>15, <2>1 DEF Iperf!ToeTakes, Iperf!fsmVars
<1> QED BY <1>1, <1>2, <1>3, <1>4, <1>5, <1>6, <1>7, <1>8, <1>9, <1>10, <1>11, <1>12, <1>13, <1>14, <1>15
        DEF Iperf!Next, Iperf!Client, Iperf!Toe

-----------------------------------------------------------------------------
(* The connections that are asked for                                      *)

(* What most steps leave alone: who has answered, and who was asked.       *)
OpeningStays ==
    /\ openQ' = openQ /\ openStatusQ' = openStatusQ
    /\ \/ state' = state /\ sessionIt' = sessionIt
       \/ state \notin {"INIT_CON", "WAIT_CON"} /\ state' \notin {"INIT_CON", "WAIT_CON"}

LEMMA OpeningKept ==
    ASSUME OpeningInv, OpeningStays
    PROVE  OpeningInv' /\ Answered' = Answered /\ JustOpened' = JustOpened
<1>1. Answered' = Answered /\ Asked' = Asked BY DEF OpeningStays, Answered, Asked
<1>2. openQ' = openQ /\ openStatusQ' = openStatusQ BY DEF OpeningStays
<1>3. JustOpened' = JustOpened BY <1>2 DEF JustOpened
<1>4. state' \in {"INIT_CON", "WAIT_CON"} => sessionIt' < IperfConns BY DEF OpeningStays, OpeningInv
<1>5. OpeningInv' BY <1>1, <1>2, <1>4 DEF OpeningInv
<1> QED BY <1>1, <1>3, <1>5

LEMMA LengthsAre ==
    ASSUME IperfTypes
    PROVE  /\ Len(openQ) \in Nat /\ DOMAIN openQ = 1 .. Len(openQ)
           /\ Len(openStatusQ) \in Nat /\ DOMAIN openStatusQ = 1 .. Len(openStatusQ)
           /\ Len(iperfStatusQ) \in Nat /\ DOMAIN iperfStatusQ = 1 .. Len(iperfStatusQ)
           /\ Len(metaQ) \in Nat /\ DOMAIN metaQ = 1 .. Len(metaQ)
           /\ Answered \in Nat /\ IperfConns \in Nat \ {0} /\ Asked \in Nat
<1>1. IperfConns \in Nat \ {0} BY ClientsAssumption
<1> QED BY <1>1 DEF IperfTypes, Answered, Asked

LEMMA IdleOpens ==
    ASSUME IperfTypes, OpeningInv, Iperf!Idle
    PROVE  OpeningInv' /\ Answered' = 0 /\ openStatusQ = <<>>
<1>1. state = "IDLE" /\ state' = "INIT_CON" /\ sessionIt' = 0 /\ openQ' = openQ /\ openStatusQ' = openStatusQ
  BY DEF Iperf!Idle
<1>2. Answered = IperfConns /\ Asked = IperfConns BY <1>1 DEF Answered, Asked
<1>3. Answered' = 0 /\ Asked' = 0 BY <1>1 DEF Answered, Asked
<1>4. Len(openStatusQ) = 0 /\ Len(openQ) = 0 BY <1>2, LengthsAre DEF OpeningInv
<1>5. openStatusQ = <<>> /\ openQ = <<>> BY <1>4, EmptySeq DEF IperfTypes
<1>6. DOMAIN openQ' = {} /\ DOMAIN openStatusQ' = {} BY <1>1, <1>5
<1>7. Answered' + Len(openStatusQ') + Len(openQ') = Asked' BY <1>1, <1>3, <1>4
<1>8. sessionIt' < IperfConns BY <1>1, LengthsAre
<1> QED BY <1>3, <1>5, <1>6, <1>7, <1>8 DEF OpeningInv

LEMMA InitConOpens ==
    ASSUME IperfTypes, OpeningInv, Iperf!InitCon
    PROVE  OpeningInv' /\ Answered' = 0 /\ Answered = 0 /\ JustOpened' = JustOpened
<1>1. /\ state = "INIT_CON" /\ openStatusQ' = openStatusQ /\ openQ' = Append(openQ, sessionIt + 1)
      /\ \/ sessionIt + 1 = IperfConns /\ sessionIt' = 0 /\ state' = "WAIT_CON"
         \/ sessionIt + 1 # IperfConns /\ sessionIt' = sessionIt + 1 /\ state' = "INIT_CON"
  BY DEF Iperf!InitCon
<1>2. Answered = 0 /\ Asked = sessionIt /\ sessionIt \in Nat /\ sessionIt < IperfConns
  BY <1>1 DEF Answered, Asked, OpeningInv, IperfTypes
<1>3. Answered' = 0 /\ Asked' = sessionIt + 1 BY <1>1 DEF Answered, Asked
<1>4. PICK n \in Nat, k \in Nat : n = Len(openQ) /\ k = Len(openStatusQ)
  <2>1. Len(openQ) \in Nat /\ Len(openStatusQ) \in Nat BY LengthsAre
  <2> QED BY <2>1
<1>5. k + n = sessionIt BY <1>2, <1>4 DEF OpeningInv
<1>6. sessionIt + 1 \in Nat BY <1>2
<1>7. /\ Len(openQ') = n + 1 /\ DOMAIN openQ' = 1 .. n + 1
      /\ openQ'[n + 1] = sessionIt + 1 /\ \A i \in 1 .. n : openQ'[i] = openQ[i]
  <2>1. openQ \in Seq(Nat) BY DEF IperfTypes
  <2>2. /\ Append(openQ, sessionIt + 1) \in Seq(Nat) /\ Len(Append(openQ, sessionIt + 1)) = n + 1
        /\ DOMAIN openQ = 1 .. n /\ DOMAIN Append(openQ, sessionIt + 1) = 1 .. n + 1
        /\ Append(openQ, sessionIt + 1)[n + 1] = sessionIt + 1
        /\ \A i \in 1 .. n : i \in 1 .. n + 1 /\ Append(openQ, sessionIt + 1)[i] = openQ[i]
    BY <1>4, <1>6, <2>1, AppendIs
  <2> QED BY <1>1, <2>2
<1>8. \A i \in 1 .. n : openQ[i] = k + i BY <1>2, <1>4, LengthsAre DEF OpeningInv
<1>9. \A i \in DOMAIN openQ' : openQ'[i] = Answered' + Len(openStatusQ') + i
  <2>1. Answered' + Len(openStatusQ') = k BY <1>1, <1>3, <1>4
  <2>2. \A i \in 1 .. n + 1 : i = n + 1 \/ i \in 1 .. n BY <1>4
  <2>3. openQ'[n + 1] = k + (n + 1) BY <1>4, <1>5, <1>7
  <2> QED BY <1>7, <1>8, <2>1, <2>2, <2>3
<1>10. Answered' + Len(openStatusQ') + Len(openQ') = Asked' BY <1>1, <1>3, <1>4, <1>5, <1>7
<1>11. \A i \in DOMAIN openStatusQ' : openStatusQ'[i].session = Answered' + i
  BY <1>1, <1>2, <1>3 DEF OpeningInv
<1>12. sessionIt' < IperfConns BY <1>1, <1>2, LengthsAre
<1>13. JustOpened' = JustOpened BY <1>1 DEF JustOpened
<1> QED BY <1>2, <1>3, <1>9, <1>10, <1>11, <1>12, <1>13 DEF OpeningInv

LEMMA WaitConOpens ==
    ASSUME IperfTypes, OpeningInv, Iperf!WaitCon
    PROVE  /\ OpeningInv' /\ Answered' = Answered + 1 /\ Head(openStatusQ).session = Answered + 1
           /\ JustOpened = JustOpened' \cup IF Head(openStatusQ).success THEN {Answered + 1} ELSE {}
<1>1. /\ state = "WAIT_CON" /\ openStatusQ # <<>> /\ openStatusQ' = Tail(openStatusQ) /\ openQ' = openQ
      /\ \/ sessionIt + 1 = IperfConns /\ state' = "CONSTRUCT_HEADER"
         \/ sessionIt + 1 # IperfConns /\ sessionIt' = sessionIt + 1 /\ state' = "WAIT_CON"
  BY DEF Iperf!WaitCon
<1>2. Answered = sessionIt /\ sessionIt \in Nat /\ sessionIt < IperfConns /\ Asked = IperfConns
  BY <1>1 DEF Answered, Asked, OpeningInv, IperfTypes
<1>3. Answered' = sessionIt + 1 /\ Asked' = IperfConns
  BY <1>1 DEF Answered, Asked
<1>4. PICK n \in Nat : Len(openStatusQ) = n + 1 BY <1>1, NotEmpty DEF IperfTypes
<1>5. /\ Len(openStatusQ') = n /\ DOMAIN openStatusQ' = 1 .. n /\ DOMAIN openStatusQ = 1 .. n + 1
      /\ Head(openStatusQ) = openStatusQ[1] /\ \A i \in 1 .. n : openStatusQ'[i] = openStatusQ[i + 1]
  <2>1. openStatusQ \in Seq(Openings) BY DEF IperfTypes
  <2>2. /\ Head(openStatusQ) \in Openings /\ Head(openStatusQ) = openStatusQ[1]
        /\ Tail(openStatusQ) \in Seq(Openings) /\ Len(Tail(openStatusQ)) = n
        /\ DOMAIN openStatusQ = 1 .. n + 1 /\ DOMAIN Tail(openStatusQ) = 1 .. n
        /\ 1 \in 1 .. n + 1
        /\ \A i \in 1 .. n : i + 1 \in 1 .. n + 1 /\ Tail(openStatusQ)[i] = openStatusQ[i + 1]
    BY <1>4, <2>1, TailIs
  <2> QED BY <1>1, <2>2
<1>6. \A i \in 1 .. n + 1 : openStatusQ[i].session = sessionIt + i BY <1>2, <1>5 DEF OpeningInv
<1>7. \A i \in 1 .. n : i + 1 \in 1 .. n + 1 BY <1>4
<1>8. \A i \in DOMAIN openStatusQ' : openStatusQ'[i].session = Answered' + i
  <2> SUFFICES ASSUME NEW i \in 1 .. n PROVE openStatusQ'[i].session = Answered' + i BY <1>5
  <2>1. openStatusQ'[i].session = sessionIt + (i + 1) BY <1>5, <1>6, <1>7
  <2> QED BY <1>2, <1>3, <2>1
<1>10. Answered' + Len(openStatusQ') = Answered + Len(openStatusQ) BY <1>2, <1>3, <1>4, <1>5
<1>11. \A i \in DOMAIN openQ' : openQ'[i] = Answered' + Len(openStatusQ') + i
  BY <1>1, <1>10 DEF OpeningInv
<1>12. Answered' + Len(openStatusQ') + Len(openQ') = Asked'
  BY <1>1, <1>2, <1>3, <1>10 DEF OpeningInv
<1>13. state' \in {"INIT_CON", "WAIT_CON"} => sessionIt' < IperfConns BY <1>1, <1>2, LengthsAre
<1>14. OpeningInv' BY <1>8, <1>11, <1>12, <1>13 DEF OpeningInv
<1>15. Head(openStatusQ).session = Answered + 1
  <2>1. 1 \in 1 .. n + 1 BY <1>4
  <2> QED BY <1>2, <1>5, <1>6, <2>1
<1>16. JustOpened = JustOpened' \cup IF Head(openStatusQ).success THEN {Answered + 1} ELSE {}
  <2>1. \A i \in 1 .. n + 1 : i = 1 \/ (i - 1 \in 1 .. n /\ (i - 1) + 1 = i) BY <1>4
  <2>2. 1 \in 1 .. n + 1 BY <1>4
  <2>3. JustOpened = {openStatusQ[i].session : i \in {j \in 1 .. n + 1 : openStatusQ[j].success}}
    BY <1>5 DEF JustOpened
  <2>4. JustOpened' = {openStatusQ'[i].session : i \in {j \in 1 .. n : openStatusQ'[j].success}}
    BY <1>5 DEF JustOpened
  <2>5. ASSUME NEW x \in JustOpened, x \notin JustOpened' PROVE Head(openStatusQ).success /\ x = Answered + 1
    <3>1. PICK i \in 1 .. n + 1 : openStatusQ[i].success /\ x = openStatusQ[i].session BY <2>3
    <3>2. CASE i = 1 BY <3>1, <3>2, <1>5, <1>15
    <3>3. CASE i - 1 \in 1 .. n /\ (i - 1) + 1 = i
      <4>1. openStatusQ'[i - 1] = openStatusQ[i] BY <3>3, <1>5
      <4>2. x \in JustOpened' BY <3>1, <3>3, <4>1, <2>4
      <4> QED BY <4>2, <2>5
    <3> QED BY <3>2, <3>3, <2>1
  <2>6. ASSUME NEW x \in JustOpened' PROVE x \in JustOpened
    <3>1. PICK i \in 1 .. n : openStatusQ'[i].success /\ x = openStatusQ'[i].session BY <2>4
    <3>2. i + 1 \in 1 .. n + 1 /\ openStatusQ[i + 1].success /\ x = openStatusQ[i + 1].session
      BY <3>1, <1>5, <1>7
    <3> QED BY <3>2, <2>3
  <2>7. Head(openStatusQ).success => Answered + 1 \in JustOpened BY <1>5, <1>15, <2>2, <2>3
  <2> QED BY <2>5, <2>6, <2>7
<1> QED BY <1>2, <1>3, <1>14, <1>15, <1>16

LEMMA ToeOpensOpens ==
    ASSUME IperfTypes, OpeningInv, Iperf!ToeOpens
    PROVE  /\ OpeningInv' /\ Answered' = Answered
           /\ \/ JustOpened' = JustOpened /\ opened' = opened
              \/ /\ JustOpened' = JustOpened \cup {Head(openQ)}
                 /\ opened' = opened \cup {Head(openQ)}
<1>1. PICK success \in BOOLEAN :
         /\ openStatusQ' = Append(openStatusQ, [session |-> Head(openQ), success |-> success])
         /\ opened' = IF success THEN opened \cup {Head(openQ)} ELSE opened
  BY DEF Iperf!ToeOpens
<1>2. openQ # <<>> /\ openQ' = Tail(openQ) /\ state' = state /\ sessionIt' = sessionIt
  BY DEF Iperf!ToeOpens, Iperf!fsmVars
<1>3. openQ \in Seq(Nat) /\ openStatusQ \in Seq(Openings) BY DEF IperfTypes
<1>4. Answered' = Answered /\ Asked' = Asked /\ Answered \in Nat BY <1>2, LengthsAre DEF Answered, Asked
<1>5. PICK n \in Nat : Len(openQ) = n + 1 BY <1>2, <1>3, NotEmpty
<1>6. PICK k \in Nat : k = Len(openStatusQ) BY <1>3
<1>7. /\ Head(openQ) \in Nat /\ Head(openQ) = openQ[1]
      /\ Tail(openQ) \in Seq(Nat) /\ Len(Tail(openQ)) = n
      /\ DOMAIN openQ = 1 .. n + 1 /\ DOMAIN Tail(openQ) = 1 .. n
      /\ 1 \in 1 .. n + 1
      /\ \A i \in 1 .. n : i + 1 \in 1 .. n + 1 /\ Tail(openQ)[i] = openQ[i + 1]
  BY <1>3, <1>5, TailIs
<1>8. PICK e \in Openings : e = [session |-> Head(openQ), success |-> success] BY <1>7 DEF Openings
<1>9. /\ Append(openStatusQ, e) \in Seq(Openings) /\ Len(Append(openStatusQ, e)) = k + 1
      /\ DOMAIN openStatusQ = 1 .. k /\ DOMAIN Append(openStatusQ, e) = 1 .. k + 1
      /\ Append(openStatusQ, e)[k + 1] = e
      /\ \A i \in 1 .. k : i \in 1 .. k + 1 /\ Append(openStatusQ, e)[i] = openStatusQ[i]
  BY <1>3, <1>6, AppendIs
<1>10. openStatusQ' = Append(openStatusQ, e) BY <1>1, <1>8
<1>11. \A i \in 1 .. n + 1 : openQ[i] = Answered + k + i BY <1>6, <1>7 DEF OpeningInv
<1>12. \A i \in DOMAIN openStatusQ' : openStatusQ'[i].session = Answered' + i
  <2>1. \A i \in 1 .. k + 1 : i = k + 1 \/ i \in 1 .. k BY <1>6
  <2>2. e.session = Answered + (k + 1)
    <3>1. e.session = Answered + k + 1 BY <1>7, <1>8, <1>11
    <3> QED BY <1>4, <1>6, <3>1
  <2>3. \A i \in 1 .. k : openStatusQ[i].session = Answered + i BY <1>9 DEF OpeningInv
  <2> QED BY <1>4, <1>9, <1>10, <2>1, <2>2, <2>3
<1>13. \A i \in DOMAIN openQ' : openQ'[i] = Answered' + Len(openStatusQ') + i
  <2> SUFFICES ASSUME NEW i \in 1 .. n PROVE Tail(openQ)[i] = Answered + (k + 1) + i
    BY <1>2, <1>4, <1>7, <1>9, <1>10
  <2>1. Tail(openQ)[i] = Answered + k + (i + 1) BY <1>7, <1>11
  <2>2. PICK a \in Nat, j \in Nat : a = Answered /\ j = i BY <1>4
  <2>3. a + k + (j + 1) = a + (k + 1) + j BY <1>6
  <2> QED BY <2>1, <2>2, <2>3
<1>14. Answered' + Len(openStatusQ') + Len(openQ') = Asked'
  <2>1. Answered + k + (n + 1) = Asked BY <1>5, <1>6 DEF OpeningInv
  <2>2. Answered + (k + 1) + n = Asked BY <1>4, <2>1
  <2> QED BY <1>2, <1>4, <1>7, <1>9, <1>10, <2>2
<1>15. state' \in {"INIT_CON", "WAIT_CON"} => sessionIt' < IperfConns BY <1>2 DEF OpeningInv
<1>16. OpeningInv' BY <1>12, <1>13, <1>14, <1>15 DEF OpeningInv
<1>17. JustOpened' = JustOpened \cup IF success THEN {Head(openQ)} ELSE {}
  <2>1. \A i \in 1 .. k + 1 : i = k + 1 \/ i \in 1 .. k BY <1>6
  <2>2. k + 1 \in 1 .. k + 1 BY <1>6
  <2>3. JustOpened = {openStatusQ[i].session : i \in {j \in 1 .. k : openStatusQ[j].success}}
    BY <1>9 DEF JustOpened
  <2>4. JustOpened' = {openStatusQ'[i].session : i \in {j \in 1 .. k + 1 : openStatusQ'[j].success}}
    BY <1>9, <1>10 DEF JustOpened
  <2>5. e.success = success /\ e.session = Head(openQ) BY <1>8
  <2>6. openStatusQ'[k + 1] = e /\ \A i \in 1 .. k : i \in 1 .. k + 1 /\ openStatusQ'[i] = openStatusQ[i]
    BY <1>9, <1>10
  <2>7. ASSUME NEW x \in JustOpened', x \notin JustOpened PROVE success /\ x = Head(openQ)
    <3>1. PICK i \in 1 .. k + 1 : openStatusQ'[i].success /\ x = openStatusQ'[i].session BY <2>4
    <3>2. CASE i \in 1 .. k
      <4>1. x \in JustOpened BY <3>1, <3>2, <2>3, <2>6
      <4> QED BY <4>1, <2>7
    <3>3. CASE i = k + 1 BY <3>1, <3>3, <2>5, <2>6
    <3> QED BY <3>2, <3>3, <2>1
  <2>8. ASSUME NEW x \in JustOpened PROVE x \in JustOpened'
    <3>1. PICK i \in 1 .. k : openStatusQ[i].success /\ x = openStatusQ[i].session BY <2>3
    <3> QED BY <3>1, <2>4, <2>6
  <2>9. success => Head(openQ) \in JustOpened' BY <2>2, <2>4, <2>5, <2>6
  <2> QED BY <2>7, <2>8, <2>9
<1> QED BY <1>1, <1>4, <1>16, <1>17

-----------------------------------------------------------------------------
(* The line at each step                                                   *)

LEMMA FirstAnswer ==
    ASSUME IperfTypes, iperfStatusQ # <<>>
    PROVE  /\ Head(iperfStatusQ) \in Statuses /\ Head(iperfStatusQ).session \in Nat
           /\ Tail(iperfStatusQ) \in Seq(Statuses) /\ SessionsOf(Tail(iperfStatusQ)) \in Seq(Nat)
           /\ SessionsOf(iperfStatusQ) = <<Head(iperfStatusQ).session>> \o SessionsOf(Tail(iperfStatusQ))
<1>1. \A e \in Statuses : e.session \in Nat BY DEF Statuses
<1>2. iperfStatusQ \in Seq(Statuses) BY DEF IperfTypes
<1>3. Head(iperfStatusQ) \in Statuses /\ Tail(iperfStatusQ) \in Seq(Statuses) BY <1>2, HeadTailProperties
<1>4. SessionsOf(iperfStatusQ) = <<Head(iperfStatusQ).session>> \o SessionsOf(Tail(iperfStatusQ))
  BY <1>1, <1>2, SessionsAre
<1>5. SessionsOf(Tail(iperfStatusQ)) \in Seq(Nat) BY <1>1, <1>3, SessionsAre
<1> QED BY <1>1, <1>3, <1>4, <1>5

LEMMA OneMoreRequest ==
    ASSUME IperfTypes, NEW e \in Metas
    PROVE  e.session \in Nat /\ SessionsOf(Append(metaQ, e)) = SessionsOf(metaQ) \o <<e.session>>
<1>1. \A d \in Metas : d.session \in Nat BY DEF Metas
<1>2. metaQ \in Seq(Metas) BY DEF IperfTypes
<1> QED BY <1>1, <1>2, SessionsAre

(* An answer that is taken: the client holds the connection.               *)
LEMMA AnswerHeld ==
    ASSUME IperfTypes, Held = <<>>, iperfStatusQ # <<>>,
           closed' = closed, metaQ' = metaQ, iperfStatusQ' = Tail(iperfStatusQ),
           Held' = <<Head(iperfStatusQ).session>>
    PROVE  LineStays
<1>1. PICK s \in Seq(Nat) : s = SessionsOf(Tail(iperfStatusQ)) BY FirstAnswer
<1>2. PICK m \in Seq(Nat) : m = SessionsOf(metaQ) BY QueuesAre
<1>3. PICK x \in Nat : x = Head(iperfStatusQ).session BY FirstAnswer
<1>4. Line = closed \o ((<<x>> \o s) \o m) BY <1>1, <1>2, <1>3, FirstAnswer, LineOf
<1>5. Line' = closed \o (<<x>> \o (s \o m)) BY <1>1, <1>2, <1>3, LineOf
<1>6. (<<x>> \o s) \o m = <<x>> \o (s \o m) BY Regroup
<1> QED BY <1>4, <1>5, <1>6 DEF LineStays

(* The connection that is held asks for more, and is the last in the line. *)
LEMMA HeldAsks ==
    ASSUME IperfTypes, Held = <<currentSession>>, Held' = <<>>,
           closed' = closed, iperfStatusQ' = iperfStatusQ,
           NEW e \in Metas, e.session = currentSession, metaQ' = Append(metaQ, e)
    PROVE  LineTurns
<1>1. PICK s \in Seq(Nat) : s = SessionsOf(iperfStatusQ) BY QueuesAre
<1>2. PICK m \in Seq(Nat) : m = SessionsOf(metaQ) BY QueuesAre
<1>3. PICK x \in Nat : x = currentSession BY DEF IperfTypes
<1>4. PICK c \in Seq(Nat) : c = closed BY DEF IperfTypes
<1>5. s \o m \in Seq(Nat) /\ m \o <<x>> \in Seq(Nat) /\ s \o (m \o <<x>>) \in Seq(Nat) BY ConcatIs
<1>6. SessionsOf(metaQ') = m \o <<x>> BY <1>2, <1>3, OneMoreRequest
<1>7. Line = c \o (<<x>> \o (s \o m)) BY <1>1, <1>2, <1>3, <1>4, LineOf
<1>8. Line' = c \o (<<>> \o (s \o (m \o <<x>>))) BY <1>1, <1>4, <1>6, LineOf
<1>9. <<>> \o (s \o (m \o <<x>>)) = s \o (m \o <<x>>) BY <1>5, ConcatEmptySeq
<1>10. (s \o m) \o <<x>> = s \o (m \o <<x>>) BY Regroup
<1>11. Line' = c \o ((s \o m) \o <<x>>) BY <1>8, <1>9, <1>10
<1> QED BY <1>5, <1>7, <1>11 DEF LineTurns

(* The same for one whose request was refused.                             *)
LEMMA RefusedAsks ==
    ASSUME IperfTypes, Held = <<>>, Held' = <<>>, iperfStatusQ # <<>>,
           closed' = closed, iperfStatusQ' = Tail(iperfStatusQ),
           NEW e \in Metas, e.session = Head(iperfStatusQ).session, metaQ' = Append(metaQ, e)
    PROVE  LineTurns
<1>1. PICK s \in Seq(Nat) : s = SessionsOf(Tail(iperfStatusQ)) BY FirstAnswer
<1>2. PICK m \in Seq(Nat) : m = SessionsOf(metaQ) BY QueuesAre
<1>3. PICK x \in Nat : x = Head(iperfStatusQ).session BY FirstAnswer
<1>4. PICK c \in Seq(Nat) : c = closed BY DEF IperfTypes
<1>5. s \o m \in Seq(Nat) /\ m \o <<x>> \in Seq(Nat) /\ s \o (m \o <<x>>) \in Seq(Nat) BY ConcatIs
<1>6. SessionsOf(metaQ') = m \o <<x>> BY <1>2, <1>3, OneMoreRequest
<1>7. Line = c \o ((<<x>> \o s) \o m) BY <1>1, <1>2, <1>3, <1>4, FirstAnswer, LineOf
<1>8. Line' = c \o (<<>> \o (s \o (m \o <<x>>))) BY <1>1, <1>4, <1>6, LineOf
<1>9. <<>> \o (s \o (m \o <<x>>)) = s \o (m \o <<x>>) BY <1>5, ConcatEmptySeq
<1>10. (s \o m) \o <<x>> = s \o (m \o <<x>>) /\ (<<x>> \o s) \o m = <<x>> \o (s \o m) BY Regroup
<1>11. Line = c \o (<<x>> \o (s \o m)) BY <1>7, <1>10
<1>12. Line' = c \o ((s \o m) \o <<x>>) BY <1>8, <1>9, <1>10
<1> QED BY <1>5, <1>11, <1>12 DEF LineTurns

(* A request that is answered keeps its place.                             *)
LEMMA AnswerKeepsPlace ==
    ASSUME IperfTypes, Held' = Held, metaQ # <<>>, closed' = closed,
           NEW e \in Statuses, e.session = Head(metaQ).session,
           iperfStatusQ' = Append(iperfStatusQ, e), metaQ' = Tail(metaQ)
    PROVE  LineStays
<1>1. (\A d \in Metas : d.session \in Nat) /\ (\A d \in Statuses : d.session \in Nat) BY DEF Metas, Statuses
<1>2. metaQ \in Seq(Metas) /\ iperfStatusQ \in Seq(Statuses) BY DEF IperfTypes
<1>3. Tail(metaQ) \in Seq(Metas) BY <1>2, HeadTailProperties
<1>4. PICK m \in Seq(Nat) : m = SessionsOf(Tail(metaQ)) BY <1>1, <1>3, SessionsAre
<1>5. PICK s \in Seq(Nat) : s = SessionsOf(iperfStatusQ) BY QueuesAre
<1>6. PICK x \in Nat : x = e.session BY <1>1
<1>7. SessionsOf(metaQ) = <<x>> \o m BY <1>1, <1>2, <1>4, <1>6, SessionsAre
<1>8. SessionsOf(iperfStatusQ') = s \o <<x>> BY <1>1, <1>2, <1>5, <1>6, SessionsAre
<1>9. Line = closed \o (Held \o (s \o (<<x>> \o m))) BY <1>5, <1>7, LineOf
<1>10. Line' = closed \o (Held \o ((s \o <<x>>) \o m)) BY <1>4, <1>8, LineOf
<1>11. (s \o <<x>>) \o m = s \o (<<x>> \o m) BY Regroup
<1> QED BY <1>9, <1>10, <1>11 DEF LineStays

(* The connection that is held is closed.                                  *)
LEMMA HeldCloses ==
    ASSUME IperfTypes, Held = <<currentSession>>, Held' = <<>>,
           closed' = Append(closed, currentSession), iperfStatusQ' = iperfStatusQ, metaQ' = metaQ
    PROVE  LineStays
<1>1. PICK u \in Seq(Nat) : u = SessionsOf(iperfStatusQ) \o SessionsOf(metaQ) BY QueuesAre
<1>2. PICK x \in Nat : x = currentSession BY DEF IperfTypes
<1>3. PICK c \in Seq(Nat) : c = closed BY DEF IperfTypes
<1>4. Append(c, x) = c \o <<x>> BY AppendIsConcat
<1>5. Line = c \o (<<x>> \o u) BY <1>1, <1>2, <1>3, LineOf
<1>6. Line' = (c \o <<x>>) \o (<<>> \o u) BY <1>1, <1>2, <1>3, <1>4, LineOf
<1>7. (c \o <<x>>) \o u = c \o (<<x>> \o u) /\ <<>> \o u = u BY Regroup
<1> QED BY <1>5, <1>6, <1>7 DEF LineStays

(* A step after which the line holds the same connections.                 *)
Ordinary ==
    /\ LineStays \/ LineTurns
    /\ numConnections' = numConnections /\ opened' = opened
    /\ OpeningStays

LEMMA OrdinaryKeeps ==
    ASSUME OpeningInv, LineInv, Ordinary
    PROVE  OpeningInv' /\ LineInv'
<1>1. OpeningInv' /\ Answered' = Answered BY OpeningKept DEF Ordinary
<1>2. openStatusQ' = openStatusQ BY DEF Ordinary, OpeningStays
<1>3. LineInv' BY <1>1, <1>2, LineIsKept DEF Ordinary
<1> QED BY <1>1, <1>3

LEMMA SameLine ==
    ASSUME Held' = Held, closed' = closed, iperfStatusQ' = iperfStatusQ, metaQ' = metaQ
    PROVE  LineStays
BY DEF LineStays, Line, Ring, SessionsOf

(* The first answers are for headers, which are not refused.               *)
LEMMA HeaderIsGranted ==
    ASSUME IperfTypes, HeaderInv, Iperf!HeaderAnswered
    PROVE  Head(iperfStatusQ).error = 0 /\ Headers \in Nat \ {0}
<1>1. state = "CONSTRUCT_HEADER" /\ sessionIt # numConnections /\ iperfStatusQ # <<>>
  BY DEF Iperf!HeaderAnswered
<1>2. iperfStatusQ \in Seq(Statuses) /\ sessionIt \in Nat /\ numConnections \in Nat BY DEF IperfTypes
<1>3. Headers = numConnections - sessionIt BY <1>1 DEF Headers
<1>4. Headers \in 0 .. Len(iperfStatusQ) + Len(metaQ) BY DEF HeaderInv, HeadersFirst
<1>5. Headers \in Nat \ {0} BY <1>1, <1>2, <1>3, <1>4
<1>6. PICK n \in Nat : Len(iperfStatusQ) = n + 1 BY <1>1, <1>2, NotEmpty
<1>7. Head(iperfStatusQ) = iperfStatusQ[1] /\ 1 \in DOMAIN iperfStatusQ BY <1>2, <1>6, TailIs
<1>8. 1 <= Headers BY <1>5
<1> QED BY <1>5, <1>7, <1>8 DEF HeaderInv, HeadersFirst

LEMMA HeaderAnsweredOrdinary ==
    ASSUME IperfTypes, HeaderInv, Iperf!HeaderAnswered
    PROVE  Ordinary
<1>1. /\ state = "CONSTRUCT_HEADER" /\ iperfStatusQ # <<>> /\ iperfStatusQ' = Tail(iperfStatusQ)
      /\ closed' = closed /\ metaQ' = metaQ /\ opened' = opened
      /\ openQ' = openQ /\ openStatusQ' = openStatusQ
  BY DEF Iperf!HeaderAnswered
<1>2. Head(iperfStatusQ).error = 0 BY HeaderIsGranted
<1>3. state' = "INIT_RUN" /\ currentSession' = Head(iperfStatusQ).session /\ numConnections' = numConnections
  BY <1>2 DEF Iperf!HeaderAnswered
<1>4. Held = <<>> BY <1>1 DEF Held, Holds
<1>5. Held' = <<Head(iperfStatusQ).session>> BY <1>3 DEF Held, Holds
<1>6. LineStays BY <1>1, <1>4, <1>5, AnswerHeld
<1> QED BY <1>1, <1>3, <1>6 DEF Ordinary, OpeningStays

LEMMA InitRunOrdinary ==
    ASSUME IperfTypes, Iperf!InitRun
    PROVE  Ordinary
<1>1. /\ state = "INIT_RUN" /\ state' = "CONSTRUCT_HEADER" /\ iperfStatusQ' = iperfStatusQ
      /\ metaQ' = Append(metaQ, Iperf!Meta(currentSession, "package"))
      /\ closed' = closed /\ opened' = opened /\ numConnections' = numConnections
      /\ openQ' = openQ /\ openStatusQ' = openStatusQ
  BY DEF Iperf!InitRun
<1>2. Held = <<currentSession>> BY <1>1 DEF Held, Holds
<1>3. Held' = <<>> BY <1>1 DEF Held, Holds
<1>4. PICK e \in Metas : e = Iperf!Meta(currentSession, "package") /\ e.session = currentSession
  BY MetaIs DEF IperfTypes
<1>5. LineTurns BY <1>1, <1>2, <1>3, <1>4, HeldAsks
<1> QED BY <1>1, <1>5 DEF Ordinary, OpeningStays

LEMMA CheckReqOrdinary ==
    ASSUME IperfTypes, Iperf!CheckReq
    PROVE  Ordinary
<1>1. /\ state = "CHECK_REQ" /\ iperfStatusQ # <<>> /\ iperfStatusQ' = Tail(iperfStatusQ)
      /\ closed' = closed /\ opened' = opened
      /\ openQ' = openQ /\ openStatusQ' = openStatusQ
  BY DEF Iperf!CheckReq
<1>2. Head(iperfStatusQ).error \in {0, 2} /\ Head(iperfStatusQ).session \in Nat BY <1>1, FirstAnswer DEF Statuses
<1>3. Held = <<>> BY <1>1 DEF Held, Holds
<1>4. CASE Head(iperfStatusQ).error = 0
  <2>1. /\ state' = "START_PKG" /\ currentSession' = Head(iperfStatusQ).session
        /\ numConnections' = numConnections /\ metaQ' = metaQ
    BY <1>4 DEF Iperf!CheckReq
  <2>2. Held' = <<Head(iperfStatusQ).session>> BY <2>1 DEF Held, Holds
  <2>3. LineStays BY <1>1, <1>3, <2>1, <2>2, AnswerHeld
  <2> QED BY <1>1, <2>1, <2>3 DEF Ordinary, OpeningStays
<1>5. CASE Head(iperfStatusQ).error = 2
  <2>1. /\ state' = "CHECK_REQ" /\ numConnections' = numConnections
        /\ metaQ' = Append(metaQ, Iperf!Meta(Head(iperfStatusQ).session, "package"))
    BY <1>1, <1>5 DEF Iperf!CheckReq
  <2>2. Held' = <<>> BY <2>1 DEF Held, Holds
  <2>3. PICK e \in Metas :
           /\ e = Iperf!Meta(Head(iperfStatusQ).session, "package")
           /\ e.session = Head(iperfStatusQ).session
    BY <1>2, MetaIs
  <2>4. LineTurns BY <1>1, <1>3, <2>1, <2>2, <2>3, RefusedAsks
  <2> QED BY <1>1, <2>1, <2>4 DEF Ordinary, OpeningStays
<1> QED BY <1>2, <1>4, <1>5

LEMMA StartPkgOrdinary ==
    ASSUME IperfTypes, PhaseInv, Iperf!StartPkg
    PROVE  Ordinary
<1>1. /\ state = "START_PKG" /\ state' = "WRITE_PKG" /\ iperfStatusQ' = iperfStatusQ
      /\ closed' = closed /\ opened' = opened /\ numConnections' = numConnections
      /\ currentSession' = currentSession /\ openQ' = openQ /\ openStatusQ' = openStatusQ
      /\ stopSend' = (stopSend \/ timeOver)
      /\ metaQ' = IF ~timeOver THEN Append(metaQ, Iperf!Meta(currentSession, "package")) ELSE metaQ
  BY DEF Iperf!StartPkg, Iperf!AsksAgain
<1>2. Held = <<currentSession>> BY <1>1 DEF Held, Holds
<1>3. CASE timeOver
  <2>1. stopSend'
    <3>1. (stopSend \/ timeOver) = TRUE BY <1>3
    <3> QED BY <1>1, <3>1
  <2>2. metaQ' = metaQ BY <1>1, <1>3
  <2>3. Held' = Held BY <1>1, <1>2, <2>1 DEF Held, Holds
  <2>4. LineStays BY <1>1, <2>2, <2>3, SameLine
  <2> QED BY <1>1, <2>4 DEF Ordinary, OpeningStays
<1>4. CASE ~timeOver
  <2>1. ~stopSend' BY <1>1, <1>4 DEF PhaseInv
  <2>2. Held' = <<>> BY <1>1, <2>1 DEF Held, Holds
  <2>3. PICK e \in Metas : e = Iperf!Meta(currentSession, "package") /\ e.session = currentSession
    BY MetaIs DEF IperfTypes
  <2>4. metaQ' = Append(metaQ, e) BY <1>1, <1>4, <2>3
  <2>5. LineTurns BY <1>1, <1>2, <2>2, <2>3, <2>4, HeldAsks
  <2> QED BY <1>1, <2>5 DEF Ordinary, OpeningStays
<1> QED BY <1>3, <1>4

(* While a connection is held not all are closed.                          *)
LEMMA HeldIsOpen ==
    ASSUME IperfTypes, PhaseInv, LineInv, Holds
    PROVE  closeIt < numConnections
<1>1. PICK a \in Nat, b \in Nat, c \in Nat :
         a = Len(iperfStatusQ) /\ b = Len(metaQ) /\ c = Len(closed)
  <2>1. Len(iperfStatusQ) \in Nat /\ Len(metaQ) \in Nat /\ Len(closed) \in Nat BY QueuesAre
  <2> QED BY <2>1
<1>2. Len(Line) = c + (1 + (a + b)) BY <1>1, QueuesAre
<1>3. numConnections = c + (1 + (a + b)) /\ closeIt = c BY <1>1, <1>2 DEF LineInv, PhaseInv
<1> QED BY <1>1, <1>3

LEMMA WritePkgOrdinary ==
    ASSUME IperfTypes, PhaseInv, LineInv, Iperf!WritePkg
    PROVE  Ordinary
<1>1. /\ state = "WRITE_PKG" /\ state' \in {"WRITE_PKG", "CHECK_TIME"}
      /\ iperfStatusQ' = iperfStatusQ /\ metaQ' = metaQ /\ closed' = closed /\ closeIt' = closeIt
      /\ stopSend' = stopSend /\ opened' = opened /\ numConnections' = numConnections
      /\ currentSession' = currentSession /\ openQ' = openQ /\ openStatusQ' = openStatusQ
  <2>1. state = "WRITE_PKG" /\ (state' = "CHECK_TIME" \/ state' = state) BY DEF Iperf!WritePkg
  <2> QED BY <2>1 DEF Iperf!WritePkg
<1>2. stopSend => closeIt # numConnections
  <2> SUFFICES ASSUME stopSend PROVE closeIt # numConnections  OBVIOUS
  <2>1. Holds BY <1>1 DEF Holds
  <2>2. closeIt < numConnections /\ closeIt \in Nat /\ numConnections \in Nat
    BY <2>1, HeldIsOpen DEF IperfTypes
  <2> QED BY <2>2
<1>3. Held' = Held BY <1>1, <1>2 DEF Held, Holds
<1>4. LineStays BY <1>1, <1>3, SameLine
<1> QED BY <1>1, <1>4 DEF Ordinary, OpeningStays

LEMMA CheckTimeOrdinary ==
    ASSUME IperfTypes, Iperf!CheckTime
    PROVE  Ordinary
<1>1. /\ state = "CHECK_TIME" /\ iperfStatusQ' = iperfStatusQ /\ metaQ' = metaQ
      /\ stopSend' = stopSend /\ opened' = opened /\ numConnections' = numConnections
      /\ currentSession' = currentSession /\ openQ' = openQ /\ openStatusQ' = openStatusQ
  BY DEF Iperf!CheckTime
<1>2. CASE stopSend /\ closeIt = numConnections
  <2>1. state' = "IDLE" /\ closed' = closed BY <1>2 DEF Iperf!CheckTime
  <2>2. Held = <<>> /\ Held' = <<>> BY <1>1, <1>2, <2>1 DEF Held, Holds
  <2>3. LineStays BY <1>1, <2>1, <2>2, SameLine
  <2> QED BY <1>1, <2>1, <2>3 DEF Ordinary, OpeningStays
<1>3. CASE stopSend /\ closeIt # numConnections
  <2>1. /\ closed' = Append(closed, currentSession)
        /\ state' = IF closeIt' # numConnections THEN "CHECK_REQ" ELSE state
    BY <1>3 DEF Iperf!CheckTime
  <2>2. Held = <<currentSession>> BY <1>1, <1>3 DEF Held, Holds
  <2>3. Held' = <<>> BY <1>1, <2>1 DEF Held, Holds
  <2>4. LineStays BY <1>1, <2>1, <2>2, <2>3, HeldCloses
  <2>5. state' \notin {"INIT_CON", "WAIT_CON"} BY <1>1, <2>1
  <2> QED BY <1>1, <2>4, <2>5 DEF Ordinary, OpeningStays
<1>4. CASE ~stopSend
  <2>1. /\ closed' = closed
        /\ state' = IF closeIt' # numConnections THEN "CHECK_REQ" ELSE state
    BY <1>4 DEF Iperf!CheckTime
  <2>2. Held = <<>> /\ Held' = <<>> BY <1>1, <1>4, <2>1 DEF Held, Holds
  <2>3. LineStays BY <1>1, <2>1, <2>2, SameLine
  <2>4. state' \notin {"INIT_CON", "WAIT_CON"} BY <1>1, <2>1
  <2> QED BY <1>1, <2>3, <2>4 DEF Ordinary, OpeningStays
<1> QED BY <1>2, <1>3, <1>4

LEMMA ToeAnswersOrdinary ==
    ASSUME IperfTypes, Iperf!ToeAnswers
    PROVE  Ordinary
<1>1. /\ metaQ # <<>> /\ metaQ' = Tail(metaQ) /\ closed' = closed /\ opened' = opened
      /\ state' = state /\ sessionIt' = sessionIt /\ closeIt' = closeIt /\ numConnections' = numConnections
      /\ currentSession' = currentSession /\ stopSend' = stopSend
      /\ openQ' = openQ /\ openStatusQ' = openStatusQ
  BY DEF Iperf!ToeAnswers, Iperf!fsmVars
<1>2. PICK error \in {0, 2} :
         iperfStatusQ' = Append(iperfStatusQ, [session |-> Head(metaQ).session, error |-> error])
  BY DEF Iperf!ToeAnswers
<1>3. Head(metaQ) \in Metas BY <1>1, HeadTailProperties DEF IperfTypes
<1>4. PICK e \in Statuses : e = [session |-> Head(metaQ).session, error |-> error]
  BY <1>3 DEF Metas, Statuses
<1>5. e.session = Head(metaQ).session BY <1>4
<1>6. Held' = Held BY <1>1 DEF Held, Holds
<1>7. LineStays BY <1>1, <1>2, <1>4, <1>5, <1>6, AnswerKeepsPlace
<1> QED BY <1>1, <1>7 DEF Ordinary, OpeningStays

LEMMA OthersOrdinary ==
    ASSUME IperfTypes,
           Iperf!HeadersDone \/ Iperf!Waits \/ Iperf!TimeIsOver \/ Iperf!ToeTakes \/ UNCHANGED iperfVars
    PROVE  Ordinary
<1>1. /\ iperfStatusQ' = iperfStatusQ /\ metaQ' = metaQ /\ closed' = closed /\ closeIt' = closeIt
      /\ stopSend' = stopSend /\ opened' = opened /\ numConnections' = numConnections
      /\ currentSession' = currentSession /\ openQ' = openQ /\ openStatusQ' = openStatusQ
  BY DEF Iperf!HeadersDone, Iperf!Waits, Iperf!TimeIsOver, Iperf!ToeTakes, iperfVars, Iperf!fsmVars, Iperf!toeVars
<1>2. \/ state' = state /\ sessionIt' = sessionIt
      \/ state = "CONSTRUCT_HEADER" /\ state' = "CHECK_REQ"
  BY DEF Iperf!HeadersDone, Iperf!Waits, Iperf!TimeIsOver, Iperf!ToeTakes, iperfVars, Iperf!fsmVars, Iperf!toeVars
<1>3. Held' = Held BY <1>1, <1>2 DEF Held, Holds
<1>4. LineStays BY <1>1, <1>3, SameLine
<1>5. OpeningStays BY <1>1, <1>2 DEF OpeningStays
<1> QED BY <1>1, <1>4, <1>5 DEF Ordinary

(* A client that is idle has no connection that is not closed.             *)
LEMMA IdleIsEmpty ==
    ASSUME IperfTypes, OpeningInv, LineInv, PhaseInv, state = "IDLE"
    PROVE  /\ iperfStatusQ = <<>> /\ metaQ = <<>> /\ openStatusQ = <<>>
           /\ Line = closed /\ JustOpened = {}
<1>1. PICK a \in Nat, b \in Nat, c \in Nat :
         a = Len(iperfStatusQ) /\ b = Len(metaQ) /\ c = Len(closed)
  <2>1. Len(iperfStatusQ) \in Nat /\ Len(metaQ) \in Nat /\ Len(closed) \in Nat BY QueuesAre
  <2> QED BY <2>1
<1>2. ~Holds BY DEF Holds
<1>3. Len(Line) = c + (0 + (a + b)) BY <1>1, <1>2, QueuesAre
<1>4. Len(Line) = c BY <1>1 DEF LineInv, PhaseInv
<1>5. a = 0 /\ b = 0 BY <1>1, <1>3, <1>4
<1>6. iperfStatusQ = <<>> /\ metaQ = <<>> BY <1>1, <1>5, EmptySeq DEF IperfTypes
<1>7. SessionsOf(<<>>) = <<>> BY DEF SessionsOf
<1>8. Line = closed \o (<<>> \o <<>>) BY <1>2, <1>6, <1>7, LineOf DEF Held
<1>9. <<>> \o <<>> = <<>>  OBVIOUS
<1>10. closed \o <<>> = closed BY ConcatEmptySeq DEF IperfTypes
<1>11. Answered = IperfConns /\ Asked = IperfConns BY DEF Answered, Asked
<1>12. Len(openStatusQ) = 0 BY <1>11, LengthsAre DEF OpeningInv
<1>13. openStatusQ = <<>> BY <1>12, EmptySeq DEF IperfTypes
<1>14. JustOpened = {} BY <1>13 DEF JustOpened
<1> QED BY <1>6, <1>8, <1>9, <1>10, <1>13, <1>14

LEMMA IdleLine ==
    ASSUME IperfTypes, OpeningInv, LineInv, PhaseInv, Iperf!Idle
    PROVE  LineInv'
<1>1. /\ state = "IDLE" /\ state' = "INIT_CON" /\ closed' = <<>> /\ numConnections' = 0 /\ opened' = {}
      /\ iperfStatusQ' = iperfStatusQ /\ metaQ' = metaQ /\ openStatusQ' = openStatusQ
  BY DEF Iperf!Idle
<1>2. iperfStatusQ = <<>> /\ metaQ = <<>> /\ JustOpened = {} BY <1>1, IdleIsEmpty
<1>3. SessionsOf(<<>>) = <<>> BY DEF SessionsOf
<1>4. Held' = <<>> BY <1>1 DEF Held, Holds
<1>5. Line' = <<>> \o (<<>> \o (<<>> \o <<>>)) BY <1>1, <1>2, <1>3, <1>4, LineOf
<1>6. <<>> \o <<>> = <<>>  OBVIOUS
<1>7. Line' = <<>> BY <1>5, <1>6
<1>8. JustOpened' = {} BY <1>1, <1>2 DEF JustOpened
<1>9. OnceEach(Line)' BY <1>7, NoneIs DEF OnceEach
<1>10. Len(Line)' = numConnections' BY <1>1, <1>7, NoneIs
<1>11. ToSet(Line)' = {} BY <1>7, NoneIs DEF ToSet
<1>12. opened' = ToSet(Line)' \cup JustOpened' BY <1>1, <1>8, <1>11
<1> QED BY <1>9, <1>10, <1>11, <1>12 DEF LineInv

LEMMA InitConLine ==
    ASSUME IperfTypes, OpeningInv, LineInv, Iperf!InitCon
    PROVE  LineInv'
<1>1. /\ state = "INIT_CON" /\ state' \in {"INIT_CON", "WAIT_CON"}
      /\ closed' = closed /\ numConnections' = numConnections /\ opened' = opened
      /\ iperfStatusQ' = iperfStatusQ /\ metaQ' = metaQ /\ openStatusQ' = openStatusQ
  BY DEF Iperf!InitCon
<1>2. Held = <<>> /\ Held' = <<>> BY <1>1 DEF Held, Holds
<1>3. LineStays BY <1>1, <1>2, SameLine
<1>4. Answered' = Answered BY InitConOpens
<1> QED BY <1>1, <1>3, <1>4, LineIsKept

LEMMA ToeOpensLine ==
    ASSUME IperfTypes, OpeningInv, LineInv, Iperf!ToeOpens
    PROVE  LineInv'
<1>1. /\ state' = state /\ closed' = closed /\ closeIt' = closeIt /\ numConnections' = numConnections
      /\ stopSend' = stopSend /\ currentSession' = currentSession
      /\ iperfStatusQ' = iperfStatusQ /\ metaQ' = metaQ
  BY DEF Iperf!ToeOpens, Iperf!fsmVars
<1>2. Held' = Held BY <1>1 DEF Held, Holds
<1>3. Line' = Line BY <1>1, <1>2, SameLine DEF LineStays
<1>4. /\ Answered' = Answered
      /\ \/ JustOpened' = JustOpened /\ opened' = opened
         \/ /\ JustOpened' = JustOpened \cup {Head(openQ)}
            /\ opened' = opened \cup {Head(openQ)}
  BY ToeOpensOpens
<1>5. OnceEach(Line)' BY <1>3 DEF LineInv, OnceEach
<1>6. ToSet(Line)' = ToSet(Line) BY <1>3 DEF ToSet
<1>7. Len(Line)' = numConnections' BY <1>1, <1>3 DEF LineInv
<1>8. \A x \in ToSet(Line)' : x <= Answered' BY <1>4, <1>6 DEF LineInv
<1>9. opened' = ToSet(Line)' \cup JustOpened' BY <1>4, <1>6 DEF LineInv
<1> QED BY <1>5, <1>7, <1>8, <1>9 DEF LineInv

LEMMA LineGrows ==
    ASSUME IperfTypes, Held = <<>>, Held' = <<>>, closed' = closed, iperfStatusQ' = iperfStatusQ,
           NEW e \in Metas, metaQ' = Append(metaQ, e)
    PROVE  Line' = Line \o <<e.session>>
<1>1. PICK s \in Seq(Nat) : s = SessionsOf(iperfStatusQ) BY QueuesAre
<1>2. PICK m \in Seq(Nat) : m = SessionsOf(metaQ) BY QueuesAre
<1>3. PICK x \in Nat : x = e.session BY OneMoreRequest
<1>4. PICK c \in Seq(Nat) : c = closed BY DEF IperfTypes
<1>5. s \o m \in Seq(Nat) /\ m \o <<x>> \in Seq(Nat) /\ s \o (m \o <<x>>) \in Seq(Nat) /\ <<x>> \in Seq(Nat)
  BY ConcatIs
<1>6. SessionsOf(metaQ') = m \o <<x>> BY <1>2, <1>3, OneMoreRequest
<1>7. Line = c \o (s \o m) BY <1>1, <1>2, <1>4, LineOf
<1>8. Line' = c \o (<<>> \o (s \o (m \o <<x>>))) BY <1>1, <1>4, <1>6, LineOf
<1>9. <<>> \o (s \o (m \o <<x>>)) = s \o (m \o <<x>>) BY <1>5, ConcatEmptySeq
<1>10. (s \o m) \o <<x>> = s \o (m \o <<x>>) BY Regroup
<1>11. (c \o (s \o m)) \o <<x>> = c \o ((s \o m) \o <<x>>)
  <2>1. PICK u \in Seq(Nat) : u = s \o m BY <1>5
  <2>2. (c \o u) \o <<x>> = c \o (u \o <<x>>) BY Regroup
  <2> QED BY <2>1, <2>2
<1> QED BY <1>3, <1>7, <1>8, <1>9, <1>10, <1>11

LEMMA WaitConLine ==
    ASSUME IperfTypes, OpeningInv, LineInv, Iperf!WaitCon
    PROVE  LineInv'
<1>1. /\ state = "WAIT_CON" /\ state' \in {"WAIT_CON", "CONSTRUCT_HEADER"}
      /\ closed' = closed /\ opened' = opened /\ iperfStatusQ' = iperfStatusQ
      /\ \/ /\ Head(openStatusQ).success /\ numConnections' = numConnections + 1
            /\ metaQ' = Append(metaQ, Iperf!Meta(Head(openStatusQ).session, "header"))
         \/ ~Head(openStatusQ).success /\ numConnections' = numConnections /\ metaQ' = metaQ
  <2>1. state = "WAIT_CON" /\ (state' = "CONSTRUCT_HEADER" \/ state' = state) BY DEF Iperf!WaitCon
  <2> QED BY <2>1 DEF Iperf!WaitCon
<1>2. Held = <<>> /\ Held' = <<>> BY <1>1 DEF Held, Holds
<1>3. PICK a \in Nat : a = Answered BY LengthsAre
<1>4. /\ Answered' = a + 1 /\ Head(openStatusQ).session = a + 1
      /\ JustOpened = JustOpened' \cup IF Head(openStatusQ).success THEN {a + 1} ELSE {}
  BY <1>3, WaitConOpens
<1>5. PICK l \in Seq(Nat) : l = Line BY QueuesAre
<1>6. /\ OnceEach(l) /\ Len(l) = numConnections /\ opened = ToSet(l) \cup JustOpened
      /\ \A x \in ToSet(l) : x <= a
  BY <1>3, <1>5 DEF LineInv
<1>7. \A x \in ToSet(l) : x \in Nat BY <1>5 DEF ToSet
<1>8. CASE ~Head(openStatusQ).success
  <2>1. numConnections' = numConnections /\ metaQ' = metaQ BY <1>1, <1>8
  <2>2. Line' = l BY <1>1, <1>2, <1>5, <2>1, SameLine DEF LineStays
  <2>3. OnceEach(Line)' BY <1>6, <2>2 DEF OnceEach
  <2>4. ToSet(Line)' = ToSet(l) BY <2>2 DEF ToSet
  <2>5. Len(Line)' = numConnections' BY <1>6, <2>1, <2>2
  <2>6. \A x \in ToSet(l) : x <= a + 1 BY <1>3, <1>6, <1>7
  <2>7. opened' = ToSet(Line)' \cup JustOpened' BY <1>1, <1>4, <1>6, <1>8, <2>4
  <2> QED BY <1>4, <2>3, <2>4, <2>5, <2>6, <2>7 DEF LineInv
<1>9. CASE Head(openStatusQ).success
  <2>1. a + 1 \in Nat BY <1>3
  <2>2. PICK e \in Metas : e = Iperf!Meta(Head(openStatusQ).session, "header") /\ e.session = a + 1
    BY <1>4, <2>1, MetaIs
  <2>3. numConnections' = numConnections + 1 /\ metaQ' = Append(metaQ, e) BY <1>1, <1>9, <2>2
  <2>4. Line' = l \o <<a + 1>> BY <1>1, <1>2, <1>5, <2>2, <2>3, LineGrows
  <2>5. /\ Len(l \o <<a + 1>>) = Len(l) + Len(<<a + 1>>)
        /\ ToSet(l \o <<a + 1>>) = ToSet(l) \cup ToSet(<<a + 1>>)
        /\ OnceEach(l \o <<a + 1>>) <=>
              OnceEach(l) /\ OnceEach(<<a + 1>>) /\ ToSet(l) \cap ToSet(<<a + 1>>) = {}
    <3>1. PICK b \in Nat, t \in Seq(Nat) : b = a + 1 /\ t = <<b>>
      <4>1. \A b \in Nat : <<b>> \in Seq(Nat)  OBVIOUS
      <4> QED BY <2>1, <4>1
    <3>2. /\ Len(l \o t) = Len(l) + Len(t) /\ ToSet(l \o t) = ToSet(l) \cup ToSet(t)
          /\ OnceEach(l \o t) <=> OnceEach(l) /\ OnceEach(t) /\ ToSet(l) \cap ToSet(t) = {}
      BY ConcatIs
    <3> QED BY <3>1, <3>2
  <2>6. ToSet(<<a + 1>>) = {a + 1} /\ OnceEach(<<a + 1>>) /\ Len(<<a + 1>>) = 1 BY OneIs
  <2>7. a + 1 \notin ToSet(l) BY <1>3, <1>6
  <2>8. OnceEach(l \o <<a + 1>>) BY <1>6, <2>5, <2>6, <2>7
  <2>9. OnceEach(Line)' BY <2>4, <2>8 DEF OnceEach
  <2>10. ToSet(Line)' = ToSet(l) \cup {a + 1}
    <3>1. ToSet(Line)' = ToSet(Line') BY DEF ToSet
    <3> QED BY <2>4, <2>5, <2>6, <3>1
  <2>11. Len(Line)' = numConnections' BY <1>5, <1>6, <2>3, <2>4, <2>5, <2>6
  <2>12. \A x \in ToSet(l) : x <= a + 1 BY <1>3, <1>6, <1>7
  <2>13. a + 1 <= a + 1 BY <1>3
  <2>14. \A x \in ToSet(Line)' : x <= Answered' BY <1>4, <2>10, <2>12, <2>13
  <2>15. opened' = ToSet(Line)' \cup JustOpened' BY <1>1, <1>4, <1>6, <1>9, <2>10
  <2> QED BY <2>9, <2>11, <2>14, <2>15 DEF LineInv
<1> QED BY <1>8, <1>9

-----------------------------------------------------------------------------
(* The headers, first in the line                                          *)

LEMMA HeadersAnswered ==
    ASSUME NEW a \in Seq(Statuses), NEW r \in Seq(Metas), NEW h, HeadersFirst(h, a, r), r # <<>>,
           NEW e \in Statuses, Head(r).kind = "header" => e.error = 0
    PROVE  HeadersFirst(h, Append(a, e), Tail(r))
<1>1. PICK n \in Nat : n = Len(a)  OBVIOUS
<1>2. PICK k \in Nat : Len(r) = k + 1 BY NotEmpty
<1>3. /\ Head(r) \in Metas /\ Head(r) = r[1]
      /\ Tail(r) \in Seq(Metas) /\ Len(Tail(r)) = k
      /\ DOMAIN r = 1 .. k + 1 /\ DOMAIN Tail(r) = 1 .. k
      /\ 1 \in 1 .. k + 1
      /\ \A i \in 1 .. k : i + 1 \in 1 .. k + 1 /\ Tail(r)[i] = r[i + 1]
  BY <1>2, TailIs
<1>4. /\ Append(a, e) \in Seq(Statuses) /\ Len(Append(a, e)) = n + 1
      /\ DOMAIN a = 1 .. n /\ DOMAIN Append(a, e) = 1 .. n + 1
      /\ Append(a, e)[n + 1] = e
      /\ \A i \in 1 .. n : i \in 1 .. n + 1 /\ Append(a, e)[i] = a[i]
  BY <1>1, AppendIs
<1>5. /\ h \in 0 .. n + (k + 1)
      /\ \A i \in 1 .. n : i <= h => a[i].error = 0
      /\ \A i \in 1 .. k + 1 : r[i].kind = IF n + i <= h THEN "header" ELSE "package"
  BY <1>1, <1>2, <1>3, <1>4 DEF HeadersFirst
<1>6. h \in 0 .. (n + 1) + k BY <1>1, <1>2, <1>5
<1>7. \A i \in 1 .. n + 1 : i <= h => Append(a, e)[i].error = 0
  <2>1. n + 1 <= h => e.error = 0 BY <1>3, <1>5
  <2>2. \A i \in 1 .. n + 1 : i = n + 1 \/ i \in 1 .. n BY <1>1
  <2> QED BY <1>4, <1>5, <2>1, <2>2
<1>8. \A i \in 1 .. k : Tail(r)[i].kind = IF (n + 1) + i <= h THEN "header" ELSE "package"
  <2> SUFFICES ASSUME NEW i \in 1 .. k
               PROVE  Tail(r)[i].kind = IF (n + 1) + i <= h THEN "header" ELSE "package"
    OBVIOUS
  <2>1. Tail(r)[i].kind = IF n + (i + 1) <= h THEN "header" ELSE "package" BY <1>3, <1>5
  <2>2. n + (i + 1) = (n + 1) + i BY <1>1
  <2> QED BY <2>1, <2>2
<1> QED BY <1>3, <1>4, <1>6, <1>7, <1>8 DEF HeadersFirst

LEMMA HeadersPopped ==
    ASSUME NEW a \in Seq(Statuses), NEW r \in Seq(Metas), NEW h, HeadersFirst(h, a, r), a # <<>>
    PROVE  HeadersFirst(IF h = 0 THEN 0 ELSE h - 1, Tail(a), r)
<1>1. PICK n \in Nat : Len(a) = n + 1 BY NotEmpty
<1>2. PICK k \in Nat : k = Len(r)  OBVIOUS
<1>3. /\ Head(a) \in Statuses /\ Head(a) = a[1]
      /\ Tail(a) \in Seq(Statuses) /\ Len(Tail(a)) = n
      /\ DOMAIN a = 1 .. n + 1 /\ DOMAIN Tail(a) = 1 .. n
      /\ 1 \in 1 .. n + 1
      /\ \A i \in 1 .. n : i + 1 \in 1 .. n + 1 /\ Tail(a)[i] = a[i + 1]
  BY <1>1, TailIs
<1>4. DOMAIN r = 1 .. k BY <1>2
<1>5. /\ h \in 0 .. (n + 1) + k
      /\ \A i \in 1 .. n + 1 : i <= h => a[i].error = 0
      /\ \A i \in 1 .. k : r[i].kind = IF (n + 1) + i <= h THEN "header" ELSE "package"
  BY <1>1, <1>2, <1>3, <1>4 DEF HeadersFirst
<1>6. PICK g \in Nat : g = (IF h = 0 THEN 0 ELSE h - 1) /\ (h = 0 \/ h = g + 1) BY <1>1, <1>2, <1>5
<1>7. g \in 0 .. n + k BY <1>1, <1>2, <1>5, <1>6
<1>8. \A i \in 1 .. n : i <= g => Tail(a)[i].error = 0
  <2> SUFFICES ASSUME NEW i \in 1 .. n, i <= g PROVE Tail(a)[i].error = 0  OBVIOUS
  <2>1. i + 1 <= h BY <1>5, <1>6
  <2> QED BY <1>3, <1>5, <2>1
<1>9. \A i \in 1 .. k : r[i].kind = IF n + i <= g THEN "header" ELSE "package"
  <2> SUFFICES ASSUME NEW i \in 1 .. k PROVE r[i].kind = IF n + i <= g THEN "header" ELSE "package"
    OBVIOUS
  <2>1. (n + 1) + i <= h <=> n + i <= g BY <1>1, <1>2, <1>5, <1>6
  <2> QED BY <1>5, <2>1
<1> QED BY <1>2, <1>3, <1>4, <1>6, <1>7, <1>8, <1>9 DEF HeadersFirst

LEMMA PackageAsked ==
    ASSUME NEW a \in Seq(Statuses), NEW r \in Seq(Metas), NEW h, HeadersFirst(h, a, r),
           NEW e \in Metas, e.kind = "package"
    PROVE  HeadersFirst(h, a, Append(r, e))
<1>1. PICK n \in Nat : n = Len(a)  OBVIOUS
<1>2. PICK k \in Nat : k = Len(r)  OBVIOUS
<1>3. /\ Append(r, e) \in Seq(Metas) /\ Len(Append(r, e)) = k + 1
      /\ DOMAIN r = 1 .. k /\ DOMAIN Append(r, e) = 1 .. k + 1
      /\ Append(r, e)[k + 1] = e
      /\ \A i \in 1 .. k : i \in 1 .. k + 1 /\ Append(r, e)[i] = r[i]
  BY <1>2, AppendIs
<1>4. /\ h \in 0 .. n + k
      /\ \A i \in DOMAIN a : i <= h => a[i].error = 0
      /\ \A i \in 1 .. k : r[i].kind = IF n + i <= h THEN "header" ELSE "package"
  BY <1>1, <1>2, <1>3 DEF HeadersFirst
<1>5. h \in 0 .. n + (k + 1) BY <1>1, <1>2, <1>4
<1>6. ~(n + (k + 1) <= h) BY <1>1, <1>2, <1>4
<1>7. \A i \in 1 .. k + 1 : i = k + 1 \/ i \in 1 .. k BY <1>2
<1>8. \A i \in 1 .. k + 1 : Append(r, e)[i].kind = IF n + i <= h THEN "header" ELSE "package"
  BY <1>3, <1>4, <1>6, <1>7
<1> QED BY <1>1, <1>3, <1>4, <1>5, <1>8 DEF HeadersFirst

LEMMA HeaderIsAsked ==
    ASSUME NEW a \in Seq(Statuses), NEW r \in Seq(Metas), NEW h, HeadersFirst(h, a, r),
           h = Len(a) + Len(r), NEW e \in Metas, e.kind = "header"
    PROVE  HeadersFirst(h + 1, a, Append(r, e))
<1>1. PICK n \in Nat : n = Len(a)  OBVIOUS
<1>2. PICK k \in Nat : k = Len(r)  OBVIOUS
<1>3. /\ Append(r, e) \in Seq(Metas) /\ Len(Append(r, e)) = k + 1
      /\ DOMAIN r = 1 .. k /\ DOMAIN Append(r, e) = 1 .. k + 1
      /\ Append(r, e)[k + 1] = e
      /\ \A i \in 1 .. k : i \in 1 .. k + 1 /\ Append(r, e)[i] = r[i]
  BY <1>2, AppendIs
<1>4. DOMAIN a = 1 .. n BY <1>1
<1>5. /\ \A i \in 1 .. n : i <= h => a[i].error = 0
      /\ \A i \in 1 .. k : r[i].kind = IF n + i <= h THEN "header" ELSE "package"
  BY <1>1, <1>3, <1>4 DEF HeadersFirst
<1>6. h = n + k BY <1>1, <1>2
<1>7. h + 1 \in 0 .. n + (k + 1) BY <1>1, <1>2, <1>6
<1>8. \A i \in 1 .. n : i <= h BY <1>1, <1>2, <1>6
<1>9. \A i \in 1 .. k : n + i <= h BY <1>1, <1>2, <1>6
<1>10. \A i \in 1 .. k + 1 : n + i <= h + 1 BY <1>1, <1>2, <1>6
<1>11. \A i \in 1 .. k + 1 : i = k + 1 \/ i \in 1 .. k BY <1>2
<1>12. \A i \in 1 .. k + 1 : Append(r, e)[i].kind = "header" BY <1>3, <1>5, <1>9, <1>11
<1> QED BY <1>1, <1>3, <1>4, <1>5, <1>7, <1>8, <1>10, <1>12 DEF HeadersFirst

LEMMA StopsInTime ==
    ASSUME NEW s \in BOOLEAN, NEW t \in BOOLEAN, NEW g \in BOOLEAN, NEW u, NEW v,
           s => t, u = s \/ u = (s \/ t), v = t \/ v = (t \/ g)
    PROVE  u => v
<1>1. u = s \/ u = t
  <2>1. (s \/ t) = t  OBVIOUS
  <2> QED BY <2>1
<1>2. t => v
  <2>1. t => (t \/ g) = TRUE  OBVIOUS
  <2> QED BY <2>1
<1> QED BY <1>1, <1>2

LEMMA PhaseKept ==
    ASSUME IperfTypes, PhaseInv, Iperf!Next
    PROVE  PhaseInv'
<1>0. stopSend \in BOOLEAN /\ timeOver \in BOOLEAN /\ stopSignal \in BOOLEAN BY DEF IperfTypes
<1>1. CASE Iperf!Idle
  <2>1. /\ state' = "INIT_CON" /\ closeIt' = 0 /\ numConnections' = 0 /\ stopSend' = FALSE /\ closed' = <<>>
    BY <1>1 DEF Iperf!Idle
  <2> QED BY <2>1 DEF PhaseInv
<1>2. CASE Iperf!CheckTime
  <2>1. timeOver' = (timeOver \/ stopSignal) /\ stopSend' = stopSend /\ numConnections' = numConnections
    BY <1>2 DEF Iperf!CheckTime, Iperf!ReadStop
  <2>2. stopSend' => timeOver'
    <3>1. stopSend => timeOver BY DEF PhaseInv
    <3> QED BY <1>0, <2>1, <3>1, StopsInTime
  <2>3. CASE stopSend /\ closeIt = numConnections
    <3>1. state' = "IDLE" /\ closed' = closed /\ closeIt' = closeIt BY <1>2, <2>3 DEF Iperf!CheckTime
    <3> QED BY <2>1, <2>2, <2>3, <3>1 DEF PhaseInv
  <2>4. CASE stopSend /\ closeIt # numConnections
    <3>1. closed' = Append(closed, currentSession) /\ closeIt' = closeIt + 1 /\ state' # "IDLE" /\ state' # "INIT_CON"
      BY <1>2, <2>4 DEF Iperf!CheckTime
    <3>2. Len(closed') = Len(closed) + 1 BY <3>1 DEF IperfTypes
    <3> QED BY <2>2, <3>1, <3>2 DEF PhaseInv
  <2>5. CASE ~stopSend
    <3>1. closed' = closed /\ closeIt' = closeIt /\ state' # "IDLE" /\ state' # "INIT_CON"
      BY <1>2, <2>5 DEF Iperf!CheckTime
    <3> QED BY <2>2, <3>1 DEF PhaseInv
  <2> QED BY <2>3, <2>4, <2>5
<1>3. CASE Iperf!StartPkg
  <2>1. /\ timeOver' = (timeOver \/ stopSignal) /\ stopSend' = (stopSend \/ timeOver)
        /\ state' = "WRITE_PKG" /\ closed' = closed /\ closeIt' = closeIt
    BY <1>3 DEF Iperf!StartPkg, Iperf!ReadStop
  <2>2. stopSend' => timeOver'
    <3>1. stopSend => timeOver BY DEF PhaseInv
    <3> QED BY <1>0, <2>1, <3>1, StopsInTime
  <2> QED BY <2>1, <2>2 DEF PhaseInv
<1>4. CASE \/ Iperf!InitCon \/ Iperf!WaitCon \/ Iperf!HeadersDone \/ Iperf!HeaderAnswered
           \/ Iperf!InitRun \/ Iperf!CheckReq \/ Iperf!WritePkg \/ Iperf!Waits
           \/ Iperf!TimeIsOver \/ Iperf!Toe
  <2>1. stopSend' = stopSend /\ closed' = closed /\ closeIt' = closeIt
    BY <1>4 DEF Iperf!InitCon, Iperf!WaitCon, Iperf!HeadersDone, Iperf!HeaderAnswered, Iperf!InitRun,
         Iperf!CheckReq, Iperf!WritePkg, Iperf!Waits, Iperf!TimeIsOver, Iperf!Toe, Iperf!ToeOpens,
         Iperf!ToeAnswers, Iperf!ToeTakes, Iperf!fsmVars, Iperf!toeVars
  <2>2. timeOver' = (timeOver \/ stopSignal) \/ timeOver' = timeOver
    BY <1>4 DEF Iperf!InitCon, Iperf!WaitCon, Iperf!HeadersDone, Iperf!HeaderAnswered, Iperf!InitRun,
         Iperf!CheckReq, Iperf!WritePkg, Iperf!Waits, Iperf!TimeIsOver, Iperf!Toe, Iperf!ToeOpens,
         Iperf!ToeAnswers, Iperf!ToeTakes, Iperf!ReadStop
  <2>3. stopSend' => timeOver'
    <3>1. stopSend => timeOver BY DEF PhaseInv
    <3> QED BY <1>0, <2>1, <2>2, <3>1, StopsInTime
  <2>4. \/ state' = state /\ (numConnections' = numConnections \/ (state # "INIT_CON" /\ state # "IDLE"))
        \/ state' # "INIT_CON" /\ state' # "IDLE"
    BY <1>4 DEF Iperf!InitCon, Iperf!WaitCon, Iperf!HeadersDone, Iperf!HeaderAnswered, Iperf!InitRun,
         Iperf!CheckReq, Iperf!WritePkg, Iperf!Waits, Iperf!TimeIsOver, Iperf!Toe, Iperf!ToeOpens,
         Iperf!ToeAnswers, Iperf!ToeTakes, Iperf!fsmVars, Iperf!toeVars
  <2> QED BY <2>1, <2>3, <2>4 DEF PhaseInv
<1> QED BY <1>1, <1>2, <1>3, <1>4 DEF Iperf!Next, Iperf!Client

(* In the states where no header is awaited.                               *)
LEMMA NoHeaders ==
    state \notin {"WAIT_CON", "CONSTRUCT_HEADER", "INIT_RUN"} => Headers = 0
BY DEF Headers

(* While connections are waited for nothing but headers is asked.          *)
LEMMA AllAreHeaders ==
    ASSUME IperfTypes, LineInv, HeaderInv, state = "WAIT_CON"
    PROVE  numConnections = Len(iperfStatusQ) + Len(metaQ)
<1>1. PICK a \in Nat, b \in Nat, c \in Nat : a = Len(iperfStatusQ) /\ b = Len(metaQ) /\ c = Len(closed)
  <2>1. Len(iperfStatusQ) \in Nat /\ Len(metaQ) \in Nat /\ Len(closed) \in Nat BY QueuesAre
  <2> QED BY <2>1
<1>2. numConnections = c + (0 + (a + b))
  <2>1. ~Holds BY DEF Holds
  <2>2. Len(Line) = c + (0 + (a + b)) BY <1>1, <2>1, QueuesAre
  <2> QED BY <2>2 DEF LineInv
<1>3. Headers = numConnections BY DEF Headers
<1>4. numConnections \in 0 .. a + b BY <1>1, <1>3 DEF HeaderInv, HeadersFirst
<1> QED BY <1>1, <1>2, <1>4

LEMMA HeadersKept ==
    ASSUME IperfTypes, LineInv, PhaseInv, HeaderInv, Iperf!Next
    PROVE  HeaderInv'
<1>1. /\ iperfStatusQ \in Seq(Statuses) /\ metaQ \in Seq(Metas)
      /\ sessionIt \in Nat /\ numConnections \in Nat
  BY DEF IperfTypes
<1>2. HeadersFirst(Headers, iperfStatusQ, metaQ) BY DEF HeaderInv
<1>3. HeaderInv' <=> HeadersFirst(Headers', iperfStatusQ', metaQ') BY DEF HeaderInv, HeadersFirst
<1>4. CASE Iperf!WaitCon
  <2>1. /\ state = "WAIT_CON" /\ iperfStatusQ' = iperfStatusQ
        /\ \/ state' = "WAIT_CON"
           \/ state' = "CONSTRUCT_HEADER" /\ sessionIt' = 0
        /\ \/ /\ numConnections' = numConnections + 1
              /\ metaQ' = Append(metaQ, Iperf!Meta(Head(openStatusQ).session, "header"))
           \/ numConnections' = numConnections /\ metaQ' = metaQ
    BY <1>4 DEF Iperf!WaitCon
  <2>2. Headers = numConnections BY <2>1 DEF Headers
  <2>3. numConnections' \in Nat BY <1>1, <2>1
  <2>4. Headers' = numConnections'
    <3>1. CASE state' = "WAIT_CON" BY <3>1 DEF Headers
    <3>2. CASE state' = "CONSTRUCT_HEADER" /\ sessionIt' = 0
      <4>1. Headers' = numConnections' - 0 BY <3>2 DEF Headers
      <4>2. PICK n \in Nat : n = numConnections' BY <2>3
      <4>3. n - 0 = n  OBVIOUS
      <4> QED BY <4>1, <4>2, <4>3
    <3> QED BY <2>1, <3>1, <3>2
  <2>5. CASE numConnections' = numConnections /\ metaQ' = metaQ BY <1>2, <1>3, <2>1, <2>2, <2>4, <2>5
  <2>6. CASE /\ numConnections' = numConnections + 1
             /\ metaQ' = Append(metaQ, Iperf!Meta(Head(openStatusQ).session, "header"))
    <3>1. openStatusQ # <<>> /\ openStatusQ \in Seq(Openings) BY <1>4 DEF Iperf!WaitCon, IperfTypes
    <3>2. Head(openStatusQ).session \in Nat
      <4>1. Head(openStatusQ) \in Openings BY <3>1, HeadTailProperties
      <4> QED BY <4>1 DEF Openings
    <3>3. PICK e \in Metas : e = Iperf!Meta(Head(openStatusQ).session, "header") /\ e.kind = "header"
      BY <3>2, MetaIs
    <3>7. Headers = Len(iperfStatusQ) + Len(metaQ) BY <2>1, <2>2, AllAreHeaders
    <3>8. HeadersFirst(Headers + 1, iperfStatusQ, Append(metaQ, e)) BY <1>1, <1>2, <3>3, <3>7, HeaderIsAsked
    <3> QED BY <1>3, <2>1, <2>2, <2>4, <2>6, <3>3, <3>8
  <2> QED BY <2>1, <2>5, <2>6
<1>5. CASE Iperf!HeaderAnswered
  <2>1. /\ state = "CONSTRUCT_HEADER" /\ iperfStatusQ # <<>> /\ iperfStatusQ' = Tail(iperfStatusQ)
        /\ metaQ' = metaQ /\ sessionIt' = sessionIt
    BY <1>5 DEF Iperf!HeaderAnswered
  <2>2. Head(iperfStatusQ).error = 0 /\ Headers \in Nat \ {0} BY <1>5, HeaderIsGranted
  <2>3. state' = "INIT_RUN" /\ numConnections' = numConnections BY <1>5, <2>2 DEF Iperf!HeaderAnswered
  <2>4. Headers = numConnections - sessionIt /\ Headers' = numConnections - sessionIt - 1
    BY <2>1, <2>3 DEF Headers
  <2>5. Headers' = IF Headers = 0 THEN 0 ELSE Headers - 1 BY <2>2, <2>4
  <2>6. HeadersFirst(IF Headers = 0 THEN 0 ELSE Headers - 1, Tail(iperfStatusQ), metaQ)
    BY <1>1, <1>2, <2>1, HeadersPopped
  <2> QED BY <1>3, <2>1, <2>5, <2>6
<1>6. CASE Iperf!InitRun
  <2>1. /\ state = "INIT_RUN" /\ state' = "CONSTRUCT_HEADER" /\ iperfStatusQ' = iperfStatusQ
        /\ metaQ' = Append(metaQ, Iperf!Meta(currentSession, "package"))
        /\ sessionIt' = sessionIt + 1 /\ numConnections' = numConnections
    BY <1>6 DEF Iperf!InitRun
  <2>2. Headers = numConnections - sessionIt - 1 /\ Headers' = numConnections - (sessionIt + 1)
    BY <2>1 DEF Headers
  <2>3. Headers' = Headers BY <1>1, <2>2
  <2>4. PICK e \in Metas : e = Iperf!Meta(currentSession, "package") /\ e.kind = "package"
    BY MetaIs DEF IperfTypes
  <2>5. HeadersFirst(Headers, iperfStatusQ, Append(metaQ, e)) BY <1>1, <1>2, <2>4, PackageAsked
  <2> QED BY <1>3, <2>1, <2>3, <2>4, <2>5
<1>7. CASE Iperf!CheckReq
  <2>1. /\ state = "CHECK_REQ" /\ iperfStatusQ # <<>> /\ iperfStatusQ' = Tail(iperfStatusQ)
        /\ state' = "START_PKG" \/ state' = state
        /\ \/ metaQ' = metaQ
           \/ metaQ' = Append(metaQ, Iperf!Meta(Head(iperfStatusQ).session, "package"))
    BY <1>7 DEF Iperf!CheckReq
  <2>2. Headers = 0 /\ Headers' = 0 BY <2>1 DEF Headers
  <2>3. HeadersFirst(0, Tail(iperfStatusQ), metaQ)
    <3>1. HeadersFirst(IF Headers = 0 THEN 0 ELSE Headers - 1, Tail(iperfStatusQ), metaQ)
      BY <1>1, <1>2, <2>1, HeadersPopped
    <3> QED BY <2>2, <3>1
  <2>4. Tail(iperfStatusQ) \in Seq(Statuses) /\ Head(iperfStatusQ).session \in Nat BY <2>1, FirstAnswer
  <2>5. PICK e \in Metas : e = Iperf!Meta(Head(iperfStatusQ).session, "package") /\ e.kind = "package"
    BY <2>4, MetaIs
  <2>6. HeadersFirst(0, Tail(iperfStatusQ), Append(metaQ, e)) BY <1>1, <2>3, <2>4, <2>5, PackageAsked
  <2> QED BY <1>3, <2>1, <2>2, <2>3, <2>5, <2>6
<1>8. CASE Iperf!StartPkg
  <2>1. /\ state = "START_PKG" /\ state' = "WRITE_PKG" /\ iperfStatusQ' = iperfStatusQ
        /\ \/ metaQ' = metaQ
           \/ metaQ' = Append(metaQ, Iperf!Meta(currentSession, "package"))
    BY <1>8 DEF Iperf!StartPkg
  <2>2. Headers = 0 /\ Headers' = 0 BY <2>1 DEF Headers
  <2>3. PICK e \in Metas : e = Iperf!Meta(currentSession, "package") /\ e.kind = "package"
    BY MetaIs DEF IperfTypes
  <2>4. HeadersFirst(Headers, iperfStatusQ, Append(metaQ, e)) BY <1>1, <1>2, <2>3, PackageAsked
  <2> QED BY <1>2, <1>3, <2>1, <2>2, <2>3, <2>4
<1>9. CASE Iperf!ToeAnswers
  <2>1. /\ metaQ # <<>> /\ metaQ' = Tail(metaQ)
        /\ state' = state /\ sessionIt' = sessionIt /\ numConnections' = numConnections
    BY <1>9 DEF Iperf!ToeAnswers, Iperf!fsmVars
  <2>2. PICK error \in {0, 2} :
           /\ iperfStatusQ' = Append(iperfStatusQ, [session |-> Head(metaQ).session, error |-> error])
           /\ error = 2 => Head(metaQ).kind = "package"
    BY <1>9 DEF Iperf!ToeAnswers, Iperf!Refusable
  <2>3. Head(metaQ) \in Metas BY <1>1, <2>1, HeadTailProperties
  <2>4. PICK e \in Statuses : e = [session |-> Head(metaQ).session, error |-> error]
    BY <2>3 DEF Metas, Statuses
  <2>5. Head(metaQ).kind = "header" => e.error = 0 BY <2>2, <2>4
  <2>6. HeadersFirst(Headers, Append(iperfStatusQ, e), Tail(metaQ))
    BY <1>1, <1>2, <2>1, <2>5, HeadersAnswered
  <2>7. Headers' = Headers BY <2>1 DEF Headers
  <2> QED BY <1>3, <2>1, <2>2, <2>4, <2>6, <2>7
<1>10. CASE Iperf!Idle \/ Iperf!InitCon \/ Iperf!HeadersDone \/ Iperf!WritePkg \/ Iperf!CheckTime
            \/ Iperf!Waits \/ Iperf!TimeIsOver \/ Iperf!ToeOpens \/ Iperf!ToeTakes
  <2>1. iperfStatusQ' = iperfStatusQ /\ metaQ' = metaQ
    BY <1>10 DEF Iperf!Idle, Iperf!InitCon, Iperf!HeadersDone, Iperf!WritePkg, Iperf!CheckTime, Iperf!Waits,
         Iperf!TimeIsOver, Iperf!ToeOpens, Iperf!ToeTakes, Iperf!toeVars
  <2>2. CASE Iperf!Idle
    <3>1. Headers = 0 /\ Headers' = 0 BY <2>2 DEF Iperf!Idle, Headers
    <3> QED BY <1>2, <1>3, <2>1, <3>1
  <2>3. CASE Iperf!InitCon
    <3>1. state = "INIT_CON" /\ numConnections' = numConnections /\ (state' = "WAIT_CON" \/ state' = state)
      BY <2>3 DEF Iperf!InitCon
    <3>2. Headers = 0 /\ Headers' = 0 BY <3>1 DEF PhaseInv, Headers
    <3> QED BY <1>2, <1>3, <2>1, <3>2
  <2>4. CASE Iperf!HeadersDone
    <3>1. state = "CONSTRUCT_HEADER" /\ sessionIt = numConnections /\ state' = "CHECK_REQ"
      BY <2>4 DEF Iperf!HeadersDone
    <3>2. Headers = numConnections - sessionIt /\ Headers' = 0 BY <3>1 DEF Headers
    <3>3. Headers = 0 BY <1>1, <3>1, <3>2
    <3> QED BY <1>2, <1>3, <2>1, <3>2, <3>3
  <2>5. CASE Iperf!WritePkg
    <3>1. state = "WRITE_PKG" /\ (state' = "CHECK_TIME" \/ state' = state) BY <2>5 DEF Iperf!WritePkg
    <3>2. Headers = 0 /\ Headers' = 0 BY <3>1 DEF Headers
    <3> QED BY <1>2, <1>3, <2>1, <3>2
  <2>6. CASE Iperf!CheckTime
    <3>1. state = "CHECK_TIME" /\ (state' = "IDLE" \/ state' = "CHECK_REQ" \/ state' = state)
      BY <2>6 DEF Iperf!CheckTime
    <3>2. Headers = 0 /\ Headers' = 0 BY <3>1 DEF Headers
    <3> QED BY <1>2, <1>3, <2>1, <3>2
  <2>7. CASE Iperf!Waits \/ Iperf!TimeIsOver \/ Iperf!ToeOpens \/ Iperf!ToeTakes
    <3>1. state' = state /\ sessionIt' = sessionIt /\ numConnections' = numConnections
      BY <2>7 DEF Iperf!Waits, Iperf!TimeIsOver, Iperf!ToeOpens, Iperf!ToeTakes, Iperf!fsmVars
    <3>2. Headers' = Headers BY <3>1 DEF Headers
    <3> QED BY <1>2, <1>3, <2>1, <3>2
  <2> QED BY <1>10, <2>2, <2>3, <2>4, <2>5, <2>6, <2>7
<1> QED BY <1>4, <1>5, <1>6, <1>7, <1>8, <1>9, <1>10 DEF Iperf!Next, Iperf!Client, Iperf!Toe

-----------------------------------------------------------------------------
(* What is granted                                                         *)

LEMMA NothingGranted ==
    /\ \A h : Grants(<<>>, <<>>, h)
    /\ \A r \in Seq(Metas) : \A h : Grants(r, <<>>, h) => r = <<>>
<1>1. ASSUME NEW h PROVE Grants(<<>>, <<>>, h)
  <2>1. DOMAIN <<>> = {}  OBVIOUS
  <2>2. <<>> \in [DOMAIN <<>> -> DOMAIN <<>>] BY <2>1
  <2>3. Matches(<<>>, <<>>, <<>>, h) BY <2>1 DEF Matches
  <2> QED BY <2>2, <2>3 DEF Grants
<1>2. ASSUME NEW r \in Seq(Metas), NEW h, Grants(r, <<>>, h) PROVE r = <<>>
  <2>1. DOMAIN <<>> = {}  OBVIOUS
  <2>2. PICK f \in [DOMAIN r -> {}] : TRUE BY <1>2, <2>1 DEF Grants
  <2>3. \A i \in DOMAIN r : FALSE BY <2>2
  <2>4. Len(r) \in Nat /\ DOMAIN r = 1 .. Len(r)  OBVIOUS
  <2>5. Len(r) = 0
    <3>1. PICK n \in Nat : n = Len(r)
      <4>1. Len(r) \in Nat  OBVIOUS
      <4> QED BY <4>1
    <3>2. CASE n # 0
      <4>1. 1 \in 1 .. n BY <3>2
      <4> QED BY <2>3, <2>4, <3>1, <4>1
    <3> QED BY <3>1, <3>2
  <2> QED BY <2>5, EmptySeq
<1> QED BY <1>1, <1>2

LEMMA GrantedOnTop ==
    ASSUME NEW q \in Seq(Statuses), NEW r \in Seq(Metas), NEW h \in Nat, Grants(r, q, h),
           NEW e \in Statuses
    PROVE  /\ e.error # 0 => Grants(r, Append(q, e), h)
           /\ e.error = 0 => Grants(Append(r, GrantOf(Append(q, e), h, Len(q) + 1)), Append(q, e), h)
<1>1. PICK n \in Nat, k \in Nat : n = Len(q) /\ k = Len(r)  OBVIOUS
<1>2. PICK a \in Seq(Statuses) :
         /\ a = Append(q, e) /\ DOMAIN q = 1 .. n /\ DOMAIN a = 1 .. n + 1 /\ a[n + 1] = e
         /\ \A i \in 1 .. n : i \in 1 .. n + 1 /\ a[i] = q[i]
  <2>1. /\ Append(q, e) \in Seq(Statuses) /\ Len(Append(q, e)) = n + 1
        /\ DOMAIN q = 1 .. n /\ DOMAIN Append(q, e) = 1 .. n + 1
        /\ Append(q, e)[n + 1] = e
        /\ \A i \in 1 .. n : i \in 1 .. n + 1 /\ Append(q, e)[i] = q[i]
    BY <1>1, AppendIs
  <2> QED BY <2>1
<1>3. DOMAIN r = 1 .. k BY <1>1
<1>3a. PICK f \in [1 .. k -> 1 .. n] : Matches(f, r, q, h) BY <1>2, <1>3 DEF Grants
<1>4. /\ \A j, l \in 1 .. k : j < l => f[j] < f[l]
      /\ \A i \in 1 .. n : q[i].error = 0 <=> \E j \in 1 .. k : f[j] = i
      /\ \A j \in 1 .. k : r[j] = GrantOf(q, h, f[j])
  BY <1>2, <1>3, <1>3a DEF Matches
<1>5. \A j \in 1 .. k : f[j] \in 1 .. n /\ f[j] # n + 1
  <2>1. \A x \in 1 .. n : x # n + 1 BY <1>1
  <2> QED BY <2>1
<1>6. \A i \in 1 .. n : GrantOf(a, h, i) = GrantOf(q, h, i) BY <1>2 DEF GrantOf
<1>7. \A i \in 1 .. n + 1 : i = n + 1 \/ i \in 1 .. n BY <1>1
<1>8. ASSUME e.error # 0 PROVE Grants(r, a, h)
  <2>1. f \in [1 .. k -> 1 .. n + 1] BY <1>2, <1>5
  <2>2. \A i \in 1 .. n + 1 : a[i].error = 0 <=> \E j \in 1 .. k : f[j] = i
    BY <1>2, <1>4, <1>5, <1>7, <1>8
  <2>3. \A j \in 1 .. k : r[j] = GrantOf(a, h, f[j]) BY <1>4, <1>5, <1>6
  <2>4. Matches(f, r, a, h) BY <1>2, <1>3, <1>4, <2>2, <2>3 DEF Matches
  <2> QED BY <1>2, <1>3, <2>1, <2>4 DEF Grants
<1>9. ASSUME e.error = 0 PROVE Grants(Append(r, GrantOf(a, h, n + 1)), a, h)
  <2>1. PICK d \in Metas : d = GrantOf(a, h, n + 1)
    <3>1. a[n + 1].session \in Nat BY <1>2 DEF Statuses
    <3>2. GrantOf(a, h, n + 1) \in Metas BY <3>1 DEF GrantOf, Metas
    <3> QED BY <3>2
  <2>2. PICK b \in Seq(Metas) :
           /\ b = Append(r, d) /\ DOMAIN b = 1 .. k + 1 /\ b[k + 1] = d
           /\ \A i \in 1 .. k : i \in 1 .. k + 1 /\ b[i] = r[i]
    <3>1. /\ Append(r, d) \in Seq(Metas) /\ Len(Append(r, d)) = k + 1
          /\ DOMAIN r = 1 .. k /\ DOMAIN Append(r, d) = 1 .. k + 1
          /\ Append(r, d)[k + 1] = d
          /\ \A i \in 1 .. k : i \in 1 .. k + 1 /\ Append(r, d)[i] = r[i]
      BY <1>1, AppendIs
    <3> QED BY <3>1
  <2>3. PICK g \in [1 .. k + 1 -> 1 .. n + 1] : g[k + 1] = n + 1 /\ \A j \in 1 .. k : g[j] = f[j]
    <3> DEFINE g == [j \in 1 .. k + 1 |-> IF j = k + 1 THEN n + 1 ELSE f[j]]
    <3>1. \A j \in 1 .. k + 1 : j = k + 1 \/ j \in 1 .. k BY <1>1
    <3>2. n + 1 \in 1 .. n + 1 /\ k + 1 \in 1 .. k + 1 BY <1>1
    <3>3. \A j \in 1 .. k : f[j] \in 1 .. n + 1 BY <1>2, <1>5
    <3>4. \A j \in 1 .. k : j # k + 1 /\ j \in 1 .. k + 1 BY <1>1
    <3>5. g \in [1 .. k + 1 -> 1 .. n + 1] BY <3>1, <3>2, <3>3
    <3>6. g[k + 1] = n + 1 /\ \A j \in 1 .. k : g[j] = f[j] BY <3>2, <3>4
    <3> HIDE DEF g
    <3> QED BY <3>5, <3>6
  <2>4. \A j \in 1 .. k + 1 : j = k + 1 \/ j \in 1 .. k BY <1>1
  <2>5. k + 1 \in 1 .. k + 1 /\ \A j \in 1 .. k : j \in 1 .. k + 1 BY <1>1
  <2>6. \A j, l \in 1 .. k + 1 : j < l => g[j] < g[l]
    <3> SUFFICES ASSUME NEW j \in 1 .. k + 1, NEW l \in 1 .. k + 1, j < l PROVE g[j] < g[l]  OBVIOUS
    <3>1. j \in 1 .. k BY <1>1
    <3>2. CASE l \in 1 .. k BY <1>4, <2>3, <3>1, <3>2
    <3>3. CASE l = k + 1
      <4>1. g[l] = n + 1 /\ g[j] = f[j] /\ f[j] \in 1 .. n BY <1>5, <2>3, <3>1, <3>3
      <4>2. \A x \in 1 .. n : x < n + 1 BY <1>1
      <4> QED BY <4>1, <4>2
    <3> QED BY <2>4, <3>2, <3>3
  <2>7. \A i \in 1 .. n + 1 : a[i].error = 0 <=> \E j \in 1 .. k + 1 : g[j] = i
    <3> SUFFICES ASSUME NEW i \in 1 .. n + 1 PROVE a[i].error = 0 <=> \E j \in 1 .. k + 1 : g[j] = i
      OBVIOUS
    <3>1. CASE i = n + 1 BY <1>2, <1>9, <2>3, <2>5, <3>1
    <3>2. CASE i \in 1 .. n
      <4>1. i # n + 1 BY <1>1, <3>2
      <4>2. (\E j \in 1 .. k + 1 : g[j] = i) <=> \E j \in 1 .. k : f[j] = i BY <2>3, <2>4, <2>5, <4>1
      <4> QED BY <1>2, <1>4, <3>2, <4>2
    <3> QED BY <1>7, <3>1, <3>2
  <2>8. \A j \in 1 .. k + 1 : b[j] = GrantOf(a, h, g[j])
    <3> SUFFICES ASSUME NEW j \in 1 .. k + 1 PROVE b[j] = GrantOf(a, h, g[j])  OBVIOUS
    <3>1. CASE j = k + 1 BY <2>1, <2>2, <2>3, <3>1
    <3>2. CASE j \in 1 .. k
      <4>1. b[j] = r[j] /\ g[j] = f[j] /\ r[j] = GrantOf(q, h, f[j]) BY <1>4, <2>2, <2>3, <3>2
      <4>2. GrantOf(a, h, f[j]) = GrantOf(q, h, f[j]) BY <1>5, <1>6, <3>2
      <4> QED BY <4>1, <4>2
    <3> QED BY <2>4, <3>1, <3>2
  <2>9. Matches(g, b, a, h) BY <1>2, <2>2, <2>6, <2>7, <2>8 DEF Matches
  <2>10. Grants(b, a, h) BY <1>2, <2>2, <2>3, <2>9 DEF Grants
  <2> QED BY <2>1, <2>2, <2>10
<1> QED BY <1>1, <1>2, <1>8, <1>9

(* The same grants with the headers counted otherwise.                     *)
LEMMA GrantsStay ==
    ASSUME NEW q, NEW r, NEW g, NEW h, Grants(r, q, h), \A i \in DOMAIN q : i <= g <=> i <= h
    PROVE  Grants(r, q, g)
<1>1. \A i \in DOMAIN q : GrantOf(q, g, i) = GrantOf(q, h, i) BY DEF GrantOf
<1>2. PICK f \in [DOMAIN r -> DOMAIN q] : Matches(f, r, q, h) BY DEF Grants
<1>3. \A k \in DOMAIN r : r[k] = GrantOf(q, g, f[k]) BY <1>1, <1>2 DEF Matches
<1>4. Matches(f, r, q, g) BY <1>2, <1>3 DEF Matches
<1> QED BY <1>4 DEF Grants

LEMMA GrantShifts ==
    ASSUME NEW q \in Seq(Statuses), NEW n \in Nat, Len(q) = n + 1, NEW h \in Nat, NEW i \in 1 .. n
    PROVE  GrantOf(Tail(q), IF h = 0 THEN 0 ELSE h - 1, i) = GrantOf(q, h, i + 1)
<1>1. Tail(q)[i] = q[i + 1] BY TailIs
<1>2. i <= (IF h = 0 THEN 0 ELSE h - 1) <=> i + 1 <= h
  <2>1. i \in Nat \ {0}  OBVIOUS
  <2> QED BY <2>1
<1> QED BY <1>1, <1>2 DEF GrantOf

LEMMA GrantPopped ==
    ASSUME NEW q \in Seq(Statuses), NEW r \in Seq(Metas), NEW h \in Nat, Grants(r, q, h), q # <<>>
    PROVE  /\ Head(q).error # 0 => Grants(r, Tail(q), IF h = 0 THEN 0 ELSE h - 1)
           /\ Head(q).error = 0 =>
                 /\ r # <<>> /\ Head(r) = GrantOf(q, h, 1)
                 /\ Grants(Tail(r), Tail(q), IF h = 0 THEN 0 ELSE h - 1)
<1> DEFINE g == IF h = 0 THEN 0 ELSE h - 1
<1>1. PICK n \in Nat : Len(q) = n + 1 BY NotEmpty
<1>2. /\ Head(q) \in Statuses /\ Head(q) = q[1]
      /\ Tail(q) \in Seq(Statuses) /\ Len(Tail(q)) = n
      /\ DOMAIN q = 1 .. n + 1 /\ DOMAIN Tail(q) = 1 .. n
      /\ 1 \in 1 .. n + 1
      /\ \A i \in 1 .. n : i + 1 \in 1 .. n + 1 /\ Tail(q)[i] = q[i + 1]
  BY <1>1, TailIs
<1>3. \A i \in 1 .. n : GrantOf(Tail(q), g, i) = GrantOf(q, h, i + 1) BY <1>1, GrantShifts
<1> HIDE DEF g
<1>4. PICK k \in Nat : k = Len(r)  OBVIOUS
<1>5. DOMAIN r = 1 .. k BY <1>4
<1>6. PICK f \in [1 .. k -> 1 .. n + 1] : Matches(f, r, q, h) BY <1>2, <1>5 DEF Grants
<1>7. /\ \A j, l \in 1 .. k : j < l => f[j] < f[l]
      /\ \A i \in 1 .. n + 1 : q[i].error = 0 <=> \E j \in 1 .. k : f[j] = i
      /\ \A j \in 1 .. k : r[j] = GrantOf(q, h, f[j])
  BY <1>2, <1>5, <1>6 DEF Matches
<1>8. \A i \in 1 .. n + 1 : i # 1 => i - 1 \in 1 .. n /\ (i - 1) + 1 = i BY <1>1
<1>9. ASSUME Head(q).error # 0 PROVE Grants(r, Tail(q), g)
  <2>1. \A j \in 1 .. k : f[j] \in 1 .. n + 1 /\ f[j] # 1 BY <1>2, <1>7, <1>9
  <2>2. PICK e \in [1 .. k -> 1 .. n] : \A j \in 1 .. k : e[j] = f[j] - 1
    <3>1. [j \in 1 .. k |-> f[j] - 1] \in [1 .. k -> 1 .. n] BY <1>8, <2>1
    <3> QED BY <3>1
  <2>3. \A j \in 1 .. k : e[j] \in 1 .. n /\ e[j] + 1 = f[j] BY <1>8, <2>1, <2>2
  <2>4. \A j, l \in 1 .. k : j < l => e[j] < e[l]
    <3> SUFFICES ASSUME NEW j \in 1 .. k, NEW l \in 1 .. k, j < l PROVE e[j] < e[l]  OBVIOUS
    <3>1. PICK x \in 1 .. n, y \in 1 .. n : x = e[j] /\ y = e[l] /\ x + 1 = f[j] /\ y + 1 = f[l] BY <2>3
    <3>2. x + 1 < y + 1 BY <1>7, <3>1
    <3> QED BY <3>1, <3>2
  <2>5. \A i \in 1 .. n : Tail(q)[i].error = 0 <=> \E j \in 1 .. k : e[j] = i
    <3> SUFFICES ASSUME NEW i \in 1 .. n PROVE Tail(q)[i].error = 0 <=> \E j \in 1 .. k : e[j] = i  OBVIOUS
    <3>1. \A x \in 1 .. n : x = i <=> x + 1 = i + 1 BY <1>1
    <3>2. \A j \in 1 .. k : e[j] = i <=> f[j] = i + 1 BY <2>3, <3>1
    <3>3. Tail(q)[i].error = 0 <=> \E j \in 1 .. k : f[j] = i + 1 BY <1>2, <1>7
    <3> QED BY <3>2, <3>3
  <2>6. \A j \in 1 .. k : r[j] = GrantOf(Tail(q), g, e[j])
    <3> SUFFICES ASSUME NEW j \in 1 .. k PROVE r[j] = GrantOf(Tail(q), g, e[j])  OBVIOUS
    <3>1. GrantOf(Tail(q), g, e[j]) = GrantOf(q, h, e[j] + 1) BY <1>3, <2>3
    <3> QED BY <1>7, <2>3, <3>1
  <2>7. Matches(e, r, Tail(q), g) BY <1>2, <1>5, <2>4, <2>5, <2>6 DEF Matches
  <2> QED BY <1>2, <1>5, <2>2, <2>7 DEF Grants
<1>10. ASSUME Head(q).error = 0
       PROVE  r # <<>> /\ Head(r) = GrantOf(q, h, 1) /\ Grants(Tail(r), Tail(q), g)
  <2>1. PICK o \in 1 .. k : f[o] = 1 BY <1>2, <1>7, <1>10
  <2>2. PICK m \in Nat : k = m + 1
    <3>1. k # 0 BY <2>1
    <3>2. k - 1 \in Nat /\ k = (k - 1) + 1 BY <1>4, <3>1
    <3> QED BY <3>2
  <2>3. /\ Head(r) \in Metas /\ Head(r) = r[1]
        /\ Tail(r) \in Seq(Metas) /\ Len(Tail(r)) = m
        /\ DOMAIN r = 1 .. m + 1 /\ DOMAIN Tail(r) = 1 .. m
        /\ 1 \in 1 .. m + 1
        /\ \A i \in 1 .. m : i + 1 \in 1 .. m + 1 /\ Tail(r)[i] = r[i + 1]
    BY <1>4, <2>2, TailIs
  <2>4. f[1] = 1
    <3>1. CASE o = 1 BY <2>1, <3>1
    <3>2. CASE o # 1
      <4>1. 1 < o BY <2>1, <3>2
      <4>2. f[1] < 1 BY <1>7, <2>1, <2>2, <2>3, <4>1
      <4>3. f[1] \in 1 .. n + 1 BY <2>2, <2>3
      <4> QED BY <1>1, <4>2, <4>3
    <3> QED BY <3>1, <3>2
  <2>5. r # <<>> BY <1>5, <2>1
  <2>6. Head(r) = GrantOf(q, h, 1) BY <1>7, <2>2, <2>3, <2>4
  <2>7. \A j \in 1 .. m : f[j + 1] \in 1 .. n + 1 /\ f[j + 1] # 1
    <3> SUFFICES ASSUME NEW j \in 1 .. m PROVE f[j + 1] \in 1 .. n + 1 /\ f[j + 1] # 1  OBVIOUS
    <3>1. j + 1 \in 1 .. k /\ 1 \in 1 .. k BY <2>2, <2>3
    <3>2. 1 < j + 1  OBVIOUS
    <3>3. 1 < f[j + 1] BY <1>7, <2>4, <3>1, <3>2
    <3>4. f[j + 1] \in 1 .. n + 1 BY <3>1
    <3> QED BY <1>1, <3>3, <3>4
  <2>8. PICK e \in [1 .. m -> 1 .. n] : \A j \in 1 .. m : e[j] = f[j + 1] - 1
    <3>1. [j \in 1 .. m |-> f[j + 1] - 1] \in [1 .. m -> 1 .. n] BY <1>8, <2>7
    <3> QED BY <3>1
  <2>9. \A j \in 1 .. m : e[j] \in 1 .. n /\ e[j] + 1 = f[j + 1] BY <1>8, <2>7, <2>8
  <2>10. \A j, l \in 1 .. m : j < l => e[j] < e[l]
    <3> SUFFICES ASSUME NEW j \in 1 .. m, NEW l \in 1 .. m, j < l PROVE e[j] < e[l]  OBVIOUS
    <3>1. PICK x \in 1 .. n, y \in 1 .. n : x = e[j] /\ y = e[l] /\ x + 1 = f[j + 1] /\ y + 1 = f[l + 1]
      BY <2>9
    <3>2. j + 1 < l + 1 /\ j + 1 \in 1 .. k /\ l + 1 \in 1 .. k BY <2>2, <2>3
    <3>3. x + 1 < y + 1 BY <1>7, <3>1, <3>2
    <3> QED BY <3>1, <3>3
  <2>11. \A i \in 1 .. n : Tail(q)[i].error = 0 <=> \E j \in 1 .. m : e[j] = i
    <3> SUFFICES ASSUME NEW i \in 1 .. n PROVE Tail(q)[i].error = 0 <=> \E j \in 1 .. m : e[j] = i  OBVIOUS
    <3>1. \A x \in 1 .. n : x = i <=> x + 1 = i + 1 BY <1>1
    <3>2. \A j \in 1 .. m : e[j] = i <=> f[j + 1] = i + 1 BY <2>9, <3>1
    <3>3. Tail(q)[i].error = 0 <=> \E j \in 1 .. k : f[j] = i + 1 BY <1>2, <1>7
    <3>4. i + 1 # 1  OBVIOUS
    <3>5. \A j \in 1 .. k : j # 1 => j - 1 \in 1 .. m /\ (j - 1) + 1 = j BY <2>2
    <3>6. (\E j \in 1 .. k : f[j] = i + 1) => \E j \in 1 .. m : f[j + 1] = i + 1
      <4> SUFFICES ASSUME NEW j \in 1 .. k, f[j] = i + 1 PROVE \E l \in 1 .. m : f[l + 1] = i + 1  OBVIOUS
      <4>1. j # 1 BY <2>4, <3>4
      <4>2. j - 1 \in 1 .. m /\ f[(j - 1) + 1] = i + 1 BY <3>5, <4>1
      <4> QED BY <4>2
    <3>7. (\E j \in 1 .. m : f[j + 1] = i + 1) => \E j \in 1 .. k : f[j] = i + 1 BY <2>2, <2>3
    <3> QED BY <3>2, <3>3, <3>6, <3>7
  <2>12. \A j \in 1 .. m : Tail(r)[j] = GrantOf(Tail(q), g, e[j])
    <3> SUFFICES ASSUME NEW j \in 1 .. m PROVE Tail(r)[j] = GrantOf(Tail(q), g, e[j])  OBVIOUS
    <3>1. GrantOf(Tail(q), g, e[j]) = GrantOf(q, h, e[j] + 1) BY <1>3, <2>9
    <3>2. Tail(r)[j] = r[j + 1] /\ j + 1 \in 1 .. k BY <2>2, <2>3
    <3> QED BY <1>7, <2>9, <3>1, <3>2
  <2>13. Matches(e, Tail(r), Tail(q), g) BY <1>2, <2>3, <2>10, <2>11, <2>12 DEF Matches
  <2>14. Grants(Tail(r), Tail(q), g) BY <1>2, <2>3, <2>8, <2>13 DEF Grants
  <2> QED BY <2>5, <2>6, <2>14
<1> QED BY <1>9, <1>10 DEF g

LEMMA ConcatAt ==
    ASSUME NEW S, NEW s \in Seq(S), NEW t \in Seq(S), NEW n \in Nat, NEW k \in Nat, n = Len(s), k = Len(t)
    PROVE  /\ s \o t \in Seq(S) /\ Len(s \o t) = n + k
           /\ \A i \in 1 .. n : (s \o t)[i] = s[i]
           /\ \A i \in 1 .. k : (s \o t)[n + i] = t[i]
<1>1. s \o t \in Seq(S) /\ Len(s \o t) = n + k  OBVIOUS
<1>2. \A i \in 1 .. n : (s \o t)[i] = s[i]  OBVIOUS
<1>3. ASSUME NEW i \in 1 .. k PROVE (s \o t)[n + i] = t[i]
  <2>1. n + i \in 1 .. n + k /\ ~(n + i <= n) /\ (n + i) - n = i  OBVIOUS
  <2> QED BY <2>1
<1> QED BY <1>1, <1>2, <1>3

(* The data, what is being written and what is granted besides.            *)
LEMMA GrantsRegroup ==
    ASSUME NEW d \in Seq(Metas), NEW w \in Seq(Metas), NEW r \in Seq(Metas), NEW x \in Metas
    PROVE  /\ Append(d \o (w \o r), x) = d \o (w \o Append(r, x))
           /\ d \o (<<x>> \o r) = Append(d, x) \o (<<>> \o r)
           /\ r # <<>> => d \o (<<>> \o r) = d \o (<<Head(r)>> \o Tail(r))
           /\ d # <<>> => Tail(d \o (w \o r)) = Tail(d) \o (w \o r)
<1>1. <<x>> \in Seq(Metas)  OBVIOUS
<1>2. PICK u \in Seq(Metas) : u = w \o r
  <2>1. w \o r \in Seq(Metas) BY ConcatIs
  <2> QED BY <2>1
<1>3. Append(d \o (w \o r), x) = d \o (w \o Append(r, x))
  <2>1. d \o u \in Seq(Metas) BY ConcatIs
  <2>2. Append(d \o u, x) = (d \o u) \o <<x>> BY <2>1, AppendIsConcat
  <2>3. (d \o u) \o <<x>> = d \o (u \o <<x>>) BY <1>1, ConcatAssociative
  <2>4. (w \o r) \o <<x>> = w \o (r \o <<x>>) BY <1>1, ConcatAssociative
  <2>5. Append(r, x) = r \o <<x>> BY AppendIsConcat
  <2> QED BY <1>2, <2>2, <2>3, <2>4, <2>5
<1>4. d \o (<<x>> \o r) = Append(d, x) \o (<<>> \o r)
  <2>1. Append(d, x) = d \o <<x>> BY AppendIsConcat
  <2>2. (d \o <<x>>) \o r = d \o (<<x>> \o r) BY <1>1, ConcatAssociative
  <2>3. <<>> \o r = r BY ConcatEmptySeq
  <2> QED BY <2>1, <2>2, <2>3
<1>5. ASSUME r # <<>> PROVE d \o (<<>> \o r) = d \o (<<Head(r)>> \o Tail(r))
  <2>1. <<>> \o r = r BY ConcatEmptySeq
  <2>2. r = <<Head(r)>> \o Tail(r) BY <1>5, HeadAndTail
  <2> QED BY <2>1, <2>2
<1>6. ASSUME d # <<>> PROVE Tail(d \o (w \o r)) = Tail(d) \o (w \o r)
  <2>1. PICK n \in Nat : Len(d) = n + 1 BY <1>6, NotEmpty
  <2>2. PICK k \in Nat : k = Len(u)  OBVIOUS
  <2>3. PICK t \in Seq(Metas) : t = Tail(d) /\ Len(t) = n /\ \A i \in 1 .. n : t[i] = d[i + 1]
    <3>1. /\ Head(d) \in Metas /\ Head(d) = d[1]
          /\ Tail(d) \in Seq(Metas) /\ Len(Tail(d)) = n
          /\ DOMAIN d = 1 .. n + 1 /\ DOMAIN Tail(d) = 1 .. n
          /\ 1 \in 1 .. n + 1
          /\ \A i \in 1 .. n : i + 1 \in 1 .. n + 1 /\ Tail(d)[i] = d[i + 1]
      BY <2>1, TailIs
    <3> QED BY <3>1
  <2>4. PICK j \in Nat, l \in Nat : j = n + 1 /\ l = n + k /\ j + k = l + 1
    <3>1. n + 1 \in Nat /\ n + k \in Nat /\ (n + 1) + k = (n + k) + 1 BY <2>1, <2>2
    <3> QED BY <3>1
  <2>5. PICK a \in Seq(Metas) :
           /\ a = d \o u /\ Len(a) = l + 1
           /\ \A i \in 1 .. j : a[i] = d[i]
           /\ \A i \in 1 .. k : a[j + i] = u[i]
    <3>1. j = Len(d) BY <2>1, <2>4
    <3>2. /\ d \o u \in Seq(Metas) /\ Len(d \o u) = j + k
          /\ \A i \in 1 .. j : (d \o u)[i] = d[i]
          /\ \A i \in 1 .. k : (d \o u)[j + i] = u[i]
      BY <2>2, <3>1, ConcatAt
    <3> QED BY <2>4, <3>2
  <2>6. PICK b \in Seq(Metas) : b = Tail(a) /\ Len(b) = l /\ \A i \in 1 .. l : b[i] = a[i + 1]
    <3>1. /\ Head(a) \in Metas /\ Head(a) = a[1]
          /\ Tail(a) \in Seq(Metas) /\ Len(Tail(a)) = l
          /\ DOMAIN a = 1 .. l + 1 /\ DOMAIN Tail(a) = 1 .. l
          /\ 1 \in 1 .. l + 1
          /\ \A i \in 1 .. l : i + 1 \in 1 .. l + 1 /\ Tail(a)[i] = a[i + 1]
      BY <2>5, TailIs
    <3> QED BY <3>1
  <2>7. PICK c \in Seq(Metas) :
           /\ c = t \o u /\ Len(c) = l
           /\ \A i \in 1 .. n : c[i] = t[i]
           /\ \A i \in 1 .. k : c[n + i] = u[i]
    <3>1. n = Len(t) BY <2>3
    <3>2. /\ t \o u \in Seq(Metas) /\ Len(t \o u) = n + k
          /\ \A i \in 1 .. n : (t \o u)[i] = t[i]
          /\ \A i \in 1 .. k : (t \o u)[n + i] = u[i]
      BY <2>2, <3>1, ConcatAt
    <3> QED BY <2>4, <3>2
  <2>8. \A i \in 1 .. l : b[i] = c[i]
    <3> SUFFICES ASSUME NEW i \in 1 .. l PROVE b[i] = c[i]  OBVIOUS
    <3>1. CASE i \in 1 .. n
      <4>1. i + 1 \in 1 .. j BY <2>1, <2>4, <3>1
      <4> QED BY <2>3, <2>5, <2>6, <2>7, <3>1, <4>1
    <3>2. CASE i \notin 1 .. n
      <4>1. i - n \in 1 .. k /\ n + (i - n) = i /\ j + (i - n) = i + 1 BY <2>1, <2>2, <2>4, <3>2
      <4>2. c[i] = u[i - n] BY <2>7, <4>1
      <4>3. a[i + 1] = u[i - n] BY <2>5, <4>1
      <4> QED BY <2>6, <4>2, <4>3
    <3> QED BY <3>1, <3>2
  <2>9. b = c BY <2>6, <2>7, <2>8, SeqEqual
  <2> QED BY <1>2, <2>3, <2>5, <2>6, <2>7, <2>9
<1> QED BY <1>3, <1>4, <1>5, <1>6

LEMMA GrantIs ==
    ASSUME IperfTypes
    PROVE  /\ Writing \in Seq(Metas)
           /\ GrantInv <=> \E r \in Seq(Metas) : iperfGranted = iperfDataQ \o (Writing \o r)
                                                 /\ Grants(r, iperfStatusQ, Headers)
           /\ GrantInv' <=> \E r \in Seq(Metas) : iperfGranted' = iperfDataQ' \o (Writing' \o r)
                                                  /\ Grants(r, iperfStatusQ', Headers')
<1>1. currentSession \in Nat BY DEF IperfTypes
<1>2. [session |-> currentSession, kind |-> "header"] \in Metas BY <1>1 DEF Metas
<1>3. [session |-> currentSession, kind |-> "package"] \in Metas BY <1>1 DEF Metas
<1>4. Writing \in Seq(Metas) BY <1>2, <1>3 DEF Writing
<1>5. GrantInv <=> \E r \in Seq(Metas) : iperfGranted = iperfDataQ \o (Writing \o r)
                                         /\ Grants(r, iperfStatusQ, Headers)
  BY DEF GrantInv
<1>6. GrantInv' <=> \E r \in Seq(Metas) : iperfGranted' = iperfDataQ' \o (Writing' \o r)
                                          /\ Grants(r, iperfStatusQ', Headers')
  BY DEF GrantInv, Metas, Grants, Matches, GrantOf
<1> QED BY <1>4, <1>5, <1>6

LEMMA GrantsKept ==
    ASSUME IperfTypes, OpeningInv, LineInv, PhaseInv, HeaderInv, GrantInv, Iperf!Next
    PROVE  GrantInv'
<1>1. /\ iperfStatusQ \in Seq(Statuses) /\ metaQ \in Seq(Metas) /\ iperfDataQ \in Seq(Metas)
      /\ sessionIt \in Nat /\ numConnections \in Nat /\ currentSession \in Nat
  BY DEF IperfTypes
<1>2. Writing \in Seq(Metas) BY GrantIs
<1>3. PICK r \in Seq(Metas) :
         iperfGranted = iperfDataQ \o (Writing \o r) /\ Grants(r, iperfStatusQ, Headers)
  BY GrantIs
<1>4. /\ Headers \in Nat
      /\ \A i \in DOMAIN metaQ :
            metaQ[i].kind = IF Len(iperfStatusQ) + i <= Headers THEN "header" ELSE "package"
  <2>1. Len(iperfStatusQ) \in Nat /\ Len(metaQ) \in Nat BY LengthsAre
  <2>2. Headers \in 0 .. Len(iperfStatusQ) + Len(metaQ) BY DEF HeaderInv, HeadersFirst
  <2> QED BY <2>1, <2>2 DEF HeaderInv, HeadersFirst
<1>5. ASSUME NEW t \in Seq(Metas), iperfGranted' = iperfDataQ' \o (Writing' \o t),
             Grants(t, iperfStatusQ', Headers')
      PROVE  GrantInv'
  BY <1>5, GrantIs
<1>6. CASE Iperf!WaitCon
  <2>1. /\ state = "WAIT_CON" /\ iperfStatusQ' = iperfStatusQ
        /\ iperfGranted' = iperfGranted /\ iperfDataQ' = iperfDataQ
        /\ \/ state' = "WAIT_CON"
           \/ state' = "CONSTRUCT_HEADER" /\ sessionIt' = 0
        /\ numConnections' \in {numConnections, numConnections + 1}
    BY <1>6 DEF Iperf!WaitCon
  <2>2. Writing = <<>> /\ Writing' = <<>> BY <2>1 DEF Writing
  <2>3. Headers = numConnections BY <2>1 DEF Headers
  <2>4. PICK n \in Nat : n = numConnections' BY <1>1, <2>1
  <2>5. Headers' = n
    <3>1. CASE state' = "WAIT_CON" BY <2>4, <3>1 DEF Headers
    <3>2. CASE state' = "CONSTRUCT_HEADER" /\ sessionIt' = 0
      <4>1. Headers' = n - 0 BY <2>4, <3>2 DEF Headers
      <4> QED BY <4>1
    <3> QED BY <2>1, <3>1, <3>2
  <2>6. \A i \in DOMAIN iperfStatusQ : i <= n <=> i <= Headers
    <3>1. PICK a \in Nat, b \in Nat : a = Len(iperfStatusQ) /\ b = Len(metaQ)
      <4>1. Len(iperfStatusQ) \in Nat /\ Len(metaQ) \in Nat BY LengthsAre
      <4> QED BY <4>1
    <3>2. numConnections = a + b BY <2>1, <3>1, AllAreHeaders
    <3>3. n = a + b \/ n = (a + b) + 1 BY <2>1, <2>4, <3>2
    <3>4. DOMAIN iperfStatusQ = 1 .. a BY <3>1, LengthsAre
    <3>5. \A i \in 1 .. a : i <= n /\ i <= a + b BY <3>1, <3>3
    <3> QED BY <2>3, <3>2, <3>4, <3>5
  <2>7. Grants(r, iperfStatusQ, n) BY <1>3, <2>6, GrantsStay
  <2> QED BY <1>3, <1>5, <2>1, <2>2, <2>5, <2>7
<1>7. CASE Iperf!HeaderAnswered
  <2>1. /\ state = "CONSTRUCT_HEADER" /\ iperfStatusQ # <<>> /\ iperfStatusQ' = Tail(iperfStatusQ)
        /\ sessionIt' = sessionIt /\ iperfGranted' = iperfGranted /\ iperfDataQ' = iperfDataQ
    BY <1>7 DEF Iperf!HeaderAnswered
  <2>2. Head(iperfStatusQ).error = 0 /\ Headers \in Nat \ {0} BY <1>7, HeaderIsGranted
  <2>3. /\ state' = "INIT_RUN" /\ numConnections' = numConnections
        /\ currentSession' = Head(iperfStatusQ).session
    BY <1>7, <2>2 DEF Iperf!HeaderAnswered
  <2>4. Headers = numConnections - sessionIt /\ Headers' = numConnections - sessionIt - 1
    BY <2>1, <2>3 DEF Headers
  <2>5. Headers' = IF Headers = 0 THEN 0 ELSE Headers - 1 BY <2>2, <2>4
  <2>6. /\ r # <<>> /\ Head(r) = GrantOf(iperfStatusQ, Headers, 1)
        /\ Grants(Tail(r), Tail(iperfStatusQ), IF Headers = 0 THEN 0 ELSE Headers - 1)
    BY <1>1, <1>3, <1>4, <2>1, <2>2, GrantPopped
  <2>7. Writing = <<>> BY <2>1 DEF Writing
  <2>8. Writing' = <<Head(r)>>
    <3>1. Writing' = <<[session |-> Head(iperfStatusQ).session, kind |-> "header"]>>
      BY <2>3 DEF Writing
    <3>2. Head(iperfStatusQ) = iperfStatusQ[1]  BY <1>1, <2>1
    <3>3. 1 <= Headers BY <2>2
    <3> QED BY <2>6, <3>1, <3>2, <3>3 DEF GrantOf
  <2>9. iperfDataQ \o (<<>> \o r) = iperfDataQ \o (<<Head(r)>> \o Tail(r))
    BY <1>1, <1>2, <2>6, HeadTailProperties, GrantsRegroup
  <2>10. Tail(r) \in Seq(Metas) BY <2>6, HeadTailProperties
  <2> QED BY <1>3, <1>5, <2>1, <2>5, <2>6, <2>7, <2>8, <2>9, <2>10
<1>8. CASE Iperf!InitRun
  <2>1. /\ state = "INIT_RUN" /\ state' = "CONSTRUCT_HEADER" /\ iperfStatusQ' = iperfStatusQ
        /\ iperfGranted' = iperfGranted
        /\ iperfDataQ' = Append(iperfDataQ, Iperf!Meta(currentSession, "header"))
        /\ sessionIt' = sessionIt + 1 /\ numConnections' = numConnections
    BY <1>8 DEF Iperf!InitRun
  <2>2. Headers = numConnections - sessionIt - 1 /\ Headers' = numConnections - (sessionIt + 1)
    BY <2>1 DEF Headers
  <2>3. Headers' = Headers BY <1>1, <2>2
  <2>4. PICK x \in Metas : x = Iperf!Meta(currentSession, "header") BY <1>1, MetaIs
  <2>5. Writing = <<x>> /\ Writing' = <<>> BY <2>1, <2>4 DEF Writing, Iperf!Meta
  <2>6. iperfDataQ \o (<<x>> \o r) = Append(iperfDataQ, x) \o (<<>> \o r) BY <1>1, <1>2, GrantsRegroup
  <2> QED BY <1>3, <1>5, <2>1, <2>3, <2>4, <2>5, <2>6
<1>9. CASE Iperf!CheckReq
  <2>1. /\ state = "CHECK_REQ" /\ iperfStatusQ # <<>> /\ iperfStatusQ' = Tail(iperfStatusQ)
        /\ state' = IF Head(iperfStatusQ).error = 0 THEN "START_PKG" ELSE state
        /\ currentSession' = IF Head(iperfStatusQ).error = 0 THEN Head(iperfStatusQ).session ELSE currentSession
        /\ iperfGranted' = iperfGranted /\ iperfDataQ' = iperfDataQ
    BY <1>9 DEF Iperf!CheckReq
  <2>2. Headers = 0 /\ Headers' = 0 BY <2>1 DEF Headers
  <2>3. Writing = <<>> BY <2>1 DEF Writing
  <2>4. CASE Head(iperfStatusQ).error = 0
    <3>1. /\ r # <<>> /\ Head(r) = GrantOf(iperfStatusQ, Headers, 1)
          /\ Grants(Tail(r), Tail(iperfStatusQ), IF Headers = 0 THEN 0 ELSE Headers - 1)
      BY <1>1, <1>3, <1>4, <2>1, <2>4, GrantPopped
    <3>2. Writing' = <<Head(r)>>
      <4>1. Writing' = <<[session |-> Head(iperfStatusQ).session, kind |-> "package"]>>
        BY <2>1, <2>4 DEF Writing
      <4>2. Head(iperfStatusQ) = iperfStatusQ[1] BY <1>1, <2>1
      <4>3. ~(1 <= Headers) BY <2>2
      <4> QED BY <3>1, <4>1, <4>2, <4>3 DEF GrantOf
    <3>3. iperfDataQ \o (<<>> \o r) = iperfDataQ \o (<<Head(r)>> \o Tail(r))
      BY <1>1, <1>2, <3>1, HeadTailProperties, GrantsRegroup
    <3>4. Tail(r) \in Seq(Metas) BY <3>1, HeadTailProperties
    <3> QED BY <1>3, <1>5, <2>1, <2>2, <2>3, <3>1, <3>2, <3>3, <3>4
  <2>5. CASE Head(iperfStatusQ).error # 0
    <3>1. Grants(r, Tail(iperfStatusQ), IF Headers = 0 THEN 0 ELSE Headers - 1)
      BY <1>1, <1>3, <1>4, <2>1, <2>5, GrantPopped
    <3>2. Writing' = <<>> BY <2>1, <2>5 DEF Writing
    <3> QED BY <1>3, <1>5, <2>1, <2>2, <2>3, <3>1, <3>2
  <2> QED BY <2>4, <2>5
<1>10. CASE Iperf!WritePkg
  <2>1. /\ state = "WRITE_PKG" /\ iperfStatusQ' = iperfStatusQ /\ iperfGranted' = iperfGranted
        /\ currentSession' = currentSession
        /\ \/ /\ state' = "CHECK_TIME"
              /\ iperfDataQ' = Append(iperfDataQ, Iperf!Meta(currentSession, "package"))
           \/ state' = "WRITE_PKG" /\ iperfDataQ' = iperfDataQ
    BY <1>10 DEF Iperf!WritePkg
  <2>2. Headers = 0 /\ Headers' = 0 BY <2>1 DEF Headers
  <2>3. PICK x \in Metas : x = Iperf!Meta(currentSession, "package") BY <1>1, MetaIs
  <2>4. Writing = <<x>> BY <2>1, <2>3 DEF Writing, Iperf!Meta
  <2>5. CASE state' = "WRITE_PKG" /\ iperfDataQ' = iperfDataQ
    <3>1. Writing' = Writing BY <2>1, <2>5 DEF Writing
    <3> QED BY <1>3, <1>5, <2>1, <2>2, <2>5, <3>1
  <2>6. CASE state' = "CHECK_TIME" /\ iperfDataQ' = Append(iperfDataQ, x)
    <3>1. Writing' = <<>> BY <2>6 DEF Writing
    <3>2. iperfDataQ \o (<<x>> \o r) = Append(iperfDataQ, x) \o (<<>> \o r) BY <1>1, <1>2, GrantsRegroup
    <3> QED BY <1>3, <1>5, <2>1, <2>2, <2>4, <2>6, <3>1, <3>2
  <2> QED BY <2>1, <2>3, <2>5, <2>6
<1>11. CASE Iperf!ToeAnswers
  <2>1. /\ metaQ # <<>> /\ state' = state /\ sessionIt' = sessionIt /\ numConnections' = numConnections
        /\ currentSession' = currentSession /\ iperfDataQ' = iperfDataQ
    BY <1>11 DEF Iperf!ToeAnswers, Iperf!fsmVars
  <2>2. PICK error \in {0, 2} :
           /\ iperfStatusQ' = Append(iperfStatusQ, [session |-> Head(metaQ).session, error |-> error])
           /\ iperfGranted' = IF error = 0 THEN Append(iperfGranted, Head(metaQ)) ELSE iperfGranted
    BY <1>11 DEF Iperf!ToeAnswers
  <2>3. PICK x \in Metas : x = Head(metaQ) BY <1>1, <2>1, HeadTailProperties
  <2>4. PICK e \in Statuses : e = [session |-> x.session, error |-> error]
    BY <2>3 DEF Metas, Statuses
  <2>5. e.error = error /\ e.session = x.session BY <2>4
  <2>6. Headers' = Headers /\ Writing' = Writing BY <2>1 DEF Headers, Writing
  <2>7. CASE error = 0
    <3>1. Grants(Append(r, GrantOf(Append(iperfStatusQ, e), Headers, Len(iperfStatusQ) + 1)),
                 Append(iperfStatusQ, e), Headers)
      BY <1>1, <1>3, <1>4, <2>5, <2>7, GrantedOnTop
    <3>2. GrantOf(Append(iperfStatusQ, e), Headers, Len(iperfStatusQ) + 1) = x
      <4>1. PICK n \in Nat : n = Len(iperfStatusQ) BY <1>1
      <4>2. Append(iperfStatusQ, e)[n + 1] = e BY <1>1, <4>1, AppendIs
      <4>3. PICK k \in Nat : Len(metaQ) = k + 1 BY <1>1, <2>1, NotEmpty
      <4>4. Head(metaQ) = metaQ[1] /\ 1 \in DOMAIN metaQ BY <1>1, <4>3, TailIs
      <4>5. x.kind = IF n + 1 <= Headers THEN "header" ELSE "package" BY <1>4, <2>3, <4>1, <4>4
      <4>6. x = [session |-> x.session, kind |-> x.kind] BY DEF Metas
      <4> QED BY <2>5, <4>1, <4>2, <4>5, <4>6 DEF GrantOf
    <3>3. Append(iperfDataQ \o (Writing \o r), x) = iperfDataQ \o (Writing \o Append(r, x))
      <4>1. PICK d \in Seq(Metas), w \in Seq(Metas) : d = iperfDataQ /\ w = Writing BY <1>1, <1>2
      <4>2. Append(d \o (w \o r), x) = d \o (w \o Append(r, x)) BY GrantsRegroup
      <4> QED BY <4>1, <4>2
    <3>4. Append(r, x) \in Seq(Metas) BY AppendProperties
    <3> QED BY <1>3, <1>5, <2>1, <2>2, <2>3, <2>4, <2>6, <2>7, <3>1, <3>2, <3>3, <3>4
  <2>8. CASE error = 2
    <3>1. Grants(r, Append(iperfStatusQ, e), Headers) BY <1>1, <1>3, <1>4, <2>5, <2>8, GrantedOnTop
    <3>2. iperfStatusQ' = Append(iperfStatusQ, e) BY <2>2, <2>3, <2>4
    <3>3. iperfGranted' = iperfGranted BY <2>2, <2>8
    <3>4. iperfGranted' = iperfDataQ' \o (Writing' \o r) BY <1>3, <2>1, <2>6, <3>3
    <3>5. Grants(r, iperfStatusQ', Headers') BY <2>6, <3>1, <3>2
    <3> QED BY <1>5, <3>4, <3>5
  <2> QED BY <2>7, <2>8
<1>12. CASE Iperf!ToeTakes
  <2>1. /\ iperfDataQ # <<>> /\ iperfGranted' = Tail(iperfGranted) /\ iperfDataQ' = Tail(iperfDataQ)
        /\ state' = state /\ sessionIt' = sessionIt /\ numConnections' = numConnections
        /\ currentSession' = currentSession /\ iperfStatusQ' = iperfStatusQ
    BY <1>12 DEF Iperf!ToeTakes, Iperf!fsmVars
  <2>2. Headers' = Headers /\ Writing' = Writing BY <2>1 DEF Headers, Writing
  <2>3. PICK x \in Metas : x = Head(iperfDataQ) BY <1>1, <2>1, HeadTailProperties
  <2>4. Tail(iperfDataQ \o (Writing \o r)) = Tail(iperfDataQ) \o (Writing \o r)
    BY <1>1, <1>2, <2>1, <2>3, GrantsRegroup
  <2> QED BY <1>3, <1>5, <2>1, <2>2, <2>4
<1>13. CASE \/ Iperf!Idle \/ Iperf!InitCon \/ Iperf!HeadersDone \/ Iperf!StartPkg \/ Iperf!CheckTime
            \/ Iperf!Waits \/ Iperf!TimeIsOver \/ Iperf!ToeOpens
  <2>1. iperfStatusQ' = iperfStatusQ /\ iperfGranted' = iperfGranted /\ iperfDataQ' = iperfDataQ
    BY <1>13 DEF Iperf!Idle, Iperf!InitCon, Iperf!HeadersDone, Iperf!StartPkg, Iperf!CheckTime, Iperf!Waits,
         Iperf!TimeIsOver, Iperf!ToeOpens, Iperf!toeVars
  <2>2. Headers' = Headers /\ Writing' = Writing
    <3>1. CASE Iperf!Idle
      <4>1. state = "IDLE" /\ state' = "INIT_CON" BY <3>1 DEF Iperf!Idle
      <4> QED BY <4>1 DEF Headers, Writing
    <3>2. CASE Iperf!InitCon
      <4>1. state = "INIT_CON" /\ numConnections' = numConnections /\ (state' = "WAIT_CON" \/ state' = state)
        BY <3>2 DEF Iperf!InitCon
      <4> QED BY <4>1 DEF PhaseInv, Headers, Writing
    <3>3. CASE Iperf!HeadersDone
      <4>1. state = "CONSTRUCT_HEADER" /\ sessionIt = numConnections /\ state' = "CHECK_REQ"
        BY <3>3 DEF Iperf!HeadersDone
      <4>2. Headers = numConnections - sessionIt /\ Headers' = 0 BY <4>1 DEF Headers
      <4>3. Headers = 0 BY <1>1, <4>1, <4>2
      <4> QED BY <4>1, <4>2, <4>3 DEF Writing
    <3>4. CASE Iperf!StartPkg
      <4>1. state = "START_PKG" /\ state' = "WRITE_PKG" /\ currentSession' = currentSession
        BY <3>4 DEF Iperf!StartPkg
      <4> QED BY <4>1 DEF Headers, Writing
    <3>5. CASE Iperf!CheckTime
      <4>1. state = "CHECK_TIME" /\ (state' = "IDLE" \/ state' = "CHECK_REQ" \/ state' = state)
        BY <3>5 DEF Iperf!CheckTime
      <4> QED BY <4>1 DEF Headers, Writing
    <3>6. CASE Iperf!Waits \/ Iperf!TimeIsOver \/ Iperf!ToeOpens
      <4>1. /\ state' = state /\ sessionIt' = sessionIt /\ numConnections' = numConnections
            /\ currentSession' = currentSession
        BY <3>6 DEF Iperf!Waits, Iperf!TimeIsOver, Iperf!ToeOpens, Iperf!fsmVars
      <4> QED BY <4>1 DEF Headers, Writing
    <3> QED BY <1>13, <3>1, <3>2, <3>3, <3>4, <3>5, <3>6
  <2> QED BY <1>3, <1>5, <2>1, <2>2
<1> QED BY <1>6, <1>7, <1>8, <1>9, <1>10, <1>11, <1>12, <1>13
        DEF Iperf!Next, Iperf!Client, Iperf!Toe

-----------------------------------------------------------------------------
(* The invariant of the iperf client                                       *)

LEMMA IperfStart == Iperf!Init => IperfInv
<1> SUFFICES ASSUME Iperf!Init PROVE IperfInv  OBVIOUS
<1>1. /\ state = "IDLE" /\ sessionIt = 0 /\ closeIt = 0 /\ numConnections = 0 /\ currentSession = 0
      /\ timeOver = FALSE /\ stopSend = FALSE /\ stopSignal = FALSE
      /\ openQ = <<>> /\ openStatusQ = <<>> /\ metaQ = <<>> /\ iperfStatusQ = <<>>
      /\ iperfDataQ = <<>> /\ iperfGranted = <<>> /\ closed = <<>> /\ opened = {}
  BY DEF Iperf!Init
<1>2. IperfTypes
  <2>1. sessionIt \in Nat /\ closeIt \in Nat /\ numConnections \in Nat /\ currentSession \in Nat BY <1>1
  <2>2. timeOver \in BOOLEAN /\ stopSend \in BOOLEAN /\ stopSignal \in BOOLEAN BY <1>1
  <2>3. \A S : <<>> \in Seq(S)  OBVIOUS
  <2>4. /\ openQ \in Seq(Nat) /\ openStatusQ \in Seq(Openings)
        /\ metaQ \in Seq(Metas) /\ iperfStatusQ \in Seq(Statuses)
        /\ iperfDataQ \in Seq(Metas) /\ iperfGranted \in Seq(Metas)
        /\ closed \in Seq(Nat)
    BY <1>1, <2>3
  <2> QED BY <1>1, <2>1, <2>2, <2>4 DEF IperfTypes
<1>3. OpeningInv
  <2>1. Answered = IperfConns /\ Asked = IperfConns BY <1>1 DEF Answered, Asked
  <2>2. DOMAIN openQ = {} /\ DOMAIN openStatusQ = {} /\ Len(openQ) = 0 /\ Len(openStatusQ) = 0 BY <1>1
  <2>3. Answered + Len(openStatusQ) + Len(openQ) = Asked BY <2>1, <2>2, LengthsAre, <1>2
  <2> QED BY <1>1, <2>2, <2>3 DEF OpeningInv
<1>4. LineInv
  <2>1. SessionsOf(<<>>) = <<>> BY DEF SessionsOf
  <2>2. Held = <<>> BY <1>1 DEF Held, Holds
  <2>3. Line = <<>> \o (<<>> \o (<<>> \o <<>>)) BY <1>1, <1>2, <2>1, <2>2, LineOf
  <2>4. <<>> \o <<>> = <<>>  OBVIOUS
  <2>5. Line = <<>> BY <2>3, <2>4
  <2>6. JustOpened = {} BY <1>1 DEF JustOpened
  <2> QED BY <1>1, <2>5, <2>6, NoneIs DEF LineInv
<1>5. Headers = 0 /\ Writing = <<>> BY <1>1 DEF Headers, Writing
<1>6. HeaderInv
  <2>1. DOMAIN <<>> = {} /\ Len(<<>>) = 0  OBVIOUS
  <2>2. HeadersFirst(0, <<>>, <<>>) BY <2>1 DEF HeadersFirst
  <2> QED BY <1>1, <1>5, <2>2 DEF HeaderInv
<1>7. PhaseInv
  <2>1. Len(<<>>) = 0  OBVIOUS
  <2> QED BY <1>1, <2>1 DEF PhaseInv
<1>8. GrantInv
  <2>1. Grants(<<>>, <<>>, 0) BY NothingGranted
  <2>2. <<>> \o (<<>> \o <<>>) = <<>> /\ <<>> \in Seq(Metas)  OBVIOUS
  <2> QED BY <1>1, <1>5, <2>1, <2>2 DEF GrantInv
<1> QED BY <1>2, <1>3, <1>4, <1>6, <1>7, <1>8 DEF IperfInv

LEMMA IperfStep == IperfInv /\ Iperf!Next => IperfInv'
<1> SUFFICES ASSUME IperfInv, Iperf!Next PROVE IperfInv'  OBVIOUS
<1>1. IperfTypes /\ OpeningInv /\ LineInv /\ HeaderInv /\ PhaseInv /\ GrantInv BY DEF IperfInv
<1>2. IperfTypes' BY <1>1, IperfTypesKept
<1>3. OpeningInv' /\ LineInv'
  <2>1. CASE Iperf!Idle BY <1>1, <2>1, IdleOpens, IdleLine
  <2>2. CASE Iperf!InitCon BY <1>1, <2>2, InitConOpens, InitConLine
  <2>3. CASE Iperf!WaitCon BY <1>1, <2>3, WaitConOpens, WaitConLine
  <2>4. CASE Iperf!ToeOpens BY <1>1, <2>4, ToeOpensOpens, ToeOpensLine
  <2>5. CASE Iperf!HeaderAnswered BY <1>1, <2>5, HeaderAnsweredOrdinary, OrdinaryKeeps
  <2>6. CASE Iperf!InitRun BY <1>1, <2>6, InitRunOrdinary, OrdinaryKeeps
  <2>7. CASE Iperf!CheckReq BY <1>1, <2>7, CheckReqOrdinary, OrdinaryKeeps
  <2>8. CASE Iperf!StartPkg BY <1>1, <2>8, StartPkgOrdinary, OrdinaryKeeps
  <2>9. CASE Iperf!WritePkg BY <1>1, <2>9, WritePkgOrdinary, OrdinaryKeeps
  <2>10. CASE Iperf!CheckTime BY <1>1, <2>10, CheckTimeOrdinary, OrdinaryKeeps
  <2>11. CASE Iperf!ToeAnswers BY <1>1, <2>11, ToeAnswersOrdinary, OrdinaryKeeps
  <2>12. CASE Iperf!HeadersDone \/ Iperf!Waits \/ Iperf!TimeIsOver \/ Iperf!ToeTakes
    BY <1>1, <2>12, OthersOrdinary, OrdinaryKeeps
  <2> QED BY <2>1, <2>2, <2>3, <2>4, <2>5, <2>6, <2>7, <2>8, <2>9, <2>10, <2>11, <2>12
          DEF Iperf!Next, Iperf!Client, Iperf!Toe
<1>4. PhaseInv' BY <1>1, PhaseKept
<1>5. HeaderInv' BY <1>1, HeadersKept
<1>6. GrantInv' BY <1>1, GrantsKept
<1> QED BY <1>2, <1>3, <1>4, <1>5, <1>6 DEF IperfInv

LEMMA IperfRests == IperfInv /\ UNCHANGED iperfVars => IperfInv'
<1> SUFFICES ASSUME IperfInv, UNCHANGED iperfVars PROVE IperfInv'  OBVIOUS
<1>1. IperfTypes /\ OpeningInv /\ LineInv /\ HeaderInv /\ PhaseInv /\ GrantInv BY DEF IperfInv
<1>2. /\ state' = state /\ sessionIt' = sessionIt /\ closeIt' = closeIt
      /\ numConnections' = numConnections /\ currentSession' = currentSession
      /\ timeOver' = timeOver /\ stopSend' = stopSend /\ stopSignal' = stopSignal
      /\ openQ' = openQ /\ openStatusQ' = openStatusQ /\ metaQ' = metaQ /\ iperfStatusQ' = iperfStatusQ
      /\ iperfDataQ' = iperfDataQ /\ iperfGranted' = iperfGranted /\ closed' = closed
  BY DEF iperfVars
<1>3. IperfTypes' BY <1>1, <1>2 DEF IperfTypes
<1>4. OpeningInv' /\ LineInv' BY <1>1, OthersOrdinary, OrdinaryKeeps
<1>5. Headers' = Headers /\ Writing' = Writing BY <1>2 DEF Headers, Writing
<1>6. HeaderInv' BY <1>1, <1>2, <1>5 DEF HeaderInv, HeadersFirst
<1>7. PhaseInv' BY <1>1, <1>2 DEF PhaseInv
<1>8. GrantInv' BY <1>1, <1>2, <1>5, GrantIs
<1> QED BY <1>3, <1>4, <1>6, <1>7, <1>8 DEF IperfInv

(* A sequence in which each occurs once has as many elements as places.    *)
LEMMA OnceEachCounts ==
    ASSUME NEW s \in Seq(Nat), OnceEach(s)
    PROVE  Cardinality(ToSet(s)) = Len(s)
<1>1. PICK n \in Nat : n = Len(s)  OBVIOUS
<1>2. DOMAIN s = 1 .. n BY <1>1
<1>3. s \in Bijection(1 .. n, ToSet(s))
  <2>1. \A i \in 1 .. n : s[i] \in ToSet(s) BY <1>2 DEF ToSet
  <2>2. s \in [1 .. n -> ToSet(s)] BY <1>2, <2>1
  <2>3. \A i, j \in 1 .. n : s[i] = s[j] => i = j BY <1>2 DEF OnceEach
  <2>4. \A x \in ToSet(s) : \E i \in 1 .. n : s[i] = x BY <1>2 DEF ToSet
  <2> QED BY <2>2, <2>3, <2>4, Fun_IsBij
<1>4. ExistsBijection(1 .. n, ToSet(s)) BY <1>3 DEF ExistsBijection
<1> QED BY <1>1, <1>4, FS_CountingElements

LEMMA NothingIsLeftOver == IperfInv => Iperf!NothingIsLeft
<1> SUFFICES ASSUME IperfInv PROVE Iperf!NothingIsLeft  OBVIOUS
<1>1. IperfTypes /\ OpeningInv /\ LineInv /\ HeaderInv /\ PhaseInv /\ GrantInv BY DEF IperfInv
<1>2. PICK d \in Seq(Metas), w \in Seq(Metas) : d = iperfDataQ /\ w = Writing BY <1>1, GrantIs DEF IperfTypes
<1>3. PICK r \in Seq(Metas) : iperfGranted = d \o (w \o r) /\ Grants(r, iperfStatusQ, Headers)
  BY <1>1, <1>2, GrantIs
<1>4. IsPrefix(iperfDataQ, iperfGranted)
  <2>1. PICK u \in Seq(Metas) : u = w \o r
    <3>1. w \o r \in Seq(Metas) BY ConcatIs
    <3> QED BY <3>1
  <2>2. PICK n \in Nat, k \in Nat : n = Len(d) /\ k = Len(u)  OBVIOUS
  <2>3. /\ d \o u \in Seq(Metas) /\ Len(d \o u) = n + k
        /\ \A i \in 1 .. n : (d \o u)[i] = d[i]
        /\ \A i \in 1 .. k : (d \o u)[n + i] = u[i]
    BY <2>2, ConcatAt
  <2>4. Len(d) <= Len(d \o u) BY <2>2, <2>3
  <2>5. d = SubSeq(d \o u, 1, Len(d))
    <3>1. PICK v \in Seq(Metas) : v = d \o u BY <2>3
    <3>2. SubSeq(v, 1, n) = [i \in 1 .. n |-> v[i]] BY <2>2, <2>3, <3>1
    <3>3. d = [i \in 1 .. n |-> d[i]] BY <2>2
    <3> QED BY <2>2, <2>3, <3>1, <3>2, <3>3
  <2> QED BY <1>2, <1>3, <2>1, <2>4, <2>5 DEF IsPrefix
<1>5. ASSUME state = "IDLE"
      PROVE  /\ ToSet(closed) = opened /\ Len(closed) = Cardinality(opened)
             /\ metaQ = <<>> /\ iperfStatusQ = <<>> /\ openStatusQ = <<>>
             /\ iperfGranted = iperfDataQ
  <2>1. /\ iperfStatusQ = <<>> /\ metaQ = <<>> /\ openStatusQ = <<>>
        /\ Line = closed /\ JustOpened = {}
    BY <1>1, <1>5, IdleIsEmpty
  <2>2. ToSet(closed) = opened BY <1>1, <2>1 DEF LineInv
  <2>3. Cardinality(ToSet(closed)) = Len(closed) BY <1>1, <2>1, OnceEachCounts DEF LineInv, IperfTypes
  <2>4. r = <<>> BY <1>3, <2>1, NothingGranted
  <2>5. w = <<>> BY <1>2, <1>5 DEF Writing
  <2>6. <<>> \o <<>> = <<>>  OBVIOUS
  <2>7. d \o <<>> = d BY ConcatEmptySeq
  <2> QED BY <1>2, <1>3, <2>1, <2>2, <2>3, <2>4, <2>5, <2>6, <2>7
<1>6. Iperf!IsPrefix(iperfDataQ, iperfGranted) = IsPrefix(iperfDataQ, iperfGranted)
  BY DEF Iperf!IsPrefix, IsPrefix
<1>7. Iperf!ToSet(closed) = ToSet(closed) BY DEF Iperf!ToSet, ToSet
<1>8. Iperf!Cardinality(opened) = Cardinality(opened) BY DEF Iperf!Cardinality, Cardinality
<1> QED BY <1>4, <1>5, <1>6, <1>7, <1>8 DEF Iperf!NothingIsLeft

\* The iperf client writes what was granted, and leaves nothing behind.
THEOREM NothingIsLeftBehind == ClientsSpec => []NothingIsLeft
<1>1. ClientsInit => IperfInv BY IperfStart DEF ClientsInit
<1>2. IperfInv /\ [ClientsNext]_<<iperfVars, dhcpVars>> => IperfInv'
  BY IperfStep, IperfRests DEF ClientsNext
<1>3. IperfInv => NothingIsLeft BY NothingIsLeftOver DEF NothingIsLeft
<1> QED BY <1>1, <1>2, <1>3, PTL DEF ClientsSpec

=============================================================================
