------------------------------ MODULE EchoService ------------------------------
(***************************************************************************)
(* What the echo kernel promises its clients, whatever is inside: a client *)
(* sends words whenever it likes, and the words come back one at a time,   *)
(* to the client that sent them and in the order it sent them.             *)
(***************************************************************************)
EXTENDS Integers, Sequences, SequencesExt

CONSTANTS Clients       \* sessions, one per client

VARIABLES
    sent,       \* words each client has sent
    echoed      \* words the toe has taken for each client

ServiceInit == sent = [c \in Clients |-> <<>>] /\ echoed = sent

ClientsSend == (\A c \in Clients : IsPrefix(sent[c], sent'[c])) /\ UNCHANGED echoed

EchoNextWord(c) ==
    /\ Len(echoed[c]) < Len(sent[c])
    /\ echoed' = [echoed EXCEPT ![c] = Append(@, sent[c][Len(@) + 1])]
    /\ UNCHANGED sent

ServiceNext == ClientsSend \/ \E c \in Clients : EchoNextWord(c)

Service == ServiceInit /\ [][ServiceNext]_<<sent, echoed>>

(* What goes back to a client is what it sent, in order and nothing else.  *)
EchoIsOwn == \A c \in Clients : IsPrefix(echoed[c], sent[c])

=============================================================================
