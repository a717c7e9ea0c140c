------------------------------- MODULE MCTables -------------------------------
(***************************************************************************)
(* The two tables every segment passes, each on its own small instance.    *)
(* Nothing is shared: turn, chosen once, says which of the two a behaviour *)
(* is about, and the other keeps its initial state.                        *)
(*                                                                         *)
(* StateTable has two sessions, so that a client may wait for one while    *)
(* the other works on another, and the states tx_app_if tells apart: one   *)
(* it closes, one it leaves alone, and CLOSED.                             *)
(***************************************************************************)
EXTENDS StateTable, TLC

CONSTANTS MaxSessions, Tuples, None, InsertMayFail

\* What SessionLookup assumes of them.
ASSUME LookupAssumption ==
    MaxSessions \in Nat \ {0} /\ None \notin Tuples \cup Nat /\ InsertMayFail \in BOOLEAN

VARIABLES
    counter, freeList, finFifo, fsm, query, lup, insReq, delReq, updReq, updRsp,
    insRsp, revIns, cam, dropped, rev, valid, used, answer, revOut, owner,
    turn        \* the table this behaviour is about

lookupVars == <<counter, freeList, finFifo, fsm, query, lup, insReq, delReq, updReq,
                updRsp, insRsp, revIns, cam, dropped, rev, valid, used, answer, revOut, owner>>

Lookup == INSTANCE SessionLookup

MCStates == {"CLOSED", "SYN_SENT", "FIN_WAIT_1"}
MCSymmetry == Permutations(Sessions) \union Permutations(Tuples)

MCInit ==
    /\ Init
    /\ Lookup!Init
    /\ turn \in {"state", "lookup"}

MCNext ==
    \/ turn = "state" /\ Next /\ UNCHANGED <<lookupVars, turn>>
    \/ turn = "lookup" /\ Lookup!Next /\ UNCHANGED <<vars, turn>>

MCSpec == MCInit /\ [][MCNext]_<<vars, lookupVars, turn>>

EveryIdInOnePlace == Lookup!TypeOK /\ Lookup!EveryIdInOnePlace /\ Lookup!UsedIsExact
CamIsExact == Lookup!CamIsExact
LiveSessionsAreFound == Lookup!LiveSessionsAreFound

(* What the table answers is true at that moment, either way round.        *)
LookupsAreCurrent == Lookup!LookupsAreCurrent

=============================================================================
