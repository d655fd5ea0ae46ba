----------------------------- MODULE EventBook -----------------------------
(***************************************************************************)
(* What an inbox of Asaas's events promises whoever relies on it: an event *)
(* is written once, lies on one worker's desk at a time until it is done,  *)
(* and once done and forgotten is never written again.  EventInbox         *)
(* implements it with rows, leases and tries.                              *)
(***************************************************************************)
EXTENDS FiniteSets

CONSTANTS Workers, Events

VARIABLES
    standing,    \* where each event is
    desk         \* desk[w]: the events w took and has neither settled nor put back

vars == <<standing, desk>>

Standings == {"UNKNOWN", "WAITING", "DONE", "FORGOTTEN"}

TypeOK ==
    /\ standing \in [Events -> Standings]
    /\ desk \in [Workers -> SUBSET Events]

Init ==
    /\ standing = [e \in Events |-> "UNKNOWN"]
    /\ desk = [w \in Workers |-> {}]

(***************************************************************************)
(* An event nobody has to act on is done as it is written.                 *)
(***************************************************************************)
Write(e) ==
    /\ standing[e] = "UNKNOWN"
    /\ \E s \in {"WAITING", "DONE"} : standing' = [standing EXCEPT ![e] = s]
    /\ UNCHANGED desk

Take(w, S) ==
    /\ \A e \in S : standing[e] = "WAITING"
    /\ \A e \in S, v \in Workers : e \notin desk[v]
    /\ desk' = [desk EXCEPT ![w] = @ \cup S]
    /\ UNCHANGED standing

Settle(w, e) ==
    /\ e \in desk[w]
    /\ standing' = [standing EXCEPT ![e] = "DONE"]
    /\ desk' = [desk EXCEPT ![w] = @ \ {e}]

PutBack(w, S) ==
    /\ S \subseteq desk[w]
    /\ desk' = [desk EXCEPT ![w] = @ \ S]
    /\ UNCHANGED standing

Forget(S) ==
    /\ \A e \in S : standing[e] = "DONE"
    /\ standing' = [e \in Events |-> IF e \in S THEN "FORGOTTEN" ELSE standing[e]]
    /\ UNCHANGED desk

Next ==
    \/ \E e \in Events : Write(e)
    \/ \E w \in Workers, S \in SUBSET Events : Take(w, S) \/ PutBack(w, S)
    \/ \E w \in Workers, e \in Events : Settle(w, e)
    \/ \E S \in SUBSET Events : Forget(S)

Spec == Init /\ [][Next]_vars

(***************************************************************************)
(* No event waits for ever.                                                *)
(***************************************************************************)
Settles == \A e \in Events : standing[e] = "WAITING" ~> standing[e] = "DONE"
=============================================================================
