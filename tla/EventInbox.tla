----------------------------- MODULE EventInbox -----------------------------
(***************************************************************************)
(* The inbox of the events Asaas delivers, one table for the shops'        *)
(* webhooks (AsaasEvents) and one, the same over again, for bee-link's own *)
(* (BillingEvents): `Billing' says which.  A delivery writes a row and is  *)
(* answered; a sweep of any API process claims rows that are due, works    *)
(* them one after the other, and writes what came of each.                 *)
(*                                                                         *)
(* The times a row keeps are the time left to them, or gone since them,    *)
(* and stop counting where nothing tells more apart: no clock, no horizon. *)
(***************************************************************************)
EXTENDS Integers, FiniteSets

CONSTANTS
    Processes,    \* the API's processes
    Events,       \* events of Asaas
    NoEvent,
    Ours,         \* the events about an order or a page of bee-link's, or a shop's key
    Billing,      \* bee-link's own account, not the shops'
    Late,         \* whether a sweep may outlast the lease of what it claimed
    Batch,        \* ..._EVENT_BATCH
    AttemptsMax,  \* ..._EVENT_ATTEMPTS_MAX
    Lease,        \* ..._EVENT_LEASE_MS
    ParkedFor,    \* ASAAS_EVENT_PARKED_MS
    WaitMax,      \* ASAAS_EVENT_WAIT_MAX_MS
    Keep,         \* ..._EVENT_KEEP_MS
    Hold,         \* how long Asaas holds an event it could not deliver
    NamedWaits,   \* the waits Asaas may name when it throttles
    MaxStops      \* bound: crashes and failures of the database

VARIABLES
    sent,         \* sent[e]: the time since e happened at Asaas; Unsent before
    rows,         \* the table
    sweep,        \* sweep[p]: the dispatcher of process p
    owed,         \* history: what was due when p was last asked to work, not claimed since
    spent,        \* history: the claims of e's row that ended and were not given back
    stops         \* crashes and failures so far

vars == <<sent, rows, sweep, owed, spent, stops>>

ASSUME ProcessesAssumption == NoEvent \notin Events
ASSUME SwitchesAssumption == Billing \in BOOLEAN /\ Late \in BOOLEAN
ASSUME CountsAssumption == Batch \in Nat \ {0} /\ AttemptsMax \in Nat \ {0} /\ MaxStops \in Nat
ASSUME TimesAssumption ==
    /\ Lease \in Nat \ {0} /\ ParkedFor \in Nat \ {0} /\ WaitMax \in Nat
    /\ Hold \in Nat /\ Keep \in Nat /\ Hold <= Keep
ASSUME NamedWaitsAssumption == NamedWaits \subseteq Nat

Unsent == -1
NoWait == -1
Done == {"IGNORED", "APPLIED", "GIVEN_UP"}

(***************************************************************************)
(* PRUNED is a row that is no longer there, told apart from NONE, one that *)
(* never was, for the properties alone.                                    *)
(***************************************************************************)
Row == [outcome : {"NONE", "WAITING", "PRUNED"} \cup Done, attempts : Nat,
        due : Nat, age : Nat, doneFor : Nat]
blank(outcome) == [outcome |-> outcome, attempts |-> 0, due |-> 0, age |-> 0, doneFor |-> 0]

(***************************************************************************)
(* held[e] is the try p claimed e for, 0 when e is not in its batch; `at'  *)
(* the event being worked; `wait' what Asaas asked bee-link to wait.       *)
(***************************************************************************)
Sweep == [phase : {"IDLE", "CLAIMING", "WORKING"}, again : BOOLEAN, full : BOOLEAN,
          held : [Events -> Nat], at : Events \cup {NoEvent}, wait : Nat \cup {NoWait}]
none == [e \in Events |-> 0]
idle == [phase |-> "IDLE", again |-> FALSE, full |-> FALSE,
         held |-> none, at |-> NoEvent, wait |-> NoWait]

TypeOK ==
    /\ sent \in [Events -> Nat \cup {Unsent}]
    /\ rows \in [Events -> Row]
    /\ sweep \in [Processes -> Sweep]
    /\ owed \in [Processes -> SUBSET Events]
    /\ spent \in [Events -> Nat]
    /\ stops \in Nat

there(e) == rows[e].outcome \notin {"NONE", "PRUNED"}
Due == {e \in Events : rows[e].outcome = "WAITING" /\ rows[e].due = 0}
batch(p) == {e \in Events : sweep[p].held[e] > 0}

Init ==
    /\ sent = [e \in Events |-> Unsent]
    /\ rows = [e \in Events |-> blank("NONE")]
    /\ sweep = [p \in Processes |-> idle]
    /\ owed = [p \in Processes |-> {}]
    /\ spent = [e \in Events |-> 0]
    /\ stops = 0

Happen(e) ==
    /\ sent[e] = Unsent
    /\ sent' = [sent EXCEPT ![e] = 0]
    /\ UNCHANGED <<rows, sweep, owed, spent, stops>>

(***************************************************************************)
(* A sweep is asked for: one under way goes round once more.  What is due  *)
(* then is owed: this process does not rest before somebody claimed it.    *)
(***************************************************************************)
asked(s) == IF s.phase = "IDLE" THEN [s EXCEPT !.phase = "CLAIMING"] ELSE [s EXCEPT !.again = TRUE]
dispatch(p, due) ==
    /\ sweep' = [sweep EXCEPT ![p] = asked(@)]
    /\ owed' = [owed EXCEPT ![p] = @ \cup due]

(***************************************************************************)
(* A delivery, the first or another of one event.                          *)
(***************************************************************************)
Receive(p, e) ==
    /\ sent[e] \in 0..Hold
    /\ IF there(e) THEN dispatch(p, Due) /\ UNCHANGED <<rows, spent>>
       ELSE /\ rows' = [rows EXCEPT ![e] = blank(IF e \in Ours THEN "WAITING" ELSE "IGNORED")]
            /\ spent' = [spent EXCEPT ![e] = 0]
            /\ IF e \in Ours THEN dispatch(p, Due \cup {e}) ELSE UNCHANGED <<sweep, owed>>
    /\ UNCHANGED <<sent, stops>>

(***************************************************************************)
(* The routine's minute.                                                   *)
(***************************************************************************)
Routine(p) == dispatch(p, Due) /\ UNCHANGED <<sent, rows, spent, stops>>

(***************************************************************************)
(* The claim: one UPDATE takes the oldest of what is due, as much as a     *)
(* batch holds, and leases it.                                             *)
(***************************************************************************)
claimable(C) ==
    /\ C \subseteq Due
    /\ Cardinality(C) <= Batch
    /\ C = Due \/ Cardinality(C) = Batch
    /\ \A e \in C, f \in Due \ C : rows[e].age >= rows[f].age
leasedUncounted(row) == [row EXCEPT !.due = Lease]
countedUnleased(row) == [row EXCEPT !.attempts = @ + 1]
leased(row) == [row EXCEPT !.attempts = @ + 1, !.due = Lease]

Claim(p) ==
    /\ sweep[p].phase = "CLAIMING"
    /\ \E C \in SUBSET Due :
        /\ claimable(C)
        /\ rows' = [e \in Events |-> IF e \in C THEN leased(rows[e]) ELSE rows[e]]
        /\ sweep' = [sweep EXCEPT ![p] =
              [@ EXCEPT !.phase = "WORKING", !.full = (Cardinality(C) = Batch),
                        !.held = [e \in Events |-> IF e \in C THEN rows[e].attempts + 1 ELSE 0]]]
        /\ owed' = [q \in Processes |-> owed[q] \ C]
    /\ UNCHANGED <<sent, spent, stops>>

(***************************************************************************)
(* The sweep takes the next row of its batch up, or passes one that is no  *)
(* longer there.  Nobody writes the row back meanwhile: the answer of      *)
(* Asaas is waited for, and the clock runs.                                *)
(***************************************************************************)
letGo(s, e) == [s EXCEPT !.held[e] = 0, !.at = NoEvent]
counted(S) == spent' = [e \in Events |-> IF e \in S THEN spent[e] + 1 ELSE spent[e]]

TakeUp(p) ==
    /\ sweep[p].at = NoEvent
    /\ sweep[p].wait = NoWait
    /\ \E e \in batch(p) :
        IF there(e) THEN sweep' = [sweep EXCEPT ![p].at = e] /\ UNCHANGED spent
        ELSE sweep' = [sweep EXCEPT ![p] = letGo(@, e)] /\ counted({e})
    /\ UNCHANGED <<sent, rows, owed, stops>>

(***************************************************************************)
(* The sweep ends before its time - the process died, or the database did  *)
(* not answer: what it held waits for the lease to run out.                *)
(***************************************************************************)
abandon(p) ==
    /\ sweep' = [sweep EXCEPT ![p] = idle]
    /\ owed' = [owed EXCEPT ![p] = {}]
    /\ counted(batch(p))
    /\ UNCHANGED rows

Stop(p) ==
    /\ stops < MaxStops
    /\ sweep[p].phase # "IDLE"
    /\ stops' = stops + 1
    /\ abandon(p)
    /\ UNCHANGED sent

(***************************************************************************)
(* What comes of working an event, and what is written of it.  An event of *)
(* a shop whose key does not open gives its try back; bee-link's own, once *)
(* Asaas asked to wait, those of the batch not yet worked.                 *)
(***************************************************************************)
Results == {"OK", "FAILED", "THROTTLED"} \cup (IF Billing THEN {} ELSE {"UNAVAILABLE"})
retryAtOf(n) == 2 ^ (n - 1)
retries(result, n) ==
    {retryAtOf(n)} \cup (IF result = "THROTTLED" THEN {w \in NamedWaits : w > retryAtOf(n)} ELSE {})
parksForEver(result, row) == result = "UNAVAILABLE"
parks(result, row) == result = "UNAVAILABLE" /\ row.age < WaitMax
last(result, n) == n >= AttemptsMax \/ result = "UNAVAILABLE"

done(row, outcome) == [row EXCEPT !.outcome = outcome, !.doneFor = 0]
putOff(row, due) == [row EXCEPT !.due = due]
givenBack(row, due) == [row EXCEPT !.attempts = @ - 1, !.due = due]

(***************************************************************************)
(* Writes what came of e to its row, if it is still there; a write of a    *)
(* row that is not there ends the sweep.  `tried' holds e when the claim   *)
(* was a try, for the history.                                             *)
(***************************************************************************)
write(p, e, row, wait, tried) ==
    IF there(e)
    THEN /\ rows' = [rows EXCEPT ![e] = row]
         /\ sweep' = [sweep EXCEPT ![p] = [letGo(@, e) EXCEPT !.wait = wait]]
         /\ owed' = [q \in Processes |-> owed[q] \ {e}]
         /\ counted(tried)
    ELSE abandon(p)

Worked(p, e) == write(p, e, done(rows[e], "APPLIED"), NoWait, {e})
Parked(p, e, result) ==
    /\ parks(result, rows[e])
    /\ write(p, e, givenBack(rows[e], ParkedFor), NoWait, {})
Failed(p, e, result) ==
    /\ ~parks(result, rows[e])
    /\ \E due \in retries(result, sweep[p].held[e]) :
        write(p, e,
              IF last(result, sweep[p].held[e]) THEN done(rows[e], "GIVEN_UP") ELSE putOff(rows[e], due),
              IF Billing /\ result = "THROTTLED" THEN due ELSE NoWait,
              {e})

Finish(p) ==
    /\ sweep[p].at # NoEvent
    /\ \E result \in Results :
        IF result = "OK" THEN Worked(p, sweep[p].at)
        ELSE Parked(p, sweep[p].at, result) \/ Failed(p, sweep[p].at, result)
    /\ UNCHANGED <<sent, stops>>

PassOn(p) ==
    /\ sweep[p].wait # NoWait
    /\ \E e \in batch(p) : write(p, e, givenBack(rows[e], sweep[p].wait), sweep[p].wait, {})
    /\ UNCHANGED <<sent, stops>>

(***************************************************************************)
(* The batch is over: once more round, or rest.                            *)
(***************************************************************************)
goesOnIfAsked(s) == s.again
goesOn(s) == s.again \/ s.full
EndBatch(p) ==
    /\ sweep[p].phase = "WORKING"
    /\ batch(p) = {}
    /\ sweep' = [sweep EXCEPT ![p] = IF goesOn(@) THEN [idle EXCEPT !.phase = "CLAIMING"] ELSE idle]
    /\ UNCHANGED <<sent, rows, owed, spent, stops>>

(***************************************************************************)
(* The routine's prune.                                                    *)
(***************************************************************************)
oldOrNew(row) == row.outcome \in Done
old(row) == row.outcome \in Done /\ row.doneFor > Keep
Prune ==
    /\ \E e \in Events : old(rows[e])
    /\ rows' = [e \in Events |-> IF old(rows[e]) THEN blank("PRUNED") ELSE rows[e]]
    /\ UNCHANGED <<sent, sweep, owed, spent, stops>>

(***************************************************************************)
(* Time passes.  Unless Late, every batch is over before its lease is.     *)
(***************************************************************************)
inLease == \A p \in Processes : \A e \in batch(p) : rows[e].due > 1
left(t) == IF t > 0 THEN t - 1 ELSE t
gone(t, most) == IF t < most THEN t + 1 ELSE t
older(row) ==
    IF row.outcome \in {"NONE", "PRUNED"} THEN row
    ELSE [row EXCEPT !.due = left(@), !.age = gone(@, WaitMax),
                     !.doneFor = IF row.outcome \in Done THEN gone(@, Keep + 1) ELSE @]

Tick ==
    /\ Late \/ inLease
    /\ sent' = [e \in Events |-> IF sent[e] = Unsent THEN Unsent ELSE gone(sent[e], Hold + 1)]
    /\ rows' = [e \in Events |-> older(rows[e])]
    /\ sweep' = [p \in Processes |-> [sweep[p] EXCEPT !.wait = left(@)]]
    /\ UNCHANGED <<owed, spent, stops>>

Step(p) == Claim(p) \/ TakeUp(p) \/ Finish(p) \/ PassOn(p) \/ EndBatch(p)
Next ==
    \/ \E e \in Events : Happen(e)
    \/ \E p \in Processes, e \in Events : Receive(p, e)
    \/ \E p \in Processes : Routine(p) \/ Step(p) \/ Stop(p)
    \/ Prune
    \/ Tick

Spec == Init /\ [][Next]_vars

(***************************************************************************)
(* A process that is up ends what it started, its clock strikes, and time  *)
(* goes by; Asaas owes nothing.                                            *)
(***************************************************************************)
Fairness ==
    /\ WF_vars(Tick)
    /\ \A p \in Processes : WF_vars(Step(p)) /\ WF_vars(Routine(p))
LiveSpec == Spec /\ Fairness

-----------------------------------------------------------------------------
(***************************************************************************)
(* A dispatch works all that was due when it was asked for: no process     *)
(* rests while something it was told of was claimed by nobody - neither a  *)
(* delivery that came while a sweep was ending, nor one beyond the batch.  *)
(***************************************************************************)
NothingMissed == \A p \in Processes : sweep[p].phase = "IDLE" => owed[p] = {}

(***************************************************************************)
(* An event is given up for what it was tried, never for what it waited:   *)
(* its claims that were not given back are all its tries, or it is a       *)
(* shop's and older than Asaas itself would have kept it.                  *)
(***************************************************************************)
GivenUpForCause ==
    \A e \in Events : rows[e].outcome = "GIVEN_UP" =>
        spent[e] >= AttemptsMax \/ (~Billing /\ rows[e].age >= WaitMax)

(***************************************************************************)
(* The inbox keeps EventBook's promise: one desk at a time, done once,     *)
(* written once.                                                           *)
(***************************************************************************)
standing == [e \in Events |->
    CASE rows[e].outcome = "NONE" -> "UNKNOWN"
      [] rows[e].outcome = "WAITING" -> "WAITING"
      [] rows[e].outcome = "PRUNED" -> "FORGOTTEN"
      [] OTHER -> "DONE"]
desk == [p \in Processes |-> batch(p)]
Book == INSTANCE EventBook WITH Workers <- Processes
Promise == Book!Spec

(***************************************************************************)
(* An event done is never to do again, and one pruned never comes back,    *)
(* even where leases run out under slow sweeps: Asaas has let go of it by  *)
(* the time bee-link forgets it.                                           *)
(***************************************************************************)
NeverAgain ==
    [][\A e \in Events :
        /\ rows[e].outcome \in Done => rows'[e].outcome \in Done \cup {"PRUNED"}
        /\ rows[e].outcome = "PRUNED" => rows'[e].outcome = "PRUNED"]_vars

(***************************************************************************)
(* Every event written is worked or given up in the end.                   *)
(***************************************************************************)
EventSettles == Book!Settles
=============================================================================
