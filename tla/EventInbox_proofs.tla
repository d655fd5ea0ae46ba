------------------------- MODULE EventInbox_proofs -------------------------
(***************************************************************************)
(* What the inbox keeps for any number of processes and events.  The first *)
(* half holds however late a sweep is; the second, and the promise of      *)
(* EventBook, while sweeps end within their lease.                         *)
(***************************************************************************)
EXTENDS EventInbox, FiniteSetTheorems, TLAPS

\* Each wait doubles the one before, and is some while: 2^n counts the subsets of n things.
LEMMA RetryIsLater ==
  ASSUME NEW n \in Nat \ {0}
  PROVE  retryAtOf(n) \in Nat
<1>1. n - 1 \in Nat
  OBVIOUS
<1>2. IsFiniteSet(1..(n - 1)) /\ Cardinality(1..(n - 1)) = n - 1
  BY <1>1, FS_Interval
<1>3. /\ IsFiniteSet(SUBSET (1..(n - 1)))
      /\ Cardinality(SUBSET (1..(n - 1))) = 2^(n - 1)
  BY <1>2, FS_SUBSET
<1>. QED  BY <1>3, FS_CardinalityType DEF retryAtOf

-----------------------------------------------------------------------------
(* However late a sweep is.                                                *)

\* TypeOK but for the tries, which stay natural only while every claim is its holder's own.
LooseRow == [outcome : {"NONE", "WAITING", "PRUNED"} \cup Done, attempts : Int,
             due : Nat, age : Nat, doneFor : Nat]
LooseSweep == [phase : {"IDLE", "CLAIMING", "WORKING"}, again : BOOLEAN, full : BOOLEAN,
               held : [Events -> Int], at : Events \cup {NoEvent}, wait : Nat \cup {NoWait}]
Loose ==
    /\ sent \in [Events -> Nat \cup {Unsent}]
    /\ rows \in [Events -> LooseRow]
    /\ sweep \in [Processes -> LooseSweep]
    /\ owed \in [Processes -> SUBSET Events]
    /\ spent \in [Events -> Nat]
    /\ stops \in Nat

\* A sweep works what is in its batch, and has one only once it claimed.
AtHand ==
    \A p \in Processes :
        /\ sweep[p].at # NoEvent => sweep[p].at \in batch(p)
        /\ batch(p) # {} => sweep[p].phase = "WORKING"

\* What is owed is due, and its process is about to claim, or will claim again.
OwedComes ==
    \A p \in Processes :
        /\ owed[p] \subseteq Due
        /\ sweep[p].phase = "IDLE" => owed[p] = {}
        /\ sweep[p].phase = "WORKING" /\ owed[p] # {} => sweep[p].again \/ sweep[p].full

\* A row is there only once its event happened, and has not been done for longer than that
\* is ago: what is gone, Asaas let go of.
AgeInv ==
    \A e \in Events :
        /\ there(e) => sent[e] >= 0
        /\ there(e) => sent[e] > Hold \/ rows[e].doneFor <= sent[e]
        /\ rows[e].outcome = "PRUNED" => sent[e] > Hold

LateInv == Loose /\ AtHand /\ OwedComes /\ AgeInv

LEMMA LateInit == Init => LateInv
BY ProcessesAssumption, CountsAssumption, TimesAssumption
   DEF Init, LateInv, Loose, LooseRow, LooseSweep, AtHand, OwedComes, AgeInv, idle, none, blank,
       batch, there, Due, Done, Unsent, NoWait

\* A sweep that stops short leaves nothing in hand and owes nothing.
LEMMA AbandonLate ==
  ASSUME LateInv, NEW p \in Processes, abandon(p), UNCHANGED sent, stops' \in Nat
  PROVE  LateInv'
<1>1. Loose'
  BY DEF LateInv, Loose, abandon, counted, LooseSweep, idle, none, NoWait
<1>2. AtHand'
  BY DEF LateInv, Loose, abandon, LooseSweep, idle, none, AtHand, batch
<1>3. OwedComes'
  BY DEF LateInv, Loose, abandon, LooseSweep, idle, OwedComes, Due
<1>4. AgeInv'
  BY DEF LateInv, abandon, AgeInv, there
<1>. QED  BY <1>1, <1>2, <1>3, <1>4 DEF LateInv

LEMMA LetGoLoose ==
  ASSUME NEW s \in LooseSweep, NEW e \in Events
  PROVE  letGo(s, e) \in LooseSweep
<1>1. [s.held EXCEPT ![e] = 0] \in [Events -> Int]
  BY DEF LooseSweep
<1>. QED  BY <1>1 DEF LooseSweep, letGo

\* What a sweep may write of e, held for its n-th try: a row put off, done or given back; and
\* given up only when its tries are spent, or when a shop's was waited for long enough.
Says(e, n, row, tried) ==
    /\ row.outcome \in {rows[e].outcome} \cup Done
    /\ row.doneFor \in {0, rows[e].doneFor}
    /\ row.age = rows[e].age
    /\ \/ tried = {} /\ row.attempts = rows[e].attempts - 1 /\ row.outcome = rows[e].outcome
       \/ tried = {e} /\ row.attempts = rows[e].attempts
    /\ row.outcome = "GIVEN_UP" =>
          \/ rows[e].outcome = "GIVEN_UP"
          \/ n >= AttemptsMax
          \/ ~Billing /\ rows[e].age >= WaitMax

Writes(p) ==
    /\ \E e \in batch(p), row \in LooseRow, tried \in SUBSET Events, wait \in Nat \cup {NoWait} :
          Says(e, sweep[p].held[e], row, tried) /\ write(p, e, row, wait, tried)
    /\ UNCHANGED <<sent, stops>>

\* A write of a row that is there, done or put off, keeps all of it.
LEMMA WriteLate ==
  ASSUME LateInv, NEW p \in Processes, Writes(p)
  PROVE  LateInv'
<1>. PICK e \in batch(p), row \in LooseRow, tried \in SUBSET Events, wait \in Nat \cup {NoWait} :
       Says(e, sweep[p].held[e], row, tried) /\ write(p, e, row, wait, tried)
  BY DEF Writes
<1>. /\ row \in LooseRow /\ row.outcome \in {rows[e].outcome} \cup Done
     /\ row.doneFor \in {0, rows[e].doneFor}
     /\ UNCHANGED <<sent, stops>>
  BY DEF Says, Writes
<1>. e \in Events
  BY DEF batch
<1>1. CASE ~there(e)
  BY <1>1, AbandonLate DEF write, LateInv, Loose
<1>2. CASE there(e)
  <2>1. /\ rows' = [rows EXCEPT ![e] = row]
        /\ sweep' = [sweep EXCEPT ![p] = [letGo(@, e) EXCEPT !.wait = wait]]
        /\ owed' = [q \in Processes |-> owed[q] \ {e}]
        /\ counted(tried)
    BY <1>2 DEF write
  <2>2. Loose'
    <3>1. letGo(sweep[p], e) \in LooseSweep
      BY LetGoLoose DEF LateInv, Loose
    <3>2. [letGo(sweep[p], e) EXCEPT !.wait = wait] \in LooseSweep
      BY <3>1 DEF LooseSweep
    <3>3. rows' \in [Events -> LooseRow] /\ sweep' \in [Processes -> LooseSweep]
      BY <2>1, <3>2 DEF LateInv, Loose
    <3>. QED  BY <2>1, <3>3 DEF LateInv, Loose, counted
  <2>3. AtHand'
    BY <2>1, ProcessesAssumption DEF LateInv, Loose, LooseSweep, letGo, AtHand, batch
  <2>4. OwedComes'
    BY <2>1 DEF LateInv, Loose, LooseSweep, letGo, OwedComes, Due
  <2>5. AgeInv'
    BY <1>2, <2>1, TimesAssumption DEF LateInv, Loose, LooseRow, AgeInv, there, Done
  <2>. QED  BY <2>2, <2>3, <2>4, <2>5 DEF LateInv
<1>. QED  BY <1>1, <1>2

\* A sweep asked for is owed what is due.
LEMMA DispatchLate ==
  ASSUME LateInv, NEW p \in Processes, NEW due \in SUBSET Events, dispatch(p, due),
         Loose' /\ rows' \in [Events -> LooseRow],
         Due \subseteq Due', due \subseteq Due', AgeInv'
  PROVE  LateInv'
<1>1. AtHand'
  BY DEF LateInv, Loose, dispatch, asked, AtHand, batch, LooseSweep
<1>2. OwedComes'
  BY DEF LateInv, Loose, dispatch, asked, OwedComes, LooseSweep
<1>. QED  BY <1>1, <1>2 DEF LateInv

LEMMA AskedLoose ==
  ASSUME NEW s \in LooseSweep
  PROVE  asked(s) \in LooseSweep
BY DEF asked, LooseSweep

LEMMA ReceiveLate ==
  ASSUME LateInv, NEW p \in Processes, NEW e \in Events, Receive(p, e)
  PROVE  LateInv'
<1>1. CASE there(e)
  <2>1. dispatch(p, Due) /\ UNCHANGED <<sent, rows, spent, stops>>
    BY <1>1 DEF Receive
  <2>2. Loose'
    BY <2>1, AskedLoose DEF LateInv, Loose, dispatch, Due
  <2>3. AgeInv' /\ Due' = Due
    BY <2>1 DEF LateInv, AgeInv, there, Due
  <2>. QED  BY <2>1, <2>2, <2>3, DispatchLate DEF Loose, Due
<1>2. CASE ~there(e)
  <2>1. /\ rows' = [rows EXCEPT ![e] = blank(IF e \in Ours THEN "WAITING" ELSE "IGNORED")]
        /\ spent' = [spent EXCEPT ![e] = 0]
        /\ sent[e] \in 0..Hold /\ UNCHANGED <<sent, stops>>
    BY <1>2 DEF Receive
  <2>2. rows' \in [Events -> LooseRow] /\ spent' \in [Events -> Nat]
    BY <2>1 DEF LateInv, Loose, LooseRow, blank, Done
  <2>3. AgeInv'
    BY <2>1, TimesAssumption DEF LateInv, Loose, LooseRow, AgeInv, there, blank, Done
  <2>4. Due \subseteq Due' /\ (e \in Ours => e \in Due')
    BY <1>2, <2>1 DEF LateInv, Loose, Due, there, blank
  <2>5. CASE e \in Ours
    <3>1. dispatch(p, Due \cup {e})
      BY <1>2, <2>5 DEF Receive
    <3>2. Loose'
      BY <2>1, <2>2, <3>1, AskedLoose DEF LateInv, Loose, dispatch, Due
    <3>. QED  BY <2>2, <2>3, <2>4, <2>5, <3>1, <3>2, DispatchLate DEF Due
  <2>6. CASE e \notin Ours
    <3>1. UNCHANGED <<sweep, owed>>
      BY <1>2, <2>6 DEF Receive
    <3>2. Loose' /\ AtHand' /\ OwedComes'
      BY <2>1, <2>2, <2>4, <3>1 DEF LateInv, Loose, AtHand, OwedComes, batch
    <3>. QED  BY <2>3, <3>2 DEF LateInv
  <2>. QED  BY <2>5, <2>6
<1>. QED  BY <1>1, <1>2

LEMMA RoutineLate ==
  ASSUME LateInv, NEW p \in Processes, Routine(p)
  PROVE  LateInv'
<1>1. dispatch(p, Due) /\ UNCHANGED <<sent, rows, spent, stops>>
  BY DEF Routine
<1>2. Loose'
  BY <1>1, AskedLoose DEF LateInv, Loose, dispatch, Due
<1>3. AgeInv' /\ Due' = Due
  BY <1>1 DEF LateInv, AgeInv, there, Due
<1>. QED  BY <1>1, <1>2, <1>3, DispatchLate DEF Loose, Due

LEMMA LeasedLoose ==
  ASSUME NEW row \in LooseRow
  PROVE  leased(row) \in LooseRow
<1>1. row.attempts + 1 \in Int /\ Lease \in Nat
  BY TimesAssumption DEF LooseRow
<1>2. leased(row) = [row EXCEPT !.attempts = row.attempts + 1, !.due = Lease]
  BY DEF leased
<1>. QED  BY <1>1, <1>2 DEF LooseRow

LEMMA ClaimingLoose ==
  ASSUME NEW s \in LooseSweep, NEW full \in BOOLEAN, NEW held \in [Events -> Int]
  PROVE  [s EXCEPT !.phase = "WORKING", !.full = full, !.held = held] \in LooseSweep
BY DEF LooseSweep

\* A claim takes all that is due, or as much as makes the sweep go round again.
LEMMA ClaimLate ==
  ASSUME LateInv, NEW p \in Processes, Claim(p)
  PROVE  LateInv'
<1>1. PICK C \in SUBSET Due :
        /\ claimable(C)
        /\ rows' = [e \in Events |-> IF e \in C THEN leased(rows[e]) ELSE rows[e]]
        /\ sweep' = [sweep EXCEPT ![p] =
              [@ EXCEPT !.phase = "WORKING", !.full = (Cardinality(C) = Batch),
                        !.held = [e \in Events |-> IF e \in C THEN rows[e].attempts + 1 ELSE 0]]]
        /\ owed' = [q \in Processes |-> owed[q] \ C]
  BY DEF Claim
<1>2. UNCHANGED <<sent, spent, stops>> /\ sweep[p].phase = "CLAIMING"
  BY DEF Claim
<1>3. sweep' \in [Processes -> LooseSweep]
  <2>. DEFINE held == [e \in Events |-> IF e \in C THEN rows[e].attempts + 1 ELSE 0]
  <2>1. held \in [Events -> Int]
    BY DEF LateInv, Loose, LooseRow
  <2>. HIDE DEF held
  <2>2. (Cardinality(C) = Batch) \in BOOLEAN
    OBVIOUS
  <2>3. [sweep[p] EXCEPT !.phase = "WORKING", !.full = (Cardinality(C) = Batch), !.held = held]
          \in LooseSweep
    BY <2>1, <2>2, ClaimingLoose DEF LateInv, Loose
  <2>. QED  BY <1>1, <2>3 DEF LateInv, Loose, held
<1>4. Loose'
  <2>1. \A e \in Events : leased(rows[e]) \in LooseRow
    BY LeasedLoose DEF LateInv, Loose
  <2>2. rows' \in [Events -> LooseRow]
    BY <1>1, <2>1 DEF LateInv, Loose
  <2>3. owed' \in [Processes -> SUBSET Events]
    BY <1>1 DEF LateInv, Loose
  <2>. QED  BY <1>2, <1>3, <2>2, <2>3 DEF LateInv, Loose
<1>5. AtHand'
  BY <1>1, <1>2 DEF LateInv, Loose, AtHand, batch, LooseSweep
<1>6. OwedComes'
  BY <1>1, <1>2 DEF LateInv, Loose, LooseSweep, OwedComes, Due, claimable
<1>7. AgeInv'
  BY <1>1, <1>2 DEF LateInv, Loose, LooseRow, AgeInv, there, leased, Due
<1>. QED  BY <1>4, <1>5, <1>6, <1>7 DEF LateInv

LEMMA TakenLoose ==
  ASSUME NEW s \in LooseSweep, NEW e \in Events
  PROVE  /\ [s EXCEPT !.at = e] \in LooseSweep
         /\ letGo(s, e) \in LooseSweep
<1>1. [s EXCEPT !.at = e] \in LooseSweep
  BY DEF LooseSweep
<1>. QED  BY <1>1, LetGoLoose

LEMMA TakeUpLate ==
  ASSUME LateInv, NEW p \in Processes, TakeUp(p)
  PROVE  LateInv'
<1>1. PICK e \in batch(p) :
        IF there(e) THEN sweep' = [sweep EXCEPT ![p].at = e] /\ UNCHANGED spent
        ELSE sweep' = [sweep EXCEPT ![p] = letGo(@, e)] /\ counted({e})
  BY DEF TakeUp
<1>2. UNCHANGED <<sent, rows, owed, stops>> /\ sweep[p].at = NoEvent /\ e \in Events
  BY DEF TakeUp, batch
<1>3. AgeInv' /\ spent' \in [Events -> Nat]
  BY <1>1, <1>2 DEF LateInv, Loose, AgeInv, there, counted
<1>. DEFINE s == IF there(e) THEN [sweep[p] EXCEPT !.at = e] ELSE letGo(sweep[p], e)
<1>4. sweep' = [sweep EXCEPT ![p] = s]
  BY <1>1
<1>5. s \in LooseSweep
  BY <1>2, TakenLoose DEF LateInv, Loose
<1>6. /\ s.phase = sweep[p].phase /\ s.again = sweep[p].again /\ s.full = sweep[p].full
      /\ s.at \in {e, NoEvent} /\ (s.at = e => s.held = sweep[p].held)
  BY <1>2, ProcessesAssumption DEF LateInv, Loose, LooseSweep, letGo
<1>. HIDE DEF s
<1>7. OwedComes'
  BY <1>2, <1>4, <1>6 DEF LateInv, Loose, OwedComes, Due
<1>8. AtHand'
  <2>1. sweep[p].phase = "WORKING"
    BY DEF LateInv, AtHand
  <2>2. \A q \in Processes \ {p} : sweep'[q] = sweep[q]
    BY <1>4 DEF LateInv, Loose
  <2>3. sweep'[p] = s
    BY <1>4 DEF LateInv, Loose
  <2>4. s.at = e => batch(p)' = batch(p)
    BY <1>6, <2>3 DEF batch
  <2>. QED  BY <1>1, <1>2, <1>6, <2>1, <2>2, <2>3, <2>4 DEF LateInv, AtHand, batch
<1>. QED  BY <1>2, <1>3, <1>4, <1>5, <1>7, <1>8 DEF LateInv, Loose

LEMMA StopLate ==
  ASSUME LateInv, NEW p \in Processes, Stop(p)
  PROVE  LateInv'
BY AbandonLate DEF Stop, LateInv, Loose

LEMMA RetriesLater ==
  ASSUME NEW n \in Nat \ {0}, NEW result, NEW due \in retries(result, n)
  PROVE  due \in Nat
BY RetryIsLater, NamedWaitsAssumption DEF retries

\* What each end of a try says of the row.
LEMMA SaidOf ==
  ASSUME LateInv, NEW e \in Events, NEW n \in Nat, NEW due \in Nat
  PROVE  /\ {done(rows[e], "APPLIED"), done(rows[e], "GIVEN_UP"), putOff(rows[e], due),
             givenBack(rows[e], due)} \subseteq LooseRow
         /\ Says(e, n, done(rows[e], "APPLIED"), {e})
         /\ n >= AttemptsMax \/ (~Billing /\ rows[e].age >= WaitMax)
              => Says(e, n, done(rows[e], "GIVEN_UP"), {e})
         /\ Says(e, n, putOff(rows[e], due), {e})
         /\ Says(e, n, givenBack(rows[e], due), {})
<1>. rows[e] \in LooseRow /\ rows[e].attempts - 1 \in Int
  BY DEF LateInv, Loose, LooseRow
<1>1. Says(e, n, done(rows[e], "APPLIED"), {e})
  BY DEF Says, done, LooseRow, Done
<1>2. n >= AttemptsMax \/ (~Billing /\ rows[e].age >= WaitMax)
        => Says(e, n, done(rows[e], "GIVEN_UP"), {e})
  BY DEF Says, done, LooseRow, Done
<1>3. Says(e, n, putOff(rows[e], due), {e})
  BY DEF Says, putOff, LooseRow
<1>4. Says(e, n, givenBack(rows[e], due), {})
  BY DEF Says, givenBack, LooseRow
<1>5. /\ done(rows[e], "APPLIED") \in LooseRow /\ done(rows[e], "GIVEN_UP") \in LooseRow
      /\ putOff(rows[e], due) \in LooseRow /\ givenBack(rows[e], due) \in LooseRow
  BY DEF done, putOff, givenBack, LooseRow, Done
<1>. QED  BY <1>1, <1>2, <1>3, <1>4, <1>5

LEMMA FinishWrites ==
  ASSUME LateInv, NEW p \in Processes, Finish(p)
  PROVE  Writes(p)
<1>. DEFINE e == sweep[p].at
            n == sweep[p].held[e]
<1>1. e \in batch(p) /\ e \in Events /\ UNCHANGED <<sent, stops>>
  BY DEF Finish, LateInv, AtHand, batch
<1>2. n \in Nat \ {0} /\ rows[e] \in LooseRow /\ ParkedFor \in Nat
  BY <1>1, TimesAssumption DEF LateInv, Loose, LooseSweep, batch
<1>3. PICK result \in Results :
        IF result = "OK" THEN Worked(p, e) ELSE Parked(p, e, result) \/ Failed(p, e, result)
  BY DEF Finish
<1>. SUFFICES \E row \in LooseRow, tried \in SUBSET Events, wait \in Nat \cup {NoWait} :
                Says(e, n, row, tried) /\ write(p, e, row, wait, tried)
  BY <1>1 DEF Writes
<1>. HIDE DEF n, e
<1>4. CASE Worked(p, e)
  BY <1>1, <1>2, <1>4, SaidOf DEF Worked
<1>5. CASE Parked(p, e, result)
  BY <1>1, <1>2, <1>5, SaidOf DEF Parked
<1>6. CASE Failed(p, e, result)
  <2>1. PICK due \in retries(result, n) :
          write(p, e, IF last(result, n) THEN done(rows[e], "GIVEN_UP") ELSE putOff(rows[e], due),
                IF Billing /\ result = "THROTTLED" THEN due ELSE NoWait, {e})
    BY <1>6 DEF Failed, n
  <2>. DEFINE row == IF last(result, n) THEN done(rows[e], "GIVEN_UP") ELSE putOff(rows[e], due)
              wait == IF Billing /\ result = "THROTTLED" THEN due ELSE NoWait
  <2>2. due \in Nat
    BY <1>2, RetriesLater
  <2>3. last(result, n) => n >= AttemptsMax \/ (~Billing /\ rows[e].age >= WaitMax)
    BY <1>2, <1>6, TimesAssumption DEF Failed, parks, last, Results, LooseRow
  <2>4. Says(e, n, row, {e}) /\ row \in LooseRow
    BY <1>1, <1>2, <2>2, <2>3, SaidOf
  <2>5. write(p, e, row, wait, {e}) /\ wait \in Nat \cup {NoWait}
    BY <2>1, <2>2
  <2>. HIDE DEF row, wait
  <2>. QED  BY <1>1, <2>4, <2>5
<1>. QED  BY <1>3, <1>4, <1>5, <1>6

LEMMA PassOnWrites ==
  ASSUME LateInv, NEW p \in Processes, PassOn(p)
  PROVE  Writes(p)
<1>1. PICK e \in batch(p) : write(p, e, givenBack(rows[e], sweep[p].wait), sweep[p].wait, {})
  BY DEF PassOn
<1>2. /\ e \in Events /\ sweep[p].wait \in Nat /\ sweep[p].held[e] \in Nat
      /\ UNCHANGED <<sent, stops>>
  BY DEF PassOn, batch, LateInv, Loose, LooseSweep
<1>. QED  BY <1>1, <1>2, SaidOf DEF Writes

LEMMA EndBatchLate ==
  ASSUME LateInv, NEW p \in Processes, EndBatch(p)
  PROVE  LateInv'
<1>1. /\ sweep[p].phase = "WORKING" /\ UNCHANGED <<sent, rows, owed, spent, stops>>
      /\ sweep' = [sweep EXCEPT ![p] = IF goesOn(@) THEN [idle EXCEPT !.phase = "CLAIMING"] ELSE idle]
  BY DEF EndBatch
<1>2. idle \in LooseSweep /\ [idle EXCEPT !.phase = "CLAIMING"] \in LooseSweep
  <2>1. none \in [Events -> Int] /\ FALSE \in BOOLEAN
    BY DEF none
  <2>. QED  BY <2>1 DEF idle, LooseSweep
<1>3. Loose'
  BY <1>1, <1>2 DEF LateInv, Loose
<1>4. AtHand'
  BY <1>1 DEF LateInv, Loose, AtHand, batch, idle, none
<1>5. OwedComes'
  BY <1>1 DEF LateInv, Loose, OwedComes, Due, idle, goesOn
<1>6. AgeInv'
  BY <1>1 DEF LateInv, AgeInv, there
<1>. QED  BY <1>3, <1>4, <1>5, <1>6 DEF LateInv

LEMMA PruneLate ==
  ASSUME LateInv, Prune
  PROVE  LateInv'
<1>1. /\ rows' = [e \in Events |-> IF old(rows[e]) THEN blank("PRUNED") ELSE rows[e]]
      /\ UNCHANGED <<sent, sweep, owed, spent, stops>>
  BY DEF Prune
<1>2. blank("PRUNED") \in LooseRow
  BY DEF blank, LooseRow
<1>3. Loose' /\ AtHand'
  BY <1>1, <1>2 DEF LateInv, Loose, AtHand, batch
<1>4. OwedComes'
  BY <1>1 DEF LateInv, Loose, OwedComes, Due, old, Done
<1>5. AgeInv'
  <2>. SUFFICES ASSUME NEW e \in Events
                PROVE  /\ there(e)' => sent[e] >= 0
                       /\ there(e)' => sent[e] > Hold \/ rows'[e].doneFor <= sent[e]
                       /\ rows'[e].outcome = "PRUNED" => sent[e] > Hold
    BY <1>1 DEF AgeInv
  <2>1. CASE old(rows[e])
    <3>1. rows'[e] = blank("PRUNED") /\ there(e)
      BY <1>1, <2>1 DEF old, there, Done
    <3>2. sent[e] > Hold
      BY <2>1, <3>1, TimesAssumption DEF LateInv, Loose, LooseRow, AgeInv, old, Unsent
    <3>. QED  BY <3>1, <3>2 DEF there, blank
  <2>2. CASE ~old(rows[e])
    BY <1>1, <2>2 DEF LateInv, AgeInv, there
  <2>. QED  BY <2>1, <2>2
<1>. QED  BY <1>1, <1>3, <1>4, <1>5 DEF LateInv

\* Time leaves a row a row, what it is of, and its tries; what is due stays due.
LEMMA OlderLoose ==
  ASSUME NEW row \in LooseRow
  PROVE  /\ older(row) \in LooseRow
         /\ older(row).outcome = row.outcome
         /\ older(row).attempts = row.attempts
         /\ row.due = 0 => older(row).due = 0
         /\ row.due > 1 => older(row).due > 0
         /\ older(row).age >= row.age
         /\ older(row).doneFor \in {row.doneFor, row.doneFor + 1}
<1>1. /\ left(row.due) \in Nat /\ (row.due = 0 => left(row.due) = 0)
      /\ row.due > 1 => left(row.due) > 0
  BY DEF LooseRow, left
<1>2. gone(row.age, WaitMax) \in Nat /\ gone(row.age, WaitMax) >= row.age
  BY TimesAssumption DEF LooseRow, gone
<1>3. /\ gone(row.doneFor, Keep + 1) \in Nat
      /\ gone(row.doneFor, Keep + 1) \in {row.doneFor, row.doneFor + 1}
  BY TimesAssumption DEF LooseRow, gone
<1>4. older(row).doneFor \in {row.doneFor, row.doneFor + 1}
  BY <1>3 DEF LooseRow, older
<1>5. older(row) \in LooseRow
  BY <1>1, <1>2, <1>3 DEF LooseRow, older
<1>. QED  BY <1>1, <1>2, <1>4, <1>5 DEF LooseRow, older

LEMMA TickLate ==
  ASSUME LateInv, Tick
  PROVE  LateInv'
<1>1. /\ sent' = [e \in Events |-> IF sent[e] = Unsent THEN Unsent ELSE gone(sent[e], Hold + 1)]
      /\ rows' = [e \in Events |-> older(rows[e])]
      /\ sweep' = [p \in Processes |-> [sweep[p] EXCEPT !.wait = left(@)]]
      /\ UNCHANGED <<owed, spent, stops>>
  BY DEF Tick
<1>2. rows' \in [Events -> LooseRow]
  BY <1>1, OlderLoose DEF LateInv, Loose
<1>3. sent' \in [Events -> Nat \cup {Unsent}]
  BY <1>1, TimesAssumption DEF LateInv, Loose, gone, Unsent
<1>4. sweep' \in [Processes -> LooseSweep]
  <2>1. ASSUME NEW s \in LooseSweep
        PROVE  [s EXCEPT !.wait = left(@)] \in LooseSweep
    <3>1. left(s.wait) \in Nat \cup {NoWait}
      BY DEF LooseSweep, left, NoWait
    <3>. QED  BY <3>1 DEF LooseSweep
  <2>. QED  BY <1>1, <2>1 DEF LateInv, Loose
<1>5. \A p \in Processes :
        /\ sweep'[p].phase = sweep[p].phase /\ sweep'[p].again = sweep[p].again
        /\ sweep'[p].full = sweep[p].full /\ sweep'[p].at = sweep[p].at
        /\ sweep'[p].held = sweep[p].held
  BY <1>1 DEF LateInv, Loose, LooseSweep
<1>6. AtHand'
  BY <1>5 DEF LateInv, AtHand, batch
<1>7. Due \subseteq Due'
  BY <1>1, OlderLoose DEF LateInv, Loose, Due
<1>8. OwedComes'
  BY <1>1, <1>5, <1>7 DEF LateInv, OwedComes
<1>9. AgeInv'
  <2>. SUFFICES ASSUME NEW e \in Events
                PROVE  /\ there(e)' => sent'[e] >= 0
                       /\ there(e)' => sent'[e] > Hold \/ rows'[e].doneFor <= sent'[e]
                       /\ rows'[e].outcome = "PRUNED" => sent'[e] > Hold
    BY DEF AgeInv
  <2>1. rows[e] \in LooseRow /\ rows'[e] = older(rows[e]) /\ sent[e] \in Nat \cup {Unsent}
    BY <1>1 DEF LateInv, Loose
  <2>2. sent[e] >= 0 => sent'[e] = IF sent[e] < Hold + 1 THEN sent[e] + 1 ELSE sent[e]
    BY <1>1, <2>1 DEF gone, Unsent
  <2>3. /\ rows'[e].outcome = rows[e].outcome /\ there(e)' = there(e)
        /\ rows'[e].doneFor \in {rows[e].doneFor, rows[e].doneFor + 1}
        /\ rows[e].doneFor \in Nat
    BY <2>1, OlderLoose DEF there, LooseRow
  <2>. QED  BY <2>1, <2>2, <2>3, TimesAssumption DEF LateInv, AgeInv, Unsent
<1>. QED  BY <1>1, <1>2, <1>3, <1>4, <1>6, <1>8, <1>9 DEF LateInv, Loose

LEMMA LateNext == LateInv /\ [Next]_vars => LateInv'
<1>. SUFFICES ASSUME LateInv, [Next]_vars
              PROVE  LateInv'
  OBVIOUS
<1>1. ASSUME NEW e \in Events, Happen(e)
      PROVE  LateInv'
  <2>1. sent' = [sent EXCEPT ![e] = 0] /\ sent[e] = Unsent /\ UNCHANGED <<rows, sweep, owed, spent, stops>>
    BY <1>1 DEF Happen
  <2>2. AgeInv'
    BY <2>1, TimesAssumption DEF LateInv, Loose, AgeInv, there, Unsent
  <2>3. Loose' /\ AtHand' /\ OwedComes'
    BY <2>1 DEF LateInv, Loose, AtHand, OwedComes, batch, Due
  <2>. QED  BY <2>2, <2>3 DEF LateInv
<1>2. ASSUME NEW p \in Processes, Step(p)
      PROVE  LateInv'
  BY <1>2, ClaimLate, TakeUpLate, FinishWrites, PassOnWrites, WriteLate, EndBatchLate DEF Step
<1>3. CASE UNCHANGED vars
  BY <1>3 DEF vars, LateInv, Loose, AtHand, OwedComes, AgeInv, batch, Due, there
<1>. QED
  BY <1>1, <1>2, <1>3, ReceiveLate, RoutineLate, StopLate, PruneLate, TickLate DEF Next

\* A process never rests with something it was told of claimed by nobody (the `again' flag and the
\* full batch of dispatch), whatever the batch, the leases and the failures.
THEOREM DispatchSuffices == Spec => []NothingMissed
<1>1. LateInv => NothingMissed
  BY DEF LateInv, OwedComes, NothingMissed
<1>. QED  BY <1>1, LateInit, LateNext, PTL DEF Spec

\* What is done stays done and what is pruned stays gone, however late a sweep writes: bee-link
\* keeps a done row for longer than Asaas holds its event.
LEMMA NeverAgainNext ==
  ASSUME LateInv, [Next]_vars, NEW e \in Events
  PROVE  /\ rows[e].outcome \in Done => rows'[e].outcome \in Done \cup {"PRUNED"}
         /\ rows[e].outcome = "PRUNED" => rows'[e].outcome = "PRUNED"
<1>. DEFINE Kept == /\ rows[e].outcome \in Done => rows'[e].outcome \in Done \cup {"PRUNED"}
                    /\ rows[e].outcome = "PRUNED" => rows'[e].outcome = "PRUNED"
<1>1. CASE UNCHANGED rows
  BY <1>1
<1>2. ASSUME NEW p \in Processes, NEW f \in Events, Receive(p, f)
      PROVE  Kept
  <2>1. rows[f].outcome = "PRUNED" => sent[f] > Hold
    BY DEF LateInv, AgeInv
  <2>2. sent[f] \in 0..Hold
    BY <1>2 DEF Receive
  <2>3. rows[f].outcome # "PRUNED"
    BY <2>1, <2>2, TimesAssumption
  <2>4. rows' = rows \/ (rows[f].outcome = "NONE" /\ rows'[e] = IF e = f THEN rows'[e] ELSE rows[e])
    BY <1>2, <2>3 DEF Receive, there, LateInv, Loose
  <2>. QED  BY <2>4 DEF Done
<1>3. ASSUME NEW p \in Processes, Writes(p)
      PROVE  Kept
  <2>1. PICK f \in batch(p), row \in LooseRow, tried \in SUBSET Events, wait \in Nat \cup {NoWait} :
          Says(f, sweep[p].held[f], row, tried) /\ write(p, f, row, wait, tried)
    BY <1>3 DEF Writes
  <2>2. CASE ~there(f)
    BY <2>1, <2>2 DEF write, abandon
  <2>3. CASE there(f)
    BY <2>1, <2>3 DEF write, Says, LateInv, Loose, there, Done
  <2>. QED  BY <2>2, <2>3
<1>4. ASSUME NEW p \in Processes, Claim(p)
      PROVE  Kept
  BY <1>4 DEF Claim, Due, LateInv, Loose, Done
<1>5. CASE Prune
  BY <1>5 DEF Prune, LateInv, Loose, LooseRow, old, blank, Done
<1>6. CASE Tick
  BY <1>6, OlderLoose DEF Tick, LateInv, Loose
<1>7. ASSUME NEW p \in Processes, Step(p)
      PROVE  Kept
  BY <1>1, <1>3, <1>4, <1>7, FinishWrites, PassOnWrites DEF Step, TakeUp, EndBatch
<1>8. ASSUME NEW p \in Processes, Routine(p) \/ Stop(p)
      PROVE  Kept
  BY <1>1, <1>8 DEF Routine, Stop, abandon
<1>9. ASSUME NEW f \in Events, Happen(f)
      PROVE  Kept
  BY <1>1, <1>9 DEF Happen
<1>10. CASE UNCHANGED vars
  BY <1>1, <1>10 DEF vars
<1>. QED
  BY <1>2, <1>5, <1>6, <1>7, <1>8, <1>9, <1>10 DEF Next

\* An event done is never to do again, and one pruned (asaas-events.service.ts, prune) is never
\* written again by a late delivery, whatever the leases and the failures.
THEOREM DoneForGood == Spec => NeverAgain
<1>1. LateInv /\ [Next]_vars
        => [\A e \in Events :
              /\ rows[e].outcome \in Done => rows'[e].outcome \in Done \cup {"PRUNED"}
              /\ rows[e].outcome = "PRUNED" => rows'[e].outcome = "PRUNED"]_vars
  BY NeverAgainNext
<1>. QED  BY <1>1, LateInit, LateNext, PTL DEF Spec, NeverAgain
-----------------------------------------------------------------------------
(* While sweeps end within their lease.                                    *)

\* What is in a batch waits, is not due, and was claimed for its row's last try - not yet counted
\* among those that ended.
Claims ==
    \A p \in Processes : \A e \in batch(p) :
        /\ rows[e].outcome = "WAITING" /\ rows[e].due > 0
        /\ rows[e].attempts = sweep[p].held[e]
        /\ rows[e].attempts = spent[e] + 1

\* No event is in two batches.
Alone == \A p, q \in Processes : \A e \in batch(p) : e \in batch(q) => p = q

\* Every other row's tries all ended.
Free ==
    \A e \in Events :
        /\ there(e) /\ (\A p \in Processes : e \notin batch(p)) => rows[e].attempts = spent[e]
        /\ ~there(e) => rows[e].attempts = 0

HeldNat == \A p \in Processes, e \in Events : sweep[p].held[e] >= 0

InboxInv == LateInv /\ Claims /\ Alone /\ Free /\ HeldNat /\ GivenUpForCause

LEMMA InboxTyped == InboxInv => TypeOK
<1>. SUFFICES ASSUME InboxInv
              PROVE  TypeOK
  OBVIOUS
<1>1. \A e \in Events : rows[e].attempts \in Nat
  <2>. TAKE e \in Events
  <2>1. rows[e].attempts \in Int /\ spent[e] \in Nat
    BY DEF InboxInv, LateInv, Loose, LooseRow
  <2>2. CASE \E p \in Processes : e \in batch(p)
    BY <2>1, <2>2 DEF InboxInv, Claims
  <2>3. CASE \A p \in Processes : e \notin batch(p)
    BY <2>1, <2>3 DEF InboxInv, Free
  <2>. QED  BY <2>2, <2>3
<1>2. rows \in [Events -> Row]
  BY <1>1 DEF InboxInv, LateInv, Loose, LooseRow, Row
<1>3. \A p \in Processes : sweep[p].held \in [Events -> Nat]
  BY DEF InboxInv, LateInv, Loose, LooseSweep, HeldNat
<1>4. \A p \in Processes : sweep[p] \in Sweep
  BY <1>3 DEF InboxInv, LateInv, Loose, LooseSweep, Sweep
<1>5. sweep \in [Processes -> Sweep]
  BY <1>4 DEF InboxInv, LateInv, Loose
<1>. QED  BY <1>2, <1>5 DEF InboxInv, LateInv, Loose, TypeOK

LEMMA InboxInit == Init => InboxInv
<1>. SUFFICES ASSUME Init
              PROVE  InboxInv
  OBVIOUS
<1>1. /\ \A p \in Processes, e \in Events : sweep[p].held[e] = 0
      /\ \A e \in Events : rows[e] = blank("NONE") /\ spent[e] = 0
  BY DEF Init, idle, none
<1>2. Claims /\ Alone /\ HeldNat
  BY <1>1 DEF Claims, Alone, HeldNat, batch
<1>3. Free /\ GivenUpForCause
  BY <1>1 DEF Free, GivenUpForCause, there, blank
<1>. QED  BY <1>2, <1>3, LateInit DEF InboxInv

\* A sweep asked for holds what it held.
LEMMA DispatchHolds ==
  ASSUME LateInv, NEW p \in Processes, NEW due, dispatch(p, due), NEW q \in Processes
  PROVE  sweep'[q].held = sweep[q].held
BY DEF LateInv, Loose, LooseSweep, dispatch, asked

\* Steps that leave the rows, the batches and the history as they are.
LEMMA Undisturbed ==
  ASSUME InboxInv, LateInv', UNCHANGED <<rows, spent>>,
         \A q \in Processes : sweep'[q].held = sweep[q].held
  PROVE  InboxInv'
<1>1. \A q \in Processes : batch(q)' = batch(q)
  BY DEF batch
<1>. QED
  BY <1>1 DEF InboxInv, Claims, Alone, Free, HeldNat, GivenUpForCause, there

\* A batch is given up whole: its tries are counted, and nobody else has any of it.
LEMMA AbandonInbox ==
  ASSUME InboxInv, LateInv', NEW p \in Processes, abandon(p)
  PROVE  InboxInv'
<1>1. /\ \A q \in Processes \ {p} : sweep'[q] = sweep[q]
      /\ \A e \in Events : sweep'[p].held[e] = 0
      /\ \A e \in Events : spent'[e] = IF e \in batch(p) THEN spent[e] + 1 ELSE spent[e]
      /\ rows' = rows
  BY DEF InboxInv, LateInv, Loose, abandon, counted, idle, none
<1>2. batch(p)' = {} /\ \A q \in Processes \ {p} : batch(q)' = batch(q)
  BY <1>1 DEF batch
<1>3. Claims'
  BY <1>1, <1>2 DEF InboxInv, Claims, Alone, batch
<1>4. Alone' /\ HeldNat'
  BY <1>1, <1>2 DEF InboxInv, Alone, HeldNat
<1>5. Free'
  BY <1>1, <1>2 DEF InboxInv, Claims, Free, there, batch
<1>6. GivenUpForCause'
  BY <1>1 DEF InboxInv, LateInv, Loose, Claims, GivenUpForCause, batch
<1>. QED  BY <1>3, <1>4, <1>5, <1>6 DEF InboxInv

LEMMA WriteInbox ==
  ASSUME InboxInv, LateInv', NEW p \in Processes, Writes(p)
  PROVE  InboxInv'
<1>. PICK e \in batch(p), row \in LooseRow, tried \in SUBSET Events, wait \in Nat \cup {NoWait} :
       Says(e, sweep[p].held[e], row, tried) /\ write(p, e, row, wait, tried)
  BY DEF Writes
<1>1. e \in Events /\ there(e) /\ rows[e].outcome = "WAITING"
  BY DEF InboxInv, Claims, batch, there
<1>2. /\ rows' = [rows EXCEPT ![e] = row] /\ counted(tried)
      /\ sweep' = [sweep EXCEPT ![p] = [letGo(@, e) EXCEPT !.wait = wait]]
  BY <1>1 DEF write
<1>3. /\ \A q \in Processes \ {p} : sweep'[q] = sweep[q]
      /\ sweep'[p].held = [sweep[p].held EXCEPT ![e] = 0]
  BY <1>2 DEF InboxInv, LateInv, Loose, LooseSweep, letGo
<1>4. batch(p)' = batch(p) \ {e} /\ \A q \in Processes \ {p} : batch(q)' = batch(q)
  BY <1>3 DEF InboxInv, LateInv, Loose, LooseSweep, batch
<1>5. \A f \in Events \ {e} : rows'[f] = rows[f] /\ spent'[f] = spent[f]
  BY <1>1, <1>2 DEF InboxInv, LateInv, Loose, counted, Says
<1>6. rows'[e] = row /\ spent'[e] = IF tried = {} THEN spent[e] ELSE spent[e] + 1
  BY <1>1, <1>2 DEF InboxInv, LateInv, Loose, counted, Says
<1>7. row.attempts = spent'[e]
  <2>1. spent[e] \in Nat /\ rows[e].attempts = spent[e] + 1
    BY <1>1 DEF InboxInv, LateInv, Loose, Claims
  <2>2. \/ tried = {} /\ row.attempts = rows[e].attempts - 1
        \/ tried = {e} /\ row.attempts = rows[e].attempts
    BY DEF Says
  <2>. QED  BY <1>6, <2>1, <2>2
<1>8. \A q \in Processes : e \notin batch(q)'
  BY <1>4 DEF InboxInv, Alone
<1>9. Claims'
  <2>. SUFFICES ASSUME NEW q \in Processes, NEW f \in batch(q)'
                PROVE  /\ rows'[f].outcome = "WAITING" /\ rows'[f].due > 0
                       /\ rows'[f].attempts = sweep'[q].held[f]
                       /\ rows'[f].attempts = spent'[f] + 1
    BY DEF Claims
  <2>1. f \in batch(q) /\ f \in Events \ {e}
    BY <1>4, <1>8 DEF batch
  <2>2. sweep'[q].held[f] = sweep[q].held[f]
    BY <1>3, <2>1 DEF InboxInv, LateInv, Loose, LooseSweep
  <2>. QED  BY <1>5, <2>1, <2>2 DEF InboxInv, Claims
<1>10. Alone'
  BY <1>4 DEF InboxInv, Alone
<1>13. HeldNat'
  <2>. SUFFICES ASSUME NEW q \in Processes, NEW f \in Events
                PROVE  sweep'[q].held[f] >= 0
    BY DEF HeldNat
  <2>1. sweep[q].held[f] >= 0 /\ sweep[p].held \in [Events -> Int]
    BY DEF InboxInv, HeldNat, LateInv, Loose, LooseSweep
  <2>. QED  BY <1>1, <1>3, <2>1
<1>11. Free'
  BY <1>1, <1>4, <1>5, <1>6, <1>7, <1>8 DEF InboxInv, Free, there, Says, Done
<1>12. GivenUpForCause'
  BY <1>1, <1>5, <1>6, <1>7 DEF InboxInv, LateInv, Loose, Claims, GivenUpForCause, Says
<1>. QED  BY <1>9, <1>10, <1>11, <1>12, <1>13 DEF InboxInv

LEMMA ReceiveInbox ==
  ASSUME InboxInv, LateInv', NEW p \in Processes, NEW e \in Events, Receive(p, e)
  PROVE  InboxInv'
<1>1. CASE there(e)
  BY <1>1, DispatchHolds, Undisturbed DEF Receive, InboxInv
<1>2. CASE ~there(e)
  <2>1. /\ rows' = [rows EXCEPT ![e] = blank(IF e \in Ours THEN "WAITING" ELSE "IGNORED")]
        /\ spent' = [spent EXCEPT ![e] = 0]
        /\ dispatch(p, Due \cup {e}) \/ UNCHANGED sweep
    BY <1>2 DEF Receive
  <2>2. \A q \in Processes : sweep'[q].held = sweep[q].held
    BY <2>1, DispatchHolds DEF InboxInv
  <2>3. \A q \in Processes : batch(q)' = batch(q) /\ e \notin batch(q)
    BY <1>2, <2>2 DEF InboxInv, Claims, batch, there
  <2>4. \A f \in Events \ {e} : rows'[f] = rows[f] /\ spent'[f] = spent[f]
    BY <2>1 DEF InboxInv, LateInv, Loose
  <2>5. rows'[e].attempts = 0 /\ rows'[e].outcome # "GIVEN_UP" /\ spent'[e] = 0
    BY <2>1 DEF InboxInv, LateInv, Loose, blank
  <2>6. Claims' /\ Alone' /\ HeldNat'
    BY <2>2, <2>3, <2>4 DEF InboxInv, Claims, Alone, HeldNat, batch
  <2>7. Free' /\ GivenUpForCause'
    BY <2>3, <2>4, <2>5 DEF InboxInv, Free, GivenUpForCause, there
  <2>. QED  BY <2>6, <2>7 DEF InboxInv
<1>. QED  BY <1>1, <1>2

\* What is claimed was due, so nobody had it.
LEMMA ClaimInbox ==
  ASSUME InboxInv, LateInv', NEW p \in Processes, Claim(p)
  PROVE  InboxInv'
<1>1. PICK C \in SUBSET Due :
        /\ rows' = [e \in Events |-> IF e \in C THEN leased(rows[e]) ELSE rows[e]]
        /\ sweep' = [sweep EXCEPT ![p] =
              [@ EXCEPT !.phase = "WORKING", !.full = (Cardinality(C) = Batch),
                        !.held = [e \in Events |-> IF e \in C THEN rows[e].attempts + 1 ELSE 0]]]
  BY DEF Claim
<1>2. spent' = spent /\ sweep[p].phase = "CLAIMING"
  BY DEF Claim
<1>3. /\ \A q \in Processes \ {p} : sweep'[q] = sweep[q]
      /\ sweep'[p].held = [e \in Events |-> IF e \in C THEN rows[e].attempts + 1 ELSE 0]
  BY <1>1 DEF InboxInv, LateInv, Loose, LooseSweep
<1>4. \A e \in Events : rows[e].attempts \in Nat
  BY InboxTyped DEF TypeOK, Row
<1>5. batch(p)' = C /\ \A q \in Processes \ {p} : batch(q)' = batch(q)
  BY <1>3, <1>4 DEF batch, Due
<1>6. \A q \in Processes : \A e \in C : e \notin batch(q)
  BY DEF InboxInv, Claims, Due
<1>7. /\ \A e \in Events \ C : rows'[e] = rows[e]
      /\ \A e \in C : /\ rows'[e].outcome = "WAITING" /\ rows[e].outcome = "WAITING"
                      /\ rows'[e].due = Lease
                      /\ rows'[e].attempts = rows[e].attempts + 1
  BY <1>1 DEF InboxInv, LateInv, Loose, LooseRow, leased, Due
<1>8. \A e \in C : rows[e].attempts = spent[e] /\ e \in Events
  BY <1>6, <1>7 DEF InboxInv, Free, there, Due
<1>9. Claims'
  <2>. SUFFICES ASSUME NEW q \in Processes, NEW e \in batch(q)'
                PROVE  /\ rows'[e].outcome = "WAITING" /\ rows'[e].due > 0
                       /\ rows'[e].attempts = sweep'[q].held[e]
                       /\ rows'[e].attempts = spent[e] + 1
    BY <1>2 DEF Claims
  <2>1. CASE q = p
    BY <1>3, <1>5, <1>7, <1>8, <2>1, TimesAssumption
  <2>2. CASE q # p
    BY <1>3, <1>5, <1>6, <1>7, <2>2 DEF InboxInv, Claims, batch
  <2>. QED  BY <2>1, <2>2
<1>10. Alone'
  BY <1>5, <1>6 DEF InboxInv, Alone
<1>11. HeldNat'
  BY <1>3, <1>4 DEF InboxInv, HeldNat
<1>12. Free'
  <2>. SUFFICES ASSUME NEW e \in Events
                PROVE  /\ there(e)' /\ (\A q \in Processes : e \notin batch(q)')
                            => rows'[e].attempts = spent[e]
                       /\ ~there(e)' => rows'[e].attempts = 0
    BY <1>2 DEF Free
  <2>1. CASE e \in C
    BY <1>5, <1>7, <2>1 DEF there
  <2>2. CASE e \notin C
    <3>1. batch(p) = {}
      BY <1>2 DEF InboxInv, LateInv, AtHand
    <3>. QED  BY <1>5, <1>7, <2>2, <3>1 DEF InboxInv, Free, there
  <2>. QED  BY <2>1, <2>2
<1>13. GivenUpForCause'
  BY <1>2, <1>7 DEF InboxInv, GivenUpForCause
<1>. QED  BY <1>9, <1>10, <1>11, <1>12, <1>13 DEF InboxInv

\* Whatever is in a batch is there.
LEMMA TakeUpInbox ==
  ASSUME InboxInv, LateInv', NEW p \in Processes, TakeUp(p)
  PROVE  InboxInv'
<1>1. \A e \in batch(p) : there(e)
  BY DEF InboxInv, Claims, there
<1>2. PICK e \in batch(p) : sweep' = [sweep EXCEPT ![p].at = e] /\ UNCHANGED <<rows, spent>>
  BY <1>1 DEF TakeUp
<1>3. \A q \in Processes : sweep'[q].held = sweep[q].held
  BY <1>2 DEF InboxInv, LateInv, Loose, LooseSweep
<1>. QED  BY <1>2, <1>3, Undisturbed

LEMMA EndBatchInbox ==
  ASSUME InboxInv, LateInv', NEW p \in Processes, EndBatch(p)
  PROVE  InboxInv'
<1>1. /\ UNCHANGED <<rows, spent>> /\ batch(p) = {}
      /\ sweep' = [sweep EXCEPT ![p] = IF goesOn(@) THEN [idle EXCEPT !.phase = "CLAIMING"] ELSE idle]
  BY DEF EndBatch
<1>2. /\ \A q \in Processes \ {p} : sweep'[q] = sweep[q]
      /\ sweep'[p].held = none
  BY <1>1 DEF InboxInv, LateInv, Loose, idle
<1>3. \A q \in Processes : batch(q)' = batch(q)
  BY <1>1, <1>2 DEF batch, none
<1>4. HeldNat'
  BY <1>2 DEF InboxInv, HeldNat, none
<1>5. Claims'
  BY <1>1, <1>2, <1>3 DEF InboxInv, Claims
<1>. QED  BY <1>1, <1>3, <1>4, <1>5 DEF InboxInv, Alone, Free, GivenUpForCause, there

LEMMA PruneInbox ==
  ASSUME InboxInv, LateInv', Prune
  PROVE  InboxInv'
<1>1. /\ \A e \in Events : rows'[e] = IF old(rows[e]) THEN blank("PRUNED") ELSE rows[e]
      /\ UNCHANGED <<sweep, spent>>
  BY DEF Prune
<1>2. \A q \in Processes : batch(q)' = batch(q) /\ \A e \in batch(q) : rows'[e] = rows[e]
  BY <1>1 DEF InboxInv, Claims, batch, old, Done
<1>3. Claims' /\ Alone' /\ HeldNat'
  BY <1>1, <1>2 DEF InboxInv, Claims, Alone, HeldNat
<1>4. Free' /\ GivenUpForCause'
  BY <1>1, <1>2 DEF InboxInv, Free, GivenUpForCause, there, blank
<1>. QED  BY <1>3, <1>4 DEF InboxInv

\* Time passes no batch's lease, and only makes an event given up older.
LEMMA TickInbox ==
  ASSUME ~Late, InboxInv, LateInv', Tick
  PROVE  InboxInv'
<1>1. /\ inLease /\ spent' = spent
      /\ \A e \in Events : rows'[e] = older(rows[e]) /\ rows[e] \in LooseRow
      /\ \A q \in Processes : sweep'[q].held = sweep[q].held
  BY DEF Tick, InboxInv, LateInv, Loose, LooseSweep
<1>2. \A q \in Processes : batch(q)' = batch(q)
  BY <1>1 DEF batch
<1>3. \A e \in Events : rows'[e].outcome = rows[e].outcome /\ rows'[e].attempts = rows[e].attempts
                          /\ (rows[e].due > 1 => rows'[e].due > 0) /\ rows'[e].age >= rows[e].age
  BY <1>1, OlderLoose
<1>4. \A e \in Events : rows'[e].age \in Nat /\ rows[e].age \in Nat
  BY DEF InboxInv, LateInv, Loose, LooseRow
<1>5. Claims'
  BY <1>1, <1>2, <1>3 DEF InboxInv, Claims, inLease, batch
<1>6. Alone' /\ HeldNat' /\ Free'
  BY <1>1, <1>2, <1>3 DEF InboxInv, Alone, HeldNat, Free, there
<1>7. GivenUpForCause'
  BY <1>1, <1>3, <1>4, TimesAssumption DEF InboxInv, GivenUpForCause
<1>. QED  BY <1>5, <1>6, <1>7 DEF InboxInv

LEMMA InboxNext == ~Late => (InboxInv /\ [Next]_vars => InboxInv')
<1>. SUFFICES ASSUME ~Late, InboxInv, [Next]_vars
              PROVE  InboxInv'
  OBVIOUS
<1>1. LateInv'
  BY LateNext DEF InboxInv
<1>2. ASSUME NEW e \in Events, Happen(e)
      PROVE  InboxInv'
  BY <1>1, <1>2, Undisturbed DEF Happen
<1>3. ASSUME NEW p \in Processes, Routine(p)
      PROVE  InboxInv'
  BY <1>1, <1>3, DispatchHolds, Undisturbed DEF Routine, InboxInv
<1>4. ASSUME NEW p \in Processes, Step(p)
      PROVE  InboxInv'
  <2>1. CASE Finish(p) \/ PassOn(p)
    BY <1>1, <2>1, FinishWrites, PassOnWrites, WriteInbox DEF InboxInv
  <2>. QED  BY <1>1, <1>4, <2>1, ClaimInbox, TakeUpInbox, EndBatchInbox DEF Step
<1>5. ASSUME NEW p \in Processes, Stop(p)
      PROVE  InboxInv'
  BY <1>1, <1>5, AbandonInbox DEF Stop
<1>6. CASE UNCHANGED vars
  BY <1>1, <1>6, Undisturbed DEF vars
<1>. QED
  BY <1>1, <1>2, <1>3, <1>4, <1>5, <1>6, ReceiveInbox, PruneInbox, TickInbox DEF Next

\* The table is well typed: no try is given back that was not taken.
THEOREM TypeCorrect ==
  ASSUME ~Late
  PROVE  Spec => []TypeOK
BY InboxInit, InboxNext, InboxTyped, PTL DEF Spec

\* An event is given up for what it was tried, never for what it waited: parking and asking to wait
\* give the try of the claim back.
THEOREM GivenUpRightly ==
  ASSUME ~Late
  PROVE  Spec => []GivenUpForCause
<1>1. InboxInv => GivenUpForCause
  BY DEF InboxInv
<1>. QED  BY <1>1, InboxInit, InboxNext, PTL DEF Spec
-----------------------------------------------------------------------------
(* The promise of EventBook: each step of the inbox is one of the book's,  *)
(* or none of its business.                                                *)

LEMMA BookInit == Init => Book!Init
<1>. SUFFICES ASSUME Init
              PROVE  Book!Init
  OBVIOUS
<1>1. \A e \in Events : rows[e].outcome = "NONE"
  BY DEF Init, blank
<1>2. \A p \in Processes : batch(p) = {}
  BY DEF Init, idle, none, batch
<1>. QED  BY <1>1, <1>2 DEF Book!Init, standing, desk

\* The book tells two rows apart by their outcome alone, and two sweeps by what they hold.
LEMMA BookSame ==
  /\ (\A e \in Events : rows'[e].outcome = rows[e].outcome) => standing' = standing
  /\ (\A p \in Processes : sweep'[p].held = sweep[p].held) => desk' = desk
BY DEF standing, desk, batch

LEMMA BookAbandon ==
  ASSUME LateInv, NEW p \in Processes, abandon(p)
  PROVE  Book!Next
<1>1. /\ \A q \in Processes \ {p} : sweep'[q] = sweep[q]
      /\ \A e \in Events : sweep'[p].held[e] = 0
      /\ rows' = rows
  BY DEF LateInv, Loose, abandon, idle, none
<1>2. batch(p)' = {} /\ \A q \in Processes \ {p} : batch(q)' = batch(q)
  BY <1>1 DEF batch
<1>3. standing' = standing
  BY <1>1, BookSame
<1>4. desk' = [desk EXCEPT ![p] = @ \ batch(p)]
  BY <1>2 DEF desk
<1>5. Book!PutBack(p, batch(p)) /\ batch(p) \in SUBSET Events
  BY <1>3, <1>4 DEF Book!PutBack, desk, batch
<1>. QED  BY <1>5 DEF Book!Next

\* A row held is waiting: writing it settles the event, or puts it back.
LEMMA BookWrite ==
  ASSUME InboxInv, NEW p \in Processes, Writes(p)
  PROVE  Book!Next
<1>. PICK e \in batch(p), row \in LooseRow, tried \in SUBSET Events, wait \in Nat \cup {NoWait} :
       Says(e, sweep[p].held[e], row, tried) /\ write(p, e, row, wait, tried)
  BY DEF Writes
<1>1. e \in Events /\ there(e) /\ rows[e].outcome = "WAITING"
  BY DEF InboxInv, Claims, batch, there
<1>2. /\ rows' = [rows EXCEPT ![e] = row]
      /\ sweep' = [sweep EXCEPT ![p] = [letGo(@, e) EXCEPT !.wait = wait]]
  BY <1>1 DEF write
<1>3. /\ \A q \in Processes \ {p} : sweep'[q] = sweep[q]
      /\ sweep'[p].held = [sweep[p].held EXCEPT ![e] = 0]
  BY <1>2 DEF InboxInv, LateInv, Loose, LooseSweep, letGo
<1>4. batch(p)' = batch(p) \ {e} /\ \A q \in Processes \ {p} : batch(q)' = batch(q)
  BY <1>3 DEF InboxInv, LateInv, Loose, LooseSweep, batch
<1>5. desk' = [desk EXCEPT ![p] = @ \ {e}]
  BY <1>4 DEF desk
<1>6. rows'[e] = row /\ \A f \in Events \ {e} : rows'[f] = rows[f]
  BY <1>1, <1>2 DEF InboxInv, LateInv, Loose
<1>7. CASE row.outcome = "WAITING"
  <2>1. standing' = standing
    BY <1>1, <1>6, <1>7, BookSame
  <2>2. Book!PutBack(p, {e}) /\ {e} \in SUBSET Events
    BY <1>1, <1>5, <2>1 DEF Book!PutBack, desk
  <2>. QED  BY <2>2 DEF Book!Next
<1>8. CASE row.outcome # "WAITING"
  <2>1. row.outcome \in Done
    BY <1>1, <1>8 DEF Says
  <2>2. standing' = [standing EXCEPT ![e] = "DONE"]
    BY <1>6, <2>1 DEF standing, Done
  <2>3. Book!Settle(p, e)
    BY <1>5, <2>2 DEF Book!Settle, desk
  <2>. QED  BY <1>1, <2>3 DEF Book!Next
<1>. QED  BY <1>7, <1>8

LEMMA BookReceive ==
  ASSUME InboxInv, NEW p \in Processes, NEW e \in Events, Receive(p, e)
  PROVE  Book!Next \/ UNCHANGED <<standing, desk>>
<1>1. CASE there(e)
  BY <1>1, DispatchHolds, BookSame DEF Receive, InboxInv
<1>2. CASE ~there(e)
  <2>1. /\ rows' = [rows EXCEPT ![e] = blank(IF e \in Ours THEN "WAITING" ELSE "IGNORED")]
        /\ dispatch(p, Due \cup {e}) \/ UNCHANGED sweep
    BY <1>2 DEF Receive
  <2>2. desk' = desk
    BY <2>1, DispatchHolds, BookSame DEF InboxInv
  <2>3. rows[e].outcome = "NONE"
    BY <1>2, TimesAssumption DEF Receive, there, InboxInv, LateInv, AgeInv, Loose
  <2>4. \E s \in {"WAITING", "DONE"} : standing' = [standing EXCEPT ![e] = s]
    <3>1. /\ \A f \in Events \ {e} : rows'[f] = rows[f]
          /\ rows'[e].outcome = IF e \in Ours THEN "WAITING" ELSE "IGNORED"
      BY <2>1 DEF InboxInv, LateInv, Loose, blank
    <3>2. standing' = [standing EXCEPT ![e] = IF e \in Ours THEN "WAITING" ELSE "DONE"]
      BY <3>1 DEF standing
    <3>. QED  BY <3>2
  <2>5. Book!Write(e)
    BY <2>2, <2>3, <2>4 DEF Book!Write, standing
  <2>. QED  BY <2>5 DEF Book!Next
<1>. QED  BY <1>1, <1>2

\* A claim puts on its desk what waits and lies on none: what is due is leased to nobody.
LEMMA BookClaim ==
  ASSUME InboxInv, NEW p \in Processes, Claim(p)
  PROVE  Book!Next
<1>1. PICK C \in SUBSET Due :
        /\ rows' = [e \in Events |-> IF e \in C THEN leased(rows[e]) ELSE rows[e]]
        /\ sweep' = [sweep EXCEPT ![p] =
              [@ EXCEPT !.phase = "WORKING", !.full = (Cardinality(C) = Batch),
                        !.held = [e \in Events |-> IF e \in C THEN rows[e].attempts + 1 ELSE 0]]]
  BY DEF Claim
<1>2. batch(p) = {}
  BY DEF Claim, InboxInv, LateInv, AtHand
<1>3. /\ \A q \in Processes \ {p} : sweep'[q] = sweep[q]
      /\ sweep'[p].held = [e \in Events |-> IF e \in C THEN rows[e].attempts + 1 ELSE 0]
  BY <1>1 DEF InboxInv, LateInv, Loose, LooseSweep
<1>4. \A e \in Events : rows[e].attempts \in Nat
  BY InboxTyped DEF TypeOK, Row
<1>5. batch(p)' = C /\ \A q \in Processes \ {p} : batch(q)' = batch(q)
  BY <1>3, <1>4 DEF batch, Due
<1>6. desk' = [desk EXCEPT ![p] = @ \cup C]
  BY <1>2, <1>5 DEF desk
<1>7. standing' = standing
  BY <1>1, BookSame DEF InboxInv, LateInv, Loose, LooseRow, leased
<1>8. \A e \in C : standing[e] = "WAITING" /\ \A q \in Processes : e \notin desk[q]
  BY DEF InboxInv, Claims, Due, standing, desk
<1>9. Book!Take(p, C) /\ C \in SUBSET Events
  BY <1>6, <1>7, <1>8 DEF Book!Take, Due
<1>. QED  BY <1>9 DEF Book!Next

LEMMA BookPrune ==
  ASSUME InboxInv, Prune
  PROVE  Book!Next
<1>. DEFINE S == {e \in Events : old(rows[e])}
<1>1. /\ \A e \in Events : rows'[e] = IF old(rows[e]) THEN blank("PRUNED") ELSE rows[e]
      /\ UNCHANGED sweep
  BY DEF Prune
<1>2. \A e \in S : standing[e] = "DONE"
  BY DEF old, Done, standing
<1>3. standing' = [e \in Events |-> IF e \in S THEN "FORGOTTEN" ELSE standing[e]]
  BY <1>1 DEF standing, blank
<1>4. desk' = desk
  BY <1>1, BookSame
<1>5. Book!Forget(S) /\ S \in SUBSET Events
  BY <1>2, <1>3, <1>4 DEF Book!Forget
<1>. QED  BY <1>5 DEF Book!Next

LEMMA BookNext ==
  ASSUME InboxInv, [Next]_vars
  PROVE  [Book!Next]_(Book!vars)
<1>. SUFFICES Book!Next \/ UNCHANGED <<standing, desk>>
  BY DEF Book!vars
<1>1. ASSUME NEW e \in Events, Happen(e)
      PROVE  UNCHANGED <<standing, desk>>
  BY <1>1, BookSame DEF Happen
<1>2. ASSUME NEW p \in Processes, Routine(p)
      PROVE  UNCHANGED <<standing, desk>>
  BY <1>2, DispatchHolds, BookSame DEF Routine, InboxInv
<1>3. ASSUME NEW p \in Processes, TakeUp(p)
      PROVE  UNCHANGED <<standing, desk>>
  <2>1. PICK e \in batch(p) : sweep' = [sweep EXCEPT ![p].at = e] /\ UNCHANGED rows
    BY <1>3 DEF TakeUp, InboxInv, Claims, there
  <2>2. \A q \in Processes : sweep'[q].held = sweep[q].held
    BY <2>1 DEF InboxInv, LateInv, Loose, LooseSweep
  <2>. QED  BY <2>1, <2>2, BookSame
<1>4. ASSUME NEW p \in Processes, EndBatch(p)
      PROVE  UNCHANGED <<standing, desk>>
  <2>1. /\ UNCHANGED rows /\ batch(p) = {}
        /\ sweep' = [sweep EXCEPT ![p] = IF goesOn(@) THEN [idle EXCEPT !.phase = "CLAIMING"] ELSE idle]
    BY <1>4 DEF EndBatch
  <2>2. \A q \in Processes : batch(q)' = batch(q)
    BY <2>1 DEF InboxInv, LateInv, Loose, batch, idle, none
  <2>. QED  BY <2>1, <2>2, BookSame DEF desk
<1>5. ASSUME NEW p \in Processes, Step(p)
      PROVE  Book!Next \/ UNCHANGED <<standing, desk>>
  BY <1>3, <1>4, <1>5, BookClaim, FinishWrites, PassOnWrites, BookWrite DEF Step, InboxInv
<1>6. ASSUME NEW p \in Processes, Stop(p)
      PROVE  Book!Next
  BY <1>6, BookAbandon DEF Stop, InboxInv
<1>7. CASE Tick
  BY <1>7, OlderLoose, BookSame DEF Tick, InboxInv, LateInv, Loose, LooseSweep
<1>8. CASE UNCHANGED vars
  BY <1>8, BookSame DEF vars
<1>. QED
  BY <1>1, <1>2, <1>5, <1>6, <1>7, <1>8, BookReceive, BookPrune DEF Next

\* The inbox keeps what EventBook promises - an event written once, on one desk at a time, done for
\* good - while sweeps end within their lease and rows outlive Asaas's hold of the event.
THEOREM PromiseKept ==
  ASSUME ~Late
  PROVE  Spec => Promise
<1>1. InboxInv /\ [Next]_vars => [Book!Next]_(Book!vars)
  BY BookNext
<1>. QED  BY <1>1, BookInit, InboxInit, InboxNext, PTL DEF Spec, Promise, Book!Spec
=============================================================================
