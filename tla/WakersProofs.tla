---------------------------- MODULE WakersProofs ----------------------------
(***************************************************************************)
(* Proofs about Wakers, for any devices, requests and sweep interval.      *)
(***************************************************************************)
EXTENDS Wakers, TLAPS

\* The registry's invariant: it is inductive as it stands.
WakersIInv == WakersTypeOK /\ SendersOutlive /\ PendingOnlyWhileAway

\* The counter stays below the interval whatever the interval is.
LEMMA CounterWraps ==
  ASSUME NEW n \in 0..(GcEvery - 1) PROVE (n + 1) % GcEvery \in 0..(GcEvery - 1)
  BY GcEveryType

\* A sweep keeps every entry a receiver listens on, so it orphans nobody.
LEMMA SweepOrphansNobody == ASSUME WakersIInv PROVE Orphans(Swept) = {} /\ Orphans(entries) = {}
  BY DEF WakersIInv, SendersOutlive, Orphans, Swept, Receivers

\* It also keeps every entry that owes a wake.
LEMMA SweepKeepsPending == ASSUME WakersIInv PROVE pending \subseteq Swept
  BY DEF WakersIInv, WakersTypeOK, Swept

-----------------------------------------------------------------------------
LEMMA WakersInitIInv == WakersInit => WakersIInv
<1>1. WakersInit => WakersTypeOK
  BY GcEveryType DEF WakersInit, WakersTypeOK
<1>2. WakersInit => SendersOutlive /\ PendingOnlyWhileAway
  BY DEF WakersInit, SendersOutlive, PendingOnlyWhileAway
<1> QED BY <1>1, <1>2 DEF WakersIInv

\* Only the subscriber's own flag is taken, and its entry exists from here on.
LEMMA SubscribeIInv == ASSUME WakersIInv, NEW r \in Req, Subscribe(r) PROVE WakersIInv'
<1> DEFINE kept == IF subs + 1 = GcEvery THEN Swept ELSE entries
<1>1. Orphans(kept) = {} /\ pending \subseteq kept /\ kept \subseteq entries
  BY SweepOrphansNobody, SweepKeepsPending DEF Swept, WakersIInv, WakersTypeOK
<1>2. /\ entries' = kept \cup {Owner[r]}
      /\ closed' = {}
      /\ pending' = pending \ {Owner[r]}
      /\ listening' = listening \cup {r}
      /\ unseen' = unseen
      /\ subs' = (subs + 1) % GcEvery
      /\ woken' \in [Req -> BOOLEAN]
  BY <1>1 DEF Subscribe, WakersIInv, SendersOutlive, WakersTypeOK
<1>3. subs' \in 0..(GcEvery - 1)
  BY <1>2, CounterWraps DEF WakersIInv, WakersTypeOK
<1>4. WakersTypeOK'
  BY <1>1, <1>2, <1>3, OwnerType DEF WakersIInv, WakersTypeOK
<1>5. SendersOutlive'
  BY <1>1, <1>2 DEF WakersIInv, SendersOutlive, Orphans
<1>6. PendingOnlyWhileAway'
  BY <1>2 DEF WakersIInv, SendersOutlive, PendingOnlyWhileAway, Receivers
<1> QED BY <1>4, <1>5, <1>6 DEF WakersIInv

\* The flag is set only when the bump reached no receiver.
LEMMA WakeIInv == ASSUME WakersIInv, NEW d \in Device, Wake(d) PROVE WakersIInv'
  BY DEF Wake, WakersIInv, WakersTypeOK, SendersOutlive, PendingOnlyWhileAway, Receivers

\* The reaper's sweep spares entries with receivers, present or not.
LEMMA RetainIInv == ASSUME WakersIInv, NEW P \in SUBSET Device, Retain(P) PROVE WakersIInv'
<1> DEFINE kept == {d \in entries : d \in P \/ Receivers(d) # {}}
<1>1. Orphans(kept) = {}
  BY DEF WakersIInv, SendersOutlive, Orphans, Receivers
<1>2. /\ entries' = kept /\ pending' = pending \cap kept /\ closed' = closed
      /\ listening' = listening /\ unseen' = unseen /\ woken' = woken /\ subs' = subs
  BY <1>1 DEF Retain
<1>3. WakersTypeOK'
  BY <1>2 DEF WakersIInv, WakersTypeOK
<1>4. SendersOutlive' /\ PendingOnlyWhileAway'
  BY <1>1, <1>2 DEF WakersIInv, SendersOutlive, PendingOnlyWhileAway, Receivers, Orphans
<1> QED BY <1>3, <1>4 DEF WakersIInv

LEMMA ConsumeIInv == ASSUME WakersIInv, NEW r \in Req, Consume(r) PROVE WakersIInv'
  BY DEF Consume, WakersIInv, WakersTypeOK, SendersOutlive, PendingOnlyWhileAway, Receivers

LEMMA DropReceiverIInv == ASSUME WakersIInv, NEW r \in Req, DropReceiver(r) PROVE WakersIInv'
  BY DEF DropReceiver, WakersIInv, WakersTypeOK, SendersOutlive, PendingOnlyWhileAway, Receivers

\* Every method keeps the invariant.
LEMMA WakersNextIInv == WakersIInv /\ [WakersNext]_wakersVars => WakersIInv'
<1> SUFFICES ASSUME WakersIInv, [WakersNext]_wakersVars PROVE WakersIInv'
  OBVIOUS
<1>1. CASE UNCHANGED wakersVars
  BY <1>1 DEF wakersVars, WakersIInv, WakersTypeOK, SendersOutlive, PendingOnlyWhileAway, Receivers
<1>2. CASE WakersNext
  BY <1>2, SubscribeIInv, WakeIInv, RetainIInv, ConsumeIInv, DropReceiverIInv DEF WakersNext
<1> QED BY <1>1, <1>2

LEMMA WakersInvariance == WakersSpec => []WakersIInv
  BY WakersInitIInv, WakersNextIInv, PTL DEF WakersSpec

-----------------------------------------------------------------------------
\* The registry's types, for every sweep interval.
THEOREM WakersTypeCorrect == WakersSpec => []WakersTypeOK
<1>1. WakersIInv => WakersTypeOK
  BY DEF WakersIInv
<1> QED BY <1>1, WakersInvariance, PTL

\* No sweep closes the channel of a request in flight.
THEOREM SendersNeverDropped == WakersSpec => []SendersOutlive
<1>1. WakersIInv => SendersOutlive
  BY DEF WakersIInv
<1> QED BY <1>1, WakersInvariance, PTL

\* A recorded wake is never also a delivered one.
THEOREM PendingMeansAway == WakersSpec => []PendingOnlyWhileAway
<1>1. WakersIInv => PendingOnlyWhileAway
  BY DEF WakersIInv
<1> QED BY <1>1, WakersInvariance, PTL

(***************************************************************************)
(* A recorded wake leaves the registry only by its own device's next       *)
(* subscribe, which is told of it, or with a device the reaper did not     *)
(* find present.                                                           *)
(***************************************************************************)
THEOREM OwedWakesCollected == WakersSpec => OwedWakeCollected
<1>1. WakersIInv /\ [WakersNext]_wakersVars
        => [\A d \in pending \ pending' : Collected(d)]_wakersVars
  <2> SUFFICES ASSUME WakersIInv, WakersNext, NEW d \in pending, d \notin pending'
               PROVE  Collected(d)
    OBVIOUS
  <2> USE DEF Collected
  <2>1. ASSUME NEW r \in Req, Subscribe(r) PROVE Collected(d)
    <3>1. pending \cap (IF subs + 1 = GcEvery THEN Swept ELSE entries) = pending
      BY SweepKeepsPending DEF WakersIInv, WakersTypeOK
    <3>2. Owner[r] = d /\ r \in listening' \ listening
      BY <2>1, <3>1 DEF Subscribe
    <3>3. woken'[r]
      BY <2>1, <3>1, <3>2 DEF Subscribe, WakersIInv, WakersTypeOK
    <3> QED BY <3>2, <3>3
  <2>2. ASSUME NEW P \in SUBSET Device, Retain(P) PROVE Collected(d)
    <3>1. d \notin P
      BY <2>2 DEF Retain, WakersIInv, WakersTypeOK
    <3>2. P \in SUBSET (Device \ {d})
      BY <3>1
    <3> QED BY <2>2, <3>2
  <2>3. ASSUME NEW e \in Device, Wake(e) PROVE FALSE
    BY <2>3 DEF Wake
  <2>4. ASSUME NEW r \in Req, Consume(r) \/ DropReceiver(r) PROVE FALSE
    BY <2>4 DEF Consume, DropReceiver
  <2> QED BY <2>1, <2>2, <2>3, <2>4 DEF WakersNext
<1> QED BY <1>1, WakersInvariance, PTL DEF WakersSpec, OwedWakeCollected

(***************************************************************************)
(* The sweep of Subscribe and the reaper's Retain never lose a wake that   *)
(* is still owed: every step is one of TargetedWake's.                     *)
(***************************************************************************)
THEOREM WakersImplementTargetedWake == WakersSpec => ImplementsTargetedWake
<1>1. WakersInit => WakePromise!TargetedInit
  BY DEF WakersInit, WakePromise!TargetedInit
<1>2. WakersIInv /\ [WakersNext]_wakersVars => [WakePromise!TargetedNext]_(WakePromise!targetedVars)
  <2> SUFFICES ASSUME WakersIInv, [WakersNext]_wakersVars
               PROVE  WakePromise!TargetedNext \/ UNCHANGED <<listening, unseen, pending>>
    BY DEF WakePromise!targetedVars
  <2> USE DEF WakePromise!TargetedNext
  <2>1. ASSUME NEW r \in Req, Subscribe(r) PROVE WakePromise!Subscribe(r)
    <3>1. pending \cap (IF subs + 1 = GcEvery THEN Swept ELSE entries) = pending
      BY SweepKeepsPending DEF WakersIInv, WakersTypeOK
    <3> QED BY <2>1, <3>1 DEF Subscribe, WakePromise!Subscribe
  <2>2. ASSUME NEW d \in Device, Wake(d) PROVE WakePromise!WakeAll({d})
    <3>1. Receivers(d) = WakePromise!Listeners(d)
      BY DEF Receivers, WakePromise!Listeners, WakersIInv, SendersOutlive
    <3>2. {r \in listening : Owner[r] \in {d}} = Receivers(d)
      BY DEF Receivers, WakersIInv, SendersOutlive
    <3>3. {e \in {d} : WakePromise!Listeners(e) = {}} = IF Receivers(d) = {} THEN {d} ELSE {}
      BY <3>1
    <3> QED BY <2>2, <3>2, <3>3 DEF Wake, WakePromise!WakeAll
  <2>3. ASSUME NEW P \in SUBSET Device, Retain(P)
        PROVE  \E W \in SUBSET Device : WakePromise!Forget(W)
    <3> DEFINE gone == Device \ {d \in entries : d \in P \/ Receivers(d) # {}}
    <3>1. pending' = pending \ gone
      BY <2>3 DEF Retain, WakersIInv, WakersTypeOK
    <3>2. gone \in SUBSET Device
      OBVIOUS
    <3> HIDE DEF gone
    <3> QED BY <2>3, <3>1, <3>2 DEF Retain, WakePromise!Forget
  <2>4. ASSUME NEW r \in Req, Consume(r) PROVE WakePromise!Consume(r)
    BY <2>4 DEF Consume, WakePromise!Consume
  <2>5. ASSUME NEW r \in Req, DropReceiver(r) PROVE WakePromise!Unsubscribe(r)
    BY <2>5 DEF DropReceiver, WakePromise!Unsubscribe
  <2>6. CASE UNCHANGED wakersVars
    BY <2>6 DEF wakersVars
  <2> QED BY <2>1, <2>2, <2>3, <2>4, <2>5, <2>6 DEF WakersNext
<1> QED BY <1>1, <1>2, WakersInvariance, PTL DEF WakersSpec, ImplementsTargetedWake, WakePromise!TargetedSpec

-----------------------------------------------------------------------------
\* The registry's safety in one: types, no dropped sender, no wake owed to a device that listens.
THEOREM WakersAreSafe == WakersSpec => []WakersSafe
<1>1. WakersIInv => WakersSafe
  BY DEF WakersIInv, WakersSafe
<1> QED BY <1>1, WakersInvariance, PTL
=============================================================================
