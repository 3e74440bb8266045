------------------------------- MODULE Wakers -------------------------------
(***************************************************************************)
(* The targeted-wake registry: Wakers, WakersInner and Waker of            *)
(* crates/coordinator/src/api/wake.rs.  One map under one lock; an entry   *)
(* is a watch sender plus a flag.  Each method holds the lock throughout,  *)
(* so it is one step; a receiver is dropped outside the lock, with the     *)
(* handler that owns it.                                                   *)
(***************************************************************************)
EXTENDS Naturals, FiniteSets, Requests

CONSTANTS GcEvery  \* WAKERS_GC_EVERY: the sweep runs on every GcEvery-th subscribe

ASSUME GcEveryType == GcEvery \in Nat \ {0}

VARIABLES entries,    \* devices with a Waker in `map`
          pending,    \* entries whose `pending` flag is set
          listening,  \* requests holding a live receiver
          closed,     \* receivers whose sender was dropped with its entry
          unseen,     \* receivers with a value they have not seen
          woken,      \* `woken_while_away` as a request was told
          subs        \* the subscribe counter (it divides 2^32 evenly, so modulo GcEvery)

wakersVars == <<entries, pending, listening, closed, unseen, woken, subs>>

\* The receivers a sender's `receiver_count` counts, and its `send_modify` reaches.
Receivers(d) == {r \in listening \ closed : Owner[r] = d}

\* The receivers left without a sender when only the entries in K are kept.
Orphans(K) == {r \in listening : Owner[r] \notin K}

WakersInit ==
  /\ entries = {} /\ pending = {} /\ listening = {} /\ closed = {} /\ unseen = {}
  /\ woken = [r \in Req |-> FALSE]
  /\ subs = 0

\* Mutant of Swept: keeps only the entries that owe a wake.
SweptListening == entries \cap pending

\* The sweep's retain condition.
Swept == {d \in entries : Receivers(d) # {} \/ d \in pending}

\* Mutant of Subscribe: reports the flag without taking it.
SubscribePeeking(r) ==
  LET kept == IF subs + 1 = GcEvery THEN Swept ELSE entries IN
  /\ r \notin listening
  /\ subs' = (subs + 1) % GcEvery
  /\ entries' = kept \cup {Owner[r]}
  /\ closed' = closed \cup Orphans(kept)
  /\ woken' = [woken EXCEPT ![r] = Owner[r] \in pending \cap kept]
  /\ pending' = pending \cap kept
  /\ listening' = listening \cup {r}
  /\ UNCHANGED unseen

\* Count, sweep when due, take the flag, hand out a receiver at the current value.
Subscribe(r) ==
  LET kept == IF subs + 1 = GcEvery THEN Swept ELSE entries IN
  /\ r \notin listening
  /\ subs' = (subs + 1) % GcEvery
  /\ entries' = kept \cup {Owner[r]}
  /\ closed' = closed \cup Orphans(kept)
  /\ woken' = [woken EXCEPT ![r] = Owner[r] \in pending \cap kept]
  /\ pending' = (pending \cap kept) \ {Owner[r]}
  /\ listening' = listening \cup {r}
  /\ UNCHANGED unseen

\* Bump the sender; remember the wake when no receiver took it.
Wake(d) ==
  /\ entries' = entries \cup {d}
  /\ unseen' = unseen \cup Receivers(d)
  /\ pending' = IF Receivers(d) = {} THEN pending \cup {d} ELSE pending
  /\ UNCHANGED <<listening, closed, woken, subs>>

\* The reaper's sweep, given the devices it found present a moment earlier.
Retain(present) ==
  LET kept == {d \in entries : d \in present \/ Receivers(d) # {}} IN
  /\ entries' = kept
  /\ pending' = pending \cap kept
  /\ closed' = closed \cup Orphans(kept)
  /\ UNCHANGED <<listening, unseen, woken, subs>>

\* `personal.changed()` resolves in wait_park.
Consume(r) ==
  /\ r \in unseen
  /\ unseen' = unseen \ {r}
  /\ UNCHANGED <<entries, pending, listening, closed, woken, subs>>

\* The handler returns, or its future is dropped.
DropReceiver(r) ==
  /\ r \in listening
  /\ listening' = listening \ {r}
  /\ closed' = closed \ {r}
  /\ unseen' = unseen \ {r}
  /\ woken' = [woken EXCEPT ![r] = FALSE]
  /\ UNCHANGED <<entries, pending, subs>>

WakersNext ==
  \/ \E r \in Req : Subscribe(r) \/ Consume(r) \/ DropReceiver(r)
  \/ \E d \in Device : Wake(d)
  \/ \E present \in SUBSET Device : Retain(present)

WakersSpec == WakersInit /\ [][WakersNext]_wakersVars

-----------------------------------------------------------------------------
\* Type invariant of the registry.
WakersTypeOK ==
  /\ entries \subseteq Device
  /\ pending \subseteq entries
  /\ listening \subseteq Req
  /\ closed \subseteq listening
  /\ unseen \subseteq listening
  /\ woken \in [Req -> BOOLEAN]
  /\ subs \in 0..(GcEvery - 1)

(***************************************************************************)
(* No sweep ever drops the sender of a request still in flight.  If one    *)
(* did, wait_park would see its `changed()` fail, count the hold as        *)
(* elapsed, and later wakes would go to a channel nobody reads.            *)
(***************************************************************************)
SendersOutlive == closed = {} /\ \A r \in listening : Owner[r] \in entries

(***************************************************************************)
(* A recorded wake is owed only to a device with no request in flight:     *)
(* the flag is consumed by the very next subscribe, never by a later one   *)
(* that would refuse to park for a wake already delivered.                 *)
(***************************************************************************)
PendingOnlyWhileAway == \A d \in pending : Receivers(d) = {}

(***************************************************************************)
(* "A wake fired while nothing was parked" stays owed until the device's   *)
(* own next subscribe is told of it, or the reaper found the device gone.  *)
(***************************************************************************)
Collected(d) ==
  \/ \E r \in listening' \ listening : Owner[r] = d /\ woken'[r]
  \/ \E present \in SUBSET (Device \ {d}) : Retain(present)

OwedWakeCollected == [][\A d \in pending \ pending' : Collected(d)]_wakersVars

\* The sweeps are invisible: the registry does what TargetedWake promises.
WakePromise == INSTANCE TargetedWake

ImplementsTargetedWake == WakePromise!TargetedSpec

\* What the registry keeps at every step: no sweep drops a sender somebody listens to, and a
\* wake is owed only to a device that is away.
WakersSafe == WakersTypeOK /\ SendersOutlive /\ PendingOnlyWhileAway
=============================================================================
