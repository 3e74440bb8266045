----------------------------- MODULE ScopedWait -----------------------------
(***************************************************************************)
(* The scoped versions on tokio watch channels: Versions of                *)
(* crates/coordinator/src/versions.rs, and wait_park / any_changed of      *)
(* api/wake.rs.  A receiver remembers the value it has seen; `changed`     *)
(* fires when its channel moved past it.  The loop marks every receiver    *)
(* seen, then re-reads the aggregate, then sleeps.                         *)
(*                                                                         *)
(* Each access of a channel is a step: bumps come from other threads       *)
(* between any two of them.  The aggregate reads several counters one      *)
(* after the other; counters only grow, so reading them in one step gives  *)
(* the same answers.                                                       *)
(***************************************************************************)
EXTENDS Naturals

CONSTANTS Scope, Waiter, Interest,
          MaxBump   \* bound on each scope's counter

ASSUME ScopedInterestType == Interest \in [Waiter -> SUBSET Scope]
ASSUME MaxBumpType == MaxBump \in Nat

VARIABLES ctr,       \* the watch senders' values, 0 for a scope not created yet
          wpc,       \* where a waiter is in wait_park
          since,     \* the version it was called with
          unmarked,  \* receivers not yet marked in this round
          seen       \* the value each of its receivers has seen

scopedVars == <<ctr, wpc, since, unmarked, seen>>

Aggregate(S) == [s \in S |-> ctr[s]]

ScopedInit ==
  /\ ctr = [s \in Scope |-> 0]
  /\ wpc = [w \in Waiter |-> "out"]
  /\ since = [w \in Waiter |-> [s \in Interest[w] |-> 0]]
  /\ unmarked = [w \in Waiter |-> {}]
  /\ seen = [w \in Waiter |-> [s \in Interest[w] |-> 0]]

\* `self.sender(s).send_modify(|v| *v += 1)`.
BumpScope(s) ==
  /\ ctr[s] < MaxBump
  /\ ctr' = [ctr EXCEPT ![s] = @ + 1]
  /\ UNCHANGED <<wpc, since, unmarked, seen>>

\* wait_park subscribes to its scopes; each receiver starts at the current value.
\* The version it is given was read from the counters earlier.
Call(w, v) ==
  /\ wpc[w] = "out"
  /\ \A s \in Interest[w] : v[s] <= ctr[s]
  /\ wpc' = [wpc EXCEPT ![w] = "marking"]
  /\ since' = [since EXCEPT ![w] = v]
  /\ unmarked' = [unmarked EXCEPT ![w] = Interest[w]]
  /\ seen' = [seen EXCEPT ![w] = Aggregate(Interest[w])]
  /\ UNCHANGED ctr

\* `rx.borrow_and_update()`
Mark(w, s) ==
  /\ wpc[w] = "marking"
  /\ s \in unmarked[w]
  /\ seen' = [seen EXCEPT ![w][s] = ctr[s]]
  /\ unmarked' = [unmarked EXCEPT ![w] = @ \ {s}]
  /\ UNCHANGED <<ctr, wpc, since>>

\* Mutant of Compare: sleeps without re-reading the aggregate.
SleepUnchecked(w) ==
  /\ wpc[w] = "marking"
  /\ unmarked[w] = {}
  /\ wpc' = [wpc EXCEPT ![w] = "waiting"]
  /\ UNCHANGED <<ctr, since, unmarked, seen>>

\* `if st.versions.aggregate(scopes) != since { return Woke::Herd }`, else select.
Compare(w) ==
  /\ wpc[w] = "marking"
  /\ unmarked[w] = {}
  /\ wpc' = [wpc EXCEPT ![w] = IF Aggregate(Interest[w]) # since[w] THEN "out" ELSE "waiting"]
  /\ UNCHANGED <<ctr, since, unmarked, seen>>

\* Mutant of Notified: waits until every receiver has changed.
AllNotified(w) == \A s \in Interest[w] : seen[w][s] # ctr[s]

\* A receiver of w has a value it has not seen.
Notified(w) == \E s \in Interest[w] : seen[w][s] # ctr[s]

\* any_changed resolves: the loop starts over.
Changed(w) ==
  /\ wpc[w] = "waiting"
  /\ Notified(w)
  /\ wpc' = [wpc EXCEPT ![w] = "marking"]
  /\ unmarked' = [unmarked EXCEPT ![w] = Interest[w]]
  /\ UNCHANGED <<ctr, since, seen>>

\* The other arms of the select (personal wake, preemption, hold elapsed), and the
\* handler's future dropped at that await.
OtherArm(w) ==
  /\ wpc[w] = "waiting"
  /\ wpc' = [wpc EXCEPT ![w] = "out"]
  /\ UNCHANGED <<ctr, since, unmarked, seen>>

ScopedNext ==
  \/ \E s \in Scope : BumpScope(s)
  \/ \E w \in Waiter : \/ \E v \in [Interest[w] -> 0..MaxBump] : Call(w, v)
                       \/ \E s \in Interest[w] : Mark(w, s)
                       \/ Compare(w)
                       \/ Changed(w)
                       \/ OtherArm(w)

ScopedSafety == ScopedInit /\ [][ScopedNext]_scopedVars

\* A task that is not waiting runs; a waiting one is polled once notified.
ScopedFairness ==
  \A w \in Waiter : /\ \A s \in Interest[w] : WF_scopedVars(Mark(w, s))
                    /\ WF_scopedVars(Compare(w))
                    /\ WF_scopedVars(Changed(w))

ScopedSpec == ScopedSafety /\ ScopedFairness

-----------------------------------------------------------------------------
\* Type invariant of the wait state.
ScopedTypeOK ==
  /\ ctr \in [Scope -> Nat]
  /\ wpc \in [Waiter -> {"out", "marking", "waiting"}]
  /\ unmarked \in [Waiter -> SUBSET Scope]
  /\ \A w \in Waiter : /\ since[w] \in [Interest[w] -> Nat]
                       /\ seen[w] \in [Interest[w] -> Nat]

(***************************************************************************)
(* "a bump that lands in the gap is still pending on its receiver (no lost *)
(* wakeup)": a waiter asleep with nothing pending on any receiver has the  *)
(* current version of all its scopes.                                      *)
(***************************************************************************)
NoLostWakeup ==
  \A w \in Waiter : wpc[w] = "waiting" /\ ~Notified(w) => Aggregate(Interest[w]) = since[w]

(***************************************************************************)
(* The promise HerdWake states, under the same notion of being inside      *)
(* wait_park: safety and the fairness of herd wakes.                       *)
(***************************************************************************)
HerdPromise == INSTANCE HerdWake WITH on <- [w \in Waiter |-> wpc[w] # "out"], base <- since

ImplementsHerdWake == HerdPromise!HerdSpec

\* What the wait keeps at every step: no bump is lost between marking, comparing and sleeping.
ScopedSafe == ScopedTypeOK /\ NoLostWakeup
=============================================================================
