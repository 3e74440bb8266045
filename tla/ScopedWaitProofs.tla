-------------------------- MODULE ScopedWaitProofs --------------------------
(***************************************************************************)
(* Proofs about ScopedWait, for every set of scopes and waiters: no bump   *)
(* is lost, and the receivers implement HerdWake's steps.                  *)
(***************************************************************************)
EXTENDS ScopedWait, TLAPS

(***************************************************************************)
(* What makes the loop's order safe.  A receiver never ran ahead of its    *)
(* sender, nor did the version the wait started from; and a waiter that    *)
(* went to sleep compared the aggregate after its last mark, so it has     *)
(* seen nothing newer than that version.                                   *)
(***************************************************************************)
Behind ==
  \A w \in Waiter : \A s \in Interest[w] : since[w][s] <= ctr[s] /\ seen[w][s] <= ctr[s]

AsleepBehind ==
  \A w \in Waiter : wpc[w] = "waiting" => \A s \in Interest[w] : seen[w][s] <= since[w][s]

\* Versions and receivers are kept per waiter (their scopes differ between waiters).
PerWaiter ==
  /\ since = [w \in Waiter |-> since[w]]
  /\ seen = [w \in Waiter |-> seen[w]]

ScopedIInv == ScopedTypeOK /\ PerWaiter /\ Behind /\ AsleepBehind

-----------------------------------------------------------------------------
\* The invariant holds before any wait.
LEMMA ScopedInitIInv == ScopedInit => ScopedIInv
  BY ScopedInterestType, MaxBumpType DEF ScopedInit, ScopedIInv, ScopedTypeOK, PerWaiter, Behind, AsleepBehind

\* A bump moves one counter up: whatever was behind stays behind.
LEMMA BumpScopeIInv == ASSUME ScopedIInv, NEW s \in Scope, BumpScope(s) PROVE ScopedIInv'
  BY ScopedInterestType, MaxBumpType DEF BumpScope, ScopedIInv, ScopedTypeOK, PerWaiter, Behind, AsleepBehind

\* A call starts from a version that was read earlier, and from fresh receivers.
LEMMA CallIInv ==
  ASSUME ScopedIInv, NEW w \in Waiter, NEW v \in [Interest[w] -> 0..MaxBump], Call(w, v)
  PROVE  ScopedIInv'
<1> USE DEF PerWaiter
<1>1. ScopedTypeOK' /\ PerWaiter'
  <2>1. v \in [Interest[w] -> Nat] /\ Aggregate(Interest[w]) \in [Interest[w] -> Nat]
    BY ScopedInterestType, MaxBumpType DEF ScopedIInv, ScopedTypeOK, Aggregate
  <2> QED BY <2>1, ScopedInterestType DEF Call, ScopedIInv, ScopedTypeOK
<1>2. Behind'
  <2> SUFFICES ASSUME NEW u \in Waiter, NEW s \in Interest[u]
               PROVE  since'[u][s] <= ctr[s] /\ seen'[u][s] <= ctr[s]
    BY DEF Call, Behind
  <2>1. CASE u # w
    BY <2>1 DEF Call, ScopedIInv, Behind
  <2>2. CASE u = w
    <3>1. since'[w] = v /\ seen'[w] = Aggregate(Interest[w])
      BY DEF Call, ScopedIInv
    <3>2. s \in Scope /\ ctr[s] \in Nat
      BY <2>2, ScopedInterestType DEF ScopedIInv, ScopedTypeOK
    <3> QED BY <2>2, <3>1, <3>2 DEF Call, Aggregate
  <2> QED BY <2>1, <2>2
<1>3. AsleepBehind'
  BY ScopedInterestType DEF Call, ScopedIInv, ScopedTypeOK, PerWaiter, AsleepBehind
<1> QED BY <1>1, <1>2, <1>3 DEF ScopedIInv

\* Marking brings one receiver up to its sender.
LEMMA MarkIInv ==
  ASSUME ScopedIInv, NEW w \in Waiter, NEW s \in Interest[w], Mark(w, s)
  PROVE  ScopedIInv'
<1> USE DEF PerWaiter
<1>0. s \in Scope /\ ctr[s] \in Nat /\ seen[w] \in [Interest[w] -> Nat]
  BY ScopedInterestType DEF ScopedIInv, ScopedTypeOK
<1>1. seen' = [u \in Waiter |-> IF u = w THEN [seen[w] EXCEPT ![s] = ctr[s]] ELSE seen[u]]
  BY DEF Mark, ScopedIInv
<1>2. ScopedTypeOK' /\ PerWaiter'
  <2>1. PerWaiter'
    BY <1>1 DEF Mark, ScopedIInv
  <2>2. [seen[w] EXCEPT ![s] = ctr[s]] \in [Interest[w] -> Nat]
    BY <1>0
  <2>3. \A u \in Waiter : since'[u] \in [Interest[u] -> Nat] /\ seen'[u] \in [Interest[u] -> Nat]
    BY <1>1, <2>2 DEF Mark, ScopedIInv, ScopedTypeOK
  <2>4. ctr' \in [Scope -> Nat] /\ wpc' \in [Waiter -> {"out", "marking", "waiting"}]
    BY DEF Mark, ScopedIInv, ScopedTypeOK
  <2>5. unmarked' \in [Waiter -> SUBSET Scope]
    BY DEF Mark, ScopedIInv, ScopedTypeOK
  <2> QED BY <2>1, <2>3, <2>4, <2>5 DEF ScopedTypeOK
<1>3. Behind'
  <2> SUFFICES ASSUME NEW u \in Waiter, NEW t \in Interest[u]
               PROVE  since[u][t] <= ctr[t] /\ seen'[u][t] <= ctr[t]
    BY DEF Mark, Behind
  <2>1. since[u][t] <= ctr[t] /\ seen[u][t] <= ctr[t]
    BY DEF ScopedIInv, Behind
  <2>2. seen'[u][t] = IF u = w /\ t = s THEN ctr[s] ELSE seen[u][t]
    BY <1>0, <1>1
  <2> QED BY <1>0, <2>1, <2>2
<1>4. AsleepBehind'
  BY <1>1 DEF Mark, ScopedIInv, ScopedTypeOK, AsleepBehind
<1> QED BY <1>2, <1>3, <1>4 DEF ScopedIInv

\* The comparison is what puts a waiter to sleep on a version nothing has passed.
LEMMA CompareIInv == ASSUME ScopedIInv, NEW w \in Waiter, Compare(w) PROVE ScopedIInv'
<1>1. ScopedTypeOK' /\ PerWaiter' /\ Behind'
  BY ScopedInterestType DEF Compare, ScopedIInv, ScopedTypeOK, PerWaiter, Behind
<1>2. AsleepBehind'
  <2> SUFFICES ASSUME NEW u \in Waiter, wpc'[u] = "waiting", NEW s \in Interest[u]
               PROVE  seen[u][s] <= since[u][s]
    BY DEF Compare, AsleepBehind
  <2>1. CASE u # w
    BY <2>1 DEF Compare, ScopedIInv, ScopedTypeOK, PerWaiter, AsleepBehind
  <2>2. CASE u = w
    <3>1. Aggregate(Interest[w]) = since[w]
      BY <2>2 DEF Compare, ScopedIInv, ScopedTypeOK, PerWaiter
    <3>2. since[w][s] = ctr[s]
      BY <2>2, <3>1 DEF Aggregate
    <3> QED BY <2>2, <3>2 DEF ScopedIInv, Behind
  <2> QED BY <2>1, <2>2
<1> QED BY <1>1, <1>2 DEF ScopedIInv

\* Leaving the select disturbs no value.
LEMMA ChangedIInv == ASSUME ScopedIInv, NEW w \in Waiter, Changed(w) PROVE ScopedIInv'
  BY ScopedInterestType DEF Changed, ScopedIInv, ScopedTypeOK, PerWaiter, Behind, AsleepBehind

LEMMA OtherArmIInv == ASSUME ScopedIInv, NEW w \in Waiter, OtherArm(w) PROVE ScopedIInv'
  BY ScopedInterestType DEF OtherArm, ScopedIInv, ScopedTypeOK, PerWaiter, Behind, AsleepBehind

\* Every step of the wait keeps the invariant.
LEMMA ScopedNextIInv == ScopedIInv /\ [ScopedNext]_scopedVars => ScopedIInv'
<1> SUFFICES ASSUME ScopedIInv, [ScopedNext]_scopedVars PROVE ScopedIInv'
  OBVIOUS
<1>1. CASE UNCHANGED scopedVars
  BY <1>1 DEF scopedVars, ScopedIInv, ScopedTypeOK, PerWaiter, Behind, AsleepBehind
<1>2. CASE ScopedNext
  BY <1>2, BumpScopeIInv, CallIInv, MarkIInv, CompareIInv, ChangedIInv, OtherArmIInv
     DEF ScopedNext
<1> QED BY <1>1, <1>2

LEMMA ScopedInvariance == ScopedSafety => []ScopedIInv
  BY ScopedInitIInv, ScopedNextIInv, PTL DEF ScopedSafety

-----------------------------------------------------------------------------
\* The wait state keeps its types (wait_park's receivers and versions).
THEOREM ScopedTypeCorrect == ScopedSafety => []ScopedTypeOK
<1>1. ScopedIInv => ScopedTypeOK
  BY DEF ScopedIInv
<1> QED BY <1>1, ScopedInvariance, PTL

(***************************************************************************)
(* The comment of wait_park for any number of scopes and waiters: a bump   *)
(* that lands between marking and sleeping is still pending on a receiver. *)
(***************************************************************************)
THEOREM NoWakeupLost == ScopedSafety => []NoLostWakeup
<1>1. ScopedIInv => NoLostWakeup
  <2> SUFFICES ASSUME ScopedIInv, NEW w \in Waiter, wpc[w] = "waiting", ~Notified(w)
               PROVE  Aggregate(Interest[w]) = since[w]
    BY DEF NoLostWakeup
  <2>1. \A s \in Interest[w] : ctr[s] = since[w][s]
    <3> SUFFICES ASSUME NEW s \in Interest[w] PROVE ctr[s] = since[w][s]
      OBVIOUS
    <3>1. ctr[s] \in Nat /\ since[w][s] \in Nat /\ seen[w][s] \in Nat
      BY ScopedInterestType DEF ScopedIInv, ScopedTypeOK
    <3>2. seen[w][s] = ctr[s] /\ seen[w][s] <= since[w][s] /\ since[w][s] <= ctr[s]
      BY DEF ScopedIInv, Behind, AsleepBehind, Notified
    <3> QED BY <3>1, <3>2
  <2>2. since[w] = [s \in Interest[w] |-> since[w][s]]
    BY DEF ScopedIInv, ScopedTypeOK, PerWaiter
  <2> QED BY <2>1, <2>2 DEF Aggregate
<1> QED BY <1>1, ScopedInvariance, PTL

(***************************************************************************)
(* Every step of the receivers is a step of HerdWake or leaves its state   *)
(* alone: what LongPoll assumes of a herd wake is what the channels do.    *)
(***************************************************************************)
THEOREM ScopedImplementsHerd ==
  ScopedSafety => HerdPromise!HerdInit /\ [][HerdPromise!HerdNext]_(HerdPromise!herdVars)
<1> DEFINE inside == [w \in Waiter |-> wpc[w] # "out"]
<1>1. ScopedInit => HerdPromise!HerdInit
  BY DEF ScopedInit, HerdPromise!HerdInit
<1>2. ScopedIInv /\ [ScopedNext]_scopedVars => [HerdPromise!HerdNext]_(HerdPromise!herdVars)
  <2> SUFFICES ASSUME ScopedIInv, [ScopedNext]_scopedVars
               PROVE  HerdPromise!HerdNext \/ UNCHANGED <<ctr, inside, since>>
    BY DEF HerdPromise!herdVars
  <2> USE DEF ScopedIInv, ScopedTypeOK, PerWaiter
  <2>1. ASSUME NEW s \in Scope, BumpScope(s) PROVE HerdPromise!HerdNext
    BY <2>1 DEF BumpScope, HerdPromise!HerdNext, HerdPromise!Bump
  <2>2. ASSUME NEW w \in Waiter, NEW v \in [Interest[w] -> 0..MaxBump], Call(w, v)
        PROVE  HerdPromise!HerdNext
    <3>1. since'[w] = v /\ v \in [Interest[w] -> Nat]
      BY <2>2, MaxBumpType DEF Call
    <3>2. inside' = [inside EXCEPT ![w] = TRUE]
      BY <2>2 DEF Call
    <3>3. HerdPromise!EnterWait(w, since'[w])
      BY <2>2, <3>1, <3>2 DEF Call, HerdPromise!EnterWait
    <3> QED BY <3>1, <3>3 DEF HerdPromise!HerdNext
  <2>3. ASSUME NEW w \in Waiter, NEW s \in Interest[w], Mark(w, s)
        PROVE  UNCHANGED <<ctr, inside, since>>
    BY <2>3 DEF Mark
  <2>4. ASSUME NEW w \in Waiter, Compare(w)
        PROVE  HerdPromise!HerdNext \/ UNCHANGED <<ctr, inside, since>>
    <3>1. CASE Aggregate(Interest[w]) # since[w]
      <4>1. inside[w] /\ inside' = [inside EXCEPT ![w] = FALSE]
        BY <2>4, <3>1 DEF Compare
      <4> QED BY <2>4, <4>1 DEF Compare, HerdPromise!HerdNext, HerdPromise!LeaveWait
    <3>2. CASE Aggregate(Interest[w]) = since[w]
      BY <2>4, <3>2 DEF Compare
    <3> QED BY <3>1, <3>2
  <2>5. ASSUME NEW w \in Waiter, Changed(w) PROVE UNCHANGED <<ctr, inside, since>>
    BY <2>5 DEF Changed
  <2>6. ASSUME NEW w \in Waiter, OtherArm(w) PROVE HerdPromise!HerdNext
    <3>1. inside[w] /\ inside' = [inside EXCEPT ![w] = FALSE]
      BY <2>6 DEF OtherArm
    <3> QED BY <2>6, <3>1 DEF OtherArm, HerdPromise!HerdNext, HerdPromise!LeaveWait
  <2>7. CASE UNCHANGED scopedVars
    BY <2>7 DEF scopedVars
  <2> QED BY <2>1, <2>2, <2>3, <2>4, <2>5, <2>6, <2>7 DEF ScopedNext
<1> QED BY <1>1, <1>2, ScopedInvariance, PTL DEF ScopedSafety

-----------------------------------------------------------------------------
\* The wait's safety in one: its types, and no bump lost between comparing and sleeping.
THEOREM ScopedWaitIsSafe == ScopedSafety => []ScopedSafe
<1>1. ScopedTypeOK /\ NoLostWakeup => ScopedSafe
  BY DEF ScopedSafe
<1> QED BY <1>1, ScopedTypeCorrect, NoWakeupLost, PTL
=============================================================================
