------------------------------ MODULE MCWaits ------------------------------
(***************************************************************************)
(* The three lock-level components of the long poll.  They share no state, *)
(* so a behaviour of this instance is a behaviour of one of them: `focus`  *)
(* names it, and the other two rest in their initial states, where their   *)
(* fairness asks nothing of them.                                          *)
(*   park   : three requests of one device and one of another on three     *)
(*            permits, so a park can be displaced, displaced again while   *)
(*            the first signal is under way, and refused by the ceiling;   *)
(*   scoped : two waiters that share one guild scope, one of which also    *)
(*            waits on its user scope, so marking takes several steps;     *)
(*   wakers : a sweep on every second subscribe, so that it meets entries  *)
(*            that listen, entries that owe a wake and entries that do     *)
(*            neither.                                                     *)
(***************************************************************************)
EXTENDS ParkSlots, ScopedWait, Wakers, TLC

CONSTANTS d1, d2, d3, r1, r2, r3, r4, guild, user, w1, w2

MCDevice == {d1, d2, d3}
MCReq == {r1, r2, r3, r4}
MCOwner == r1 :> d1 @@ r2 :> d1 @@ r3 :> d1 @@ r4 :> d2
MCScope == {guild, user}
MCWaiter == {w1, w2}
MCInterest == w1 :> {guild, user} @@ w2 :> {guild}

VARIABLE focus

MCInit ==
  /\ focus \in {"park", "scoped", "wakers"}
  /\ ParkInit /\ ScopedInit /\ WakersInit

MCNext ==
  \/ focus = "park" /\ ParkNext /\ UNCHANGED <<scopedVars, wakersVars, focus>>
  \/ focus = "scoped" /\ ScopedNext /\ UNCHANGED <<parkVars, wakersVars, focus>>
  \/ focus = "wakers" /\ WakersNext /\ UNCHANGED <<parkVars, scopedVars, focus>>

MCSpec ==
  /\ MCInit /\ [][MCNext]_<<parkVars, scopedVars, wakersVars, focus>>
  /\ ParkFairness /\ ScopedFairness
=============================================================================
