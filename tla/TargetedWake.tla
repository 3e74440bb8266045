---------------------------- MODULE TargetedWake ----------------------------
(***************************************************************************)
(* What the targeted-wake registry promises: a wake of a device reaches    *)
(* every request it has in flight, or is recorded until its next request.  *)
(* Abstracts Wakers of crates/coordinator/src/api/wake.rs, which           *)
(* implements it with a map it keeps sweeping; LongPoll wakes with it.     *)
(***************************************************************************)
CONSTANTS Device, Req, Owner

VARIABLES listening,  \* requests that hold a receiver
          unseen,     \* those of them with a wake they have not consumed
          pending     \* devices owed a wake that found none of their requests

targetedVars == <<listening, unseen, pending>>

Listeners(d) == {r \in listening : Owner[r] = d}

TargetedInit == listening = {} /\ unseen = {} /\ pending = {}

Subscribe(r) ==
  /\ r \notin listening
  /\ listening' = listening \cup {r}
  /\ unseen' = unseen
  /\ pending' = pending \ {Owner[r]}

\* Several targets are woken one after the other; W is the set woken by then.
WakeAll(W) ==
  /\ unseen' = unseen \cup {r \in listening : Owner[r] \in W}
  /\ pending' = pending \cup {d \in W : Listeners(d) = {}}
  /\ UNCHANGED listening

Unsubscribe(r) ==
  /\ r \in listening
  /\ listening' = listening \ {r}
  /\ unseen' = unseen \ {r}
  /\ UNCHANGED pending

\* `personal.changed()` resolved.
Consume(r) ==
  /\ r \in unseen
  /\ unseen' = unseen \ {r}
  /\ UNCHANGED <<listening, pending>>

\* Devices that left the mesh are no longer owed anything.
Forget(W) ==
  /\ pending' = pending \ W
  /\ UNCHANGED <<listening, unseen>>

TargetedNext ==
  \/ \E r \in Req : Subscribe(r) \/ Unsubscribe(r) \/ Consume(r)
  \/ \E W \in SUBSET Device : WakeAll(W) \/ Forget(W)

TargetedSpec == TargetedInit /\ [][TargetedNext]_targetedVars
=============================================================================
