------------------------------ MODULE HerdWake ------------------------------
(***************************************************************************)
(* What the scoped versions promise a parked request: while it waits on    *)
(* version `base` of its scopes, any bump of one of them releases it.      *)
(* Abstracts crates/coordinator/src/versions.rs and wait_park of           *)
(* api/wake.rs; ScopedWait implements it on watch channels.                *)
(***************************************************************************)
EXTENDS Naturals

CONSTANTS Scope,    \* guild and user scopes
          Waiter,   \* requests that may wait
          Interest  \* the scopes each waiter's version aggregates

VARIABLES ctr,      \* a scope's membership counter
          on,       \* whether a waiter is inside wait_park
          base      \* the version it entered with

herdVars == <<ctr, on, base>>

\* Versions::aggregate, as the counters themselves: the code hashes them, so this
\* leaves out 64-bit collisions.
Aggregate(S) == [s \in S |-> ctr[s]]

\* A wait is over as soon as the aggregate moved off the version it started from.
HerdDue(w) == on[w] /\ Aggregate(Interest[w]) # base[w]

HerdInit ==
  /\ ctr = [s \in Scope |-> 0]
  /\ on = [w \in Waiter |-> FALSE]
  /\ base = [w \in Waiter |-> [s \in Interest[w] |-> 0]]

\* One iteration of bump_all.
Bump(s) ==
  /\ ctr' = [ctr EXCEPT ![s] = @ + 1]
  /\ UNCHANGED <<on, base>>

EnterWait(w, v) ==
  /\ ~on[w]
  /\ on' = [on EXCEPT ![w] = TRUE]
  /\ base' = [base EXCEPT ![w] = v]
  /\ UNCHANGED ctr

LeaveWait(w) ==
  /\ on[w]
  /\ on' = [on EXCEPT ![w] = FALSE]
  /\ UNCHANGED <<ctr, base>>

\* wait_park returns Woke::Herd.
HerdWoken(w) == HerdDue(w) /\ LeaveWait(w)

HerdNext ==
  \/ \E s \in Scope : Bump(s)
  \/ \E w \in Waiter : \/ /\ EnterWait(w, base'[w])
                          /\ base'[w] \in [Interest[w] -> Nat]
                       \/ LeaveWait(w)
                       \/ HerdWoken(w)

HerdSpec == HerdInit /\ [][HerdNext]_herdVars /\ \A w \in Waiter : WF_herdVars(HerdWoken(w))
=============================================================================
