------------------------------- MODULE OnePark -------------------------------
(***************************************************************************)
(* What admission control promises: at most Capacity parked requests, and  *)
(* a request that parks tells every earlier park of its device to go.      *)
(* ParkSlots implements it; LongPoll parks its requests with it.           *)
(***************************************************************************)
EXTENDS Naturals, FiniteSets

CONSTANTS Device, Req, Owner, Capacity

VARIABLES parked,  \* requests owning a ParkPermit
          told     \* those of them asked to let go

oneParkVars == <<parked, told>>

OneParkInit == parked = {} /\ told = {}

\* try_acquire's `None`: the deployment-wide ceiling, the only refusal.
AtCapacity == Cardinality(parked) >= Capacity

Park(r) ==
  /\ r \notin parked
  /\ ~AtCapacity
  /\ parked' = parked \cup {r}
  /\ told' = told \cup {q \in parked : Owner[q] = Owner[r]}

LetGo(r) ==
  /\ r \in parked
  /\ parked' = parked \ {r}
  /\ told' = told \ {r}

LetGoWhenTold(r) == r \in told /\ LetGo(r)

OneParkNext == \E r \in Req : Park(r) \/ LetGo(r)

OneParkSpec == /\ OneParkInit /\ [][OneParkNext]_oneParkVars
               /\ \A r \in Req : WF_oneParkVars(LetGoWhenTold(r))
=============================================================================
