------------------------------ MODULE ParkSlots ------------------------------
(***************************************************************************)
(* Admission control for held register requests: ParkSlots, Slot and       *)
(* ParkPermit of crates/coordinator/src/api/wake.rs.                       *)
(*                                                                         *)
(* A request that wants to park takes one permit of a deployment-wide      *)
(* semaphore, then takes its device's slot away from whoever holds it and  *)
(* tells that incumbent to let go.  try_acquire never awaits, but requests *)
(* of one device run on different threads, so each of its four shared      *)
(* accesses (semaphore, counter, map, preempt channel) is a step here.     *)
(***************************************************************************)
EXTENDS Naturals, FiniteSets, Requests

CONSTANTS Capacity, \* the semaphore's size (the long-poll ceiling)
          MaxSeq    \* bound: no request is admitted once this many were numbered

ASSUME CapacityType == Capacity \in Nat
ASSUME MaxSeqType == MaxSeq \in Nat
ASSUME ReqFinite == IsFiniteSet(Req)

VARIABLES free,       \* permits left in `global`
          nextSeq,    \* `next_seq`
          slots,      \* `devices`: pubkey -> the occupant's seq, or NoSlot
          pk,         \* where a request is in try_acquire / its permit's drop
          seq,        \* the request's permit identity (meaningful once numbered)
          displaced,  \* the incumbent's seq a request found in the slot
          preempt     \* value of the request's own preempt channel

parkVars == <<free, nextSeq, slots, pk, seq, displaced, preempt>>

\* No occupant.  Sequence numbers start at 1 here (0 in the code), so 0 is free.
NoSlot == 0

ParkState == {"out",        \* holds nothing
              "admitted",   \* has a global permit, no number yet
              "numbered",   \* has a seq, slot not taken yet
              "displacing", \* took the slot, the incumbent not signalled yet
              "parked",     \* owns a ParkPermit
              "leaving"}    \* permit's Drop ran, global permit not returned yet

\* The requests that hold a permit of the semaphore.
Holders == {r \in Req : pk[r] # "out"}

\* The requests whose number is in force: numbered and not yet dropped.
Numbered(r) == pk[r] \in {"numbered", "displacing", "parked"}

-----------------------------------------------------------------------------
ParkInit ==
  /\ free = Capacity
  /\ nextSeq = 1
  /\ slots = [d \in Device |-> NoSlot]
  /\ pk = [r \in Req |-> "out"]
  /\ seq = [r \in Req |-> NoSlot]
  /\ displaced = [r \in Req |-> NoSlot]
  /\ preempt = [r \in Req |-> FALSE]

\* `self.global.clone().try_acquire_owned().ok()?`
TakeGlobal(r) ==
  /\ pk[r] = "out"
  /\ free > 0
  /\ nextSeq <= MaxSeq
  /\ free' = free - 1
  /\ pk' = [pk EXCEPT ![r] = "admitted"]
  /\ UNCHANGED <<nextSeq, slots, seq, displaced, preempt>>

\* `fetch_add`, and a fresh preempt channel holding false.
TakeNumber(r) ==
  /\ pk[r] = "admitted"
  /\ seq' = [seq EXCEPT ![r] = nextSeq]
  /\ nextSeq' = nextSeq + 1
  /\ preempt' = [preempt EXCEPT ![r] = FALSE]
  /\ pk' = [pk EXCEPT ![r] = "numbered"]
  /\ UNCHANGED <<free, slots, displaced>>

\* `devices.lock().insert(pubkey, Slot { .. })`: last writer wins.
TakeSlot(r) ==
  /\ pk[r] = "numbered"
  /\ displaced' = [displaced EXCEPT ![r] = slots[Owner[r]]]
  /\ slots' = [slots EXCEPT ![Owner[r]] = seq[r]]
  /\ pk' = [pk EXCEPT ![r] = "displacing"]
  /\ UNCHANGED <<free, nextSeq, seq, preempt>>

\* Mutant of SignalDisplaced: takes the slot without telling the incumbent.
DisplaceSilently(r) ==
  /\ pk[r] = "displacing"
  /\ displaced' = [displaced EXCEPT ![r] = NoSlot]
  /\ pk' = [pk EXCEPT ![r] = "parked"]
  /\ UNCHANGED <<free, nextSeq, slots, seq, preempt>>

\* `old.preempt.send(true)`, ignored when the incumbent is already gone.
SignalDisplaced(r) ==
  /\ pk[r] = "displacing"
  /\ preempt' = [q \in Req |->
                   preempt[q] \/ (displaced[r] # NoSlot /\ Numbered(q) /\ seq[q] = displaced[r])]
  /\ displaced' = [displaced EXCEPT ![r] = NoSlot]
  /\ pk' = [pk EXCEPT ![r] = "parked"]
  /\ UNCHANGED <<free, nextSeq, slots, seq>>

\* Mutant of DropPermit: removes the device's entry whoever owns it.
DropAnyonesSlot(r) ==
  /\ pk[r] = "parked"
  /\ slots' = [slots EXCEPT ![Owner[r]] = NoSlot]
  /\ pk' = [pk EXCEPT ![r] = "leaving"]
  /\ UNCHANGED <<free, nextSeq, seq, displaced, preempt>>

\* `ParkPermit::drop`: clear the map entry only if it is still ours.  Runs when
\* the handler returns and when its future is dropped with the connection.
DropPermit(r) ==
  /\ pk[r] = "parked"
  /\ slots' = [slots EXCEPT ![Owner[r]] = IF @ = seq[r] THEN NoSlot ELSE @]
  /\ pk' = [pk EXCEPT ![r] = "leaving"]
  /\ UNCHANGED <<free, nextSeq, seq, displaced, preempt>>

\* The permit's fields drop after its Drop body: the semaphore permit goes back.
ReturnGlobal(r) ==
  /\ pk[r] = "leaving"
  /\ free' = free + 1
  /\ pk' = [pk EXCEPT ![r] = "out"]
  /\ UNCHANGED <<nextSeq, slots, seq, displaced, preempt>>

ParkStep(r) ==
  \/ TakeGlobal(r)
  \/ TakeNumber(r)
  \/ TakeSlot(r)
  \/ SignalDisplaced(r)
  \/ DropPermit(r)
  \/ ReturnGlobal(r)

ParkNext == \E r \in Req : ParkStep(r)

ParkSafety == ParkInit /\ [][ParkNext]_parkVars

(***************************************************************************)
(* Fairness.  Everything but entering is a synchronous run of code on a    *)
(* live thread.  A preempted park leaves because wait_park selects on the  *)
(* preempt channel; an unpreempted one may stay for its whole hold.        *)
(***************************************************************************)
\* Mutant of LeavePreempted: wait_park without its preempt arm.
IgnorePreempt(r) == FALSE /\ DropPermit(r)

LeavePreempted(r) == preempt[r] /\ DropPermit(r)

ParkFairness ==
  \A r \in Req : /\ WF_parkVars(TakeNumber(r))
                 /\ WF_parkVars(TakeSlot(r))
                 /\ WF_parkVars(SignalDisplaced(r))
                 /\ WF_parkVars(LeavePreempted(r))
                 /\ WF_parkVars(ReturnGlobal(r))

ParkSpec == ParkSafety /\ ParkFairness

-----------------------------------------------------------------------------
\* Type invariant of the admission state.
ParkTypeOK ==
  /\ free \in Nat
  /\ nextSeq \in Nat \ {0}
  /\ slots \in [Device -> Nat]
  /\ pk \in [Req -> ParkState]
  /\ seq \in [Req -> Nat]
  /\ displaced \in [Req -> Nat]
  /\ preempt \in [Req -> BOOLEAN]

(***************************************************************************)
(* Numbers in force are below the counter and no two requests share one,   *)
(* so a slot, which holds only a number, identifies a request.             *)
(***************************************************************************)
SeqsIdentify ==
  /\ \A r \in Req : Numbered(r) => seq[r] # NoSlot /\ seq[r] < nextSeq
  /\ \A r, q \in Req : r # q /\ Numbered(r) /\ Numbered(q) => seq[r] # seq[q]

(***************************************************************************)
(* The semaphore neither leaks nor invents permits: what is free plus what *)
(* requests hold is the capacity, so "at the ceiling" (the 429) is always  *)
(* about requests that are really there.                                   *)
(***************************************************************************)
PermitsConserved == free + Cardinality(Holders) = Capacity

(***************************************************************************)
(* A slot always names a live permit of that very device.  A slot left     *)
(* behind by a departed request, or one removed by a preempted incumbent's *)
(* drop, would leave the current park unpreemptable.                       *)
(***************************************************************************)
SlotNamesLivePermit ==
  \A d \in Device : slots[d] # NoSlot =>
    \E r \in Req : Owner[r] = d /\ pk[r] \in {"displacing", "parked"} /\ seq[r] = slots[d]

(***************************************************************************)
(* Whoever is parked without owning its device's slot has been told to let *)
(* go, or is about to be by the request that displaced it: no park is ever *)
(* forgotten.                                                              *)
(***************************************************************************)
DisplacedIsTold ==
  \A r \in Req : pk[r] \in {"displacing", "parked"} /\ slots[Owner[r]] # seq[r] =>
    preempt[r] \/ \E q \in Req : pk[q] = "displacing" /\ displaced[q] = seq[r]

(***************************************************************************)
(* "this still leaves one park per device": at most one request of a       *)
(* device may stay parked, once the signals under way have been sent.      *)
(***************************************************************************)
Undisturbed(r) ==
  /\ pk[r] = "parked"
  /\ ~preempt[r]
  /\ \A q \in Req : ~(pk[q] = "displacing" /\ displaced[q] = seq[r])

OneParkPerDevice ==
  \A r, q \in Req : r # q /\ Owner[r] = Owner[q] => ~(Undisturbed(r) /\ Undisturbed(q))

\* A displaced request does let go, so its permit becomes available again.
DisplacedLeaves == \A r \in Req : (pk[r] = "parked" /\ preempt[r]) ~> (pk[r] = "out")

(***************************************************************************)
(* The promise OnePark states, taking effect when the slot is taken: the   *)
(* incumbent counts as told from then on, for its signal is under way.     *)
(***************************************************************************)
Parked == {r \in Req : pk[r] \in {"displacing", "parked"}}
Told == {r \in Parked : preempt[r] \/ \E q \in Req : pk[q] = "displacing" /\ displaced[q] = seq[r]}

ParkPromise == INSTANCE OnePark WITH parked <- Parked, told <- Told

ImplementsOnePark == ParkPromise!OneParkSpec

\* What the admission keeps at every step: nothing leaks, and of the requests of a device
\* that are past the slot all but the current one are told to go.
ParkSafe ==
  /\ ParkTypeOK /\ PermitsConserved
  /\ SlotNamesLivePermit /\ DisplacedIsTold /\ OneParkPerDevice
=============================================================================
