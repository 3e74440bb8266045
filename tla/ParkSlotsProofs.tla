--------------------------- MODULE ParkSlotsProofs ---------------------------
(***************************************************************************)
(* Proofs about ParkSlots for any devices, requests, capacity and bound.   *)
(***************************************************************************)
EXTENDS ParkSlots, FiniteSetTheorems, TLAPS

\* Everything a safety property below rests on, as one inductive invariant.
ParkIInv ==
  /\ ParkTypeOK
  /\ SeqsIdentify
  /\ SlotNamesLivePermit
  /\ DisplacedIsTold

-----------------------------------------------------------------------------
\* Initially nobody holds anything.
LEMMA ParkInitInv == ParkInit => ParkIInv
  BY CapacityType, OwnerType
     DEF ParkInit, ParkIInv, ParkTypeOK, ParkState, SeqsIdentify, SlotNamesLivePermit,
         DisplacedIsTold, Numbered, NoSlot

\* try_acquire's semaphore step disturbs no slot.
LEMMA TakeGlobalInv == ASSUME ParkIInv, NEW r \in Req, TakeGlobal(r) PROVE ParkIInv'
  BY OwnerType DEF TakeGlobal, ParkIInv, ParkTypeOK, ParkState, SeqsIdentify,
     SlotNamesLivePermit, DisplacedIsTold, Numbered, NoSlot

\* A fresh number exceeds every number in force.
LEMMA TakeNumberInv == ASSUME ParkIInv, NEW r \in Req, TakeNumber(r) PROVE ParkIInv'
<1> USE OwnerType DEF TakeNumber, ParkIInv, ParkTypeOK, ParkState, Numbered, NoSlot
<1>1. ParkTypeOK'
  OBVIOUS
<1>2. SeqsIdentify'
  BY DEF SeqsIdentify
<1>3. SlotNamesLivePermit'
  BY DEF SlotNamesLivePermit
<1>4. DisplacedIsTold'
  BY DEF DisplacedIsTold
<1> QED BY <1>1, <1>2, <1>3, <1>4

\* The newcomer owns the slot, and remembers the number of the incumbent.
LEMMA TakeSlotInv == ASSUME ParkIInv, NEW r \in Req, TakeSlot(r) PROVE ParkIInv'
<1> USE OwnerType DEF TakeSlot, ParkIInv, ParkTypeOK, ParkState, Numbered, NoSlot
<1>1. ParkTypeOK'
  OBVIOUS
<1>2. SeqsIdentify'
  BY DEF SeqsIdentify
<1>3. SlotNamesLivePermit'
  BY DEF SlotNamesLivePermit
<1>4. DisplacedIsTold'
  <2> SUFFICES ASSUME NEW q \in Req, pk'[q] \in {"displacing", "parked"}, slots'[Owner[q]] # seq'[q]
               PROVE  preempt'[q] \/ \E w \in Req : pk'[w] = "displacing" /\ displaced'[w] = seq'[q]
    BY DEF DisplacedIsTold
  <2>1. q # r /\ pk[q] \in {"displacing", "parked"}
    OBVIOUS
  <2>2. CASE slots[Owner[q]] = seq[q]
    \* q was the incumbent, so r remembers it.
    <3>1. Owner[q] = Owner[r]
      BY <2>2
    <3>2. pk'[r] = "displacing" /\ displaced'[r] = seq'[q]
      BY <2>2, <3>1
    <3> QED BY <3>2
  <2>3. CASE slots[Owner[q]] # seq[q]
    <3>1. preempt[q] \/ \E w \in Req : pk[w] = "displacing" /\ displaced[w] = seq[q]
      BY <2>1, <2>3 DEF DisplacedIsTold
    <3>2. \A w \in Req : pk[w] = "displacing" =>
            w # r /\ pk'[w] = "displacing" /\ displaced'[w] = displaced[w]
      OBVIOUS
    <3> QED BY <3>1, <3>2
  <2> QED BY <2>2, <2>3
<1> QED BY <1>1, <1>2, <1>3, <1>4

\* The signal reaches the incumbent, which needs no promise any more.
LEMMA SignalDisplacedInv == ASSUME ParkIInv, NEW r \in Req, SignalDisplaced(r) PROVE ParkIInv'
<1> USE OwnerType DEF SignalDisplaced, ParkIInv, ParkTypeOK, ParkState, Numbered, NoSlot
<1>1. ParkTypeOK'
  OBVIOUS
<1>2. SeqsIdentify'
  BY DEF SeqsIdentify
<1>3. SlotNamesLivePermit'
  BY DEF SlotNamesLivePermit
<1>4. DisplacedIsTold'
  <2> SUFFICES ASSUME NEW q \in Req, pk'[q] \in {"displacing", "parked"}, slots'[Owner[q]] # seq'[q]
               PROVE  preempt'[q] \/ \E w \in Req : pk'[w] = "displacing" /\ displaced'[w] = seq'[q]
    BY DEF DisplacedIsTold
  <2>1. Numbered(q) /\ seq[q] # NoSlot /\ pk[q] \in {"displacing", "parked"}
    BY DEF SeqsIdentify
  <2>2. preempt[q] \/ \E w \in Req : pk[w] = "displacing" /\ displaced[w] = seq[q]
    BY <2>1 DEF DisplacedIsTold
  <2>3. CASE preempt[q]
    BY <2>3
  <2>4. ASSUME NEW w \in Req, pk[w] = "displacing", displaced[w] = seq[q]
        PROVE  preempt'[q] \/ (pk'[w] = "displacing" /\ displaced'[w] = seq'[q])
    BY <2>1, <2>4
  <2> QED BY <2>2, <2>3, <2>4
<1> QED BY <1>1, <1>2, <1>3, <1>4

\* A departing request clears its own slot or none: numbers identify requests.
LEMMA DropPermitInv == ASSUME ParkIInv, NEW r \in Req, DropPermit(r) PROVE ParkIInv'
<1> USE OwnerType DEF DropPermit, ParkIInv, ParkTypeOK, ParkState, Numbered, NoSlot
<1>1. ParkTypeOK'
  OBVIOUS
<1>2. SeqsIdentify'
  BY DEF SeqsIdentify
<1>3. SlotNamesLivePermit'
  BY DEF SlotNamesLivePermit, SeqsIdentify
<1>4. DisplacedIsTold'
  BY DEF DisplacedIsTold, SeqsIdentify
<1> QED BY <1>1, <1>2, <1>3, <1>4

\* Returning the global permit disturbs no slot.
LEMMA ReturnGlobalInv == ASSUME ParkIInv, NEW r \in Req, ReturnGlobal(r) PROVE ParkIInv'
  BY OwnerType DEF ReturnGlobal, ParkIInv, ParkTypeOK, ParkState, SeqsIdentify,
     SlotNamesLivePermit, DisplacedIsTold, Numbered, NoSlot

\* Every step of every request, and every stutter, keeps the invariant.
LEMMA ParkNextInv == ParkIInv /\ [ParkNext]_parkVars => ParkIInv'
<1> SUFFICES ASSUME ParkIInv, [ParkNext]_parkVars PROVE ParkIInv'
  OBVIOUS
<1>1. CASE UNCHANGED parkVars
  BY <1>1 DEF parkVars, ParkIInv, ParkTypeOK, SeqsIdentify, SlotNamesLivePermit,
     DisplacedIsTold, Numbered
<1>2. ASSUME NEW r \in Req, ParkStep(r) PROVE ParkIInv'
  BY <1>2, TakeGlobalInv, TakeNumberInv, TakeSlotInv, SignalDisplacedInv, DropPermitInv,
     ReturnGlobalInv DEF ParkStep
<1> QED BY <1>1, <1>2 DEF ParkNext

-----------------------------------------------------------------------------
\* The admission state stays well typed.
THEOREM ParkTypeCorrect == ParkSafety => []ParkTypeOK
<1>1. ParkIInv => ParkTypeOK
  BY DEF ParkIInv
<1> QED BY <1>1, ParkInitInv, ParkNextInv, PTL DEF ParkSafety

\* Every slot names a live permit of its own device (ParkPermit::drop).
THEOREM SlotsAreLive == ParkSafety => []SlotNamesLivePermit
<1>1. ParkIInv => SlotNamesLivePermit
  BY DEF ParkIInv
<1> QED BY <1>1, ParkInitInv, ParkNextInv, PTL DEF ParkSafety

\* No displaced park is forgotten (try_acquire's signal to the incumbent).
THEOREM NoForgottenPark == ParkSafety => []DisplacedIsTold
<1>1. ParkIInv => DisplacedIsTold
  BY DEF ParkIInv
<1> QED BY <1>1, ParkInitInv, ParkNextInv, PTL DEF ParkSafety

\* "this still leaves one park per device" (wake.rs, try_acquire).
THEOREM AtMostOnePark == ParkSafety => []OneParkPerDevice
<1>1. ParkIInv => OneParkPerDevice
  BY DEF ParkIInv, SeqsIdentify, DisplacedIsTold, OneParkPerDevice, Undisturbed, Numbered
<1> QED BY <1>1, ParkInitInv, ParkNextInv, PTL DEF ParkSafety

-----------------------------------------------------------------------------
\* The requests holding a permit are some of the finitely many requests.
LEMMA HoldersFinite == IsFiniteSet(Holders)
  BY ReqFinite, FS_Subset DEF Holders

\* Each step moves at most one permit between the semaphore and the holders.
LEMMA PermitStep == ParkTypeOK /\ PermitsConserved /\ [ParkNext]_parkVars => PermitsConserved'
<1> SUFFICES ASSUME ParkTypeOK, PermitsConserved, [ParkNext]_parkVars PROVE PermitsConserved'
  OBVIOUS
<1>0. Cardinality(Holders) \in Nat
  BY HoldersFinite, FS_CardinalityType
<1>1. ASSUME NEW r \in Req, TakeGlobal(r) PROVE PermitsConserved'
  <2>1. Holders' = Holders \cup {r} /\ r \notin Holders
    BY <1>1 DEF TakeGlobal, Holders, ParkTypeOK
  <2>2. Cardinality(Holders') = Cardinality(Holders) + 1
    BY <2>1, HoldersFinite, FS_AddElement
  <2> QED BY <1>0, <1>1, <2>2, CapacityType DEF TakeGlobal, PermitsConserved, ParkTypeOK
<1>2. ASSUME NEW r \in Req, ReturnGlobal(r) PROVE PermitsConserved'
  <2>1. Holders' = Holders \ {r} /\ r \in Holders
    BY <1>2 DEF ReturnGlobal, Holders, ParkTypeOK
  <2>2. Cardinality(Holders') = Cardinality(Holders) - 1
    BY <2>1, HoldersFinite, FS_RemoveElement
  <2> QED BY <1>0, <1>2, <2>2, CapacityType DEF ReturnGlobal, PermitsConserved, ParkTypeOK
<1>3. ASSUME NEW r \in Req, TakeNumber(r) \/ TakeSlot(r) \/ SignalDisplaced(r) \/ DropPermit(r)
      PROVE PermitsConserved'
  <2>1. Holders' = Holders /\ free' = free
    BY <1>3 DEF TakeNumber, TakeSlot, SignalDisplaced, DropPermit, Holders, ParkTypeOK
  <2> QED BY <2>1 DEF PermitsConserved
<1>4. CASE UNCHANGED parkVars
  BY <1>4 DEF parkVars, PermitsConserved, Holders
<1> QED BY <1>1, <1>2, <1>3, <1>4 DEF ParkNext, ParkStep

\* The ceiling is exact: no permit leaks and none is handed out twice.
THEOREM SemaphoreExact == ParkSafety => []PermitsConserved
<1>1. ParkInit => PermitsConserved
  <2>1. ParkInit => Holders = {}
    BY DEF ParkInit, Holders
  <2> QED BY <2>1, FS_EmptySet, CapacityType DEF PermitsConserved, ParkInit
<1> QED BY <1>1, PermitStep, ParkTypeCorrect, PTL DEF ParkSafety

\* Admission's safety in one: exact permits, live slots, and one undisturbed park per device.
THEOREM AdmissionIsSafe == ParkSafety => []ParkSafe
<1>1. ParkTypeOK /\ PermitsConserved /\ SlotNamesLivePermit /\ DisplacedIsTold /\ OneParkPerDevice
        => ParkSafe
  BY DEF ParkSafe
<1> QED BY <1>1, ParkTypeCorrect, SemaphoreExact, SlotsAreLive, NoForgottenPark, AtMostOnePark, PTL

-----------------------------------------------------------------------------
(* The promise of OnePark. *)

(***************************************************************************)
(* A number not yet in the slot was never displaced: its preempt channel   *)
(* is silent and no signal under way is addressed to it.  It is what makes *)
(* a request that takes the slot an untold one.                            *)
(***************************************************************************)
FreshIsUntold ==
  /\ \A q \in Req : displaced[q] < nextSeq
  /\ \A r \in Req : pk[r] = "numbered" =>
       ~preempt[r] /\ \A q \in Req : pk[q] = "displacing" => displaced[q] # seq[r]

\* What a slot names is in force, past its numbering, and of the slot's own device.
LEMMA SlotValue ==
  ASSUME ParkIInv, NEW d \in Device
  PROVE  /\ slots[d] < nextSeq
         /\ \A r \in Req : pk[r] = "numbered" => slots[d] # seq[r]
         /\ \A r \in Parked : slots[d] = seq[r] => Owner[r] = d
<1> USE DEF ParkIInv, ParkTypeOK, SeqsIdentify, Numbered, NoSlot
<1>1. CASE slots[d] = NoSlot
  BY <1>1 DEF Parked
<1>2. CASE slots[d] # NoSlot
  <2>1. PICK o \in Req : Owner[o] = d /\ pk[o] \in {"displacing", "parked"} /\ seq[o] = slots[d]
    BY <1>2 DEF SlotNamesLivePermit
  <2> QED BY <2>1 DEF Parked
<1> QED BY <1>1, <1>2

\* The invariant the refinement needs beside ParkIInv is kept by every step.
LEMMA FreshNext == ParkIInv /\ FreshIsUntold /\ [ParkNext]_parkVars => FreshIsUntold'
<1> SUFFICES ASSUME ParkIInv, FreshIsUntold, [ParkNext]_parkVars PROVE FreshIsUntold'
  OBVIOUS
<1> USE OwnerType DEF FreshIsUntold, ParkIInv, ParkTypeOK
<1>1. ASSUME NEW r \in Req, TakeGlobal(r) \/ DropPermit(r) \/ ReturnGlobal(r) PROVE FreshIsUntold'
  BY <1>1 DEF TakeGlobal, DropPermit, ReturnGlobal
<1>2. ASSUME NEW r \in Req, TakeNumber(r) PROVE FreshIsUntold'
  BY <1>2 DEF TakeNumber
<1>3. ASSUME NEW r \in Req, TakeSlot(r) PROVE FreshIsUntold'
  <2>1. Owner[r] \in Device
    OBVIOUS
  <2>2. /\ slots[Owner[r]] < nextSeq
        /\ \A q \in Req : pk[q] = "numbered" => slots[Owner[r]] # seq[q]
    BY <2>1, SlotValue
  <2> QED BY <1>3, <2>2 DEF TakeSlot
<1>4. ASSUME NEW r \in Req, SignalDisplaced(r) PROVE FreshIsUntold'
  BY <1>4 DEF SignalDisplaced, NoSlot
<1>5. CASE UNCHANGED parkVars
  BY <1>5 DEF parkVars
<1> QED BY <1>1, <1>2, <1>3, <1>4, <1>5 DEF ParkNext, ParkStep

\* A request about to take the slot holds a permit of its own: the parked are fewer than Capacity.
LEMMA RoomToPark ==
  ASSUME ParkTypeOK, PermitsConserved, NEW r \in Req, pk[r] = "numbered"
  PROVE  ~(Cardinality(Parked) >= Capacity)
<1>1. Parked \subseteq Holders \ {r} /\ r \in Holders
  BY DEF Parked, Holders
<1>2. IsFiniteSet(Holders \ {r}) /\ Cardinality(Holders \ {r}) = Cardinality(Holders) - 1
  BY <1>1, HoldersFinite, FS_RemoveElement
<1>3. Cardinality(Parked) <= Cardinality(Holders \ {r}) /\ IsFiniteSet(Parked)
  BY <1>1, <1>2, FS_Subset
<1>4. Cardinality(Parked) \in Nat /\ Cardinality(Holders) \in Nat
  BY <1>3, HoldersFinite, FS_CardinalityType
<1> QED BY <1>2, <1>3, <1>4, CapacityType DEF PermitsConserved, ParkTypeOK

\* Taking the slot tells the device's earlier parks and nobody else.
LEMMA TakeSlotParks ==
  ASSUME ParkIInv, FreshIsUntold, PermitsConserved, NEW r \in Req, TakeSlot(r)
  PROVE  ParkPromise!Park(r)
<1> USE OwnerType DEF ParkIInv, ParkTypeOK
<1>1. Parked' = Parked \cup {r} /\ r \notin Parked
  BY DEF TakeSlot, Parked
<1>2. ~(Cardinality(Parked) >= Capacity)
  BY RoomToPark DEF TakeSlot
<1>3. r \notin Told'
  BY SlotValue DEF TakeSlot, FreshIsUntold, Told, Parked
<1>4. ASSUME NEW q \in Parked
      PROVE  q \in Told' <=> q \in Told \/ Owner[q] = Owner[r]
  <2>1. q \in Req /\ q # r /\ q \in Parked'
    BY <1>1 DEF Parked
  <2>2. q \in Told' <=> q \in Told \/ slots[Owner[r]] = seq[q]
    BY <2>1 DEF TakeSlot, Told, Parked
  <2>3. slots[Owner[r]] = seq[q] => Owner[q] = Owner[r]
    BY SlotValue
  <2>4. Owner[q] = Owner[r] => q \in Told \/ slots[Owner[r]] = seq[q]
    BY <2>1 DEF DisplacedIsTold, Told, Parked
  <2> QED BY <2>2, <2>3, <2>4
<1>5. Told \subseteq Parked /\ Told' \subseteq Parked'
  BY DEF Told
<1>6. Told' = Told \cup {q \in Parked : Owner[q] = Owner[r]}
  BY <1>1, <1>3, <1>4, <1>5
<1>7. ParkPromise!Cardinality(Parked) = Cardinality(Parked)
  BY DEF ParkPromise!Cardinality, Cardinality
<1> QED BY <1>1, <1>2, <1>6, <1>7 DEF ParkPromise!Park, ParkPromise!AtCapacity

(***************************************************************************)
(* ParkSlots implements the safety part of OnePark: taking the slot is the *)
(* atomic Park (at most Capacity parked, every earlier park of the device  *)
(* told), the permit's drop is LetGo, and every other access is a stutter. *)
(***************************************************************************)
THEOREM AdmissionImplementsOnePark ==
  ParkSafety => ParkPromise!OneParkInit /\ [][ParkPromise!OneParkNext]_<<Parked, Told>>
<1>1. ParkInit => ParkPromise!OneParkInit
  BY DEF ParkInit, ParkPromise!OneParkInit, Parked, Told
<1>2. ParkInit => FreshIsUntold
  BY DEF ParkInit, FreshIsUntold, NoSlot
<1>3. ParkIInv /\ FreshIsUntold /\ PermitsConserved /\ [ParkNext]_parkVars
        => [ParkPromise!OneParkNext]_<<Parked, Told>>
  <2> SUFFICES ASSUME ParkIInv, FreshIsUntold, PermitsConserved, [ParkNext]_parkVars
               PROVE  ParkPromise!OneParkNext \/ (Parked' = Parked /\ Told' = Told)
    OBVIOUS
  <2> USE DEF ParkIInv, ParkTypeOK
  <2>1. ASSUME NEW r \in Req, TakeSlot(r) PROVE ParkPromise!OneParkNext
    BY <2>1, TakeSlotParks DEF ParkPromise!OneParkNext
  <2>2. ASSUME NEW r \in Req, DropPermit(r) PROVE ParkPromise!OneParkNext
    <3>1. Parked' = Parked \ {r} /\ r \in Parked
      BY <2>2 DEF DropPermit, Parked
    <3>2. Told' = Told \ {r}
      BY <2>2, <3>1 DEF DropPermit, Told
    <3> QED BY <3>1, <3>2 DEF ParkPromise!OneParkNext, ParkPromise!LetGo
  <2>3. ASSUME NEW r \in Req, SignalDisplaced(r) PROVE Parked' = Parked /\ Told' = Told
    <3>1. Parked' = Parked
      BY <2>3 DEF SignalDisplaced, Parked
    <3>2. \A q \in Parked : q \in Req /\ Numbered(q) /\ seq[q] # NoSlot
      BY DEF Parked, SeqsIdentify, Numbered
    <3>3. Told' = Told
      BY <2>3, <3>1, <3>2 DEF SignalDisplaced, Told
    <3> QED BY <3>1, <3>3
  <2>4. ASSUME NEW r \in Req, TakeGlobal(r) \/ TakeNumber(r) \/ ReturnGlobal(r)
        PROVE  Parked' = Parked /\ Told' = Told
    <3>1. Parked' = Parked
      BY <2>4 DEF TakeGlobal, TakeNumber, ReturnGlobal, Parked
    <3>2. \A q \in Parked : q # r /\ preempt'[q] = preempt[q] /\ seq'[q] = seq[q]
      BY <2>4 DEF TakeGlobal, TakeNumber, ReturnGlobal, Parked
    <3>3. \A q \in Req : displaced'[q] = displaced[q] /\ (pk'[q] = "displacing" <=> pk[q] = "displacing")
      BY <2>4 DEF TakeGlobal, TakeNumber, ReturnGlobal
    <3> QED BY <3>1, <3>2, <3>3 DEF Told
  <2>5. CASE UNCHANGED parkVars
    BY <2>5 DEF parkVars, Parked, Told
  <2> QED BY <2>1, <2>2, <2>3, <2>4, <2>5 DEF ParkNext, ParkStep
<1>4. ParkSafety => [](ParkIInv /\ FreshIsUntold)
  BY <1>2, ParkInitInv, ParkNextInv, FreshNext, PTL DEF ParkSafety
<1> QED BY <1>1, <1>3, <1>4, SemaphoreExact, PTL DEF ParkSafety
=============================================================================
