----------------------------- MODULE SignCache ------------------------------
(***************************************************************************)
(* The coordinator's cache of signed attestations (coordinator/src/        *)
(* signer.rs).  Snapshot builds ask for the attestation of a device, each  *)
(* with the clock it read when it began and the identity it read from the  *)
(* store; a miss signs under one lock and fills the cache.  An identity    *)
(* (name, address, primary flag) is a number that grows with each change.  *)
(***************************************************************************)
EXTENDS Naturals

CONSTANTS Viewer,     \* snapshot builds
          SignedDev,  \* devices attested
          Ttl,        \* attestation lifetime
          ReuseCap,   \* SIGN_CACHE_REUSE_CAP_SECS
          MaxClock,   \* bound on time
          MaxIdent    \* bound on identity changes

ASSUME SignAssumption == Ttl \in Nat /\ ReuseCap \in Nat /\ Ttl > 1 /\ ReuseCap > 0

VARIABLES clock,      \* now_unix
          ident,      \* the store: the identity of each device
          entry,      \* SignCacheInner::map
          lastPrune,  \* SignCacheInner::last_prune
          signHolder,     \* who holds sign_lock
          view        \* what each build is doing

signVars == <<clock, ident, entry, lastPrune, signHolder, view>>

NoEntry == [at |-> 0, ident |-> 0, expires |-> 0]
NoView == [at |-> "idle"]
NoHolder == "nobody"
ASSUME NoHolderIsNobody == NoHolder \notin Viewer

\* reuse_secs: half the lifetime, capped, and never 0.
Reuse == IF Ttl \div 2 < 1 THEN 1 ELSE IF Ttl \div 2 > ReuseCap THEN ReuseCap ELSE Ttl \div 2

Since(a, b) == IF a > b THEN a - b ELSE 0

SignInit ==
  /\ clock = 1 /\ ident = [d \in SignedDev |-> 1]
  /\ entry = [d \in SignedDev |-> NoEntry] /\ lastPrune = 0
  /\ signHolder = NoHolder
  /\ view = [v \in Viewer |-> NoView]

Tick ==
  /\ clock < MaxClock /\ clock' = clock + 1
  /\ UNCHANGED <<ident, entry, lastPrune, signHolder, view>>

\* A rename, a new primary.
ChangeIdentity(d) ==
  /\ ident[d] < MaxIdent
  /\ ident' = [ident EXCEPT ![d] = @ + 1]
  /\ UNCHANGED <<clock, entry, lastPrune, signHolder, view>>

\* A build reads the clock and the device's row.
Ask(v, d) ==
  /\ view[v].at = "idle"
  /\ view' = [view EXCEPT ![v] = [at |-> "look", dev |-> d, now |-> clock, ident |-> ident[d], blob |-> NoEntry]]
  /\ UNCHANGED <<clock, ident, entry, lastPrune, signHolder>>

\* Mutant of Fresh: the stored identity is not compared.
FreshAny(v) ==
  LET e == entry[view[v].dev] IN e # NoEntry /\ Since(view[v].now, e.at) < Reuse

Fresh(v) ==
  LET e == entry[view[v].dev] IN
  /\ e # NoEntry /\ Since(view[v].now, e.at) < Reuse
  /\ e.ident = view[v].ident

Serve(v, e) == [view EXCEPT ![v].at = "served", ![v].blob = e]

\* The fast path, without a lock.
Look(v) ==
  /\ view[v].at = "look"
  /\ view' = IF Fresh(v) THEN Serve(v, entry[view[v].dev]) ELSE [view EXCEPT ![v].at = "wait"]
  /\ UNCHANGED <<clock, ident, entry, lastPrune, signHolder>>

SignRecheck(v) == Fresh(v)

\* Under sign_lock, look again.
Acquire(v) ==
  /\ view[v].at = "wait" /\ signHolder = NoHolder
  /\ IF SignRecheck(v) THEN view' = Serve(v, entry[view[v].dev]) /\ UNCHANGED signHolder
                   ELSE view' = [view EXCEPT ![v].at = "sign"] /\ signHolder' = v
  /\ UNCHANGED <<clock, ident, entry, lastPrune>>

\* The guild key is there: sign with the clock of now, sweep when it is time, fill the cache.
Sign(v) ==
  /\ view[v].at = "sign"
  /\ LET w == view[v]
         e == [at |-> w.now, ident |-> w.ident, expires |-> clock + Ttl]
         sweep == Since(w.now, lastPrune) >= Reuse
         kept == IF sweep THEN [d \in SignedDev |-> IF Since(w.now, entry[d].at) < Reuse THEN entry[d] ELSE NoEntry]
                          ELSE entry
     IN /\ entry' = [kept EXCEPT ![w.dev] = e]
        /\ lastPrune' = IF sweep THEN w.now ELSE lastPrune
        /\ view' = Serve(v, e)
  /\ signHolder' = NoHolder
  /\ UNCHANGED <<clock, ident>>

Released(v) == IF signHolder = v THEN NoHolder ELSE signHolder

\* The build ends, or is dropped where it waits (its guard goes with it).
Done(v) ==
  /\ view[v].at \notin {"idle", "look"}
  /\ view' = [view EXCEPT ![v] = NoView]
  /\ signHolder' = Released(v)
  /\ UNCHANGED <<clock, ident, entry, lastPrune>>

SignNext ==
  \/ Tick
  \/ \E d \in SignedDev : ChangeIdentity(d)
  \/ \E v \in Viewer : Look(v) \/ Acquire(v) \/ Sign(v) \/ Done(v) \/ \E d \in SignedDev : Ask(v, d)

SignSpec == SignInit /\ [][SignNext]_signVars

-----------------------------------------------------------------------------
\* An entry is signed no earlier than its stamp, and the lock has one holder who signs.
SignTypeOK ==
  /\ \A d \in SignedDev : entry[d] # NoEntry => entry[d].expires >= entry[d].at + Ttl /\ entry[d].at <= clock
  /\ \A v \in Viewer : view[v].at = "sign" <=> signHolder = v

\* signer.rs:236: whatever is cached, and whoever signs meanwhile, a build gets the
\* attestation of the identity it asked for.
ServedIsMine == \A v \in Viewer : view[v].at = "served" => view[v].blob.ident = view[v].ident

\* signer.rs:130: a blob handed out keeps at least half its lifetime, counted from the build
\* that asked; it is never an expired one.
ServedLives ==
  \A v \in Viewer : view[v].at = "served" => 2 * Since(view[v].blob.expires, view[v].now) >= Ttl

\* signer.rs:158: a herd that misses the same entry signs it once: an entry is replaced by one
\* of the same identity only a reuse window later.
HerdSignsOnce ==
  [][\A d \in SignedDev :
       entry'[d] # entry[d] /\ NoEntry \notin {entry[d], entry'[d]} /\ entry'[d].ident = entry[d].ident
         => entry'[d].at >= entry[d].at + Reuse]_signVars

\* What a build is promised of a cached attestation: it is its own, it lives long enough, and
\* a herd costs one signature.
SignHolds == [](SignTypeOK /\ ServedIsMine /\ ServedLives) /\ HerdSignsOnce
=============================================================================
