------------------------------ MODULE LongPoll ------------------------------
(***************************************************************************)
(* The register long-poll end to end: the coordinator's handler            *)
(* (api/register.rs), the snapshot it builds (api/snapshot.rs), the        *)
(* presence and NAT tables, the reaper, and the engine's refresh loop      *)
(* (engine/src/daemon.rs, coord.rs).                                       *)
(*                                                                         *)
(* Handlers of different requests interleave between any two accesses of   *)
(* shared tables.  Parking, herd wakes and targeted wakes are the promises *)
(* of OnePark, HerdWake and TargetedWake, which ParkSlots, ScopedWait and  *)
(* Wakers implement.                                                       *)
(*                                                                         *)
(* A scope stands for one network of a guild, or for a user's own-device   *)
(* set: presence is kept, versioned and opted out of per scope here.       *)
(***************************************************************************)
EXTENDS Naturals, FiniteSets

CONSTANTS Device, Req, Owner, Capacity,
          Scope,       \* guild networks and users
          Guild,       \* the scopes a seed lists as a shared network
          MemberOf,    \* the scopes a device holds a role in, and its user's
          Offer,       \* contents of a pair report (ICE parameters, relayed address)
          Sighting,    \* contents of a reflexive report
          NoReport,    \* nothing reported
          NoReq,       \* no request in flight
          NoVersion,   \* `since: None`
          Changes,     \* bound: local toggles and new reports
          Faults,      \* bound: failed builds and client crashes
          Restarts,    \* bound: coordinator restarts
          MayCut,      \* a build may end early after it changed a table
          Slow         \* a build may outlast the client's STATS_RECHECK

ASSUME LongPollConstants ==
  /\ Owner \in [Req -> Device]
  /\ Capacity \in Nat
  /\ IsFiniteSet(Req)
  /\ Guild \subseteq Scope
  /\ MemberOf \in [Device -> SUBSET Scope]
  /\ NoReport \notin Offer \cup Sighting
  /\ NoReq \notin Req
  /\ Changes \in Nat /\ Faults \in Nat /\ Restarts \in Nat
  /\ MayCut \in BOOLEAN /\ Slow \in BOOLEAN

VARIABLES
  \* the engines
  up,        \* running engines
  want,      \* what an engine's next request would say
  sent,      \* the reports it believes the coordinator has
  view,      \* its merged seeds: `last_seeds`
  since,     \* the version of its last reply
  flight,    \* the request it awaits: `pending_refresh`
  \* the coordinator's tables
  presence,  \* per scope, the devices recorded online
  offers,    \* `ice` / `relay_allocs`: owner -> peer -> report
  sights,    \* `reflexive`: device -> report
  ctr,       \* Versions
  listening, unseen, pending,  \* Wakers
  parked, told,                \* ParkSlots
  reaped,    \* scopes the reaper took rows from and has not bumped yet
  job,       \* the handlers' local state
  epoch,     \* coordinator restarts so far
  changes, faults              \* what is left of the bounds

clientVars == <<up, want, sent, view, since, flight>>
tableVars == <<presence, offers, sights>>
wakeVars == <<listening, unseen, pending>>
slotVars == <<parked, told>>
boundVars == <<epoch, changes, faults>>
vars == <<clientVars, tableVars, ctr, wakeVars, slotVars, reaped, job, boundVars>>

Interest == [r \in Req |-> MemberOf[Owner[r]]]

Slots == INSTANCE OnePark
Wakes == INSTANCE TargetedWake
Herd == INSTANCE HerdWake WITH
          Waiter <- Req,
          on <- [r \in Req |-> job[r].pc = "parked"],
          base <- [r \in Req |-> job[r].version]

-----------------------------------------------------------------------------
(* Seeds *)

\* The peers of d found in the rows of the scopes it has enabled.
PeersOf(d, rows, enabled) == {p \in Device \ {d} : \E s \in enabled : p \in rows[s]}

\* build_seeds: per co-member, the networks shared with the caller, what that peer
\* reported for the caller, and where that peer was last seen.
Seeds(d, rows, enabled, offered, sighted) ==
  [p \in PeersOf(d, rows, enabled) |->
     [nets |-> {s \in enabled \cap Guild : p \in rows[s]},
      offer |-> offered[p][d],
      sight |-> sighted[p]]]

\* What a rebuild would give device d now, with these scopes enabled.
SeedsNow(d, enabled) == Seeds(d, presence, enabled, offers, sights)

NoSeeds == [p \in {} |-> NoReport]

\* Mutant of Removed: a delta that never drops a peer.
RemovedNone(held, all) == {}

\* apply_delta's `removed`.
Removed(held, all) == DOMAIN held \ DOMAIN all

\* apply_delta's `seeds`: everything for an empty `held`, else what is new or differs.
Sent(held, all) == {p \in DOMAIN all : p \in DOMAIN held => held[p] # all[p]}

\* merge_seeds, on the reply apply_delta made of `held` and `all`: a full reply
\* replaces the peers, a delta updates them.
Merged(prev, held, all) ==
  LET kept == IF held = NoSeeds THEN {} ELSE DOMAIN prev \ Removed(held, all) IN
  [p \in kept \cup Sent(held, all) |-> IF p \in Sent(held, all) THEN all[p] ELSE prev[p]]

-----------------------------------------------------------------------------
(* Engines *)

NoReports == [offers |-> [p \in Device |-> NoReport], sights |-> [p \in Device |-> NoReport]]

\* A fresh engine: connected, every network enabled, nothing to report.
FreshWant(d) == [paused |-> FALSE, enabled |-> MemberOf[d], reports |-> NoReports]

\* Toggle, mesh connect/disconnect: the held request carries the old state and is dropped.
Toggle(d, paused, enabled) ==
  /\ changes > 0 /\ d \in up
  /\ want[d].paused # paused \/ want[d].enabled # enabled
  /\ want' = [want EXCEPT ![d].paused = paused, ![d].enabled = enabled]
  /\ flight' = [flight EXCEPT ![d] = NoReq]
  /\ changes' = changes - 1
  /\ UNCHANGED <<up, sent, view, since, tableVars, ctr, wakeVars, slotVars, reaped, job, epoch, faults>>

HaveReport(d) == want[d].reports # sent[d]

\* A pass of the mesh loop finds `reports` to make: unless they are those it believes
\* delivered, the held request is dropped.
Found(d, reports) ==
  /\ changes > 0 /\ d \in up
  /\ want[d].reports # reports
  /\ want' = [want EXCEPT ![d].reports = reports]
  /\ flight' = [flight EXCEPT ![d] = IF reports # sent[d] THEN NoReq ELSE @]
  /\ changes' = changes - 1
  /\ UNCHANGED <<up, sent, view, since, tableVars, ctr, wakeVars, slotVars, reaped, job, epoch, faults>>

\* ICE gathered candidates or a relay allocated an address for reaching peer p.
NewOffer(d, p, o) == p # d /\ Found(d, [want[d].reports EXCEPT !.offers[p] = o])

\* WireGuard saw peer p's packets arrive from a new address.
NewSighting(d, p, a) == p # d /\ Found(d, [want[d].reports EXCEPT !.sights[p] = a])

\* The next pass, STATS_RECHECK later, while the request that carries the report is
\* still being served: the report is not known to be delivered, so it is dropped too.
Abandon(d) ==
  /\ Slow
  /\ flight[d] # NoReq
  /\ HaveReport(d)
  /\ flight' = [flight EXCEPT ![d] = NoReq]
  /\ UNCHANGED <<up, want, sent, view, since, tableVars, ctr, wakeVars, slotVars, reaped, job, boundVars>>

NoBody == [since |-> NoVersion, paused |-> FALSE, enabled |-> {}, reports |-> NoReports, held |-> NoSeeds]

NoRows == [s \in Scope |-> {}]

\* A handler about to build: nothing changed yet, every scope still to be recorded.
Building(r, body, woken, again) ==
  [pc |-> "recording", body |-> body, todo |-> Interest[r], changed |-> {},
   rows |-> NoRows, targets |-> {}, snap |-> NoSeeds,
   version |-> [s \in Interest[r] |-> 0], woken |-> woken, again |-> again]

Idle(r) == [Building(r, NoBody, FALSE, FALSE) EXCEPT !.pc = "idle", !.todo = {}]

\* `woken_while_away`
Subscribed(r) == Owner[r] \in pending

\* The engine posts a refresh and the handler subscribes to its targeted wakes.
\* With something to report it sends no `since`, so that the reply is immediate.
Issue(r) ==
  LET d == Owner[r] IN
  /\ d \in up /\ flight[d] = NoReq
  /\ job[r].pc = "idle"
  /\ flight' = [flight EXCEPT ![d] = r]
  /\ job' = [job EXCEPT ![r] =
       Building(r, [since |-> IF HaveReport(d) THEN NoVersion ELSE since[d],
                    paused |-> want[d].paused, enabled |-> want[d].enabled,
                    reports |-> want[d].reports, held |-> view[d]],
                Subscribed(r), FALSE)]
  /\ Wakes!Subscribe(r)
  /\ UNCHANGED <<up, want, sent, view, since, tableVars, ctr, slotVars, reaped, boundVars>>

\* The reply arrives: merge it, remember its version and what was reported.
Receive(d) ==
  LET r == flight[d] IN
  /\ r # NoReq
  /\ job[r].pc = "replied"
  /\ view' = [view EXCEPT ![d] = Merged(@, job[r].body.held, job[r].snap)]
  /\ since' = [since EXCEPT ![d] = [epoch |-> epoch, at |-> job[r].version]]
  /\ sent' = [sent EXCEPT ![d] = want[d].reports]
  /\ flight' = [flight EXCEPT ![d] = NoReq]
  /\ job' = [job EXCEPT ![r] = Idle(r)]
  /\ UNCHANGED <<up, want, tableVars, ctr, wakeVars, slotVars, reaped, boundVars>>

-----------------------------------------------------------------------------
(* build_snapshot *)

\* Mutant of Advertises: a paused engine stays in its networks.
AdvertisesPaused(body, s) == s \in body.enabled

Advertises(body, s) == ~body.paused /\ s \in body.enabled

\* Mutant of RecordChanges: reports the change only when the row appears.
RecordJoinsOnly(r, s) == Advertises(job[r].body, s) /\ Owner[r] \notin presence[s]

\* record / record_self / evict / evict_self: whether the row appeared or went away.
RecordChanges(r, s) == Advertises(job[r].body, s) # (Owner[r] \in presence[s])

\* resolve_membership and record_own_device, one scope at a time; after the last one
\* the enabled scopes are to be read.
Record(r, s) ==
  LET last == job[r].todo = {s} IN
  /\ job[r].pc = "recording"
  /\ s \in job[r].todo
  /\ presence' = [presence EXCEPT ![s] =
       IF Advertises(job[r].body, s) THEN @ \cup {Owner[r]} ELSE @ \ {Owner[r]}]
  /\ job' = [job EXCEPT ![r].changed = IF RecordChanges(r, s) THEN @ \cup {s} ELSE @,
                        ![r].pc = IF last THEN "reading" ELSE @,
                        ![r].todo = IF last THEN job[r].body.enabled ELSE @ \ {s}]
  /\ UNCHANGED <<clientVars, offers, sights, ctr, wakeVars, slotVars, reaped, boundVars>>

\* others_in / others_of_user, one scope at a time.
Read(r, s) ==
  /\ job[r].pc = "reading"
  /\ s \in job[r].todo
  /\ job' = [job EXCEPT ![r].rows[s] = presence[s], ![r].todo = @ \ {s}]
  /\ UNCHANGED <<clientVars, tableVars, ctr, wakeVars, slotVars, reaped, boundVars>>

\* A report is kept only about a co-member, and only when it says something.
Kept(r, about, old) ==
  [p \in Device |-> IF about[p] # NoReport /\ p \in PeersOf(Owner[r], job[r].rows, job[r].body.enabled)
                    THEN about[p] ELSE old[p]]

\* record_peer_reports, then the tables the seeds are made of.  The peers whose entry
\* changed are woken at the end.
Report(r) ==
  LET d == Owner[r]
      body == job[r].body
      newOffers == Kept(r, body.reports.offers, offers[d])
      newSights == Kept(r, body.reports.sights, sights)
  IN
  /\ job[r].pc = "reading"
  /\ job[r].todo = {}
  /\ offers' = [offers EXCEPT ![d] = newOffers]
  /\ sights' = newSights
  /\ job' = [job EXCEPT
       ![r].pc = "built",
       ![r].todo = job[r].changed,
       ![r].rows = NoRows,
       ![r].targets = {p \in Device : newOffers[p] # offers[d][p] \/ newSights[p] # sights[p]},
       ![r].snap = Seeds(d, job[r].rows, body.enabled, [offers EXCEPT ![d] = newOffers], newSights)]
  /\ UNCHANGED <<clientVars, presence, ctr, wakeVars, slotVars, reaped, boundVars>>

\* `bump_all(changed)`
BumpChanged(r, s) ==
  /\ job[r].pc = "built"
  /\ s \in job[r].todo
  /\ job' = [job EXCEPT ![r].todo = @ \ {s}]
  /\ Herd!Bump(s)
  /\ UNCHANGED <<clientVars, tableVars, wakeVars, slotVars, reaped, boundVars>>

\* Mutant of Woken: targeted wakes for nobody.
WokenNone(r) == {}

\* The devices this build wakes by name.
Woken(r) == job[r].targets

\* Targeted wakes, then the version: the counters as they are now, after the seeds
\* were read.
Publish(r) ==
  /\ job[r].pc = "built"
  /\ job[r].todo = {}
  /\ Wakes!WakeAll(Woken(r))
  /\ job' = [job EXCEPT ![r].pc = "published", ![r].version = Herd!Aggregate(Interest[r])]
  /\ UNCHANGED <<clientVars, tableVars, ctr, slotVars, reaped, boundVars>>

-----------------------------------------------------------------------------
(* register *)

CallerChanged(r) == job[r].changed # {} \/ job[r].targets # {}

\* The test that decides between holding the request and answering it.
MayPark(r) ==
  /\ ~job[r].again /\ ~CallerChanged(r) /\ ~job[r].woken
  /\ job[r].body.since # NoVersion /\ job[r].body.since.at = job[r].version

\* try_acquire succeeds; the reply just built is dropped.
Park(r) ==
  /\ job[r].pc = "published"
  /\ MayPark(r)
  /\ Slots!Park(r)
  /\ job' = [job EXCEPT ![r].pc = "parked"]
  /\ UNCHANGED <<clientVars, tableVars, ctr, wakeVars, reaped, boundVars>>

\* The permit, if any, and the receiver go with the handler.
Release(r) ==
  /\ parked' = parked \ {r} /\ told' = told \ {r}
  /\ listening' = listening \ {r} /\ unseen' = unseen \ {r} /\ UNCHANGED pending

\* The request fails; an engine that awaits it keeps its `since` and asks again.
Ended(r) ==
  /\ Release(r)
  /\ job' = [job EXCEPT ![r] = Idle(r)]
  /\ flight' = [flight EXCEPT ![Owner[r]] = IF @ = r THEN NoReq ELSE @]
  /\ UNCHANGED <<up, want, sent, view, since, tableVars, ctr, reaped>>

\* 429: the long-poll ceiling.
Refuse(r) ==
  /\ job[r].pc = "published"
  /\ MayPark(r)
  /\ Slots!AtCapacity
  /\ Ended(r)
  /\ UNCHANGED boundVars

Reply(r) ==
  /\ job[r].pc = "published"
  /\ ~MayPark(r)
  /\ Release(r)
  /\ job' = [job EXCEPT ![r].pc = "replied", ![r].changed = {}, ![r].targets = {}]
  /\ UNCHANGED <<clientVars, tableVars, ctr, reaped, boundVars>>

\* A wait ends and the snapshot is built again, for the same request body; the permit
\* and the receiver are kept meanwhile.
Rebuild(r) ==
  /\ job[r].pc = "parked"
  /\ job' = [job EXCEPT ![r] = Building(r, @.body, FALSE, TRUE)]
  /\ UNCHANGED <<clientVars, tableVars, ctr, slotVars, reaped, boundVars>>

HerdWoken(r) == Herd!HerdDue(r) /\ Rebuild(r) /\ UNCHANGED wakeVars
PersonalWoken(r) == Wakes!Consume(r) /\ Rebuild(r)
Preempted(r) == r \in told /\ Rebuild(r) /\ UNCHANGED wakeVars
\* Mutant of HoldElapsed: a wait without its timer.
HoldForever(r) == FALSE /\ Rebuild(r)

HoldElapsed(r) == Rebuild(r) /\ UNCHANGED wakeVars

\* The reply of a request nobody awaits goes nowhere.
Discard(r) ==
  /\ job[r].pc = "replied"
  /\ flight[Owner[r]] # r
  /\ job' = [job EXCEPT ![r] = Idle(r)]
  /\ UNCHANGED <<clientVars, tableVars, ctr, wakeVars, slotVars, reaped, boundVars>>

-----------------------------------------------------------------------------
(* Failures *)

\* What the handler r changed in a table and has not announced yet.
Unannounced(r) == IF job[r].pc = "built" THEN job[r].todo # {} \/ job[r].targets # {}
                  ELSE job[r].pc \in {"recording", "reading"} /\ job[r].changed # {}

\* The handler's future is dropped with its connection, at an await: between networks,
\* while signing seeds or the release, while parked.
Cancel(r) ==
  /\ flight[Owner[r]] # r
  /\ job[r].pc \in {"recording", "built", "published", "parked"}
  /\ job[r].pc = "built" => job[r].todo = job[r].changed
  /\ MayCut \/ ~Unannounced(r)
  /\ Ended(r)
  /\ UNCHANGED boundVars

\* A store or signing error: an early `?` return, on the same awaits.
Fail(r) ==
  /\ faults > 0
  /\ job[r].pc \in {"recording", "built", "published"}
  /\ job[r].pc = "built" => job[r].todo = job[r].changed
  /\ MayCut \/ ~Unannounced(r)
  /\ faults' = faults - 1
  /\ Ended(r)
  /\ UNCHANGED <<epoch, changes>>

\* An engine dies without a word, and comes back knowing nothing.
Crash(d) ==
  /\ faults > 0 /\ d \in up
  /\ faults' = faults - 1
  /\ up' = up \ {d}
  /\ want' = [want EXCEPT ![d].reports = NoReports]
  /\ sent' = [sent EXCEPT ![d] = NoReports]
  /\ view' = [view EXCEPT ![d] = NoSeeds]
  /\ since' = [since EXCEPT ![d] = NoVersion]
  /\ flight' = [flight EXCEPT ![d] = NoReq]
  /\ UNCHANGED <<tableVars, ctr, wakeVars, slotVars, reaped, job, epoch, changes>>

Boot(d) ==
  /\ d \notin up
  /\ up' = up \cup {d}
  /\ UNCHANGED <<want, sent, view, since, flight, tableVars, ctr, wakeVars, slotVars, reaped, job, boundVars>>

\* Presence::reap drops a device that has not refreshed for PRESENCE_TTL_SECS, which is
\* more than two holds: it is down, and none of its requests is left.
Reap(d) ==
  /\ d \notin up
  /\ \A r \in Req : Owner[r] = d => job[r].pc = "idle"
  /\ \E s \in Scope : d \in presence[s]
  /\ presence' = [s \in Scope |-> presence[s] \ {d}]
  /\ reaped' = reaped \cup {s \in Scope : d \in presence[s]}
  /\ UNCHANGED <<clientVars, offers, sights, ctr, wakeVars, slotVars, job, boundVars>>

\* The reaper's `bump_all`.
BumpReaped(s) ==
  /\ s \in reaped
  /\ reaped' = reaped \ {s}
  /\ UNCHANGED <<clientVars, tableVars, wakeVars, slotVars, job, boundVars>>
  /\ Herd!Bump(s)

Present == UNION {presence[s] : s \in Scope}

\* prune_nat_tables and Wakers::retain with present_pubkeys.
Prune ==
  /\ reaped = {}
  /\ offers' = [o \in Device |-> [p \in Device |->
                  IF {o, p} \subseteq Present THEN offers[o][p] ELSE NoReport]]
  /\ sights' = [p \in Device |-> IF p \in Present THEN sights[p] ELSE NoReport]
  /\ Wakes!Forget(Device \ Present)
  /\ <<offers, sights, pending>>' # <<offers, sights, pending>>
  /\ UNCHANGED <<clientVars, presence, ctr, slotVars, reaped, job, boundVars>>

\* The coordinator restarts: everything above is in memory.  Its requests fail.
Restart ==
  /\ epoch < Restarts
  /\ epoch' = epoch + 1
  /\ presence' = [s \in Scope |-> {}]
  /\ offers' = [o \in Device |-> NoReports.offers] /\ sights' = NoReports.sights
  /\ ctr' = [s \in Scope |-> 0]
  /\ listening' = {} /\ unseen' = {} /\ pending' = {}
  /\ parked' = {} /\ told' = {} /\ reaped' = {}
  /\ job' = [r \in Req |-> Idle(r)]
  /\ flight' = [d \in Device |-> NoReq]
  /\ UNCHANGED <<up, want, sent, view, since, changes, faults>>

-----------------------------------------------------------------------------
Init ==
  /\ up = Device
  /\ want = [d \in Device |-> FreshWant(d)]
  /\ sent = [d \in Device |-> NoReports]
  /\ view = [d \in Device |-> NoSeeds]
  /\ since = [d \in Device |-> NoVersion]
  /\ flight = [d \in Device |-> NoReq]
  /\ presence = [s \in Scope |-> {}]
  /\ offers = [o \in Device |-> NoReports.offers] /\ sights = NoReports.sights
  /\ ctr = [s \in Scope |-> 0]
  /\ Wakes!TargetedInit /\ Slots!OneParkInit
  /\ reaped = {}
  /\ job = [r \in Req |-> Idle(r)]
  /\ epoch = 0 /\ changes = Changes /\ faults = Faults

Handler(r) ==
  \/ \E s \in Scope : Record(r, s) \/ Read(r, s) \/ BumpChanged(r, s)
  \/ Report(r) \/ Publish(r)
  \/ Park(r) \/ Refuse(r) \/ Reply(r) \/ Discard(r)
  \/ HerdWoken(r) \/ PersonalWoken(r) \/ Preempted(r) \/ HoldElapsed(r)

Engine(d) ==
  \/ \E paused \in BOOLEAN, enabled \in SUBSET MemberOf[d] : Toggle(d, paused, enabled)
  \/ \E p \in Device : \/ \E o \in Offer : NewOffer(d, p, o)
                       \/ \E a \in Sighting : NewSighting(d, p, a)
  \/ Abandon(d) \/ Receive(d) \/ Crash(d) \/ Boot(d) \/ Reap(d)

Next ==
  \/ \E r \in Req : Issue(r) \/ Handler(r) \/ Cancel(r) \/ Fail(r)
  \/ \E d \in Device : Engine(d)
  \/ \E s \in Scope : BumpReaped(s)
  \/ Prune \/ Restart

Safety == Init /\ [][Next]_vars

(***************************************************************************)
(* Fairness.  A handler's steps run on the executor; a hold is a timer; an *)
(* engine always has a request in flight and reads its reply; a service    *)
(* manager restarts it; the reaper ticks every minute.  No fairness for    *)
(* what users and networks do.                                             *)
(***************************************************************************)
Fairness ==
  /\ \A r \in Req : WF_vars(Handler(r))
  /\ \A d \in Device : /\ WF_vars(\E r \in Req : Owner[r] = d /\ Issue(r))
                       /\ WF_vars(Receive(d)) /\ WF_vars(Abandon(d))
                       /\ WF_vars(Boot(d)) /\ WF_vars(Reap(d))
  /\ \A s \in Scope : WF_vars(BumpReaped(s))

Spec == Safety /\ Fairness

-----------------------------------------------------------------------------
(* Properties *)

Seed == [nets : SUBSET Guild, offer : Offer \cup {NoReport}, sight : Sighting \cup {NoReport}]
SeedMap == UNION {[P -> Seed] : P \in SUBSET Device}
Reports == [offers : [Device -> Offer \cup {NoReport}], sights : [Device -> Sighting \cup {NoReport}]]
Stages == {"idle", "recording", "reading", "built", "published", "parked", "replied"}

\* What an engine or a handler keeps concerns the scopes of its own device.
VersionsOf(d) == [MemberOf[d] -> Nat]
SincesOf(d) == {NoVersion} \cup [epoch : Nat, at : VersionsOf(d)]
WantsOf(d) == [paused : BOOLEAN, enabled : SUBSET MemberOf[d], reports : Reports]
BodiesOf(d) == [since : SincesOf(d), paused : BOOLEAN, enabled : SUBSET MemberOf[d],
                reports : Reports, held : SeedMap]
JobsOf(d) == [pc : Stages, body : BodiesOf(d), todo : SUBSET MemberOf[d],
              changed : SUBSET MemberOf[d], rows : [Scope -> SUBSET Device],
              targets : SUBSET Device, snap : SeedMap, version : VersionsOf(d),
              woken : BOOLEAN, again : BOOLEAN]

EnginesOK ==
  /\ up \subseteq Device
  /\ sent \in [Device -> Reports] /\ view \in [Device -> SeedMap]
  /\ \A d \in Device : /\ want[d] \in WantsOf(d) /\ since[d] \in SincesOf(d)
                       /\ flight[d] \in {r \in Req : Owner[r] = d} \cup {NoReq}

TablesOK ==
  /\ \A s \in Scope : presence[s] \subseteq {d \in Device : s \in MemberOf[d]}
  /\ offers \in [Device -> [Device -> Offer \cup {NoReport}]]
  /\ sights \in [Device -> Sighting \cup {NoReport}]
  /\ ctr \in [Scope -> Nat] /\ reaped \subseteq Scope
  /\ epoch \in 0..Restarts /\ changes \in 0..Changes /\ faults \in 0..Faults

\* A handler listens from its subscription until it answers.
WaitersOK ==
  /\ pending \subseteq Device /\ unseen \subseteq listening
  /\ listening = {r \in Req : job[r].pc \notin {"idle", "replied"}}
  /\ parked \subseteq listening /\ told \subseteq parked

\* Type invariant.
TypeOK == EnginesOK /\ TablesOK /\ WaitersOK /\ \A r \in Req : job[r] \in JobsOf(Owner[r])

\* What membership and pair reports make of a seed; sightings are nobody's wake.
Told(seeds) == [p \in DOMAIN seeds |-> <<seeds[p].nets, seeds[p].offer>>]

\* Every change made to a table has been announced to those it concerns.
Announced == reaped = {} /\ \A q \in Req : ~Unannounced(q)

\* A request that will stay parked until something else happens.
Asleep(r) == job[r].pc = "parked" /\ ~Herd!HerdDue(r) /\ r \notin unseen

(***************************************************************************)
(* "No lost wakeups": while a request of a connected device sleeps and     *)
(* nothing remains to be announced, the snapshot it was parked on (and     *)
(* that the coordinator dropped) is what a rebuild would give.  Any        *)
(* presence change or pair report that could alter it must have moved its  *)
(* version or its personal channel, whatever build it raced.               *)
(***************************************************************************)
ParkedIsCurrent ==
  Announced => \A r \in Req :
    Asleep(r) /\ ~job[r].body.paused =>
      Told(job[r].snap) = Told(SeedsNow(Owner[r], job[r].body.enabled))

(***************************************************************************)
(* The coordinator's rows for a device are those its sleeping request      *)
(* asked for: an abandoned request of the same device that runs late, or   *)
(* the reaper, cannot put them back or take them away unnoticed.           *)
(***************************************************************************)
RowsFollowRequest ==
  Announced => \A r \in Req : Asleep(r) =>
    \A s \in Interest[r] : Advertises(job[r].body, s) <=> Owner[r] \in presence[s]

(***************************************************************************)
(* Delta sync loses nothing: once a reply is merged the engine holds the   *)
(* very snapshot the coordinator built, whatever `held` it was cut to.     *)
(***************************************************************************)
DeltaReconstructs == [][\A d \in Device : Receive(d) => view'[d] = job[flight[d]].snap]_vars

(***************************************************************************)
(* A request is never held forever, and never silently lost: the engine    *)
(* gets an answer or an error, or drops it itself.                         *)
(***************************************************************************)
AnsweredEventually == \A r \in Req : (flight[Owner[r]] = r) ~> (flight[Owner[r]] # r)

(***************************************************************************)
(* Once users and the network leave the system alone, every engine ends up *)
(* with the current seeds, reports and sightings included, for good: what  *)
(* a lost wake, a failed build or a restart hides, the next hold corrects. *)
(***************************************************************************)
UpToDate == \A d \in Device : view[d] = SeedsNow(d, want[d].enabled)
Converges == <>[]UpToDate

\* An engine that is connected ends up online in every network it enabled, and one
\* that is paused ends up offline everywhere, late requests of its own notwithstanding.
RowsRight == \A d \in Device : \A s \in MemberOf[d] :
  d \in presence[s] <=> ~want[d].paused /\ s \in want[d].enabled
PresenceConverges == <>[]RowsRight

(***************************************************************************)
(* wake.rs: "If nothing is parked, the wake is recorded rather than        *)
(* dropped".  So an engine whose awaited request sleeps, with every change *)
(* announced, has the reports its peers made for it.                       *)
(***************************************************************************)
OffersReachTheirPeer ==
  Announced => \A d \in Device : flight[d] # NoReq /\ Asleep(flight[d]) =>
    \A p \in DOMAIN view[d] : view[d][p].offer = offers[p][d]

\* What the exchange keeps at every step: whoever sleeps with nothing left to announce has
\* the snapshot a rebuild would give it.
LongPollSafe == TypeOK /\ ParkedIsCurrent

\* With every request answered and every wake possibly lost, both the engines' seeds and the
\* coordinator's rows come out right.
Settles == Converges /\ PresenceConverges
=============================================================================
