--------------------------- MODULE LongPollProofs ---------------------------
(***************************************************************************)
(* Proofs about LongPoll for any devices, requests, scopes and reports.    *)
(***************************************************************************)
EXTENDS LongPoll, TLAPS

-----------------------------------------------------------------------------
(* Types *)

\* These are kept per device, request or scope (most range over its own scopes).
PerDevice ==
  /\ want = [d \in Device |-> want[d]] /\ since = [d \in Device |-> since[d]]
  /\ flight = [d \in Device |-> flight[d]] /\ presence = [s \in Scope |-> presence[s]]
  /\ job = [r \in Req |-> job[r]]

TypeIInv == TypeOK /\ PerDevice

JobsOK == (\A r \in Req : job[r] \in JobsOf(Owner[r])) /\ job = [r \in Req |-> job[r]]

LEMMA NoReportsType == NoReports \in Reports
  BY DEF NoReports, Reports

LEMMA NoSeedsType == NoSeeds \in SeedMap
<1>1. NoSeeds \in [{} -> Seed] /\ {} \in SUBSET Device
  BY DEF NoSeeds
<1> QED BY <1>1 DEF SeedMap

\* A snapshot is about devices, shared guilds and reports.
LEMMA SeedsType ==
  ASSUME NEW d \in Device, NEW rows \in [Scope -> SUBSET Device], NEW enabled \in SUBSET MemberOf[d],
         NEW offered \in [Device -> [Device -> Offer \cup {NoReport}]],
         NEW sighted \in [Device -> Sighting \cup {NoReport}]
  PROVE  Seeds(d, rows, enabled, offered, sighted) \in SeedMap
<1> DEFINE P == PeersOf(d, rows, enabled)
<1>1. P \in SUBSET Device
  BY DEF PeersOf
<1>2. Seeds(d, rows, enabled, offered, sighted) \in [P -> Seed]
  BY <1>1 DEF Seeds, Seed
<1> QED BY <1>1, <1>2 DEF SeedMap

\* So is what an engine merges from a reply.
LEMMA MergedType ==
  ASSUME NEW prev \in SeedMap, NEW held \in SeedMap, NEW all \in SeedMap
  PROVE  Merged(prev, held, all) \in SeedMap
<1> PICK P \in SUBSET Device : prev \in [P -> Seed]
  BY DEF SeedMap
<1> PICK A \in SUBSET Device : all \in [A -> Seed]
  BY DEF SeedMap
<1> DEFINE kept == IF held = NoSeeds THEN {} ELSE DOMAIN prev \ Removed(held, all)
           D == kept \cup Sent(held, all)
<1>1. kept \subseteq P /\ Sent(held, all) \subseteq A
  BY DEF Sent
<1>2. Merged(prev, held, all) \in [D -> Seed] /\ D \in SUBSET Device
  BY <1>1 DEF Merged
<1> QED BY <1>2 DEF SeedMap

\* A handler starts its build well typed.
LEMMA BuildingType ==
  ASSUME NEW r \in Req, NEW body \in BodiesOf(Owner[r]), NEW woken \in BOOLEAN, NEW again \in BOOLEAN
  PROVE  /\ Building(r, body, woken, again) \in JobsOf(Owner[r])
         /\ Building(r, body, woken, again).pc = "recording"
<1>1. NoRows \in [Scope -> SUBSET Device]
  BY DEF NoRows
<1>2. Owner[r] \in Device /\ Interest[r] = MemberOf[Owner[r]]
  BY LongPollConstants DEF Interest
<1>3. [s \in Interest[r] |-> 0] \in VersionsOf(Owner[r])
  BY <1>2 DEF VersionsOf
<1> QED BY <1>1, <1>2, <1>3, NoSeedsType DEF Building, JobsOf, Stages

LEMMA IdleType ==
  ASSUME NEW r \in Req PROVE Idle(r) \in JobsOf(Owner[r]) /\ Idle(r).pc = "idle"
<1>1. NoBody \in BodiesOf(Owner[r])
  BY NoReportsType, NoSeedsType DEF NoBody, BodiesOf, SincesOf
<1>2. Building(r, NoBody, FALSE, FALSE) \in JobsOf(Owner[r])
  BY <1>1, BuildingType
<1> QED BY <1>2 DEF Idle, JobsOf, Stages

\* A step of one handler leaves the others' state alone.
LEMMA JobStep ==
  ASSUME JobsOK, NEW r \in Req, NEW j \in JobsOf(Owner[r]), job' = [job EXCEPT ![r] = j]
  PROVE  JobsOK' /\ job'[r] = j /\ \A q \in Req \ {r} : job'[q] = job[q]
  BY DEF JobsOK

\* What the client's own steps leave alone, and what they must show.
LEMMA EngineStep ==
  ASSUME TypeIInv, UNCHANGED <<tableVars, ctr, wakeVars, slotVars, reaped, job, epoch>>,
         EnginesOK', changes' \in 0..Changes, faults' \in 0..Faults,
         want' = [d \in Device |-> want'[d]], since' = [d \in Device |-> since'[d]],
         flight' = [d \in Device |-> flight'[d]]
  PROVE  TypeIInv'
  BY DEF TypeIInv, TypeOK, PerDevice, TablesOK, WaitersOK, tableVars, wakeVars, slotVars

LEMMA ToggleType ==
  ASSUME TypeIInv, NEW d \in Device, NEW paused \in BOOLEAN, NEW enabled \in SUBSET MemberOf[d],
         Toggle(d, paused, enabled)
  PROVE  TypeIInv'
<1>1. want'[d] \in WantsOf(d)
  BY DEF Toggle, TypeIInv, TypeOK, PerDevice, EnginesOK, WantsOf
<1>2. EnginesOK'
  BY <1>1 DEF Toggle, TypeIInv, TypeOK, PerDevice, EnginesOK
<1>3. changes' \in 0..Changes /\ faults' \in 0..Faults
  BY LongPollConstants DEF Toggle, TypeIInv, TypeOK, TablesOK
<1> QED BY <1>2, <1>3, EngineStep DEF Toggle, TypeIInv, PerDevice

LEMMA FoundType ==
  ASSUME TypeIInv, NEW d \in Device, NEW reports \in Reports, Found(d, reports)
  PROVE  TypeIInv'
<1>1. want'[d] \in WantsOf(d)
  BY DEF Found, TypeIInv, TypeOK, PerDevice, EnginesOK, WantsOf
<1>2. EnginesOK'
  BY <1>1 DEF Found, TypeIInv, TypeOK, PerDevice, EnginesOK
<1>3. changes' \in 0..Changes /\ faults' \in 0..Faults
  BY LongPollConstants DEF Found, TypeIInv, TypeOK, TablesOK
<1> QED BY <1>2, <1>3, EngineStep DEF Found, TypeIInv, PerDevice

LEMMA NewReportType ==
  ASSUME TypeIInv, NEW d \in Device, NEW p \in Device,
         \/ \E o \in Offer : NewOffer(d, p, o)
         \/ \E a \in Sighting : NewSighting(d, p, a)
  PROVE  TypeIInv'
<1>1. want[d].reports \in Reports
  BY DEF TypeIInv, TypeOK, EnginesOK, WantsOf
<1>2. ASSUME NEW o \in Offer, NewOffer(d, p, o) PROVE TypeIInv'
  <2>1. [want[d].reports EXCEPT !.offers[p] = o] \in Reports
    BY <1>1 DEF Reports
  <2> QED BY <1>2, <2>1, FoundType DEF NewOffer
<1>3. ASSUME NEW a \in Sighting, NewSighting(d, p, a) PROVE TypeIInv'
  <2>1. [want[d].reports EXCEPT !.sights[p] = a] \in Reports
    BY <1>1 DEF Reports
  <2> QED BY <1>3, <2>1, FoundType DEF NewSighting
<1> QED BY <1>2, <1>3

LEMMA AbandonBootType ==
  ASSUME TypeIInv, NEW d \in Device, Abandon(d) \/ Boot(d) PROVE TypeIInv'
<1>1. EnginesOK'
  BY DEF Abandon, Boot, TypeIInv, TypeOK, PerDevice, EnginesOK
<1>2. changes' \in 0..Changes /\ faults' \in 0..Faults
  BY DEF Abandon, Boot, boundVars, TypeIInv, TypeOK, TablesOK
<1> QED BY <1>1, <1>2, EngineStep DEF Abandon, Boot, boundVars, TypeIInv, PerDevice

LEMMA CrashType == ASSUME TypeIInv, NEW d \in Device, Crash(d) PROVE TypeIInv'
<1>1. want'[d] \in WantsOf(d)
  BY NoReportsType DEF Crash, TypeIInv, TypeOK, PerDevice, EnginesOK, WantsOf
<1>2. EnginesOK'
  BY <1>1, NoReportsType, NoSeedsType DEF Crash, TypeIInv, TypeOK, PerDevice, EnginesOK, SincesOf
<1>3. changes' \in 0..Changes /\ faults' \in 0..Faults
  BY LongPollConstants DEF Crash, TypeIInv, TypeOK, TablesOK
<1> QED BY <1>2, <1>3, EngineStep DEF Crash, TypeIInv, PerDevice

\* A request is composed of what the engine wants and holds.
LEMMA IssueType == ASSUME TypeIInv, NEW r \in Req, Issue(r) PROVE TypeIInv'
<1> DEFINE d == Owner[r]
           body == [since |-> IF HaveReport(d) THEN NoVersion ELSE since[d],
                    paused |-> want[d].paused, enabled |-> want[d].enabled,
                    reports |-> want[d].reports, held |-> view[d]]
<1>1. d \in Device
  BY LongPollConstants
<1>2. body \in BodiesOf(d) /\ Subscribed(r) \in BOOLEAN
  BY <1>1 DEF TypeIInv, TypeOK, EnginesOK, WantsOf, BodiesOf, SincesOf, Subscribed
<1> DEFINE j == Building(r, body, Subscribed(r), FALSE)
<1> HIDE DEF body
<1>3. j \in JobsOf(d) /\ j.pc = "recording"
  BY <1>2, BuildingType
<1>4. job' = [job EXCEPT ![r] = j]
  BY DEF Issue, body
<1>5. JobsOK' /\ job'[r] = j /\ \A q \in Req \ {r} : job'[q] = job[q]
  BY <1>3, <1>4, JobStep DEF TypeIInv, TypeOK, PerDevice, JobsOK
<1>6. EnginesOK'
  BY <1>1 DEF Issue, TypeIInv, TypeOK, PerDevice, EnginesOK
<1>7. WaitersOK'
  BY <1>3, <1>5 DEF Issue, Wakes!Subscribe, slotVars, TypeIInv, TypeOK, WaitersOK
<1>8. TablesOK'
  BY DEF Issue, tableVars, boundVars, TypeIInv, TypeOK, TablesOK
<1>9. PerDevice'
  BY <1>5 DEF Issue, tableVars, TypeIInv, PerDevice, JobsOK
<1> QED BY <1>5, <1>6, <1>7, <1>8, <1>9 DEF TypeIInv, TypeOK, JobsOK

LEMMA ReceiveType == ASSUME TypeIInv, NEW d \in Device, Receive(d) PROVE TypeIInv'
<1> DEFINE r == flight[d]
<1>1. r \in Req /\ Owner[r] = d
  BY DEF Receive, TypeIInv, TypeOK, EnginesOK
<1>2. job[r] \in JobsOf(d) /\ job[r].pc = "replied"
  BY <1>1 DEF Receive, TypeIInv, TypeOK
<1>3. JobsOK' /\ job'[r] = Idle(r) /\ Idle(r).pc = "idle" /\ \A q \in Req \ {r} : job'[q] = job[q]
  BY <1>1, IdleType, JobStep DEF Receive, TypeIInv, TypeOK, PerDevice, JobsOK
<1>4. Merged(view[d], job[r].body.held, job[r].snap) \in SeedMap
  BY <1>2, MergedType DEF JobsOf, BodiesOf, TypeIInv, TypeOK, EnginesOK
<1>5. [epoch |-> epoch, at |-> job[r].version] \in SincesOf(d)
  BY <1>2, LongPollConstants DEF JobsOf, SincesOf, TypeIInv, TypeOK, TablesOK
<1>6. EnginesOK'
  <2>1. want[d].reports \in Reports
    BY DEF TypeIInv, TypeOK, EnginesOK, WantsOf
  <2>2. since'[d] \in SincesOf(d)
    BY <1>5 DEF Receive, TypeIInv, PerDevice
  <2> QED BY <1>4, <2>1, <2>2 DEF Receive, TypeIInv, TypeOK, PerDevice, EnginesOK
<1>7. WaitersOK'
  BY <1>1, <1>2, <1>3 DEF Receive, wakeVars, slotVars, TypeIInv, TypeOK, WaitersOK
<1>8. TablesOK'
  BY DEF Receive, tableVars, boundVars, TypeIInv, TypeOK, TablesOK
<1>9. PerDevice'
  BY <1>3 DEF Receive, tableVars, TypeIInv, PerDevice, JobsOK
<1> QED BY <1>3, <1>6, <1>7, <1>8, <1>9 DEF TypeIInv, TypeOK, JobsOK

\* A handler's step that touches no table but its own state.
LEMMA HandlerStep ==
  ASSUME TypeIInv, NEW r \in Req, NEW j \in JobsOf(Owner[r]), job' = [job EXCEPT ![r] = j],
         UNCHANGED <<clientVars, boundVars>>, TablesOK', WaitersOK',
         presence' = [s \in Scope |-> presence'[s]]
  PROVE  TypeIInv'
<1>1. JobsOK'
  BY JobStep DEF TypeIInv, TypeOK, PerDevice, JobsOK
<1>2. EnginesOK'
  BY DEF clientVars, TypeIInv, TypeOK, EnginesOK
<1> QED BY <1>1, <1>2 DEF TypeIInv, TypeOK, PerDevice, JobsOK, clientVars

\* It keeps its receiver until it answers.
LEMMA StillListening ==
  ASSUME TypeIInv, NEW r \in Req, NEW j \in JobsOf(Owner[r]), job' = [job EXCEPT ![r] = j],
         job[r].pc \notin {"idle", "replied"}, j.pc \notin {"idle", "replied"},
         UNCHANGED <<wakeVars, slotVars>>
  PROVE  WaitersOK'
<1>1. job'[r] = j /\ \A q \in Req \ {r} : job'[q] = job[q]
  BY JobStep DEF TypeIInv, TypeOK, PerDevice, JobsOK
<1> QED BY <1>1 DEF TypeIInv, TypeOK, WaitersOK, wakeVars, slotVars

\* What a handler's own state looks like.
LEMMA JobFields ==
  ASSUME TypeIInv, NEW r \in Req
  PROVE  /\ job[r] \in JobsOf(Owner[r])
         /\ Owner[r] \in Device
         /\ Interest[r] = MemberOf[Owner[r]]
         /\ MemberOf[Owner[r]] \subseteq Scope
  BY LongPollConstants DEF TypeIInv, TypeOK, Interest

LEMMA RecordType ==
  ASSUME TypeIInv, NEW r \in Req, NEW s \in Scope, Record(r, s) PROVE TypeIInv'
<1> DEFINE last == job[r].todo = {s}
           j == [job[r] EXCEPT !.changed = IF RecordChanges(r, s) THEN @ \cup {s} ELSE @,
                               !.pc = IF last THEN "reading" ELSE @,
                               !.todo = IF last THEN job[r].body.enabled ELSE @ \ {s}]
<1>1. job' = [job EXCEPT ![r] = j] /\ job[r].pc = "recording" /\ s \in job[r].todo
  BY JobFields DEF Record, JobsOf, TypeIInv, PerDevice
<1>2. j \in JobsOf(Owner[r]) /\ j.pc \in {"recording", "reading"}
  <2> DEFINE C == IF RecordChanges(r, s) THEN job[r].changed \cup {s} ELSE job[r].changed
             T == IF last THEN job[r].body.enabled ELSE job[r].todo \ {s}
             p == IF last THEN "reading" ELSE job[r].pc
  <2>1. C \in SUBSET MemberOf[Owner[r]] /\ T \in SUBSET MemberOf[Owner[r]]
    BY <1>1, JobFields DEF JobsOf, BodiesOf
  <2>2. p \in {"recording", "reading"}
    BY <1>1
  <2>3. p \in Stages
    BY <2>2 DEF Stages
  <2> DEFINE j1 == [job[r] EXCEPT !.changed = C]
             j2 == [j1 EXCEPT !.pc = p, !.todo = T]
  <2>4. j1 \in JobsOf(Owner[r]) /\ j1.pc = job[r].pc /\ j1.todo = job[r].todo
    BY <2>1, JobFields DEF JobsOf
  <2>5. j = j2
    BY <2>4, JobFields DEF JobsOf
  <2> HIDE DEF C, T, p, j, j1
  <2>6. j2 \in JobsOf(Owner[r]) /\ j2.pc = p
    BY <2>1, <2>3, <2>4, JobFields DEF JobsOf
  <2> QED BY <2>2, <2>5, <2>6
<1>3. s \in MemberOf[Owner[r]]
  BY <1>1, JobFields DEF JobsOf
<1>4. \A t \in Scope : presence'[t] \subseteq presence[t] \cup (IF t = s THEN {Owner[r]} ELSE {})
  BY DEF Record, TypeIInv, PerDevice
<1>5. TablesOK'
  <2>1. \A t \in Scope : presence'[t] \subseteq {d \in Device : t \in MemberOf[d]}
    BY <1>3, <1>4, JobFields DEF TypeIInv, TypeOK, TablesOK
  <2>2. UNCHANGED <<offers, sights, ctr, reaped, boundVars>>
    BY DEF Record
  <2> QED BY <2>1, <2>2 DEF boundVars, TypeIInv, TypeOK, TablesOK
<1>6. WaitersOK'
  BY <1>1, <1>2, StillListening DEF Record
<1>7. presence' = [t \in Scope |-> presence'[t]]
  BY DEF Record, TypeIInv, PerDevice
<1> QED BY <1>1, <1>2, <1>5, <1>6, <1>7, HandlerStep DEF Record

LEMMA ReadType ==
  ASSUME TypeIInv, NEW r \in Req, NEW s \in Scope, Read(r, s) PROVE TypeIInv'
<1> DEFINE j == [job[r] EXCEPT !.rows[s] = presence[s], !.todo = @ \ {s}]
<1>1. job' = [job EXCEPT ![r] = j] /\ job[r].pc = "reading"
  BY JobFields DEF Read, JobsOf, TypeIInv, PerDevice
<1>2. presence[s] \subseteq Device
  BY DEF TypeIInv, TypeOK, TablesOK
<1>3. j \in JobsOf(Owner[r]) /\ j.pc = "reading"
  <2> DEFINE R == [job[r].rows EXCEPT ![s] = presence[s]]
             T == job[r].todo \ {s}
  <2>1. R \in [Scope -> SUBSET Device] /\ T \in SUBSET MemberOf[Owner[r]]
    BY <1>2, JobFields DEF JobsOf
  <2>2. j = [job[r] EXCEPT !.rows = R, !.todo = T]
    BY JobFields DEF JobsOf
  <2> HIDE DEF R, T
  <2> DEFINE j1 == [job[r] EXCEPT !.rows = R]
  <2>3. j1 \in JobsOf(Owner[r]) /\ j1.pc = "reading"
    BY <1>1, <2>1, JobFields DEF JobsOf
  <2>4. j = [j1 EXCEPT !.todo = T]
    BY <2>2, JobFields DEF JobsOf
  <2> HIDE DEF j, j1
  <2> QED BY <2>1, <2>3, <2>4 DEF JobsOf
<1>4. TablesOK'
  BY DEF Read, tableVars, boundVars, TypeIInv, TypeOK, TablesOK
<1>5. WaitersOK'
  BY <1>1, <1>3, StillListening DEF Read
<1>6. UNCHANGED <<clientVars, boundVars, presence>>
  BY DEF Read, tableVars
<1>7. presence' = [s2 \in Scope |-> presence'[s2]]
  BY <1>6 DEF TypeIInv, PerDevice
<1> HIDE DEF j
<1> QED BY <1>1, <1>3, <1>4, <1>5, <1>6, <1>7, HandlerStep

\* Reports are stored about devices, as reports.
LEMMA KeptType ==
  ASSUME NEW r \in Req, NEW T, NEW about \in [Device -> T], NEW old \in [Device -> T]
  PROVE  Kept(r, about, old) \in [Device -> T]
  BY DEF Kept

LEMMA ReportType == ASSUME TypeIInv, NEW r \in Req, Report(r) PROVE TypeIInv'
<1> DEFINE d == Owner[r]
           body == job[r].body
           newOffers == Kept(r, body.reports.offers, offers[d])
           newSights == Kept(r, body.reports.sights, sights)
           all == [offers EXCEPT ![d] = newOffers]
           targets == {p \in Device : newOffers[p] # offers[d][p] \/ newSights[p] # sights[p]}
           snap == Seeds(d, job[r].rows, body.enabled, all, newSights)
           todo == job[r].changed
           j0 == [job[r] EXCEPT !.pc = "built"]
           j1 == [j0 EXCEPT !.todo = todo]
           j2 == [j1 EXCEPT !.rows = NoRows]
           j3 == [j2 EXCEPT !.targets = targets]
           j == [j3 EXCEPT !.snap = snap]
<1>1. job' = [job EXCEPT ![r] = j] /\ job[r].pc = "reading"
  BY JobFields DEF Report, JobsOf, TypeIInv, PerDevice
<1>2. body \in BodiesOf(d) /\ job[r].rows \in [Scope -> SUBSET Device]
  BY JobFields DEF JobsOf
<1>3. /\ newOffers \in [Device -> Offer \cup {NoReport}]
      /\ newSights \in [Device -> Sighting \cup {NoReport}]
  BY <1>2, JobFields, KeptType DEF BodiesOf, Reports, TypeIInv, TypeOK, TablesOK
<1>4. all \in [Device -> [Device -> Offer \cup {NoReport}]]
  BY <1>3 DEF TypeIInv, TypeOK, TablesOK
<1>5. snap \in SeedMap
  BY <1>2, <1>3, <1>4, JobFields, SeedsType DEF BodiesOf
<1>6. NoRows \in [Scope -> SUBSET Device]
  BY DEF NoRows
<1>7. offers' = all /\ sights' = newSights
  BY DEF Report
<1> HIDE DEF snap, all, newOffers, newSights
<1>8. j \in JobsOf(d) /\ j.pc = "built"
  <2>0. todo \in SUBSET MemberOf[d] /\ targets \in SUBSET Device
    BY JobFields DEF JobsOf
  <2> HIDE DEF todo, targets
  <2>1. j0 \in JobsOf(d) /\ j0.pc = "built"
    BY JobFields DEF JobsOf, Stages
  <2> HIDE DEF j0
  <2>2. j1 \in JobsOf(d) /\ j1.pc = "built"
    BY <2>0, <2>1 DEF JobsOf
  <2> HIDE DEF j1
  <2>3. j2 \in JobsOf(d) /\ j2.pc = "built"
    BY <1>6, <2>2 DEF JobsOf
  <2> HIDE DEF j2
  <2>4. j3 \in JobsOf(d) /\ j3.pc = "built"
    BY <2>0, <2>3 DEF JobsOf
  <2> HIDE DEF j3
  <2> QED BY <1>5, <2>4 DEF JobsOf
<1>9. TablesOK'
  BY <1>3, <1>4, <1>7 DEF Report, boundVars, TypeIInv, TypeOK, TablesOK
<1>10. WaitersOK'
  BY <1>1, <1>8, StillListening DEF Report
<1>11. UNCHANGED <<clientVars, boundVars, presence>>
  BY DEF Report
<1>12. presence' = [s2 \in Scope |-> presence'[s2]]
  BY <1>11 DEF TypeIInv, PerDevice
<1> HIDE DEF j
<1> QED BY <1>1, <1>8, <1>9, <1>10, <1>11, <1>12, HandlerStep

LEMMA BumpChangedType ==
  ASSUME TypeIInv, NEW r \in Req, NEW s \in Scope, BumpChanged(r, s) PROVE TypeIInv'
<1> DEFINE j == [job[r] EXCEPT !.todo = @ \ {s}]
<1>1. job' = [job EXCEPT ![r] = j] /\ job[r].pc = "built"
  BY JobFields DEF BumpChanged, JobsOf, TypeIInv, PerDevice
<1>2. j \in JobsOf(Owner[r]) /\ j.pc = "built"
  BY <1>1, JobFields DEF JobsOf, Stages
<1>3. TablesOK'
  BY DEF BumpChanged, Herd!Bump, tableVars, boundVars, TypeIInv, TypeOK, TablesOK
<1>4. WaitersOK'
  BY <1>1, <1>2, StillListening DEF BumpChanged
<1>5. UNCHANGED <<clientVars, boundVars, presence>>
  BY DEF BumpChanged, tableVars
<1>6. presence' = [s2 \in Scope |-> presence'[s2]]
  BY <1>5 DEF TypeIInv, PerDevice
<1> HIDE DEF j
<1> QED BY <1>1, <1>2, <1>3, <1>4, <1>5, <1>6, HandlerStep

LEMMA PublishType == ASSUME TypeIInv, NEW r \in Req, Publish(r) PROVE TypeIInv'
<1> DEFINE v == Herd!Aggregate(Interest[r])
           j == [job[r] EXCEPT !.pc = "published", !.version = v]
<1>1. job' = [job EXCEPT ![r] = j] /\ job[r].pc = "built"
  BY JobFields DEF Publish, JobsOf, TypeIInv, PerDevice
<1>2. v \in VersionsOf(Owner[r])
  BY JobFields DEF Herd!Aggregate, VersionsOf, TypeIInv, TypeOK, TablesOK
<1> HIDE DEF v
<1>3. j \in JobsOf(Owner[r]) /\ j.pc = "published"
  <2> DEFINE j1 == [job[r] EXCEPT !.pc = "published"]
  <2>1. job[r] \in JobsOf(Owner[r])
    BY JobFields
  <2>2. j1 \in JobsOf(Owner[r]) /\ j1.pc = "published"
    BY <2>1 DEF JobsOf, Stages
  <2>3. j = [j1 EXCEPT !.version = v]
    BY <2>1 DEF JobsOf
  <2> HIDE DEF j1, j
  <2> QED BY <1>2, <2>2, <2>3 DEF JobsOf
<1>4. TablesOK'
  BY DEF Publish, tableVars, boundVars, TypeIInv, TypeOK, TablesOK
<1>5. Woken(r) \subseteq Device
  BY JobFields DEF Woken, JobsOf
<1>6. job'[r] = j /\ \A q \in Req \ {r} : job'[q] = job[q]
  BY <1>1, <1>3, JobStep DEF TypeIInv, TypeOK, PerDevice, JobsOK
<1>7. WaitersOK'
  BY <1>1, <1>3, <1>5, <1>6 DEF Publish, Wakes!WakeAll, TypeIInv, TypeOK, WaitersOK, slotVars
<1>8. UNCHANGED <<clientVars, boundVars, presence>>
  BY DEF Publish, tableVars
<1>9. presence' = [s2 \in Scope |-> presence'[s2]]
  BY <1>8 DEF TypeIInv, PerDevice
<1> HIDE DEF j
<1> QED BY <1>1, <1>3, <1>4, <1>7, <1>8, <1>9, HandlerStep

LEMMA ParkType == ASSUME TypeIInv, NEW r \in Req, Park(r) PROVE TypeIInv'
<1> DEFINE j == [job[r] EXCEPT !.pc = "parked"]
<1>1. job' = [job EXCEPT ![r] = j] /\ job[r].pc = "published"
  BY JobFields DEF Park, JobsOf, TypeIInv, PerDevice
<1>2. j \in JobsOf(Owner[r]) /\ j.pc = "parked"
  BY <1>1, JobFields DEF JobsOf, Stages
<1>3. TablesOK'
  BY DEF Park, tableVars, boundVars, TypeIInv, TypeOK, TablesOK
<1>4. job'[r] = j /\ \A q \in Req \ {r} : job'[q] = job[q]
  BY <1>1, <1>2, JobStep DEF TypeIInv, TypeOK, PerDevice, JobsOK
<1>5. WaitersOK'
  BY <1>1, <1>2, <1>4 DEF Park, Slots!Park, wakeVars, TypeIInv, TypeOK, WaitersOK
<1>6. UNCHANGED <<clientVars, boundVars, presence>>
  BY DEF Park, tableVars
<1>7. presence' = [s2 \in Scope |-> presence'[s2]]
  BY <1>6 DEF TypeIInv, PerDevice
<1> HIDE DEF j
<1> QED BY <1>1, <1>2, <1>3, <1>5, <1>6, <1>7, HandlerStep

\* A handler that ends goes idle or replies, and lets go of its receiver and permit.
LEMMA ReleaseType ==
  ASSUME TypeIInv, NEW r \in Req, NEW j \in JobsOf(Owner[r]), job' = [job EXCEPT ![r] = j],
         j.pc \in {"idle", "replied"}, Release(r)
  PROVE  WaitersOK'
<1>1. job'[r] = j /\ \A q \in Req \ {r} : job'[q] = job[q]
  BY JobStep DEF TypeIInv, TypeOK, PerDevice, JobsOK
<1> QED BY <1>1 DEF Release, TypeIInv, TypeOK, WaitersOK

LEMMA EndedType ==
  ASSUME TypeIInv, NEW r \in Req, Ended(r), epoch' = epoch, changes' = changes, faults' \in 0..Faults
  PROVE  TypeIInv'
<1>1. Idle(r) \in JobsOf(Owner[r]) /\ Idle(r).pc = "idle"
  BY IdleType
<1>2. WaitersOK'
  BY <1>1, ReleaseType DEF Ended
<1>3. JobsOK'
  BY <1>1, JobStep DEF Ended, TypeIInv, TypeOK, PerDevice, JobsOK
<1>4. EnginesOK'
  BY LongPollConstants DEF Ended, TypeIInv, TypeOK, PerDevice, EnginesOK
<1>5. TablesOK'
  BY DEF Ended, tableVars, TypeIInv, TypeOK, TablesOK
<1>6. PerDevice'
  BY <1>3 DEF Ended, tableVars, TypeIInv, PerDevice, JobsOK
<1> QED BY <1>2, <1>3, <1>4, <1>5, <1>6 DEF TypeIInv, TypeOK, JobsOK

LEMMA EndType ==
  ASSUME TypeIInv, NEW r \in Req, Refuse(r) \/ Cancel(r) \/ Fail(r) PROVE TypeIInv'
<1>1. Ended(r) /\ epoch' = epoch /\ changes' = changes
  BY DEF Refuse, Cancel, Fail, boundVars
<1>2. faults' \in 0..Faults
  BY LongPollConstants DEF Refuse, Cancel, Fail, boundVars, TypeIInv, TypeOK, TablesOK
<1> QED BY <1>1, <1>2, EndedType

LEMMA ReplyType == ASSUME TypeIInv, NEW r \in Req, Reply(r) PROVE TypeIInv'
<1> DEFINE j == [job[r] EXCEPT !.pc = "replied", !.changed = {}, !.targets = {}]
<1>1. job' = [job EXCEPT ![r] = j]
  BY JobFields DEF Reply, JobsOf, TypeIInv, PerDevice
<1>2. j \in JobsOf(Owner[r]) /\ j.pc = "replied"
  <2> DEFINE j1 == [job[r] EXCEPT !.pc = "replied"]
             j2 == [j1 EXCEPT !.changed = {}, !.targets = {}]
  <2>1. j1 \in JobsOf(Owner[r]) /\ j1.pc = "replied"
    BY JobFields DEF JobsOf, Stages
  <2>2. j = j2
    BY <2>1, JobFields DEF JobsOf
  <2> HIDE DEF j, j1
  <2>3. j2 \in JobsOf(Owner[r]) /\ j2.pc = "replied"
    BY <2>1 DEF JobsOf
  <2> QED BY <2>2, <2>3
<1>3. TablesOK'
  BY DEF Reply, tableVars, boundVars, TypeIInv, TypeOK, TablesOK
<1> HIDE DEF j
<1>4. WaitersOK'
  BY <1>1, <1>2, ReleaseType DEF Reply
<1>5. UNCHANGED <<clientVars, boundVars, presence>>
  BY DEF Reply, tableVars
<1>6. presence' = [s \in Scope |-> presence'[s]]
  BY <1>5 DEF TypeIInv, PerDevice
<1> QED BY <1>1, <1>2, <1>3, <1>4, <1>5, <1>6, HandlerStep

\* However a wait ends.
Woke(r) == HerdWoken(r) \/ PersonalWoken(r) \/ Preempted(r) \/ HoldElapsed(r)

LEMMA WokeType == ASSUME TypeIInv, NEW r \in Req, Woke(r) PROVE TypeIInv'
<1> DEFINE j == Building(r, job[r].body, FALSE, TRUE)
<1>1. Rebuild(r) /\ unseen' \subseteq unseen /\ UNCHANGED <<listening, pending>>
  BY DEF Woke, HerdWoken, PersonalWoken, Preempted, HoldElapsed, Wakes!Consume, wakeVars
<1>2. job' = [job EXCEPT ![r] = j] /\ job[r].pc = "parked"
  BY <1>1 DEF Rebuild
<1>3. j \in JobsOf(Owner[r]) /\ j.pc = "recording"
  BY JobFields, BuildingType DEF JobsOf
<1> HIDE DEF j
<1>4. TablesOK'
  BY <1>1 DEF Rebuild, tableVars, boundVars, TypeIInv, TypeOK, TablesOK
<1>5. job'[r] = j /\ \A q \in Req \ {r} : job'[q] = job[q]
  BY <1>2, <1>3, JobStep DEF TypeIInv, TypeOK, PerDevice, JobsOK
<1>6. WaitersOK'
  BY <1>1, <1>2, <1>3, <1>5 DEF Rebuild, slotVars, TypeIInv, TypeOK, WaitersOK
<1>7. UNCHANGED <<clientVars, boundVars, presence>>
  BY <1>1 DEF Rebuild, tableVars
<1>8. presence' = [s \in Scope |-> presence'[s]]
  BY <1>7 DEF TypeIInv, PerDevice
<1> QED BY <1>2, <1>3, <1>4, <1>6, <1>7, <1>8, HandlerStep

LEMMA DiscardType == ASSUME TypeIInv, NEW r \in Req, Discard(r) PROVE TypeIInv'
<1>1. Idle(r) \in JobsOf(Owner[r]) /\ Idle(r).pc = "idle"
  BY IdleType
<1>2. job'[r] = Idle(r) /\ \A q \in Req \ {r} : job'[q] = job[q]
  BY <1>1, JobStep DEF Discard, TypeIInv, TypeOK, PerDevice, JobsOK
<1>3. WaitersOK'
  BY <1>1, <1>2 DEF Discard, wakeVars, slotVars, TypeIInv, TypeOK, WaitersOK
<1>4. TablesOK'
  BY DEF Discard, tableVars, boundVars, TypeIInv, TypeOK, TablesOK
<1>5. UNCHANGED <<clientVars, boundVars, presence>>
  BY DEF Discard, tableVars
<1>6. presence' = [s \in Scope |-> presence'[s]]
  BY <1>5 DEF TypeIInv, PerDevice
<1> QED BY <1>1, <1>3, <1>4, <1>5, <1>6, HandlerStep DEF Discard

\* The reaper's steps touch the tables and the registry only.
LEMMA TableStep ==
  ASSUME TypeIInv, UNCHANGED <<clientVars, slotVars, job, boundVars>>, TablesOK', WaitersOK',
         presence' = [s \in Scope |-> presence'[s]]
  PROVE  TypeIInv'
  BY DEF TypeIInv, TypeOK, PerDevice, EnginesOK, clientVars

LEMMA ReaperType ==
  ASSUME TypeIInv, \/ \E d \in Device : Reap(d)
                   \/ \E s \in Scope : BumpReaped(s)
                   \/ Prune
  PROVE  TypeIInv'
<1>1. ASSUME NEW d \in Device, Reap(d) PROVE TypeIInv'
  <2>1. TablesOK'
    BY <1>1 DEF Reap, boundVars, TypeIInv, TypeOK, TablesOK
  <2>2. WaitersOK'
    BY <1>1 DEF Reap, wakeVars, slotVars, TypeIInv, TypeOK, WaitersOK
  <2>3. presence' = [s \in Scope |-> presence'[s]]
    BY <1>1 DEF Reap
  <2> QED BY <1>1, <2>1, <2>2, <2>3, TableStep DEF Reap
<1>2. ASSUME NEW s \in Scope, BumpReaped(s) PROVE TypeIInv'
  <2>1. TablesOK'
    BY <1>2 DEF BumpReaped, Herd!Bump, tableVars, boundVars, TypeIInv, TypeOK, TablesOK
  <2>2. WaitersOK'
    BY <1>2 DEF BumpReaped, wakeVars, slotVars, TypeIInv, TypeOK, WaitersOK
  <2>3. presence' = [t \in Scope |-> presence'[t]]
    BY <1>2 DEF BumpReaped, tableVars, TypeIInv, PerDevice
  <2> QED BY <1>2, <2>1, <2>2, <2>3, TableStep DEF BumpReaped
<1>3. ASSUME Prune PROVE TypeIInv'
  <2>1. TablesOK'
    BY <1>3 DEF Prune, boundVars, TypeIInv, TypeOK, TablesOK
  <2>2. WaitersOK'
    BY <1>3 DEF Prune, Wakes!Forget, slotVars, TypeIInv, TypeOK, WaitersOK
  <2>3. presence' = [t \in Scope |-> presence'[t]]
    BY <1>3 DEF Prune, TypeIInv, PerDevice
  <2> QED BY <1>3, <2>1, <2>2, <2>3, TableStep DEF Prune
<1> QED BY <1>1, <1>2, <1>3

LEMMA RestartType == ASSUME TypeIInv, Restart PROVE TypeIInv'
<1>1. \A r \in Req : Idle(r) \in JobsOf(Owner[r]) /\ Idle(r).pc = "idle"
  BY IdleType
<1>2. /\ job' = [r \in Req |-> job'[r]]
      /\ \A r \in Req : job'[r] \in JobsOf(Owner[r]) /\ job'[r].pc = "idle"
  BY <1>1 DEF Restart
<1>3. EnginesOK'
  BY DEF Restart, TypeIInv, TypeOK, EnginesOK
<1>4. TablesOK'
  BY LongPollConstants, NoReportsType DEF Restart, Reports, TypeIInv, TypeOK, TablesOK
<1>5. WaitersOK'
  BY <1>2 DEF Restart, WaitersOK
<1>6. PerDevice'
  BY <1>2 DEF Restart, TypeIInv, PerDevice
<1> QED BY <1>2, <1>3, <1>4, <1>5, <1>6 DEF TypeIInv, TypeOK

LEMMA InitType == Init => TypeIInv
<1> SUFFICES ASSUME Init PROVE TypeIInv
  OBVIOUS
<1>1. \A r \in Req : Idle(r) \in JobsOf(Owner[r]) /\ Idle(r).pc = "idle"
  BY IdleType
<1>2. /\ job = [r \in Req |-> job[r]]
      /\ \A r \in Req : job[r] \in JobsOf(Owner[r]) /\ job[r].pc = "idle"
  BY <1>1 DEF Init
<1>3. \A d \in Device : FreshWant(d) \in WantsOf(d)
  BY NoReportsType DEF FreshWant, WantsOf
<1>4. EnginesOK
  BY <1>3, NoReportsType, NoSeedsType DEF Init, EnginesOK, SincesOf
<1>5. TablesOK
  BY LongPollConstants, NoReportsType DEF Init, Reports, TablesOK
<1>6. WaitersOK
  BY <1>2 DEF Init, Wakes!TargetedInit, Slots!OneParkInit, WaitersOK
<1>7. PerDevice
  BY <1>2 DEF Init, PerDevice
<1> QED BY <1>2, <1>4, <1>5, <1>6, <1>7 DEF TypeIInv, TypeOK

LEMMA NextType == ASSUME TypeIInv, [Next]_vars PROVE TypeIInv'
<1>1. CASE \E r \in Req : Issue(r) \/ Handler(r) \/ Cancel(r) \/ Fail(r)
  BY <1>1, IssueType, RecordType, ReadType, BumpChangedType, ReportType, PublishType, ParkType,
     EndType, ReplyType, DiscardType, WokeType DEF Handler, Woke
<1>2. CASE \E d \in Device : Engine(d)
  BY <1>2, ToggleType, NewReportType, AbandonBootType, ReceiveType, CrashType, ReaperType DEF Engine
<1>3. CASE (\E s \in Scope : BumpReaped(s)) \/ Prune \/ Restart
  BY <1>3, ReaperType, RestartType
<1>4. CASE UNCHANGED vars
  BY <1>4 DEF vars, clientVars, tableVars, wakeVars, slotVars, boundVars,
     TypeIInv, TypeOK, PerDevice, EnginesOK, TablesOK, WaitersOK
<1> QED BY <1>1, <1>2, <1>3, <1>4 DEF Next

(***************************************************************************)
(* The long-poll is well typed whatever fails: in particular a device's    *)
(* rows stand only in scopes it belongs to, and exactly the handlers that  *)
(* have subscribed and not answered hold a receiver.                       *)
(***************************************************************************)
THEOREM LongPollTypeCorrect == Spec => []TypeOK
<1>1. Init => TypeIInv
  BY InitType
<1>2. TypeIInv /\ [Next]_vars => TypeIInv'
  BY NextType
<1>3. TypeIInv => TypeOK
  BY DEF TypeIInv
<1> QED BY <1>1, <1>2, <1>3, PTL DEF Spec, Safety

-----------------------------------------------------------------------------
(* Why nobody sleeps on an outdated snapshot *)

\* Scope s has changed and its counter has yet to be bumped for it.
BumpDueBy(q, s) == IF job[q].pc = "built" THEN s \in job[q].todo
                   ELSE job[q].pc \in {"recording", "reading"} /\ s \in job[q].changed
BumpDue(s) == s \in reaped \/ \E q \in Req : BumpDueBy(q, s)

\* A report for device d was stored and d has yet to be woken for it.
WakeDueBy(q, d) == job[q].pc = "built" /\ d \in job[q].targets
WakeDue(d) == \E q \in Req : WakeDueBy(q, d)

\* Scope s has moved, or is about to, past the version that request r came with.
Moved(r, s) ==
  \/ BumpDue(s)
  \/ job[r].body.since = NoVersion
  \/ ctr[s] > job[r].body.since.at[s]

\* Counters never fall behind the versions handed out.
SincesBehind ==
  \A d \in Device : since[d] # NoVersion => \A s \in MemberOf[d] : since[d].at[s] <= ctr[s]

BodyBehind(r) ==
  \A s \in MemberOf[Owner[r]] :
    /\ job[r].body.since # NoVersion => job[r].body.since.at[s] <= ctr[s]
    /\ job[r].version[s] <= ctr[s]

\* A request parks only in its first build, and on the version it came with.
ParksOnSince(r) ==
  job[r].pc = "parked" =>
    ~job[r].again /\ job[r].body.since # NoVersion /\ job[r].body.since.at = job[r].version

\* The request's own row in scope s has been written.
Recorded(r, s) ==
  \/ job[r].pc = "recording" /\ s \notin job[r].todo
  \/ job[r].pc \in {"reading", "built", "published", "parked"}

\* The device's own row in scope s is what its request r asks for.
RowAsked(r, s) == Advertises(job[r].body, s) <=> Owner[r] \in presence[s]

\* Its own rows are as asked unless the scope moved.
OwnRowStands(r) ==
  ~job[r].again =>
    \A s \in MemberOf[Owner[r]] : Recorded(r, s) => Moved(r, s) \/ RowAsked(r, s)

\* The rows it read are the current ones unless the scope moved.
RowsCurrent(r) ==
  job[r].pc = "reading" /\ ~job[r].again =>
    \A s \in job[r].body.enabled \ job[r].todo : Moved(r, s) \/ job[r].rows[s] = presence[s]

\* Nothing has happened, or is about to be announced, that a request should know of.
Still(r) ==
  /\ \A s \in job[r].body.enabled : ~Moved(r, s)
  /\ r \notin unseen /\ ~WakeDue(Owner[r])

HasSnap(r) == job[r].pc \in {"built", "published", "parked"} /\ ~job[r].again /\ ~job[r].body.paused

\* The snapshot it built is the current one unless something happened.
SnapCurrent(r) ==
  HasSnap(r) /\ Still(r) => Told(job[r].snap) = Told(SeedsNow(Owner[r], job[r].body.enabled))

RequestInv(r) ==
  BodyBehind(r) /\ ParksOnSince(r) /\ OwnRowStands(r) /\ RowsCurrent(r) /\ SnapCurrent(r)

ParkedIInv == TypeIInv /\ SincesBehind /\ \A r \in Req : RequestInv(r)

(***************************************************************************)
(* What every step does about the changes it makes or finds unannounced:   *)
(* counters only grow; a bump or a wake that is due is done or still due;  *)
(* a row that changes makes a bump due, and a pair report that changes     *)
(* makes a wake due, or is pruned with a device that left.                 *)
(***************************************************************************)
CountersGrow == \A s \in Scope : ctr'[s] \in Nat /\ ctr'[s] >= ctr[s]
BumpsDone == \A s \in Scope : BumpDue(s) => BumpDue(s)' \/ ctr'[s] > ctr[s]
RowsAnnounced == \A s \in Scope : presence'[s] # presence[s] => BumpDue(s)'
WakesDone == \A d \in Device : WakeDue(d) =>
  WakeDue(d)' \/ \A r \in listening : Owner[r] = d => r \in unseen'
WakesStay == \A r \in unseen :
  r \in unseen' \/ job'[r].pc \in {"idle", "replied"} \/ job'[r].again
OffersAnnounced == \A o \in Device, d \in Device : offers'[o][d] # offers[o][d] =>
  WakeDue(d)' \/ ~({o, d} \subseteq Present)

Announces ==
  CountersGrow /\ BumpsDone /\ RowsAnnounced /\ WakesDone /\ WakesStay /\ OffersAnnounced

-----------------------------------------------------------------------------
(* What each step does to a handler's state *)

\* The other handlers' state, and the body and flag of this one.
OwnStep(r) ==
  /\ \A q \in Req \ {r} : job'[q] = job[q]
  /\ job'[r].body = job[r].body /\ job'[r].again = job[r].again

LEMMA RecordEffect ==
  ASSUME TypeIInv, NEW r \in Req, NEW s \in Scope, Record(r, s)
  PROVE  /\ OwnStep(r) /\ job[r].pc = "recording" /\ s \in job[r].todo
         /\ job'[r].changed = IF RecordChanges(r, s) THEN job[r].changed \cup {s} ELSE job[r].changed
         /\ job'[r].pc = IF job[r].todo = {s} THEN "reading" ELSE "recording"
         /\ job'[r].todo = IF job[r].todo = {s} THEN job[r].body.enabled ELSE job[r].todo \ {s}
         /\ job'[r].version = job[r].version
         /\ \A t \in Scope \ {s} : presence'[t] = presence[t]
         /\ presence'[s] = IF Advertises(job[r].body, s) THEN presence[s] \cup {Owner[r]}
                           ELSE presence[s] \ {Owner[r]}
         /\ UNCHANGED <<ctr, unseen, listening, offers, reaped, since>>
<1> DEFINE C == IF RecordChanges(r, s) THEN job[r].changed \cup {s} ELSE job[r].changed
           T == IF job[r].todo = {s} THEN job[r].body.enabled ELSE job[r].todo \ {s}
           p == IF job[r].todo = {s} THEN "reading" ELSE "recording"
<1>1. /\ job[r].pc = "recording" /\ s \in job[r].todo
      /\ job' = [job EXCEPT ![r].changed = C, ![r].pc = p, ![r].todo = T]
  BY JobFields DEF Record, JobsOf
<1> HIDE DEF C, T, p
<1>2. /\ OwnStep(r) /\ job'[r].changed = C /\ job'[r].pc = p /\ job'[r].todo = T
      /\ job'[r].version = job[r].version
  BY <1>1, JobFields DEF OwnStep, JobsOf, TypeIInv, PerDevice
<1>3. /\ \A t \in Scope \ {s} : presence'[t] = presence[t]
      /\ presence'[s] = IF Advertises(job[r].body, s) THEN presence[s] \cup {Owner[r]}
                        ELSE presence[s] \ {Owner[r]}
  BY DEF Record, TypeIInv, PerDevice
<1>4. UNCHANGED <<ctr, unseen, listening, offers, reaped, since>>
  BY DEF Record, clientVars, wakeVars
<1> QED BY <1>1, <1>2, <1>3, <1>4 DEF C, T, p

LEMMA ReadEffect ==
  ASSUME TypeIInv, NEW r \in Req, NEW s \in Scope, Read(r, s)
  PROVE  /\ OwnStep(r) /\ job[r].pc = "reading" /\ job'[r].pc = "reading"
         /\ job'[r].changed = job[r].changed /\ job'[r].version = job[r].version
         /\ job'[r].todo = job[r].todo \ {s}
         /\ job'[r].rows[s] = presence[s]
         /\ \A t \in Scope \ {s} : job'[r].rows[t] = job[r].rows[t]
         /\ UNCHANGED <<presence, ctr, unseen, listening, offers, reaped, since>>
  BY JobFields DEF Read, OwnStep, JobsOf, TypeIInv, PerDevice, clientVars, tableVars, wakeVars

LEMMA ReportEffect ==
  ASSUME TypeIInv, NEW r \in Req, Report(r)
  PROVE  /\ OwnStep(r) /\ job[r].pc = "reading" /\ job'[r].pc = "built"
         /\ job[r].todo = {} /\ job'[r].todo = job[r].changed
         /\ job'[r].version = job[r].version
         /\ job'[r].snap = Seeds(Owner[r], job[r].rows, job[r].body.enabled, offers', sights')
         /\ \A o \in Device, d \in Device : offers'[o][d] # offers[o][d] => d \in job'[r].targets
         /\ UNCHANGED <<presence, ctr, unseen, listening, reaped, since>>
<1> DEFINE d == Owner[r]
           body == job[r].body
           newOffers == Kept(r, body.reports.offers, offers[d])
           newSights == Kept(r, body.reports.sights, sights)
           targets == {p \in Device : newOffers[p] # offers[d][p] \/ newSights[p] # sights[p]}
           snap == Seeds(d, job[r].rows, body.enabled, [offers EXCEPT ![d] = newOffers], newSights)
<1>1. offers' = [offers EXCEPT ![d] = newOffers] /\ sights' = newSights
  BY DEF Report
<1>2. snap = Seeds(Owner[r], job[r].rows, job[r].body.enabled, offers', sights')
  BY <1>1
<1>3. \A o \in Device, p \in Device : offers'[o][p] # offers[o][p] => p \in targets
  BY <1>1, JobFields DEF TypeIInv, TypeOK, TablesOK
<1>4. job' = [job EXCEPT ![r].pc = "built", ![r].todo = job[r].changed, ![r].rows = NoRows,
                         ![r].targets = targets, ![r].snap = snap]
  BY DEF Report
<1> HIDE DEF snap, targets
<1>5. /\ OwnStep(r) /\ job'[r].pc = "built" /\ job'[r].todo = job[r].changed
      /\ job'[r].version = job[r].version /\ job'[r].snap = snap /\ job'[r].targets = targets
  BY <1>4, JobFields DEF OwnStep, JobsOf, TypeIInv, PerDevice
<1>6. job[r].pc = "reading" /\ job[r].todo = {}
  BY DEF Report
<1>7. UNCHANGED <<presence, ctr, unseen, listening, reaped, since>>
  BY DEF Report, clientVars, wakeVars
<1> QED BY <1>2, <1>3, <1>5, <1>6, <1>7

LEMMA BumpChangedEffect ==
  ASSUME TypeIInv, NEW r \in Req, NEW s \in Scope, BumpChanged(r, s)
  PROVE  /\ OwnStep(r) /\ job[r].pc = "built" /\ job'[r].pc = "built"
         /\ job'[r].targets = job[r].targets /\ job'[r].version = job[r].version
         /\ job'[r].snap = job[r].snap
         /\ job'[r].todo = job[r].todo \ {s}
         /\ ctr'[s] = ctr[s] + 1 /\ \A t \in Scope \ {s} : ctr'[t] = ctr[t]
         /\ UNCHANGED <<presence, offers, unseen, listening, reaped, since>>
  BY JobFields DEF BumpChanged, Herd!Bump, OwnStep, JobsOf, TypeIInv, TypeOK, TablesOK, PerDevice,
     clientVars, tableVars, wakeVars

LEMMA PublishEffect ==
  ASSUME TypeIInv, NEW r \in Req, Publish(r)
  PROVE  /\ OwnStep(r) /\ job[r].pc = "built" /\ job'[r].pc = "published"
         /\ job[r].todo = {} /\ job'[r].snap = job[r].snap
         /\ \A s \in MemberOf[Owner[r]] : job'[r].version[s] = ctr[s]
         /\ unseen' = unseen \cup {q \in listening : Owner[q] \in job[r].targets}
         /\ UNCHANGED <<presence, ctr, offers, listening, reaped, since>>
<1> DEFINE v == Herd!Aggregate(Interest[r])
<1>1. \A s \in MemberOf[Owner[r]] : v[s] = ctr[s]
  BY JobFields DEF Herd!Aggregate
<1>2. job' = [job EXCEPT ![r].pc = "published", ![r].version = v]
  BY DEF Publish
<1> HIDE DEF v
<1>3. /\ OwnStep(r) /\ job'[r].pc = "published" /\ job'[r].snap = job[r].snap
      /\ job'[r].version = v
  <2> DEFINE j == [job[r] EXCEPT !.pc = "published", !.version = v]
  <2>1. /\ j.pc = "published" /\ j.version = v /\ j.snap = job[r].snap
        /\ j.body = job[r].body /\ j.again = job[r].again
    BY JobFields DEF JobsOf
  <2>2. job'[r] = j
    BY <1>2 DEF TypeIInv, PerDevice
  <2>3. \A q \in Req \ {r} : job'[q] = job[q]
    BY <1>2 DEF TypeIInv, PerDevice
  <2> HIDE DEF j
  <2> QED BY <2>1, <2>2, <2>3 DEF OwnStep
<1>4. /\ job[r].pc = "built" /\ job[r].todo = {}
      /\ unseen' = unseen \cup {q \in listening : Owner[q] \in job[r].targets}
      /\ UNCHANGED <<presence, ctr, offers, listening, reaped, since>>
  BY DEF Publish, Woken, Wakes!WakeAll, tableVars, clientVars
<1> QED BY <1>1, <1>3, <1>4

LEMMA ParkEffect ==
  ASSUME TypeIInv, NEW r \in Req, Park(r)
  PROVE  /\ OwnStep(r) /\ job[r].pc = "published" /\ job'[r].pc = "parked"
         /\ job'[r].version = job[r].version /\ job'[r].snap = job[r].snap
         /\ ~job[r].again /\ job[r].body.since # NoVersion /\ job[r].body.since.at = job[r].version
         /\ UNCHANGED <<presence, ctr, offers, unseen, listening, reaped, since>>
  BY JobFields DEF Park, MayPark, OwnStep, JobsOf, TypeIInv, PerDevice, clientVars, tableVars, wakeVars

\* The request is over.
Over(r) ==
  /\ \A q \in Req \ {r} : job'[q] = job[q]
  /\ job'[r].pc \in {"idle", "replied"}
  /\ \A s \in Scope : ~BumpDueBy(r, s)
  /\ \A d \in Device : ~WakeDueBy(r, d)
  /\ \/ job'[r].version = job[r].version /\ job'[r].body = job[r].body
     \/ job'[r] = Idle(r)
  /\ unseen' \in {unseen, unseen \ {r}}
  /\ UNCHANGED <<presence, ctr, offers, reaped>>

LEMMA EndEffect ==
  ASSUME TypeIInv, ~MayCut, NEW r \in Req, Refuse(r) \/ Cancel(r) \/ Fail(r)
  PROVE  Over(r) /\ UNCHANGED since
<1>1. Ended(r)
  BY DEF Refuse, Cancel, Fail
<1>2. Idle(r).pc = "idle"
  BY IdleType
<1>3. (\A q \in Req \ {r} : job'[q] = job[q]) /\ job'[r] = Idle(r)
  BY <1>1 DEF Ended, TypeIInv, PerDevice
<1>4. job[r].pc = "published" \/ ~Unannounced(r)
  BY DEF Refuse, Cancel, Fail
<1>5. \A s \in Scope : ~BumpDueBy(r, s)
  BY <1>4 DEF Unannounced, BumpDueBy
<1>6. \A d \in Device : ~WakeDueBy(r, d)
  BY <1>4 DEF Unannounced, WakeDueBy
<1>7. unseen' = unseen \ {r} /\ UNCHANGED <<presence, ctr, offers, reaped, since>>
  BY <1>1 DEF Ended, Release, tableVars
<1> QED BY <1>2, <1>3, <1>5, <1>6, <1>7 DEF Over

LEMMA ReplyEffect ==
  ASSUME TypeIInv, NEW r \in Req, Reply(r) PROVE Over(r) /\ UNCHANGED since
<1>1. /\ \A q \in Req \ {r} : job'[q] = job[q]
      /\ job'[r].pc = "replied" /\ job'[r].version = job[r].version /\ job'[r].body = job[r].body
  BY JobFields DEF Reply, JobsOf, TypeIInv, PerDevice
<1>2. (\A s \in Scope : ~BumpDueBy(r, s)) /\ \A d \in Device : ~WakeDueBy(r, d)
  BY DEF Reply, BumpDueBy, WakeDueBy
<1>3. unseen' = unseen \ {r} /\ UNCHANGED <<presence, ctr, offers, reaped, since>>
  BY DEF Reply, Release, tableVars, clientVars
<1> QED BY <1>1, <1>2, <1>3 DEF Over

LEMMA DiscardEffect ==
  ASSUME TypeIInv, NEW r \in Req, Discard(r) PROVE Over(r) /\ UNCHANGED since
<1>1. Idle(r).pc = "idle"
  BY IdleType
<1>2. (\A q \in Req \ {r} : job'[q] = job[q]) /\ job'[r] = Idle(r)
  BY DEF Discard, TypeIInv, PerDevice
<1>3. (\A s \in Scope : ~BumpDueBy(r, s)) /\ \A d \in Device : ~WakeDueBy(r, d)
  BY DEF Discard, BumpDueBy, WakeDueBy
<1>4. UNCHANGED <<presence, ctr, offers, unseen, reaped, since>>
  BY DEF Discard, tableVars, clientVars, wakeVars
<1> QED BY <1>1, <1>2, <1>3, <1>4 DEF Over

LEMMA WokeEffect ==
  ASSUME TypeIInv, NEW r \in Req, Woke(r)
  PROVE  /\ \A q \in Req \ {r} : job'[q] = job[q]
         /\ job[r].pc = "parked" /\ job'[r].pc = "recording"
         /\ job'[r].body = job[r].body /\ job'[r].again /\ job'[r].changed = {}
         /\ \A s \in MemberOf[Owner[r]] : job'[r].version[s] = 0
         /\ unseen' \in {unseen, unseen \ {r}}
         /\ UNCHANGED <<presence, ctr, offers, listening, reaped, since>>
<1> DEFINE j == Building(r, job[r].body, FALSE, TRUE)
<1>1. Rebuild(r) /\ unseen' \in {unseen, unseen \ {r}} /\ UNCHANGED listening
  BY DEF Woke, HerdWoken, PersonalWoken, Preempted, HoldElapsed, Wakes!Consume, wakeVars
<1>2. /\ j.pc = "recording" /\ j.body = job[r].body /\ j.again /\ j.changed = {}
      /\ \A s \in MemberOf[Owner[r]] : j.version[s] = 0
  BY JobFields DEF Building
<1> HIDE DEF j
<1>3. job[r].pc = "parked" /\ job'[r] = j /\ \A q \in Req \ {r} : job'[q] = job[q]
  BY <1>1 DEF Rebuild, TypeIInv, PerDevice, j
<1>4. UNCHANGED <<presence, ctr, offers, reaped, since>>
  BY <1>1 DEF Rebuild, tableVars, clientVars
<1> QED BY <1>1, <1>2, <1>3, <1>4

LEMMA IssueEffect ==
  ASSUME TypeIInv, NEW r \in Req, Issue(r)
  PROVE  /\ \A q \in Req \ {r} : job'[q] = job[q]
         /\ job[r].pc = "idle" /\ job'[r].pc = "recording"
         /\ job'[r].body.since \in {NoVersion, since[Owner[r]]}
         /\ job'[r].changed = {} /\ job'[r].todo = MemberOf[Owner[r]]
         /\ \A s \in MemberOf[Owner[r]] : job'[r].version[s] = 0
         /\ listening \subseteq listening'
         /\ UNCHANGED <<presence, ctr, offers, unseen, reaped, since>>
<1> DEFINE d == Owner[r]
           body == [since |-> IF HaveReport(d) THEN NoVersion ELSE since[d],
                    paused |-> want[d].paused, enabled |-> want[d].enabled,
                    reports |-> want[d].reports, held |-> view[d]]
           j == Building(r, body, Subscribed(r), FALSE)
<1>1. /\ j.pc = "recording" /\ j.body = body /\ j.changed = {} /\ j.todo = MemberOf[d]
      /\ \A s \in MemberOf[d] : j.version[s] = 0
  BY JobFields DEF Building
<1>2. body.since \in {NoVersion, since[d]}
  OBVIOUS
<1>3. job' = [job EXCEPT ![r] = j]
  BY DEF Issue
<1> HIDE DEF j, body
<1>4. job'[r] = j /\ \A q \in Req \ {r} : job'[q] = job[q]
  BY <1>3 DEF TypeIInv, PerDevice
<1>5. /\ job[r].pc = "idle" /\ listening \subseteq listening'
      /\ UNCHANGED <<presence, ctr, offers, unseen, reaped, since>>
  BY DEF Issue, Wakes!Subscribe, tableVars
<1> QED BY <1>1, <1>2, <1>4, <1>5

LEMMA ReceiveEffect ==
  ASSUME TypeIInv, NEW d \in Device, Receive(d)
  PROVE  /\ flight[d] \in Req /\ Owner[flight[d]] = d
         /\ Over(flight[d])
         /\ since'[d].at = job[flight[d]].version
         /\ \A e \in Device \ {d} : since'[e] = since[e]
<1> DEFINE r == flight[d]
<1>1. r \in Req /\ Owner[r] = d
  BY DEF Receive, TypeIInv, TypeOK, EnginesOK
<1>2. Idle(r).pc = "idle"
  BY <1>1, IdleType
<1>3. (\A q \in Req \ {r} : job'[q] = job[q]) /\ job'[r] = Idle(r) /\ job[r].pc = "replied"
  BY <1>1 DEF Receive, TypeIInv, PerDevice
<1>4. (\A s \in Scope : ~BumpDueBy(r, s)) /\ \A e \in Device : ~WakeDueBy(r, e)
  BY <1>3 DEF BumpDueBy, WakeDueBy
<1>5. UNCHANGED <<presence, ctr, offers, unseen, reaped>>
  BY DEF Receive, tableVars, wakeVars
<1>6. since'[d].at = job[r].version /\ \A e \in Device \ {d} : since'[e] = since[e]
  BY DEF Receive, TypeIInv, PerDevice
<1>7. Over(r)
  BY <1>2, <1>3, <1>4, <1>5 DEF Over
<1> QED BY <1>1, <1>6, <1>7

-----------------------------------------------------------------------------
(* Every step announces its changes, provided no build is cut short and the *)
(* coordinator does not restart                                             *)

\* A step that leaves the shared state alone has nothing to announce.
LEMMA QuietAnnounces ==
  ASSUME TypeIInv, UNCHANGED <<presence, ctr, offers, unseen, reaped, job>>
  PROVE  Announces
  BY DEF Announces, CountersGrow, BumpsDone, RowsAnnounced, WakesDone, WakesStay, OffersAnnounced,
     BumpDue, BumpDueBy, WakeDue, WakeDueBy, TypeIInv, TypeOK, TablesOK

\* So has a handler that only goes on, when what it owes it still owes.
LEMMA OwesAnnounces ==
  ASSUME TypeIInv, NEW r \in Req, \A q \in Req \ {r} : job'[q] = job[q],
         \A s \in Scope : BumpDueBy(r, s) => BumpDueBy(r, s)',
         \A d \in Device : WakeDueBy(r, d) => WakeDueBy(r, d)',
         unseen \subseteq unseen' \cup {r},
         r \in unseen' \/ r \notin unseen \/ job'[r].pc \in {"idle", "replied"} \/ job'[r].again,
         UNCHANGED <<presence, ctr, offers, reaped>>
  PROVE  Announces
<1>1. \A q \in Req : \A s \in Scope : BumpDueBy(q, s) => BumpDueBy(q, s)'
  BY DEF BumpDueBy
<1>2. \A q \in Req : \A d \in Device : WakeDueBy(q, d) => WakeDueBy(q, d)'
  BY DEF WakeDueBy
<1>3. CountersGrow /\ BumpsDone /\ RowsAnnounced
  BY <1>1 DEF CountersGrow, BumpsDone, RowsAnnounced, BumpDue, TypeIInv, TypeOK, TablesOK
<1>4. WakesDone /\ WakesStay /\ OffersAnnounced
  BY <1>2 DEF WakesDone, WakesStay, OffersAnnounced, WakeDue
<1> QED BY <1>3, <1>4 DEF Announces

LEMMA OverAnnounces ==
  ASSUME TypeIInv, NEW r \in Req, Over(r) PROVE Announces
  BY OwesAnnounces DEF Over

LEMMA RecordAnnounces ==
  ASSUME TypeIInv, NEW r \in Req, NEW s \in Scope, Record(r, s) PROVE Announces
<1>1. \A q \in Req \ {r} : job'[q] = job[q]
  BY RecordEffect DEF OwnStep
<1>2. job[r].pc = "recording" /\ job'[r].pc \in {"recording", "reading"}
  BY RecordEffect
<1>3. job[r].changed \subseteq job'[r].changed
  BY RecordEffect
<1>4. \A q \in Req : \A t \in Scope : BumpDueBy(q, t) => BumpDueBy(q, t)'
  BY <1>1, <1>2, <1>3 DEF BumpDueBy
<1>5. \A q \in Req : \A d \in Device : WakeDueBy(q, d) => WakeDueBy(q, d)'
  BY <1>1, <1>2 DEF WakeDueBy
<1>6. presence'[s] # presence[s] => BumpDueBy(r, s)'
  <2>1. presence'[s] # presence[s] => RecordChanges(r, s)
    <3>1. CASE Advertises(job[r].body, s)
      <4>1. presence'[s] = presence[s] \cup {Owner[r]}
        BY <3>1, RecordEffect
      <4> QED BY <3>1, <4>1 DEF RecordChanges, Advertises
    <3>2. CASE ~Advertises(job[r].body, s)
      <4>1. presence'[s] = presence[s] \ {Owner[r]}
        BY <3>2, RecordEffect
      <4> QED BY <3>2, <4>1 DEF RecordChanges, Advertises
    <3> QED BY <3>1, <3>2
  <2>2. presence'[s] # presence[s] => s \in job'[r].changed
    BY <2>1, RecordEffect
  <2> QED BY <1>2, <2>2 DEF BumpDueBy
<1>7. UNCHANGED <<ctr, unseen, offers, reaped>> /\ \A t \in Scope \ {s} : presence'[t] = presence[t]
  BY RecordEffect
<1>8. CountersGrow /\ BumpsDone /\ RowsAnnounced
  BY <1>4, <1>6, <1>7 DEF CountersGrow, BumpsDone, RowsAnnounced, BumpDue, TypeIInv, TypeOK, TablesOK
<1>9. WakesDone /\ WakesStay /\ OffersAnnounced
  BY <1>5, <1>7 DEF WakesDone, WakesStay, OffersAnnounced, WakeDue
<1> QED BY <1>8, <1>9 DEF Announces

LEMMA ReportAnnounces ==
  ASSUME TypeIInv, NEW r \in Req, Report(r) PROVE Announces
<1>1. \A q \in Req \ {r} : job'[q] = job[q]
  BY ReportEffect DEF OwnStep
<1>2. job[r].pc = "reading" /\ job'[r].pc = "built" /\ job'[r].todo = job[r].changed
  BY ReportEffect
<1>3. \A q \in Req : \A t \in Scope : BumpDueBy(q, t) => BumpDueBy(q, t)'
  BY <1>1, <1>2 DEF BumpDueBy
<1>4. \A q \in Req : \A d \in Device : WakeDueBy(q, d) => WakeDueBy(q, d)'
  BY <1>1, <1>2 DEF WakeDueBy
<1>5. \A o \in Device, d \in Device : offers'[o][d] # offers[o][d] => WakeDueBy(r, d)'
  BY <1>2, ReportEffect DEF WakeDueBy
<1>6. UNCHANGED <<presence, ctr, unseen, reaped>>
  BY ReportEffect
<1>7. CountersGrow /\ BumpsDone /\ RowsAnnounced
  BY <1>3, <1>6 DEF CountersGrow, BumpsDone, RowsAnnounced, BumpDue, TypeIInv, TypeOK, TablesOK
<1>8. WakesDone /\ WakesStay /\ OffersAnnounced
  BY <1>4, <1>5, <1>6 DEF WakesDone, WakesStay, OffersAnnounced, WakeDue
<1> QED BY <1>7, <1>8 DEF Announces

LEMMA BumpChangedAnnounces ==
  ASSUME TypeIInv, NEW r \in Req, NEW s \in Scope, BumpChanged(r, s) PROVE Announces
<1>1. \A q \in Req \ {r} : job'[q] = job[q]
  BY BumpChangedEffect DEF OwnStep
<1>2. /\ job[r].pc = "built" /\ job'[r].pc = "built"
      /\ job'[r].todo = job[r].todo \ {s} /\ job'[r].targets = job[r].targets
  BY BumpChangedEffect
<1>3. \A q \in Req : \A t \in Scope \ {s} : BumpDueBy(q, t) => BumpDueBy(q, t)'
  BY <1>1, <1>2 DEF BumpDueBy
<1>4. \A q \in Req : \A d \in Device : WakeDueBy(q, d) => WakeDueBy(q, d)'
  BY <1>1, <1>2 DEF WakeDueBy
<1>5. /\ UNCHANGED <<presence, offers, unseen, reaped>>
      /\ ctr'[s] = ctr[s] + 1 /\ \A t \in Scope \ {s} : ctr'[t] = ctr[t]
      /\ ctr \in [Scope -> Nat]
  BY BumpChangedEffect DEF TypeIInv, TypeOK, TablesOK
<1>6. CountersGrow /\ BumpsDone /\ RowsAnnounced
  BY <1>3, <1>5 DEF CountersGrow, BumpsDone, RowsAnnounced, BumpDue
<1>7. WakesDone /\ WakesStay /\ OffersAnnounced
  BY <1>4, <1>5 DEF WakesDone, WakesStay, OffersAnnounced, WakeDue
<1> QED BY <1>6, <1>7 DEF Announces

LEMMA PublishAnnounces ==
  ASSUME TypeIInv, NEW r \in Req, Publish(r) PROVE Announces
<1>1. \A q \in Req \ {r} : job'[q] = job[q]
  BY PublishEffect DEF OwnStep
<1>2. job[r].pc = "built" /\ job[r].todo = {}
  BY PublishEffect
<1>3. \A q \in Req : \A t \in Scope : BumpDueBy(q, t) => BumpDueBy(q, t)'
  BY <1>1, <1>2 DEF BumpDueBy
<1>4. \A q \in Req \ {r} : \A d \in Device : WakeDueBy(q, d) => WakeDueBy(q, d)'
  BY <1>1 DEF WakeDueBy
<1>5. \A d \in Device : WakeDueBy(r, d) => \A q \in listening : Owner[q] = d => q \in unseen'
  BY PublishEffect DEF WakeDueBy
<1>6. UNCHANGED <<presence, ctr, offers, reaped>> /\ unseen \subseteq unseen'
  BY PublishEffect
<1>7. CountersGrow /\ BumpsDone /\ RowsAnnounced
  BY <1>3, <1>6 DEF CountersGrow, BumpsDone, RowsAnnounced, BumpDue, TypeIInv, TypeOK, TablesOK
<1>8. WakesDone /\ WakesStay /\ OffersAnnounced
  BY <1>4, <1>5, <1>6 DEF WakesDone, WakesStay, OffersAnnounced, WakeDue
<1> QED BY <1>7, <1>8 DEF Announces

LEMMA OtherHandlerAnnounces ==
  ASSUME TypeIInv, NEW r \in Req,
         (\E s \in Scope : Read(r, s)) \/ Park(r) \/ Woke(r) \/ Issue(r)
  PROVE  Announces
<1>1. ASSUME NEW s \in Scope, Read(r, s) PROVE Announces
  <2>1. \A t \in Scope : BumpDueBy(r, t) => BumpDueBy(r, t)'
    BY <1>1, ReadEffect DEF BumpDueBy
  <2>2. \A d \in Device : ~WakeDueBy(r, d)
    BY <1>1, ReadEffect DEF WakeDueBy
  <2> QED BY <1>1, <2>1, <2>2, ReadEffect, OwesAnnounces DEF OwnStep
<1>2. ASSUME Park(r) PROVE Announces
  <2>1. (\A t \in Scope : ~BumpDueBy(r, t)) /\ \A d \in Device : ~WakeDueBy(r, d)
    BY <1>2, ParkEffect DEF BumpDueBy, WakeDueBy
  <2> QED BY <1>2, <2>1, ParkEffect, OwesAnnounces DEF OwnStep
<1>3. ASSUME Woke(r) PROVE Announces
  <2>1. (\A t \in Scope : ~BumpDueBy(r, t)) /\ \A d \in Device : ~WakeDueBy(r, d)
    BY <1>3, WokeEffect DEF BumpDueBy, WakeDueBy
  <2> QED BY <1>3, <2>1, WokeEffect, OwesAnnounces
<1>4. ASSUME Issue(r) PROVE Announces
  <2>1. (\A t \in Scope : ~BumpDueBy(r, t)) /\ \A d \in Device : ~WakeDueBy(r, d)
    BY <1>4, IssueEffect DEF BumpDueBy, WakeDueBy
  <2> QED BY <1>4, <2>1, IssueEffect, OwesAnnounces
<1> QED BY <1>1, <1>2, <1>3, <1>4

LEMMA ReaperAnnounces ==
  ASSUME TypeIInv, \/ \E d \in Device : Reap(d)
                   \/ \E s \in Scope : BumpReaped(s)
                   \/ Prune
  PROVE  Announces
<1>1. UNCHANGED <<job, unseen>>
  BY DEF Reap, BumpReaped, Prune, Wakes!Forget, wakeVars
<1>2. \A q \in Req : /\ \A t \in Scope : BumpDueBy(q, t) => BumpDueBy(q, t)'
                    /\ \A d \in Device : WakeDueBy(q, d) => WakeDueBy(q, d)'
  BY <1>1 DEF BumpDueBy, WakeDueBy
<1>3. WakesDone /\ WakesStay
  BY <1>1, <1>2 DEF WakesDone, WakesStay, WakeDue
<1>4. ASSUME NEW d \in Device, Reap(d) PROVE CountersGrow /\ BumpsDone /\ RowsAnnounced /\ OffersAnnounced
  <2>1. UNCHANGED <<ctr, offers>> /\ reaped' = reaped \cup {s \in Scope : d \in presence[s]}
    BY <1>4 DEF Reap
  <2>2. \A s \in Scope : presence'[s] = presence[s] \ {d}
    BY <1>4 DEF Reap
  <2>3. CountersGrow /\ BumpsDone /\ RowsAnnounced
    <3>1. CountersGrow
      BY <2>1 DEF CountersGrow, TypeIInv, TypeOK, TablesOK
    <3>2. BumpsDone
      BY <1>2, <2>1 DEF BumpsDone, BumpDue
    <3>3. \A s \in Scope : presence'[s] # presence[s] => s \in reaped'
      BY <2>1, <2>2
    <3>4. RowsAnnounced
      BY <3>3 DEF RowsAnnounced, BumpDue
    <3> QED BY <3>1, <3>2, <3>4
  <2> QED BY <2>1, <2>3 DEF OffersAnnounced
<1>5. ASSUME NEW s \in Scope, BumpReaped(s) PROVE CountersGrow /\ BumpsDone /\ RowsAnnounced /\ OffersAnnounced
  <2>1. /\ UNCHANGED <<presence, offers>> /\ reaped' = reaped \ {s}
        /\ ctr' = [ctr EXCEPT ![s] = @ + 1] /\ ctr \in [Scope -> Nat]
    BY <1>5 DEF BumpReaped, Herd!Bump, tableVars, TypeIInv, TypeOK, TablesOK
  <2> QED BY <1>2, <2>1 DEF CountersGrow, BumpsDone, RowsAnnounced, BumpDue, OffersAnnounced
<1>6. ASSUME Prune PROVE CountersGrow /\ BumpsDone /\ RowsAnnounced /\ OffersAnnounced
  <2>1. UNCHANGED <<presence, ctr, reaped>>
    BY <1>6 DEF Prune
  <2>2. \A o \in Device, p \in Device : offers'[o][p] # offers[o][p] => ~({o, p} \subseteq Present)
    BY <1>6 DEF Prune
  <2> QED BY <1>2, <2>1, <2>2 DEF CountersGrow, BumpsDone, RowsAnnounced, BumpDue, OffersAnnounced,
           TypeIInv, TypeOK, TablesOK
<1> QED BY <1>3, <1>4, <1>5, <1>6 DEF Announces

-----------------------------------------------------------------------------
(* What the announcements keep true of a request *)

\* What a snapshot says depends on the rows of the enabled scopes and on the reports of
\* the peers found there.
LEMMA SameSeeds ==
  ASSUME NEW d \in Device, NEW rows1, NEW rows2, NEW enabled,
         NEW offers1, NEW offers2, NEW sights1, NEW sights2,
         \A s \in enabled : rows1[s] = rows2[s],
         \A p \in PeersOf(d, rows1, enabled) : offers1[p][d] = offers2[p][d]
  PROVE  Told(Seeds(d, rows1, enabled, offers1, sights1)) = Told(Seeds(d, rows2, enabled, offers2, sights2))
<1>1. PeersOf(d, rows1, enabled) = PeersOf(d, rows2, enabled)
  BY DEF PeersOf
<1>2. \A p \in Device : {s \in enabled \cap Guild : p \in rows1[s]} = {s \in enabled \cap Guild : p \in rows2[s]}
  OBVIOUS
<1> DEFINE P == PeersOf(d, rows1, enabled)
<1>3. P \subseteq Device
  BY DEF PeersOf
<1>4. Told(Seeds(d, rows1, enabled, offers1, sights1)) =
        [p \in P |-> <<{s \in enabled \cap Guild : p \in rows1[s]}, offers1[p][d]>>]
  BY DEF Told, Seeds
<1>5. Told(Seeds(d, rows2, enabled, offers2, sights2)) =
        [p \in P |-> <<{s \in enabled \cap Guild : p \in rows2[s]}, offers2[p][d]>>]
  BY <1>1 DEF Told, Seeds
<1> HIDE DEF P
<1>6. \A p \in P : <<{s \in enabled \cap Guild : p \in rows1[s]}, offers1[p][d]>> =
                  <<{s \in enabled \cap Guild : p \in rows2[s]}, offers2[p][d]>>
  BY <1>2, <1>3 DEF P
<1> QED BY <1>4, <1>5, <1>6

\* A scope that moved past a request's version stays so.
LEMMA MovedStays ==
  ASSUME TypeIInv, Announces, NEW r \in Req, BodyBehind(r), job'[r].body = job[r].body,
         NEW s \in MemberOf[Owner[r]], Moved(r, s)
  PROVE  Moved(r, s)'
<1>1. s \in Scope /\ ctr[s] \in Nat /\ ctr'[s] \in Nat /\ ctr'[s] >= ctr[s]
  BY JobFields DEF Announces, CountersGrow, TypeIInv, TypeOK, TablesOK
<1>2. CASE job[r].body.since = NoVersion
  BY <1>2 DEF Moved
<1>3. CASE job[r].body.since # NoVersion
  <2>1. job[r].body.since.at[s] \in Nat /\ job[r].body.since.at[s] <= ctr[s]
    BY <1>3, JobFields DEF JobsOf, BodiesOf, SincesOf, VersionsOf, BodyBehind
  <2>2. BumpDue(s) => BumpDue(s)' \/ ctr'[s] > ctr[s]
    BY <1>1 DEF Announces, BumpsDone
  <2>3. BumpDue(s)' \/ ctr'[s] > job[r].body.since.at[s]
    BY <1>1, <1>3, <2>1, <2>2 DEF Moved
  <2> QED BY <2>3 DEF Moved
<1> QED BY <1>2, <1>3

\* A row that changes has moved its scope.
LEMMA RowsMove ==
  ASSUME TypeIInv, Announces, NEW r \in Req, NEW s \in MemberOf[Owner[r]], presence'[s] # presence[s]
  PROVE  Moved(r, s)'
  BY JobFields DEF Announces, RowsAnnounced, Moved

\* A request that keeps its body keeps its version behind the counters.
LEMMA BehindStays ==
  ASSUME TypeIInv, TypeIInv', Announces, NEW r \in Req, BodyBehind(r),
         job'[r].body = job[r].body,
         \A s \in MemberOf[Owner[r]] : job'[r].version[s] <= ctr[s]
  PROVE  BodyBehind(r)'
<1> SUFFICES ASSUME NEW s \in MemberOf[Owner[r]]
             PROVE  /\ job[r].body.since # NoVersion => job[r].body.since.at[s] <= ctr'[s]
                    /\ job'[r].version[s] <= ctr'[s]
  BY DEF BodyBehind
<1>1. s \in Scope /\ ctr[s] \in Nat /\ ctr'[s] \in Nat /\ ctr'[s] >= ctr[s]
  BY JobFields DEF Announces, CountersGrow, TypeIInv, TypeOK, TablesOK
<1>2. job'[r].version[s] \in Nat
  BY DEF TypeIInv, TypeOK, JobsOf, VersionsOf
<1>3. job[r].body.since # NoVersion => job[r].body.since.at[s] \in Nat
  BY JobFields DEF JobsOf, BodiesOf, SincesOf, VersionsOf
<1> QED BY <1>1, <1>2, <1>3 DEF BodyBehind

\* A row that was recorded stays unless its scope moves.
LEMMA OwnRowStays ==
  ASSUME TypeIInv, Announces, NEW r \in Req, BodyBehind(r), OwnRowStands(r), OwnStep(r) \/ job' = job,
         \A s \in MemberOf[Owner[r]] : Recorded(r, s)' => Recorded(r, s)
  PROVE  OwnRowStands(r)'
<1> SUFFICES ASSUME ~job[r].again, NEW s \in MemberOf[Owner[r]], Recorded(r, s)'
             PROVE  Moved(r, s)' \/ RowAsked(r, s)'
  BY DEF OwnRowStands, OwnStep
<1>1. job'[r].body = job[r].body
  BY DEF OwnStep
<1>2. Moved(r, s) \/ RowAsked(r, s)
  BY DEF OwnRowStands
<1>3. Advertises(job[r].body, s)' <=> Advertises(job[r].body, s)
  BY <1>1 DEF Advertises
<1> QED BY <1>1, <1>2, <1>3, MovedStays, RowsMove DEF RowAsked

\* A snapshot that was current stays so until something happens.
LEMMA SnapStays ==
  ASSUME TypeIInv, Announces, NEW r \in Req, BodyBehind(r), OwnRowStands(r), SnapCurrent(r),
         HasSnap(r), job'[r].body = job[r].body, job'[r].snap = job[r].snap,
         job'[r].again = job[r].again, job'[r].pc \notin {"idle", "replied"}
  PROVE  SnapCurrent(r)'
<1> DEFINE d == Owner[r]
           enabled == job[r].body.enabled
<1> SUFFICES ASSUME Still(r)' PROVE Told(job[r].snap) = Told(SeedsNow(d, enabled))'
  BY DEF SnapCurrent
<1>1. d \in Device /\ enabled \subseteq MemberOf[d] /\ MemberOf[d] \subseteq Scope
  BY JobFields DEF JobsOf, BodiesOf
<1>2. \A s \in enabled : ~Moved(r, s)' /\ ~Moved(r, s)
  BY <1>1, MovedStays DEF Still
<1>3. r \in listening
  BY DEF HasSnap, TypeIInv, TypeOK, WaitersOK
<1>4. ~WakeDue(d)'
  BY DEF Still
<1>5. r \notin unseen
  BY DEF Still, HasSnap, Announces, WakesStay
<1>6. ~WakeDue(d)
  BY <1>1, <1>3, <1>4 DEF Still, Announces, WakesDone
<1>7. Still(r)
  BY <1>2, <1>5, <1>6 DEF Still
<1>8. Told(job[r].snap) = Told(SeedsNow(d, enabled))
  BY <1>7 DEF SnapCurrent
<1>9. \A s \in enabled : presence[s] = presence'[s]
  BY <1>1, <1>2, RowsMove
<1>10. \A s \in enabled : d \in presence[s]
  BY <1>1, <1>2 DEF HasSnap, OwnRowStands, Recorded, RowAsked, Advertises
<1>11. \A p \in PeersOf(d, presence, enabled) : p \in Device /\ {p, d} \subseteq Present
  BY <1>1, <1>10 DEF PeersOf, Present
<1>12. \A p \in PeersOf(d, presence, enabled) : offers[p][d] = offers'[p][d]
  BY <1>1, <1>4, <1>11 DEF Announces, OffersAnnounced
<1>13. Told(SeedsNow(d, enabled)) = Told(SeedsNow(d, enabled))'
  BY <1>1, <1>9, <1>12, SameSeeds DEF SeedsNow
<1> QED BY <1>8, <1>13

\* The request of a handler that does not move.
LEMMA BystanderInv ==
  ASSUME TypeIInv, TypeIInv', Announces, NEW r \in Req, RequestInv(r), job'[r] = job[r]
  PROVE  RequestInv(r)'
<1>1. BodyBehind(r)'
  BY BehindStays DEF RequestInv, BodyBehind
<1>2. ParksOnSince(r)'
  BY DEF RequestInv, ParksOnSince
<1>3. OwnRowStands(r)'
  <2> SUFFICES ASSUME ~job[r].again, NEW s \in MemberOf[Owner[r]], Recorded(r, s)
               PROVE  Moved(r, s)' \/ RowAsked(r, s)'
    BY DEF OwnRowStands, Recorded
  <2>1. Moved(r, s) \/ RowAsked(r, s)
    BY DEF RequestInv, OwnRowStands
  <2>2. Advertises(job[r].body, s)' <=> Advertises(job[r].body, s)
    BY DEF Advertises
  <2> QED BY <2>1, <2>2, MovedStays, RowsMove DEF RequestInv, RowAsked
<1>4. RowsCurrent(r)'
  <2> SUFFICES ASSUME job[r].pc = "reading", ~job[r].again, NEW s \in job[r].body.enabled \ job[r].todo
               PROVE  Moved(r, s)' \/ job[r].rows[s] = presence'[s]
    BY DEF RowsCurrent
  <2>1. s \in MemberOf[Owner[r]]
    BY JobFields DEF JobsOf, BodiesOf
  <2>2. Moved(r, s) \/ job[r].rows[s] = presence[s]
    BY DEF RequestInv, RowsCurrent
  <2> QED BY <2>1, <2>2, MovedStays, RowsMove DEF RequestInv
<1>5. SnapCurrent(r)'
  <2>1. CASE HasSnap(r)
    BY <2>1, SnapStays DEF RequestInv, HasSnap
  <2>2. CASE ~HasSnap(r)
    BY <2>2 DEF SnapCurrent, HasSnap
  <2> QED BY <2>1, <2>2
<1> QED BY <1>1, <1>2, <1>3, <1>4, <1>5 DEF RequestInv

\* A request that is over promises nothing more.
LEMMA OverInv ==
  ASSUME TypeIInv, TypeIInv', Announces, NEW r \in Req, RequestInv(r), Over(r)
  PROVE  RequestInv(r)'
<1>1. BodyBehind(r)'
  <2>1. CASE job'[r].version = job[r].version /\ job'[r].body = job[r].body
    BY <2>1, BehindStays DEF RequestInv, BodyBehind
  <2>2. CASE job'[r] = Idle(r)
    <3>1. /\ Idle(r).body.since = NoVersion
          /\ \A s \in MemberOf[Owner[r]] : Idle(r).version[s] = 0
      BY JobFields DEF Idle, Building, NoBody
    <3>2. \A s \in MemberOf[Owner[r]] : s \in Scope /\ ctr'[s] \in Nat
      BY JobFields DEF TypeIInv, TypeOK, TablesOK
    <3> QED BY <2>2, <3>1, <3>2 DEF BodyBehind
  <2> QED BY <2>1, <2>2 DEF Over
<1>2. job'[r].pc \in {"idle", "replied"}
  BY DEF Over
<1> QED BY <1>1, <1>2 DEF RequestInv, ParksOnSince, OwnRowStands, Recorded, RowsCurrent, SnapCurrent, HasSnap

LEMMA IssueInv ==
  ASSUME TypeIInv, TypeIInv', Announces, SincesBehind, NEW r \in Req, Issue(r) PROVE RequestInv(r)'
<1>1. \A s \in MemberOf[Owner[r]] : s \in Scope /\ ctr[s] \in Nat /\ ctr'[s] = ctr[s]
  BY JobFields, IssueEffect DEF TypeIInv, TypeOK, TablesOK
<1>2. BodyBehind(r)'
  BY <1>1, JobFields, IssueEffect DEF BodyBehind, SincesBehind
<1>3. OwnRowStands(r)'
  BY IssueEffect DEF OwnRowStands, Recorded
<1> QED BY <1>2, <1>3, IssueEffect DEF RequestInv, ParksOnSince, RowsCurrent, SnapCurrent, HasSnap

LEMMA WokeInv ==
  ASSUME TypeIInv, TypeIInv', Announces, NEW r \in Req, RequestInv(r), Woke(r) PROVE RequestInv(r)'
<1>1. \A s \in MemberOf[Owner[r]] : s \in Scope /\ ctr[s] \in Nat
  BY JobFields DEF TypeIInv, TypeOK, TablesOK
<1>2. BodyBehind(r)'
  BY <1>1, WokeEffect, BehindStays DEF RequestInv
<1> QED BY <1>2, WokeEffect DEF RequestInv, ParksOnSince, OwnRowStands, RowsCurrent, SnapCurrent, HasSnap

LEMMA RecordInv ==
  ASSUME TypeIInv, TypeIInv', Announces, NEW r \in Req, NEW s \in Scope, RequestInv(r), Record(r, s)
  PROVE  RequestInv(r)'
<1>1. OwnStep(r) /\ job'[r].version = job[r].version
  BY RecordEffect
<1>2. BodyBehind(r)'
  BY <1>1, BehindStays DEF RequestInv, BodyBehind, OwnStep
<1>3. OwnRowStands(r)'
  <2> SUFFICES ASSUME ~job[r].again, NEW t \in MemberOf[Owner[r]], Recorded(r, t)'
               PROVE  Moved(r, t)' \/ RowAsked(r, t)'
    BY <1>1 DEF OwnRowStands, OwnStep
  <2>3. job'[r].body = job[r].body /\ (Advertises(job[r].body, t)' <=> Advertises(job[r].body, t))
    BY <1>1 DEF OwnStep, Advertises
  <2>1. CASE t = s
    BY <2>3, <2>1, RecordEffect DEF RowAsked
  <2>2. CASE t # s
    <3>1. Recorded(r, t)
      <4>1. job[r].pc = "recording"
        BY RecordEffect
      <4>2. CASE job[r].todo = {s}
        BY <2>2, <4>1, <4>2 DEF Recorded
      <4>3. CASE job[r].todo # {s}
        <5>1. job'[r].pc = "recording" /\ job'[r].todo = job[r].todo \ {s}
          BY <4>3, RecordEffect
        <5>2. t \notin job'[r].todo
          BY <5>1 DEF Recorded
        <5> QED BY <2>2, <4>1, <5>1, <5>2 DEF Recorded
      <4> QED BY <4>2, <4>3
    <3>2. Moved(r, t) \/ RowAsked(r, t)
      BY <3>1 DEF RequestInv, OwnRowStands
    <3> QED BY <2>3, <3>2, MovedStays, RowsMove DEF RequestInv, RowAsked
  <2> QED BY <2>1, <2>2
<1>4. RowsCurrent(r)'
  <2>1. CASE job[r].todo = {s}
    <3>1. job'[r].todo = job[r].body.enabled /\ job'[r].body = job[r].body
      BY <1>1, <2>1, RecordEffect DEF OwnStep
    <3> QED BY <3>1 DEF RowsCurrent
  <2>2. CASE job[r].todo # {s}
    <3>1. job'[r].pc = "recording"
      BY <2>2, RecordEffect
    <3> QED BY <3>1 DEF RowsCurrent
  <2> QED BY <2>1, <2>2
<1>5. job'[r].pc \in {"recording", "reading"}
  BY RecordEffect
<1> QED BY <1>2, <1>3, <1>4, <1>5 DEF RequestInv, ParksOnSince, SnapCurrent, HasSnap

LEMMA ReadInv ==
  ASSUME TypeIInv, TypeIInv', Announces, NEW r \in Req, NEW s \in Scope, RequestInv(r), Read(r, s)
  PROVE  RequestInv(r)'
<1>1. OwnStep(r) /\ job'[r].version = job[r].version
  BY ReadEffect
<1>2. BodyBehind(r)'
  BY <1>1, BehindStays DEF RequestInv, BodyBehind, OwnStep
<1>3. OwnRowStands(r)'
  BY <1>1, ReadEffect, OwnRowStays DEF RequestInv, Recorded
<1>4. RowsCurrent(r)'
  <2> SUFFICES ASSUME ~job[r].again, NEW t \in job[r].body.enabled \ job'[r].todo
               PROVE  Moved(r, t)' \/ job'[r].rows[t] = presence'[t]
    BY <1>1 DEF RowsCurrent, OwnStep
  <2>1. CASE t = s
    BY <2>1, ReadEffect
  <2>2. CASE t # s
    <3>1. t \in MemberOf[Owner[r]] /\ t \in Scope /\ job'[r].body = job[r].body
      BY <1>1, JobFields DEF JobsOf, BodiesOf, OwnStep
    <3>2. Moved(r, t) \/ job[r].rows[t] = presence[t]
      BY <2>2, ReadEffect DEF RequestInv, RowsCurrent
    <3>3. job'[r].rows[t] = job[r].rows[t] /\ presence' = presence
      BY <2>2, <3>1, ReadEffect
    <3> QED BY <3>1, <3>2, <3>3, MovedStays DEF RequestInv
  <2> QED BY <2>1, <2>2
<1> QED BY <1>2, <1>3, <1>4, ReadEffect DEF RequestInv, ParksOnSince, SnapCurrent, HasSnap

\* The seeds are made of rows that are current, and of the reports of this moment.
LEMMA ReportInv ==
  ASSUME TypeIInv, TypeIInv', Announces, NEW r \in Req, RequestInv(r), Report(r)
  PROVE  RequestInv(r)'
<1>1. OwnStep(r) /\ job'[r].version = job[r].version
  BY ReportEffect
<1>2. BodyBehind(r)'
  BY <1>1, BehindStays DEF RequestInv, BodyBehind, OwnStep
<1>3. OwnRowStands(r)'
  BY <1>1, ReportEffect, OwnRowStays DEF RequestInv, Recorded
<1>4. SnapCurrent(r)'
  <2> DEFINE d == Owner[r]
             enabled == job[r].body.enabled
  <2> SUFFICES ASSUME ~job[r].again, Still(r)'
               PROVE  Told(job'[r].snap) = Told(SeedsNow(d, enabled))'
    BY <1>1 DEF SnapCurrent, HasSnap, OwnStep
  <2>1. d \in Device /\ enabled \subseteq MemberOf[d] /\ job'[r].body = job[r].body
    BY <1>1, JobFields DEF JobsOf, BodiesOf, OwnStep
  <2>2. \A s \in enabled : ~Moved(r, s)
    BY <2>1, MovedStays DEF Still, RequestInv
  <2>3. \A s \in enabled : job[r].rows[s] = presence'[s]
    BY <2>2, ReportEffect DEF RequestInv, RowsCurrent
  <2>4. job'[r].snap = Seeds(d, job[r].rows, enabled, offers', sights')
    BY ReportEffect
  <2>5. Told(Seeds(d, job[r].rows, enabled, offers', sights')) =
          Told(Seeds(d, presence', enabled, offers', sights'))
    BY <2>1, <2>3, SameSeeds
  <2>6. SeedsNow(d, enabled)' = Seeds(d, presence', enabled, offers', sights')
    BY <2>1 DEF SeedsNow, Seeds, PeersOf
  <2> QED BY <2>4, <2>5, <2>6
<1> QED BY <1>2, <1>3, <1>4, ReportEffect DEF RequestInv, ParksOnSince, RowsCurrent

\* From its seeds to its wait a handler keeps the snapshot it built.
LEMMA SettledInv ==
  ASSUME TypeIInv, TypeIInv', Announces, NEW r \in Req, RequestInv(r), OwnStep(r),
         job[r].pc \in {"built", "published"}, job'[r].pc \in {"built", "published", "parked"},
         job'[r].snap = job[r].snap,
         \A s \in MemberOf[Owner[r]] : job'[r].version[s] <= ctr[s],
         ParksOnSince(r)'
  PROVE  RequestInv(r)'
<1>1. BodyBehind(r)'
  BY BehindStays DEF RequestInv, OwnStep
<1>2. OwnRowStands(r)'
  BY OwnRowStays DEF RequestInv, Recorded
<1>3. SnapCurrent(r)'
  <2>1. CASE HasSnap(r)
    BY <2>1, SnapStays DEF RequestInv, OwnStep
  <2>2. CASE ~HasSnap(r)
    BY <2>2 DEF SnapCurrent, HasSnap, OwnStep
  <2> QED BY <2>1, <2>2
<1> QED BY <1>1, <1>2, <1>3 DEF RequestInv, RowsCurrent

LEMMA BumpChangedInv ==
  ASSUME TypeIInv, TypeIInv', Announces, NEW r \in Req, NEW s \in Scope, RequestInv(r), BumpChanged(r, s)
  PROVE  RequestInv(r)'
<1>1. /\ OwnStep(r) /\ job[r].pc = "built" /\ job'[r].pc = "built"
      /\ job'[r].snap = job[r].snap /\ job'[r].version = job[r].version
  BY BumpChangedEffect
<1>2. \A t \in MemberOf[Owner[r]] : job'[r].version[t] <= ctr[t]
  BY <1>1 DEF RequestInv, BodyBehind
<1>3. ParksOnSince(r)'
  BY <1>1 DEF ParksOnSince
<1> QED BY <1>1, <1>2, <1>3, SettledInv

LEMMA PublishInv ==
  ASSUME TypeIInv, TypeIInv', Announces, NEW r \in Req, RequestInv(r), Publish(r)
  PROVE  RequestInv(r)'
<1>1. /\ OwnStep(r) /\ job[r].pc = "built" /\ job'[r].pc = "published"
      /\ job'[r].snap = job[r].snap
  BY PublishEffect
<1>2. \A s \in MemberOf[Owner[r]] : job'[r].version[s] <= ctr[s]
  <2>1. \A s \in MemberOf[Owner[r]] : job'[r].version[s] = ctr[s]
    BY PublishEffect
  <2>2. \A s \in MemberOf[Owner[r]] : ctr[s] \in Nat
    BY JobFields DEF TypeIInv, TypeOK, TablesOK
  <2> QED BY <2>1, <2>2
<1>3. ParksOnSince(r)'
  BY <1>1 DEF ParksOnSince
<1> QED BY <1>1, <1>2, <1>3, SettledInv

LEMMA ParkInv ==
  ASSUME TypeIInv, TypeIInv', Announces, NEW r \in Req, RequestInv(r), Park(r)
  PROVE  RequestInv(r)'
<1>1. /\ OwnStep(r) /\ job[r].pc = "published" /\ job'[r].pc = "parked"
      /\ job'[r].snap = job[r].snap /\ job'[r].version = job[r].version
  BY ParkEffect
<1>2. \A t \in MemberOf[Owner[r]] : job'[r].version[t] <= ctr[t]
  BY <1>1 DEF RequestInv, BodyBehind
<1>3. ParksOnSince(r)'
  BY ParkEffect DEF ParksOnSince, OwnStep
<1> QED BY <1>1, <1>2, <1>3, SettledInv

-----------------------------------------------------------------------------
(* The invariant is inductive *)

\* An engine only remembers versions that were handed out.
LEMMA SincesStay ==
  ASSUME TypeIInv, TypeIInv', Announces, SincesBehind, \A r \in Req : RequestInv(r),
         \A d \in Device : \/ since'[d] \in {NoVersion, since[d]}
                           \/ \E r \in Req : Owner[r] = d /\ since'[d].at = job[r].version
  PROVE  SincesBehind'
<1> SUFFICES ASSUME NEW d \in Device, since'[d] # NoVersion, NEW s \in MemberOf[d]
             PROVE  since'[d].at[s] <= ctr'[s]
  BY DEF SincesBehind
<1>1. s \in Scope
  BY LongPollConstants
<1>2. ctr[s] \in Nat /\ ctr'[s] \in Nat /\ ctr'[s] >= ctr[s]
  BY <1>1 DEF Announces, CountersGrow, TypeIInv, TypeOK, TablesOK
<1>3. since'[d].at[s] \in Nat
  BY DEF TypeIInv, TypeOK, EnginesOK, SincesOf, VersionsOf
<1>4. since'[d].at[s] <= ctr[s]
  <2>1. CASE since'[d] = since[d]
    BY <2>1 DEF SincesBehind
  <2>2. CASE \E r \in Req : Owner[r] = d /\ since'[d].at = job[r].version
    BY <2>2 DEF RequestInv, BodyBehind
  <2> QED BY <2>1, <2>2
<1> QED BY <1>2, <1>3, <1>4

\* A step of one handler.
LEMMA OneHandlerInv ==
  ASSUME ParkedIInv, TypeIInv', Announces, UNCHANGED since,
         NEW r \in Req, \A q \in Req \ {r} : job'[q] = job[q], RequestInv(r)'
  PROVE  ParkedIInv'
<1>1. SincesBehind'
  BY SincesStay DEF ParkedIInv
<1>2. \A q \in Req \ {r} : RequestInv(q)'
  BY BystanderInv DEF ParkedIInv
<1> QED BY <1>1, <1>2 DEF ParkedIInv

\* A step of no handler.
LEMMA NoHandlerInv ==
  ASSUME ParkedIInv, TypeIInv', Announces, UNCHANGED job,
         \A d \in Device : since'[d] \in {NoVersion, since[d]}
  PROVE  ParkedIInv'
<1>1. SincesBehind'
  BY SincesStay DEF ParkedIInv
<1>2. \A q \in Req : RequestInv(q)'
  BY BystanderInv DEF ParkedIInv
<1> QED BY <1>1, <1>2 DEF ParkedIInv

LEMMA BuildStepInv ==
  ASSUME ParkedIInv, TypeIInv', NEW r \in Req,
         \/ \E s \in Scope : Record(r, s) \/ Read(r, s) \/ BumpChanged(r, s)
         \/ Report(r) \/ Publish(r)
  PROVE  ParkedIInv'
<1> USE DEF ParkedIInv
<1>1. ASSUME NEW s \in Scope, Record(r, s) PROVE ParkedIInv'
  <2>1. Announces
    BY <1>1, RecordAnnounces
  <2>2. RequestInv(r)'
    BY <1>1, <2>1, RecordInv
  <2>3. UNCHANGED since /\ OwnStep(r)
    BY <1>1, RecordEffect
  <2> QED BY <2>1, <2>2, <2>3, OneHandlerInv DEF OwnStep
<1>2. ASSUME NEW s \in Scope, Read(r, s) PROVE ParkedIInv'
  <2>1. Announces
    BY <1>2, OtherHandlerAnnounces
  <2>2. RequestInv(r)'
    BY <1>2, <2>1, ReadInv
  <2>3. UNCHANGED since /\ OwnStep(r)
    BY <1>2, ReadEffect
  <2> QED BY <2>1, <2>2, <2>3, OneHandlerInv DEF OwnStep
<1>3. ASSUME NEW s \in Scope, BumpChanged(r, s) PROVE ParkedIInv'
  <2>1. Announces
    BY <1>3, BumpChangedAnnounces
  <2>2. RequestInv(r)'
    BY <1>3, <2>1, BumpChangedInv
  <2>3. UNCHANGED since /\ OwnStep(r)
    BY <1>3, BumpChangedEffect
  <2> QED BY <2>1, <2>2, <2>3, OneHandlerInv DEF OwnStep
<1>4. CASE Report(r)
  <2>1. Announces
    BY <1>4, ReportAnnounces
  <2>2. RequestInv(r)'
    BY <1>4, <2>1, ReportInv
  <2>3. UNCHANGED since /\ OwnStep(r)
    BY <1>4, ReportEffect
  <2> QED BY <2>1, <2>2, <2>3, OneHandlerInv DEF OwnStep
<1>5. CASE Publish(r)
  <2>1. Announces
    BY <1>5, PublishAnnounces
  <2>2. RequestInv(r)'
    BY <1>5, <2>1, PublishInv
  <2>3. UNCHANGED since /\ OwnStep(r)
    BY <1>5, PublishEffect
  <2> QED BY <2>1, <2>2, <2>3, OneHandlerInv DEF OwnStep
<1> QED BY <1>1, <1>2, <1>3, <1>4, <1>5

LEMMA AnswerStepInv ==
  ASSUME ParkedIInv, TypeIInv', ~MayCut, NEW r \in Req,
         \/ Issue(r) \/ Park(r) \/ Refuse(r) \/ Reply(r) \/ Discard(r) \/ Woke(r)
         \/ Cancel(r) \/ Fail(r)
  PROVE  ParkedIInv'
<1> USE DEF ParkedIInv
<1>1. CASE Issue(r)
  <2>1. Announces
    BY <1>1, OtherHandlerAnnounces
  <2>2. RequestInv(r)'
    BY <1>1, <2>1, IssueInv
  <2>3. UNCHANGED since /\ \A q \in Req \ {r} : job'[q] = job[q]
    BY <1>1, IssueEffect
  <2> QED BY <2>1, <2>2, <2>3, OneHandlerInv
<1>2. CASE Park(r)
  <2>1. Announces
    BY <1>2, OtherHandlerAnnounces
  <2>2. RequestInv(r)'
    BY <1>2, <2>1, ParkInv
  <2>3. UNCHANGED since /\ OwnStep(r)
    BY <1>2, ParkEffect
  <2> QED BY <2>1, <2>2, <2>3, OneHandlerInv DEF OwnStep
<1>3. CASE Woke(r)
  <2>1. Announces
    BY <1>3, OtherHandlerAnnounces
  <2>2. RequestInv(r)'
    BY <1>3, <2>1, WokeInv
  <2>3. UNCHANGED since /\ \A q \in Req \ {r} : job'[q] = job[q]
    BY <1>3, WokeEffect
  <2> QED BY <2>1, <2>2, <2>3, OneHandlerInv
<1>4. CASE Refuse(r) \/ Reply(r) \/ Discard(r) \/ Cancel(r) \/ Fail(r)
  <2>1. Over(r) /\ UNCHANGED since
    BY <1>4, EndEffect, ReplyEffect, DiscardEffect
  <2>2. Announces
    BY <2>1, OverAnnounces
  <2>3. RequestInv(r)'
    BY <2>1, <2>2, OverInv
  <2>4. \A q \in Req \ {r} : job'[q] = job[q]
    BY <2>1 DEF Over
  <2> QED BY <2>1, <2>2, <2>3, <2>4, OneHandlerInv
<1> QED BY <1>1, <1>2, <1>3, <1>4

\* An engine merges a reply.
LEMMA ReceiveInv ==
  ASSUME ParkedIInv, TypeIInv', NEW d \in Device, Receive(d) PROVE ParkedIInv'
<1> PICK r \in Req : r = flight[d]
  BY ReceiveEffect DEF ParkedIInv
<1>1. /\ Owner[r] = d /\ Over(r) /\ since'[d].at = job[r].version
      /\ \A e \in Device \ {d} : since'[e] = since[e]
  BY ReceiveEffect DEF ParkedIInv
<1>2. Announces
  BY <1>1, OverAnnounces DEF ParkedIInv
<1>3. RequestInv(r)'
  BY <1>1, <1>2, OverInv DEF ParkedIInv
<1>4. \A q \in Req \ {r} : RequestInv(q)'
  BY <1>1, <1>2, BystanderInv DEF ParkedIInv, Over
<1>5. SincesBehind'
  BY <1>1, <1>2, SincesStay DEF ParkedIInv
<1> QED BY <1>1, <1>3, <1>4, <1>5 DEF ParkedIInv

LEMMA EngineStepInv ==
  ASSUME ParkedIInv, TypeIInv', NEW d \in Device, Engine(d) PROVE ParkedIInv'
<1>1. CASE Receive(d)
  BY <1>1, ReceiveInv
<1>2. CASE Reap(d)
  <2>1. Announces
    BY <1>2, ReaperAnnounces DEF ParkedIInv
  <2>2. UNCHANGED <<job, since>>
    BY <1>2 DEF Reap, clientVars
  <2> QED BY <2>1, <2>2, NoHandlerInv
<1>3. CASE ~Receive(d) /\ ~Reap(d)
  <2>1. UNCHANGED <<presence, ctr, offers, unseen, reaped, job>>
    BY <1>3 DEF Engine, Toggle, NewOffer, NewSighting, Found, Abandon, Crash, Boot,
       tableVars, wakeVars
  <2>2. since' = since \/ since' = [since EXCEPT ![d] = NoVersion]
    BY <1>3 DEF Engine, Toggle, NewOffer, NewSighting, Found, Abandon, Crash, Boot
  <2>3. \A e \in Device : since'[e] \in {NoVersion, since[e]}
    BY <2>2 DEF ParkedIInv, TypeIInv, PerDevice
  <2>4. Announces
    BY <2>1, QuietAnnounces DEF ParkedIInv
  <2> QED BY <2>1, <2>3, <2>4, NoHandlerInv
<1> QED BY <1>1, <1>2, <1>3

LEMMA ParkedInit == Init => ParkedIInv
<1> SUFFICES ASSUME Init PROVE ParkedIInv
  OBVIOUS
<1>1. TypeIInv
  BY InitType
<1>2. SincesBehind
  BY DEF Init, SincesBehind
<1>3. ASSUME NEW r \in Req PROVE RequestInv(r)
  <2>1. job[r] = Idle(r)
    BY <1>3 DEF Init
  <2>2. /\ Idle(r).pc = "idle" /\ Idle(r).body.since = NoVersion
        /\ \A s \in MemberOf[Owner[r]] : Idle(r).version[s] = 0
    BY <1>1, JobFields DEF Idle, Building, NoBody
  <2>3. \A s \in MemberOf[Owner[r]] : s \in Scope /\ ctr[s] = 0
    BY LongPollConstants DEF Init
  <2>4. BodyBehind(r)
    BY <2>1, <2>2, <2>3 DEF BodyBehind
  <2> QED BY <2>1, <2>2, <2>4 DEF RequestInv, ParksOnSince, OwnRowStands, Recorded, RowsCurrent,
           SnapCurrent, HasSnap
<1> QED BY <1>1, <1>2, <1>3 DEF ParkedIInv

LEMMA ParkedNext ==
  ASSUME ~MayCut, Restarts = 0, ParkedIInv, [Next]_vars PROVE ParkedIInv'
<1>1. TypeIInv'
  BY NextType DEF ParkedIInv
<1>2. CASE \E r \in Req : Issue(r) \/ Handler(r) \/ Cancel(r) \/ Fail(r)
  BY <1>1, <1>2, BuildStepInv, AnswerStepInv DEF Handler, Woke
<1>3. CASE \E d \in Device : Engine(d)
  BY <1>1, <1>3, EngineStepInv
<1>4. CASE (\E s \in Scope : BumpReaped(s)) \/ Prune
  <2>1. Announces
    BY <1>4, ReaperAnnounces DEF ParkedIInv
  <2>2. UNCHANGED <<job, since>>
    BY <1>4 DEF BumpReaped, Prune, clientVars
  <2> QED BY <1>1, <2>1, <2>2, NoHandlerInv
<1>5. CASE Restart
  <2>1. epoch \in 0..0
    BY DEF ParkedIInv, TypeIInv, TypeOK, TablesOK
  <2> QED BY <1>5, <2>1 DEF Restart
<1>6. CASE UNCHANGED vars
  <2>1. UNCHANGED <<presence, ctr, offers, unseen, reaped, job, since>>
    BY <1>6 DEF vars, clientVars, tableVars, wakeVars
  <2>2. Announces
    BY <2>1, QuietAnnounces DEF ParkedIInv
  <2> QED BY <1>1, <2>1, <2>2, NoHandlerInv
<1> QED BY <1>2, <1>3, <1>4, <1>5, <1>6 DEF Next

\* A sleeping request's scopes have not moved since it parked.
LEMMA SleepersAreStill ==
  ASSUME ParkedIInv, Announced, NEW r \in Req, Asleep(r)
  PROVE  /\ job[r].pc = "parked" /\ ~job[r].again
         /\ \A s \in MemberOf[Owner[r]] : ~Moved(r, s)
         /\ r \notin unseen /\ ~WakeDue(Owner[r])
<1>1. \A q \in Req : (\A s \in Scope : ~BumpDueBy(q, s)) /\ \A d \in Device : ~WakeDueBy(q, d)
  BY DEF Announced, Unannounced, BumpDueBy, WakeDueBy
<1>2. (\A s \in Scope : ~BumpDue(s)) /\ ~WakeDue(Owner[r])
  BY <1>1, JobFields DEF Announced, BumpDue, WakeDue, ParkedIInv
<1>3. /\ job[r].pc = "parked" /\ r \notin unseen /\ ~job[r].again
      /\ job[r].body.since # NoVersion /\ job[r].body.since.at = job[r].version
  BY DEF Asleep, ParkedIInv, RequestInv, ParksOnSince
<1>4. [s \in MemberOf[Owner[r]] |-> ctr[s]] = job[r].version
  BY <1>3 DEF Asleep, Herd!HerdDue, Herd!Aggregate, Interest
<1>5. \A s \in MemberOf[Owner[r]] : s \in Scope /\ ctr[s] \in Nat
  BY JobFields DEF ParkedIInv, TypeIInv, TypeOK, TablesOK
<1>6. \A s \in MemberOf[Owner[r]] : ~Moved(r, s)
  BY <1>2, <1>3, <1>4, <1>5 DEF Moved
<1> QED BY <1>2, <1>3, <1>6

LEMMA SleepersAreCurrent == ParkedIInv => ParkedIsCurrent
<1> SUFFICES ASSUME ParkedIInv, Announced, NEW r \in Req, Asleep(r), ~job[r].body.paused
             PROVE  Told(job[r].snap) = Told(SeedsNow(Owner[r], job[r].body.enabled))
  BY DEF ParkedIsCurrent
<1>1. job[r].body.enabled \subseteq MemberOf[Owner[r]]
  BY JobFields DEF JobsOf, BodiesOf, ParkedIInv
<1>2. Still(r) /\ HasSnap(r)
  BY <1>1, SleepersAreStill DEF Still, HasSnap
<1> QED BY <1>2 DEF ParkedIInv, RequestInv, SnapCurrent

LEMMA SleepersRows == ParkedIInv => RowsFollowRequest
<1> SUFFICES ASSUME ParkedIInv, Announced, NEW r \in Req, Asleep(r), NEW s \in Interest[r]
             PROVE  RowAsked(r, s)
  BY DEF RowsFollowRequest, RowAsked
<1>1. s \in MemberOf[Owner[r]]
  BY JobFields DEF ParkedIInv
<1>2. Recorded(r, s) /\ ~job[r].again /\ ~Moved(r, s)
  BY <1>1, SleepersAreStill DEF Recorded
<1> QED BY <1>1, <1>2 DEF ParkedIInv, RequestInv, OwnRowStands

(***************************************************************************)
(* No lost update, for any devices, requests, scopes, reports and ceiling: *)
(* as long as every build that changed a table runs to its announcements   *)
(* and the coordinator does not restart, a request that sleeps with        *)
(* nothing left to announce holds the snapshot a rebuild would give,       *)
(* however builds, wakes, reaping, failures and crashes interleave.        *)
(***************************************************************************)
THEOREM NoLostUpdate ==
  ASSUME ~MayCut, Restarts = 0
  PROVE  Spec => []ParkedIsCurrent
<1>1. Init => ParkedIInv
  BY ParkedInit
<1>2. ParkedIInv /\ [Next]_vars => ParkedIInv'
  BY ParkedNext
<1>3. ParkedIInv => ParkedIsCurrent
  BY SleepersAreCurrent
<1> QED BY <1>1, <1>2, <1>3, PTL DEF Spec, Safety

\* What the exchange keeps at every step, types included, under the conditions of NoLostUpdate.
THEOREM LongPollIsSafe ==
  ASSUME ~MayCut, Restarts = 0
  PROVE  Spec => []LongPollSafe
<1>1. TypeOK /\ ParkedIsCurrent => LongPollSafe
  BY DEF LongPollSafe
<1>2. Spec => []ParkedIsCurrent
  BY NoLostUpdate
<1> QED BY <1>1, <1>2, LongPollTypeCorrect, PTL

(***************************************************************************)
(* Under the same conditions the coordinator's rows for the device of a    *)
(* sleeping request are those the request asked for: neither an abandoned  *)
(* request of the device that runs late nor the reaper changes them        *)
(* without waking it.                                                      *)
(***************************************************************************)
THEOREM NoStolenRow ==
  ASSUME ~MayCut, Restarts = 0
  PROVE  Spec => []RowsFollowRequest
<1>1. Init => ParkedIInv
  BY ParkedInit
<1>2. ParkedIInv /\ [Next]_vars => ParkedIInv'
  BY ParkedNext
<1>3. ParkedIInv => RowsFollowRequest
  BY SleepersRows
<1> QED BY <1>1, <1>2, <1>3, PTL DEF Spec, Safety

-----------------------------------------------------------------------------
(* Delta sync *)

\* A reply cut to the seeds its receiver holds rebuilds the snapshot.
LEMMA MergedRebuilds ==
  ASSUME NEW held \in SeedMap, NEW all \in SeedMap
  PROVE  Merged(held, held, all) = all
<1> PICK H \in SUBSET Device : held \in [H -> Seed]
  BY DEF SeedMap
<1> PICK A \in SUBSET Device : all \in [A -> Seed]
  BY DEF SeedMap
<1> DEFINE kept == IF held = NoSeeds THEN {} ELSE DOMAIN held \ Removed(held, all)
           value(p) == IF p \in Sent(held, all) THEN all[p] ELSE held[p]
<1>1. kept \subseteq A /\ Sent(held, all) \subseteq A
  BY DEF Removed, Sent
<1>2. A \subseteq kept \cup Sent(held, all)
  <2>1. CASE held = NoSeeds
    <3>1. DOMAIN held = {}
      BY <2>1 DEF NoSeeds
    <3> QED BY <3>1 DEF Sent
  <2>2. CASE held # NoSeeds
    BY <2>2 DEF Removed, Sent
  <2> QED BY <2>1, <2>2
<1>3. kept \cup Sent(held, all) = A
  BY <1>1, <1>2
<1>4. \A p \in A : value(p) = all[p]
  BY DEF Sent
<1>5. Merged(held, held, all) = [p \in kept \cup Sent(held, all) |-> value(p)]
  BY DEF Merged
<1> HIDE DEF kept, value
<1>6. Merged(held, held, all) = [p \in A |-> value(p)]
  BY <1>3, <1>5
<1>7. [p \in A |-> value(p)] = [p \in A |-> all[p]]
  BY <1>4
<1> QED BY <1>6, <1>7

\* An engine merges nothing while it awaits a reply cut to what it held.
HeldIsView == \A d \in Device : flight[d] # NoReq => job[flight[d]].body.held = view[d]

DeltaIInv == TypeIInv /\ HeldIsView

\* What is still awaited was awaited before, by an engine that merged nothing.
LEMMA AwaitedStays ==
  ASSUME HeldIsView,
         \A d \in Device : flight'[d] # NoReq =>
           /\ flight'[d] = flight[d] /\ view'[d] = view[d]
           /\ job'[flight[d]].body = job[flight[d]].body
  PROVE  HeldIsView'
  BY DEF HeldIsView

\* A handler keeps its body until it is over, and nobody awaits it by then.
LEMMA HandlerHeld ==
  ASSUME DeltaIInv, NEW r \in Req, Handler(r) \/ Cancel(r) \/ Fail(r) PROVE HeldIsView'
<1> USE DEF DeltaIInv
<1>1. \A d \in Device : flight[d] # NoReq => flight[d] \in Req /\ Owner[flight[d]] = d
  BY DEF TypeIInv, TypeOK, EnginesOK
<1>2. CASE \A q \in Req : job'[q].body = job[q].body
  <2>1. UNCHANGED clientVars \/ Ended(r)
    BY DEF Handler, Record, Read, BumpChanged, Report, Publish, Park, Refuse, Reply, Discard,
       HerdWoken, PersonalWoken, Preempted, HoldElapsed, Rebuild, Cancel, Fail
  <2>2. CASE UNCHANGED clientVars
    BY <1>1, <1>2, <2>2, AwaitedStays DEF clientVars
  <2>3. CASE Ended(r)
    BY <1>1, <1>2, <2>3, AwaitedStays DEF Ended, TypeIInv, PerDevice
  <2> QED BY <2>1, <2>2, <2>3
<1>3. CASE Refuse(r) \/ Cancel(r) \/ Fail(r)
  <2>1. Ended(r)
    BY <1>3 DEF Refuse, Cancel, Fail
  <2>2. \A q \in Req \ {r} : job'[q] = job[q]
    BY <2>1 DEF Ended, TypeIInv, PerDevice
  <2>3. \A d \in Device : flight'[d] # NoReq => flight'[d] = flight[d] /\ flight[d] # r
    BY <1>1, <2>1 DEF Ended, TypeIInv, PerDevice
  <2>4. view' = view
    BY <2>1 DEF Ended
  <2> QED BY <1>1, <2>2, <2>3, <2>4, AwaitedStays
<1>4. CASE Discard(r)
  <2>1. \A q \in Req \ {r} : job'[q] = job[q]
    BY <1>4 DEF Discard, TypeIInv, PerDevice
  <2>2. flight' = flight /\ view' = view /\ flight[Owner[r]] # r
    BY <1>4 DEF Discard, clientVars
  <2> QED BY <1>1, <2>1, <2>2, AwaitedStays
<1>5. CASE Handler(r) /\ ~Refuse(r) /\ ~Discard(r)
  <2>0. OwnStep(r) => \A q \in Req : job'[q].body = job[q].body
    BY DEF OwnStep
  <2>1. CASE \E s \in Scope : Record(r, s) \/ Read(r, s) \/ BumpChanged(r, s)
    <3>1. OwnStep(r)
      BY <2>1, RecordEffect, ReadEffect, BumpChangedEffect
    <3> QED BY <1>2, <2>0, <3>1
  <2>2. CASE Report(r) \/ Publish(r) \/ Park(r)
    <3>1. OwnStep(r)
      BY <2>2, ReportEffect, PublishEffect, ParkEffect
    <3> QED BY <1>2, <2>0, <3>1
  <2>3. CASE Reply(r)
    <3>1. \A q \in Req : job'[q].body = job[q].body
      BY <2>3, JobFields DEF Reply, JobsOf, TypeIInv, PerDevice
    <3> QED BY <1>2, <3>1
  <2>4. CASE Woke(r)
    BY <1>2, <2>4, WokeEffect
  <2> QED BY <1>5, <2>1, <2>2, <2>3, <2>4 DEF Handler, Woke
<1> QED BY <1>3, <1>4, <1>5

LEMMA IssueHeld == ASSUME DeltaIInv, NEW r \in Req, Issue(r) PROVE HeldIsView'
<1> USE DEF DeltaIInv
<1> DEFINE d == Owner[r]
           body == [since |-> IF HaveReport(d) THEN NoVersion ELSE since[d],
                    paused |-> want[d].paused, enabled |-> want[d].enabled,
                    reports |-> want[d].reports, held |-> view[d]]
           j == Building(r, body, Subscribed(r), FALSE)
<1>1. j.body = body /\ body.held = view[d]
  BY DEF Building
<1>2. job' = [job EXCEPT ![r] = j]
  BY DEF Issue
<1> HIDE DEF j, body
<1>3. job'[r].body.held = view[d] /\ \A q \in Req \ {r} : job'[q] = job[q]
  BY <1>1, <1>2 DEF TypeIInv, PerDevice
<1>4. flight' = [flight EXCEPT ![d] = r] /\ view' = view
  BY DEF Issue
<1> SUFFICES ASSUME NEW e \in Device, flight'[e] # NoReq PROVE job'[flight'[e]].body.held = view'[e]
  BY DEF HeldIsView
<1>5. CASE e = d
  BY <1>3, <1>4, <1>5 DEF TypeIInv, PerDevice
<1>6. CASE e # d
  <2>1. flight'[e] = flight[e] /\ flight[e] \in Req \ {r}
    BY <1>4, <1>6 DEF TypeIInv, TypeOK, PerDevice, EnginesOK
  <2> QED BY <1>3, <1>4, <2>1 DEF HeldIsView
<1> QED BY <1>5, <1>6

\* An engine that merges, crashes or drops its request awaits nothing.
LEMMA EngineHeld == ASSUME DeltaIInv, NEW d \in Device, Engine(d) PROVE HeldIsView'
<1> USE DEF DeltaIInv
<1>1. \A e \in Device : flight[e] # NoReq => flight[e] \in Req /\ Owner[flight[e]] = e
  BY DEF TypeIInv, TypeOK, EnginesOK
<1>2. /\ \A e \in Device \ {d} : flight'[e] = flight[e] /\ view'[e] = view[e]
      /\ flight'[d] = NoReq \/ (flight'[d] = flight[d] /\ view' = view)
  <2>1. flight = [e \in Device |-> flight[e]] /\ view = [e \in Device |-> view[e]]
    BY DEF TypeIInv, TypeOK, EnginesOK, PerDevice
  <2>2. CASE Receive(d)
    BY <2>1, <2>2 DEF Receive
  <2>3. CASE Crash(d)
    BY <2>1, <2>3 DEF Crash
  <2>4. CASE Boot(d) \/ Reap(d) \/ Abandon(d)
    BY <2>1, <2>4 DEF Boot, Reap, Abandon, clientVars
  <2>5. CASE \E paused \in BOOLEAN, enabled \in SUBSET MemberOf[d] : Toggle(d, paused, enabled)
    BY <2>1, <2>5 DEF Toggle
  <2>6. CASE \E reports : Found(d, reports)
    BY <2>1, <2>6 DEF Found
  <2> QED BY <2>2, <2>3, <2>4, <2>5, <2>6 DEF Engine, NewOffer, NewSighting
<1>3. CASE Receive(d)
  <2>1. flight'[d] = NoReq
    BY <1>3 DEF Receive, TypeIInv, PerDevice
  <2>2. \A q \in Req : Owner[q] # d => job'[q] = job[q]
    BY <1>1, <1>3 DEF Receive, TypeIInv, PerDevice
  <2> QED BY <1>1, <1>2, <2>1, <2>2, AwaitedStays
<1>4. CASE ~Receive(d)
  <2>1. job' = job
    BY <1>4 DEF Engine, Toggle, NewOffer, NewSighting, Found, Abandon, Crash, Boot, Reap
  <2> QED BY <1>2, <2>1, AwaitedStays
<1> QED BY <1>3, <1>4

LEMMA DeltaInductive == ASSUME DeltaIInv, [Next]_vars PROVE DeltaIInv'
<1>1. TypeIInv'
  BY NextType DEF DeltaIInv
<1>2. CASE \E r \in Req : Issue(r) \/ Handler(r) \/ Cancel(r) \/ Fail(r)
  BY <1>2, IssueHeld, HandlerHeld, <1>1 DEF DeltaIInv
<1>3. CASE \E d \in Device : Engine(d)
  BY <1>1, <1>3, EngineHeld DEF DeltaIInv
<1>4. CASE (\E s \in Scope : BumpReaped(s)) \/ Prune \/ UNCHANGED vars
  <2>1. UNCHANGED <<flight, view, job>>
    BY <1>4 DEF BumpReaped, Prune, vars, clientVars
  <2> QED BY <1>1, <2>1 DEF DeltaIInv, HeldIsView
<1>5. CASE Restart
  <2>1. \A d \in Device : flight'[d] = NoReq
    BY <1>5 DEF Restart
  <2> QED BY <1>1, <2>1 DEF DeltaIInv, HeldIsView
<1> QED BY <1>2, <1>3, <1>4, <1>5 DEF Next

(***************************************************************************)
(* Delta sync loses nothing, whatever fails or restarts: the reply         *)
(* apply_delta cuts down to `held` is merged by the very engine that sent  *)
(* `held`, before its seeds changed, so merge_seeds gives back the         *)
(* snapshot.                                                               *)
(***************************************************************************)
THEOREM DeltaLosesNothing == Spec => DeltaReconstructs
<1>1. Init => DeltaIInv
  BY InitType DEF Init, DeltaIInv, HeldIsView
<1>2. DeltaIInv /\ [Next]_vars => DeltaIInv'
  BY DeltaInductive
<1>3. DeltaIInv /\ [Next]_vars => [\A d \in Device : Receive(d) => view'[d] = job[flight[d]].snap]_vars
  <2> SUFFICES ASSUME DeltaIInv, NEW d \in Device, Receive(d)
               PROVE  view'[d] = job[flight[d]].snap
    OBVIOUS
  <2>1. flight[d] \in Req /\ job[flight[d]] \in JobsOf(Owner[flight[d]])
    BY DEF Receive, DeltaIInv, TypeIInv, TypeOK, EnginesOK
  <2>2. job[flight[d]].body.held = view[d] /\ view[d] \in SeedMap /\ job[flight[d]].snap \in SeedMap
    BY <2>1 DEF Receive, DeltaIInv, HeldIsView, TypeIInv, TypeOK, EnginesOK, JobsOf
  <2>3. view'[d] = Merged(view[d], job[flight[d]].body.held, job[flight[d]].snap)
    BY DEF Receive, DeltaIInv, TypeIInv, TypeOK, EnginesOK
  <2> QED BY <2>2, <2>3, MergedRebuilds
<1> QED BY <1>1, <1>2, <1>3, PTL DEF Spec, Safety, DeltaReconstructs
=============================================================================
