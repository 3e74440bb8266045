------------------------------ MODULE Devices ------------------------------
(***************************************************************************)
(* The coordinator's device store (coordinator/src/store.rs) and the       *)
(* handlers that work on it: the authentication and allocation phases of a *)
(* register (api/auth.rs, resolve_device and retire_superseded in          *)
(* api/snapshot.rs), device management (api/devices.rs), web service       *)
(* labels, interactive login (api/login.rs) and the idle reclaim.          *)
(*                                                                         *)
(* SQLite runs one statement at a time; a handler is a sequence of them    *)
(* with awaits in between, and only set_device_services uses a             *)
(* transaction.  So each statement is a step here; consecutive reads whose *)
(* results are only used together are one step.  A name is a pair of the   *)
(* label asked for and the suffix that made it unique (1 for none).        *)
(***************************************************************************)
EXTENDS Naturals, FiniteSets

CONSTANTS Pub,        \* device public keys
          User,       \* Discord accounts
          Key,        \* one-time enrollment keys
          KeyUser,    \* whose key it is
          Handler,    \* requests (and the reclaim task) under way
          Want,       \* the labels an engine or a rename asks for
          Label,      \* the web service labels an engine may register
          IdxMax,     \* size of the mesh range
          MaxDevices, \* MAX_DEVICES_PER_USER
          MaxMint,    \* bound on the rows ever inserted
          MaxRequest, \* bound on the requests (and reclaims) ever begun
          MaxEvent    \* bound on logins, devices going idle, keys that expire, dropped
                      \* requests and crashes

ASSUME KeyUserType == KeyUser \in [Key -> User]

VARIABLES device,     \* table devices: the row of a key, or NoRow
          idle,       \* keys whose row has last_seen long ago and personal = 1
          login,      \* table oauth_authorized: who logged in with the key, or Nobody
          usedBy,     \* table enrollment_keys: the key that consumed it, or NoPub
          expired,    \* enrollment keys past expires_at
          primary,    \* table primary_device, or NoPub
          service,    \* table device_services
          token,      \* the bearer token an engine keeps, 0 for none
          job,        \* what each handler is doing
          granted,    \* history: which key of a device was bound to whom, and by what
          barred,     \* history: keys removed and not authorised again since
          minted, requests, events

deviceVars == <<device, idle, login, usedBy, expired, primary, service, token, job,
                granted, barred, minted, requests, events>>

NoRow == [owner |-> "none"]
NoPub == "no key"
Nobody == "nobody"
NoKey == "no enrollment key"
NoName == <<"", 0>>

\* What stands for an absent key, account or enrollment key (None in the code) is not one.
ASSUME DeviceSentinels == /\ NoPub \notin Pub /\ Nobody \notin User /\ "none" \notin User
                          /\ NoKey \notin Key /\ "login" \notin Key
ASSUME IdxMaxType == IdxMax \in Nat

Row(u, i, n, t) == [owner |-> u, idx |-> i, name |-> n, token |-> t]
Enrolled == {p \in Pub : device[p] # NoRow}
OwnedBy(u) == {p \in Enrolled : device[p].owner = u}

Idle == [at |-> "idle", pub |-> NoPub]
Job(at, p, u, fresh) == [at |-> at, pub |-> p, user |-> u, fresh |-> fresh, key |-> NoKey,
                     old |-> NoPub, idx |-> 0, name |-> NoName, victim |-> NoPub, labels |-> {}, entitled |-> TRUE]

DeviceInit ==
  /\ device = [p \in Pub |-> NoRow]
  /\ idle = {}
  /\ login = [p \in Pub |-> Nobody]
  /\ usedBy = [k \in Key |-> NoPub]
  /\ expired = {}
  /\ primary = [u \in User |-> NoPub]
  /\ service = {}
  /\ token = [p \in Pub |-> 0]
  /\ job = [h \in Handler |-> Idle]
  /\ granted = {} /\ barred = {}
  /\ minted = 0 /\ requests = 0 /\ events = 0

At(h, at) == job[h].at = at
Go(h, at) == job' = [job EXCEPT ![h].at = at]
Finish(h) == job' = [job EXCEPT ![h] = Idle]

\* The (index, name) reads of allocate_device and unique_device_name.
FreeIdx == {i \in 1 .. IdxMax : \A p \in Enrolled : device[p].idx # i}
NamesOf(u, except) == {device[p].name : p \in OwnedBy(u) \ except}
Unique(u, want, except) ==
  LET taken == NamesOf(u, except) IN
  <<want, CHOOSE n \in 1 .. Cardinality(Pub) + 1 :
            <<want, n>> \notin taken /\ \A m \in 1 .. n - 1 : <<want, m>> \in taken>>

-----------------------------------------------------------------------------
(* Register: who is calling.                                               *)

Registering == {"owner", "auth", "login", "claim", "alloc", "insert", "primary", "supersede", "touch"}

\* An engine registers, one register at a time.  It presents the token it keeps, perhaps an
\* enrollment key, and perhaps (after a re-key) the token of the key it replaced.
Register(h, p, k, old) ==
  /\ At(h, "idle") /\ requests < MaxRequest
  /\ \A g \in Handler : job[g].pub = p => job[g].at \notin Registering
  /\ old # p /\ (old # NoPub => token[old] # 0)
  /\ requests' = requests + 1
  /\ job' = [job EXCEPT ![h] = [Job("owner", p, Nobody, TRUE) EXCEPT !.key = k, !.old = old]]
  /\ UNCHANGED <<device, idle, login, usedBy, expired, primary, service, token, granted, barred, minted, events>>

\* resolve_user's first statement: a known key needs its token, any other an enrollment.
ResolveOwner(h) ==
  /\ At(h, "owner")
  /\ LET p == job[h].pub IN
     job' = [job EXCEPT ![h] =
               IF p \in Enrolled THEN [@ EXCEPT !.at = "auth", !.user = device[p].owner, !.fresh = FALSE]
                                 ELSE [@ EXCEPT !.at = "login"]]
  /\ UNCHANGED <<device, idle, login, usedBy, expired, primary, service, token, granted, barred, minted, requests, events>>

\* decide_device_auth; a row removed meanwhile admits.
Admits(p) == p \in Enrolled => device[p].token = token[p]

Authenticate(h) ==
  /\ At(h, "auth")
  /\ IF Admits(job[h].pub) THEN Go(h, "alloc") ELSE Finish(h)
  /\ UNCHANGED <<device, idle, login, usedBy, expired, primary, service, token, granted, barred, minted, requests, events>>

\* A login binding enrolls (the engine can prove possession), else the key must.
ResolveLogin(h) ==
  /\ At(h, "login")
  /\ LET u == login[job[h].pub] IN
     CASE u # Nobody -> job' = [job EXCEPT ![h].at = "alloc", ![h].user = u]
       [] u = Nobody /\ job[h].key # NoKey -> Go(h, "claim")
       [] OTHER -> Finish(h)
  /\ UNCHANGED <<device, idle, login, usedBy, expired, primary, service, token, granted, barred, minted, requests, events>>

\* consume_enrollment_key's gated UPDATE matched a row, or the same device came back.
Claimed(k, p) == usedBy[k] = p \/ (usedBy[k] = NoPub /\ k \notin expired)

ClaimKey(h) ==
  /\ At(h, "claim")
  /\ LET k == job[h].key
         p == job[h].pub
     IN IF Claimed(k, p)
          THEN /\ usedBy' = [usedBy EXCEPT ![k] = IF @ = NoPub THEN p ELSE @]
               /\ job' = [job EXCEPT ![h].at = "alloc", ![h].user = KeyUser[k]]
               /\ granted' = granted \cup {[pub |-> p, user |-> KeyUser[k], by |-> k]}
               /\ barred' = barred \ {p}
          ELSE Finish(h) /\ UNCHANGED <<usedBy, granted, barred>>
  /\ UNCHANGED <<device, idle, login, expired, primary, service, token, minted, requests, events>>

-----------------------------------------------------------------------------
(* Register: the device's row.                                             *)

\* resolve_device: a caller with no role and no personal scope allocates nothing.
NotEntitled(h) ==
  /\ At(h, "alloc")
  /\ job' = [job EXCEPT ![h].at = "supersede", ![h].entitled = FALSE]
  /\ UNCHANGED <<device, idle, login, usedBy, expired, primary, service, token, granted, barred, minted, requests, events>>

\* allocate_device's reads: a stored row is taken as it is; a new one is refused at the
\* account's cap or when the range is full.
AllocRead(h, want) ==
  /\ At(h, "alloc")
  /\ LET p == job[h].pub
         u == job[h].user
     IN \/ p \in Enrolled /\ Go(h, "primary")
        \/ p \notin Enrolled /\ (Cardinality(OwnedBy(u)) >= MaxDevices \/ FreeIdx = {}) /\ Finish(h)
        \/ /\ p \notin Enrolled /\ Cardinality(OwnedBy(u)) < MaxDevices
           /\ \E i \in FreeIdx :
                job' = [job EXCEPT ![h].at = "insert", ![h].idx = i, ![h].name = Unique(u, want, {})]
  /\ UNCHANGED <<device, idle, login, usedBy, expired, primary, service, token, granted, barred, minted, requests, events>>

\* The table's constraints: PRIMARY KEY (pubkey), UNIQUE (idx).
Insertable(p, i) == p \notin Enrolled /\ i \in FreeIdx

\* The INSERT, with a token of its own; a violated constraint fails the request.
AllocInsert(h) ==
  /\ At(h, "insert") /\ minted < MaxMint
  /\ LET p == job[h].pub IN
     IF Insertable(p, job[h].idx)
       THEN /\ device' = [device EXCEPT ![p] = Row(job[h].user, job[h].idx, job[h].name, minted + 1)]
            /\ minted' = minted + 1
            /\ Go(h, "primary")
       ELSE Finish(h) /\ UNCHANGED <<device, minted>>
  /\ UNCHANGED <<idle, login, usedBy, expired, primary, service, token, granted, barred, requests, events>>

\* ensure_primary.
EnsurePrimary(h) ==
  /\ At(h, "primary")
  /\ primary' = [primary EXCEPT ![job[h].user] = IF @ = NoPub THEN job[h].pub ELSE @]
  /\ Go(h, "supersede")
  /\ UNCHANGED <<device, idle, login, usedBy, expired, service, token, granted, barred, minted, requests, events>>

\* should_supersede: the token's device is another one of the same owner.
ShouldSupersede(u, old) == device[old].owner = u

\* retire_superseded's lookup by the old token.
Supersede(h) ==
  /\ At(h, "supersede")
  /\ LET old == job[h].old IN
     IF old # NoPub /\ old \in Enrolled /\ token[old] = device[old].token /\ ShouldSupersede(job[h].user, old)
       THEN job' = [job EXCEPT ![h].at = "delete", ![h].victim = old]
       ELSE Go(h, "touch")
  /\ UNCHANGED <<device, idle, login, usedBy, expired, primary, service, token, granted, barred, minted, requests, events>>

\* touch_device, then the token handed to a register that enrolled.
Touch(h) ==
  /\ At(h, "touch")
  /\ idle' = IF job[h].entitled THEN idle \ {job[h].pub} ELSE idle
  /\ token' = IF job[h].fresh /\ job[h].pub \in Enrolled
                THEN [token EXCEPT ![job[h].pub] = device[job[h].pub].token] ELSE token
  /\ Finish(h)
  /\ UNCHANGED <<device, login, usedBy, expired, primary, service, granted, barred, minted, requests, events>>

-----------------------------------------------------------------------------
(* remove_device, one statement at a time.                                 *)

DeleteRow(h) ==
  /\ At(h, "delete")
  /\ LET v == job[h].victim IN
     /\ device' = IF device[v].owner = job[h].user THEN [device EXCEPT ![v] = NoRow] ELSE device
     /\ idle' = IF device[v].owner = job[h].user THEN idle \ {v} ELSE idle
  /\ Go(h, "unbind")
  /\ UNCHANGED <<login, usedBy, expired, primary, service, token, granted, barred, minted, requests, events>>

\* Mutant of Unbound: the login binding survives the removal.
UnboundNot(p) == login

Unbound(p) == [login EXCEPT ![p] = Nobody]

\* A register past its own look at the binding may still insert the row.
PastLogin(p) == \E h \in Handler : job[h].pub = p /\ job[h].at \in {"auth", "alloc", "insert"}

DeleteLogin(h) ==
  /\ At(h, "unbind")
  /\ LET v == job[h].victim IN
     /\ login' = Unbound(v)
     /\ barred' = IF v \in Enrolled \/ PastLogin(v) THEN barred ELSE barred \cup {v}
  /\ Go(h, "unserve")
  /\ UNCHANGED <<device, idle, usedBy, expired, primary, service, token, granted, minted, requests, events>>

DeleteServices(h) ==
  /\ At(h, "unserve")
  /\ service' = {s \in service : s.pub # job[h].victim}
  /\ Go(h, "promote")
  /\ UNCHANGED <<device, idle, login, usedBy, expired, primary, token, granted, barred, minted, requests, events>>

\* Was it the primary?  Then another device of the owner takes over, or none.
Promote(h) ==
  /\ At(h, "promote")
  /\ LET u == job[h].user
         rest == OwnedBy(u)
     IN \/ /\ primary[u] # job[h].victim
           /\ UNCHANGED primary
        \/ /\ primary[u] = job[h].victim
           /\ \E p \in (IF rest = {} THEN {NoPub} ELSE rest) : primary' = [primary EXCEPT ![u] = p]
  /\ IF job[h].old # NoPub THEN Go(h, "touch") ELSE Finish(h)
  /\ UNCHANGED <<device, idle, login, usedBy, expired, service, token, granted, barred, minted, requests, events>>

-----------------------------------------------------------------------------
(* Login, management, services, reclaim.                                   *)

\* oauth_complete: a verified access token binds the key to its user.
Login(p, u) ==
  /\ events < MaxEvent /\ login[p] # u
  /\ events' = events + 1
  /\ login' = [login EXCEPT ![p] = u]
  /\ granted' = granted \cup {[pub |-> p, user |-> u, by |-> "login"]}
  /\ barred' = barred \ {p}
  /\ UNCHANGED <<device, idle, usedBy, expired, primary, service, token, job, minted, requests>>

ExpireKey(k) ==
  /\ k \notin expired /\ events < MaxEvent
  /\ events' = events + 1
  /\ expired' = expired \cup {k}
  /\ UNCHANGED <<device, idle, login, usedBy, primary, service, token, job, granted, barred, minted, requests>>

\* manage: the token names the caller and its owner; a device is found by its name.
Manage(h, p, q, op) ==
  /\ At(h, "idle") /\ requests < MaxRequest
  /\ p \in Enrolled /\ token[p] = device[p].token
  /\ q \in OwnedBy(device[p].owner)
  /\ \A r \in OwnedBy(device[p].owner) : device[r].name = device[q].name => r = q
  /\ requests' = requests + 1
  /\ job' = [job EXCEPT ![h] = [Job(op, p, device[p].owner, FALSE) EXCEPT !.victim = q]]
  /\ UNCHANGED <<device, idle, login, usedBy, expired, primary, service, token, granted, barred, minted, events>>

\* rename_device: the names are read, then the caller's own row is updated.
RenameRead(h, want) ==
  /\ At(h, "rename")
  /\ job' = [job EXCEPT ![h].at = "named", ![h].name = Unique(job[h].user, want, {job[h].pub})]
  /\ UNCHANGED <<device, idle, login, usedBy, expired, primary, service, token, granted, barred, minted, requests, events>>

RenameWrite(h) ==
  /\ At(h, "named")
  /\ device' = IF job[h].pub \in Enrolled THEN [device EXCEPT ![job[h].pub].name = job[h].name] ELSE device
  /\ Finish(h)
  /\ UNCHANGED <<idle, login, usedBy, expired, primary, service, token, granted, barred, minted, requests, events>>

SetPrimary(h) ==
  /\ At(h, "setprimary")
  /\ primary' = [primary EXCEPT ![job[h].user] = job[h].victim]
  /\ Finish(h)
  /\ UNCHANGED <<device, idle, login, usedBy, expired, service, token, granted, barred, minted, requests, events>>

\* register_services: the token names the device and its owner.
RegisterServices(h, p, L) ==
  /\ At(h, "idle") /\ requests < MaxRequest
  /\ p \in Enrolled /\ token[p] = device[p].token
  /\ requests' = requests + 1
  /\ job' = [job EXCEPT ![h] = [Job("serve", p, device[p].owner, FALSE) EXCEPT !.labels = L]]
  /\ UNCHANGED <<device, idle, login, usedBy, expired, primary, service, token, granted, barred, minted, events>>

\* set_device_services' refusals: a device of the owner has that name, or another serves it.
Refusable(u, p, l) ==
  \/ <<l, 1>> \in NamesOf(u, {})
  \/ \E s \in service : s.user = u /\ s.label = l /\ s.pub # p

\* set_device_services, one transaction: the device's labels are replaced.
SetServices(h) ==
  /\ At(h, "serve")
  /\ LET p == job[h].pub
         u == job[h].user
         kept == {l \in job[h].labels : ~Refusable(u, p, l)}
     IN service' = {s \in service : ~(s.user = u /\ (s.pub = p \/ s.label \in kept))}
                     \cup {[user |-> u, label |-> l, pub |-> p] : l \in kept}
  /\ Finish(h)
  /\ UNCHANGED <<device, idle, login, usedBy, expired, primary, token, granted, barred, minted, requests, events>>

\* A personal-scope device stops registering for IDLE seconds.
GoIdle(p) ==
  /\ p \in Enrolled \ idle /\ events < MaxEvent
  /\ events' = events + 1
  /\ idle' = idle \cup {p}
  /\ UNCHANGED <<device, login, usedBy, expired, primary, service, token, job, granted, barred, minted, requests>>

\* reclaim_idle_personal_devices selects a row; the removal follows.
Reclaim(h, p) ==
  /\ At(h, "idle") /\ requests < MaxRequest /\ p \in idle
  /\ requests' = requests + 1
  /\ job' = [job EXCEPT ![h] = [Job("delete", p, device[p].owner, FALSE) EXCEPT !.victim = p]]
  /\ UNCHANGED <<device, idle, login, usedBy, expired, primary, service, token, granted, barred, minted, events>>

\* The coordinator stops: requests die where they are, the tables stay.
CoordinatorCrash ==
  /\ events < MaxEvent
  /\ events' = events + 1
  /\ job' = [h \in Handler |-> Idle]
  /\ UNCHANGED <<device, idle, login, usedBy, expired, primary, service, token, granted, barred, minted, requests>>

\* A request's future is dropped with its connection, or a later phase of it fails.
Abort(h) ==
  /\ events < MaxEvent /\ ~At(h, "idle")
  /\ events' = events + 1
  /\ Finish(h)
  /\ UNCHANGED <<device, idle, login, usedBy, expired, primary, service, token, granted, barred, minted, requests>>

HandlerStep(h) ==
  \/ ResolveOwner(h) \/ Authenticate(h) \/ ResolveLogin(h) \/ ClaimKey(h) \/ NotEntitled(h)
  \/ \E want \in Want : AllocRead(h, want) \/ RenameRead(h, want)
  \/ AllocInsert(h) \/ EnsurePrimary(h) \/ Supersede(h) \/ Touch(h)
  \/ DeleteRow(h) \/ DeleteLogin(h) \/ DeleteServices(h) \/ Promote(h)
  \/ RenameWrite(h) \/ SetPrimary(h) \/ SetServices(h)

DeviceNext ==
  \/ \E h \in Handler :
       \/ HandlerStep(h) \/ Abort(h)
       \/ \E p \in Pub, k \in Key \cup {NoKey}, old \in Pub \cup {NoPub} : Register(h, p, k, old)
       \/ \E p, q \in Pub, op \in {"rename", "setprimary", "delete"} : Manage(h, p, q, op)
       \/ \E p \in Pub : Reclaim(h, p) \/ \E L \in SUBSET Label : RegisterServices(h, p, L)
  \/ \E p \in Pub, u \in User : Login(p, u)
  \/ \E k \in Key : ExpireKey(k)
  \/ \E p \in Pub : GoIdle(p)
  \/ CoordinatorCrash

DeviceSpec == DeviceInit /\ [][DeviceNext]_deviceVars

-----------------------------------------------------------------------------
\* Rows, bindings and jobs are well formed, and every row's token is one of its own.
DeviceTypeOK ==
  /\ \A p \in Enrolled : /\ device[p].owner \in User /\ device[p].idx \in 1 .. IdxMax
                         /\ device[p].token \in 1 .. minted
                         /\ \A q \in Enrolled \ {p} : device[q].token # device[p].token
  /\ idle \subseteq Enrolled /\ expired \subseteq Key
  /\ login \in [Pub -> User \cup {Nobody}] /\ usedBy \in [Key -> Pub \cup {NoPub}]
  /\ primary \in [User -> Pub \cup {NoPub}]
  /\ \A g \in granted : g.by \in Key => usedBy[g.by] = g.pub
  /\ service \subseteq [user : User, label : Label, pub : Pub]
  /\ token \in [Pub -> 0 .. minted]

\* allocate_device (store.rs:599) reads the free addresses and inserts in two statements:
\* two enrollments never end up with one mesh address.
AddressesUnique == \A p, q \in Enrolled : device[p].idx = device[q].idx => p = q

\* consume_enrollment_key (store.rs:1094): a key enrolls one device, however many requests
\* present it at once and whatever is retried.
OneDevicePerKey ==
  \A a, b \in granted : a.by = b.by /\ a.by \in Key => a.pub = b.pub

\* set_device_services (store.rs:922): a name that answers for one of the owner's devices
\* is not moved to another while the first still lists it.
NoTakeover ==
  [][\A s \in service, t \in service' : s.user = t.user /\ s.label = t.label => s.pub = t.pub]_deviceVars

\* remove_device (store.rs:869): a removed device is out until a login or an enrollment key
\* brings it back; only a register that was past its own check may re-insert it.
RemovedStaysOut == barred \cap Enrolled = {}

\* What the store promises of devices, whichever requests interleave: one address, one key,
\* one owner of a label, and out means out.
DevicesHold ==
  [](DeviceTypeOK /\ AddressesUnique /\ OneDevicePerKey /\ RemovedStaysOut) /\ NoTakeover
=============================================================================
