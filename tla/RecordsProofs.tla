---------------------------- MODULE RecordsProofs ----------------------------
(***************************************************************************)
(* Proofs about what the coordinator records and signs (Devices, Labels,   *)
(* SignCache, Rotation), for any accounts, keys, requests and limits.      *)
(***************************************************************************)
EXTENDS Devices, Labels, Rotation, SignCache, SequenceTheorems,
        WellFoundedInduction, TLAPS

-----------------------------------------------------------------------------
(* Devices: the store under interleaved requests.                          *)

Stage == Registering \cup {"delete", "unbind", "unserve", "promote",
                           "rename", "named", "setprimary", "serve"}

\* A handler's work: who it acts for is known once it is past identification, and a removal
\* or a primary change names a key.
WorkOK(j) ==
  /\ j \in [at : Stage, pub : Pub, user : {j.user}, fresh : {j.fresh}, key : Key \cup {NoKey},
            old : Pub \cup {NoPub}, idx : {j.idx}, name : {j.name}, victim : {j.victim},
            labels : SUBSET Label, entitled : {j.entitled}]
  /\ j.at = "claim" => j.key \in Key
  /\ j.at \notin {"owner", "login", "claim"} => j.user \in User
  /\ j.at \in {"delete", "unbind", "unserve", "promote", "setprimary"} => j.victim \in Pub

JobsOK ==
  /\ job = [h \in Handler |-> job[h]]
  /\ \A h \in Handler : job[h] = Idle \/ WorkOK(job[h])

\* Every row is a row.
RowsOK ==
  /\ device = [p \in Pub |-> device[p]]
  /\ \A p \in Enrolled :
       device[p] = Row(device[p].owner, device[p].idx, device[p].name, device[p].token)
  /\ minted \in Nat

\* The history of grants is typed, so a key nobody consumed granted nothing.
GrantsOK == granted \subseteq [pub : Pub, user : User, by : Key \cup {"login"}]

\* A label of a user answers for one device.
LabelsAnswerOnce ==
  \A s, t \in service : s.user = t.user /\ s.label = t.label => s.pub = t.pub

\* A removed key has no login left, and no register that may still insert it.
BarredIsOut ==
  /\ \A p \in barred \cap Pub : login[p] = Nobody
  /\ \A h \in Handler : job[h].at \in {"auth", "alloc", "insert"} => job[h].pub \notin barred

DeviceIInv ==
  /\ DeviceTypeOK /\ AddressesUnique /\ OneDevicePerKey /\ RemovedStaysOut
  /\ JobsOK /\ RowsOK /\ GrantsOK /\ LabelsAnswerOnce /\ BarredIsOut

\* What the tables say, apart from the handlers.
TablesOK ==
  /\ DeviceTypeOK /\ AddressesUnique /\ OneDevicePerKey /\ RemovedStaysOut
  /\ RowsOK /\ GrantsOK /\ LabelsAnswerOnce
  /\ \A p \in barred \cap Pub : login[p] = Nobody

\* The empty store.
LEMMA DeviceInitInv == DeviceInit => DeviceIInv
<1> SUFFICES ASSUME DeviceInit PROVE DeviceIInv
  OBVIOUS
<1>1. Enrolled = {}
  BY DEF DeviceInit, Enrolled
<1>2. \A h \in Handler : job[h] = Idle
  BY DEF DeviceInit
<1> QED
  BY <1>1, <1>2 DEF DeviceInit, DeviceIInv, DeviceTypeOK, AddressesUnique, OneDevicePerKey,
     RemovedStaysOut, JobsOK, RowsOK, GrantsOK, LabelsAnswerOnce, BarredIsOut, Idle

\* A step that leaves the tables alone keeps what they say.
LEMMA TablesStay ==
  ASSUME DeviceIInv,
         UNCHANGED <<device, idle, login, usedBy, expired, primary, service, token,
                     granted, barred, minted>>
  PROVE  TablesOK'
  BY DEF DeviceIInv, TablesOK, DeviceTypeOK, AddressesUnique, OneDevicePerKey, RemovedStaysOut,
     RowsOK, GrantsOK, LabelsAnswerOnce, BarredIsOut, Enrolled, Row

\* One handler's new work decides for all handlers, when no key becomes barred.
LEMMA OneJobMoves ==
  ASSUME DeviceIInv, TablesOK', barred' \subseteq barred, NEW h \in Handler, NEW j,
         job' = [job EXCEPT ![h] = j],
         j = Idle \/ (WorkOK(j) /\ (j.at \in {"auth", "alloc", "insert"} => j.pub \notin barred'))
  PROVE  DeviceIInv'
<1>1. JobsOK'
  BY DEF DeviceIInv, JobsOK
<1>2. job'[h] = j /\ \A g \in Handler : g # h => job'[g] = job[g]
  BY DEF DeviceIInv, JobsOK
<1>3. Idle.at = "idle"
  BY DEF Idle
<1>4. BarredIsOut'
  BY <1>2, <1>3 DEF BarredIsOut, TablesOK, DeviceIInv
<1> QED BY <1>1, <1>4 DEF DeviceIInv, TablesOK

\* A handler at a stage holds work, and its stage can be moved on.
LEMMA WorkAt ==
  ASSUME DeviceIInv, NEW h \in Handler, job[h].at # "idle"
  PROVE  WorkOK(job[h])
  BY DEF DeviceIInv, JobsOK, Idle

\* Moving a handler on in its stages keeps it well formed.
LEMMA StageMoves ==
  ASSUME NEW j, WorkOK(j), NEW at \in Stage,
         at = "claim" => j.key \in Key,
         at \notin {"owner", "login", "claim"} => j.user \in User,
         at \in {"delete", "unbind", "unserve", "promote", "setprimary"} => j.victim \in Pub
  PROVE  WorkOK([j EXCEPT !.at = at]) /\ [j EXCEPT !.at = at].pub = j.pub
                                     /\ [j EXCEPT !.at = at].at = at
  BY DEF WorkOK

\* The steps that only read the tables: identification, allocation's reads, retirement's lookup.
LEMMA ReadersInv ==
  ASSUME DeviceIInv, NEW h \in Handler,
         \/ ResolveOwner(h) \/ Authenticate(h) \/ ResolveLogin(h) \/ NotEntitled(h) \/ Supersede(h)
         \/ Abort(h)
         \/ \E want \in Want : AllocRead(h, want) \/ RenameRead(h, want)
  PROVE  DeviceIInv'
<1> DEFINE j == job[h]
<1>0. /\ UNCHANGED <<device, idle, login, usedBy, expired, primary, service, token,
                     granted, barred, minted>>
      /\ j.at # "idle"
  BY DEF ResolveOwner, Authenticate, ResolveLogin, NotEntitled, Supersede, Abort, AllocRead,
         RenameRead, At
<1>1. TablesOK' /\ barred' \subseteq barred /\ WorkOK(j)
  BY <1>0, TablesStay, WorkAt
<1>2. j.at \in {"auth", "alloc", "insert"} => j.pub \notin barred'
  BY <1>0 DEF DeviceIInv, BarredIsOut
<1> USE DEF Stage, Registering, At, Go, Finish
<1>3. ASSUME NEW w, job' = [job EXCEPT ![h] = w],
             w = Idle \/ (WorkOK(w) /\ (w.at \in {"auth", "alloc", "insert"} => w.pub \notin barred'))
      PROVE  DeviceIInv'
  BY <1>1, <1>3, OneJobMoves
<1>f. CASE job' = [job EXCEPT ![h] = Idle]
  BY <1>f, <1>3
<1>m. ASSUME NEW at \in Stage, job' = [job EXCEPT ![h].at = at],
             at = "claim" => j.key \in Key,
             at \notin {"owner", "login", "claim"} => j.user \in User,
             at \in {"delete", "unbind", "unserve", "promote", "setprimary"} => j.victim \in Pub,
             at \in {"auth", "alloc", "insert"} => j.pub \notin barred'
      PROVE  DeviceIInv'
  <2> DEFINE w == [j EXCEPT !.at = at]
  <2>1. job' = [job EXCEPT ![h] = w]
    BY <1>m
  <2>2. WorkOK(w) /\ w.pub = j.pub /\ w.at = at
    BY <1>1, <1>m, StageMoves
  <2> HIDE DEF w
  <2> QED BY <2>1, <2>2, <1>3, <1>m
<1>4. CASE ResolveOwner(h)
  <2>1. CASE j.pub \in Enrolled
    <3> DEFINE w == [j EXCEPT !.at = "auth", !.user = device[j.pub].owner, !.fresh = FALSE]
    <3>1. job' = [job EXCEPT ![h] = w]
      BY <1>4, <2>1 DEF ResolveOwner
    <3>2. device[j.pub].owner \in User /\ j.pub \notin barred'
      BY <1>0, <2>1 DEF DeviceIInv, DeviceTypeOK, RemovedStaysOut
    <3>3. WorkOK(w) /\ w.pub = j.pub
      BY <1>1, <3>2 DEF WorkOK
    <3> HIDE DEF w
    <3> QED BY <1>3, <3>1, <3>2, <3>3
  <2>2. CASE j.pub \notin Enrolled
    <3>1. job' = [job EXCEPT ![h].at = "login"]
      BY <1>4, <2>2 DEF ResolveOwner
    <3> QED BY <3>1, <1>m
  <2> QED BY <2>1, <2>2
<1>5. CASE Authenticate(h)
  BY <1>5, <1>1, <1>2, <1>f, <1>m DEF Authenticate, WorkOK
<1>6. CASE ResolveLogin(h)
  <2>1. CASE login[j.pub] # Nobody
    <3> DEFINE w == [j EXCEPT !.at = "alloc", !.user = login[j.pub]]
    <3>1. job' = [job EXCEPT ![h] = w]
      BY <1>6, <2>1 DEF ResolveLogin
    <3>2. login[j.pub] \in User /\ j.pub \notin barred'
      BY <1>0, <1>1, <2>1 DEF DeviceIInv, DeviceTypeOK, BarredIsOut, WorkOK
    <3>3. WorkOK(w) /\ w.pub = j.pub
      BY <1>1, <3>2 DEF WorkOK
    <3> HIDE DEF w
    <3> QED BY <1>3, <3>1, <3>2, <3>3
  <2>2. CASE login[j.pub] = Nobody /\ j.key # NoKey
    <3>1. job' = [job EXCEPT ![h].at = "claim"]
      BY <1>6, <2>2 DEF ResolveLogin
    <3> QED BY <3>1, <1>1, <2>2, <1>m DEF WorkOK
  <2>3. CASE login[j.pub] = Nobody /\ j.key = NoKey
    <3>1. job' = [job EXCEPT ![h] = Idle]
      BY <1>6, <2>3 DEF ResolveLogin
    <3> QED BY <3>1, <1>f
  <2> QED BY <2>1, <2>2, <2>3
<1>7. CASE NotEntitled(h)
  <2> DEFINE w == [j EXCEPT !.at = "supersede", !.entitled = FALSE]
  <2>1. job' = [job EXCEPT ![h] = w]
    BY <1>7 DEF NotEntitled
  <2>2. WorkOK(w) /\ w.at = "supersede"
    BY <1>1, <1>7 DEF WorkOK, NotEntitled
  <2> HIDE DEF w
  <2> QED BY <2>1, <2>2, <1>3
<1>8. CASE Supersede(h)
  <2>0. j.at = "supersede" /\ j.user \in User /\ Enrolled \subseteq Pub
    BY <1>8, <1>1 DEF Supersede, WorkOK, Enrolled
  <2>1. CASE job' = [job EXCEPT ![h].at = "delete", ![h].victim = j.old] /\ j.old \in Enrolled
    <3> DEFINE w == [j EXCEPT !.at = "delete", !.victim = j.old]
    <3>1. job' = [job EXCEPT ![h] = w]
      BY <2>1
    <3>2. WorkOK(w) /\ w.at = "delete"
      BY <1>1, <2>0, <2>1 DEF WorkOK
    <3> HIDE DEF w
    <3> QED BY <3>1, <3>2, <1>3
  <2>2. CASE job' = [job EXCEPT ![h].at = "touch"]
    BY <2>0, <2>2, <1>m
  <2> QED BY <1>8, <2>1, <2>2 DEF Supersede
<1>9. CASE Abort(h)
  BY <1>9, <1>f DEF Abort
<1>10. ASSUME NEW want \in Want, AllocRead(h, want) PROVE DeviceIInv'
  <2>0. j.at = "alloc" /\ j.user \in User
    BY <1>10, <1>1 DEF AllocRead, WorkOK
  <2>1. CASE job' = [job EXCEPT ![h].at = "primary"]
    BY <2>0, <2>1, <1>m
  <2>2. ASSUME NEW i \in FreeIdx, NEW n, job' = [job EXCEPT ![h].at = "insert", ![h].idx = i, ![h].name = n]
        PROVE  DeviceIInv'
    <3> DEFINE w == [j EXCEPT !.at = "insert", !.idx = i, !.name = n]
    <3>1. job' = [job EXCEPT ![h] = w]
      BY <2>2
    <3>2. WorkOK(w) /\ w.pub = j.pub
      BY <1>1, <2>0 DEF WorkOK
    <3> HIDE DEF w
    <3> QED BY <3>1, <3>2, <1>2, <1>3, <2>0
  <2> QED BY <1>10, <1>f, <2>1, <2>2 DEF AllocRead
<1>11. ASSUME NEW want \in Want, RenameRead(h, want) PROVE DeviceIInv'
  <2>1. PICK n : job' = [job EXCEPT ![h].at = "named", ![h].name = n]
    BY <1>11 DEF RenameRead
  <2> DEFINE w == [j EXCEPT !.at = "named", !.name = n]
  <2>2. job' = [job EXCEPT ![h] = w]
    BY <2>1
  <2>3. WorkOK(w) /\ w.at = "named"
    BY <1>1, <1>11 DEF WorkOK, RenameRead
  <2> HIDE DEF w
  <2> QED BY <2>2, <2>3, <1>3
<1> QED BY <1>4, <1>5, <1>6, <1>7, <1>8, <1>9, <1>10, <1>11

\* A request that begins brings well-formed work.
LEMMA StartersInv ==
  ASSUME DeviceIInv, NEW h \in Handler, NEW p \in Pub,
         \/ \E k \in Key \cup {NoKey}, old \in Pub \cup {NoPub} : Register(h, p, k, old)
         \/ \E q \in Pub, op \in {"rename", "setprimary", "delete"} : Manage(h, p, q, op)
         \/ \E L \in SUBSET Label : RegisterServices(h, p, L)
         \/ Reclaim(h, p)
  PROVE  DeviceIInv'
<1>0. UNCHANGED <<device, idle, login, usedBy, expired, primary, service, token,
                  granted, barred, minted>>
  BY DEF Register, Manage, RegisterServices, Reclaim
<1>1. TablesOK' /\ barred' \subseteq barred
  BY <1>0, TablesStay
<1>3. ASSUME NEW w, job' = [job EXCEPT ![h] = w],
             WorkOK(w), w.at \notin {"auth", "alloc", "insert"}
      PROVE  DeviceIInv'
  BY <1>1, <1>3, OneJobMoves
<1>4. p \in Enrolled => device[p].owner \in User
  BY DEF DeviceIInv, DeviceTypeOK
<1>5. ASSUME NEW k \in Key \cup {NoKey}, NEW old \in Pub \cup {NoPub}, Register(h, p, k, old)
      PROVE  DeviceIInv'
  <2> DEFINE w == [Job("owner", p, Nobody, TRUE) EXCEPT !.key = k, !.old = old]
  <2>1. WorkOK(w) /\ w.at = "owner"
    BY DEF WorkOK, Job, Stage, Registering
  <2>2. job' = [job EXCEPT ![h] = w]
    BY <1>5 DEF Register
  <2> HIDE DEF w
  <2> QED BY <2>1, <2>2, <1>3
<1>6. ASSUME NEW q \in Pub, NEW op \in {"rename", "setprimary", "delete"}, Manage(h, p, q, op)
      PROVE  DeviceIInv'
  <2> DEFINE u == device[p].owner
             w == [Job(op, p, u, FALSE) EXCEPT !.victim = q]
  <2>0. u \in User
    BY <1>4, <1>6 DEF Manage
  <2>2. job' = [job EXCEPT ![h] = w]
    BY <1>6 DEF Manage
  <2> HIDE DEF u
  <2>1. WorkOK(w) /\ w.at = op
    BY <2>0 DEF WorkOK, Job, Stage, Registering
  <2> HIDE DEF w
  <2> QED BY <2>1, <2>2, <1>3
<1>7. ASSUME NEW L \in SUBSET Label, RegisterServices(h, p, L) PROVE DeviceIInv'
  <2> DEFINE u == device[p].owner
             w == [Job("serve", p, u, FALSE) EXCEPT !.labels = L]
  <2>0. u \in User
    BY <1>4, <1>7 DEF RegisterServices
  <2>2. job' = [job EXCEPT ![h] = w]
    BY <1>7 DEF RegisterServices
  <2> HIDE DEF u
  <2>1. WorkOK(w) /\ w.at = "serve"
    BY <2>0 DEF WorkOK, Job, Stage, Registering
  <2> HIDE DEF w
  <2> QED BY <2>1, <2>2, <1>3
<1>8. CASE Reclaim(h, p)
  <2> DEFINE u == device[p].owner
             w == [Job("delete", p, u, FALSE) EXCEPT !.victim = p]
  <2>0. u \in User
    BY <1>4, <1>8 DEF Reclaim, DeviceIInv, DeviceTypeOK
  <2>2. job' = [job EXCEPT ![h] = w]
    BY <1>8 DEF Reclaim
  <2> HIDE DEF u
  <2>1. WorkOK(w) /\ w.at = "delete"
    BY <2>0 DEF WorkOK, Job, Stage, Registering
  <2> HIDE DEF w
  <2> QED BY <2>1, <2>2, <1>3
<1> QED BY <1>5, <1>6, <1>7, <1>8

\* A handler that ends, or moves on to a stage its fields are ready for, needs only its tables.
LEMMA HandlerMoves ==
  ASSUME DeviceIInv, NEW h \in Handler, job[h].at # "idle", TablesOK', barred' \subseteq barred,
         \/ Finish(h)
         \/ \E at \in {"primary", "supersede", "touch", "unbind", "unserve", "promote"} :
              /\ Go(h, at)
              /\ job[h].at \notin {"owner", "login", "claim"}
              /\ at \in {"unbind", "unserve", "promote"} => job[h].victim \in Pub
  PROVE  DeviceIInv'
<1>1. CASE Finish(h)
  BY <1>1, OneJobMoves DEF Finish
<1>2. ASSUME NEW at \in {"primary", "supersede", "touch", "unbind", "unserve", "promote"},
             Go(h, at), job[h].at \notin {"owner", "login", "claim"},
             at \in {"unbind", "unserve", "promote"} => job[h].victim \in Pub
      PROVE  DeviceIInv'
  <2> DEFINE w == [job[h] EXCEPT !.at = at]
  <2>1. job' = [job EXCEPT ![h] = w]
    BY <1>2 DEF Go
  <2>2. WorkOK(job[h]) /\ at \in Stage
    BY WorkAt DEF Stage, Registering
  <2>3. WorkOK(w) /\ w.at = at
    BY <1>2, <2>2, StageMoves DEF WorkOK
  <2> HIDE DEF w
  <2> QED BY <2>1, <2>3, OneJobMoves
<1> QED BY <1>1, <1>2

\* The tables that say nothing of rows: logins, consumed and expired keys, primaries, tokens.
LEMMA SmallTables ==
  ASSUME DeviceIInv, UNCHANGED <<device, minted, service, granted, barred>>,
         idle' \subseteq Enrolled, expired' \subseteq Key,
         usedBy' = usedBy,
         login' = login, primary' \in [User -> Pub \cup {NoPub}], token' \in [Pub -> 0 .. minted]
  PROVE  TablesOK'
<1>1. Enrolled' = Enrolled
  BY DEF Enrolled
<1> QED
  BY <1>1 DEF DeviceIInv, TablesOK, DeviceTypeOK, AddressesUnique, OneDevicePerKey, RemovedStaysOut,
     RowsOK, GrantsOK, LabelsAnswerOnce, BarredIsOut, Row

LEMMA EnsurePrimaryInv == ASSUME DeviceIInv, NEW h \in Handler, EnsurePrimary(h) PROVE DeviceIInv'
<1>1. WorkOK(job[h]) /\ job[h].at = "primary"
  BY WorkAt DEF EnsurePrimary, At
<1>2. primary' \in [User -> Pub \cup {NoPub}]
  BY <1>1 DEF EnsurePrimary, WorkOK, DeviceIInv, DeviceTypeOK
<1>3. TablesOK'
  BY <1>2, SmallTables DEF EnsurePrimary, DeviceIInv, DeviceTypeOK
<1> QED BY <1>1, <1>3, HandlerMoves DEF EnsurePrimary

LEMMA TouchInv == ASSUME DeviceIInv, NEW h \in Handler, Touch(h) PROVE DeviceIInv'
<1>1. job[h].at = "touch"
  BY DEF Touch, At
<1>2. token' \in [Pub -> 0 .. minted]
  <2>1. \A q \in Enrolled : device[q].token \in 0 .. minted
    BY DEF DeviceIInv, DeviceTypeOK, RowsOK
  <2> QED BY <2>1 DEF Touch, DeviceIInv, DeviceTypeOK
<1>3. TablesOK'
  BY <1>2, SmallTables DEF Touch, DeviceIInv, DeviceTypeOK
<1> QED BY <1>1, <1>3, HandlerMoves DEF Touch

LEMMA PromoteInv == ASSUME DeviceIInv, NEW h \in Handler, Promote(h) PROVE DeviceIInv'
<1>1. WorkOK(job[h]) /\ job[h].at = "promote"
  BY WorkAt DEF Promote, At
<1>2. primary' \in [User -> Pub \cup {NoPub}]
  BY <1>1 DEF Promote, WorkOK, DeviceIInv, DeviceTypeOK, OwnedBy, Enrolled
<1>3. TablesOK'
  BY <1>2, SmallTables DEF Promote, DeviceIInv, DeviceTypeOK
<1>4. Finish(h) \/ Go(h, "touch")
  BY DEF Promote
<1> QED BY <1>1, <1>3, <1>4, HandlerMoves DEF Promote

LEMMA SetPrimaryInv == ASSUME DeviceIInv, NEW h \in Handler, SetPrimary(h) PROVE DeviceIInv'
<1>1. WorkOK(job[h]) /\ job[h].at = "setprimary"
  BY WorkAt DEF SetPrimary, At
<1>2. primary' \in [User -> Pub \cup {NoPub}]
  BY <1>1 DEF SetPrimary, WorkOK, DeviceIInv, DeviceTypeOK
<1>3. TablesOK'
  BY <1>2, SmallTables DEF SetPrimary, DeviceIInv, DeviceTypeOK
<1> QED BY <1>1, <1>3, HandlerMoves DEF SetPrimary

\* A row appears with an address nobody has and a token of its own; its key is not barred.
LEMMA AllocInsertInv == ASSUME DeviceIInv, NEW h \in Handler, AllocInsert(h) PROVE DeviceIInv'
<1> DEFINE p == job[h].pub
           r == Row(job[h].user, job[h].idx, job[h].name, minted + 1)
<1>1. WorkOK(job[h]) /\ job[h].at = "insert"
  BY WorkAt DEF AllocInsert, At
<1>2. p \in Pub /\ job[h].user \in User /\ p \notin barred
  BY <1>1 DEF WorkOK, DeviceIInv, BarredIsOut
<1>3. CASE Insertable(p, job[h].idx)
  <2>1. device' = [device EXCEPT ![p] = r] /\ minted' = minted + 1 /\ Go(h, "primary")
    BY <1>3 DEF AllocInsert
  <2>2. p \notin Enrolled /\ job[h].idx \in 1 .. IdxMax /\ \A q \in Enrolled : device[q].idx # job[h].idx
    BY <1>3 DEF Insertable, FreeIdx
  <2>3. r # NoRow /\ r.owner = job[h].user /\ r.idx = job[h].idx /\ r.token = minted + 1
        /\ r = Row(r.owner, r.idx, r.name, r.token)
    BY <1>2, DeviceSentinels DEF Row, NoRow
  <2> HIDE DEF r
  <2>4. device'[p] = r /\ \A q \in Pub : q # p => device'[q] = device[q]
    BY <1>2, <2>1 DEF DeviceIInv, RowsOK
  <2>5. Enrolled' = Enrolled \cup {p}
    BY <1>2, <2>3, <2>4 DEF Enrolled
  <2>6. Enrolled \subseteq Pub
    BY DEF Enrolled
  <2>7. DeviceTypeOK'
    <3>1. UNCHANGED <<idle, login, usedBy, expired, primary, service, token, granted, barred>>
      BY DEF AllocInsert
    <3>2. minted \in Nat /\ \A q \in Enrolled : device[q].token \in 1 .. minted
      BY DEF DeviceIInv, DeviceTypeOK, RowsOK
    <3>3. \A q \in Enrolled' : /\ device'[q].owner \in User /\ device'[q].idx \in 1 .. IdxMax
                              /\ device'[q].token \in 1 .. minted'
      BY <1>2, <2>1, <2>2, <2>3, <2>4, <2>5, <2>6, <3>2 DEF DeviceIInv, DeviceTypeOK
    <3>4. \A a, b \in Enrolled' : a # b => device'[a].token # device'[b].token
      BY <2>2, <2>3, <2>4, <2>5, <2>6, <3>2 DEF DeviceIInv, DeviceTypeOK
    <3>5. token' \in [Pub -> 0 .. minted'] /\ idle' \subseteq Enrolled'
      BY <2>1, <2>5, <3>1, <3>2 DEF DeviceIInv, DeviceTypeOK
    <3> QED BY <3>1, <3>3, <3>4, <3>5 DEF DeviceIInv, DeviceTypeOK
  <2>8. AddressesUnique' /\ RemovedStaysOut'
    BY <1>2, <2>2, <2>3, <2>4, <2>5, <2>6 DEF AllocInsert, DeviceIInv, AddressesUnique, RemovedStaysOut
  <2>9. RowsOK'
    <3>1. device' = [q \in Pub |-> device'[q]]
      BY <2>1 DEF DeviceIInv, RowsOK
    <3>2. \A q \in Enrolled' : device'[q] = Row(device'[q].owner, device'[q].idx, device'[q].name, device'[q].token)
      BY <2>3, <2>4, <2>5, <2>6 DEF DeviceIInv, RowsOK
    <3> QED BY <2>1, <3>1, <3>2 DEF DeviceIInv, RowsOK
  <2>10. OneDevicePerKey' /\ GrantsOK' /\ LabelsAnswerOnce' /\ \A q \in barred' \cap Pub : login'[q] = Nobody
    BY DEF AllocInsert, DeviceIInv, OneDevicePerKey, GrantsOK, LabelsAnswerOnce, BarredIsOut
  <2>11. TablesOK' /\ barred' = barred
    BY <2>7, <2>8, <2>9, <2>10 DEF TablesOK, AllocInsert
  <2> QED BY <1>1, <2>1, <2>11, HandlerMoves
<1>4. CASE ~Insertable(p, job[h].idx)
  <2>1. Finish(h) /\ UNCHANGED <<device, idle, login, usedBy, expired, primary, service, token,
                                 granted, barred, minted>>
    BY <1>4 DEF AllocInsert
  <2> QED BY <1>1, <2>1, TablesStay, HandlerMoves
<1> QED BY <1>3, <1>4

\* A rename changes a name and nothing else.
LEMMA RenameWriteInv == ASSUME DeviceIInv, NEW h \in Handler, RenameWrite(h) PROVE DeviceIInv'
<1> DEFINE p == job[h].pub
<1>1. job[h].at = "named" /\ Finish(h)
  BY DEF RenameWrite, At
<1>2. UNCHANGED <<idle, login, usedBy, expired, primary, service, token, granted, barred, minted>>
  BY DEF RenameWrite
<1>3. CASE p \in Enrolled
  <2> DEFINE n == job[h].name
  <2>1. device' = [device EXCEPT ![p].name = n]
    BY <1>3 DEF RenameWrite
  <2>2. Enrolled \subseteq Pub
    BY DEF Enrolled
  <2>3. device[p] = Row(device[p].owner, device[p].idx, device[p].name, device[p].token)
    BY <1>3 DEF DeviceIInv, RowsOK
  <2>4. /\ device' = [q \in Pub |-> device'[q]]
        /\ \A q \in Pub : q # p => device'[q] = device[q]
        /\ device'[p] = [device[p] EXCEPT !.name = n]
    BY <1>3, <2>1, <2>2 DEF DeviceIInv, RowsOK
  <2>5. device'[p] = Row(device[p].owner, device[p].idx, n, device[p].token)
    BY <2>3, <2>4 DEF Row
  <2>6. device'[p].owner = device[p].owner /\ device'[p].idx = device[p].idx
        /\ device'[p].token = device[p].token /\ device'[p].name = n
    BY <2>5 DEF Row
  <2>7. device'[p] # NoRow
    BY <1>3, <2>6, DeviceSentinels DEF NoRow, DeviceIInv, DeviceTypeOK
  <2>8. Enrolled' = Enrolled
    BY <1>3, <2>4, <2>7 DEF Enrolled
  <2>9. \A q \in Enrolled : device'[q].owner = device[q].owner /\ device'[q].idx = device[q].idx
                             /\ device'[q].token = device[q].token
    BY <2>2, <2>4, <2>6
  <2>10. RowsOK'
    BY <1>2, <2>2, <2>4, <2>5, <2>6, <2>8 DEF DeviceIInv, RowsOK
  <2>11. DeviceTypeOK'
    BY <1>2, <2>8, <2>9 DEF DeviceIInv, DeviceTypeOK
  <2>12. AddressesUnique' /\ RemovedStaysOut'
    BY <1>2, <2>8, <2>9 DEF DeviceIInv, AddressesUnique, RemovedStaysOut
  <2>13. OneDevicePerKey' /\ GrantsOK' /\ LabelsAnswerOnce' /\ \A q \in barred' \cap Pub : login'[q] = Nobody
    BY <1>2 DEF DeviceIInv, OneDevicePerKey, GrantsOK, LabelsAnswerOnce, BarredIsOut
  <2>14. TablesOK'
    BY <2>10, <2>11, <2>12, <2>13 DEF TablesOK
  <2> QED BY <1>1, <1>2, <2>14, HandlerMoves
<1>4. CASE p \notin Enrolled
  <2>1. device' = device
    BY <1>4 DEF RenameWrite
  <2> QED BY <1>1, <1>2, <2>1, TablesStay, HandlerMoves
<1> QED BY <1>3, <1>4

\* remove_device's first statement takes the row away, with its idleness.
LEMMA DeleteRowInv == ASSUME DeviceIInv, NEW h \in Handler, DeleteRow(h) PROVE DeviceIInv'
<1> DEFINE v == job[h].victim
<1>1. WorkOK(job[h]) /\ job[h].at = "delete" /\ Go(h, "unbind")
  BY WorkAt DEF DeleteRow, At
<1>2. v \in Pub
  BY <1>1 DEF WorkOK
<1>3. UNCHANGED <<login, usedBy, expired, primary, service, token, granted, barred, minted>>
  BY DEF DeleteRow
<1>4. CASE device[v].owner = job[h].user
  <2>1. device' = [device EXCEPT ![v] = NoRow] /\ idle' = idle \ {v}
    BY <1>4 DEF DeleteRow
  <2>2. /\ device' = [q \in Pub |-> device'[q]]
        /\ \A q \in Pub : q # v => device'[q] = device[q]
        /\ device'[v] = NoRow
    BY <1>2, <2>1 DEF DeviceIInv, RowsOK
  <2>3. Enrolled' = Enrolled \ {v} /\ \A q \in Enrolled' : q \in Pub /\ q # v
    BY <2>2 DEF Enrolled
  <2>4. RowsOK'
    BY <1>3, <2>2, <2>3 DEF DeviceIInv, RowsOK
  <2>5. \A q \in Enrolled' : device'[q] = device[q] /\ q \in Enrolled
    BY <2>2, <2>3
  <2>6. DeviceTypeOK'
    BY <1>3, <2>1, <2>3, <2>5 DEF DeviceIInv, DeviceTypeOK
  <2>7. AddressesUnique' /\ RemovedStaysOut'
    BY <1>3, <2>3, <2>5 DEF DeviceIInv, AddressesUnique, RemovedStaysOut
  <2>8. OneDevicePerKey' /\ GrantsOK' /\ LabelsAnswerOnce' /\ \A q \in barred' \cap Pub : login'[q] = Nobody
    BY <1>3 DEF DeviceIInv, OneDevicePerKey, GrantsOK, LabelsAnswerOnce, BarredIsOut
  <2>9. TablesOK'
    BY <2>4, <2>6, <2>7, <2>8 DEF TablesOK
  <2> QED BY <1>1, <1>2, <1>3, <2>9, HandlerMoves
<1>5. CASE device[v].owner # job[h].user
  <2>1. device' = device /\ idle' = idle
    BY <1>5 DEF DeleteRow
  <2> QED BY <1>1, <1>2, <1>3, <2>1, TablesStay, HandlerMoves
<1> QED BY <1>4, <1>5

\* Its second bars the key, unless a register past its own look at the binding may still insert.
LEMMA DeleteLoginInv == ASSUME DeviceIInv, NEW h \in Handler, DeleteLogin(h) PROVE DeviceIInv'
<1> DEFINE v == job[h].victim
           w == [job[h] EXCEPT !.at = "unserve"]
<1>1. WorkOK(job[h]) /\ job[h].at = "unbind"
  BY WorkAt DEF DeleteLogin, At
<1>2. v \in Pub /\ job' = [job EXCEPT ![h] = w]
  BY <1>1 DEF WorkOK, DeleteLogin, Go
<1>3. WorkOK(w) /\ w.at = "unserve"
  BY <1>1, StageMoves DEF WorkOK, Stage
<1>4. UNCHANGED <<device, idle, usedBy, expired, primary, service, token, granted, minted>>
  BY DEF DeleteLogin
<1>5. login' = [login EXCEPT ![v] = Nobody]
  BY DEF DeleteLogin, Unbound
<1>6. \/ barred' = barred
      \/ barred' = barred \cup {v} /\ v \notin Enrolled /\ ~PastLogin(v)
  BY DEF DeleteLogin
<1>7. Enrolled' = Enrolled
  BY <1>4 DEF Enrolled
<1>8. login' \in [Pub -> User \cup {Nobody}] /\ \A q \in barred' \cap Pub : login'[q] = Nobody
  BY <1>2, <1>5, <1>6 DEF DeviceIInv, DeviceTypeOK, BarredIsOut
<1>9. DeviceTypeOK'
  BY <1>4, <1>7, <1>8 DEF DeviceIInv, DeviceTypeOK
<1>10. RemovedStaysOut'
  BY <1>6, <1>7 DEF DeviceIInv, RemovedStaysOut
<1>11. AddressesUnique' /\ OneDevicePerKey' /\ RowsOK' /\ GrantsOK' /\ LabelsAnswerOnce'
  BY <1>4, <1>7 DEF DeviceIInv, AddressesUnique, OneDevicePerKey, RowsOK, GrantsOK, LabelsAnswerOnce, Row
<1> HIDE DEF w
<1>12. JobsOK' /\ job'[h] = w /\ \A g \in Handler : g # h => job'[g] = job[g]
  BY <1>2, <1>3 DEF DeviceIInv, JobsOK
<1>13. BarredIsOut'
  BY <1>3, <1>6, <1>8, <1>12 DEF DeviceIInv, BarredIsOut, PastLogin
<1> QED BY <1>9, <1>10, <1>11, <1>12, <1>13 DEF DeviceIInv

\* A key is consumed for one public key, so whoever it granted before is that very key.
LEMMA ClaimKeyInv == ASSUME DeviceIInv, NEW h \in Handler, ClaimKey(h) PROVE DeviceIInv'
<1> DEFINE p == job[h].pub
           k == job[h].key
           w == [job[h] EXCEPT !.at = "alloc", !.user = KeyUser[k]]
<1>1. WorkOK(job[h]) /\ job[h].at = "claim"
  BY WorkAt DEF ClaimKey, At
<1>2. p \in Pub /\ k \in Key /\ KeyUser[k] \in User
  BY <1>1, KeyUserType DEF WorkOK
<1>3. UNCHANGED <<device, idle, login, expired, primary, service, token, minted>>
  BY DEF ClaimKey
<1>4. CASE Claimed(k, p)
  <2>1. /\ usedBy' = [usedBy EXCEPT ![k] = IF @ = NoPub THEN p ELSE @]
        /\ job' = [job EXCEPT ![h] = w]
        /\ granted' = granted \cup {[pub |-> p, user |-> KeyUser[k], by |-> k]}
        /\ barred' = barred \ {p}
    BY <1>4 DEF ClaimKey
  <2>2. usedBy[k] \in {p, NoPub}
    BY <1>4 DEF Claimed
  <2>3. usedBy' \in [Key -> Pub \cup {NoPub}] /\ usedBy'[k] = p
    BY <1>2, <2>1, <2>2 DEF DeviceIInv, DeviceTypeOK
  <2>4. \A g \in granted : g.by \in Key => usedBy'[g.by] = g.pub
    <3> SUFFICES ASSUME NEW g \in granted, g.by \in Key PROVE usedBy'[g.by] = g.pub
      OBVIOUS
    <3>1. usedBy[g.by] = g.pub /\ g.pub # NoPub
      BY DeviceSentinels DEF DeviceIInv, DeviceTypeOK, GrantsOK
    <3> QED BY <2>1, <2>2, <2>3, <3>1 DEF DeviceIInv, DeviceTypeOK
  <2> DEFINE grant == [pub |-> p, user |-> KeyUser[k], by |-> k]
  <2>5. grant.by = k /\ grant.pub = p /\ grant \in [pub : Pub, user : User, by : Key \cup {"login"}]
    BY <1>2
  <2> HIDE DEF grant
  <2>6. \A g \in granted' : g.by \in Key => usedBy'[g.by] = g.pub
    BY <2>1, <2>3, <2>4, <2>5 DEF grant
  <2>7. OneDevicePerKey'
    BY <2>6 DEF OneDevicePerKey
  <2>8. GrantsOK'
    BY <2>1, <2>5 DEF DeviceIInv, GrantsOK, grant
  <2>9. Enrolled' = Enrolled
    BY <1>3 DEF Enrolled
  <2>10. DeviceTypeOK'
    BY <1>3, <2>3, <2>6, <2>9 DEF DeviceIInv, DeviceTypeOK
  <2>11. AddressesUnique' /\ RowsOK' /\ LabelsAnswerOnce' /\ RemovedStaysOut'
         /\ \A q \in barred' \cap Pub : login'[q] = Nobody
    BY <1>3, <2>1, <2>9 DEF DeviceIInv, AddressesUnique, RowsOK, LabelsAnswerOnce, RemovedStaysOut, Row,
       BarredIsOut
  <2>12. TablesOK' /\ barred' \subseteq barred /\ p \notin barred'
    BY <2>1, <2>7, <2>8, <2>10, <2>11 DEF TablesOK
  <2>13. WorkOK(w) /\ w.pub = p
    <3> DEFINE u == KeyUser[k]
    <3>1. u \in User
      BY <1>2
    <3> HIDE DEF u
    <3>2. WorkOK([job[h] EXCEPT !.at = "alloc", !.user = u])
          /\ [job[h] EXCEPT !.at = "alloc", !.user = u].pub = job[h].pub
      BY <1>1, <3>1 DEF WorkOK, Stage, Registering
    <3> QED BY <3>2 DEF u
  <2> HIDE DEF w
  <2> QED BY <2>1, <2>12, <2>13, OneJobMoves
<1>5. CASE ~Claimed(k, p)
  <2>1. Finish(h) /\ UNCHANGED <<usedBy, granted, barred>>
    BY <1>5 DEF ClaimKey
  <2> QED BY <1>1, <1>3, <2>1, TablesStay, HandlerMoves
<1> QED BY <1>4, <1>5

\* The service table may shrink or be replaced by a well-formed one.
LEMMA ServiceTables ==
  ASSUME DeviceIInv, service' \subseteq [user : User, label : Label, pub : Pub], LabelsAnswerOnce',
         UNCHANGED <<device, idle, login, usedBy, expired, primary, token, granted, barred, minted>>
  PROVE  TablesOK'
<1>1. Enrolled' = Enrolled
  BY DEF Enrolled
<1> QED
  BY <1>1 DEF DeviceIInv, TablesOK, DeviceTypeOK, AddressesUnique, OneDevicePerKey, RemovedStaysOut,
     RowsOK, GrantsOK, BarredIsOut, Row

LEMMA DeleteServicesInv == ASSUME DeviceIInv, NEW h \in Handler, DeleteServices(h) PROVE DeviceIInv'
<1>1. WorkOK(job[h]) /\ job[h].at = "unserve" /\ Go(h, "promote")
  BY WorkAt DEF DeleteServices, At
<1>2. service' \subseteq service
  BY DEF DeleteServices
<1>3. TablesOK'
  BY <1>2, ServiceTables DEF DeleteServices, DeviceIInv, DeviceTypeOK, LabelsAnswerOnce
<1> QED BY <1>1, <1>3, HandlerMoves DEF DeleteServices, WorkOK

\* What set_device_services leaves: kept labels of the device, and what others had.
LEMMA Replaced ==
  ASSUME DeviceIInv, NEW h \in Handler, SetServices(h)
  PROVE  /\ service' \subseteq [user : User, label : Label, pub : Pub]
         /\ LabelsAnswerOnce'
         /\ \A s \in service, t \in service' : s.user = t.user /\ s.label = t.label => s.pub = t.pub
<1> DEFINE p == job[h].pub
           u == job[h].user
           kept == {l \in job[h].labels : ~Refusable(u, p, l)}
<1>1. p \in Pub /\ u \in User /\ job[h].labels \subseteq Label
  BY WorkAt DEF SetServices, At, WorkOK
<1>2. \A l \in kept, s \in service : s.user = u /\ s.label = l => s.pub = p
  BY DEF Refusable
<1>3. kept \subseteq Label
  BY <1>1
<1>4. service' = {s \in service : ~(s.user = u /\ (s.pub = p \/ s.label \in kept))}
                  \cup {[user |-> u, label |-> l, pub |-> p] : l \in kept}
  BY DEF SetServices
<1> HIDE DEF kept, u, p
<1>5. \A t \in service' : \/ t \in service /\ ~(t.user = u /\ t.label \in kept)
                         \/ /\ t.user = u /\ t.pub = p /\ t.label \in kept
                            /\ t \in [user : User, label : Label, pub : Pub]
  BY <1>1, <1>3, <1>4
<1>6. service \subseteq [user : User, label : Label, pub : Pub] /\ LabelsAnswerOnce
  BY DEF DeviceIInv, DeviceTypeOK
<1>7. service' \subseteq [user : User, label : Label, pub : Pub]
  BY <1>5, <1>6
<1>8. LabelsAnswerOnce'
  BY <1>5, <1>6 DEF LabelsAnswerOnce
<1>9. \A s \in service, t \in service' : s.user = t.user /\ s.label = t.label => s.pub = t.pub
  BY <1>2, <1>5, <1>6 DEF LabelsAnswerOnce
<1> QED BY <1>7, <1>8, <1>9

LEMMA SetServicesInv == ASSUME DeviceIInv, NEW h \in Handler, SetServices(h) PROVE DeviceIInv'
<1>1. job[h].at = "serve" /\ Finish(h)
  BY DEF SetServices, At
<1>2. TablesOK'
  BY Replaced, ServiceTables DEF SetServices
<1> QED BY <1>1, <1>2, HandlerMoves DEF SetServices

\* A login readmits its key; it grants nothing by an enrollment key.
LEMMA LoginInv == ASSUME DeviceIInv, NEW p \in Pub, NEW u \in User, Login(p, u) PROVE DeviceIInv'
<1> DEFINE grant == [pub |-> p, user |-> u, by |-> "login"]
<1>1. /\ UNCHANGED <<device, idle, usedBy, expired, primary, service, token, job, minted>>
      /\ login' = [login EXCEPT ![p] = u] /\ barred' = barred \ {p}
      /\ granted' = granted \cup {grant}
  BY DEF Login
<1>2. grant.by \notin Key /\ grant \in [pub : Pub, user : User, by : Key \cup {"login"}]
  BY DeviceSentinels
<1> HIDE DEF grant
<1>3. Enrolled' = Enrolled
  BY <1>1 DEF Enrolled
<1>4. login' \in [Pub -> User \cup {Nobody}] /\ \A q \in barred' \cap Pub : login'[q] = Nobody
  BY <1>1 DEF DeviceIInv, DeviceTypeOK, BarredIsOut
<1>5. \A g \in granted' : g.by \in Key => usedBy'[g.by] = g.pub
  BY <1>1, <1>2 DEF DeviceIInv, DeviceTypeOK
<1>6. DeviceTypeOK' /\ OneDevicePerKey' /\ GrantsOK'
  BY <1>1, <1>2, <1>3, <1>4, <1>5 DEF DeviceIInv, DeviceTypeOK, OneDevicePerKey, GrantsOK
<1> QED
  BY <1>1, <1>3, <1>4, <1>6 DEF DeviceIInv, AddressesUnique, RemovedStaysOut, JobsOK, RowsOK,
     LabelsAnswerOnce, BarredIsOut, Row, WorkOK

\* Expiry, idleness and a crash of the coordinator.
LEMMA OthersInv ==
  ASSUME DeviceIInv, (\E k \in Key : ExpireKey(k)) \/ (\E p \in Pub : GoIdle(p)) \/ CoordinatorCrash
  PROVE  DeviceIInv'
<1>1. ASSUME NEW k \in Key, ExpireKey(k) PROVE DeviceIInv'
  <2>1. TablesOK'
    BY <1>1, SmallTables DEF ExpireKey, DeviceIInv, DeviceTypeOK
  <2> QED BY <1>1, <2>1 DEF ExpireKey, DeviceIInv, TablesOK, JobsOK, BarredIsOut
<1>2. ASSUME NEW p \in Pub, GoIdle(p) PROVE DeviceIInv'
  <2>1. TablesOK'
    BY <1>2, SmallTables DEF GoIdle, DeviceIInv, DeviceTypeOK
  <2> QED BY <1>2, <2>1 DEF GoIdle, DeviceIInv, TablesOK, JobsOK, BarredIsOut
<1>3. CASE CoordinatorCrash
  <2>1. TablesOK'
    BY <1>3, TablesStay DEF CoordinatorCrash
  <2>2. \A h \in Handler : job'[h] = Idle /\ job'[h].at = "idle"
    BY <1>3 DEF CoordinatorCrash, Idle
  <2>3. job' = [h \in Handler |-> job'[h]]
    BY <1>3 DEF CoordinatorCrash
  <2> QED BY <2>1, <2>2, <2>3 DEF DeviceIInv, TablesOK, JobsOK, BarredIsOut
<1> QED BY <1>1, <1>2, <1>3

\* Every step of every request keeps the invariant.
LEMMA DeviceNextInv == DeviceIInv /\ [DeviceNext]_deviceVars => DeviceIInv'
<1> SUFFICES ASSUME DeviceIInv, [DeviceNext]_deviceVars PROVE DeviceIInv'
  OBVIOUS
<1>1. CASE UNCHANGED deviceVars
  <2>1. TablesOK' /\ job' = job /\ barred' = barred
    BY <1>1, TablesStay DEF deviceVars
  <2> QED BY <2>1 DEF DeviceIInv, TablesOK, JobsOK, BarredIsOut
<1>2. ASSUME NEW h \in Handler, HandlerStep(h) \/ Abort(h) PROVE DeviceIInv'
  BY <1>2, ReadersInv, ClaimKeyInv, AllocInsertInv, EnsurePrimaryInv, TouchInv, DeleteRowInv,
     DeleteLoginInv, DeleteServicesInv, PromoteInv, RenameWriteInv, SetPrimaryInv, SetServicesInv
     DEF HandlerStep
<1> QED BY <1>1, <1>2, StartersInv, LoginInv, OthersInv DEF DeviceNext

\* Only set_device_services and a removal change the labels; neither moves a live one.
LEMMA LabelsStayPut ==
  ASSUME DeviceIInv, [DeviceNext]_deviceVars
  PROVE  \A s \in service, t \in service' : s.user = t.user /\ s.label = t.label => s.pub = t.pub
<1>1. ASSUME service' \subseteq service
      PROVE  \A s \in service, t \in service' : s.user = t.user /\ s.label = t.label => s.pub = t.pub
  BY <1>1 DEF DeviceIInv, LabelsAnswerOnce
<1>2. (\E h \in Handler : SetServices(h)) \/ service' \subseteq service
  <2>1. ASSUME NEW h \in Handler, HandlerStep(h) PROVE SetServices(h) \/ service' \subseteq service
    <3>1. CASE \/ ResolveOwner(h) \/ Authenticate(h) \/ ResolveLogin(h) \/ ClaimKey(h) \/ NotEntitled(h)
               \/ AllocInsert(h) \/ EnsurePrimary(h) \/ Supersede(h) \/ Touch(h)
      BY <3>1 DEF ResolveOwner, Authenticate, ResolveLogin, ClaimKey, NotEntitled, AllocInsert,
         EnsurePrimary, Supersede, Touch
    <3>2. CASE \E want \in Want : AllocRead(h, want) \/ RenameRead(h, want)
      BY <3>2 DEF AllocRead, RenameRead
    <3>3. CASE DeleteRow(h) \/ DeleteLogin(h) \/ DeleteServices(h) \/ Promote(h) \/ RenameWrite(h) \/ SetPrimary(h)
      BY <3>3 DEF DeleteRow, DeleteLogin, DeleteServices, Promote, RenameWrite, SetPrimary
    <3> QED BY <2>1, <3>1, <3>2, <3>3 DEF HandlerStep
  <2>2. ASSUME NEW h \in Handler,
               \/ Abort(h)
               \/ \E p \in Pub, k \in Key \cup {NoKey}, old \in Pub \cup {NoPub} : Register(h, p, k, old)
               \/ \E p, q \in Pub, op \in {"rename", "setprimary", "delete"} : Manage(h, p, q, op)
               \/ \E p \in Pub : Reclaim(h, p) \/ \E L \in SUBSET Label : RegisterServices(h, p, L)
        PROVE  service' = service
    BY <2>2 DEF Abort, Register, Manage, Reclaim, RegisterServices
  <2>3. ASSUME \/ \E p \in Pub, u \in User : Login(p, u)
               \/ \E k \in Key : ExpireKey(k)
               \/ \E p \in Pub : GoIdle(p)
               \/ CoordinatorCrash
        PROVE  service' = service
    BY <2>3 DEF Login, ExpireKey, GoIdle, CoordinatorCrash
  <2>4. CASE UNCHANGED deviceVars
    BY <2>4 DEF deviceVars
  <2> QED BY <2>1, <2>2, <2>3, <2>4 DEF DeviceNext
<1> QED BY <1>1, <1>2, Replaced

(***************************************************************************)
(* The store's promises, for any accounts, keys, requests and mesh range:  *)
(* whichever statements of the handlers interleave and wherever a request  *)
(* dies, no two rows share an address, an enrollment key enrolls one       *)
(* device, a removed key stays out until it is authorised again, and a     *)
(* service label is never moved to another device while it answers.        *)
(***************************************************************************)
THEOREM DeviceStoreHolds == DeviceSpec => DevicesHold
<1>1. DeviceIInv => DeviceTypeOK /\ AddressesUnique /\ OneDevicePerKey /\ RemovedStaysOut
  BY DEF DeviceIInv
<1>2. DeviceIInv /\ [DeviceNext]_deviceVars
        => [\A s \in service, t \in service' : s.user = t.user /\ s.label = t.label => s.pub = t.pub]_deviceVars
  BY LabelsStayPut
<1> QED BY <1>1, <1>2, DeviceInitInv, DeviceNextInv, PTL DEF DeviceSpec, DevicesHold, NoTakeover

-----------------------------------------------------------------------------
(* Labels: allocation under the table's two constraints.                   *)

\* A build that inserts tries a suffix there is, and one that looks up may still try the next.
LabelIInv ==
  /\ LabelsSafe
  /\ labels = [u \in LabelUser |-> labels[u]] /\ replies = [r \in LabelReq |-> replies[r]]
  /\ asks \in [LabelReq -> {"lookup", "insert", "fallback", "done", "failed"} \X Nat]
  /\ \A r \in LabelReq : /\ asks[r][1] = "insert" => asks[r][2] \in 1 .. MaxSuffix
                         /\ asks[r][1] = "lookup" => asks[r][2] \in 0 .. MaxSuffix

LEMMA LabelInitInv == LabelInit => LabelIInv
  BY AskerType DEF LabelInit, LabelIInv, LabelsSafe, LabelTypeOK, LabelsUnique, LabelsAgree, NoLabel

\* A label that no constraint refuses goes to a user who had none, and to nobody else.
LEMMA StoredInv ==
  ASSUME LabelIInv, NEW r \in LabelReq, NEW l, Stored(r, l), ~Taken(Asker[r], l), l # NoLabel,
         l \in {Fallback(Asker[r])} \cup {Candidate(q, n) : q \in LabelReq, n \in 1 .. MaxSuffix}
  PROVE  LabelIInv'
<1> DEFINE u == Asker[r]
<1>1. u \in LabelUser /\ labels[u] = NoLabel /\ \A v \in LabelUser : labels[v] # l
  BY AskerType DEF Taken
<1>2. /\ labels' = [labels EXCEPT ![u] = l] /\ replies' = [replies EXCEPT ![r] = l]
      /\ asks' = [asks EXCEPT ![r] = <<"done", asks[r][2]>>]
  BY DEF Stored
<1> HIDE DEF u
<1>3. labels'[u] = l /\ \A v \in LabelUser : v # u => labels'[v] = labels[v]
  BY <1>1, <1>2 DEF LabelIInv
<1>4. asks[r][2] \in 0 .. MaxSuffix + 1 /\ asks[r][2] \in Nat
  BY DEF LabelIInv, LabelsSafe, LabelTypeOK
<1>5. asks'[r][1] = "done" /\ asks'[r][2] = asks[r][2] /\ \A q \in LabelReq : q # r => asks'[q] = asks[q]
  BY <1>2 DEF LabelIInv
<1>6. LabelTypeOK'
  <2>1. \A v \in LabelUser :
          labels'[v] \in {NoLabel, Fallback(v)} \cup {Candidate(q, n) : q \in LabelReq, n \in 1 .. MaxSuffix}
    BY <1>3 DEF LabelIInv, LabelsSafe, LabelTypeOK, u
  <2> QED BY <1>4, <1>5, <2>1 DEF LabelIInv, LabelsSafe, LabelTypeOK
<1>7. LabelsUnique'
  BY <1>1, <1>3 DEF LabelIInv, LabelsSafe, LabelsUnique
<1>8. LabelsAgree'
  <2> SUFFICES ASSUME NEW q \in LabelReq PROVE replies'[q] \in {NoLabel, labels'[Asker[q]]}
    BY DEF LabelsAgree
  <2>1. replies[q] \in {NoLabel, labels[Asker[q]]} /\ Asker[q] \in LabelUser
    BY AskerType DEF LabelIInv, LabelsSafe, LabelsAgree
  <2> QED BY <1>1, <1>2, <1>3, <2>1 DEF LabelIInv, u
<1>9. asks' \in [LabelReq -> {"lookup", "insert", "fallback", "done", "failed"} \X Nat]
  BY <1>2, <1>4 DEF LabelIInv
<1> QED BY <1>2, <1>5, <1>6, <1>7, <1>8, <1>9 DEF LabelIInv, LabelsSafe

\* A step that stores nothing and answers only with the label that stands.
LEMMA AskMovesInv ==
  ASSUME LabelIInv, NEW r \in LabelReq, labels' = labels,
         NEW at \in {"lookup", "insert", "fallback", "done", "failed"}, NEW n \in 0 .. MaxSuffix + 1,
         asks' = [asks EXCEPT ![r] = <<at, n>>],
         at = "insert" => n \in 1 .. MaxSuffix, at = "lookup" => n \in 0 .. MaxSuffix,
         \/ replies' = replies
         \/ \E l \in {NoLabel, labels[Asker[r]]} : replies' = [replies EXCEPT ![r] = l]
  PROVE  LabelIInv'
<1>1. asks'[r] = <<at, n>> /\ \A q \in LabelReq : q # r => asks'[q] = asks[q]
  BY DEF LabelIInv
<1>2. n \in Nat
  BY AskerType
<1>3. asks' \in [LabelReq -> {"lookup", "insert", "fallback", "done", "failed"} \X Nat]
  BY <1>2 DEF LabelIInv
<1>4. \A q \in LabelReq : /\ asks'[q][2] \in 0 .. MaxSuffix + 1
                          /\ asks'[q][1] = "insert" => asks'[q][2] \in 1 .. MaxSuffix
                          /\ asks'[q][1] = "lookup" => asks'[q][2] \in 0 .. MaxSuffix
  BY <1>1 DEF LabelIInv, LabelsSafe, LabelTypeOK
<1>5. LabelTypeOK' /\ LabelsUnique'
  BY <1>4 DEF LabelIInv, LabelsSafe, LabelTypeOK, LabelsUnique
<1>6. LabelsAgree' /\ replies' = [q \in LabelReq |-> replies'[q]]
  BY DEF LabelIInv, LabelsSafe, LabelsAgree
<1> QED BY <1>3, <1>4, <1>5, <1>6 DEF LabelIInv, LabelsSafe

LEMMA LabelNextInv == LabelIInv /\ [LabelNext]_labelVars => LabelIInv'
<1> SUFFICES ASSUME LabelIInv, [LabelNext]_labelVars PROVE LabelIInv'
  OBVIOUS
<1>0. \A r \in LabelReq : asks[r][2] \in 0 .. MaxSuffix + 1 /\ asks[r] = <<asks[r][1], asks[r][2]>>
  BY DEF LabelIInv, LabelsSafe, LabelTypeOK
<1>1. ASSUME NEW r \in LabelReq, Lookup(r) PROVE LabelIInv'
  <2>0. asks[r][2] \in 0 .. MaxSuffix /\ labels' = labels
    BY <1>1 DEF Lookup, LabelIInv
  <2>1. CASE labels[Asker[r]] # NoLabel
    <3>1. asks' = [asks EXCEPT ![r] = <<"done", asks[r][2]>>]
          /\ replies' = [replies EXCEPT ![r] = labels[Asker[r]]]
      BY <1>1, <2>1 DEF Lookup
    <3> QED BY <1>0, <2>0, <3>1, AskMovesInv
  <2>2. CASE labels[Asker[r]] = NoLabel
    <3> DEFINE n == asks[r][2]
               at == IF n < MaxSuffix THEN "insert" ELSE "fallback"
    <3>1. asks' = [asks EXCEPT ![r] = <<at, n + 1>>] /\ replies' = replies
      BY <1>1, <2>2 DEF Lookup, NextTry
    <3>2. n + 1 \in 0 .. MaxSuffix + 1 /\ (at = "insert" => n + 1 \in 1 .. MaxSuffix)
          /\ at \in {"insert", "fallback"}
      BY <2>0, AskerType
    <3> HIDE DEF n, at
    <3> QED BY <2>0, <3>1, <3>2, AskMovesInv
  <2> QED BY <2>1, <2>2
<1>2. ASSUME NEW r \in LabelReq, Insert(r) PROVE LabelIInv'
  <2> DEFINE l == Candidate(r, asks[r][2])
  <2>0. asks[r][2] \in 1 .. MaxSuffix
    BY <1>2 DEF Insert, LabelIInv
  <2>1. CASE Taken(Asker[r], l)
    <3>1. asks' = [asks EXCEPT ![r] = <<"lookup", asks[r][2]>>] /\ labels' = labels /\ replies' = replies
      BY <1>2, <2>1 DEF Insert
    <3>2. asks[r][2] \in 0 .. MaxSuffix
      BY <2>0, AskerType
    <3> QED BY <1>0, <3>1, <3>2, AskMovesInv
  <2>2. CASE ~Taken(Asker[r], l)
    <3>1. Stored(r, l)
      BY <1>2, <2>2 DEF Insert
    <3>2. l # NoLabel
      BY <2>0, AskerType DEF Candidate, NoLabel
    <3> QED BY <2>0, <2>2, <3>1, <3>2, StoredInv
  <2> QED BY <2>1, <2>2
<1>3. ASSUME NEW r \in LabelReq, InsertFallback(r) PROVE LabelIInv'
  <2> DEFINE l == Fallback(Asker[r])
  <2>1. CASE Taken(Asker[r], l)
    <3>1. asks' = [asks EXCEPT ![r] = <<"failed", asks[r][2]>>] /\ labels' = labels /\ replies' = replies
      BY <1>3, <2>1 DEF InsertFallback
    <3> QED BY <1>0, <3>1, AskMovesInv
  <2>2. CASE ~Taken(Asker[r], l)
    <3>1. Stored(r, l)
      BY <1>3, <2>2 DEF InsertFallback
    <3>2. l # NoLabel
      BY DEF Fallback, NoLabel
    <3> QED BY <2>2, <3>1, <3>2, StoredInv
  <2> QED BY <2>1, <2>2
<1>4. ASSUME NEW r \in LabelReq, AskAgain(r) PROVE LabelIInv'
  <2>1. 0 \in 0 .. MaxSuffix /\ 0 \in 0 .. MaxSuffix + 1
    BY AskerType
  <2> QED BY <1>4, <2>1, AskMovesInv DEF AskAgain
<1>5. CASE UNCHANGED labelVars
  BY <1>5 DEF labelVars, LabelIInv, LabelsSafe, LabelTypeOK, LabelsUnique, LabelsAgree
<1> QED BY <1>1, <1>2, <1>3, <1>4, <1>5 DEF LabelNext

(***************************************************************************)
(* user_label for any users, names and suffixes: two users never share a   *)
(* label, and every build of a user is given the one label the table holds *)
(* for them, whichever first registers race.                               *)
(***************************************************************************)
THEOREM LabelAllocationIsSafe == LabelSpec => []LabelsSafe
<1>1. LabelIInv => LabelsSafe
  BY DEF LabelIInv
<1> QED BY <1>1, LabelInitInv, LabelNextInv, PTL DEF LabelSpec

-----------------------------------------------------------------------------
(* SignCache: a cached attestation is one's own, lives, and is signed once. *)

Blob == [at : Nat, ident : Nat, expires : Nat]

\* A blob that was signed: no earlier than its stamp.
SignedBlob(e) == e # NoEntry => e.expires >= e.at + Ttl /\ e.at <= clock

ViewOK(w) ==
  /\ w \in [at : {"look", "wait", "sign", "served"}, dev : SignedDev, now : Nat, ident : Nat, blob : Blob]
  /\ w.now <= clock

\* The build asks for another identity, or a reuse window after the entry, or there is none.
Stale(w, e) == e = NoEntry \/ Since(w.now, e.at) >= Reuse \/ e.ident # w.ident

SignIInv ==
  /\ clock \in Nat /\ lastPrune \in Nat /\ ident \in [SignedDev -> Nat]
  /\ entry \in [SignedDev -> Blob] /\ \A d \in SignedDev : SignedBlob(entry[d])
  /\ view = [v \in Viewer |-> view[v]] /\ \A v \in Viewer : view[v] = NoView \/ ViewOK(view[v])
  /\ \A v \in Viewer : view[v].at = "sign" <=> signHolder = v
  /\ \A v \in Viewer : view[v].at = "sign" => Stale(view[v], entry[view[v].dev])
  /\ ServedIsMine /\ ServedLives

\* The reuse window is at most half a lifetime.
LEMMA ReuseHalf == Reuse \in Nat /\ Reuse > 0 /\ 2 * (Reuse - 1) <= Ttl
<1>1. Ttl \div 2 \in Nat /\ 2 * (Ttl \div 2) <= Ttl
  BY SignAssumption
<1> QED BY <1>1, SignAssumption DEF Reuse

LEMMA SignInitInv == SignInit => SignIInv
  BY NoHolderIsNobody DEF SignInit, SignIInv, Blob, SignedBlob, NoEntry, NoView, ServedIsMine, ServedLives

\* What is fresh to a build is its own and keeps half its lifetime.
LEMMA FreshServes ==
  ASSUME SignIInv, NEW v \in Viewer, ViewOK(view[v]), Fresh(v)
  PROVE  /\ entry[view[v].dev] \in Blob
         /\ entry[view[v].dev].ident = view[v].ident
         /\ 2 * Since(entry[view[v].dev].expires, view[v].now) >= Ttl
<1> DEFINE e == entry[view[v].dev]
<1>1. e \in Blob /\ e # NoEntry /\ SignedBlob(e) /\ e.ident = view[v].ident
      /\ Since(view[v].now, e.at) < Reuse /\ view[v].now \in Nat
  BY DEF SignIInv, ViewOK, Fresh
<1>2. e.at \in Nat /\ e.expires \in Nat /\ e.expires >= e.at + Ttl
  BY <1>1 DEF SignedBlob, Blob
<1> HIDE DEF e
<1>3. 2 * Since(e.expires, view[v].now) >= Ttl
  BY <1>1, <1>2, ReuseHalf, SignAssumption DEF Since
<1> QED BY <1>1, <1>3 DEF e

\* Serving a build a blob that is its own and lives, the lock free of it.
LEMMA ServeInv ==
  ASSUME SignIInv, NEW v \in Viewer, NEW e \in Blob, ViewOK(view[v]), view' = Serve(v, e),
         e.ident = view[v].ident, 2 * Since(e.expires, view[v].now) >= Ttl,
         UNCHANGED <<clock, ident>>, lastPrune' \in Nat,
         entry' \in [SignedDev -> Blob], \A d \in SignedDev : SignedBlob(entry'[d]),
         signHolder' = IF signHolder = v THEN NoHolder ELSE signHolder,
         entry' = entry \/ signHolder = v
  PROVE  SignIInv'
<1> DEFINE w == [view[v] EXCEPT !.at = "served", !.blob = e]
<1>1. view' = [view EXCEPT ![v] = w]
  BY DEF Serve
<1>2. ViewOK(w) /\ w.at = "served" /\ w.blob = e /\ w.ident = view[v].ident /\ w.now = view[v].now
  BY DEF ViewOK, Blob
<1> HIDE DEF w
<1>3. view'[v] = w /\ (\A u \in Viewer : u # v => view'[u] = view[u]) /\ view' = [u \in Viewer |-> view'[u]]
  BY <1>1 DEF SignIInv
<1>4. ServedIsMine' /\ ServedLives'
  BY <1>2, <1>3 DEF SignIInv, ServedIsMine, ServedLives
<1>5. \A u \in Viewer : (view[u] = NoView \/ ViewOK(view[u]))'
  BY <1>2, <1>3 DEF SignIInv, ViewOK
<1>6. \A u \in Viewer : view'[u].at = "sign" <=> signHolder' = u
  BY <1>2, <1>3, NoHolderIsNobody DEF SignIInv
<1>7. \A u \in Viewer : view'[u].at = "sign" => Stale(view'[u], entry'[view'[u].dev])
  BY <1>2, <1>3 DEF SignIInv
<1>8. \A d \in SignedDev : SignedBlob(entry[d])'
  BY DEF SignedBlob
<1> QED BY <1>3, <1>4, <1>5, <1>6, <1>7, <1>8 DEF SignIInv, Stale

\* A step that touches neither cache nor lock, and no build but one that does not sign.
LEMMA ViewMovesInv ==
  ASSUME SignIInv, NEW v \in Viewer, NEW w, view' = [view EXCEPT ![v] = w],
         w = NoView \/ ViewOK(w), w.at \notin {"sign", "served"},
         UNCHANGED <<clock, ident, entry, lastPrune>>,
         signHolder' = IF signHolder = v THEN NoHolder ELSE signHolder
  PROVE  SignIInv'
<1>1. view'[v] = w /\ (\A u \in Viewer : u # v => view'[u] = view[u]) /\ view' = [u \in Viewer |-> view'[u]]
  BY DEF SignIInv
<1>2. ServedIsMine' /\ ServedLives'
  BY <1>1 DEF SignIInv, ServedIsMine, ServedLives
<1>3. \A u \in Viewer : (view[u] = NoView \/ ViewOK(view[u]))'
  BY <1>1 DEF SignIInv, ViewOK
<1>4. \A u \in Viewer : view'[u].at = "sign" <=> signHolder' = u
  BY <1>1, NoHolderIsNobody DEF SignIInv
<1> QED BY <1>1, <1>2, <1>3, <1>4 DEF SignIInv, SignedBlob, Stale

\* A build that is doing something has a view.
LEMMA ViewAt ==
  ASSUME SignIInv, NEW v \in Viewer, view[v].at # "idle"
  PROVE  ViewOK(view[v])
  BY DEF SignIInv, NoView

LEMMA SignStepInv == ASSUME SignIInv, NEW v \in Viewer, Sign(v) PROVE SignIInv'
<1> DEFINE w == view[v]
           e == [at |-> w.now, ident |-> w.ident, expires |-> clock + Ttl]
           sweep == Since(w.now, lastPrune) >= Reuse
           kept == IF sweep THEN [d \in SignedDev |-> IF Since(w.now, entry[d].at) < Reuse THEN entry[d] ELSE NoEntry]
                          ELSE entry
<1>1. /\ ViewOK(w) /\ signHolder = v /\ signHolder' = NoHolder
      /\ w.now \in Nat /\ w.ident \in Nat /\ w.now <= clock /\ w.dev \in SignedDev
      /\ clock \in Nat
  BY ViewAt DEF Sign, SignIInv, ViewOK
<1>2. /\ entry' = [kept EXCEPT ![w.dev] = e] /\ view' = Serve(v, e)
      /\ lastPrune' = (IF sweep THEN w.now ELSE lastPrune) /\ UNCHANGED <<clock, ident>>
  BY DEF Sign
<1>3. e \in Blob /\ e.expires = clock + Ttl /\ e.ident = w.ident /\ e.at = w.now
  BY <1>1, SignAssumption DEF Blob
<1>4. kept \in [SignedDev -> Blob] /\ \A d \in SignedDev : SignedBlob(kept[d])
  BY DEF SignIInv, Blob, NoEntry, SignedBlob
<1>5. lastPrune' \in Nat
  BY <1>1, <1>2 DEF SignIInv
<1> HIDE DEF e, kept, w
<1>6. SignedBlob(e) /\ 2 * Since(e.expires, w.now) >= Ttl
  BY <1>1, <1>3, SignAssumption DEF SignedBlob, Since
<1>7. entry' \in [SignedDev -> Blob] /\ \A d \in SignedDev : SignedBlob(entry'[d])
  BY <1>1, <1>2, <1>3, <1>4, <1>6
<1> QED BY <1>1, <1>2, <1>3, <1>5, <1>6, <1>7, ServeInv DEF w

LEMMA SignNextInv == SignIInv /\ [SignNext]_signVars => SignIInv'
<1> SUFFICES ASSUME SignIInv, [SignNext]_signVars PROVE SignIInv'
  OBVIOUS
<1>1. CASE Tick
  <2>1. clock' = clock + 1 /\ UNCHANGED <<ident, entry, lastPrune, signHolder, view>>
    BY <1>1 DEF Tick
  <2>2. clock \in Nat /\ \A n \in Nat : n <= clock => n <= clock'
    BY <2>1 DEF SignIInv
  <2>3. \A d \in SignedDev : SignedBlob(entry[d])'
    BY <2>1, <2>2 DEF SignIInv, SignedBlob, Blob
  <2>4. \A v \in Viewer : (view[v] = NoView \/ ViewOK(view[v]))'
    BY <2>1, <2>2 DEF SignIInv, ViewOK
  <2> QED BY <2>1, <2>2, <2>3, <2>4 DEF SignIInv, ServedIsMine, ServedLives, Stale
<1>2. ASSUME NEW d \in SignedDev, ChangeIdentity(d) PROVE SignIInv'
  BY <1>2 DEF ChangeIdentity, SignIInv, SignedBlob, ViewOK, ServedIsMine, ServedLives, Stale
<1>3. ASSUME NEW v \in Viewer, NEW d \in SignedDev, Ask(v, d) PROVE SignIInv'
  <2> DEFINE w == [at |-> "look", dev |-> d, now |-> clock, ident |-> ident[d], blob |-> NoEntry]
  <2>1. view' = [view EXCEPT ![v] = w] /\ signHolder # v
    BY <1>3 DEF Ask, SignIInv
  <2>2. ViewOK(w) /\ w.at = "look"
    BY DEF ViewOK, SignIInv, Blob, NoEntry
  <2> HIDE DEF w
  <2> QED BY <1>3, <2>1, <2>2, ViewMovesInv DEF Ask
<1>4. ASSUME NEW v \in Viewer, Look(v) PROVE SignIInv'
  <2>1. ViewOK(view[v]) /\ signHolder # v /\ UNCHANGED <<clock, ident, entry, lastPrune, signHolder>>
    BY <1>4, ViewAt DEF Look, SignIInv
  <2>2. CASE Fresh(v)
    <3>1. view' = Serve(v, entry[view[v].dev])
      BY <1>4, <2>2 DEF Look
    <3> QED BY <2>1, <2>2, <3>1, FreshServes, ServeInv DEF SignIInv
  <2>3. CASE ~Fresh(v)
    <3> DEFINE w == [view[v] EXCEPT !.at = "wait"]
    <3>1. view' = [view EXCEPT ![v] = w]
      BY <1>4, <2>3 DEF Look
    <3>2. ViewOK(w) /\ w.at = "wait"
      BY <2>1 DEF ViewOK
    <3> HIDE DEF w
    <3> QED BY <2>1, <3>1, <3>2, ViewMovesInv
  <2> QED BY <2>2, <2>3
<1>5. ASSUME NEW v \in Viewer, Acquire(v) PROVE SignIInv'
  <2>1. ViewOK(view[v]) /\ view[v].at = "wait" /\ signHolder = NoHolder /\ UNCHANGED <<clock, ident, entry, lastPrune>>
    BY <1>5, ViewAt DEF Acquire
  <2>2. CASE Fresh(v)
    <3>1. view' = Serve(v, entry[view[v].dev]) /\ signHolder' = signHolder
      BY <1>5, <2>2 DEF Acquire, SignRecheck
    <3> QED BY <2>1, <2>2, <3>1, FreshServes, ServeInv, NoHolderIsNobody DEF SignIInv
  <2>3. CASE ~Fresh(v)
    <3> DEFINE w == [view[v] EXCEPT !.at = "sign"]
    <3>1. view' = [view EXCEPT ![v] = w] /\ signHolder' = v
      BY <1>5, <2>3 DEF Acquire, SignRecheck
    <3>2. ViewOK(w) /\ w.at = "sign" /\ w.now = view[v].now /\ w.dev = view[v].dev /\ w.ident = view[v].ident
      BY <2>1 DEF ViewOK
    <3>3. Stale(w, entry[w.dev])
      <4>1. entry[w.dev] \in Blob /\ w.now \in Nat
        BY <3>2 DEF SignIInv, ViewOK
      <4>2. Since(w.now, entry[w.dev].at) \in Nat /\ Reuse \in Nat
        BY <4>1, ReuseHalf DEF Blob, Since
      <4> QED BY <2>3, <3>2, <4>2 DEF Fresh, Stale
    <3> HIDE DEF w
    <3>4. view'[v] = w /\ (\A u \in Viewer : u # v => view'[u] = view[u]) /\ view' = [u \in Viewer |-> view'[u]]
      BY <3>1 DEF SignIInv
    <3>5. \A u \in Viewer : (view[u] = NoView \/ ViewOK(view[u]))'
      BY <2>1, <3>2, <3>4 DEF SignIInv, ViewOK
    <3>6. \A u \in Viewer : view'[u].at = "sign" <=> signHolder' = u
      BY <2>1, <3>1, <3>2, <3>4, NoHolderIsNobody DEF SignIInv
    <3>7. \A u \in Viewer : view'[u].at = "sign" => Stale(view'[u], entry'[view'[u].dev])
      BY <2>1, <3>3, <3>4 DEF SignIInv
    <3>8. ServedIsMine' /\ ServedLives'
      BY <3>2, <3>4 DEF SignIInv, ServedIsMine, ServedLives
    <3> QED BY <2>1, <3>4, <3>5, <3>6, <3>7, <3>8 DEF SignIInv, SignedBlob, Stale
  <2> QED BY <2>2, <2>3
<1>6. ASSUME NEW v \in Viewer, Done(v) PROVE SignIInv'
  <2>1. view' = [view EXCEPT ![v] = NoView] /\ NoView.at = "idle"
    BY <1>6 DEF Done, NoView
  <2> QED BY <1>6, <2>1, ViewMovesInv DEF Done, Released
<1>7. CASE UNCHANGED signVars
  BY <1>7 DEF signVars, SignIInv, SignedBlob, ViewOK, ServedIsMine, ServedLives, Stale
<1> QED BY <1>1, <1>2, <1>3, <1>4, <1>5, <1>6, <1>7, SignStepInv DEF SignNext

\* Only the holder of the lock replaces an entry, and it found that entry stale.
LEMMA HerdStep ==
  ASSUME SignIInv, [SignNext]_signVars, NEW d \in SignedDev, entry'[d] # entry[d],
         NoEntry \notin {entry[d], entry'[d]}, entry'[d].ident = entry[d].ident
  PROVE  entry'[d].at >= entry[d].at + Reuse
<1>1. PICK v \in Viewer : Sign(v)
  BY DEF SignNext, signVars, Tick, ChangeIdentity, Look, Acquire, Done, Ask
<1> DEFINE w == view[v]
           e == [at |-> w.now, ident |-> w.ident, expires |-> clock + Ttl]
<1>2. ViewOK(w) /\ Stale(w, entry[w.dev])
  BY <1>1, ViewAt DEF Sign, SignIInv
<1>3. w.dev = d /\ entry'[d] = e
  <2>1. PICK kept \in {entry, [q \in SignedDev |-> IF Since(w.now, entry[q].at) < Reuse THEN entry[q] ELSE NoEntry]} :
           entry' = [kept EXCEPT ![w.dev] = e]
    BY <1>1 DEF Sign
  <2>2. kept = [q \in SignedDev |-> kept[q]] /\ kept[d] \in {entry[d], NoEntry}
    BY <2>1 DEF SignIInv
  <2> QED BY <2>1, <2>2
<1>4. e.ident = w.ident /\ e.at = w.now
  OBVIOUS
<1>5. entry[d] \in Blob /\ w.now \in Nat
  BY <1>2 DEF SignIInv, ViewOK
<1> HIDE DEF e, w
<1>6. Since(w.now, entry[d].at) >= Reuse
  BY <1>2, <1>3, <1>4 DEF Stale
<1> QED BY <1>3, <1>4, <1>5, <1>6, ReuseHalf DEF Since, Blob

(***************************************************************************)
(* The signing cache for any builds, devices, lifetime and cap on reuse: a *)
(* build gets the attestation of the identity it asked for, with half its  *)
(* lifetime left, and builds that miss one entry together sign it once.    *)
(***************************************************************************)
THEOREM SignCacheHolds == SignSpec => SignHolds
<1>1. SignIInv => SignTypeOK /\ ServedIsMine /\ ServedLives
  BY DEF SignIInv, SignTypeOK, SignedBlob
<1>2. SignIInv /\ [SignNext]_signVars
        => [\A d \in SignedDev :
             entry'[d] # entry[d] /\ NoEntry \notin {entry[d], entry'[d]} /\ entry'[d].ident = entry[d].ident
               => entry'[d].at >= entry[d].at + Reuse]_signVars
  BY HerdStep
<1> QED BY <1>1, <1>2, SignInitInv, SignNextInv, PTL DEF SignSpec, SignHolds, HerdSignsOnce

-----------------------------------------------------------------------------
(* Rotation.  What the walk along a chain computes is a recursive function;  *)
(* that the recursion has a solution, and what it returns, is proved by the  *)
(* least counterexample.                                                     *)

LEMMA LeastElement ==
  ASSUME NEW T \in SUBSET Nat, T # {} PROVE \E x \in T : \A y \in T : x <= y
<1>1. PICK x \in T : \A y \in T : <<y, x>> \notin OpToRel(<, Nat)
  BY WFMin, NatLessThanWellFounded
<1>2. \A y \in T : ~(y < x)
  BY <1>1 DEF OpToRel
<1> QED BY <1>2

HopTo(k, chain) == IF k = NoKeyYet THEN NoKeyYet ELSE Advance(k, chain)

IsWalk(f, p, chain, L) ==
  f = [n \in 0 .. L |-> IF n = 0 THEN p ELSE IF f[n-1] = NoKeyYet THEN NoKeyYet ELSE Advance(f[n-1], chain)]

LEMMA WalkExists ==
  ASSUME NEW p, NEW chain, NEW L \in Nat
  PROVE  \E f : IsWalk(f, p, chain, L)
<1> DEFINE Good(m) == \E f : /\ f = [n \in 0 .. m |-> f[n]] /\ f[0] = p
                             /\ \A n \in 1 .. m : f[n] = HopTo(f[n-1], chain)
           Bad == {m \in Nat : ~Good(m)}
<1>1. Bad = {}
  <2> SUFFICES ASSUME Bad # {} PROVE FALSE
    OBVIOUS
  <2> HIDE DEF Good
  <2>1. PICK m \in Bad : \A y \in Bad : m <= y
    BY LeastElement
  <2>2. Good(0)
    <3> DEFINE f == [n \in 0 .. 0 |-> p]
    <3>1. f = [n \in 0 .. 0 |-> f[n]] /\ f[0] = p /\ \A n \in 1 .. 0 : f[n] = HopTo(f[n-1], chain)
      OBVIOUS
    <3> QED BY <3>1 DEF Good
  <2>3. m - 1 \in Nat /\ Good(m - 1)
    BY <2>1, <2>2
  <2>4. PICK f : f = [n \in 0 .. m - 1 |-> f[n]] /\ f[0] = p /\ \A n \in 1 .. m - 1 : f[n] = HopTo(f[n-1], chain)
    BY <2>3 DEF Good
  <2>5. Good(m)
    <3> DEFINE g == [n \in 0 .. m |-> IF n = m THEN HopTo(f[m - 1], chain) ELSE f[n]]
    <3>1. g = [n \in 0 .. m |-> g[n]] /\ g[0] = p
      BY <2>3, <2>4
    <3>2. ASSUME NEW n \in 1 .. m PROVE g[n] = HopTo(g[n-1], chain)
      <4>1. m \in Nat /\ n - 1 \in 0 .. m /\ n - 1 # m /\ n \in 0 .. m
        BY <2>3
      <4>2. g[n - 1] = f[n - 1]
        BY <4>1
      <4>3. CASE n = m
        BY <4>1, <4>2, <4>3
      <4>4. CASE n # m
        <5>1. n \in 1 .. m - 1
          BY <4>1, <4>4
        <5> QED BY <2>4, <4>1, <4>2, <4>4, <5>1
      <4> QED BY <4>3, <4>4
    <3> HIDE DEF g
    <3> QED BY <3>1, <3>2 DEF Good
  <2> QED BY <2>1, <2>5
<1>2. PICK f : f = [n \in 0 .. L |-> f[n]] /\ f[0] = p /\ \A n \in 1 .. L : f[n] = HopTo(f[n-1], chain)
  BY <1>1
<1>3. f = [n \in 0 .. L |-> IF n = 0 THEN p ELSE IF f[n-1] = NoKeyYet THEN NoKeyYet ELSE Advance(f[n-1], chain)]
  <2> DEFINE e(n) == IF n = 0 THEN p ELSE IF f[n-1] = NoKeyYet THEN NoKeyYet ELSE Advance(f[n-1], chain)
  <2>1. ASSUME NEW n \in 0 .. L PROVE f[n] = e(n)
    <3>1. CASE n = 0
      BY <1>2, <3>1
    <3>2. CASE n # 0
      <4>1. n \in 1 .. L
        BY <3>2
      <4>2. f[n] = HopTo(f[n - 1], chain)
        BY <1>2, <4>1
      <4> QED BY <3>2, <4>2 DEF HopTo
    <3> QED BY <3>1, <3>2
  <2> HIDE DEF e
  <2>2. f = [n \in 0 .. L |-> e(n)]
    BY <1>2, <2>1
  <2> QED BY <2>2 DEF e
<1> QED BY <1>3 DEF IsWalk

LEMMA WalkedHops ==
  ASSUME NEW p, NEW chain, Len(chain) \in Nat
  PROVE  /\ Walked(p, chain)[0] = p
         /\ \A n \in 1 .. Len(chain) + 1 : Walked(p, chain)[n] = HopTo(Walked(p, chain)[n-1], chain)
<1> DEFINE L == Len(chain) + 1
<1>0. L \in Nat
  OBVIOUS
<1> HIDE DEF L
<1>1. \E f : IsWalk(f, p, chain, L)
  BY <1>0, WalkExists
<1>2. Walked(p, chain) = CHOOSE f : IsWalk(f, p, chain, L)
  BY DEF Walked, L, IsWalk
<1>3. IsWalk(Walked(p, chain), p, chain, L)
  BY <1>1, <1>2
<1> DEFINE W == Walked(p, chain)
<1> HIDE DEF W
<1>4. W = [n \in 0 .. L |-> IF n = 0 THEN p ELSE IF W[n-1] = NoKeyYet THEN NoKeyYet ELSE Advance(W[n-1], chain)]
  BY <1>3 DEF W, IsWalk
<1>5. W[0] = p /\ \A n \in 1 .. L : W[n] = HopTo(W[n-1], chain)
  BY <1>0, <1>4 DEF HopTo
<1> QED BY <1>5 DEF W, L

\* The first certificate by a key, when there is one, is where it hops.
LEMMA AdvanceHops ==
  ASSUME NEW k, NEW chain, Len(chain) \in Nat
  PROVE  \/ Advance(k, chain) = NoKeyYet /\ \A i \in 1 .. Len(chain) : chain[i].prev # k
         \/ \E i \in 1 .. Len(chain) : /\ chain[i].prev = k /\ Advance(k, chain) = chain[i].new
                                      /\ \A j \in 1 .. i - 1 : chain[j].prev # k
<1> DEFINE hops == {i \in 1 .. Len(chain) : chain[i].prev = k}
<1>1. CASE hops = {}
  BY <1>1 DEF Advance
<1>2. CASE hops # {}
  <2> DEFINE first == CHOOSE i \in hops : \A j \in hops : i <= j
  <2>1. hops \in SUBSET Nat
    OBVIOUS
  <2>2. \E i \in hops : \A j \in hops : i <= j
    BY <1>2, <2>1, LeastElement
  <2>3. first \in hops /\ \A j \in hops : first <= j
    BY <2>2
  <2>4. Advance(k, chain) = chain[first].new
    BY <1>2 DEF Advance
  <2> HIDE DEF first
  <2>5. \A j \in 1 .. first - 1 : chain[j].prev # k
    BY <2>3
  <2> QED BY <2>3, <2>4, <2>5
<1> QED BY <1>1, <1>2

\* A chain of certificates between generated keys of one database.
ChainOK(chain) ==
  /\ chain \in Seq([prev : Nat, new : Nat])
  /\ \A i \in 1 .. Len(chain) : /\ chain[i].prev \in 1 .. made /\ chain[i].new \in 1 .. made
                                /\ chain[i].prev < chain[i].new
                                /\ line[chain[i].prev] = line[chain[i].new]

\* What is known of the keys, whatever is cut short.
KeysIInv ==
  /\ line \in Seq(Nat) /\ lost \in Nat /\ stops \in Nat
  /\ seed \in 0 .. made /\ (seed # NoKeyYet => line[seed] = lost)
  /\ ChainOK(certs)
  /\ rotating \in [at : {"idle", "append", "swap"}, old : 0 .. made, new : 0 .. made]
  /\ rotating.at # "idle" => /\ rotating.old \in 1 .. made /\ rotating.old < rotating.new
                             /\ line[rotating.old] = lost /\ line[rotating.new] = lost
  /\ served = [key |-> served.key, chain |-> served.chain, ready |-> served.ready]
  /\ served.key \in 0 .. made /\ ChainOK(served.chain)
  /\ pin \in [Client -> 0 .. made] /\ refused \subseteq Client

LEMMA KeysInit == RotInit => KeysIInv
<1> SUFFICES ASSUME RotInit PROVE KeysIInv
  OBVIOUS
<1>1. <<>> \in Seq(Nat) /\ <<>> \in Seq([prev : Nat, new : Nat]) /\ Len(<<>>) = 0
  BY EmptySeq
<1>2. line = <<>> /\ Len(line) = 0 /\ made = 0
  BY <1>1 DEF RotInit, made
<1>3. ChainOK(<<>>)
  BY <1>1 DEF ChainOK
<1>4. served.key = 0 /\ served.chain = <<>> /\ served = [key |-> 0, chain |-> <<>>, ready |-> FALSE]
  BY DEF RotInit, NotLoaded, NoKeyYet
<1>5. rotating.at = "idle" /\ rotating = [at |-> "idle", old |-> 0, new |-> 0]
  BY DEF RotInit, AtRest, NoKeyYet
<1>6. seed = 0 /\ lost = 0 /\ stops = 0 /\ pin = [c \in Client |-> 0] /\ refused = {} /\ certs = <<>>
  BY DEF RotInit, NoKeyYet
<1> QED BY <1>1, <1>2, <1>3, <1>4, <1>5, <1>6 DEF KeysIInv, NoKeyYet

\* More generated keys leave what is said of the earlier ones.
LEMMA LineGrows ==
  ASSUME line \in Seq(Nat), line' \in Seq(Nat), Len(line') >= Len(line),
         \A k \in 1 .. made : line'[k] = line[k], NEW chain, ChainOK(chain)
  PROVE  /\ chain \in Seq([prev : Nat, new : Nat])
         /\ \A i \in 1 .. Len(chain) : /\ chain[i].prev \in 1 .. made' /\ chain[i].new \in 1 .. made'
                                       /\ chain[i].prev < chain[i].new
                                       /\ line'[chain[i].prev] = line'[chain[i].new]
<1>1. Len(line) \in Nat /\ Len(line') \in Nat
  BY LenProperties
<1>2. made \in Nat /\ made' \in Nat /\ made <= made'
  BY <1>1 DEF made
<1>3. \A k \in 1 .. made : k \in 1 .. made' /\ line'[k] = line[k]
  <2> SUFFICES ASSUME NEW k \in 1 .. made PROVE k \in 1 .. made'
    OBVIOUS
  <2> QED BY <1>2
<1> QED
  <2> SUFFICES ASSUME NEW i \in 1 .. Len(chain)
               PROVE  /\ chain[i].prev \in 1 .. made' /\ chain[i].new \in 1 .. made'
                      /\ line'[chain[i].prev] = line'[chain[i].new]
    BY DEF ChainOK
  <2>1. chain[i].prev \in 1 .. made /\ chain[i].new \in 1 .. made /\ line[chain[i].prev] = line[chain[i].new]
    BY DEF ChainOK
  <2> QED BY <1>3, <2>1

\* A step that generates no key keeps what it does not write.
LEMMA KeysStay ==
  ASSUME KeysIInv, line' = line
  PROVE  /\ made' = made /\ made \in Nat
         /\ \A chain : ChainOK(chain) => /\ chain \in Seq([prev : Nat, new : Nat])
                                         /\ \A i \in 1 .. Len(chain) :
                                              /\ chain[i].prev \in 1 .. made' /\ chain[i].new \in 1 .. made'
                                              /\ chain[i].prev < chain[i].new
                                              /\ line'[chain[i].prev] = line'[chain[i].new]
<1>1. made' = made /\ made \in Nat
  BY LenProperties DEF made, KeysIInv
<1> QED BY <1>1 DEF ChainOK

LEMMA KeysLoad ==
  ASSUME KeysIInv, RotateLoad PROVE KeysIInv'
<1> DEFINE first == IF seed = NoKeyYet THEN made + 1 ELSE seed
           n == IF seed = NoKeyYet THEN made + 2 ELSE made + 1
           more == [i \in 1 .. n - made |-> lost]
<1>1. /\ seed' = first /\ line' = line \o more
      /\ rotating' = [at |-> "append", old |-> first, new |-> n]
      /\ UNCHANGED <<certs, served, pin, refused, lost, stops>>
  BY DEF RotateLoad
<1>2. line \in Seq(Nat) /\ lost \in Nat /\ stops \in Nat /\ made \in Nat /\ Len(line) \in Nat
  BY LenProperties DEF KeysIInv, made
<1>3. n - made \in Nat /\ n \in Nat /\ n > made
  BY <1>2
<1>4. more \in Seq(Nat) /\ Len(more) = n - made
  <2> HIDE DEF n
  <2> QED BY <1>2, <1>3
<1> HIDE DEF more
<1>5. line' \in Seq(Nat) /\ Len(line') = Len(line) + Len(more)
      /\ \A i \in 1 .. Len(line) + Len(more) : line'[i] = IF i <= Len(line) THEN line[i] ELSE more[i - Len(line)]
  BY <1>1, <1>2, <1>4, ConcatProperties
<1>6. made' = n
  BY <1>2, <1>3, <1>4, <1>5 DEF made
<1>7. \A k \in 1 .. made : line'[k] = line[k]
  <2> SUFFICES ASSUME NEW k \in 1 .. made PROVE line'[k] = line[k]
    OBVIOUS
  <2>1. Len(line) + Len(more) \in Nat /\ Len(line) <= Len(line) + Len(more)
    <3> HIDE DEF n
    <3> QED BY <1>2, <1>3, <1>4
  <2>2. k \in 1 .. Len(line) + Len(more) /\ k <= Len(line)
    BY <1>2, <2>1 DEF made
  <2> QED BY <1>5, <2>2
<1>8. \A k \in made + 1 .. n : line'[k] = lost
  <2> SUFFICES ASSUME NEW k \in made + 1 .. n PROVE line'[k] = lost
    OBVIOUS
  <2>1. k \in 1 .. Len(line) + Len(more) /\ ~(k <= Len(line)) /\ k - Len(line) \in 1 .. n - made
    BY <1>2, <1>3, <1>4 DEF made
  <2>2. line'[k] = more[k - Len(line)]
    BY <1>5, <2>1
  <2> HIDE DEF n
  <2> QED BY <2>1, <2>2 DEF more
<1>9. Len(line') >= Len(line)
  BY <1>2, <1>3, <1>4, <1>5
<1>10. ChainOK(certs)' /\ ChainOK(served.chain)'
  <2>1. ChainOK(certs) /\ ChainOK(served.chain)
    BY DEF KeysIInv
  <2> QED BY <1>1, <1>2, <1>5, <1>7, <1>9, <2>1, LineGrows DEF ChainOK
<1>11. first \in 1 .. made' /\ first < n /\ line'[first] = lost /\ line'[n] = lost /\ first \in Nat
  <2>1. CASE seed = NoKeyYet
    BY <1>2, <1>3, <1>6, <1>8, <2>1
  <2>2. CASE seed # NoKeyYet
    <3>1. seed \in 1 .. made /\ line[seed] = lost
      BY <1>2, <2>2 DEF KeysIInv, NoKeyYet
    <3> QED BY <1>2, <1>3, <1>6, <1>7, <1>8, <2>2, <3>1
  <2> QED BY <2>1, <2>2
<1>12. rotating' \in [at : {"idle", "append", "swap"}, old : 0 .. made', new : 0 .. made']
       /\ rotating'.old = first /\ rotating'.new = n /\ first \in 0 .. made'
  <2>1. first \in 0 .. made' /\ n \in 0 .. made'
    BY <1>3, <1>6, <1>11
  <2> HIDE DEF first, n
  <2> QED BY <1>1, <2>1
<1>13. served.key \in 0 .. made' /\ pin \in [Client -> 0 .. made']
  <2>1. \A k \in 0 .. made : k \in 0 .. made'
    BY <1>2, <1>3, <1>6
  <2> QED BY <2>1 DEF KeysIInv
<1> HIDE DEF first, n
<1> QED BY <1>1, <1>2, <1>5, <1>10, <1>11, <1>12, <1>13 DEF KeysIInv

LEMMA KeysServe ==
  ASSUME KeysIInv, LoadSeed PROVE KeysIInv'
<1>1. line \in Seq(Nat) /\ lost \in Nat /\ made \in Nat /\ Len(line) \in Nat
  BY LenProperties DEF KeysIInv, made
<1>2. ChainOK(certs) /\ ChainOK(served.chain) /\ ChainOK(<<>>)
  BY EmptySeq DEF KeysIInv, ChainOK
<1>3. CASE seed = NoKeyYet
  <2>1. seed' = made + 1 /\ line' = Append(line, lost) /\ served' = [key |-> made + 1, chain |-> <<>>, ready |-> FALSE]
        /\ UNCHANGED <<certs, rotating, pin, refused, lost, stops>>
    BY <1>3 DEF LoadSeed
  <2>2. line' \in Seq(Nat) /\ Len(line') = Len(line) + 1 /\ line'[Len(line) + 1] = lost
        /\ \A k \in 1 .. Len(line) : line'[k] = line[k]
    BY <1>1, <2>1, AppendProperties
  <2>3. made' = made + 1 /\ line'[made + 1] = lost /\ \A k \in 1 .. made : line'[k] = line[k]
    BY <2>2 DEF made
  <2>4. Len(line') >= Len(line)
    BY <1>1, <2>2
  <2>5. ChainOK(certs)' /\ served'.chain = <<>>
    BY <1>1, <1>2, <2>1, <2>2, <2>3, <2>4, LineGrows DEF ChainOK
  <2>6. ChainOK(served.chain)'
    BY <2>5, EmptySeq DEF ChainOK
  <2>7. \A k \in 0 .. made : k \in 0 .. made'
    BY <1>1, <2>3
  <2>8. rotating \in [at : {"idle", "append", "swap"}, old : 0 .. made', new : 0 .. made']
        /\ pin \in [Client -> 0 .. made']
    BY <2>7 DEF KeysIInv
  <2>9. rotating.at # "idle" => /\ rotating.old \in 1 .. made' /\ rotating.old < rotating.new
                                /\ line'[rotating.old] = lost /\ line'[rotating.new] = lost
    <3> SUFFICES ASSUME rotating.at # "idle"
                 PROVE  rotating.old \in 1 .. made' /\ rotating.old < rotating.new
                        /\ line'[rotating.old] = lost /\ line'[rotating.new] = lost
      OBVIOUS
    <3>1. rotating.old \in 1 .. made /\ rotating.old < rotating.new /\ rotating.new \in 0 .. made
          /\ line[rotating.old] = lost /\ line[rotating.new] = lost
      BY DEF KeysIInv
    <3>2. rotating.new \in 1 .. made /\ rotating.old \in 1 .. made'
      BY <1>1, <2>3, <3>1
    <3> QED BY <2>3, <3>1, <3>2
  <2>10. made + 1 \in 0 .. made' /\ served'.key = made + 1
         /\ served' = [key |-> served'.key, chain |-> served'.chain, ready |-> served'.ready]
    BY <1>1, <2>1, <2>3
  <2>11. stops' \in Nat /\ refused \subseteq Client
    BY <2>1 DEF KeysIInv
  <2> QED BY <1>1, <2>1, <2>2, <2>3, <2>5, <2>6, <2>8, <2>9, <2>10, <2>11 DEF KeysIInv
<1>4. CASE seed # NoKeyYet
  <2>1. UNCHANGED <<seed, line, certs, rotating, pin, refused, lost, stops>>
        /\ served' = [key |-> seed, chain |-> <<>>, ready |-> FALSE]
    BY <1>4 DEF LoadSeed
  <2>2. made' = made
    BY <2>1, KeysStay
  <2>3. ChainOK(certs)' /\ ChainOK(served.chain)'
    BY <1>2, <2>1, <2>2 DEF ChainOK
  <2> QED BY <2>1, <2>2, <2>3 DEF KeysIInv
<1> QED BY <1>3, <1>4

LEMMA KeysWrite ==
  ASSUME KeysIInv, RotateWrite PROVE KeysIInv'
<1>1. UNCHANGED <<served, pin, refused, line, lost, stops>> /\ made' = made /\ made \in Nat
  BY KeysStay DEF RotateWrite
<1>2. ChainOK(certs) /\ ChainOK(served.chain)'
  BY <1>1 DEF KeysIInv, ChainOK
<1>3. CASE rotating.at = "append"
  <2> DEFINE c == [prev |-> rotating.old, new |-> rotating.new]
  <2>1. certs' = Append(certs, c) /\ rotating' = [rotating EXCEPT !.at = "swap"] /\ seed' = seed
    BY <1>3 DEF RotateWrite, Writes, Cert
  <2>2. /\ c.prev \in 1 .. made /\ c.new \in 1 .. made /\ c.prev < c.new /\ line[c.prev] = line[c.new]
        /\ c \in [prev : Nat, new : Nat]
    <3>1. rotating.old \in 1 .. made /\ rotating.new \in 0 .. made /\ rotating.old < rotating.new
          /\ line[rotating.old] = lost /\ line[rotating.new] = lost
      BY <1>3 DEF KeysIInv
    <3> QED BY <1>1, <3>1
  <2> HIDE DEF c
  <2>3. certs \in Seq([prev : Nat, new : Nat]) /\ Len(certs) \in Nat
    BY <1>2, LenProperties DEF ChainOK
  <2>4. certs' \in Seq([prev : Nat, new : Nat]) /\ Len(certs') = Len(certs) + 1
        /\ \A i \in 1 .. Len(certs) + 1 : certs'[i] = IF i <= Len(certs) THEN certs[i] ELSE c
    BY <2>1, <2>2, <2>3, AppendProperties
  <2>5. ChainOK(certs)'
    <3> SUFFICES ASSUME NEW i \in 1 .. Len(certs) + 1
                 PROVE  certs'[i].prev \in 1 .. made /\ certs'[i].new \in 1 .. made
                        /\ certs'[i].prev < certs'[i].new /\ line[certs'[i].prev] = line[certs'[i].new]
      BY <1>1, <2>4 DEF ChainOK
    <3>1. CASE i <= Len(certs)
      <4>1. i \in 1 .. Len(certs) /\ certs'[i] = certs[i]
        BY <2>3, <2>4, <3>1
      <4> QED BY <1>2, <4>1 DEF ChainOK
    <3>2. CASE ~(i <= Len(certs))
      BY <2>2, <2>4, <3>2
    <3> QED BY <3>1, <3>2
  <2>6. rotating' \in [at : {"idle", "append", "swap"}, old : 0 .. made, new : 0 .. made]
        /\ rotating'.old = rotating.old /\ rotating'.new = rotating.new
    BY <2>1 DEF KeysIInv
  <2> QED BY <1>1, <1>2, <1>3, <2>1, <2>5, <2>6 DEF KeysIInv
<1>4. CASE rotating.at = "swap"
  <2>1. certs' = certs /\ rotating' = AtRest /\ seed' = rotating.new
    BY <1>4 DEF RotateWrite, Writes
  <2>2. seed' \in 0 .. made /\ line[seed'] = lost
    BY <1>4, <2>1 DEF KeysIInv
  <2>3. rotating' \in [at : {"idle", "append", "swap"}, old : 0 .. made, new : 0 .. made] /\ rotating'.at = "idle"
    BY <1>1, <2>1 DEF AtRest, NoKeyYet
  <2>4. ChainOK(certs)'
    BY <1>1, <1>2, <2>1 DEF ChainOK
  <2> QED BY <1>1, <1>2, <2>1, <2>2, <2>3, <2>4 DEF KeysIInv
<1> QED BY <1>3, <1>4 DEF RotateWrite, Writes

LEMMA KeysRest ==
  ASSUME KeysIInv, RotateStop \/ DatabaseLost \/ LoadChain \/ Restart \/ (\E c \in Client : Pin(c)) \/ UNCHANGED rotVars
  PROVE  KeysIInv'
<1>1. line' = line
  BY DEF RotateStop, DatabaseLost, LoadChain, Restart, Pin, rotVars
<1>2. made' = made /\ made \in Nat
  BY <1>1, KeysStay
<1>3. \A chain : ChainOK(chain) => ChainOK(chain)'
  BY <1>1, <1>2 DEF ChainOK
<1>4. ChainOK(certs) /\ ChainOK(served.chain) /\ ChainOK(<<>>)
  BY EmptySeq DEF KeysIInv, ChainOK
<1>5. AtRest \in [at : {"idle", "append", "swap"}, old : 0 .. made, new : 0 .. made] /\ AtRest.at = "idle"
  BY <1>2 DEF AtRest, NoKeyYet
<1>6. CASE RotateStop
  <2>1. ChainOK(certs)' /\ ChainOK(served.chain)'
    BY <1>1, <1>2, <1>4, <1>6 DEF RotateStop, ChainOK
  <2> QED BY <1>1, <1>2, <1>5, <1>6, <2>1 DEF RotateStop, KeysIInv
<1>7. CASE DatabaseLost
  <2>1. ChainOK(certs)' /\ ChainOK(served.chain)'
    BY <1>1, <1>2, <1>4, <1>7 DEF DatabaseLost, NotLoaded, ChainOK
  <2>2. served' = [key |-> 0, chain |-> <<>>, ready |-> FALSE] /\ served'.key = 0 /\ 0 \in 0 .. made /\ seed' = 0
    BY <1>2, <1>7 DEF DatabaseLost, NotLoaded, NoKeyYet
  <2> QED BY <1>1, <1>2, <1>7, <2>1, <2>2 DEF DatabaseLost, KeysIInv, NoKeyYet
<1>8. CASE LoadChain
  <2> DEFINE s == [served EXCEPT !.chain = certs, !.ready = TRUE]
  <2>1. served' = s /\ UNCHANGED <<seed, certs, rotating, pin, refused, line, lost, stops>>
    BY <1>8 DEF LoadChain
  <2>2. s.key = served.key /\ s.chain = certs /\ s = [key |-> s.key, chain |-> s.chain, ready |-> s.ready]
    <3>1. served = [key |-> served.key, chain |-> served.chain, ready |-> served.ready]
      BY DEF KeysIInv
    <3>2. served \in [key : {served.key}, chain : {served.chain, certs}, ready : {served.ready, TRUE}]
      BY <3>1
    <3>3. s \in [key : {served.key}, chain : {served.chain, certs}, ready : {served.ready, TRUE}]
      BY <3>2
    <3>4. s.chain = certs /\ s.key = served.key
      BY <3>2
    <3> HIDE DEF s
    <3> QED BY <3>3, <3>4
  <2> HIDE DEF s
  <2>3. ChainOK(certs)' /\ ChainOK(served.chain)'
    BY <1>1, <1>2, <1>4, <2>1, <2>2 DEF ChainOK
  <2> QED BY <1>1, <1>2, <2>1, <2>2, <2>3 DEF KeysIInv
<1>9. CASE Restart
  <2>1. ChainOK(certs)' /\ ChainOK(served.chain)'
    BY <1>1, <1>2, <1>4, <1>9 DEF Restart, NotLoaded, ChainOK
  <2>2. served' = [key |-> 0, chain |-> <<>>, ready |-> FALSE] /\ served'.key = 0 /\ 0 \in 0 .. made
    BY <1>2, <1>9 DEF Restart, NotLoaded, NoKeyYet
  <2> QED BY <1>1, <1>2, <1>9, <2>1, <2>2 DEF Restart, KeysIInv
<1>10. ASSUME NEW c \in Client, Pin(c) PROVE KeysIInv'
  <2>1. ChainOK(certs)' /\ ChainOK(served.chain)'
    BY <1>1, <1>2, <1>4, <1>10 DEF Pin, ChainOK
  <2>2. pin' \in [Client -> 0 .. made] /\ refused' \subseteq Client
    <3>1. pin \in [Client -> 0 .. made] /\ served.key \in 0 .. made /\ refused \subseteq Client
      BY DEF KeysIInv
    <3>2. \/ pin' = [pin EXCEPT ![c] = served.key] /\ refused' = refused \ {c}
          \/ pin' = pin /\ refused' = refused \cup {c}
      BY <1>10 DEF Pin
    <3> QED BY <3>1, <3>2
  <2> QED BY <1>1, <1>2, <1>10, <2>1, <2>2 DEF Pin, KeysIInv
<1>11. CASE UNCHANGED rotVars
  <2>1. ChainOK(certs)' /\ ChainOK(served.chain)'
    BY <1>1, <1>2, <1>4, <1>11 DEF rotVars, ChainOK
  <2> QED BY <1>1, <1>2, <1>11, <2>1 DEF rotVars, KeysIInv
<1> QED BY <1>6, <1>7, <1>8, <1>9, <1>10, <1>11

LEMMA KeysNext ==
  ASSUME KeysIInv, [RotNext]_rotVars PROVE KeysIInv'
BY KeysLoad, KeysServe, KeysWrite, KeysRest DEF RotNext

\* Along a chain of one database a walk stays among its keys.
LEMMA WalkStays ==
  ASSUME NEW chain, ChainOK(chain), NEW p \in 1 .. made, Len(chain) \in Nat, made \in Nat,
         NEW n \in 0 .. Len(chain) + 1
  PROVE  Walked(p, chain)[n] = NoKeyYet \/ (Walked(p, chain)[n] \in 1 .. made /\ line[Walked(p, chain)[n]] = line[p])
<1> DEFINE W == Walked(p, chain)
           L == Len(chain) + 1
           Stays(m) == W[m] = NoKeyYet \/ (W[m] \in 1 .. made /\ line[W[m]] = line[p])
           Bad == {m \in 0 .. L : ~Stays(m)}
<1>1. W[0] = p /\ \A m \in 1 .. L : W[m] = HopTo(W[m-1], chain)
  BY WalkedHops
<1> HIDE DEF W
<1>2. Bad = {}
  <2> SUFFICES ASSUME Bad # {} PROVE FALSE
    OBVIOUS
  <2>1. PICK m \in Bad : \A y \in Bad : m <= y
    <3>1. Bad \in SUBSET Nat
      OBVIOUS
    <3> QED BY <3>1, LeastElement
  <2>2. m # 0
    BY <1>1, <2>1
  <2>3. m \in 1 .. L /\ m - 1 \in 0 .. L /\ m - 1 < m
    BY <2>1, <2>2
  <2>4. Stays(m - 1)
    BY <2>1, <2>3
  <2>5. W[m] = HopTo(W[m-1], chain)
    BY <1>1, <2>3
  <2>6. Stays(m)
    <3>1. CASE W[m-1] = NoKeyYet
      BY <2>5, <3>1 DEF HopTo
    <3>2. CASE W[m-1] # NoKeyYet
      <4>1. W[m] = Advance(W[m-1], chain) /\ W[m-1] \in 1 .. made /\ line[W[m-1]] = line[p]
        BY <2>4, <2>5, <3>2 DEF HopTo
      <4>2. CASE Advance(W[m-1], chain) = NoKeyYet
        BY <4>1, <4>2
      <4>3. ASSUME NEW i \in 1 .. Len(chain), chain[i].prev = W[m-1], Advance(W[m-1], chain) = chain[i].new
            PROVE  Stays(m)
        <5>1. chain[i].new \in 1 .. made /\ line[chain[i].prev] = line[chain[i].new]
          BY DEF ChainOK
        <5> QED BY <4>1, <4>3, <5>1
      <4> QED BY <4>2, <4>3, AdvanceHops
    <3> QED BY <3>1, <3>2
  <2> QED BY <2>1, <2>6
<1>3. Stays(n)
  BY <1>2
<1> QED BY <1>3 DEF W

\* A pin moves within its database.
LEMMA PinStays ==
  ASSUME KeysIInv, KeysIInv', [RotNext]_rotVars, NEW c \in Client, pin[c] # NoKeyYet
  PROVE  line'[pin'[c]] = line[pin[c]]
<1>1. pin[c] \in 1 .. made /\ made \in Nat /\ line \in Seq(Nat) /\ Len(line) \in Nat /\ made = Len(line)
  <2>1. line \in Seq(Nat) /\ made = Len(line) /\ Len(line) \in Nat
    BY LenProperties DEF KeysIInv, made
  <2>2. pin[c] \in 0 .. made
    BY DEF KeysIInv
  <2> QED BY <2>1, <2>2 DEF NoKeyYet
<1>2. CASE pin' = pin
  <2>1. line'[pin[c]] = line[pin[c]]
    <3>1. CASE line' = line
      BY <3>1
    <3>2. CASE LoadSeed /\ line' # line
      <4>1. line' = Append(line, lost)
        BY <3>2 DEF LoadSeed
      <4> QED BY <1>1, <4>1, AppendProperties DEF KeysIInv
    <3>3. CASE RotateLoad
      <4> DEFINE n == IF seed = NoKeyYet THEN made + 2 ELSE made + 1
                 more == [i \in 1 .. n - made |-> lost]
      <4>1. line' = line \o more
        BY <3>3 DEF RotateLoad
      <4>2. n - made \in Nat /\ lost \in Nat
        BY <1>1 DEF KeysIInv
      <4>3. more \in Seq(Nat)
        <5> HIDE DEF n
        <5> QED BY <4>2
      <4> HIDE DEF more
      <4>4. Len(more) \in Nat
        BY <4>3, LenProperties
      <4>5. pin[c] \in 1 .. Len(line) + Len(more) /\ pin[c] <= Len(line)
        BY <1>1, <4>4
      <4> QED BY <1>1, <4>1, <4>3, <4>5, ConcatProperties
    <3> QED BY <3>1, <3>2, <3>3 DEF RotNext, RotateWrite, RotateStop, DatabaseLost, LoadChain, Restart, Pin, rotVars
  <2> QED BY <1>2, <2>1
<1>3. ASSUME NEW d \in Client, Pin(d), pin' # pin PROVE line'[pin'[c]] = line[pin[c]]
  <2>1. line' = line /\ pin' = [pin EXCEPT ![d] = served.key] /\ pin \in [Client -> 0 .. made]
        /\ served.key # NoKeyYet /\ (pin[d] = NoKeyYet \/ WalkChain(pin[d], served.key, served.chain))
    BY <1>3 DEF Pin, KeysIInv
  <2>2. CASE d # c
    BY <2>1, <2>2
  <2>3. CASE d = c
    <3>1. PICK n \in 0 .. Len(served.chain) + 1 : Walked(pin[c], served.chain)[n] = served.key
      BY <2>1, <2>3 DEF WalkChain
    <3>2. ChainOK(served.chain) /\ Len(served.chain) \in Nat
      BY LenProperties DEF KeysIInv, ChainOK
    <3>3. line[served.key] = line[pin[c]]
      BY <1>1, <2>1, <3>1, <3>2, WalkStays
    <3> QED BY <2>1, <2>3, <3>3
  <2> QED BY <2>2, <2>3
<1>4. pin' = pin \/ \E d \in Client : Pin(d) /\ pin' # pin
  BY DEF RotNext, RotateLoad, RotateWrite, RotateStop, DatabaseLost, LoadSeed, LoadChain, Restart, rotVars
<1> QED BY <1>2, <1>3, <1>4

-----------------------------------------------------------------------------
Linked(chain) == \A i \in 1 .. Len(chain) : i < Len(chain) => chain[i].new = chain[i + 1].prev
Rising(chain) == \A i, j \in 1 .. Len(chain) : i < j => chain[i].prev < chain[j].prev

\* A walk along linked certificates reaches the key the m-th of them names.
LEMMA WalkReaches ==
  ASSUME NEW chain, ChainOK(chain), Len(chain) \in Nat, made \in Nat, Linked(chain), Rising(chain),
         NEW i \in 1 .. Len(chain), NEW m \in 1 .. Len(chain), i <= m
  PROVE  \E n \in 0 .. Len(chain) + 1 : Walked(chain[i].prev, chain)[n] = chain[m].new
<1> DEFINE W == Walked(chain[i].prev, chain)
           Bad == {j \in 0 .. m - i : W[j] # chain[i + j].prev}
<1>1. W[0] = chain[i].prev /\ \A j \in 1 .. Len(chain) + 1 : W[j] = HopTo(W[j-1], chain)
  BY WalkedHops
<1> HIDE DEF W
<1>2. \A a \in 1 .. Len(chain) : HopTo(chain[a].prev, chain) = chain[a].new
  <2> SUFFICES ASSUME NEW a \in 1 .. Len(chain) PROVE HopTo(chain[a].prev, chain) = chain[a].new
    OBVIOUS
  <2>1. chain[a].prev \in 1 .. made
    BY DEF ChainOK
  <2>2. HopTo(chain[a].prev, chain) = Advance(chain[a].prev, chain)
    BY <2>1 DEF HopTo, NoKeyYet
  <2>3. PICK b \in 1 .. Len(chain) : chain[b].prev = chain[a].prev /\ Advance(chain[a].prev, chain) = chain[b].new
    BY AdvanceHops
  <2>4. a = b
    <3>1. ~(a < b) /\ ~(b < a)
      BY <2>1, <2>3 DEF Rising
    <3> QED BY <3>1
  <2> QED BY <2>2, <2>3, <2>4
<1>3. Bad = {}
  <2> SUFFICES ASSUME Bad # {} PROVE FALSE
    OBVIOUS
  <2>1. PICK j \in Bad : \A y \in Bad : j <= y
    <3>1. Bad \in SUBSET Nat
      OBVIOUS
    <3> QED BY <3>1, LeastElement
  <2>2. i + 0 = i
    OBVIOUS
  <2>3. j # 0
    BY <1>1, <2>1, <2>2
  <2>4. j - 1 \in 0 .. m - i /\ j - 1 < j /\ j \in 1 .. Len(chain) + 1 /\ i + (j - 1) \in 1 .. Len(chain)
        /\ i + (j - 1) < Len(chain) /\ (i + (j - 1)) + 1 = i + j
    BY <2>1, <2>3
  <2>5. W[j - 1] = chain[i + (j - 1)].prev
    BY <2>1, <2>4
  <2>6. W[j] = chain[i + (j - 1)].new
    BY <1>1, <1>2, <2>4, <2>5
  <2>7. W[j] = chain[i + j].prev
    BY <2>4, <2>6 DEF Linked
  <2> QED BY <2>1, <2>7
<1>4. m - i \in 0 .. m - i /\ i + (m - i) = m
  OBVIOUS
<1>5. W[m - i] = chain[m].prev
  BY <1>3, <1>4
<1>6. (m - i) + 1 \in 1 .. Len(chain) + 1 /\ ((m - i) + 1) - 1 = m - i
  OBVIOUS
<1>7. W[(m - i) + 1] = chain[m].new
  BY <1>1, <1>2, <1>5, <1>6
<1> QED BY <1>6, <1>7 DEF W

\* The key that signs now, and the keys that vouched for their successors.
OnLine(k) == k = seed \/ \E i \in 1 .. Len(certs) : certs[i].prev = k

\* What a rotation never cut short leaves in the store.
LineIInv ==
  /\ Linked(certs) /\ Rising(certs)
  /\ seed = NoKeyYet => certs = <<>>
  /\ rotating.at # "idle" => rotating.old = seed
  /\ rotating.at = "swap" => /\ certs # <<>> /\ certs[Len(certs)].prev = seed
                             /\ certs[Len(certs)].new = rotating.new
  /\ rotating.at # "swap" /\ certs # <<>> => certs[Len(certs)].new = seed

\* What an uncut step changes in the store.
LineGoesOn ==
  /\ seed <= seed'
  /\ \A k : k # NoKeyYet /\ OnLine(k) => OnLine(k)'
  /\ Len(certs) <= Len(certs')
  /\ \A i \in 1 .. Len(certs) : certs'[i] = certs[i]
  /\ \A i \in 1 .. Len(certs') : i > Len(certs) => certs'[i].new > seed

LEMMA LineNext ==
  ASSUME KeysIInv, LineIInv, [RotNext]_rotVars, stops' = 0
  PROVE  LineIInv' /\ LineGoesOn
<1>1. certs \in Seq([prev : Nat, new : Nat]) /\ Len(certs) \in Nat /\ seed \in 0 .. made /\ made \in Nat
      /\ (certs = <<>> <=> Len(certs) = 0)
  BY LenProperties, EmptySeq DEF KeysIInv, ChainOK, made
<1>2. CASE certs' = certs /\ seed' = seed /\ rotating' = rotating
  <2>1. LineIInv'
    BY <1>2 DEF LineIInv, Linked, Rising
  <2>2. LineGoesOn
    BY <1>1, <1>2 DEF LineGoesOn, OnLine
  <2> QED BY <2>1, <2>2
<1>3. CASE RotateLoad
  <2>1. rotating.at = "idle" /\ certs' = certs /\ rotating'.at = "append" /\ rotating'.old = seed'
        /\ seed' = IF seed = NoKeyYet THEN made + 1 ELSE seed
    BY <1>3 DEF RotateLoad
  <2>2. seed' # NoKeyYet /\ seed <= seed'
    BY <1>1, <2>1 DEF NoKeyYet
  <2>3. certs # <<>> => seed' = seed
    BY <2>1 DEF LineIInv
  <2>4. \A k : k # NoKeyYet /\ OnLine(k) => OnLine(k)'
    BY <2>1 DEF OnLine
  <2> QED BY <1>1, <2>1, <2>2, <2>3, <2>4 DEF LineIInv, LineGoesOn, Linked, Rising
<1>4. CASE LoadSeed /\ rotating' = rotating /\ certs' = certs /\ seed' # seed
  <2>1. seed = NoKeyYet /\ seed' = made + 1 /\ seed <= seed' /\ seed' # NoKeyYet
    BY <1>1, <1>4 DEF LoadSeed, NoKeyYet
  <2>2. rotating.at = "idle"
    BY <1>1, <2>1 DEF LineIInv, KeysIInv, NoKeyYet
  <2>3. \A k : k # NoKeyYet /\ OnLine(k) => OnLine(k)'
    BY <1>1, <1>4, <2>1 DEF OnLine, LineIInv
  <2> QED BY <1>1, <1>4, <2>1, <2>2, <2>3 DEF LineIInv, LineGoesOn, Linked, Rising
<1>5. CASE RotateWrite /\ rotating.at = "append"
  <2> DEFINE c == [prev |-> rotating.old, new |-> rotating.new]
  <2>1. certs' = Append(certs, c) /\ rotating' = [rotating EXCEPT !.at = "swap"] /\ seed' = seed
    BY <1>5 DEF RotateWrite, Writes, Cert
  <2>2. c.prev = seed /\ c.new = rotating.new /\ c.new > seed /\ c \in [prev : Nat, new : Nat] /\ seed # NoKeyYet
    <3>1. rotating.old = seed /\ rotating.old \in 1 .. made /\ rotating.new \in 0 .. made /\ rotating.old < rotating.new
      BY <1>5 DEF LineIInv, KeysIInv
    <3> QED BY <1>1, <3>1 DEF NoKeyYet
  <2> HIDE DEF c
  <2>3. certs' \in Seq([prev : Nat, new : Nat]) /\ Len(certs') = Len(certs) + 1
        /\ \A i \in 1 .. Len(certs) + 1 : certs'[i] = IF i <= Len(certs) THEN certs[i] ELSE c
    BY <1>1, <2>1, <2>2, AppendProperties
  <2>4. \A i \in 1 .. Len(certs) : certs'[i] = certs[i] /\ i \in 1 .. Len(certs')
    BY <1>1, <2>3
  <2>5. certs'[Len(certs')] = c
    BY <1>1, <2>3
  <2>6. rotating'.at = "swap" /\ rotating'.old = rotating.old /\ rotating'.new = rotating.new
    BY <2>1 DEF KeysIInv
  <2>7. \A i \in 1 .. Len(certs) : certs[i].prev < seed
    <3> SUFFICES ASSUME NEW i \in 1 .. Len(certs) PROVE certs[i].prev < seed
      OBVIOUS
    <3>1. Len(certs) \in 1 .. Len(certs) /\ certs # <<>>
      BY <1>1
    <3>2. certs[Len(certs)].new = seed
      BY <1>5, <3>1 DEF LineIInv
    <3>3. certs[Len(certs)].prev \in 1 .. made /\ certs[i].prev \in 1 .. made /\ certs[Len(certs)].prev < seed
      BY <3>1, <3>2 DEF KeysIInv, ChainOK
    <3>4. i < Len(certs) => certs[i].prev < certs[Len(certs)].prev
      BY <3>1 DEF LineIInv, Rising
    <3>5. i = Len(certs) \/ i < Len(certs)
      BY <1>1
    <3> QED BY <1>1, <3>3, <3>4, <3>5
  <2>8. Rising(certs')
    <3> SUFFICES ASSUME NEW i \in 1 .. Len(certs'), NEW j \in 1 .. Len(certs'), i < j
                 PROVE  certs'[i].prev < certs'[j].prev
      BY DEF Rising
    <3>1. i \in 1 .. Len(certs) /\ certs'[i] = certs[i]
      BY <1>1, <2>3
    <3>2. CASE j <= Len(certs)
      <4>1. j \in 1 .. Len(certs) /\ certs'[j] = certs[j]
        BY <1>1, <2>3, <3>2
      <4> QED BY <3>1, <4>1 DEF LineIInv, Rising
    <3>3. CASE ~(j <= Len(certs))
      <4>1. certs'[j] = c
        BY <2>3, <3>3
      <4> QED BY <2>2, <2>7, <3>1, <4>1
    <3> QED BY <3>2, <3>3
  <2>9. Linked(certs')
    <3> SUFFICES ASSUME NEW i \in 1 .. Len(certs'), i < Len(certs')
                 PROVE  certs'[i].new = certs'[i + 1].prev
      BY DEF Linked
    <3>1. i \in 1 .. Len(certs) /\ certs'[i] = certs[i] /\ i + 1 \in 1 .. Len(certs')
      BY <1>1, <2>3
    <3>2. CASE i < Len(certs)
      <4>1. i + 1 \in 1 .. Len(certs)
        BY <1>1, <3>1, <3>2
      <4>2. certs'[i + 1] = certs[i + 1]
        BY <2>4, <4>1
      <4> QED BY <3>1, <3>2, <4>2 DEF LineIInv, Linked
    <3>3. CASE ~(i < Len(certs))
      <4>1. i = Len(certs) /\ certs # <<>> /\ i + 1 = Len(certs')
        BY <1>1, <2>3, <3>1, <3>3
      <4>2. certs[i].new = seed
        BY <1>5, <4>1 DEF LineIInv
      <4> QED BY <2>2, <2>5, <3>1, <4>1, <4>2
    <3> QED BY <3>2, <3>3
  <2>10. certs' # <<>>
    BY <1>1, <2>3, EmptySeq
  <2>11. LineIInv'
    BY <1>5, <2>1, <2>2, <2>5, <2>6, <2>8, <2>9, <2>10 DEF LineIInv, Rising, Linked
  <2>12. \A k : OnLine(k) => OnLine(k)'
    BY <2>1, <2>4 DEF OnLine
  <2>13. \A i \in 1 .. Len(certs') : i > Len(certs) => certs'[i].new > seed
    BY <1>1, <2>2, <2>3
  <2> QED BY <1>1, <2>1, <2>3, <2>4, <2>11, <2>12, <2>13 DEF LineGoesOn
<1>6. CASE RotateWrite /\ rotating.at = "swap"
  <2>1. certs' = certs /\ rotating'.at = "idle" /\ seed' = rotating.new
    BY <1>6 DEF RotateWrite, Writes, AtRest
  <2>2. rotating.old = seed /\ seed < seed' /\ seed # NoKeyYet /\ seed' # NoKeyYet
    <3>1. rotating.old = seed /\ rotating.old \in 1 .. made /\ rotating.new \in 0 .. made /\ rotating.old < rotating.new
      BY <1>6 DEF LineIInv, KeysIInv
    <3> QED BY <1>1, <2>1, <3>1 DEF NoKeyYet
  <2>3. certs # <<>> /\ certs[Len(certs)].prev = seed /\ certs[Len(certs)].new = seed' /\ Len(certs) \in 1 .. Len(certs)
    BY <1>1, <1>6, <2>1 DEF LineIInv
  <2>4. LineIInv'
    BY <2>1, <2>2, <2>3 DEF LineIInv, Rising, Linked
  <2>5. \A k : OnLine(k) => OnLine(k)'
    BY <2>1, <2>3 DEF OnLine
  <2>6. seed <= seed'
    <3>1. seed' \in 0 .. made
      BY <2>1 DEF KeysIInv
    <3> QED BY <1>1, <2>2, <3>1
  <2> QED BY <1>1, <2>1, <2>4, <2>5, <2>6 DEF LineGoesOn
<1>7. ~RotateStop /\ ~DatabaseLost
  BY DEF RotateStop, DatabaseLost, KeysIInv
<1>8. RotateWrite => rotating.at \in {"append", "swap"}
  BY DEF RotateWrite, Writes
<1>9. LoadSeed => rotating' = rotating /\ certs' = certs
  BY DEF LoadSeed
<1>10. LoadChain \/ Restart \/ (\E c \in Client : Pin(c)) \/ UNCHANGED rotVars
         => certs' = certs /\ seed' = seed /\ rotating' = rotating
  BY DEF LoadChain, Restart, Pin, rotVars
<1> QED BY <1>2, <1>3, <1>4, <1>5, <1>6, <1>7, <1>8, <1>9, <1>10 DEF RotNext

\* A loaded pair: every certificate that leads up to the key is in the chain.
CaughtUp ==
  /\ Len(served.chain) <= Len(certs)
  /\ \A i \in 1 .. Len(served.chain) : served.chain[i] = certs[i]
  /\ \A i \in 1 .. Len(certs) : certs[i].new <= served.key => i <= Len(served.chain)

\* No client is ahead of the key that signs, or of the key that is served.
PinsBehind ==
  \A c \in Client : pin[c] # NoKeyYet => /\ OnLine(pin[c]) /\ pin[c] <= seed
                                         /\ served.key # NoKeyYet => pin[c] <= served.key

FollowIInv ==
  stops = 0 => /\ LineIInv
               /\ Len(certs) <= MaxChain => refused = {}
               /\ served.key # NoKeyYet => OnLine(served.key) /\ served.key <= seed
               /\ served.ready => served.key # NoKeyYet /\ CaughtUp
               /\ PinsBehind

\* A client behind the served key walks to it.
LEMMA BehindReaches ==
  ASSUME KeysIInv, stops = 0, FollowIInv, Len(certs) <= MaxChain, NEW c \in Client,
         pin[c] # NoKeyYet, served.key # NoKeyYet, served.ready
  PROVE  WalkChain(pin[c], served.key, served.chain)
<1> DEFINE p == pin[c]
           k == served.key
           chain == served.chain
<1>1. /\ LineIInv /\ CaughtUp /\ OnLine(k) /\ k <= seed /\ OnLine(p) /\ p <= k
  BY DEF FollowIInv, PinsBehind
<1>2. /\ p \in 1 .. made /\ k \in 1 .. made /\ made \in Nat /\ seed \in Nat
  <2>1. made \in Nat /\ seed \in 0 .. made /\ p \in 0 .. made /\ k \in 0 .. made
    BY LenProperties DEF KeysIInv, made
  <2> QED BY <2>1 DEF NoKeyYet
<1>3. ChainOK(certs) /\ ChainOK(chain) /\ Len(certs) \in Nat /\ Len(chain) \in Nat
  BY LenProperties DEF KeysIInv, ChainOK
<1>4. MaxChain \in Nat /\ Len(chain) <= MaxChain
  BY <1>1, <1>3, MaxChainType DEF CaughtUp
<1>5. Linked(certs) /\ Rising(certs)
  BY <1>1 DEF LineIInv
<1>6. Linked(chain) /\ Rising(chain)
  <2>1. \A i \in 1 .. Len(chain) : i \in 1 .. Len(certs) /\ chain[i] = certs[i]
    BY <1>1, <1>3 DEF CaughtUp
  <2>2. \A i \in 1 .. Len(chain) : i < Len(chain) => i < Len(certs) /\ i + 1 \in 1 .. Len(chain)
    BY <1>1, <1>3 DEF CaughtUp
  <2>3. Linked(chain)
    BY <1>5, <2>1, <2>2 DEF Linked
  <2>4. Rising(chain)
    BY <1>5, <2>1 DEF Rising
  <2> QED BY <2>3, <2>4
<1>7. CASE p = k
  <2>1. Walked(p, chain)[0] = p /\ 0 \in 0 .. Len(chain) + 1
    BY <1>3, WalkedHops
  <2> QED BY <1>4, <1>7, <2>1 DEF WalkChain
<1>8. CASE p # k
  <2>1. PICK i \in 1 .. Len(certs) : certs[i].prev = p
    BY <1>1, <1>2, <1>8 DEF OnLine
  <2>2. \E m \in 1 .. Len(certs) : i <= m /\ certs[m].new = k
    <3>1. ASSUME NEW j \in 1 .. Len(certs), certs[j].prev = k
          PROVE  \E m \in 1 .. Len(certs) : i <= m /\ certs[m].new = k
      <4>1. i < j
        <5>1. ~(j < i) /\ j # i
          <6>1. j # i
            BY <1>8, <2>1, <3>1
          <6>2. j < i => certs[j].prev < certs[i].prev
            BY <1>5 DEF Rising
          <6> QED BY <1>1, <1>2, <2>1, <3>1, <6>1, <6>2
        <5> QED BY <5>1
      <4>2. j - 1 \in 1 .. Len(certs) /\ j - 1 < Len(certs) /\ (j - 1) + 1 = j /\ i <= j - 1
        BY <1>3, <4>1
      <4>3. certs[j - 1].new = k
        BY <1>5, <3>1, <4>2 DEF Linked
      <4> QED BY <4>2, <4>3
    <3>2. CASE k = seed
      <4>1. certs # <<>> /\ Len(certs) \in 1 .. Len(certs) /\ i <= Len(certs)
        BY <1>3, <2>1, EmptySeq
      <4>2. CASE rotating.at = "swap"
        <5>1. certs[Len(certs)].prev = k
          BY <1>1, <3>2, <4>2 DEF LineIInv
        <5> QED BY <3>1, <4>1, <5>1
      <4>3. CASE rotating.at # "swap"
        <5>1. certs[Len(certs)].new = k
          BY <1>1, <3>2, <4>1, <4>3 DEF LineIInv
        <5> QED BY <4>1, <5>1
      <4> QED BY <4>2, <4>3
    <3> QED BY <1>1, <3>1, <3>2 DEF OnLine
  <2>3. PICK m \in 1 .. Len(certs) : i <= m /\ certs[m].new = k
    BY <2>2
  <2>4. m <= Len(chain)
    BY <1>1, <1>2, <2>3 DEF CaughtUp
  <2>5. i \in 1 .. Len(chain) /\ m \in 1 .. Len(chain) /\ i <= m
    BY <1>3, <2>3, <2>4
  <2>6. chain[i].prev = p /\ chain[m].new = k
    BY <1>1, <2>1, <2>3, <2>5 DEF CaughtUp
  <2>7. \E n \in 0 .. Len(chain) + 1 : Walked(chain[i].prev, chain)[n] = chain[m].new
    <3> HIDE DEF chain
    <3> QED BY <1>2, <1>3, <1>6, <2>5, WalkReaches
  <2>8. \E n \in 0 .. Len(chain) + 1 : Walked(p, chain)[n] = k
    BY <2>6, <2>7
  <2> QED BY <1>4, <2>8 DEF WalkChain
<1> QED BY <1>7, <1>8

LEMMA FollowNext ==
  ASSUME KeysIInv, KeysIInv', FollowIInv, [RotNext]_rotVars
  PROVE  FollowIInv'
<1> SUFFICES ASSUME stops' = 0
             PROVE  (/\ LineIInv
                     /\ Len(certs) <= MaxChain => refused = {}
                     /\ served.key # NoKeyYet => OnLine(served.key) /\ served.key <= seed
                     /\ served.ready => served.key # NoKeyYet /\ CaughtUp
                     /\ PinsBehind)'
  BY DEF FollowIInv
<1>1. stops = 0 /\ ~RotateStop /\ ~DatabaseLost
  BY DEF RotNext, RotateLoad, RotateWrite, RotateStop, DatabaseLost, LoadSeed, LoadChain, Restart, Pin, rotVars, KeysIInv
<1>2. /\ LineIInv /\ PinsBehind /\ (Len(certs) <= MaxChain => refused = {})
      /\ (served.key # NoKeyYet => OnLine(served.key) /\ served.key <= seed)
      /\ (served.ready => served.key # NoKeyYet /\ CaughtUp)
  BY <1>1 DEF FollowIInv
<1>3. LineIInv' /\ LineGoesOn
  BY <1>2, LineNext
<1>4. /\ Len(certs) \in Nat /\ Len(certs') \in Nat /\ seed \in Nat /\ seed' \in Nat /\ made \in Nat /\ made' \in Nat
      /\ served.key \in Nat /\ served'.key \in Nat /\ Len(served.chain) \in Nat /\ MaxChain \in Nat
      /\ pin \in [Client -> Nat] /\ pin' \in [Client -> Nat] /\ Len(certs) <= Len(certs') /\ seed <= seed'
  <2>1. Len(line) \in Nat /\ Len(line') \in Nat
    BY LenProperties DEF KeysIInv
  <2>2. made \in Nat /\ made' \in Nat
    BY <2>1 DEF made
  <2>3. Len(certs) \in Nat /\ Len(certs') \in Nat /\ Len(served.chain) \in Nat
    BY LenProperties DEF KeysIInv, ChainOK
  <2>4. /\ seed \in 0 .. made /\ seed' \in 0 .. made' /\ served.key \in 0 .. made /\ served'.key \in 0 .. made'
        /\ pin \in [Client -> 0 .. made] /\ pin' \in [Client -> 0 .. made']
    BY DEF KeysIInv
  <2>5. Len(certs) <= Len(certs') /\ seed <= seed'
    BY <1>3 DEF LineGoesOn
  <2> QED BY <2>2, <2>3, <2>4, <2>5, MaxChainType
<1>5. CASE pin' = pin /\ refused' = refused /\ served' = served
  <2>1. CaughtUp => CaughtUp'
    <3> SUFFICES ASSUME CaughtUp, NEW i \in 1 .. Len(certs'), certs'[i].new <= served.key
                 PROVE  i <= Len(served.chain)
      <4>1. ASSUME CaughtUp PROVE /\ Len(served.chain) <= Len(certs')
                                  /\ \A i \in 1 .. Len(served.chain) : served.chain[i] = certs'[i]
        BY <1>3, <1>4, <4>1 DEF CaughtUp, LineGoesOn
      <4> QED BY <1>5, <4>1 DEF CaughtUp
    <3>1. CASE i <= Len(certs)
      <4>1. i \in 1 .. Len(certs) /\ certs'[i] = certs[i]
        BY <1>3, <1>4, <3>1 DEF LineGoesOn
      <4> QED BY <4>1 DEF CaughtUp
    <3>2. CASE ~(i <= Len(certs))
      <4>0. ChainOK(certs)'
        BY DEF KeysIInv
      <4>1. certs'[i].new > seed /\ certs'[i].new \in Nat
        <5>1. certs'[i].new \in 1 .. made'
          BY <4>0 DEF ChainOK
        <5>2. certs'[i].new > seed
          BY <1>3, <1>4, <3>2 DEF LineGoesOn
        <5> QED BY <1>4, <5>1, <5>2
      <4>2. served.key <= seed
        BY <1>2, <1>4 DEF NoKeyYet
      <4> QED BY <1>4, <4>1, <4>2
    <3> QED BY <3>1, <3>2
  <2>2. PinsBehind'
    <3> SUFFICES ASSUME NEW c \in Client, pin[c] # NoKeyYet
                 PROVE  OnLine(pin[c])' /\ pin[c] <= seed' /\ (served.key # NoKeyYet => pin[c] <= served.key)
      BY <1>5 DEF PinsBehind
    <3>1. OnLine(pin[c]) /\ pin[c] <= seed /\ (served.key # NoKeyYet => pin[c] <= served.key) /\ pin[c] \in Nat
      BY <1>2, <1>4 DEF PinsBehind
    <3>2. OnLine(pin[c])'
      BY <1>3, <1>5, <3>1 DEF LineGoesOn
    <3> QED BY <1>4, <3>1, <3>2
  <2>3. Len(certs') <= MaxChain => refused' = {}
    BY <1>2, <1>4, <1>5
  <2>4. served'.key # NoKeyYet => OnLine(served.key)' /\ served'.key <= seed'
    <3> DEFINE k == served.key
    <3> SUFFICES ASSUME k # NoKeyYet PROVE OnLine(served.key)' /\ k <= seed'
      BY <1>5
    <3>1. OnLine(k) /\ k <= seed /\ k \in Nat
      BY <1>2, <1>4
    <3>2. OnLine(served.key)'
      BY <1>3, <1>5, <3>1 DEF LineGoesOn, OnLine
    <3> QED BY <1>4, <3>1, <3>2
  <2> QED BY <1>2, <1>3, <1>5, <2>1, <2>2, <2>3, <2>4
<1>6. CASE LoadSeed
  <2>1. served' = [key |-> seed', chain |-> <<>>, ready |-> FALSE] /\ UNCHANGED <<certs, pin, refused>> /\ seed' # NoKeyYet
    BY <1>4, <1>6 DEF LoadSeed, NoKeyYet
  <2>2. OnLine(served.key)' /\ served'.key = seed'
    <3>1. served'.key = seed'
      BY <2>1
    <3> QED BY <3>1 DEF OnLine
  <2>3. PinsBehind'
    <3> SUFFICES ASSUME NEW c \in Client, pin[c] # NoKeyYet
                 PROVE  OnLine(pin[c])' /\ pin[c] <= seed'
      BY <2>1, <2>2 DEF PinsBehind
    <3>1. OnLine(pin[c]) /\ pin[c] <= seed /\ pin[c] \in Nat
      BY <1>2, <1>4 DEF PinsBehind
    <3>2. OnLine(pin[c])'
      BY <1>3, <2>1, <3>1 DEF LineGoesOn
    <3> QED BY <1>4, <3>1, <3>2
  <2> QED BY <1>2, <1>3, <1>4, <2>1, <2>2, <2>3
<1>7. CASE LoadChain
  <2>1. served.key # NoKeyYet /\ served' = [served EXCEPT !.chain = certs, !.ready = TRUE] /\ UNCHANGED <<seed, certs, pin, refused>>
    BY <1>7 DEF LoadChain
  <2>2. served'.key = served.key /\ served'.chain = certs
    <3>1. served \in [key : {served.key}, chain : {served.chain}, ready : {served.ready}]
      BY DEF KeysIInv
    <3> QED BY <2>1, <3>1
  <2>3. CaughtUp'
    BY <1>4, <2>1, <2>2 DEF CaughtUp
  <2>4. OnLine(served.key)' /\ PinsBehind'
    <3>1. OnLine(served.key)'
      BY <1>2, <2>1, <2>2 DEF OnLine
    <3>2. PinsBehind'
      BY <1>2, <2>1, <2>2 DEF OnLine, PinsBehind
    <3> QED BY <3>1, <3>2
  <2> QED BY <1>2, <1>3, <2>1, <2>2, <2>3, <2>4
<1>8. CASE Restart
  <2>1. served'.key = NoKeyYet /\ ~served'.ready /\ UNCHANGED <<seed, certs, pin, refused>>
    BY <1>8 DEF Restart, NotLoaded
  <2>2. PinsBehind'
    BY <1>2, <2>1 DEF OnLine, PinsBehind
  <2> QED BY <1>2, <1>3, <2>1, <2>2
<1>9. ASSUME NEW c \in Client, Pin(c)
      PROVE  /\ Len(certs') <= MaxChain => refused' = {}
             /\ served'.key # NoKeyYet => OnLine(served.key)' /\ served'.key <= seed'
             /\ served'.ready => served'.key # NoKeyYet /\ CaughtUp'
             /\ PinsBehind'
  <2>1. UNCHANGED <<seed, certs, served>> /\ served.key # NoKeyYet /\ served.ready
    BY <1>9 DEF Pin
  <2>2. \/ pin' = [pin EXCEPT ![c] = served.key] /\ refused' = refused \ {c}
        \/ /\ pin' = pin /\ refused' = refused \cup {c} /\ pin[c] # NoKeyYet
           /\ ~WalkChain(pin[c], served.key, served.chain)
    BY <1>9 DEF Pin
  <2>3. Len(certs') <= MaxChain => refused' = {}
    <3>1. CASE pin' = [pin EXCEPT ![c] = served.key] /\ refused' = refused \ {c}
      BY <1>2, <2>1, <3>1
    <3>2. CASE refused' = refused \cup {c} /\ pin[c] # NoKeyYet /\ ~WalkChain(pin[c], served.key, served.chain)
      BY <1>1, <2>1, <3>2, BehindReaches
    <3> QED BY <2>2, <3>1, <3>2
  <2>4. OnLine(served.key) /\ served.key <= seed
    BY <1>2, <2>1
  <2>5. PinsBehind'
    <3> SUFFICES ASSUME NEW d \in Client, pin'[d] # NoKeyYet
                 PROVE  OnLine(pin'[d]) /\ pin'[d] <= seed /\ (served.key # NoKeyYet => pin'[d] <= served.key)
      BY <2>1 DEF PinsBehind, OnLine
    <3>1. pin'[d] = pin[d] \/ pin'[d] = served.key
      BY <1>4, <2>2
    <3> QED BY <1>2, <1>4, <2>4, <3>1 DEF PinsBehind
  <2>6. OnLine(served.key)' /\ served'.key <= seed' /\ CaughtUp' /\ served'.key # NoKeyYet
    BY <1>2, <2>1, <2>4 DEF OnLine, CaughtUp
  <2> QED BY <2>3, <2>5, <2>6
<1>10. RotateLoad \/ RotateWrite \/ UNCHANGED rotVars => pin' = pin /\ refused' = refused /\ served' = served
  BY DEF RotateLoad, RotateWrite, rotVars
<1> QED BY <1>1, <1>3, <1>5, <1>6, <1>7, <1>8, <1>9, <1>10 DEF RotNext

LEMMA FollowInit == RotInit => FollowIInv
<1> SUFFICES ASSUME RotInit PROVE FollowIInv
  OBVIOUS
<1>1. Len(<<>>) = 0 /\ seed = 0 /\ certs = <<>> /\ rotating.at = "idle" /\ served.key = 0 /\ ~served.ready
      /\ pin = [c \in Client |-> 0] /\ refused = {} /\ NoKeyYet = 0
  BY EmptySeq DEF RotInit, AtRest, NotLoaded, NoKeyYet
<1>2. Linked(certs) /\ Rising(certs)
  BY <1>1 DEF Linked, Rising
<1> QED BY <1>1, <1>2 DEF FollowIInv, LineIInv, PinsBehind

\* rotate.rs:24 and rotation.rs:9, for any clients, keys and chain bound: an uncut history of
\* rotations is followed by every client that pinned an earlier key, whatever the coordinator
\* reads, caches or restarts in between, and no client re-pins across databases.
THEOREM RotationIsSafe == RotSpec => RotationHolds
<1> DEFINE I == KeysIInv /\ FollowIInv
<1>1. RotInit => I
  BY KeysInit, FollowInit
<1>2. I /\ [RotNext]_rotVars => I'
  BY KeysNext, FollowNext
<1>3. I => RotTypeOK /\ RotationIsFollowed
  BY DEF KeysIInv, FollowIInv, RotTypeOK, RotationIsFollowed, ChainOK
<1>4. I /\ I' /\ [RotNext]_rotVars => [\A c \in Client : pin[c] # NoKeyYet => line'[pin'[c]] = line[pin[c]]]_rotVars
  BY PinStays
<1> QED BY <1>1, <1>2, <1>3, <1>4, PTL DEF RotSpec, RotationHolds, TrustStaysInLine
=============================================================================
