----------------------------- MODULE Challenges -----------------------------
(***************************************************************************)
(* The ACME challenge records a coordinator publishes for its devices, the *)
(* weekly certificate budget they are charged to, and the answers its DNS  *)
(* zone gives from them (coordinator/src/zone.rs, acme_challenge in        *)
(* api/acme.rs).  One lock guards the store, so every call is a step.  A   *)
(* name is held by the device whose row, service label or primary pointer  *)
(* it is derived from; which rows those are is the module Devices.         *)
(***************************************************************************)
EXTENDS Naturals, Sequences, FiniteSets

CONSTANTS Orderer,       \* devices that order certificates
          DnsName,       \* challenge names
          Txt,           \* challenge values
          ChallengeTtl,  \* CHALLENGE_TTL
          Window,        \* ISSUANCE_WINDOW
          MaxWeek,       \* max_certs_per_week
          MaxDevice,     \* MAX_CERTS_PER_DEVICE_PER_WEEK
          MaxLive,       \* MAX_LIVE_CHALLENGES
          MaxValues,     \* MAX_VALUES_PER_NAME
          MaxTime,       \* bound on time
          MaxOrder,      \* bound on the orders charged
          MaxMove,       \* bound on the names that change hands
          MaxRestart     \* bound on restarts

ASSUME ChallengeLimits ==
  /\ IsFiniteSet(DnsName) /\ MaxValues \in Nat \ {0}
  /\ {ChallengeTtl, Window, MaxWeek, MaxDevice, MaxLive} \subseteq Nat

VARIABLES now, live, issued, reply,
          holder,   \* whose a name is, by the store's rows
          heirs,    \* history: names that changed hands, and who had them before
          posters,  \* history: who published at a name
          spent,    \* history: every order ever charged
          posted,   \* history: when a name was last published or refreshed
          boots

chalVars == <<now, live, issued, reply, holder, heirs, posters, spent, posted, boots>>

Dead == [values |-> <<>>, expires |-> 0]
NoReply == [code |-> "none", values |-> <<>>, name |-> "none"]
LiveNames == {n \in DnsName : live[n] # Dead}

ChalInit ==
  /\ now = 1
  /\ live = [n \in DnsName |-> Dead]
  /\ issued = {} /\ spent = {} /\ posted = [n \in DnsName |-> 0]
  /\ holder \in [DnsName -> Orderer] /\ heirs = {} /\ posters = {}
  /\ reply = NoReply /\ boots = 0

\* Inner::prune: what is still live, and which issuances are in the window.
Kept(n) == live[n] # Dead /\ live[n].expires > now
PrunedLive == [n \in DnsName |-> IF Kept(n) THEN live[n] ELSE Dead]

InWindow(i) == now - i.at < Window
PrunedIssued == {i \in issued : InWindow(i)}

\* Live::push: an old value makes room only past the cap on a name.
Push(l, v) ==
  LET has == \E k \in 1 .. Len(l.values) : l.values[k] = v
      room == IF Len(l.values) >= MaxValues THEN Tail(l.values) ELSE l.values
  IN [values |-> IF has THEN l.values ELSE Append(room, v), expires |-> now + ChallengeTtl]

\* Something of the order is not published yet.
Novel(order, l) == \E r \in order : \A k \in 1 .. Len(l[r.name].values) : l[r.name].values[k] # r.value
NamesIn(order) == {r.name : r \in order}

\* Mutant of DeviceBudget: the device's own slice is not looked at.
DeviceBudgetOpen(d) == TRUE

DeviceBudget(d) ==
  Cardinality({i \in PrunedIssued : i.dev = d}) < (IF MaxDevice < MaxWeek THEN MaxDevice ELSE MaxWeek)

Room(order) ==
  Cardinality({n \in DnsName : Kept(n)} \cup NamesIn(order)) <= MaxLive

Stamp(order, t) == [n \in DnsName |-> IF n \in NamesIn(order) THEN t ELSE posted[n]]

\* acme_challenge: a value for a name the device does not hold has nowhere to land.
Derived(d, order) == {r \in order : holder[r.name] = d}

\* publish_at: nothing new refreshes the expiry and is free.
Republish(d, order) ==
  /\ order # {} /\ ~Novel(order, PrunedLive)
  /\ live' = [n \in DnsName |-> IF n \in NamesIn(order)
                                  THEN [PrunedLive[n] EXCEPT !.expires = now + ChallengeTtl] ELSE PrunedLive[n]]
  /\ issued' = PrunedIssued
  /\ posted' = Stamp(order, now)
  /\ reply' = NoReply /\ UNCHANGED <<now, holder, heirs, posters, spent, boots>>

\* One value per name of the order: a device's own name, its alias, its services.
Publish(d, order) ==
  /\ Novel(order, PrunedLive)
  /\ DeviceBudget(d) /\ Cardinality(PrunedIssued) < MaxWeek /\ Room(order)
  /\ Cardinality(spent) < MaxOrder
  /\ live' = [n \in DnsName |-> IF n \in NamesIn(order)
                                  THEN Push(PrunedLive[n], (CHOOSE r \in order : r.name = n).value) ELSE PrunedLive[n]]
  /\ LET i == [dev |-> d, at |-> now, id |-> Cardinality(spent)] IN
     /\ issued' = PrunedIssued \cup {i}
     /\ spent' = spent \cup {i}
  /\ posted' = Stamp(order, now)
  /\ reply' = NoReply /\ posters' = posters \cup {<<n, d>> : n \in NamesIn(order)}
  /\ UNCHANGED <<now, holder, heirs, boots>>

\* Any refusal has pruned the store and nothing else.
Refuse(d, order) ==
  /\ Novel(order, PrunedLive)
  /\ ~DeviceBudget(d) \/ Cardinality(PrunedIssued) >= MaxWeek \/ ~Room(order)
  /\ live' = PrunedLive /\ issued' = PrunedIssued /\ reply' = NoReply
  /\ UNCHANGED <<now, holder, heirs, posters, spent, posted, boots>>

\* Zone::answer for a name below the apex.
Query(n, txt) ==
  /\ reply' = CASE ~Kept(n) -> [code |-> "NXDOMAIN", values |-> <<>>, name |-> n]
                [] Kept(n) /\ txt -> [code |-> "answer", values |-> live[n].values, name |-> n]
                [] OTHER -> [code |-> "NODATA", values |-> <<>>, name |-> n]
  /\ live' = PrunedLive /\ issued' = PrunedIssued
  /\ UNCHANGED <<now, holder, heirs, posters, spent, posted, boots>>

\* An hour, or a week, goes by.
Pass ==
  /\ now < MaxTime
  /\ now' = now + 1 /\ reply' = NoReply
  /\ UNCHANGED <<live, issued, holder, heirs, posters, spent, posted, boots>>

\* The store is in memory only.
Reboot ==
  /\ boots < MaxRestart
  /\ boots' = boots + 1
  /\ live' = [n \in DnsName |-> Dead] /\ issued' = {} /\ reply' = NoReply
  /\ UNCHANGED <<now, holder, heirs, posters, spent, posted>>

\* A rename, a service registered elsewhere or a new primary: the name is another device's.
MoveName(n, d) ==
  /\ holder[n] # d /\ Cardinality(heirs) < MaxMove
  /\ heirs' = heirs \cup {<<n, holder[n]>>}
  /\ holder' = [holder EXCEPT ![n] = d] /\ reply' = NoReply
  /\ UNCHANGED <<now, live, issued, posters, spent, posted, boots>>

\* An order asks for one value per name it names.
Orders == {o \in SUBSET [name : DnsName, value : Txt] :
             o # {} /\ \A r, s \in o : r.name = s.name => r = s}

ChalNext ==
  \/ \E d \in Orderer, o \in Orders :
       LET own == Derived(d, o) IN Publish(d, own) \/ Republish(d, own) \/ Refuse(d, own)
  \/ \E n \in DnsName, d \in Orderer : MoveName(n, d)
  \/ \E n \in DnsName, txt \in BOOLEAN : Query(n, txt)
  \/ Pass \/ Reboot

ChalSpec == ChalInit /\ [][ChalNext]_chalVars

-----------------------------------------------------------------------------
\* The table holds at most MaxLive names, a name at most MaxValues distinct values.
ChalTypeOK ==
  /\ Cardinality(LiveNames) <= MaxLive
  /\ \A n \in LiveNames : /\ Len(live[n].values) \in 1 .. MaxValues
                          /\ \A j, k \in 1 .. Len(live[n].values) : live[n].values[j] = live[n].values[k] => j = k
  /\ issued \subseteq spent

Within(t) == {i \in spent : i.at <= t /\ t - i.at < Window}

\* acme.rs:9: nobody publishes a challenge for a name that was never derived from its rows.
OwnNamesOnly == \A p \in posters : holder[p[1]] = p[2] \/ p \in heirs

\* zone.rs:57: in every window of a week the deployment is charged at most its budget, and
\* a device at most its slice, for as long as the coordinator runs.
BudgetsHold ==
  boots = 0 => \A t \in 1 .. now :
    /\ Cardinality(Within(t)) <= MaxWeek
    /\ \A d \in Orderer : Cardinality({i \in Within(t) : i.dev = d}) <= MaxDevice

\* zone.rs:229 and zone.rs:291: nobody's validation in flight is broken: while the coordinator
\* runs, a live name keeps its values until it expires, or until newer ones of its own fill it.
InFlightIsKept ==
  [][boots' = boots => \A n \in DnsName : Kept(n) =>
       \A k \in 1 .. Len(live[n].values) :
         \/ \E j \in 1 .. Len(live'[n].values) : live'[n].values[j] = live[n].values[k]
         \/ k = 1 /\ Len(live[n].values) = MaxValues /\ live'[n] # Dead]_chalVars

\* zone.rs:34: an answer holds only values of a name published, or refreshed, within its TTL.
AnswersAreLive ==
  reply.code = "answer" => posted[reply.name] > 0 /\ now - posted[reply.name] < ChallengeTtl

\* What the zone promises of challenges: its tables and the authority's budget stay within
\* their limits, and neither costs a device an answer it is entitled to.
ChallengesHold ==
  [](ChalTypeOK /\ OwnNamesOnly /\ BudgetsHold /\ AnswersAreLive) /\ InFlightIsKept
=============================================================================
