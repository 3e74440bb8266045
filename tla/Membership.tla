----------------------------- MODULE Membership -----------------------------
(***************************************************************************)
(* Who holds which network role, as the coordinator knows it: the member   *)
(* cache and its single-flight gates (discord.rs), the roleless memo       *)
(* (roleless.rs), the gateway's events (commands.rs), and the part of a    *)
(* snapshot build that asks (holds_any_network_role, resolve_membership in *)
(* api/snapshot.rs).                                                       *)
(*                                                                         *)
(* One user, with one device, against guilds that register one network     *)
(* each.  Discord's own state changes under the coordinator; a lookup is   *)
(* split where its answer is computed, where it is stored and where it is  *)
(* used, because every one of those is behind an await.                    *)
(***************************************************************************)
EXTENDS Naturals, Sequences, FiniteSets

CONSTANTS Guild,      \* guilds with a registered network
          Build,      \* snapshot builds of the user that may run at once
          MaxChange,  \* bound on the changes Discord makes to the membership
          MaxFail,    \* bound on the lookups that fail and the builds cut short
          MaxMiss     \* bound on the events the gateway misses

VARIABLES standing,   \* Discord's truth: the user's standing in each guild
          feed,       \* gateway events sent and not handled yet, in order
          cached,     \* member_cache: the unexpired answer per guild
          memo,       \* an unexpired entry in RolelessMemo
          rows,       \* guilds whose presence map has a row of the device
          gates,      \* Flight::gates: guild -> the gate in the map, or NoGate
          locked,     \* gates some caller is inside
          mb,         \* per build: where it is
          asking,     \* per build: the guild it is asking about
          clone,      \* per build: the gate it holds a clone of
          answer,     \* per build: what its own lookup was answered
          todo,       \* per build: guilds still to walk
          found,      \* per build: guilds whose role it found held
          failed,     \* per build: whether a lookup of this walk failed
          changes, fails, misses

memberVars == <<standing, feed, cached, memo, rows, gates, locked, mb, asking, clone,
                answer, todo, found, failed, changes, fails, misses>>

Standing == {"none", "member", "role"}
NoAnswer == "unknown"
Failure  == "failure"
NoGate   == 0
Gate     == 1 .. Cardinality(Build)
NoGuild  == "no guild"

\* The event types the shard asks for; next_event filters out every other one.
Flags == {"update", "remove"}

MemberInit ==
  /\ standing \in [Guild -> Standing]
  /\ feed = <<>>
  /\ cached = [g \in Guild |-> NoAnswer]
  /\ memo = FALSE
  /\ rows = {}
  /\ gates = [g \in Guild |-> NoGate]
  /\ locked = {}
  /\ mb = [b \in Build |-> "idle"]
  /\ asking = [b \in Build |-> NoGuild]
  /\ clone = [b \in Build |-> NoGate]
  /\ answer = [b \in Build |-> NoAnswer]
  /\ todo = [b \in Build |-> {}]
  /\ found = [b \in Build |-> {}]
  /\ failed = [b \in Build |-> FALSE]
  /\ changes = 0 /\ fails = 0 /\ misses = 0

-----------------------------------------------------------------------------
(* Discord and the gateway.                                                *)

EventKind(old, new) ==
  CASE old = "none" -> "add" [] new = "none" -> "remove" [] OTHER -> "update"

\* An admin moves the user; the gateway will hear of it.
Change(g, s) ==
  /\ changes < MaxChange
  /\ s # standing[g]
  /\ changes' = changes + 1
  /\ feed' = Append(feed, [kind |-> EventKind(standing[g], s), guild |-> g, holds |-> s = "role"])
  /\ standing' = [standing EXCEPT ![g] = s]
  /\ UNCHANGED <<cached, memo, rows, gates, locked, mb, asking, clone, answer, todo, found, failed, fails, misses>>

\* A gateway gap: the event never arrives.
Miss ==
  /\ feed # <<>> /\ misses < MaxMiss
  /\ feed' = Tail(feed)
  /\ misses' = misses + 1
  /\ UNCHANGED <<standing, cached, memo, rows, gates, locked, mb, asking, clone, answer, todo, found, failed, changes, fails>>

\* The events that drop what is cached about the user: `revoke` and the MemberAdd arm.
Forgets(kind) == kind \in Flags

\* run_gateway's loop body: both memos forget, then the user is evicted from the
\* networks of the guild whose role the event says is not held.
Deliver ==
  /\ feed # <<>>
  /\ LET e == Head(feed) IN
     /\ memo' = (memo /\ ~Forgets(e.kind))
     /\ cached' = IF Forgets(e.kind) THEN [cached EXCEPT ![e.guild] = NoAnswer] ELSE cached
     /\ rows' = IF e.kind \in Flags /\ ~e.holds THEN rows \ {e.guild} ELSE rows
  /\ feed' = Tail(feed)
  /\ UNCHANGED <<standing, gates, locked, mb, asking, clone, answer, todo, found, failed, changes, fails, misses>>

-----------------------------------------------------------------------------
(* A build.                                                                *)

\* build_snapshot reads the memo; a fresh one stands for an empty walk.
Begin(b) ==
  /\ mb[b] = "idle"
  /\ mb' = [mb EXCEPT ![b] = IF memo THEN "skip" ELSE "walk"]
  /\ todo' = [todo EXCEPT ![b] = IF memo THEN {} ELSE Guild]
  /\ UNCHANGED <<standing, feed, cached, memo, rows, gates, locked, asking, clone, answer, found, failed, changes, fails, misses>>

\* Flight::dedup, the first look: a fresh entry answers at once.
Hit(b, g) ==
  /\ mb[b] = "walk" /\ g \in todo[b] /\ cached[g] # NoAnswer
  /\ mb' = [mb EXCEPT ![b] = "use"]
  /\ asking' = [asking EXCEPT ![b] = g]
  /\ answer' = [answer EXCEPT ![b] = cached[g]]
  /\ UNCHANGED <<standing, feed, cached, memo, rows, gates, locked, clone, todo, found, failed, changes, fails, misses>>

\* A miss: clone the guild's gate, putting a new one in the map if it has none.
Queue(b, g) ==
  /\ mb[b] = "walk" /\ g \in todo[b] /\ cached[g] = NoAnswer
  /\ \E n \in Gate :
       /\ gates[g] # NoGate => n = gates[g]
       /\ gates[g] = NoGate => \A c \in Build : clone[c] # n /\ \A h \in Guild : gates[h] # n
       /\ gates' = [gates EXCEPT ![g] = n]
       /\ clone' = [clone EXCEPT ![b] = n]
  /\ mb' = [mb EXCEPT ![b] = "queued"]
  /\ asking' = [asking EXCEPT ![b] = g]
  /\ UNCHANGED <<standing, feed, cached, memo, rows, locked, answer, todo, found, failed, changes, fails, misses>>

\* Through the gate: look again, and ask Discord only if nobody filled the cache.
Enter(b) ==
  /\ mb[b] = "queued" /\ clone[b] \notin locked
  /\ LET hit == cached[asking[b]] IN
     IF hit # NoAnswer
       THEN /\ mb' = [mb EXCEPT ![b] = "leave"]
            /\ answer' = [answer EXCEPT ![b] = hit]
            /\ UNCHANGED locked
       ELSE /\ mb' = [mb EXCEPT ![b] = "fetch"]
            /\ locked' = locked \cup {clone[b]}
            /\ UNCHANGED answer
  /\ UNCHANGED <<standing, feed, cached, memo, rows, gates, asking, clone, todo, found, failed, changes, fails, misses>>

\* Discord computes its answer, or the lookup fails on the way.
Answered(b) ==
  /\ mb[b] = "fetch"
  /\ \/ answer' = [answer EXCEPT ![b] = standing[asking[b]]] /\ UNCHANGED fails
     \/ /\ fails < MaxFail
        /\ fails' = fails + 1
        /\ answer' = [answer EXCEPT ![b] = Failure]
  /\ mb' = [mb EXCEPT ![b] = "store"]
  /\ UNCHANGED <<standing, feed, cached, memo, rows, gates, locked, asking, clone, todo, found, failed, changes, misses>>

\* What store_member leaves in the cache: a 404 is an answer, any other failure is not.
Outcome(a, old) == IF a = Failure THEN old ELSE a

Store(b) ==
  /\ mb[b] = "store"
  /\ cached' = [cached EXCEPT ![asking[b]] = Outcome(answer[b], @)]
  /\ locked' = locked \ {clone[b]}
  /\ failed' = [failed EXCEPT ![b] = @ \/ answer[b] = Failure]
  /\ answer' = [answer EXCEPT ![b] = IF @ = Failure THEN "none" ELSE @]
  /\ mb' = [mb EXCEPT ![b] = "leave"]
  /\ UNCHANGED <<standing, feed, memo, rows, gates, asking, clone, todo, found, changes, fails, misses>>

\* Mutant of GateAfter: the key is dropped whoever else holds the gate.
GateAfterAlways(b) == NoGate

\* The map's gate once b lets go of its clone: gone unless another caller holds it.
GateAfter(b) ==
  IF \E c \in Build \ {b} : clone[c] = clone[b] THEN gates[asking[b]] ELSE NoGate

Leave(b) ==
  /\ mb[b] = "leave"
  /\ gates' = [gates EXCEPT ![asking[b]] = GateAfter(b)]
  /\ clone' = [clone EXCEPT ![b] = NoGate]
  /\ mb' = [mb EXCEPT ![b] = "use"]
  /\ UNCHANGED <<standing, feed, cached, memo, rows, locked, asking, answer, todo, found, failed, changes, fails, misses>>

\* resolve_membership's loop body: a held role is listed and its presence recorded.
Use(b) ==
  /\ mb[b] = "use"
  /\ LET held == IF answer[b] = "role" THEN {asking[b]} ELSE {} IN
     /\ found' = [found EXCEPT ![b] = @ \cup held]
     /\ rows' = rows \cup held
  /\ todo' = [todo EXCEPT ![b] = @ \ {asking[b]}]
  /\ asking' = [asking EXCEPT ![b] = NoGuild]
  /\ answer' = [answer EXCEPT ![b] = NoAnswer]
  /\ mb' = [mb EXCEPT ![b] = "walk"]
  /\ UNCHANGED <<standing, feed, cached, memo, gates, locked, clone, failed, changes, fails, misses>>

\* Mutant of KeptRows: the eviction takes the rows this very build recorded.
KeptRowsOther(b) == rows \ found[b]

\* Self-eviction: the rows of networks this build did not find held go.
KeptRows(b) == rows \cap found[b]

EndWalk(b) ==
  /\ mb[b] \in {"walk", "skip"} /\ todo[b] = {}
  /\ rows' = KeptRows(b)
  /\ IF mb[b] = "walk" /\ found[b] = {}
       THEN mb' = [mb EXCEPT ![b] = "remember"] /\ UNCHANGED failed
       ELSE /\ mb' = [mb EXCEPT ![b] = "idle"]
            /\ failed' = [failed EXCEPT ![b] = FALSE]
  /\ found' = [found EXCEPT ![b] = {}]
  /\ UNCHANGED <<standing, feed, cached, memo, gates, locked, asking, clone, answer, todo, changes, fails, misses>>

\* A walk that found no role is remembered.
Remember(b) ==
  /\ mb[b] = "remember"
  /\ memo' = TRUE
  /\ mb' = [mb EXCEPT ![b] = "idle"]
  /\ failed' = [failed EXCEPT ![b] = FALSE]
  /\ UNCHANGED <<standing, feed, cached, rows, gates, locked, asking, clone, answer, todo, found, changes, fails, misses>>

\* The handler's future is dropped with its connection: its guard unlocks the gate, its
\* clone goes, and the code after the await that tidies the map does not run.
Abort(b) ==
  /\ mb[b] \in {"queued", "fetch", "store"} /\ fails < MaxFail
  /\ fails' = fails + 1
  /\ locked' = IF mb[b] = "queued" THEN locked ELSE locked \ {clone[b]}
  /\ clone' = [clone EXCEPT ![b] = NoGate]
  /\ asking' = [asking EXCEPT ![b] = NoGuild]
  /\ answer' = [answer EXCEPT ![b] = NoAnswer]
  /\ todo' = [todo EXCEPT ![b] = {}]
  /\ found' = [found EXCEPT ![b] = {}]
  /\ failed' = [failed EXCEPT ![b] = FALSE]
  /\ mb' = [mb EXCEPT ![b] = "idle"]
  /\ UNCHANGED <<standing, feed, cached, memo, rows, gates, changes, misses>>

-----------------------------------------------------------------------------
(* Time.                                                                   *)

\* MEMBER_TTL or MEMBER_ABSENT_TTL has passed.
Expires(g) == cached[g] # NoAnswer

Expire(g) ==
  /\ Expires(g)
  /\ cached' = [cached EXCEPT ![g] = NoAnswer]
  /\ UNCHANGED <<standing, feed, memo, rows, gates, locked, mb, asking, clone, answer, todo, found, failed, changes, fails, misses>>

ExpireMemo ==
  /\ memo
  /\ memo' = FALSE
  /\ UNCHANGED <<standing, feed, cached, rows, gates, locked, mb, asking, clone, answer, todo, found, failed, changes, fails, misses>>

BuildStep(b) ==
  \/ Enter(b) \/ Answered(b) \/ Store(b) \/ Leave(b) \/ Use(b) \/ EndWalk(b) \/ Remember(b)
  \/ \E g \in Guild : Hit(b, g) \/ Queue(b, g)

MemberNext ==
  \/ \E g \in Guild, s \in Standing : Change(g, s)
  \/ Miss \/ Deliver \/ ExpireMemo
  \/ \E g \in Guild : Expire(g)
  \/ \E b \in Build : Begin(b) \/ BuildStep(b) \/ Abort(b)

\* The gateway task and the builds run on, TTLs run out, and the engine keeps renewing.
MemberFairness ==
  /\ WF_memberVars(Deliver) /\ WF_memberVars(ExpireMemo)
  /\ \A g \in Guild : WF_memberVars(Expire(g))
  /\ \A b \in Build : WF_memberVars(Begin(b)) /\ WF_memberVars(BuildStep(b))

MemberSpec == MemberInit /\ [][MemberNext]_memberVars /\ MemberFairness

-----------------------------------------------------------------------------
\* The registered state is well typed, and a caller is inside a gate only while it asks.
MemberTypeOK ==
  /\ standing \in [Guild -> Standing]
  /\ cached \in [Guild -> Standing \cup {NoAnswer}]
  /\ memo \in BOOLEAN /\ rows \subseteq Guild
  /\ gates \in [Guild -> {NoGate} \cup Gate]
  /\ locked = {clone[b] : b \in {c \in Build : mb[c] \in {"fetch", "store"}}}
  /\ mb \in [Build -> {"idle", "skip", "walk", "queued", "fetch", "store", "leave", "use", "remember"}]
  /\ asking \in [Build -> Guild \cup {NoGuild}]
  /\ clone \in [Build -> {NoGate} \cup Gate]
  /\ answer \in [Build -> Standing \cup {NoAnswer, Failure}]
  /\ todo \in [Build -> SUBSET Guild] /\ found \in [Build -> SUBSET Guild]
  /\ failed \in [Build -> BOOLEAN]

\* Flight (discord.rs:106): however callers come, wait, leave and are dropped, Discord is
\* asked about one (guild, user) by one of them at a time.
SingleFlight ==
  \A b, c \in Build : mb[b] = "fetch" /\ mb[c] = "fetch" /\ asking[b] = asking[c] => b = c

\* discord.rs:304: a lookup that merely failed is never cached.  With nothing changed at
\* Discord and no event missed, what the cache says is what Discord says.
CacheNeverInvents ==
  changes = 0 => \A g \in Guild : cached[g] \in {NoAnswer, standing[g]}

\* Once Discord stops changing, whatever event was missed, lookup failed, stale answer
\* stored or memo written too late, the device's rows end up in exactly the networks
\* whose role its user holds: every staleness is bounded by a TTL and a renewal.
RowsFollowRoles == <>[](rows = {g \in Guild : standing[g] = "role"})

\* What the member cache keeps at every step, however lookups fail and are cut short.
MembershipSafe == MemberTypeOK /\ SingleFlight /\ CacheNeverInvents
=============================================================================
