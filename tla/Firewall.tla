------------------------------ MODULE Firewall ------------------------------
(***************************************************************************)
(* The host firewall of one device: what the owner exposes, who each scope *)
(* admits, and the ruleset installed from the two                          *)
(* (src/crates/engine/src/fw/mod.rs, nftables.rs, windows.rs).             *)
(*                                                                         *)
(* The set, the peer sets and the mesh address live behind a lock each,    *)
(* taken for one read or one write; persisting and applying happen outside *)
(* all of them.  The operations of the control socket run one task per     *)
(* connection and the daemon's loop is another, so an operation is a       *)
(* sequence of steps: `stage` says which comes next, and `fwView` holds    *)
(* what a reconcile has read so far.  A process that stops or dies leaves  *)
(* the ruleset where it is.                                                *)
(*                                                                         *)
(* An exposure is a slot, a port and a scope, and carries the name of the  *)
(* service it belongs to; a request without a name carries the default     *)
(* label of its port, one of Name.  Proto is part of the port, and a       *)
(* service's kind is a fact of its name.  The rules that do not depend on  *)
(* the state (established traffic, echo, the peer-direct port, WireGuard's *)
(* own port) are left out.                                                 *)
(***************************************************************************)
EXTENDS Integers, FiniteSets, Functions

CONSTANTS
  Ctl,        \* connections of the control socket
  Port,       \* ports an owner may expose
  Https,      \* the port the TLS proxy listens on, not in Port
  Name,       \* service labels
  WebName,    \* the ones of kind web
  FwNet,        \* networks, all of one role name, in different communities
  Ip,         \* mesh addresses of peers
  Feed,       \* the peer sets a refresh may bring: [Group -> SUBSET Ip]
  Seeds,      \* the config's `expose` list
  Cap,        \* MAX_SERVICES_PER_DEVICE
  MaxOps, MaxFail  \* bounds: operations and crashes, failed writes and loads

\* The ids a scope holds are none of the words a request may use instead.
ASSUME FwConstants ==
  /\ IsFiniteSet(Ctl) /\ IsFiniteSet(FwNet)
  /\ {"loop", "nobody"} \cap Ctl = {} /\ {"all", "named", "own"} \cap FwNet = {}
  /\ Feed \subseteq [FwNet \cup {"own"} -> SUBSET Ip]
  /\ DOMAIN Seeds \subseteq Port \X ({"all", "named", "own"} \cup FwNet)
  /\ Seeds \in [DOMAIN Seeds -> Name]

VARIABLES
  exposed,    \* Firewall.exposed: slot -> name
  file,       \* exposed.json: {its set}, or {} if it is missing or torn
  peers,      \* Firewall.peers
  addr,       \* Firewall.mesh_addr is set
  installed,  \* the ruleset in the kernel: what it was rendered from
  exempt,     \* our exemption rules in the foreign chain that drops the mesh range
  stage,      \* actor -> the step its operation takes next
  op,         \* connection -> the operation it runs
  blob,       \* connection -> {the copy its persist took}
  fwView,       \* actor -> what its reconcile has read
  up,         \* "up", "stopping" or "down"
  fwMesh,       \* the peer sets of the loop's latest seeds
  solo,       \* the actor that has run alone since its operation began
  exact,      \* the last operation to end ran alone and was applied
  ops, fails

fwVars == <<exposed, file, peers, addr, installed, exempt, stage, op, blob,
            fwView, up, fwMesh, solo, exact, ops, fails>>
fwData == <<exposed, file, peers, addr, installed, exempt, fwMesh>>

FwNobody == "nobody"
Actor == Ctl \cup {"loop"}
Group == FwNet \cup {"own"}
Scope == {"all", "named"} \cup Group
Slot == Port \X Scope
Stages == {"idle", "change", "save", "write", "exempt", "gather", "peers", "apply"}
NoPeers == [g \in Group |-> {}]
NoRules == [rules |-> {}, peers |-> NoPeers, guarded |-> FALSE, missing |-> FALSE]
NoOp == [does |-> "close", slots |-> {}, name |-> FwNobody]
Exposures == UNION {[S -> Name] : S \in SUBSET Slot}

\* The networks a bare role name could mean.
Matching(p) == {n \in FwNet : p[n] # {}}
\* PeerSets::sources.  No restriction is everyone who can deliver at all; a
\* scope without peers is nobody; an ambiguous name is nobody.
Sources(scope, p) ==
  CASE scope = "all"   -> Ip
    [] scope \in Group -> p[scope]
    [] OTHER           -> IF Cardinality(Matching(p)) = 1
                          THEN UNION {p[n] : n \in Matching(p)}
                          ELSE {}

WebScopes(e) == {s[2] : s \in {t \in DOMAIN e : e[t] \in WebName}}
\* effective_exposed: the stored slots and, for every scope with a web service,
\* the HTTPS port.
Rules(e) == DOMAIN e \cup ({Https} \X WebScopes(e))
\* What the nftables backend renders: a set of sources per scope, empty when the
\* scope has no peers, and a source reaches a port through any rule for it.
Reaches(r, ip, port) ==
  \E s \in r.rules : s[1] = port /\ ip \in Sources(s[2], r.peers)
\* What the Windows backend renders: no rule for a scope without peers, and no
\* source list for the scope of everyone.
ReachesOnWindows(r, ip, port) ==
  \E s \in r.rules :
    /\ s[1] = port
    /\ s[2] = "all" \/ (Sources(s[2], r.peers) # {} /\ ip \in Sources(s[2], r.peers))

\* Not part of the code: a scope without peers does not restrict.
VisibleOpen(ip) ==
  {exposed[s] : s \in {t \in DOMAIN exposed :
                         Sources(t[2], peers) \in {S \in SUBSET Ip : S = {} \/ ip \in S}}}
\* services_for: the names a peer may learn.
VisibleTo(ip) ==
  {exposed[s] : s \in {t \in DOMAIN exposed : ip \in Sources(t[2], peers)}}
\* web_routes: who the proxy admits to one web service, this device aside.
Allowed(name) ==
  UNION {Sources(s[2], peers) : s \in {t \in DOMAIN exposed : exposed[t] = name}}

\* The exposed set after each operation.
Added(e, s, n) == [t \in DOMAIN e \cup {s} |-> IF t = s THEN n ELSE e[t]]
Closed(e, S) == Restrict(e, DOMAIN e \ S)
Widened(e, n, scope) ==
  LET more == {<<s[1], scope>> : s \in {t \in DOMAIN e : e[t] = n}} \ DOMAIN e
  IN  [t \in DOMAIN e \cup more |-> IF t \in more THEN n ELSE e[t]]
Loaded(f) == IF f = {} THEN Seeds ELSE CHOOSE e \in f : TRUE

------------------------------------------------------------------------------
Quiet == \A a \in Actor : stage[a] = "idle"
\* An operation begins: it is alone only while nothing else is under way.
Begins(a) == /\ solo' = IF Quiet THEN a ELSE FwNobody
             /\ exact' = FALSE
Goes(a, s) == stage' = [stage EXCEPT ![a] = s]
\* A request over the control socket, its scope resolved to the ids it holds.
Requested(c, o) ==
  /\ up # "down" /\ stage[c] = "idle" /\ ops < MaxOps
  /\ ops' = ops + 1
  /\ op' = [op EXCEPT ![c] = o]
  /\ Begins(c)
  /\ UNCHANGED <<fwData, blob, fwView, up, fails>>

FwRoom(n) == Cardinality(Range(exposed) \cup {n}) <= Cap

\* expose: the cap is checked under one lock and the slot pushed under another.
Expose(c, s, n) ==
  /\ FwRoom(n)
  /\ Requested(c, [does |-> "add", slots |-> {s}, name |-> n])
  /\ Goes(c, "change")
\* unexpose: every scope of a port, or exactly one.
Unexpose(c, S) == Requested(c, [does |-> "close", slots |-> S, name |-> FwNobody])
                  /\ Goes(c, "change")
\* expose_named_scope and unexpose_named: with nothing to change, nothing is
\* saved and nothing applied.
ExposeNamed(c, n, scope) ==
  /\ DOMAIN Widened(exposed, n, scope) # DOMAIN exposed
  /\ Requested(c, [does |-> "widen", slots |-> {scope}, name |-> n])
  /\ Goes(c, "change")
UnexposeNamed(c, n) ==
  /\ n \in Range(exposed)
  /\ Requested(c, [does |-> "drop", slots |-> {}, name |-> n])
  /\ Goes(c, "change")

CtlScope == {"all"} \cup Group
FwRequest(c) ==
  \/ \E s \in Port \X CtlScope, n \in Name : Expose(c, s, n)
  \/ \E p \in Port, sc \in CtlScope :
       Unexpose(c, {<<p, sc>>}) \/ Unexpose(c, {p} \X Scope)
  \/ \E n \in Name, sc \in CtlScope : ExposeNamed(c, n, sc)
  \/ \E n \in Name : UnexposeNamed(c, n)

Changed(c) ==
  LET o == op[c]
  IN  CASE o.does = "add"   -> Added(exposed, CHOOSE s \in o.slots : TRUE, o.name)
        [] o.does = "close" -> Closed(exposed, o.slots)
        [] o.does = "widen" -> Widened(exposed, o.name, CHOOSE s \in o.slots : TRUE)
        [] OTHER            -> Closed(exposed, {s \in DOMAIN exposed : exposed[s] = o.name})

Change(c) ==
  /\ stage[c] = "change"
  /\ exposed' = Changed(c)
  /\ Goes(c, "save")
  /\ UNCHANGED <<file, peers, addr, installed, exempt, op, blob, fwView, up, fwMesh,
                 solo, exact, ops, fails>>

\* persist: the set is copied under its lock, the file written outside it.
Save(c) ==
  /\ stage[c] = "save"
  /\ blob' = [blob EXCEPT ![c] = {exposed}]
  /\ Goes(c, "write")
  /\ UNCHANGED <<fwData, op, fwView, up, solo, exact, ops, fails>>

Write(c) ==
  /\ stage[c] = "write"
  /\ file' = blob[c]
  /\ blob' = [blob EXCEPT ![c] = {}]
  /\ op' = [op EXCEPT ![c] = NoOp]
  /\ Goes(c, "exempt")
  /\ UNCHANGED <<exposed, peers, addr, installed, exempt, fwView, up, fwMesh,
                 solo, exact, ops, fails>>

\* An error is reported; what was changed in memory stays changed.
WriteFails(c) ==
  /\ stage[c] = "write" /\ fails < MaxFail
  /\ fails' = fails + 1
  /\ blob' = [blob EXCEPT ![c] = {}]
  /\ op' = [op EXCEPT ![c] = NoOp]
  /\ Goes(c, "idle")
  /\ UNCHANGED <<fwData, fwView, up, solo, exact, ops>>

------------------------------------------------------------------------------
Differs(p) == peers # p

\* update_peers with the sets of the latest seeds: an identical refresh neither
\* stores nor reconciles.
UpdatePeers(p) ==
  /\ up = "up" /\ stage["loop"] = "idle" /\ ops < MaxOps /\ p # fwMesh
  /\ fwMesh' = p
  /\ ops' = ops + 1
  /\ IF Differs(p)
     THEN peers' = p /\ Begins("loop") /\ Goes("loop", "exempt")
     ELSE UNCHANGED <<peers, solo, exact, stage>>
  /\ UNCHANGED <<exposed, file, addr, installed, exempt, op, blob, fwView, up, fails>>

\* set_mesh_addr, once the interface has its address.
SetMeshAddr ==
  /\ up = "up" /\ stage["loop"] = "idle" /\ ~addr
  /\ addr' = TRUE
  /\ Begins("loop") /\ Goes("loop", "exempt")
  /\ UNCHANGED <<exposed, file, peers, installed, exempt, op, blob, fwView, up, fwMesh,
                 ops, fails>>

\* reconcile: the foreign chain first, then three reads, then one atomic load.
LookForExemption(a) ==
  /\ stage[a] = "exempt"
  /\ fwView' = [fwView EXCEPT ![a].missing = (exempt = 0)]
  /\ Goes(a, "gather")
  /\ UNCHANGED <<fwData, op, blob, up, solo, exact, ops, fails>>
Gather(a) ==
  /\ stage[a] = "gather"
  /\ exempt' = IF fwView[a].missing THEN exempt + 1 ELSE exempt
  /\ fwView' = [fwView EXCEPT ![a].rules = Rules(exposed), ![a].guarded = addr,
                          ![a].missing = FALSE]
  /\ Goes(a, "peers")
  /\ UNCHANGED <<exposed, file, peers, addr, installed, op, blob, up, fwMesh,
                 solo, exact, ops, fails>>
GatherPeers(a) ==
  /\ stage[a] = "peers"
  /\ fwView' = [fwView EXCEPT ![a].peers = peers]
  /\ Goes(a, "apply")
  /\ UNCHANGED <<fwData, op, blob, up, solo, exact, ops, fails>>
Apply(a) ==
  /\ stage[a] = "apply"
  /\ installed' = fwView[a]
  /\ exact' = (solo = a)
  /\ fwView' = [fwView EXCEPT ![a] = NoRules]
  /\ Goes(a, "idle")
  /\ UNCHANGED <<exposed, file, peers, addr, exempt, op, blob, up, fwMesh, solo,
                 ops, fails>>
ApplyFails(a) ==
  /\ stage[a] = "apply" /\ fails < MaxFail
  /\ fails' = fails + 1
  /\ fwView' = [fwView EXCEPT ![a] = NoRules]
  /\ Goes(a, "idle")
  /\ UNCHANGED <<fwData, op, blob, up, solo, exact, ops>>

\* The owner of the foreign chain rebuilds it without our exemption.
ForeignRestart ==
  /\ exempt > 0
  /\ exempt' = 0
  /\ UNCHANGED <<exposed, file, peers, addr, installed, stage, op, blob, fwView, up,
                 fwMesh, solo, exact, ops, fails>>

\* remove_cgnat_compat: every rule that carries our comment.
Removed(n) == 0

\* reset, at a clean stop; the process ends a little later.
Reset ==
  /\ up = "up" /\ stage["loop"] = "idle" /\ ops < MaxOps
  /\ up' = "stopping" /\ ops' = ops + 1
  /\ exempt' = Removed(exempt) /\ installed' = NoRules
  /\ exact' = FALSE
  /\ solo' = IF Quiet THEN "loop" ELSE FwNobody
  /\ UNCHANGED <<exposed, file, peers, addr, stage, op, blob, fwView, fwMesh, fails>>

\* The process ends: after a stop, or killed.  A write under way may be torn.
Ends ==
  /\ up = "stopping" \/ (up = "up" /\ ops < MaxOps)
  /\ ops' = IF up = "up" THEN ops + 1 ELSE ops
  /\ up' = "down"
  /\ file' \in {file} \cup IF \E c \in Ctl : stage[c] = "write" THEN {{}} ELSE {}
  /\ stage' = [a \in Actor |-> "idle"]
  /\ op' = [c \in Ctl |-> NoOp] /\ blob' = [c \in Ctl |-> {}]
  /\ fwView' = [a \in Actor |-> NoRules]
  /\ exact' = FALSE /\ solo' = IF up = "up" THEN FwNobody ELSE solo
  /\ UNCHANGED <<exposed, peers, addr, installed, exempt, fwMesh, fails>>

\* load and init.
Boot ==
  /\ up = "down"
  /\ up' = "up"
  /\ exposed' = Loaded(file)
  /\ peers' = NoPeers /\ addr' = FALSE /\ fwMesh' = NoPeers
  /\ Begins("loop") /\ Goes("loop", "exempt")
  /\ UNCHANGED <<file, installed, exempt, op, blob, fwView, ops, fails>>

FwInit ==
  /\ exposed = Seeds /\ file = {}
  /\ peers = NoPeers /\ fwMesh = NoPeers /\ addr = FALSE
  /\ installed = NoRules /\ exempt = 0
  /\ stage = [a \in Actor |-> IF a = "loop" THEN "exempt" ELSE "idle"]
  /\ op = [c \in Ctl |-> NoOp]
  /\ blob = [c \in Ctl |-> {}] /\ fwView = [a \in Actor |-> NoRules]
  /\ up = "up" /\ solo = "loop" /\ exact = FALSE
  /\ ops = 0 /\ fails = 0

FwNext ==
  \/ \E c \in Ctl : FwRequest(c) \/ Change(c) \/ Save(c) \/ Write(c) \/ WriteFails(c)
  \/ \E p \in Feed : UpdatePeers(p)
  \/ SetMeshAddr
  \/ \E a \in Actor : \/ LookForExemption(a) \/ Gather(a) \/ GatherPeers(a) 
                      \/ Apply(a) \/ ApplyFails(a)
  \/ ForeignRestart \/ Reset \/ Ends \/ Boot

FwSpec == FwInit /\ [][FwNext]_fwVars

------------------------------------------------------------------------------
FwTypeOK ==
  /\ exposed \in Exposures /\ file \in {{}} \cup {{e} : e \in Exposures}
  /\ peers \in Feed \cup {NoPeers} /\ fwMesh \in Feed \cup {NoPeers}
  /\ installed.rules \subseteq (Port \cup {Https}) \X Scope
  /\ stage \in [Actor -> Stages]
  /\ up \in {"up", "stopping", "down"}
  /\ exempt \in 0..Cardinality(Actor)
  /\ {addr, exact, installed.guarded} \subseteq BOOLEAN

\* Who belongs to a scope, told from the loop's own seeds.
Belongs(ip, scope) ==
  \/ scope = "all"
  \/ scope \in Group /\ ip \in fwMesh[scope]
  \/ scope = "named" /\ \E n \in FwNet : ip \in fwMesh[n] /\ \A m \in FwNet \ {n} : fwMesh[m] = {}

\* After an operation that ran alone and was applied, the packet filter admits
\* a peer to a port exactly when the owner exposed that port to a scope of the
\* current membership that has the peer, and to the HTTPS port exactly when one
\* of those scopes has a web service: whatever went wrong before, the full
\* replace repairs, and both backends render it alike (fw/mod.rs, Firewall:
\* "Every change reconciles the full ruleset").
FilterIsExact ==
  exact =>
    \A ip \in Ip, port \in Port \cup {Https} :
      LET due == \E s \in DOMAIN exposed :
                   /\ Belongs(ip, s[2])
                   /\ port = s[1] \/ (port = Https /\ exposed[s] \in WebName)
      IN  /\ Reaches(installed, ip, port) <=> due
          /\ ReachesOnWindows(installed, ip, port) <=> due

\* A peer is told a service's name only if it can reach a port of it, and what
\* the proxy admits to a web service the packet filter lets in and is in a
\* scope of that service (fw/mod.rs, services_for and web_routes).
TellsWhoReaches ==
  exact =>
    \A ip \in Ip, n \in Name :
      /\ n \in VisibleTo(ip) =>
           \E s \in DOMAIN exposed : exposed[s] = n /\ Reaches(installed, ip, s[1])
      /\ (n \in WebName /\ ip \in Allowed(n)) =>
           /\ Reaches(installed, ip, Https)
           /\ \E s \in DOMAIN exposed : exposed[s] = n /\ Belongs(ip, s[2])

\* A stop that no operation raced leaves neither a ruleset nor an exemption in a
\* chain that is not ours, however many reconciles inserted one at once
\* (fw/mod.rs, reset).
StopLeavesNothing ==
  (up # "up" /\ solo = "loop") => exempt = 0 /\ installed = NoRules

\* What the host filter promises its owner: exactly what was exposed, told to those it is
\* exposed to, and nothing left behind.
FirewallSafe == FwTypeOK /\ FilterIsExact /\ TellsWhoReaches /\ StopLeavesNothing
=============================================================================
