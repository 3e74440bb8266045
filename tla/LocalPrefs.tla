----------------------------- MODULE LocalPrefs -----------------------------
(***************************************************************************)
(* The choices a device makes for itself (engine/src/netcfg.rs): networks  *)
(* it opts out of, users it blocks, and the paused, new-network, own-      *)
(* device and certificate switches.  The client is the source of truth:    *)
(* the control socket changes a choice in memory, writes its file and      *)
(* wakes the daemon, whose loop (engine/src/daemon.rs) filters the         *)
(* coordinator's snapshot through the choices into WireGuard, the firewall *)
(* and DNS, and carries them to the coordinator with the next request.     *)
(* A write may fail, leaving the old file or a torn one (the loader reads  *)
(* a torn file as the default), and the process may die anywhere.          *)
(***************************************************************************)
EXTENDS Naturals, FiniteSets

CONSTANTS Net,         \* numbers: the order the coordinator lists networks in
          NetName,     \* [Net -> display names]; two guilds may use one name
          PrefPeer, PeerUser, PeerNets,
          Switch,      \* of "paused", "newOff", "ownPeers", "certs"
          MaxChoice, MaxBadWrite, MaxDeath   \* bounds of the model

ASSUME PrefBounds == Net \subseteq Nat /\ {MaxChoice, MaxBadWrite, MaxDeath} \subseteq Nat

VARIABLES prefs,      \* LocalNet in memory
          disk,       \* what its files would load as
          lit,        \* the permit of LocalNet::wake
          snap,       \* last_device's networks and last_seeds
          mesh,       \* the peers of WireGuard and of the firewall
          names,      \* the peers whose names this device's DNS answers
          asked,      \* choices the request in flight carries, or NoAsk
          spot,       \* "top" or "select" of the loop, "backoff", or "down"
          wish,       \* what the user last asked of each network
          left        \* what is left of the bounds
prefVars == <<prefs, disk, lit, snap, mesh, names, asked, spot, wish, left>>

Files == [off : SUBSET Net, known : SUBSET Net,
          blocked : SUBSET {PeerUser[p] : p \in PrefPeer}, on : SUBSET Switch]
Default == [off |-> {}, known |-> {}, blocked |-> {}, on |-> {"newOff"} \cap Switch]
Asks == [off : SUBSET Net, on : SUBSET (Switch \cap {"paused", "ownPeers"})]
NoAsk == [off |-> {}, on |-> {"none"}]
NoSnap == [nets |-> {}, peers |-> {}]

PrefInit ==
    /\ prefs = Default /\ disk = Default /\ lit = FALSE /\ spot = "top"
    /\ snap = NoSnap /\ mesh = {} /\ names = {} /\ asked = NoAsk
    /\ wish = [n \in Net |-> "none"]
    /\ left = [choice |-> MaxChoice, bad |-> MaxBadWrite, death |-> MaxDeath]

(***************************************************************************)
(* The choices                                                             *)
(***************************************************************************)
Wakes(p, q) == p.on \ {"newOff"} # q.on \ {"newOff"} \/ p.off # q.off \/ p.blocked # q.blocked

\* a changed choice: memory first, then its file, then the wake
Choose(p, file) ==
    /\ left.choice > 0 /\ p # prefs /\ spot # "down"
    /\ prefs' = p
    /\ \/ /\ disk' = [disk EXCEPT ![file] = p[file]]
          /\ lit' = (lit \/ Wakes(p, prefs))
          /\ left' = [left EXCEPT !.choice = @ - 1]
       \/ /\ left.bad > 0
          /\ disk' \in {disk, [disk EXCEPT ![file] = Default[file]]}
          /\ left' = [left EXCEPT !.choice = @ - 1, !.bad = @ - 1]
          /\ UNCHANGED lit
    /\ UNCHANGED <<snap, mesh, names, asked, spot>>

\* a frontend offers the networks of the last device report
SetNetwork(n, enabled) ==
    /\ n \in snap.nets
    /\ Choose([prefs EXCEPT !.off = IF enabled THEN @ \ {n} ELSE @ \cup {n}], "off")
    /\ wish' = [wish EXCEPT ![n] = IF enabled THEN "on" ELSE "off"]
SetBlocked(u, blocked) ==
    /\ Choose([prefs EXCEPT !.blocked = IF blocked THEN @ \cup {u} ELSE @ \ {u}], "blocked")
    /\ UNCHANGED wish
SetSwitch(s, on) ==
    /\ Choose([prefs EXCEPT !.on = IF on THEN @ \cup {s} ELSE @ \ {s}], "on")
    /\ UNCHANGED wish

(***************************************************************************)
(* Applying a snapshot                                                     *)
(***************************************************************************)
\* reconcile_new: a network never seen is recorded and, by policy, opted out
ReconciledAlways(p, nets) ==
    [p EXCEPT !.known = @ \cup nets, !.off = IF "newOff" \in p.on THEN @ \cup nets ELSE @]
Reconciled(p, nets) ==
    [p EXCEPT !.known = @ \cup nets,
              !.off = IF "newOff" \in p.on THEN @ \cup (nets \ p.known) ELSE @]

\* the id a network's display name resolves to: the last row of that name
Resolved(n, nets) == CHOOSE m \in nets : /\ NetName[m] = NetName[n]
                                         /\ \A o \in nets : NetName[o] = NetName[n] => o <= m

FilterActive(s, p) ==
    {q \in s.peers : /\ PeerUser[q] \notin p.blocked
                     /\ LET shared == PeerNets[q] \cap s.nets
                        IN  shared = {} \/ \E n \in shared : Resolved(n, s.nets) \notin p.off}

Active(s, p) == IF "paused" \in p.on THEN {} ELSE FilterActive(s, p)

\* both files in memory first; then known_networks.json, then the opt-out file
ApplyState(s) ==
    LET p == Reconciled(prefs, s.nets)
    IN  /\ prefs' = p
        /\ mesh' = Active(s, p) /\ names' = Active(s, p)
        /\ \/ /\ disk' = [disk EXCEPT !.known = IF p.known # prefs.known THEN p.known ELSE @,
                                      !.off = IF p.off # prefs.off THEN p.off ELSE @]
              /\ UNCHANGED left
           \/ /\ left.bad > 0 /\ p.known # prefs.known
              /\ left' = [left EXCEPT !.bad = @ - 1]
              /\ \/ disk' \in {disk, [disk EXCEPT !.known = {}]}
                 \/ p.off # prefs.off
                    /\ disk' \in {[disk EXCEPT !.known = p.known],
                                  [disk EXCEPT !.known = p.known, !.off = {}]}

(***************************************************************************)
(* The loop                                                                *)
(***************************************************************************)
\* every tick: what the peers' names resolve to, from the unfiltered seeds
Named(s) == s.peers

\* the request a tick issues unless one is in flight carries the choices
Report == [off |-> prefs.off, on |-> prefs.on \cap {"paused", "ownPeers"}]

Top == /\ spot = "top"
       /\ \E gone \in SUBSET snap.peers :     \* attestations that lapsed
             LET s == [snap EXCEPT !.peers = @ \ gone]
             IN  /\ snap' = s /\ names' = Named(s)
                 /\ mesh' = IF gone = {} THEN mesh ELSE Active(s, prefs)
       /\ asked' = IF asked = NoAsk THEN Report ELSE asked
       /\ spot' = "select"
       /\ UNCHANGED <<prefs, disk, lit, wish, left>>

WakeArm == /\ spot = "select" /\ lit
           /\ lit' = FALSE /\ asked' = NoAsk /\ spot' = "top"
           /\ ApplyState(snap)
           /\ UNCHANGED <<snap, wish>>

\* every two seconds; re-applied when an ICE or LAN endpoint changed
Recheck == /\ spot = "select" /\ spot' = "top"
           /\ \/ ApplyState(snap)
              \/ UNCHANGED <<prefs, disk, mesh, names, left>>
           /\ UNCHANGED <<lit, snap, asked, wish>>

\* what the coordinator may answer a request carrying these choices
Snapshots(p) == {[nets |-> nets, peers |-> q] :
                   nets \in SUBSET Net,
                   q \in SUBSET {r \in PrefPeer : "paused" \notin p.on}}
Serves(s, p) == \A q \in s.peers : PeerNets[q] \cap s.nets \cap (Net \ p.off) # {}

Answer == /\ spot = "select" /\ asked # NoAsk
          /\ \E s \in Snapshots(asked) :
                Serves(s, asked) /\ snap' = s /\ ApplyState(s)
          /\ asked' = NoAsk /\ spot' = "top"
          /\ UNCHANGED <<lit, wish>>

\* no grant: the last device is kept for context, every peer goes
Revoked == /\ spot = "select" /\ asked # NoAsk
           /\ LET s == [snap EXCEPT !.peers = {}] IN snap' = s /\ ApplyState(s)
           /\ asked' = NoAsk /\ spot' = "top"
           /\ UNCHANGED <<lit, wish>>

Unreachable == /\ spot = "select" /\ asked # NoAsk
               /\ asked' = NoAsk /\ spot' = "backoff"
               /\ UNCHANGED <<prefs, disk, lit, snap, mesh, names, wish, left>>
Slept == /\ spot = "backoff" /\ spot' = "top"
         /\ UNCHANGED <<prefs, disk, lit, snap, mesh, names, asked, wish, left>>

(***************************************************************************)
(* Death and restart                                                       *)
(***************************************************************************)
Die(d) == /\ left.death > 0 /\ spot # "down"
          /\ left' = [left EXCEPT !.death = @ - 1]
          /\ disk' = d /\ spot' = "down"
          /\ mesh' = {} /\ names' = {} /\ snap' = NoSnap /\ asked' = NoAsk /\ lit' = FALSE
          /\ UNCHANGED <<prefs, wish>>
DieIdle == Die(disk)
\* between reconcile_new's two writes
DieReconciling == /\ spot = "select" /\ asked # NoAsk
                  /\ \E nets \in SUBSET Net : Die([disk EXCEPT !.known = @ \cup nets])

Load == /\ spot = "down" /\ spot' = "top" /\ prefs' = disk
        /\ UNCHANGED <<disk, lit, snap, mesh, names, asked, wish, left>>

PrefNext ==
    \/ \E n \in Net, b \in BOOLEAN : SetNetwork(n, b)
    \/ \E p \in PrefPeer, b \in BOOLEAN : SetBlocked(PeerUser[p], b)
    \/ \E s \in Switch, b \in BOOLEAN : SetSwitch(s, b)
    \/ Top \/ WakeArm \/ Recheck \/ Answer \/ Revoked \/ Unreachable \/ Slept
    \/ DieIdle \/ DieReconciling \/ Load

PrefSpec == PrefInit /\ [][PrefNext]_prefVars

(***************************************************************************)
(* Properties                                                              *)
(***************************************************************************)
WritesHeld == left.bad = MaxBadWrite     \* no write has failed so far

\* Every variable keeps its type, and the bounds hold.
PrefTypeOK ==
    /\ prefs \in Files /\ disk \in Files /\ asked \in Asks \cup {NoAsk}
    /\ lit \in BOOLEAN /\ spot \in {"top", "select", "backoff", "down"}
    /\ snap \in [nets : SUBSET Net, peers : SUBSET PrefPeer]
    /\ mesh \subseteq snap.peers /\ names \subseteq snap.peers
    /\ wish \in [Net -> {"none", "on", "off"}]

\* "peers whose every shared network is locally disabled are dropped" and "a
\* blocked owner's peers are always dropped" (daemon.rs filter_active), read
\* from the choices and not from the filter's name lookup.
Unwanted(q, p) == \/ "paused" \in p.on \/ PeerUser[q] \in p.blocked
                  \/ LET shared == PeerNets[q] \cap snap.nets
                     IN  shared # {} /\ shared \subseteq p.off

\* When no wake is owed and no write failed, no tunnel runs to a peer the
\* choices exclude, whatever order toggles, answers, lapses, crashes came in.
MeshFollowsPrefs ==
    spot \in {"top", "select", "backoff"} /\ ~lit /\ WritesHeld =>
        \A q \in mesh : ~Unwanted(q, prefs)

\* "A peer is kept if it shares at least one *enabled* network with us"
\* (daemon.rs filter_active): by the network, whatever its name is.
SharedIsKept ==
    spot \in {"top", "select", "backoff"} /\ ~lit /\ WritesHeld /\ "paused" \notin prefs.on =>
        \A q \in snap.peers : PeerUser[q] \notin prefs.blocked
                              /\ (PeerNets[q] \cap snap.nets) \ prefs.off # {} => q \in mesh

\* The user's own word on a network outlives crashes and every later snapshot:
\* reconcile_new disables a network at most once, "so a later manual enable
\* sticks" (netcfg.rs), and a network switched off stays off.
ChoicesStick ==
    WritesHeld => \A n \in Net : /\ wish[n] = "off" => n \in disk.off
                                 /\ wish[n] = "on" /\ n \in disk.known => n \notin disk.off

\* What an engine promises its owner: the choices made are the choices applied and kept.
PrefsSafe == PrefTypeOK /\ MeshFollowsPrefs /\ ChoicesStick
=============================================================================
