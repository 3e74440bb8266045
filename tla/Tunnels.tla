------------------------------ MODULE Tunnels ------------------------------
(***************************************************************************)
(* The WireGuard interface of an engine (engine/src/wg, apply_state and    *)
(* apply_seeds of daemon.rs).  Starting creates the interface, past a      *)
(* socket file that a killed engine left behind.  Every pass sets the link *)
(* by the paused switch, folds the seeds (one for each network a peer      *)
(* shares) into one tunnel a peer, removes the tunnels that are gone, and  *)
(* replaces those that differ, one backend call at a time; routes follow   *)
(* when anything changed.  A backend error ends the process, a routing     *)
(* error only warns, and a service manager starts it again.                *)
(***************************************************************************)
EXTENDS Naturals, FiniteSets, FiniteSetsExt

CONSTANTS TunPeer,
          TunIp,        \* [TunPeer -> the addresses its seeds may carry]
          Rank,         \* kinds of endpoint, numbered by precedence: LAN, the
                        \* coordinator's, ICE shim, relay shim, punch target
          MaxInput, MaxEnd, MaxRouteFail    \* bounds of the model

ASSUME TunRanks == Rank \subseteq Nat

VARIABLES kernel,    \* the wireguard-nt backend of Windows, not boringtun
          engine,    \* "down", "create", "stale", "config", "idle" or a pass:
                     \* "link", "prune", "set", "route"
          socket,    \* the uapi socket file: "none", "live" or "stale"
          link,      \* the interface is administratively up
          input,     \* seeds, endpoints and the switch as they are now
          given,     \* ... as the pass took them
          known,     \* the daemon's `peers`, which the backend holds: {} or a tunnel
          todo,      \* peers the pass has still to visit
          dirty,     \* the pass changed something
          routed,    \* addresses routed to the interface
          panicked,  \* boringtun was asked to change a peer in place
          used
tunVars == <<kernel, engine, socket, link, input, given, known, todo, dirty,
             routed, panicked, used>>

Nothing == [seeds |-> [p \in TunPeer |-> {}], paths |-> [p \in TunPeer |-> {}], paused |-> FALSE]
Bare == [p \in TunPeer |-> {}]

TunInit ==
    /\ kernel \in BOOLEAN /\ engine = "down" /\ socket = "none" /\ link = FALSE
    /\ input = Nothing /\ given = Nothing /\ known = Bare
    /\ todo = {} /\ dirty = FALSE /\ routed = {} /\ panicked = FALSE
    /\ used = [input |-> 0, end |-> 0, route |-> 0]

(***************************************************************************)
(* What a pass wants                                                       *)
(***************************************************************************)
Endpoint(p) == IF given.paths[p] = {} THEN {} ELSE {Min(given.paths[p])}
Active(p) == ~given.paused /\ given.seeds[p] # {}
\* every address of the peer's seeds, to the best endpoint known
WantedFirst(p) == IF Active(p)
                  THEN {[ips |-> {CHOOSE i \in given.seeds[p] : TRUE}, to |-> Endpoint(p)]} ELSE {}
TunWanted(p) == IF Active(p) THEN {[ips |-> given.seeds[p], to |-> Endpoint(p)]} ELSE {}

\* wireguard-nt takes no peer without an endpoint; it joins once it has one
TunCarries(p) == \E t \in known[p] : kernel => t.to # {}

(***************************************************************************)
(* Starting                                                                *)
(***************************************************************************)
Launch == /\ engine = "down" /\ engine' = "create"
          /\ UNCHANGED <<kernel, socket, link, input, given, known, todo, dirty,
                         routed, panicked, used>>

\* boringtun binds its socket file; one that is there fails the bind
Create == /\ engine = "create"
          /\ IF socket = "stale" /\ ~kernel
             THEN engine' = "stale" /\ UNCHANGED socket
             ELSE engine' = "config" /\ socket' = IF kernel THEN socket ELSE "live"
          /\ UNCHANGED <<kernel, link, input, given, known, todo, dirty,
                         routed, panicked, used>>

\* nobody answers on it: the file is removed and the creation retried, once
Reaps == socket = "stale"
Reap == /\ engine = "stale"
        /\ IF Reaps THEN engine' = "config" /\ socket' = "live"
                    ELSE engine' = "down" /\ UNCHANGED socket
        /\ UNCHANGED <<kernel, link, input, given, known, todo, dirty,
                       routed, panicked, used>>
Configure == /\ engine = "config" /\ engine' = "link" /\ link' = TRUE /\ given' = input
             /\ UNCHANGED <<kernel, socket, input, known, todo, dirty,
                            routed, panicked, used>>

(***************************************************************************)
(* A pass                                                                  *)
(***************************************************************************)
\* the seeds, endpoints and switch change; any pass takes them as they are
Feed == /\ used.input < MaxInput /\ used' = [used EXCEPT !.input = @ + 1]
        /\ \/ \E p \in TunPeer : \E s \in SUBSET TunIp[p] :
                s # input.seeds[p] /\ input' = [input EXCEPT !.seeds[p] = s]
           \/ \E p \in TunPeer : \E r \in SUBSET Rank :
                r # input.paths[p] /\ input' = [input EXCEPT !.paths[p] = r]
           \/ input' = [input EXCEPT !.paused = ~@]
        /\ UNCHANGED <<kernel, engine, socket, link, given, known, todo, dirty,
                       routed, panicked>>

TunPass == /\ engine = "idle" /\ given # input
           /\ engine' = "link" /\ given' = input
           /\ UNCHANGED <<kernel, socket, link, input, known, todo, dirty,
                          routed, panicked, used>>

\* the system drops an interface's routes with its link; the kernel backend
\* has no link switch
SetLink == /\ engine = "link" /\ engine' = "prune"
           /\ link' = (kernel \/ ~given.paused)
           /\ routed' = IF link' THEN routed ELSE {}
           /\ todo' = {p \in TunPeer : known[p] # {} /\ ~Active(p)} /\ dirty' = FALSE
           /\ UNCHANGED <<kernel, socket, input, given, known, panicked, used>>

TunPrune == /\ engine = "prune"
            /\ \/ /\ todo = {} /\ engine' = "set" /\ todo' = {p \in TunPeer : Active(p)}
                  /\ UNCHANGED <<known, dirty>>
               \/ \E p \in todo : /\ known' = [known EXCEPT ![p] = {}]
                                  /\ todo' = todo \ {p} /\ dirty' = TRUE
                                  /\ UNCHANGED engine
            /\ UNCHANGED <<kernel, socket, link, input, given, routed, panicked, used>>

Differs(p) == known[p] # TunWanted(p)
\* "remove the old peer first": boringtun panics on a change in place
First(p) == {}
SetPeer == /\ engine = "set"
           /\ \/ /\ todo = {} /\ engine' = "route"
                 /\ UNCHANGED <<known, todo, dirty, panicked>>
              \/ \E p \in todo :
                   /\ todo' = todo \ {p} /\ UNCHANGED engine
                   /\ IF Differs(p)
                      THEN /\ panicked' = (panicked \/ (First(p) # {} /\ ~kernel))
                           /\ known' = [known EXCEPT ![p] = TunWanted(p)] /\ dirty' = TRUE
                      ELSE UNCHANGED <<known, dirty, panicked>>
           /\ UNCHANGED <<kernel, socket, link, input, given, routed, used>>

AllIps == UNION {UNION {t.ips : t \in known[p]} : p \in TunPeer}
Route == /\ engine = "route" /\ engine' = "idle"
         /\ \/ /\ dirty /\ routed' = IF link THEN AllIps ELSE routed
               /\ UNCHANGED used
            \/ /\ dirty /\ used.route < MaxRouteFail
               /\ used' = [used EXCEPT !.route = @ + 1] /\ UNCHANGED routed
            \/ ~dirty /\ UNCHANGED <<routed, used>>
         /\ UNCHANGED <<kernel, socket, link, input, given, known, todo, dirty, panicked>>

\* killed, or a backend call failed: the interface goes with the process, the
\* socket file stays
TunEnd == /\ engine # "down" /\ used.end < MaxEnd /\ used' = [used EXCEPT !.end = @ + 1]
          /\ engine' = "down" /\ socket' = IF socket = "live" THEN "stale" ELSE socket
          /\ link' = FALSE /\ known' = Bare /\ todo' = {} /\ dirty' = FALSE
          /\ routed' = {} /\ given' = Nothing
          /\ UNCHANGED <<kernel, input, panicked>>

TunStep == Launch \/ Create \/ Reap \/ Configure \/ TunPass \/ SetLink \/ TunPrune \/ SetPeer \/ Route
TunNext == TunStep \/ Feed \/ TunEnd
\* the process runs, and the service manager restarts it
TunFairness == WF_tunVars(TunStep)
TunSpec == TunInit /\ [][TunNext]_tunVars /\ TunFairness

(***************************************************************************)
(* Properties                                                              *)
(***************************************************************************)
Tunnel(p) == [ips : SUBSET TunIp[p], to : {{}} \cup {{r} : r \in Rank}]

\* Every variable keeps its type, and no tunnel is ever changed in place (daemon.rs
\* apply_seeds: boringtun "panics on an endpoint/allowed-ips change").
TunTypeOK ==
    /\ engine \in {"down", "create", "stale", "config", "link", "prune", "set", "route", "idle"}
    /\ socket \in {"none", "live", "stale"} /\ link \in BOOLEAN
    /\ \A p \in TunPeer : \A t \in known[p] : t \in Tunnel(p)
    /\ ~panicked

\* After every pass each peer has one tunnel, with all the addresses it was
\* seeded with and the best endpoint known, and none while paused (daemon.rs
\* apply_seeds, apply_state), whatever sequence of seeds and paths led there.
TunnelsFollow ==
    engine = "idle" =>
        /\ \A p \in TunPeer :
             known[p] = IF given.paused \/ given.seeds[p] = {} THEN {}
                       ELSE {[ips |-> given.seeds[p], to |-> Endpoint(p)]}
        /\ given.paused /\ ~kernel => ~link

\* An address the interface carries is routed to it, through pauses too: the
\* link's routes go with it, and come back because a pause also drops every
\* peer (daemon.rs apply_state).  Unless installing routes failed: that only
\* warns, and nothing retries it until the next change.
RoutesFollow ==
    engine = "idle" /\ used.route = 0 /\ link =>
        \A p \in TunPeer : TunCarries(p) => \A t \in known[p] : t.ips \subseteq routed

\* What the interface carries after every pass, whatever happened before it.
TunnelsSafe == TunTypeOK /\ TunnelsFollow /\ RoutesFollow

\* A killed engine comes up again, and applies the latest state: the socket it
\* left does not keep it down (wg/userspace.rs: "a headless box just restart-loops").
IsUp == engine = "idle" /\ given = input
ComesUpAgain == <>[]IsUp
=============================================================================
