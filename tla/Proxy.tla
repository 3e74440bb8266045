------------------------------- MODULE Proxy -------------------------------
(***************************************************************************)
(* The TLS proxy of one device and the engine that supervises it           *)
(* (src/crates/proxy/src, src/crates/engine/src/proxy.rs and               *)
(* daemon.rs::sync_proxy).                                                 *)
(*                                                                         *)
(* The proxy is a process of its own.  The engine starts it with a bound   *)
(* listener while the device has web services, starts it again when it     *)
(* died or the mesh address moved, and kills it when nothing is left.  The *)
(* proxy follows the engine's status over the control socket, rebuilds     *)
(* what it serves whenever that changes, and answers every connection with *)
(* what was served when the connection was taken.                          *)
(*                                                                         *)
(* A certificate is its number; the engine tells of it once both halves    *)
(* are written, and the next one is written over it half by half.  HTTP is *)
(* a route looked up for a service and a caller.                           *)
(***************************************************************************)
EXTENDS Integers, FiniteSets

CONSTANTS
  Svc,      \* web services
  Peer,     \* mesh peers that may connect
  Addr,     \* mesh addresses this device may be given
  MaxProxyChange, MaxProxyCert, MaxCrash  \* bounds

ASSUME ProxyBounds == MaxProxyCert \in Nat

VARIABLES
  routes,   \* the engine: service -> {} or {whom it admits}
  addr,     \* {} or {the mesh address the coordinator gave us}
  proxyCert,     \* the certificate the status tells of, 0 for none
  files,    \* on disk: the number of each half
  proxyEngine,   \* the engine runs
  held,     \* sync_proxy holds a proxy
  proxyBound,    \* the address the proxy process was given, {} when none runs
  dying,    \* the addresses a killed proxy still occupies
  proxyLink,     \* the proxy is connected to the control socket
  live,     \* the proxy's Live
  changed,  \* Live has changed since the serve loop read it
  serving,  \* {} or {what new connections are served with}
  listener, \* the proxy has taken the listener
  conn,     \* peer -> {} or {the routes its connection was taken with}
  proxyChanges, crashes

ownerVars == <<routes, addr, proxyCert, files>>
engineVars == <<proxyEngine, held, proxyBound, dying>>
procVars == <<proxyLink, live, changed, serving, listener, conn>>
proxyCounts == <<proxyChanges, crashes>>
proxyVars == <<ownerVars, engineVars, procVars, proxyCounts>>

NoRoutes == [s \in Svc |-> {}]
Nothing == [bind |-> {}, cert |-> 0, routes |-> NoRoutes]
Named(r) == {s \in Svc : r[s] # {}}
\* Live::from: what a status line implies for the proxy.
LiveFrom == [bind |-> addr, cert |-> proxyCert, routes |-> routes]
\* Live::servable: an address, a certificate and at least one route.
Servable(l) == l.bind # {} /\ l.cert # 0 /\ Named(l.routes) # {}
\* load_tls reads the files as they are now: both halves, and of one pair.
Loads == files.cert # 0 /\ files.cert = files.key

------------------------------------------------------------------------------
\* A process that starts or goes has an empty memory and no connections.
Blank ==
  /\ proxyLink' = FALSE /\ live' = Nothing /\ changed' = TRUE /\ serving' = {}
  /\ listener' = FALSE /\ conn' = [p \in Peer |-> {}]

\* sync_proxy keeps what it holds while it is alive and bound where we are.
Keeps == held /\ proxyBound # {} /\ (addr = {} \/ addr = proxyBound)
\* decide: run exactly while there is something to serve.
Wanted == addr # {} /\ Named(routes) # {}

\* sync_proxy, in a pass of the mesh loop: a proxy that died or is bound
\* elsewhere is dropped, which kills it; binding fails while the port is
\* still occupied, and the next pass tries again.
SyncStart ==
  /\ proxyEngine /\ Wanted /\ ~Keeps
  /\ held \/ addr \cap (dying \cup proxyBound) = {}
  /\ dying' = dying \cup proxyBound
  /\ proxyBound' = addr \ (dying \cup proxyBound)
  /\ held' = (proxyBound' # {})
  /\ Blank /\ UNCHANGED <<ownerVars, proxyEngine, proxyCounts>>
SyncStop ==
  /\ proxyEngine /\ held /\ ~Wanted
  /\ dying' = dying \cup proxyBound /\ proxyBound' = {} /\ held' = FALSE
  /\ Blank /\ UNCHANGED <<ownerVars, proxyEngine, proxyCounts>>
\* The killed process is gone, and its port with it.
ProxyGone ==
  /\ dying # {} /\ dying' = {}
  /\ UNCHANGED <<ownerVars, proxyEngine, held, proxyBound, procVars, proxyCounts>>

------------------------------------------------------------------------------
\* The proxy: subscribe and watch_once.
ProxyConnect ==
  /\ proxyBound # {} /\ proxyEngine /\ ~proxyLink
  /\ proxyLink' = TRUE
  /\ UNCHANGED <<ownerVars, engineVars, live, changed, serving, listener, conn, proxyCounts>>
\* A line of the stream; one that changes nothing wakes nobody.
Line ==
  /\ proxyEngine /\ proxyLink /\ live # LiveFrom
  /\ live' = LiveFrom /\ changed' = TRUE
  /\ UNCHANGED <<ownerVars, engineVars, proxyLink, serving, listener, conn, proxyCounts>>
\* Not part of the code: the last word is kept while the engine is away.
LostKept == live
\* subscribe: nothing is served while the engine is unreachable.
ProxyLost == Nothing
Disconnect ==
  /\ proxyLink /\ ~proxyEngine
  /\ proxyLink' = FALSE /\ live' = ProxyLost /\ changed' = (changed \/ live # ProxyLost)
  /\ UNCHANGED <<ownerVars, engineVars, serving, listener, conn, proxyCounts>>

\* What new connections are served with from here on.
Served == {[cert |-> files.cert, routes |-> live.routes]}
\* serve_loop: one round.  A certificate that does not load serves nothing.
ProxyRebuild ==
  /\ proxyBound # {} /\ changed
  /\ changed' = FALSE
  /\ IF Servable(live) /\ Loads
     THEN serving' = Served /\ listener' = TRUE
     ELSE serving' = {} /\ listener' = listener
  /\ UNCHANGED <<ownerVars, engineVars, proxyLink, live, conn, proxyCounts>>

\* listen: a connection is taken with what is served now, or closed.
Accept(p) ==
  /\ listener /\ conn[p] = {} /\ serving # {}
  /\ conn' = [conn EXCEPT ![p] = {x.routes : x \in serving}]
  /\ UNCHANGED <<ownerVars, engineVars, proxyLink, live, changed, serving, listener, proxyCounts>>
Close(p) ==
  /\ conn[p] # {} /\ conn' = [conn EXCEPT ![p] = {}]
  /\ UNCHANGED <<ownerVars, engineVars, proxyLink, live, changed, serving, listener, proxyCounts>>

------------------------------------------------------------------------------
\* The owner, the coordinator and the CA, as the engine sees them.  An address
\* does not move while a proxy lives that the engine does not hold.
ChangeRoute(s, allow) ==
  /\ proxyChanges < MaxProxyChange /\ proxyChanges' = proxyChanges + 1
  /\ routes[s] # allow /\ routes' = [routes EXCEPT ![s] = allow]
  /\ UNCHANGED <<addr, proxyCert, files, engineVars, procVars, crashes>>
Move(a) ==
  /\ proxyEngine /\ (held \/ proxyBound = {}) /\ proxyChanges < MaxProxyChange /\ proxyChanges' = proxyChanges + 1
  /\ addr # {a} /\ addr' = {a}
  /\ UNCHANGED <<routes, proxyCert, files, engineVars, procVars, crashes>>
\* finalize writes the certificate, then the key; set_cert_status follows.
WriteHalf ==
  /\ proxyEngine /\ files.cert = files.key /\ files.cert = proxyCert /\ proxyCert < MaxProxyCert
  /\ files' = [files EXCEPT !.cert = @ + 1]
  /\ UNCHANGED <<routes, addr, proxyCert, engineVars, procVars, proxyCounts>>
WriteRest ==
  /\ proxyEngine /\ files.key < files.cert
  /\ files' = [files EXCEPT !.key = files.cert]
  /\ UNCHANGED <<routes, addr, proxyCert, engineVars, procVars, proxyCounts>>
Tell ==
  /\ proxyEngine /\ files.key = files.cert /\ proxyCert # files.cert
  /\ proxyCert' = files.cert
  /\ UNCHANGED <<routes, addr, files, engineVars, procVars, proxyCounts>>

\* The proxy dies; the engine stops, with its proxy or without it, between
\* issuances (Certs has the crash that splits a pair); the engine is back.
ProxyDies ==
  /\ proxyBound # {} /\ crashes < MaxCrash /\ crashes' = crashes + 1
  /\ proxyBound' = {} /\ Blank
  /\ UNCHANGED <<ownerVars, proxyEngine, held, dying, proxyChanges>>
EngineStops ==
  /\ proxyEngine /\ files.key = files.cert
  /\ crashes < MaxCrash /\ crashes' = crashes + 1
  /\ proxyEngine' = FALSE /\ held' = FALSE /\ proxyCert' = 0
  /\ \/ proxyBound' = {} /\ dying' = dying \cup proxyBound /\ Blank
     \/ proxyBound # {} /\ UNCHANGED <<proxyBound, dying, procVars>>
  /\ UNCHANGED <<routes, addr, files, proxyChanges>>
EngineStarts ==
  /\ ~proxyEngine /\ proxyEngine' = TRUE
  /\ UNCHANGED <<ownerVars, held, proxyBound, dying, procVars, proxyCounts>>

Own == WriteRest \/ Tell
ProxyFollow == ProxyConnect \/ Line \/ Disconnect

ProxyInit ==
  /\ routes = NoRoutes /\ addr = {} /\ proxyCert = 0 /\ files = [cert |-> 0, key |-> 0]
  /\ proxyEngine = TRUE /\ held = FALSE /\ proxyBound = {} /\ dying = {}
  /\ proxyLink = FALSE /\ live = Nothing /\ changed = TRUE /\ serving = {}
  /\ listener = FALSE /\ conn = [p \in Peer |-> {}]
  /\ proxyChanges = 0 /\ crashes = 0

ProxyNext ==
  \/ SyncStart \/ SyncStop \/ ProxyGone
  \/ ProxyFollow \/ ProxyRebuild
  \/ \E p \in Peer : Accept(p) \/ Close(p)
  \/ \E s \in Svc : ChangeRoute(s, {}) \/ \E a \in SUBSET Peer : ChangeRoute(s, {a})
  \/ \E a \in Addr : Move(a)
  \/ WriteHalf \/ Own
  \/ ProxyDies \/ EngineStops \/ EngineStarts

\* Passes of the mesh loop, the tasks of the proxy and a killed process go on,
\* an issuance that began ends, and an engine that stopped comes back.
ProxyFairness ==
  /\ WF_proxyVars(SyncStart) /\ WF_proxyVars(SyncStop) /\ WF_proxyVars(ProxyGone)
  /\ WF_proxyVars(ProxyFollow) /\ WF_proxyVars(ProxyRebuild)
  /\ WF_proxyVars(Own) /\ WF_proxyVars(EngineStarts)

ProxySpec == ProxyInit /\ [][ProxyNext]_proxyVars /\ ProxyFairness

------------------------------------------------------------------------------
RouteMaps == [Svc -> {{}} \cup {{a} : a \in SUBSET Peer}]
\* The variables have their types; only a process holds state, and the status
\* tells of no certificate whose halves are not both written.
ProxyTypeOK ==
  /\ routes \in RouteMaps /\ addr \in {{}} \cup {{a} : a \in Addr}
  /\ proxyCert \in 0..MaxProxyCert /\ files \in [cert : 0..MaxProxyCert, key : 0..MaxProxyCert]
  /\ proxyCert <= files.key /\ files.key <= files.cert
  /\ proxyEngine \in BOOLEAN /\ held \in BOOLEAN /\ proxyBound \subseteq Addr /\ dying \subseteq Addr
  /\ Cardinality(proxyBound) <= 1
  /\ live.routes \in RouteMaps /\ live.cert \in 0..MaxProxyCert
  /\ \A x \in serving : x.routes \in RouteMaps
  /\ \A p \in Peer : conn[p] \subseteq RouteMaps
  /\ proxyBound = {} => ~proxyLink /\ serving = {} /\ ~listener /\ \A p \in Peer : conn[p] = {}

\* Nothing is served on an older word than the proxy's latest: once a round of
\* serve_loop is through, what new connections get is what the engine last
\* told, and nothing while the engine is unreachable (subscribe: "serving on a
\* stale allow-list is exactly the failure this is here to prevent").
NoStaleWord ==
  (proxyBound # {} /\ ~changed) =>
    /\ \A x \in serving : x.routes = live.routes
    /\ ~proxyLink => serving = {}

\* What the proxy never serves, whatever it missed.
ProxySafe == ProxyTypeOK /\ NoStaleWord

\* Whatever dies and whatever is renewed in between, a device with web
\* services and a certificate ends up served on its own address, with the
\* routes it has and the certificate on disk; without services nothing runs
\* that the engine holds (sync_proxy, serve_loop).
ServesAtLast ==
  <>[](IF Wanted
       THEN /\ proxyBound = addr
            /\ proxyCert # 0 => listener /\ serving = {[cert |-> files.cert, routes |-> routes]}
       ELSE ~held /\ serving = {})
=============================================================================
