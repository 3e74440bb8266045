--------------------------- MODULE HostLifecycle ---------------------------
(***************************************************************************)
(* The life of one engine process on its host (engine/src/daemon.rs run):  *)
(* what it puts on the machine while it starts, enrols and meshes, and in  *)
(* which order a stop, a logout and an update restart take it off again;   *)
(* the device key, its token and the interactive login that binds a key    *)
(* (keys.rs, oauth.rs).  Removing the interface can block for ever in      *)
(* boringtun's uapi; the teardown watchdog, the supervisor's kill after a  *)
(* stop (packaging unit: 15 s) and a plain crash are modelled.             *)
(***************************************************************************)
EXTENDS Naturals, FiniteSets

CONSTANTS MaxKeys,      \* keys this install may generate
          MaxStops, MaxLogouts, MaxUpdates, MaxKills, MaxLogins   \* bounds

ASSUME HostKeys == MaxKeys \in Nat

Zeros == 0              \* the public key before the enrolment loop sets it
Key == 0 .. MaxKeys

VARIABLES at,        \* where the process is
          host,      \* what it has put on the machine
          wgKey,     \* key in wg.key, 0 when there is none
          tokenOf,   \* key the saved device token names, 0 when there is none
          pubkey,    \* the cell the control socket reads a login's key from
          last,      \* the newest key generated
          login,     \* key of the login under way, or NoLogin
          bound,     \* keys the coordinator has a row for
          present,   \* keys in the coordinator's presence map
          logoutLit, loginLit,   \* Notify permits
          stopping,  \* the shutdown signal has fired
          ended,     \* how the last process ended
          bounds
hostVars == <<at, host, wgKey, tokenOf, pubkey, last, login, bound, present,
              logoutLit, loginLit, stopping, ended, bounds>>

NoLogin == MaxKeys + 1
Places == {"off", "setup", "enrol", "register", "wait", "refused", "bringup", "mesh", "backoff",
           "withdraw", "unwall", "unresolve", "unlink", "update", "stuck", "stuckLogout",
           "remove", "outlink", "outwall", "outresolve", "forgetToken", "forgetKey", "forgetCerts"}
Things == {"wall", "peers", "resolver", "iface", "mapping"}
Sleeping == {"refused", "backoff"}    \* plain sleeps, deaf to every signal

HostInit ==
    /\ at = "off" /\ host = {} /\ wgKey = 0 /\ tokenOf = 0 /\ pubkey = Zeros /\ last = 0
    /\ login = NoLogin /\ bound = {} /\ present = {} /\ ended = "never"
    /\ logoutLit = FALSE /\ loginLit = FALSE /\ stopping = FALSE
    /\ bounds = [stop |-> MaxStops, logout |-> MaxLogouts, update |-> MaxUpdates,
                 kill |-> MaxKills, login |-> MaxLogins]

Spend(b) == bounds[b] > 0 /\ bounds' = [bounds EXCEPT ![b] = @ - 1]
Keys == <<wgKey, tokenOf, pubkey, last>>
Remote == <<login, bound, present>>
Signals == <<logoutLit, loginLit, stopping>>

(***************************************************************************)
(* Start-up and enrolment                                                  *)
(***************************************************************************)
Walled == (host \ {"peers"}) \cup {"wall"}
\* the firewall goes in before anything else; then the control socket serves
Start == /\ at = "off" /\ ~stopping
         /\ at' = "setup" /\ host' = Walled
         /\ pubkey' = Zeros /\ login' = NoLogin
         /\ logoutLit' = FALSE /\ loginLit' = FALSE
         /\ UNCHANGED <<wgKey, tokenOf, last, bound, present, stopping, ended, bounds>>

\* UPnP may map the port, or fail
Endpoint == /\ at = "setup" /\ at' = "enrol"
            /\ host' \in {host, host \cup {"mapping"}}
            /\ UNCHANGED <<Keys, Remote, Signals, ended, bounds>>

Enrol == /\ at = "enrol" /\ at' = "register"
         /\ IF wgKey = 0 THEN last < MaxKeys /\ last' = last + 1 /\ wgKey' = last + 1
                         ELSE UNCHANGED <<last, wgKey>>
         /\ pubkey' = wgKey'
         /\ UNCHANGED <<host, tokenOf, Remote, Signals, ended, bounds>>

\* registered: a token naming an older key has the coordinator retire that row
RegisterOk == /\ at = "register" /\ ~stopping /\ wgKey \in bound
              /\ LET old == IF tokenOf \in bound \ {wgKey} THEN {tokenOf} ELSE {}
                 IN  bound' = bound \ old /\ present' = (present \ old) \cup {wgKey}
              /\ tokenOf' = wgKey
              /\ at' = "bringup"
              /\ UNCHANGED <<host, wgKey, pubkey, last, login, Signals, ended, bounds>>
\* not enrolled, no network, or no answer: wait; a refused protocol sleeps hard
RegisterElse == /\ at = "register" /\ ~stopping
                /\ at' \in {"wait", "refused"}
                /\ UNCHANGED <<host, Keys, Remote, Signals, ended, bounds>>
Waited == /\ at = "wait" /\ at' = "register"
          /\ loginLit' = FALSE      \* the timer, a login just bound, or a stop
          /\ UNCHANGED <<host, Keys, Remote, logoutLit, stopping, ended, bounds>>
StopRegister == /\ at = "register" /\ stopping
                /\ host' = host \ {"wall", "peers"} /\ at' = "off" /\ ended' = "interrupted"
                /\ UNCHANGED <<Keys, Remote, Signals, bounds>>

\* interface, DNS, resolver hook; then the first snapshot opens the firewall
BringUp == /\ at = "bringup" /\ at' = "mesh"
           /\ host' \in {host \cup {"iface", "peers"}, host \cup {"iface", "peers", "resolver"}}
           /\ UNCHANGED <<Keys, Remote, Signals, ended, bounds>>
\* a step that propagates its error: the process ends with no teardown
BringUpFails == /\ at \in {"bringup", "mesh"} /\ Spend("kill")
                /\ at' = "off" /\ ended' = "failed" /\ host' = host \ {"iface"}
                /\ UNCHANGED <<Keys, Remote, Signals>>

(***************************************************************************)
(* The mesh loop                                                           *)
(***************************************************************************)
Refreshed == /\ at = "mesh" /\ ~(wgKey \in present)
             /\ wgKey \in bound /\ present' = present \cup {wgKey}
             /\ UNCHANGED <<at, host, Keys, login, bound, Signals, ended, bounds>>
\* a fired stop wins the select over a request that is not ready
RefreshFails == /\ at = "mesh" /\ ~stopping /\ at' = "backoff"
                /\ UNCHANGED <<host, Keys, Remote, Signals, ended, bounds>>
Awake == /\ at \in Sleeping
         /\ at' = IF at = "backoff" THEN "mesh" ELSE "register"
         /\ UNCHANGED <<host, Keys, Remote, Signals, ended, bounds>>

FirstUndoneIface == "unlink"
FirstUndone == "unwall"
\* teardown: presence first, host-global state, then the interface
BeginStop == /\ at = "mesh" /\ stopping /\ at' = "withdraw"
             /\ UNCHANGED <<host, Keys, Remote, Signals, ended, bounds>>
Withdraw == /\ at = "withdraw" /\ at' = FirstUndone
            /\ present' \in {present, present \ {wgKey}}      \* bounded to three seconds
            /\ UNCHANGED <<host, Keys, login, bound, Signals, ended, bounds>>
Unwall == /\ at = "unwall" /\ at' = "unresolve" /\ host' = host \ {"wall", "peers"}
          /\ UNCHANGED <<Keys, Remote, Signals, ended, bounds>>
Unresolve == /\ at = "unresolve" /\ at' = "unlink" /\ host' = host \ {"resolver"}
             /\ UNCHANGED <<Keys, Remote, Signals, ended, bounds>>
Unlink == /\ at \in {"unlink", "update"}
          /\ \/ /\ at' = "off" /\ host' = host \ {"iface"}
                /\ ended' = IF at = "update" THEN "updated" ELSE "stopped"
             \/ /\ at' = "stuck"
                /\ ended' = IF at = "update" THEN "updating" ELSE "stopping"
                /\ UNCHANGED host
          /\ UNCHANGED <<Keys, Remote, Signals, bounds>>
\* the watchdog: a plain thread that exits the process
WatchesNothing == {}
Watched == {"stuck"}
Watchdog == /\ at \in Watched /\ at' = "off" /\ host' = host \ {"iface"}
            /\ ended' = IF ended = "updating" THEN "updated" ELSE "stopped"
            /\ UNCHANGED <<Keys, Remote, Signals, bounds>>

\* the binary is swapped: only the interface goes, the rest is re-applied
Update == /\ at = "mesh" /\ Spend("update") /\ at' = "update"
          /\ UNCHANGED <<host, Keys, Remote, Signals, ended>>

\* logout: un-enrol, then interface, firewall peers, resolver, then the key
Logout == /\ at = "mesh" /\ logoutLit /\ logoutLit' = FALSE /\ at' = "remove"
          /\ UNCHANGED <<host, Keys, Remote, loginLit, stopping, ended, bounds>>
Evicted == present \ {tokenOf}       \* the coordinator drops the row's presence with it
Remove == /\ at = "remove" /\ at' = "outlink"
          /\ \/ tokenOf # 0 /\ bound' = bound \ {tokenOf} /\ present' = Evicted
             \/ UNCHANGED <<bound, present>>         \* coordinator unreachable
          /\ UNCHANGED <<host, Keys, login, Signals, ended, bounds>>
OutLink == /\ at = "outlink"
           /\ \/ at' = "outwall" /\ host' = host \ {"iface"}
              \/ at' = "stuckLogout" /\ UNCHANGED host     \* no watchdog here
           /\ UNCHANGED <<Keys, Remote, Signals, ended, bounds>>
OutWall == /\ at = "outwall" /\ at' = "outresolve" /\ host' = host \ {"peers"}
           /\ UNCHANGED <<Keys, Remote, Signals, ended, bounds>>
OutResolve == /\ at = "outresolve" /\ at' = "forgetToken" /\ host' = host \ {"resolver"}
              /\ UNCHANGED <<Keys, Remote, Signals, ended, bounds>>
Forgotten == [token |-> "forgetToken", key |-> "forgetKey"]     \* the order of the files
ForgetToken == /\ at = Forgotten.token /\ tokenOf' = 0
               /\ at' = IF at = "forgetToken" THEN "forgetKey" ELSE "forgetCerts"
               /\ UNCHANGED <<host, wgKey, pubkey, last, Remote, Signals, ended, bounds>>
ForgetKey == /\ at = Forgotten.key /\ wgKey' = 0
             /\ at' = IF at = "forgetToken" THEN "forgetKey" ELSE "forgetCerts"
             /\ UNCHANGED <<host, tokenOf, pubkey, last, Remote, Signals, ended, bounds>>
ForgetCerts == /\ at = "forgetCerts" /\ at' = "enrol"
               /\ UNCHANGED <<host, Keys, Remote, Signals, ended, bounds>>

(***************************************************************************)
(* The control socket, the supervisor and failures                         *)
(***************************************************************************)
Serving == at \notin {"off", "stuck", "stuckLogout"}
\* one loopback listener: a second login cannot bind it
LoginKey == pubkey
LoginBegin == /\ Serving /\ login = NoLogin /\ Spend("login") /\ login' = LoginKey
              /\ UNCHANGED <<at, host, Keys, bound, present, Signals, ended>>
LoginDone == /\ Serving /\ login # NoLogin
             /\ bound' = bound \cup {login} /\ login' = NoLogin /\ loginLit' = TRUE
             /\ UNCHANGED <<at, host, Keys, present, logoutLit, stopping, ended, bounds>>
LoginFails == /\ Serving /\ login # NoLogin /\ login' = NoLogin
              /\ UNCHANGED <<at, host, Keys, bound, present, Signals, ended, bounds>>
AskLogout == /\ Serving /\ Spend("logout") /\ logoutLit' = TRUE
             /\ UNCHANGED <<at, host, Keys, Remote, loginLit, stopping, ended>>

AskStop == /\ at # "off" /\ ~stopping /\ Spend("stop") /\ stopping' = TRUE
           /\ UNCHANGED <<at, host, Keys, Remote, logoutLit, loginLit, ended>>
\* UPnP's own task, which the process does not wait for
Unmap == /\ stopping /\ at # "off" /\ "mapping" \in host /\ host' = host \ {"mapping"}
         /\ UNCHANGED <<at, Keys, Remote, Signals, ended, bounds>>
\* fifteen seconds after a stop the supervisor kills what is still there
KillLate == /\ stopping /\ at \in Sleeping \cup {"stuckLogout"}
            /\ at' = "off" /\ ended' = "killed" /\ host' = host \ {"iface"}
            /\ UNCHANGED <<Keys, Remote, Signals, bounds>>
Crash == /\ at # "off" /\ Spend("kill")
         /\ at' = "off" /\ ended' = "killed" /\ host' = host \ {"iface"}
         /\ UNCHANGED <<Keys, Remote, Signals>>
\* someone starts a stopped engine again
StartAgain == /\ at = "off" /\ stopping /\ stopping' = FALSE
              /\ UNCHANGED <<at, host, Keys, Remote, logoutLit, loginLit, ended, bounds>>
\* leases lapse: the router's mapping, and the coordinator's presence
Lapse == /\ at = "off" /\ (present # {} \/ "mapping" \in host)
         /\ present' = {} /\ host' = host \ {"mapping"}
         /\ UNCHANGED <<at, Keys, login, bound, Signals, ended, bounds>>

Teardown == BeginStop \/ Withdraw \/ Unwall \/ Unresolve \/ Unlink \/ Watchdog \/ StopRegister
LogoutSteps == Logout \/ Remove \/ OutLink \/ OutWall \/ OutResolve \/ ForgetToken
               \/ ForgetKey \/ ForgetCerts
Rise == Start \/ Endpoint \/ Enrol \/ RegisterOk \/ BringUp
Steps == Rise \/ RegisterElse \/ Waited \/ Awake \/ Teardown \/ LogoutSteps
HostNext ==
    \/ Steps \/ BringUpFails \/ Refreshed \/ RefreshFails \/ Update
    \/ LoginBegin \/ LoginDone \/ LoginFails \/ AskLogout \/ AskStop
    \/ Unmap \/ KillLate \/ Crash \/ StartAgain \/ Lapse

\* the runtime, the watchdog thread and the supervisor keep running
HostFair == WF_hostVars(Steps) /\ WF_hostVars(KillLate)
HostSpec == HostInit /\ [][HostNext]_hostVars /\ HostFair

(***************************************************************************)
(* Properties                                                              *)
(***************************************************************************)
\* Every variable keeps its type.
HostTypeOK ==
    /\ at \in Places /\ host \subseteq Things
    /\ wgKey \in Key /\ tokenOf \in Key /\ pubkey \in Key /\ last \in Key
    /\ login \in Key \cup {NoLogin} /\ bound \subseteq Key /\ present \subseteq bound
    /\ logoutLit \in BOOLEAN /\ loginLit \in BOOLEAN /\ stopping \in BOOLEAN
    /\ ended \in {"never", "stopped", "interrupted", "stopping", "updating", "updated",
                  "failed", "killed"}

\* "the rules are in place the instant the interface appears" (daemon.rs
\* build_firewall): outside a stop's own teardown, no interface is up without
\* the default-deny table, across logouts, updates, crashes and restarts.
WalledMesh ==
    "iface" \in host /\ at \notin {"unresolve", "unlink", "stuck"} => "wall" \in host

\* A stop that ran its teardown took the firewall and the resolver hook off the
\* machine, also when removing the interface wedged and the watchdog ended it
\* (daemon.rs teardown: "the order that survives a SIGKILL").
StopReverts ==
    /\ at = "off" /\ ended = "stopped" => host \cap {"wall", "peers", "resolver"} = {}
    /\ at = "off" /\ ended = "interrupted" => host \cap {"wall", "peers"} = {}

\* The saved token never names a key other than the one on disk, wherever a
\* logout was cut (keys.rs clear_enrollment removes the token first).
TokenNamesKey == tokenOf \in {0, wgKey}

\* A stop ends, whatever the process was doing when it came.
StopEnds == []<>(stopping => at = "off")

\* What an engine keeps of its host at every step, wherever it is stopped or killed.
HostSafe == HostTypeOK /\ WalledMesh /\ StopReverts /\ TokenNamesKey
=============================================================================
