----------------------------- MODULE NodeProofs -----------------------------
(***************************************************************************)
(* Proofs about the processes of the system: what the coordinator knows of *)
(* its members (Membership), what an engine puts on its host and takes off *)
(* it (HostLifecycle), how it replaces itself (SelfUpdate), its TLS proxy  *)
(* (Proxy), its control socket (Frontend), the desktop (SingleGui) and the *)
(* names peers make of its services (MeshServices), for any guilds,        *)
(* builds, keys, releases, processes, requests, names and bounds.          *)
(***************************************************************************)
EXTENDS SelfUpdate, HostLifecycle, Membership, Proxy, Frontend, SingleGui,
        MeshServices, FiniteSetTheorems, NaturalsInduction, WellFoundedInduction, TLAPS

-----------------------------------------------------------------------------
(* Self update.                                                            *)

\* The floor is the newest version ever staged, and a manifest kept as the last offer
\* was decided against it.
StagedIInv ==
  /\ UpdTypeOK /\ floor = best
  /\ NoRollback /\ NotPoisoned

LEMMA VersionOrder ==
  /\ Version \cup {0, Torn} \subseteq Nat /\ 1 \in Version /\ 0 \notin Version /\ Torn \notin Version
  /\ Torn # 0 /\ \A v \in Version \cup {0} : v < Torn
BY UpdVersions DEF Version, Torn

LEMMA UpdStart == UpdInit => StagedIInv
<1> SUFFICES ASSUME UpdInit PROVE StagedIInv
  OBVIOUS
<1>1. UpdTypeOK
  BY VersionOrder DEF UpdInit, UpdTypeOK, Offers, NoOffer, Idle, UpdSteps
<1> QED BY <1>1 DEF UpdInit, StagedIInv, NoRollback, NotPoisoned, NoOffer

LEMMA UpdRespond ==
  ASSUME StagedIInv, NEW m \in Offers, Respond(m) PROVE StagedIInv'
<1>1. /\ floor \in Version \cup {0} /\ best = floor /\ slot \in Version \cup {0}
      /\ running \in Version \cup {0} /\ m.v \in Version \cup {0}
      /\ Version \cup {0} \subseteq Nat
  BY VersionOrder DEF StagedIInv, UpdTypeOK, Offers, NoOffer
<1>2. /\ offer' = m
      /\ slot' = IF m.v # 0 /\ Applies(m) THEN m.v ELSE 0
      /\ best' = IF m.v # 0 /\ Applies(m) /\ m.v > best THEN m.v ELSE best
      /\ floor' = IF m.v # 0 /\ Applies(m) /\ m.v > floor THEN m.v ELSE floor
      /\ UNCHANGED <<running, engine, gui, work, unpacked, marker, plan, restartLit>>
  BY DEF Respond, Raises, IsNewer
<1>3. Applies(m) <=> floor <= m.v /\ m.v > running /\ m.ours
  BY <1>1 DEF Applies, ClearsFloor, IsNewer
<1>4. UpdTypeOK'
  BY <1>1, <1>2 DEF StagedIInv, UpdTypeOK
<1>5. floor' = best' /\ NoRollback'
  BY <1>1, <1>2, <1>3 DEF NoRollback
<1>6. NotPoisoned'
  <2> SUFFICES ASSUME m.ours, m.v > running, m.v >= best' PROVE slot' = m.v
    BY <1>2 DEF NotPoisoned
  <2>1. best <= best'
    BY <1>1, <1>2
  <2> QED BY <1>1, <1>2, <1>3, <2>1
<1> QED BY <1>4, <1>5, <1>6 DEF StagedIInv

\* A step of a task reads what is unpacked and writes a version it was given.
LEMMA UpdTaskStep ==
  ASSUME StagedIInv, NEW t \in UpdTask, ApplyUpdate(t) \/ Task(t) PROVE StagedIInv'
<1>1. UNCHANGED <<running, floor, slot, offer, best>>
  BY DEF ApplyUpdate, Task, Download, Unpack, ReplaceGui, Swap, Tidy, Mark, Plan, Signal
<1>2. work \in [UpdTask -> [at : UpdSteps, v : Version \cup {0}]] /\ work[t] \in [at : UpdSteps, v : Version \cup {0}]
  BY DEF StagedIInv, UpdTypeOK
<1>3. work' \in [UpdTask -> [at : UpdSteps, v : Version \cup {0}]]
  <2>1. CASE work' = [work EXCEPT ![t] = Idle]
    BY <1>2, <2>1 DEF Idle, UpdSteps
  <2>2. CASE \E s \in UpdSteps : work' = [work EXCEPT ![t].at = s]
    <3>1. PICK s \in UpdSteps : work' = [work EXCEPT ![t].at = s]
      BY <2>2
    <3>2. [work[t] EXCEPT !.at = s] \in [at : UpdSteps, v : Version \cup {0}]
      BY <1>2
    <3>3. work' = [work EXCEPT ![t] = [work[t] EXCEPT !.at = s]]
      BY <1>2, <3>1
    <3> QED BY <1>2, <3>2, <3>3
  <2>3. CASE work' = [work EXCEPT ![t] = [at |-> "download", v |-> slot]]
    BY <1>2, <2>3 DEF StagedIInv, UpdTypeOK, UpdSteps
  <2> QED BY <2>1, <2>2, <2>3 DEF ApplyUpdate, Task, Download, Unpack, ReplaceGui, Swap, Tidy, Mark, Plan, Signal, Goto, UpdSteps
<1>4. /\ engine' \in Version \cup {Torn} /\ gui' \in Version \cup {0, Torn}
      /\ unpacked' \in Version \cup {0, Torn} /\ marker' \in Version \cup {0}
      /\ plan' \in BOOLEAN /\ restartLit' \in BOOLEAN
  BY <1>2 DEF StagedIInv, UpdTypeOK, ApplyUpdate, Task, Download, Unpack, ReplaceGui, Swap, Tidy, Mark, Plan, Signal, Swapped, Marked, UpdSignals
<1> QED BY <1>1, <1>3, <1>4 DEF StagedIInv, UpdTypeOK, NoRollback, NotPoisoned, Up

LEMMA UpdLeave ==
  ASSUME StagedIInv, Restart \/ Cut \/ Boot \/ UNCHANGED updVars PROVE StagedIInv'
<1>1. CASE UNCHANGED updVars
  BY <1>1 DEF updVars, StagedIInv, UpdTypeOK, NoRollback, NotPoisoned, Up
<1>2. CASE Restart \/ Cut \/ Boot
  <2>1. UNCHANGED <<engine, gui, floor, best, unpacked>> /\ offer' = NoOffer /\ slot' = 0
        /\ work' = [t \in UpdTask |-> Idle] /\ plan' = FALSE /\ restartLit' = FALSE
        /\ marker' \in {0, marker} /\ (running' = 0 \/ (engine # Torn /\ running' = engine))
    BY <1>2 DEF Restart, Cut, Boot, Comes, Ends, Cleared
  <2>2. running' \in Version \cup {0} /\ marker' \in Version \cup {0}
    BY <2>1 DEF StagedIInv, UpdTypeOK
  <2>3. UpdTypeOK'
    BY <2>1, <2>2 DEF StagedIInv, UpdTypeOK, Offers, Idle, UpdSteps
  <2> QED BY <2>1, <2>3 DEF StagedIInv, NoRollback, NotPoisoned, NoOffer
<1> QED BY <1>1, <1>2

LEMMA UpdStagedNext == StagedIInv /\ [UpdNext]_updVars => StagedIInv'
BY UpdRespond, UpdTaskStep, UpdLeave DEF UpdNext

\* selfupdate.rs (clears_floor, raise_floor), for any releases and any number of
\* concurrent applies: nothing older than what was staged is staged again, and a refused
\* manifest never keeps a newer release out.
THEOREM StagingIsSafe == UpdSpec => [](UpdTypeOK /\ NoRollback /\ NotPoisoned)
<1>1. StagedIInv => UpdTypeOK /\ NoRollback /\ NotPoisoned
  BY DEF StagedIInv
<1> QED BY <1>1, UpdStart, UpdStagedNext, PTL DEF UpdSpec

\* One ApplyUpdate at a time: what each of its steps has left behind.
OneApplier == \A s, t \in UpdTask : s = t
ApplyIInv ==
  /\ StagedIInv /\ marker <= best /\ marker <= engine
  /\ \A t \in UpdTask :
       /\ work[t].at # "idle" => marker <= work[t].v /\ work[t].v <= best
       /\ work[t].at \in {"gui", "swap"} => unpacked = work[t].v
       /\ work[t].at \in {"tidy", "mark"} => engine = work[t].v

LEMMA ApplyStep ==
  ASSUME OneApplier, ApplyIInv, NEW t \in UpdTask, ApplyUpdate(t) \/ Task(t) PROVE ApplyIInv'
<1>1. StagedIInv' /\ StagedIInv
  BY UpdTaskStep DEF ApplyIInv
<1>2. /\ work \in [UpdTask -> [at : UpdSteps, v : Version \cup {0}]] /\ work[t] \in [at : UpdSteps, v : Version \cup {0}]
      /\ {best, engine, marker, unpacked, slot, work[t].v} \subseteq Nat
  BY <1>1, VersionOrder DEF StagedIInv, UpdTypeOK
<1>3. \A s \in UpdTask : s = t
  BY DEF OneApplier
<1>4. /\ marker <= best /\ marker <= engine
      /\ work[t].at # "idle" => marker <= work[t].v /\ work[t].v <= best
      /\ work[t].at \in {"gui", "swap"} => unpacked = work[t].v
      /\ work[t].at \in {"tidy", "mark"} => engine = work[t].v
  BY DEF ApplyIInv
<1>5. /\ marker' <= best' /\ marker' <= engine'
      /\ work'[t].at # "idle" => marker' <= work'[t].v /\ work'[t].v <= best'
      /\ work'[t].at \in {"gui", "swap"} => unpacked' = work'[t].v
      /\ work'[t].at \in {"tidy", "mark"} => engine' = work'[t].v
  <2>1. CASE ApplyUpdate(t)
    <3>1. work'[t] = [at |-> "download", v |-> slot] /\ UNCHANGED <<engine, best, marker>> /\ slot # 0
      BY <1>2, <2>1 DEF ApplyUpdate
    <3>2. slot = best
      BY <1>1, <3>1 DEF StagedIInv, NoRollback
    <3> QED BY <1>2, <1>4, <3>1, <3>2
  <2>2. CASE Download(t)
    <3>1. UNCHANGED <<engine, best, marker>> /\ work[t].at = "download"
          /\ (work'[t] = Idle \/ (work'[t].at = "unpack" /\ work'[t].v = work[t].v))
      BY <1>2, <2>2 DEF Download, Goto
    <3> QED BY <1>2, <1>4, <3>1 DEF Idle
  <2>3. CASE Unpack(t)
    <3>1. UNCHANGED <<engine, best, marker>> /\ work[t].at = "unpack" /\ unpacked' = work[t].v
          /\ work'[t].at = "gui" /\ work'[t].v = work[t].v
      BY <1>2, <2>3 DEF Unpack, Goto
    <3> QED BY <1>2, <1>4, <3>1
  <2>4. CASE ReplaceGui(t)
    <3>1. UNCHANGED <<engine, best, marker, unpacked>> /\ work[t].at = "gui"
          /\ work'[t].at = "swap" /\ work'[t].v = work[t].v
      BY <1>2, <2>4 DEF ReplaceGui, Goto
    <3> QED BY <1>2, <1>4, <3>1
  <2>5. CASE Swap(t)
    <3>1. UNCHANGED <<best, marker>> /\ work[t].at = "swap"
          /\ \/ engine' = unpacked /\ work'[t].at = "tidy" /\ work'[t].v = work[t].v
             \/ work'[t] = Idle /\ engine' = engine
      BY <1>2, <2>5 DEF Swap, Goto, Swapped
    <3> QED BY <1>2, <1>4, <3>1 DEF Idle
  <2>6. CASE Tidy(t)
    <3>1. UNCHANGED <<engine, best, marker>> /\ work[t].at = "tidy"
          /\ work'[t].at = "mark" /\ work'[t].v = work[t].v
      BY <1>2, <2>6 DEF Tidy, Goto
    <3> QED BY <1>2, <1>4, <3>1
  <2>7. CASE Mark(t)
    <3>1. UNCHANGED <<engine, best>> /\ work[t].at = "mark" /\ marker' = work[t].v
          /\ work'[t].at = "plan" /\ work'[t].v = work[t].v
      BY <1>2, <2>7 DEF Mark, Goto, Marked
    <3> QED BY <1>2, <1>4, <3>1
  <2>8. CASE Plan(t)
    <3>1. UNCHANGED <<engine, best, marker>> /\ work[t].at = "plan"
          /\ work'[t].at = "signal" /\ work'[t].v = work[t].v
      BY <1>2, <2>8 DEF Plan, Goto
    <3> QED BY <1>2, <1>4, <3>1
  <2>9. CASE Signal(t)
    <3>1. UNCHANGED <<engine, best, marker>> /\ work'[t] = Idle
      BY <1>2, <2>9 DEF Signal
    <3> QED BY <1>2, <1>4, <3>1 DEF Idle
  <2> QED BY <2>1, <2>2, <2>3, <2>4, <2>5, <2>6, <2>7, <2>8, <2>9 DEF Task
<1> QED BY <1>1, <1>3, <1>5 DEF ApplyIInv

\* selfupdate.rs, for any releases, while one apply runs at a time: besides, the breadcrumb
\* never promises more than what is installed, wherever the apply is cut.
THEOREM UpdateIsSafe == ASSUME OneApplier PROVE UpdSpec => []UpdateSafe
<1>1. UpdInit => ApplyIInv
  <2> SUFFICES ASSUME UpdInit PROVE ApplyIInv
    OBVIOUS
  <2>1. StagedIInv
    BY UpdStart
  <2>2. \A t \in UpdTask : work[t].at = "idle"
    BY DEF UpdInit, Idle
  <2> QED BY <2>1, <2>2 DEF UpdInit, ApplyIInv
<1>2. ApplyIInv /\ [UpdNext]_updVars => ApplyIInv'
  <2> SUFFICES ASSUME ApplyIInv, [UpdNext]_updVars PROVE ApplyIInv'
    OBVIOUS
  <2>0. StagedIInv /\ StagedIInv' /\ {best, best', engine, marker} \subseteq Nat
    BY UpdStagedNext, VersionOrder DEF ApplyIInv, StagedIInv, UpdTypeOK
  <2>1. CASE \E m \in Offers : Respond(m)
    <3>1. UNCHANGED <<engine, work, unpacked, marker>> /\ best <= best'
      BY <2>0, <2>1 DEF Respond, IsNewer
    <3>2. \A t \in UpdTask : work[t].v \in Nat
      BY <2>0, VersionOrder DEF StagedIInv, UpdTypeOK
    <3>3. marker <= best'
      BY <2>0, <3>1 DEF ApplyIInv
    <3>4. \A t \in UpdTask : work[t].v <= best => work[t].v <= best'
      BY <2>0, <3>1, <3>2
    <3> QED BY <2>0, <3>1, <3>3, <3>4 DEF ApplyIInv
  <2>2. CASE Restart \/ Cut \/ Boot
    <3>1. UNCHANGED <<engine, best>> /\ work' = [t \in UpdTask |-> Idle] /\ marker' \in {0, marker}
      BY <2>2 DEF Restart, Cut, Boot, Comes, Ends, Cleared
    <3>2. \A t \in UpdTask : work'[t].at = "idle"
      BY <3>1 DEF Idle
    <3>3. marker' <= best' /\ marker' <= engine'
      BY <2>0, <3>1 DEF ApplyIInv
    <3> QED BY <2>0, <3>2, <3>3 DEF ApplyIInv
  <2>3. CASE UNCHANGED updVars
    BY <2>0, <2>3 DEF updVars, ApplyIInv
  <2> QED BY <2>1, <2>2, <2>3, ApplyStep DEF UpdNext
<1>3. ApplyIInv => UpdateSafe
  BY VersionOrder DEF ApplyIInv, StagedIInv, UpdTypeOK, UpdateSafe, MarkerIsEarned
<1> QED BY <1>1, <1>2, <1>3, PTL DEF UpdSpec

-----------------------------------------------------------------------------
(* The life of the process on its host.                                    *)

\* What is on the machine at each place of the process.
PlacesHold ==
  /\ at \notin {"off", "unresolve", "unlink", "stuck"} => "wall" \in host
  /\ at \in {"off", "setup", "enrol", "register", "wait", "refused", "bringup",
             "outwall", "outresolve", "forgetToken", "forgetKey", "forgetCerts"} => "iface" \notin host
  /\ at = "unresolve" => host \cap {"wall", "peers"} = {}
  /\ at = "unlink" \/ (at = "stuck" /\ ended # "updating") => host \cap {"wall", "peers", "resolver"} = {}
  /\ at = "forgetKey" => tokenOf = 0

HostIInv == HostTypeOK /\ PlacesHold /\ StopReverts /\ TokenNamesKey

\* Where a step of the host leads, and what it may change of the keys.
LEMMA HostTyped ==
  ASSUME HostIInv, [HostNext]_hostVars PROVE HostTypeOK' /\ TokenNamesKey'
<1>0. HostTypeOK /\ TokenNamesKey /\ MaxKeys \in Nat /\ 0 \in Key /\ NoLogin \notin Key
      /\ (at = "forgetKey" => tokenOf = 0)
  BY HostKeys DEF HostIInv, PlacesHold, Key, NoLogin
<1>1. CASE Rise
  <2>1. CASE Start
    BY <1>0, <2>1 DEF Start, HostTypeOK, TokenNamesKey, Places, Walled, Things, Zeros
  <2>2. CASE Endpoint \/ BringUp
    BY <1>0, <2>2 DEF Endpoint, BringUp, Keys, Remote, Signals, HostTypeOK, TokenNamesKey, Places, Things
  <2>3. CASE Enrol
    <3>1. last' \in Key /\ wgKey' \in Key
      BY <1>0, <2>3 DEF Enrol, HostTypeOK, Key
    <3> QED BY <1>0, <2>3, <3>1 DEF Enrol, Remote, Signals, HostTypeOK, TokenNamesKey, Places
  <2>4. CASE RegisterOk
    BY <1>0, <2>4 DEF RegisterOk, Signals, HostTypeOK, TokenNamesKey, Places
  <2> QED BY <1>1, <2>1, <2>2, <2>3, <2>4 DEF Rise
<1>2. CASE RegisterElse \/ Waited \/ Awake \/ RefreshFails \/ Refreshed
  <2>1. CASE RegisterElse
    BY <1>0, <2>1 DEF RegisterElse, Keys, Remote, Signals, HostTypeOK, TokenNamesKey, Places
  <2>2. CASE Waited
    BY <1>0, <2>2 DEF Waited, Keys, Remote, Signals, HostTypeOK, TokenNamesKey, Places
  <2>3. CASE Awake
    BY <1>0, <2>3 DEF Awake, Keys, Remote, Signals, HostTypeOK, TokenNamesKey, Places
  <2>4. CASE RefreshFails
    BY <1>0, <2>4 DEF RefreshFails, Keys, Remote, Signals, HostTypeOK, TokenNamesKey, Places
  <2>5. CASE Refreshed
    BY <1>0, <2>5 DEF Refreshed, Keys, Remote, Signals, HostTypeOK, TokenNamesKey, Places
  <2> QED BY <1>2, <2>1, <2>2, <2>3, <2>4, <2>5
<1>3. CASE Teardown
  BY <1>0, <1>3 DEF Teardown, BeginStop, Withdraw, FirstUndone, Unwall, Unresolve, Unlink, Watchdog, StopRegister, Keys, Remote, Signals, HostTypeOK, TokenNamesKey, Places, Things
<1>4. CASE LogoutSteps
  <2>1. CASE Logout
    BY <1>0, <2>1 DEF Logout, Keys, Remote, Signals, HostTypeOK, TokenNamesKey, Places
  <2>2. CASE Remove
    BY <1>0, <2>2 DEF Remove, Evicted, Keys, Remote, Signals, HostTypeOK, TokenNamesKey, Places
  <2>3. CASE OutLink
    BY <1>0, <2>3 DEF OutLink, Keys, Remote, Signals, HostTypeOK, TokenNamesKey, Places
  <2>4. CASE OutWall
    BY <1>0, <2>4 DEF OutWall, Keys, Remote, Signals, HostTypeOK, TokenNamesKey, Places
  <2>5. CASE OutResolve
    BY <1>0, <2>5 DEF OutResolve, Keys, Remote, Signals, HostTypeOK, TokenNamesKey, Places
  <2>6. CASE ForgetToken
    BY <1>0, <2>6 DEF ForgetToken, Forgotten, Keys, Remote, Signals, HostTypeOK, TokenNamesKey, Places
  <2>7. CASE ForgetKey
    BY <1>0, <2>7 DEF ForgetKey, Forgotten, Keys, Remote, Signals, HostTypeOK, TokenNamesKey, Places
  <2>8. CASE ForgetCerts
    BY <1>0, <2>8 DEF ForgetCerts, Keys, Remote, Signals, HostTypeOK, TokenNamesKey, Places
  <2> QED BY <1>4, <2>1, <2>2, <2>3, <2>4, <2>5, <2>6, <2>7, <2>8 DEF LogoutSteps
<1>5. CASE BringUpFails \/ Update \/ KillLate \/ Crash \/ StartAgain \/ Unmap
  <2>1. CASE BringUpFails
    BY <1>0, <2>1 DEF BringUpFails, Keys, Remote, Signals, HostTypeOK, TokenNamesKey, Places
  <2>2. CASE Update
    BY <1>0, <2>2 DEF Update, Keys, Remote, Signals, HostTypeOK, TokenNamesKey, Places
  <2>3. CASE KillLate
    BY <1>0, <2>3 DEF KillLate, Sleeping, Keys, Remote, Signals, HostTypeOK, TokenNamesKey, Places
  <2>4. CASE Crash
    BY <1>0, <2>4 DEF Crash, Keys, Remote, Signals, HostTypeOK, TokenNamesKey, Places
  <2>5. CASE StartAgain
    BY <1>0, <2>5 DEF StartAgain, Keys, Remote, Signals, HostTypeOK, TokenNamesKey, Places
  <2>6. CASE Unmap
    BY <1>0, <2>6 DEF Unmap, Keys, Remote, Signals, HostTypeOK, TokenNamesKey, Places
  <2> QED BY <1>5, <2>1, <2>2, <2>3, <2>4, <2>5, <2>6
<1>6. CASE LoginBegin \/ LoginDone \/ LoginFails \/ AskLogout \/ AskStop \/ Lapse
  <2>1. CASE LoginBegin
    BY <1>0, <2>1 DEF LoginBegin, LoginKey, Keys, Remote, Signals, HostTypeOK, TokenNamesKey, Places
  <2>2. CASE LoginDone
    BY <1>0, <2>2 DEF LoginDone, Keys, Remote, Signals, HostTypeOK, TokenNamesKey, Places
  <2>3. CASE LoginFails
    BY <1>0, <2>3 DEF LoginFails, Keys, Remote, Signals, HostTypeOK, TokenNamesKey, Places
  <2>4. CASE AskLogout
    BY <1>0, <2>4 DEF AskLogout, Keys, Remote, Signals, HostTypeOK, TokenNamesKey, Places
  <2>5. CASE AskStop
    BY <1>0, <2>5 DEF AskStop, Keys, Remote, Signals, HostTypeOK, TokenNamesKey, Places
  <2>6. CASE Lapse
    BY <1>0, <2>6 DEF Lapse, Keys, Remote, Signals, HostTypeOK, TokenNamesKey, Places
  <2> QED BY <1>6, <2>1, <2>2, <2>3, <2>4, <2>5, <2>6
<1>7. CASE UNCHANGED hostVars
  BY <1>0, <1>7 DEF hostVars, HostTypeOK, TokenNamesKey
<1> QED BY <1>1, <1>2, <1>3, <1>4, <1>5, <1>6, <1>7 DEF HostNext, Steps

LEMMA HostPlaced ==
  ASSUME HostIInv, [HostNext]_hostVars PROVE PlacesHold' /\ StopReverts'
<1>0. HostTypeOK /\ PlacesHold /\ StopReverts
  BY DEF HostIInv
<1>1. CASE Rise
  BY <1>0, <1>1 DEF Rise, Start, Endpoint, Enrol, RegisterOk, BringUp, Walled, Keys, Remote, Signals, PlacesHold, StopReverts, HostTypeOK
<1>2. CASE RegisterElse \/ Waited \/ Awake \/ RefreshFails \/ Refreshed
  BY <1>0, <1>2 DEF RegisterElse, Waited, Awake, Sleeping, RefreshFails, Refreshed, Keys, Remote, Signals, PlacesHold, StopReverts
<1>3. CASE Teardown
  BY <1>0, <1>3 DEF Teardown, BeginStop, Withdraw, FirstUndone, Unwall, Unresolve, Unlink, Watchdog, Watched, StopRegister, Keys, Remote, Signals, PlacesHold, StopReverts
<1>4. CASE LogoutSteps
  BY <1>0, <1>4 DEF LogoutSteps, Logout, Remove, Evicted, OutLink, OutWall, OutResolve, ForgetToken, ForgetKey, ForgetCerts, Forgotten, Keys, Remote, Signals, PlacesHold, StopReverts
<1>5. CASE BringUpFails \/ Update \/ KillLate \/ Crash \/ StartAgain \/ Unmap
  BY <1>0, <1>5 DEF BringUpFails, Update, KillLate, Crash, StartAgain, Unmap, Keys, Remote, Signals, PlacesHold, StopReverts
<1>6. CASE LoginBegin \/ LoginDone \/ LoginFails \/ AskLogout \/ AskStop \/ Lapse
  BY <1>0, <1>6 DEF LoginBegin, LoginDone, LoginFails, AskLogout, AskStop, Lapse, Keys, Remote, Signals, PlacesHold, StopReverts
<1>7. CASE UNCHANGED hostVars
  BY <1>0, <1>7 DEF hostVars, PlacesHold, StopReverts
<1> QED BY <1>1, <1>2, <1>3, <1>4, <1>5, <1>6, <1>7 DEF HostNext, Steps

\* daemon.rs (run, teardown) and keys.rs, for any number of keys, stops, logouts, updates
\* and kills: no interface without the default-deny table, nothing left by a stop that ran
\* its teardown, and no token that names another key.
THEOREM HostIsSafe == HostSpec => []HostSafe
<1>1. HostInit => HostIInv
  <2> SUFFICES ASSUME HostInit PROVE HostIInv
    OBVIOUS
  <2>1. 0 \in Key
    BY HostKeys DEF Key
  <2>2. HostTypeOK
    BY <2>1 DEF HostInit, HostTypeOK, Places, Zeros
  <2> QED BY <2>2 DEF HostInit, HostIInv, PlacesHold, StopReverts, TokenNamesKey
<1>2. HostIInv /\ [HostNext]_hostVars => HostIInv'
  BY HostTyped, HostPlaced DEF HostIInv
<1>3. HostIInv => HostSafe
  BY DEF HostIInv, HostSafe, PlacesHold, WalledMesh, HostTypeOK
<1> QED BY <1>1, <1>2, <1>3, PTL DEF HostSpec

-----------------------------------------------------------------------------
(* Membership.                                                             *)

Waiting == {"queued", "fetch", "store", "leave"}
Inside == {"fetch", "store"}

\* What a build holds at each place of its lookup: a waiting caller holds a clone of the
\* gate the map has for its guild, no two callers are inside one gate, and what a caller
\* is about to store is Discord's answer while Discord has not changed.
MemberIInv ==
  /\ MemberTypeOK /\ changes \in Nat
  /\ \A b \in Build :
       /\ mb[b] \in Waiting => clone[b] # NoGate /\ asking[b] \in Guild /\ gates[asking[b]] = clone[b]
       /\ mb[b] \notin Waiting => clone[b] = NoGate
       /\ mb[b] = "use" => asking[b] \in Guild
       /\ mb[b] = "store" /\ changes = 0 => answer[b] \in {Failure, standing[asking[b]]}
  /\ \A b, c \in Build : mb[b] \in Inside /\ mb[c] \in Inside /\ clone[b] = clone[c] => b = c
  /\ CacheNeverInvents

MemberPlaces == {"idle", "skip", "walk", "queued", "fetch", "store", "leave", "use", "remember"}

LEMMA MemberStart == MemberInit => MemberIInv
<1> SUFFICES ASSUME MemberInit PROVE MemberIInv
  OBVIOUS
<1>1. locked = {clone[b] : b \in {c \in Build : mb[c] \in {"fetch", "store"}}}
  BY DEF MemberInit
<1>2. MemberTypeOK
  BY <1>1 DEF MemberInit, MemberTypeOK
<1> QED BY <1>2 DEF MemberInit, MemberIInv, Waiting, Inside, CacheNeverInvents

\* A step of one build: what it must leave of its own, the others being as they were.
LEMMA MemberLocal ==
  ASSUME MemberIInv, NEW b \in Build,
         mb' \in [Build -> MemberPlaces], clone' \in [Build -> {NoGate} \cup Gate],
         asking' \in [Build -> Guild \cup {NoGuild}], answer' \in [Build -> Standing \cup {NoAnswer, Failure}],
         \A c \in Build \ {b} : mb'[c] = mb[c] /\ clone'[c] = clone[c] /\ asking'[c] = asking[c] /\ answer'[c] = answer[c],
         todo' \in [Build -> SUBSET Guild], found' \in [Build -> SUBSET Guild], failed' \in [Build -> BOOLEAN],
         UNCHANGED <<standing, changes>>, rows' \subseteq Guild, memo' \in BOOLEAN,
         cached' \in [Guild -> Standing \cup {NoAnswer}],
         changes = 0 => \A g \in Guild : cached'[g] \in {NoAnswer, standing[g]},
         gates' \in [Guild -> {NoGate} \cup Gate],
         \A c \in Build \ {b} : mb[c] \in Waiting => gates'[asking[c]] = gates[asking[c]],
         mb'[b] \in Waiting => clone'[b] # NoGate /\ asking'[b] \in Guild /\ gates'[asking'[b]] = clone'[b],
         mb'[b] \notin Waiting => clone'[b] = NoGate,
         mb'[b] = "use" => asking'[b] \in Guild,
         mb'[b] = "store" /\ changes = 0 => answer'[b] \in {Failure, standing[asking'[b]]},
         mb'[b] \in Inside => \A c \in Build \ {b} : mb[c] \in Inside => clone[c] # clone'[b],
         locked' = {clone[c] : c \in {d \in Build \ {b} : mb[d] \in Inside}}
                   \cup (IF mb'[b] \in Inside THEN {clone'[b]} ELSE {})
  PROVE  MemberIInv'
<1>1. locked' = {clone'[d] : d \in {c \in Build : mb'[c] \in {"fetch", "store"}}}
  BY DEF Inside
<1>2. MemberTypeOK'
  BY <1>1 DEF MemberIInv, MemberTypeOK, MemberPlaces
<1>3. ASSUME NEW c \in Build
      PROVE  /\ mb'[c] \in Waiting => clone'[c] # NoGate /\ asking'[c] \in Guild /\ gates'[asking'[c]] = clone'[c]
             /\ mb'[c] \notin Waiting => clone'[c] = NoGate
             /\ mb'[c] = "use" => asking'[c] \in Guild
             /\ mb'[c] = "store" /\ changes' = 0 => answer'[c] \in {Failure, standing'[asking'[c]]}
  <2>1. CASE c = b
    BY <2>1
  <2>2. CASE c # b
    BY <2>2 DEF MemberIInv
  <2> QED BY <2>1, <2>2
<1>4. \A c, d \in Build : mb'[c] \in Inside /\ mb'[d] \in Inside /\ clone'[c] = clone'[d] => c = d
  <2> SUFFICES ASSUME NEW c \in Build, NEW d \in Build, mb'[c] \in Inside, mb'[d] \in Inside, clone'[c] = clone'[d]
               PROVE  c = d
    OBVIOUS
  <2>1. CASE c = b \/ d = b
    BY <2>1
  <2>2. CASE c # b /\ d # b
    BY <2>2 DEF MemberIInv
  <2> QED BY <2>1, <2>2
<1>5. CacheNeverInvents'
  BY DEF CacheNeverInvents
<1> QED BY <1>2, <1>3, <1>4, <1>5 DEF MemberIInv

\* What the others hold of the lock table, whether or not b is inside.
LEMMA OthersLocked ==
  ASSUME MemberIInv, NEW b \in Build
  PROVE  LET others == {clone[c] : c \in {d \in Build \ {b} : mb[d] \in Inside}} IN
         /\ mb[b] \notin Inside => locked = others
         /\ mb[b] \in Inside => locked = others \cup {clone[b]} /\ locked \ {clone[b]} = others
<1> DEFINE others == {clone[c] : c \in {d \in Build \ {b} : mb[d] \in Inside}}
<1>1. locked = {clone[c] : c \in {d \in Build : mb[d] \in Inside}}
  BY DEF MemberIInv, MemberTypeOK, Inside
<1>2. ASSUME mb[b] \in Inside PROVE clone[b] \notin others
  BY <1>2 DEF MemberIInv
<1>3. mb[b] \notin Inside => locked = others
  BY <1>1
<1>4. mb[b] \in Inside => locked = others \cup {clone[b]}
  BY <1>1
<1> QED BY <1>2, <1>3, <1>4

LEMMA MemberBuild ==
  ASSUME MemberIInv, NEW b \in Build, Begin(b) \/ BuildStep(b) \/ Abort(b) PROVE MemberIInv'
<1> DEFINE others == {clone[c] : c \in {d \in Build \ {b} : mb[d] \in Inside}}
<1>1. /\ standing \in [Guild -> Standing] /\ cached \in [Guild -> Standing \cup {NoAnswer}]
      /\ memo \in BOOLEAN /\ rows \subseteq Guild /\ gates \in [Guild -> {NoGate} \cup Gate]
      /\ mb \in [Build -> MemberPlaces] /\ asking \in [Build -> Guild \cup {NoGuild}]
      /\ clone \in [Build -> {NoGate} \cup Gate] /\ answer \in [Build -> Standing \cup {NoAnswer, Failure}]
      /\ todo \in [Build -> SUBSET Guild] /\ found \in [Build -> SUBSET Guild] /\ failed \in [Build -> BOOLEAN]
  BY DEF MemberIInv, MemberTypeOK, MemberPlaces
<1>2. /\ mb[b] \in Waiting => clone[b] # NoGate /\ asking[b] \in Guild /\ gates[asking[b]] = clone[b]
      /\ mb[b] \notin Waiting => clone[b] = NoGate
      /\ mb[b] = "use" => asking[b] \in Guild
      /\ mb[b] = "store" /\ changes = 0 => answer[b] \in {Failure, standing[asking[b]]}
      /\ (changes = 0 => \A g \in Guild : cached[g] \in {NoAnswer, standing[g]})
  BY DEF MemberIInv, CacheNeverInvents
<1>3. /\ mb[b] \notin Inside => locked = others
      /\ mb[b] \in Inside => locked = others \cup {clone[b]} /\ locked \ {clone[b]} = others
  BY OthersLocked
<1>4. \A c \in Build : mb[c] \in Waiting => clone[c] # NoGate /\ asking[c] \in Guild /\ gates[asking[c]] = clone[c]
  BY DEF MemberIInv
<1>5. \A c \in Build \ {b} : mb[c] \in Inside => clone[c] \in others
  OBVIOUS
<1>6. mb[b] \in Inside => \A c \in Build \ {b} : mb[c] \in Inside => clone[c] # clone[b]
  BY DEF MemberIInv
<1> HIDE DEF others
<1>10. CASE Begin(b)
  <2>1. /\ mb[b] = "idle" /\ mb' = [mb EXCEPT ![b] = IF memo THEN "skip" ELSE "walk"]
        /\ todo' = [todo EXCEPT ![b] = IF memo THEN {} ELSE Guild]
        /\ UNCHANGED <<standing, cached, memo, rows, gates, locked, asking, clone, answer, found, failed, changes>>
    BY <1>10 DEF Begin
  <2> QED BY <1>1, <1>2, <1>3, <2>1, MemberLocal DEF MemberPlaces, Waiting, Inside, others
<1>11. ASSUME NEW g \in Guild, Hit(b, g) PROVE MemberIInv'
  <2>1. /\ mb[b] = "walk" /\ mb' = [mb EXCEPT ![b] = "use"] /\ asking' = [asking EXCEPT ![b] = g]
        /\ answer' = [answer EXCEPT ![b] = cached[g]]
        /\ UNCHANGED <<standing, cached, memo, rows, gates, locked, clone, todo, found, failed, changes>>
    BY <1>11 DEF Hit
  <2> QED BY <1>1, <1>2, <1>3, <2>1, MemberLocal DEF MemberPlaces, Waiting, Inside, others
<1>12. ASSUME NEW g \in Guild, Queue(b, g) PROVE MemberIInv'
  <2>1. PICK n \in Gate :
          /\ gates[g] # NoGate => n = gates[g]
          /\ gates' = [gates EXCEPT ![g] = n] /\ clone' = [clone EXCEPT ![b] = n]
    BY <1>12 DEF Queue
  <2>2. /\ mb[b] = "walk" /\ mb' = [mb EXCEPT ![b] = "queued"] /\ asking' = [asking EXCEPT ![b] = g]
        /\ UNCHANGED <<standing, cached, memo, rows, locked, answer, todo, found, failed, changes>>
    BY <1>12 DEF Queue
  <2>3. n # NoGate
    BY DEF NoGate, Gate
  <2>4. \A c \in Build \ {b} : mb[c] \in Waiting => gates'[asking[c]] = gates[asking[c]]
    BY <1>1, <1>4, <2>1
  <2>5. gates' \in [Guild -> {NoGate} \cup Gate] /\ gates'[g] = n /\ clone' \in [Build -> {NoGate} \cup Gate]
        /\ clone'[b] = n /\ asking'[b] = g /\ mb'[b] = "queued"
    BY <1>1, <2>1, <2>2
  <2> QED BY <1>1, <1>2, <1>3, <2>1, <2>2, <2>3, <2>4, <2>5, MemberLocal DEF MemberPlaces, Waiting, Inside, others
<1>13. CASE Enter(b)
  <2>1. /\ mb[b] = "queued" /\ clone[b] \notin locked
        /\ \/ /\ mb' = [mb EXCEPT ![b] = "leave"] /\ answer' = [answer EXCEPT ![b] = cached[asking[b]]]
              /\ locked' = locked
           \/ /\ mb' = [mb EXCEPT ![b] = "fetch"] /\ locked' = locked \cup {clone[b]} /\ answer' = answer
        /\ UNCHANGED <<standing, cached, memo, rows, gates, asking, clone, todo, found, failed, changes>>
    BY <1>13 DEF Enter
  <2>2. asking[b] \in Guild /\ clone[b] # NoGate /\ gates[asking[b]] = clone[b] /\ locked = others
    BY <1>2, <1>3, <2>1 DEF Waiting, Inside
  <2>3. \A c \in Build \ {b} : mb[c] \in Inside => clone[c] # clone[b]
    BY <1>5, <2>1, <2>2
  <2>4. answer' \in [Build -> Standing \cup {NoAnswer, Failure}]
    BY <1>1, <2>1, <2>2
  <2> QED BY <1>1, <1>2, <2>1, <2>2, <2>3, <2>4, MemberLocal DEF MemberPlaces, Waiting, Inside, others
<1>14. CASE Answered(b)
  <2>1. /\ mb[b] = "fetch" /\ mb' = [mb EXCEPT ![b] = "store"]
        /\ \/ answer' = [answer EXCEPT ![b] = standing[asking[b]]]
           \/ answer' = [answer EXCEPT ![b] = Failure]
        /\ UNCHANGED <<standing, cached, memo, rows, gates, locked, asking, clone, todo, found, failed, changes>>
    BY <1>14 DEF Answered
  <2>2. asking[b] \in Guild /\ clone[b] # NoGate /\ gates[asking[b]] = clone[b] /\ locked = others \cup {clone[b]}
    BY <1>2, <1>3, <2>1 DEF Waiting, Inside
  <2>3. \A c \in Build \ {b} : mb[c] \in Inside => clone[c] # clone[b]
    BY <1>6, <2>1 DEF Inside
  <2>4. answer' \in [Build -> Standing \cup {NoAnswer, Failure}] /\ answer'[b] \in {Failure, standing[asking[b]]}
    BY <1>1, <2>1, <2>2
  <2> QED BY <1>1, <1>2, <2>1, <2>2, <2>3, <2>4, MemberLocal DEF MemberPlaces, Waiting, Inside, others
<1>15. CASE Store(b)
  <2>1. /\ mb[b] = "store" /\ mb' = [mb EXCEPT ![b] = "leave"]
        /\ cached' = [cached EXCEPT ![asking[b]] = IF answer[b] = Failure THEN @ ELSE answer[b]]
        /\ locked' = locked \ {clone[b]}
        /\ failed' = [failed EXCEPT ![b] = @ \/ answer[b] = Failure]
        /\ answer' = [answer EXCEPT ![b] = IF @ = Failure THEN "none" ELSE @]
        /\ UNCHANGED <<standing, memo, rows, gates, asking, clone, todo, found, changes>>
    BY <1>15 DEF Store, Outcome
  <2>2. asking[b] \in Guild /\ clone[b] # NoGate /\ gates[asking[b]] = clone[b] /\ locked' = others
    BY <1>2, <1>3, <2>1 DEF Waiting, Inside
  <2>3. cached' \in [Guild -> Standing \cup {NoAnswer}]
    BY <1>1, <2>1, <2>2
  <2>4. changes = 0 => \A g \in Guild : cached'[g] \in {NoAnswer, standing[g]}
    BY <1>1, <1>2, <2>1, <2>2
  <2>5. answer' \in [Build -> Standing \cup {NoAnswer, Failure}] /\ failed' \in [Build -> BOOLEAN]
    BY <1>1, <2>1 DEF Standing
  <2> QED BY <1>1, <1>2, <2>1, <2>2, <2>3, <2>4, <2>5, MemberLocal DEF MemberPlaces, Waiting, Inside, others
<1>16. CASE Leave(b)
  <2>1. /\ mb[b] = "leave" /\ mb' = [mb EXCEPT ![b] = "use"]
        /\ gates' = [gates EXCEPT ![asking[b]] = GateAfter(b)] /\ clone' = [clone EXCEPT ![b] = NoGate]
        /\ UNCHANGED <<standing, cached, memo, rows, locked, asking, answer, todo, found, failed, changes>>
    BY <1>16 DEF Leave
  <2>2. asking[b] \in Guild /\ clone[b] # NoGate /\ gates[asking[b]] = clone[b] /\ locked = others
    BY <1>2, <1>3, <2>1 DEF Waiting, Inside
  <2>3. gates' \in [Guild -> {NoGate} \cup Gate]
    BY <1>1, <2>1, <2>2 DEF GateAfter
  <2>4. ASSUME NEW c \in Build \ {b}, mb[c] \in Waiting PROVE gates'[asking[c]] = gates[asking[c]]
    <3>1. CASE asking[c] = asking[b]
      <4>1. clone[c] = clone[b]
        BY <1>4, <2>2, <2>4, <3>1
      <4> QED BY <1>1, <2>1, <2>2, <3>1, <4>1 DEF GateAfter
    <3>2. CASE asking[c] # asking[b]
      BY <1>1, <2>1, <3>2
    <3> QED BY <3>1, <3>2
  <2>5. clone' \in [Build -> {NoGate} \cup Gate] /\ clone'[b] = NoGate
    BY <1>1, <2>1
  <2> QED BY <1>1, <1>2, <2>1, <2>2, <2>3, <2>4, <2>5, MemberLocal DEF MemberPlaces, Waiting, Inside, others
<1>17. CASE Use(b)
  <2> DEFINE isHeld == IF answer[b] = "role" THEN {asking[b]} ELSE {}
  <2>1. /\ mb[b] = "use" /\ mb' = [mb EXCEPT ![b] = "walk"]
        /\ found' = [found EXCEPT ![b] = @ \cup isHeld] /\ rows' = rows \cup isHeld
        /\ todo' = [todo EXCEPT ![b] = @ \ {asking[b]}]
        /\ asking' = [asking EXCEPT ![b] = NoGuild] /\ answer' = [answer EXCEPT ![b] = NoAnswer]
        /\ UNCHANGED <<standing, cached, memo, gates, locked, clone, failed, changes>>
    BY <1>17 DEF Use
  <2>2. isHeld \subseteq Guild
    BY <1>2, <2>1
  <2> HIDE DEF isHeld
  <2>3. found' \in [Build -> SUBSET Guild] /\ rows' \subseteq Guild /\ todo' \in [Build -> SUBSET Guild]
    BY <1>1, <2>1, <2>2
  <2>4. asking' \in [Build -> Guild \cup {NoGuild}] /\ answer' \in [Build -> Standing \cup {NoAnswer, Failure}]
    BY <1>1, <2>1
  <2> QED BY <1>1, <1>2, <1>3, <2>1, <2>3, <2>4, MemberLocal DEF MemberPlaces, Waiting, Inside, others
<1>18. CASE EndWalk(b) \/ Remember(b)
  <2>1. /\ mb[b] \in {"walk", "skip", "remember"}
        /\ \E p \in {"remember", "idle"} : mb' = [mb EXCEPT ![b] = p]
        /\ failed' \in {failed, [failed EXCEPT ![b] = FALSE]} /\ found' \in {found, [found EXCEPT ![b] = {}]}
        /\ rows' \subseteq rows /\ memo' \in {memo, TRUE}
        /\ UNCHANGED <<standing, cached, gates, locked, asking, clone, answer, todo, changes>>
    BY <1>18 DEF EndWalk, Remember, KeptRows
  <2>2. mb' \in [Build -> MemberPlaces] /\ mb'[b] \in {"remember", "idle"} /\ \A c \in Build \ {b} : mb'[c] = mb[c]
    BY <1>1, <2>1 DEF MemberPlaces
  <2>3. failed' \in [Build -> BOOLEAN] /\ found' \in [Build -> SUBSET Guild] /\ rows' \subseteq Guild /\ memo' \in BOOLEAN
    BY <1>1, <2>1
  <2> QED BY <1>1, <1>2, <1>3, <2>1, <2>2, <2>3, MemberLocal DEF MemberPlaces, Waiting, Inside, others
<1>19. CASE Abort(b)
  <2>1. /\ mb[b] \in {"queued", "fetch", "store"} /\ mb' = [mb EXCEPT ![b] = "idle"]
        /\ locked' = IF mb[b] = "queued" THEN locked ELSE locked \ {clone[b]}
        /\ clone' = [clone EXCEPT ![b] = NoGate] /\ asking' = [asking EXCEPT ![b] = NoGuild]
        /\ answer' = [answer EXCEPT ![b] = NoAnswer] /\ todo' = [todo EXCEPT ![b] = {}]
        /\ found' = [found EXCEPT ![b] = {}] /\ failed' = [failed EXCEPT ![b] = FALSE]
        /\ UNCHANGED <<standing, cached, memo, rows, gates, changes>>
    BY <1>19 DEF Abort
  <2>2. locked' = others
    BY <1>3, <2>1 DEF Inside
  <2>3. /\ clone' \in [Build -> {NoGate} \cup Gate] /\ clone'[b] = NoGate
        /\ asking' \in [Build -> Guild \cup {NoGuild}] /\ answer' \in [Build -> Standing \cup {NoAnswer, Failure}]
        /\ todo' \in [Build -> SUBSET Guild] /\ found' \in [Build -> SUBSET Guild] /\ failed' \in [Build -> BOOLEAN]
    BY <1>1, <2>1
  <2> QED BY <1>1, <1>2, <2>1, <2>2, <2>3, MemberLocal DEF MemberPlaces, Waiting, Inside, others
<1> QED BY <1>10, <1>11, <1>12, <1>13, <1>14, <1>15, <1>16, <1>17, <1>18, <1>19 DEF BuildStep

LEMMA MemberWorld ==
  ASSUME MemberIInv, \/ \E g \in Guild, s \in Standing : Change(g, s)
                     \/ Miss \/ Deliver \/ ExpireMemo
                     \/ \E g \in Guild : Expire(g)
                     \/ UNCHANGED memberVars
  PROVE  MemberIInv'
<1>1. UNCHANGED <<gates, locked, mb, asking, clone, answer, todo, found, failed>>
  BY DEF Change, Miss, Deliver, ExpireMemo, Expire, memberVars
<1>0. standing \in [Guild -> Standing] /\ memo \in BOOLEAN /\ rows \subseteq Guild /\ changes \in Nat
  BY DEF MemberIInv, MemberTypeOK
<1>2. /\ standing' \in [Guild -> Standing] /\ memo' \in BOOLEAN /\ rows' \subseteq Guild
      /\ changes' \in Nat /\ (changes' = 0 => changes = 0 /\ standing' = standing)
  <2>1. ASSUME NEW g \in Guild, NEW s \in Standing, Change(g, s)
        PROVE  /\ standing' \in [Guild -> Standing] /\ UNCHANGED <<memo, rows>>
               /\ changes' = changes + 1
    BY <1>0, <2>1 DEF Change
  <2>2. CASE Deliver
    <3>1. UNCHANGED <<standing, changes>> /\ rows' \subseteq rows /\ memo' \in BOOLEAN
      BY <2>2 DEF Deliver
    <3> QED BY <1>0, <3>1
  <2>3. CASE Miss \/ ExpireMemo \/ (\E g \in Guild : Expire(g)) \/ UNCHANGED memberVars
    <3>1. UNCHANGED <<standing, changes, rows>> /\ memo' \in {FALSE, memo}
      BY <2>3 DEF Miss, ExpireMemo, Expire, memberVars
    <3> QED BY <1>0, <3>1
  <2> QED BY <1>0, <2>1, <2>2, <2>3
<1>3. changes' \in Nat /\ (changes' = 0 => changes = 0 /\ standing' = standing)
  BY <1>2
<1>4. \A g \in Guild : cached'[g] \in {cached[g], NoAnswer}
  BY DEF Change, Miss, Deliver, ExpireMemo, Expire, memberVars, MemberIInv, MemberTypeOK
<1>5. cached' \in [Guild -> Standing \cup {NoAnswer}]
  BY DEF Change, Miss, Deliver, ExpireMemo, Expire, memberVars, MemberIInv, MemberTypeOK
<1>6. MemberTypeOK'
  BY <1>1, <1>2, <1>5 DEF MemberIInv, MemberTypeOK
<1>7. CacheNeverInvents'
  BY <1>3, <1>4 DEF MemberIInv, CacheNeverInvents
<1> QED BY <1>1, <1>3, <1>6, <1>7 DEF MemberIInv

\* discord.rs (Flight, store_member), for any guilds, builds, changes, failures and missed
\* events: one caller at a time asks Discord about a guild's member, however callers come,
\* wait and are dropped, and a failed lookup never becomes an answer.
THEOREM MembershipIsSafe == MemberSpec => []MembershipSafe
<1>1. MemberIInv /\ [MemberNext]_memberVars => MemberIInv'
  BY MemberBuild, MemberWorld DEF MemberNext
<1>2. MemberIInv => MembershipSafe
  <2> SUFFICES ASSUME MemberIInv PROVE MembershipSafe
    OBVIOUS
  <2>1. ASSUME NEW b \in Build, NEW c \in Build, mb[b] = "fetch", mb[c] = "fetch", asking[b] = asking[c]
        PROVE  b = c
    <3>1. clone[b] = gates[asking[b]] /\ clone[c] = gates[asking[c]]
      BY <2>1 DEF MemberIInv, Waiting
    <3>2. clone[b] = clone[c]
      BY <2>1, <3>1
    <3> QED BY <2>1, <3>2 DEF MemberIInv, Inside
  <2>2. SingleFlight
    BY <2>1 DEF SingleFlight
  <2> QED BY <2>2 DEF MemberIInv, MembershipSafe
<1> QED BY <1>1, <1>2, MemberStart, PTL DEF MemberSpec

-----------------------------------------------------------------------------
(* The TLS proxy and its supervisor.                                       *)

ProxyLives == [bind : {{}} \cup {{a} : a \in Addr}, cert : 0 .. MaxProxyCert, routes : RouteMaps]
ProxyServed == [cert : 0 .. MaxProxyCert, routes : RouteMaps]
ProxyFiles == [cert : 0 .. MaxProxyCert, key : 0 .. MaxProxyCert]

ProxyTypes ==
  /\ routes \in RouteMaps /\ addr \in {{}} \cup {{a} : a \in Addr}
  /\ proxyCert \in 0 .. MaxProxyCert /\ files \in ProxyFiles
  /\ proxyCert <= files.key /\ files.key <= files.cert
  /\ proxyEngine \in BOOLEAN /\ held \in BOOLEAN /\ dying \subseteq Addr
  /\ proxyBound \in {{}} \cup {{a} : a \in Addr}
  /\ proxyLink \in BOOLEAN /\ changed \in BOOLEAN /\ listener \in BOOLEAN
  /\ live \in ProxyLives /\ serving \subseteq ProxyServed
  /\ conn \in [Peer -> SUBSET RouteMaps]

\* What the proxy knows is the engine's word only while it is connected, and what it serves
\* since its last round is what it knew then, if that could be served.
ProxyWord ==
  /\ proxyBound = {} => ~proxyLink /\ serving = {} /\ ~listener /\ \A p \in Peer : conn[p] = {}
  /\ ~proxyLink => live = Nothing
  /\ ~changed => \A x \in serving : x.routes = live.routes /\ Servable(live)
ProxyIInv == ProxyTypes /\ ProxyWord

LEMMA ProxyShapes ==
  /\ MaxProxyCert \in Nat /\ NoRoutes \in RouteMaps /\ Nothing \in ProxyLives /\ Nothing.bind = {}
  /\ \A r \in RouteMaps, s \in Svc, a \in SUBSET Peer :
       [r EXCEPT ![s] = {}] \in RouteMaps /\ [r EXCEPT ![s] = {a}] \in RouteMaps
BY ProxyBounds DEF NoRoutes, RouteMaps, Nothing, ProxyLives

\* A process that starts or goes.
LEMMA BlankKeeps ==
  ASSUME ProxyIInv, Blank, UNCHANGED ownerVars, proxyEngine' \in BOOLEAN, held' \in BOOLEAN,
         dying' \subseteq Addr, proxyBound' \in {{}} \cup {{a} : a \in Addr}
  PROVE  ProxyIInv'
<1>1. /\ proxyLink' = FALSE /\ live' = Nothing /\ changed' = TRUE /\ serving' = {} /\ listener' = FALSE
      /\ conn' = [p \in Peer |-> {}] /\ UNCHANGED <<routes, addr, proxyCert, files>>
  BY DEF Blank, ownerVars
<1>2. conn' \in [Peer -> SUBSET RouteMaps]
  BY <1>1
<1>3. ProxyTypes'
  BY <1>1, <1>2, ProxyShapes DEF ProxyIInv, ProxyTypes
<1> QED BY <1>1, <1>3 DEF ProxyIInv, ProxyWord

LEMMA SupervisorKeeps ==
  ProxyIInv /\ (SyncStart \/ SyncStop \/ ProxyGone \/ ProxyDies \/ EngineStops \/ EngineStarts) => ProxyIInv'
<1> SUFFICES ASSUME ProxyIInv, SyncStart \/ SyncStop \/ ProxyGone \/ ProxyDies \/ EngineStops \/ EngineStarts
             PROVE  ProxyIInv'
  OBVIOUS
<1>1. proxyBound \subseteq Addr /\ dying \subseteq Addr /\ proxyEngine \in BOOLEAN
  BY DEF ProxyIInv, ProxyTypes
<1>2. CASE SyncStart
  <2>1. proxyBound' \in {{}} \cup {{a} : a \in Addr}
    BY <1>2 DEF SyncStart, ProxyIInv, ProxyTypes
  <2>2. Blank /\ UNCHANGED ownerVars /\ proxyEngine' \in BOOLEAN /\ held' \in BOOLEAN /\ dying' \subseteq Addr
    BY <1>1, <1>2 DEF SyncStart
  <2> QED BY <2>1, <2>2, BlankKeeps
<1>3. CASE SyncStop
  BY <1>1, <1>3, BlankKeeps DEF SyncStop
<1>4. CASE ProxyDies
  <2>1. Blank /\ UNCHANGED ownerVars /\ proxyBound' = {} /\ UNCHANGED <<proxyEngine, held, dying>>
    BY <1>4 DEF ProxyDies
  <2>2. held' \in BOOLEAN
    BY <2>1 DEF ProxyIInv, ProxyTypes
  <2> QED BY <1>1, <2>1, <2>2, BlankKeeps
<1>5. CASE ProxyGone \/ EngineStarts
  <2>1. UNCHANGED <<ownerVars, held, proxyBound, procVars>> /\ proxyEngine' \in BOOLEAN /\ dying' \subseteq Addr
    BY <1>1, <1>5 DEF ProxyGone, EngineStarts
  <2> QED BY <2>1 DEF ownerVars, procVars, ProxyIInv, ProxyTypes, ProxyWord
<1>6. CASE EngineStops
  <2>1. /\ proxyEngine' = FALSE /\ held' = FALSE /\ proxyCert' = 0 /\ UNCHANGED <<routes, addr, files>>
        /\ \/ proxyBound' = {} /\ dying' = dying \cup proxyBound /\ Blank
           \/ UNCHANGED <<proxyBound, dying, procVars>>
    BY <1>6 DEF EngineStops
  <2>2. 0 \in 0 .. MaxProxyCert /\ 0 <= files.key
    BY ProxyShapes DEF ProxyIInv, ProxyTypes, ProxyFiles
  <2>3. CASE proxyBound' = {} /\ dying' = dying \cup proxyBound /\ Blank
    <3>1. /\ proxyLink' = FALSE /\ live' = Nothing /\ changed' = TRUE /\ serving' = {} /\ listener' = FALSE
          /\ conn' = [p \in Peer |-> {}]
      BY <2>3 DEF Blank
    <3>2. conn' \in [Peer -> SUBSET RouteMaps]
      BY <3>1
    <3>3. ProxyTypes'
      BY <1>1, <2>1, <2>2, <2>3, <3>1, <3>2, ProxyShapes DEF ProxyIInv, ProxyTypes
    <3> QED BY <3>1, <3>3 DEF ProxyIInv, ProxyWord
  <2>4. CASE UNCHANGED <<proxyBound, dying, procVars>>
    BY <2>1, <2>2, <2>4 DEF procVars, ProxyIInv, ProxyTypes, ProxyWord
  <2> QED BY <2>1, <2>3, <2>4
<1> QED BY <1>2, <1>3, <1>4, <1>5, <1>6

LEMMA ProxyKeeps ==
  ProxyIInv /\ (ProxyFollow \/ ProxyRebuild \/ \E p \in Peer : Accept(p) \/ Close(p)) => ProxyIInv'
<1> SUFFICES ASSUME ProxyIInv, ProxyFollow \/ ProxyRebuild \/ \E p \in Peer : Accept(p) \/ Close(p)
             PROVE  ProxyIInv'
  OBVIOUS
<1>1. CASE ProxyConnect
  BY <1>1 DEF ProxyConnect, ownerVars, engineVars, ProxyIInv, ProxyTypes, ProxyWord
<1>2. CASE Line
  <2>1. LiveFrom \in ProxyLives
    BY DEF LiveFrom, ProxyLives, ProxyIInv, ProxyTypes
  <2>2. /\ live' = LiveFrom /\ changed' = TRUE /\ proxyLink
        /\ UNCHANGED <<ownerVars, engineVars, proxyLink, serving, listener, conn>>
    BY <1>2 DEF Line
  <2> QED BY <2>1, <2>2 DEF ownerVars, engineVars, ProxyIInv, ProxyTypes, ProxyWord
<1>3. CASE Disconnect
  <2>1. /\ proxyLink' = FALSE /\ live' = Nothing /\ changed' = (changed \/ live # Nothing)
        /\ UNCHANGED <<ownerVars, engineVars, serving, listener, conn>>
    BY <1>3 DEF Disconnect, ProxyLost
  <2>2. ~changed' => ~changed /\ live = Nothing
    BY <2>1
  <2>3. ProxyTypes'
    BY <2>1, ProxyShapes DEF ownerVars, engineVars, ProxyIInv, ProxyTypes
  <2>4. ProxyWord'
    BY <2>1, <2>2 DEF engineVars, ProxyIInv, ProxyTypes, ProxyWord, Servable
  <2> QED BY <2>3, <2>4 DEF ProxyIInv
<1>4. CASE ProxyRebuild
  <2>1. /\ proxyBound # {} /\ changed' = FALSE
        /\ UNCHANGED <<ownerVars, engineVars, proxyLink, live, conn>>
        /\ \/ Servable(live) /\ serving' = Served /\ listener' = TRUE
           \/ serving' = {} /\ listener' = listener
    BY <1>4 DEF ProxyRebuild
  <2>2. Served \subseteq ProxyServed /\ \A x \in Served : x.routes = live.routes
    BY DEF Served, ProxyServed, ProxyLives, ProxyFiles, ProxyIInv, ProxyTypes
  <2>3. ProxyTypes'
    BY <2>1, <2>2 DEF ownerVars, engineVars, ProxyIInv, ProxyTypes
  <2>4. ProxyWord'
    BY <2>1, <2>2 DEF engineVars, ProxyIInv, ProxyWord, Servable
  <2> QED BY <2>3, <2>4 DEF ProxyIInv
<1>5. ASSUME NEW p \in Peer, Accept(p) \/ Close(p) PROVE ProxyIInv'
  <2>1. /\ UNCHANGED <<ownerVars, engineVars, proxyLink, live, changed, serving, listener>>
        /\ \/ listener /\ conn' = [conn EXCEPT ![p] = {x.routes : x \in serving}]
           \/ conn' = [conn EXCEPT ![p] = {}]
    BY <1>5 DEF Accept, Close
  <2>2. {x.routes : x \in serving} \subseteq RouteMaps
    BY DEF ProxyIInv, ProxyTypes, ProxyServed
  <2>3. conn' \in [Peer -> SUBSET RouteMaps]
    BY <2>1, <2>2 DEF ProxyIInv, ProxyTypes
  <2>4. proxyBound' = {} => \A q \in Peer : conn'[q] = {}
    BY <2>1 DEF engineVars, ProxyIInv, ProxyTypes, ProxyWord
  <2> QED BY <2>1, <2>3, <2>4 DEF ownerVars, engineVars, ProxyIInv, ProxyTypes, ProxyWord
<1> QED BY <1>1, <1>2, <1>3, <1>4, <1>5 DEF ProxyFollow

LEMMA ProxyOwnerKeeps ==
  ASSUME ProxyIInv,
         \/ \E s \in Svc : ChangeRoute(s, {}) \/ \E a \in SUBSET Peer : ChangeRoute(s, {a})
         \/ \E a \in Addr : Move(a)
         \/ WriteHalf \/ Own \/ UNCHANGED proxyVars
  PROVE  ProxyIInv'
<1>1. /\ UNCHANGED <<engineVars, procVars>> /\ routes' \in RouteMaps /\ addr' \in {{}} \cup {{a} : a \in Addr}
      /\ proxyCert' \in 0 .. MaxProxyCert /\ files' \in ProxyFiles
      /\ proxyCert' <= files'.key /\ files'.key <= files'.cert
  <2>1. CASE \E s \in Svc : ChangeRoute(s, {}) \/ \E a \in SUBSET Peer : ChangeRoute(s, {a})
    <3>1. routes' \in RouteMaps /\ UNCHANGED <<addr, proxyCert, files, engineVars, procVars>>
      BY <2>1, ProxyShapes DEF ChangeRoute, ProxyIInv, ProxyTypes
    <3> QED BY <3>1 DEF ProxyIInv, ProxyTypes
  <2>2. CASE \E a \in Addr : Move(a)
    BY <2>2 DEF Move, ProxyIInv, ProxyTypes
  <2>3. CASE WriteHalf
    <3>1. /\ files.key = files.cert /\ proxyCert = files.cert /\ files.cert < MaxProxyCert /\ files.cert \in Nat
          /\ UNCHANGED <<routes, addr, proxyCert, engineVars, procVars>>
      BY <2>3 DEF WriteHalf, ProxyIInv, ProxyTypes, ProxyFiles
    <3>2. files' = [cert |-> files.cert + 1, key |-> files.key]
      BY <2>3 DEF WriteHalf, ProxyIInv, ProxyTypes, ProxyFiles
    <3>3. files.cert + 1 \in 0 .. MaxProxyCert /\ files.key \in 0 .. MaxProxyCert
      BY <3>1, ProxyShapes DEF ProxyIInv, ProxyTypes, ProxyFiles
    <3>4. files' \in ProxyFiles
      BY <3>2, <3>3 DEF ProxyFiles
    <3> QED BY <3>1, <3>2, <3>4 DEF ProxyIInv, ProxyTypes
  <2>4. CASE Own
    <3>1. CASE WriteRest
      <4>1. files' = [cert |-> files.cert, key |-> files.cert] /\ files.cert \in 0 .. MaxProxyCert
            /\ UNCHANGED <<routes, addr, proxyCert, engineVars, procVars>>
        BY <3>1 DEF WriteRest, ProxyIInv, ProxyTypes, ProxyFiles
      <4>2. files' \in ProxyFiles /\ proxyCert <= files.cert
        BY <4>1, ProxyShapes DEF ProxyIInv, ProxyTypes, ProxyFiles
      <4> QED BY <4>1, <4>2 DEF ProxyIInv, ProxyTypes
    <3>2. CASE Tell
      BY <3>2 DEF Tell, ProxyIInv, ProxyTypes, ProxyFiles
    <3> QED BY <2>4, <3>1, <3>2 DEF Own
  <2>5. CASE UNCHANGED proxyVars
    BY <2>5 DEF proxyVars, ownerVars, ProxyIInv, ProxyTypes
  <2> QED BY <2>1, <2>2, <2>3, <2>4, <2>5
<1> QED BY <1>1 DEF engineVars, procVars, ProxyIInv, ProxyTypes, ProxyWord

\* What the proxy knows is the engine's word only while it is connected, and what it serves
\* once it has followed that word is what the word says (proxy/lib.rs subscribe, serve_loop;
\* engine/proxy.rs; daemon.rs sync_proxy): for any services, peers, addresses and bounds,
\* whatever crashes, moves or is renewed.
THEOREM ProxyIsSafe == ProxySpec => []ProxySafe
<1>1. ProxyInit => ProxyIInv
  <2> SUFFICES ASSUME ProxyInit PROVE ProxyIInv
    OBVIOUS
  <2>1. 0 \in 0 .. MaxProxyCert /\ [cert |-> 0, key |-> 0] \in ProxyFiles
    BY ProxyShapes DEF ProxyFiles
  <2>2. files \in ProxyFiles /\ proxyCert = 0 /\ files.key = 0 /\ files.cert = 0
    BY <2>1 DEF ProxyInit
  <2>3. conn \in [Peer -> SUBSET RouteMaps] /\ serving \subseteq ProxyServed /\ dying \subseteq Addr
    BY DEF ProxyInit
  <2>4. /\ routes \in RouteMaps /\ addr \in {{}} \cup {{a} : a \in Addr} /\ live \in ProxyLives
        /\ proxyBound \in {{}} \cup {{a} : a \in Addr}
    BY ProxyShapes DEF ProxyInit
  <2>5. /\ proxyEngine \in BOOLEAN /\ held \in BOOLEAN /\ proxyLink \in BOOLEAN /\ changed \in BOOLEAN
        /\ listener \in BOOLEAN
    BY DEF ProxyInit
  <2>6. ProxyTypes
    BY <2>1, <2>2, <2>3, <2>4, <2>5 DEF ProxyTypes
  <2> QED BY <2>6 DEF ProxyInit, ProxyIInv, ProxyWord
<1>2. ProxyIInv /\ [ProxyNext]_proxyVars => ProxyIInv'
  BY SupervisorKeeps, ProxyKeeps, ProxyOwnerKeeps DEF ProxyNext
<1>3. ProxyIInv => ProxySafe
  <2> SUFFICES ASSUME ProxyIInv PROVE ProxySafe
    OBVIOUS
  <2>1. proxyBound \subseteq Addr /\ Cardinality(proxyBound) <= 1
    <3>1. proxyBound = {} \/ \E a \in Addr : proxyBound = {a}
      BY DEF ProxyIInv, ProxyTypes
    <3>2. Cardinality({}) = 0 /\ \A a \in Addr : Cardinality({a}) = 1
      BY FS_EmptySet, FS_Singleton
    <3> QED BY <3>1, <3>2
  <2>2. ProxyTypeOK
    BY <2>1 DEF ProxyIInv, ProxyTypes, ProxyWord, ProxyTypeOK, ProxyLives, ProxyServed, ProxyFiles
  <2>3. NoStaleWord
    BY DEF ProxyIInv, ProxyWord, NoStaleWord, Servable, Nothing
  <2> QED BY <2>2, <2>3 DEF ProxySafe
<1> QED BY <1>1, <1>2, <1>3, PTL DEF ProxySpec

-----------------------------------------------------------------------------
(* The snapshot and its frontends.                                         *)

FrontPolicies == [disable : BOOLEAN, blocked : SUBSET FrontUser]
FrontReqs == [at : {"idle", "asked", "mirror", "answered"}, ask : Asks, ro : BOOLEAN,
              carries : SUBSET Reports_, lists : SUBSET Port]
OneAtMost(S) == \A x, y \in S : x = y

FrontTypes ==
  /\ policy \in FrontPolicies /\ rules \subseteq Port
  /\ cert \in 0 .. MaxTurn /\ stops \in Nat /\ status \in Reports_
  /\ build \subseteq Reports_ /\ pipe \subseteq Reports_ /\ shown \subseteq Reports_
  /\ known \subseteq Port /\ req \in [Req \cup {Timer} -> FrontReqs]

\* Every report on its way tells of a certificate that was issued, there is one of each at
\* most, the timer asks for the lists only, and an engine that is down rebuilds nothing.
FrontIInv ==
  /\ FrontTypes
  /\ OneAtMost(build) /\ OneAtMost(pipe) /\ OneAtMost(shown)
  /\ \A r \in Req \cup {Timer} : OneAtMost(req[r].carries)
  /\ status.cert <= cert /\ \A b \in build : b.cert <= cert
  /\ req[Timer].ask = Listing
  /\ ~up => build = {} /\ ~reporting

LEMMA FrontShapes ==
  /\ MaxTurn \in Nat /\ Listing \in Asks /\ NoReq \in FrontReqs /\ Fresh \in Reports_ /\ Fresh.cert = 0
  /\ NoReq.ask = Listing /\ NoReq.carries = {}
<1>1. Listing \in Asks
  BY DEF Listing, Asks
<1>2. 0 \in 0 .. MaxTurn
  BY TurnBound
<1> QED BY <1>1, <1>2, TurnBound DEF NoReq, FrontReqs, Fresh, Reports_

LEMMA AskShapes ==
  ASSUME NEW a \in Asks
  PROVE  /\ a.does \in {"default", "block", "unblock", "expose", "close", "list"}
         /\ a.does = "default" => a.to \in BOOLEAN
         /\ a.does \in {"block", "unblock"} => a.to \in FrontUser
         /\ a.does \in {"expose", "close"} => a.to \in Port
BY DEF Asks

LEMMA PolicyKept ==
  ASSUME FrontTypes, NEW a \in Asks
  PROVE  /\ Changed(policy, a) \in FrontPolicies /\ Exposed(rules, a) \subseteq Port
         /\ a.does = "list" => Changed(policy, a) = policy /\ Exposed(rules, a) = rules
<1>1. policy \in FrontPolicies /\ rules \subseteq Port
  BY DEF FrontTypes
<1>2. policy.disable \in BOOLEAN /\ policy.blocked \subseteq FrontUser
  BY <1>1 DEF FrontPolicies
<1>3. Changed(policy, a) \in FrontPolicies
  <2>1. CASE a.does = "default"
    <3>1. Changed(policy, a) = [disable |-> a.to, blocked |-> policy.blocked]
      BY <1>1, <2>1 DEF Changed, FrontPolicies
    <3> QED BY <1>2, <2>1, <3>1, AskShapes DEF FrontPolicies
  <2>2. CASE a.does = "block"
    <3>1. Changed(policy, a) = [disable |-> policy.disable, blocked |-> policy.blocked \cup {a.to}]
      BY <1>1, <2>2 DEF Changed, FrontPolicies
    <3> QED BY <1>2, <2>2, <3>1, AskShapes DEF FrontPolicies
  <2>3. CASE a.does = "unblock"
    <3>1. Changed(policy, a) = [disable |-> policy.disable, blocked |-> policy.blocked \ {a.to}]
      BY <1>1, <2>3 DEF Changed, FrontPolicies
    <3> QED BY <1>2, <3>1 DEF FrontPolicies
  <2>4. CASE a.does \notin {"default", "block", "unblock"}
    BY <1>1, <2>4 DEF Changed
  <2> QED BY <2>1, <2>2, <2>3, <2>4
<1>4. Exposed(rules, a) \subseteq Port
  BY <1>1, AskShapes DEF Exposed
<1> QED BY <1>3, <1>4 DEF Changed, Exposed

LEMMA MirrorShape ==
  ASSUME FrontTypes, NEW a \in Asks
  PROVE  Mirrored(status, a) \in Reports_ /\ Mirrored(status, a).cert = status.cert
<1>1. /\ status.disable \in BOOLEAN /\ status.blocked \subseteq FrontUser /\ status.peers \subseteq FrontUser
      /\ status.cert \in 0 .. MaxTurn /\ policy.blocked \subseteq FrontUser /\ status \in Reports_
  BY DEF FrontTypes, Reports_, FrontPolicies
<1>2. CASE a.does = "default"
  <2>1. Mirrored(status, a) = [disable |-> a.to, blocked |-> status.blocked, peers |-> status.peers,
                               cert |-> status.cert]
    BY <1>1, <1>2 DEF Mirrored, Reports_
  <2> QED BY <1>1, <1>2, <2>1, AskShapes DEF Reports_
<1>3. CASE a.does \in {"block", "unblock"}
  <2>1. Mirrored(status, a) = [disable |-> status.disable, blocked |-> policy.blocked,
                               peers |-> status.peers \ policy.blocked, cert |-> status.cert]
    BY <1>1, <1>3 DEF Mirrored, Reports_
  <2> QED BY <1>1, <2>1 DEF Reports_
<1>4. CASE a.does \notin {"default", "block", "unblock"}
  BY <1>1, <1>4 DEF Mirrored
<1> QED BY <1>2, <1>3, <1>4

\* A request that becomes another well-formed one.
LEMMA ReqKept ==
  ASSUME FrontIInv, NEW r \in Req \cup {Timer}, NEW new \in FrontReqs, OneAtMost(new.carries),
         r = Timer => new.ask = Listing, req' = [req EXCEPT ![r] = new]
  PROVE  /\ req' \in [Req \cup {Timer} -> FrontReqs] /\ req'[Timer].ask = Listing
         /\ \A q \in Req \cup {Timer} : OneAtMost(req'[q].carries)
<1>1. req \in [Req \cup {Timer} -> FrontReqs]
  BY DEF FrontIInv, FrontTypes
<1> QED BY <1>1 DEF FrontIInv

\* A request a field or two of which change.
LEMMA ServedShape ==
  ASSUME NEW q \in FrontReqs, NEW v \in SUBSET Port
  PROVE  LET new == [q EXCEPT !.at = "mirror", !.lists = v]
         IN  new \in FrontReqs /\ new.carries = q.carries /\ new.ask = q.ask /\ new.at = "mirror"
BY DEF FrontReqs

LEMMA AnsweredShape ==
  ASSUME NEW q \in FrontReqs, NEW v \in SUBSET Reports_
  PROVE  LET new == [q EXCEPT !.at = "answered", !.carries = v]
         IN  new \in FrontReqs /\ new.carries = v /\ new.ask = q.ask
BY DEF FrontReqs

LEMMA ClickedShape ==
  ASSUME NEW a \in Asks, NEW b \in BOOLEAN
  PROVE  LET new == [NoReq EXCEPT !.at = "asked", !.ask = a, !.ro = b]
         IN  new \in FrontReqs /\ OneAtMost(new.carries)
BY FrontShapes DEF FrontReqs, OneAtMost

LEMMA TickedShape ==
  LET new == [NoReq EXCEPT !.at = "asked"] IN new \in FrontReqs /\ OneAtMost(new.carries) /\ new.ask = Listing
BY FrontShapes DEF FrontReqs, OneAtMost

LEMMA AnswerKeeps ==
  ASSUME FrontIInv, NEW r \in Req \cup {Timer}, Answer(r)
  PROVE  /\ FrontIInv'
         /\ <<policy, rules>>' # <<policy, rules>> =>
              r \in Req /\ req[r].at = "asked" /\ req'[r].at = "mirror" /\ ~req[r].ro
<1> DEFINE q == req[r]
<1>0. /\ FrontTypes /\ q \in FrontReqs /\ q.ask \in Asks /\ q.ro \in BOOLEAN /\ q.carries \subseteq Reports_
      /\ q.lists \subseteq Port /\ OneAtMost(q.carries) /\ (r = Timer => q.ask = Listing)
      /\ req \in [Req \cup {Timer} -> FrontReqs]
  BY DEF FrontIInv, FrontTypes, FrontReqs
<1>1. CASE Serve(r)
  <2> DEFINE new == [q EXCEPT !.at = "mirror", !.lists = rules']
  <2>1. /\ up /\ q.at = "asked" /\ Allows(r) /\ policy' = Changed(policy, q.ask) /\ rules' = Exposed(rules, q.ask)
        /\ UNCHANGED <<cert, reporting, status, build, up, unseen, guiVars, counts>>
    BY <1>1 DEF Serve
  <2>2. policy' \in FrontPolicies /\ rules' \subseteq Port
    BY <1>0, <2>1, PolicyKept
  <2>3. req' = [req EXCEPT ![r] = new]
    BY <1>0, <1>1 DEF Serve
  <2>4. new \in FrontReqs /\ new.carries = q.carries /\ new.ask = q.ask /\ new.at = "mirror"
    <3> HIDE DEF q
    <3> QED BY <1>0, <2>2, ServedShape
  <2> HIDE DEF new
  <2>5. /\ req' \in [Req \cup {Timer} -> FrontReqs] /\ req'[Timer].ask = Listing
        /\ \A p \in Req \cup {Timer} : OneAtMost(req'[p].carries)
    BY <1>0, <2>3, <2>4, ReqKept
  <2>6. FrontIInv'
    BY <2>1, <2>2, <2>5 DEF FrontIInv, FrontTypes, guiVars, counts, OneAtMost
  <2>7. ASSUME <<policy, rules>>' # <<policy, rules>> PROVE r \in Req /\ req'[r].at = "mirror" /\ ~q.ro
    <3>1. q.ask.does # "list"
      BY <1>0, <2>1, <2>7, PolicyKept
    <3>2. r # Timer
      BY <1>0, <3>1 DEF Listing
    <3>3. ~q.ro
      BY <1>0, <2>1, AskShapes DEF Allows, Reading
    <3> QED BY <1>0, <2>3, <2>4, <3>2, <3>3
  <2> QED BY <2>1, <2>6, <2>7
<1>2. CASE Mirror(r)
  <2> DEFINE c == IF Carries(q.ask) THEN {status'} ELSE {}
             new == [q EXCEPT !.at = "answered", !.carries = c]
  <2>1. up /\ status' = Mirrored(status, q.ask) /\ UNCHANGED <<factVars, reporting, build, up, guiVars, counts>>
    BY <1>2 DEF Mirror
  <2>2. status' \in Reports_ /\ status'.cert = status.cert
    BY <1>0, <2>1, MirrorShape
  <2>3. c \subseteq Reports_ /\ OneAtMost(c)
    BY <2>2 DEF OneAtMost
  <2>4. req' = [req EXCEPT ![r] = new]
    BY <1>0, <1>2 DEF Mirror
  <2> HIDE DEF c
  <2>5. new \in FrontReqs /\ new.carries = c /\ new.ask = q.ask
    <3> HIDE DEF q
    <3> QED BY <1>0, <2>3, AnsweredShape
  <2> HIDE DEF new
  <2>6. /\ req' \in [Req \cup {Timer} -> FrontReqs] /\ req'[Timer].ask = Listing
        /\ \A p \in Req \cup {Timer} : OneAtMost(req'[p].carries)
    BY <1>0, <2>3, <2>4, <2>5, ReqKept
  <2> QED BY <2>1, <2>2, <2>6 DEF FrontIInv, FrontTypes, factVars, guiVars, counts, OneAtMost
<1>3. CASE Fail(r)
  <2>1. /\ req' = [req EXCEPT ![r] = NoReq]
        /\ UNCHANGED <<factVars, reporting, status, build, up, unseen, guiVars, counts>>
    BY <1>3 DEF Fail
  <2>2. /\ req' \in [Req \cup {Timer} -> FrontReqs] /\ req'[Timer].ask = Listing
        /\ \A p \in Req \cup {Timer} : OneAtMost(req'[p].carries)
    BY <2>1, FrontShapes, ReqKept DEF OneAtMost
  <2> QED BY <2>1, <2>2 DEF FrontIInv, FrontTypes, factVars, guiVars, counts, OneAtMost
<1>4. CASE FrontDeliver(r)
  <2>1. /\ req' = [req EXCEPT ![r] = NoReq]
        /\ shown' = (IF Carries(q.ask) THEN q.carries ELSE shown)
        /\ known' = (IF Carries(q.ask) THEN known ELSE q.lists)
        /\ UNCHANGED <<factVars, reporting, status, build, up, unseen, link, pipe, counts>>
    BY <1>4 DEF FrontDeliver
  <2>2. /\ req' \in [Req \cup {Timer} -> FrontReqs] /\ req'[Timer].ask = Listing
        /\ \A p \in Req \cup {Timer} : OneAtMost(req'[p].carries)
    BY <2>1, FrontShapes, ReqKept DEF OneAtMost
  <2>3. shown' \subseteq Reports_ /\ OneAtMost(shown') /\ known' \subseteq Port
    BY <1>0, <2>1 DEF FrontIInv, FrontTypes
  <2> QED BY <2>1, <2>2, <2>3 DEF FrontIInv, FrontTypes, factVars, counts, OneAtMost
<1> QED BY <1>1, <1>2, <1>3, <1>4 DEF Answer, factVars

LEMMA EngineKeeps ==
  ASSUME FrontIInv, Rebuild \/ Replace \/ ReportCert \/ Poll \/ Issue \/ Stop \/ FrontStart
  PROVE  FrontIInv' /\ UNCHANGED <<policy, rules>>
<1>0. /\ FrontTypes /\ cert \in 0 .. MaxTurn /\ stops \in Nat /\ status \in Reports_ /\ status.cert <= cert
      /\ policy \in FrontPolicies /\ policy.blocked \subseteq FrontUser /\ policy.disable \in BOOLEAN
      /\ status.cert \in 0 .. MaxTurn
  BY DEF FrontIInv, FrontTypes, FrontPolicies, Reports_
<1>1. CASE Rebuild
  <2>1. Captured \in Reports_ /\ Captured.cert <= cert
    BY <1>0 DEF Captured, Reports_
  <2>2. up /\ build' = {Captured} /\ UNCHANGED <<factVars, reporting, status, up, unseen, guiVars, req, counts>>
    BY <1>1 DEF Rebuild, Running
  <2> HIDE DEF FrontTypes
  <2>3. build' \subseteq Reports_ /\ OneAtMost(build') /\ \A b \in build' : b.cert <= cert
    BY <2>1, <2>2 DEF OneAtMost
  <2> QED BY <2>2, <2>3 DEF FrontIInv, FrontTypes, factVars, guiVars, counts, OneAtMost
<1>2. CASE Replace
  <2>1. \E b \in build : status' = b
    BY <1>2 DEF Replace
  <2>2. up /\ build' = {} /\ UNCHANGED <<factVars, up, guiVars, req, counts>>
    BY <1>2 DEF Replace
  <2>3. status' \in Reports_ /\ status'.cert <= cert
    BY <2>1 DEF FrontIInv, FrontTypes
  <2> QED BY <2>2, <2>3 DEF FrontIInv, FrontTypes, factVars, guiVars, counts, OneAtMost
<1>3. CASE ReportCert
  <2>1. /\ up /\ reporting' = FALSE /\ status' = [status EXCEPT !.cert = cert]
        /\ UNCHANGED <<factVars, build, up, guiVars, req, counts>>
    BY <1>3 DEF ReportCert
  <2>2. status' \in Reports_ /\ status'.cert = cert
    BY <1>0, <2>1 DEF Reports_
  <2> QED BY <1>0, <2>1, <2>2 DEF FrontIInv, FrontTypes, factVars, guiVars, counts, OneAtMost
<1>4. CASE Poll \/ FrontStart
  BY <1>4 DEF Poll, FrontStart, FrontIInv, FrontTypes, factVars, guiVars, counts, OneAtMost
<1>5. CASE Issue
  <2>1. /\ up /\ cert + stops < MaxTurn /\ cert' = cert + 1
        /\ UNCHANGED <<policy, rules, reporting, status, build, up, unseen, guiVars, req, counts>>
    BY <1>5 DEF Issue
  <2>2. cert' \in 0 .. MaxTurn /\ status.cert <= cert'
    BY <1>0, <2>1, FrontShapes
  <2>3. \A b \in build : b.cert <= cert'
    <3> SUFFICES ASSUME NEW b \in build PROVE b.cert <= cert'
      OBVIOUS
    <3>1. b.cert \in 0 .. MaxTurn /\ b.cert <= cert
      BY DEF FrontIInv, FrontTypes, Reports_
    <3> QED BY <1>0, <2>1, <3>1
  <2> QED BY <2>1, <2>2, <2>3 DEF FrontIInv, FrontTypes, guiVars, counts, OneAtMost
<1>6. CASE Stop
  <2>1. /\ stops' = stops + 1 /\ up' = FALSE /\ build' = {} /\ reporting' = FALSE /\ status' = Fresh
        /\ UNCHANGED <<factVars, guiVars, req>>
    BY <1>6 DEF Stop
  <2>2. stops' \in Nat /\ status' \in Reports_ /\ status'.cert <= cert
    BY <1>0, <2>1, FrontShapes
  <2> QED BY <2>1, <2>2 DEF FrontIInv, FrontTypes, factVars, guiVars, OneAtMost
<1> QED BY <1>1, <1>2, <1>3, <1>4, <1>5, <1>6 DEF Rebuild, Replace, ReportCert, Poll, Issue, Stop, FrontStart, factVars

LEMMA FrontWorld ==
  ASSUME FrontIInv,
         \/ Tick \/ Follow \/ UNCHANGED frontVars
         \/ \E r \in Req \cup {Timer} : \E a \in Asks, ro \in BOOLEAN : Click(r, a, ro)
  PROVE  FrontIInv' /\ UNCHANGED <<policy, rules>>
<1>1. CASE Tick
  <2> DEFINE new == [NoReq EXCEPT !.at = "asked"]
  <2>1. req' = [req EXCEPT ![Timer] = new] /\ UNCHANGED <<factVars, reporting, status, build, up, unseen, guiVars, counts>>
    BY <1>1 DEF Tick
  <2>2. new \in FrontReqs /\ OneAtMost(new.carries) /\ new.ask = Listing
    BY TickedShape
  <2> HIDE DEF new
  <2>3. /\ req' \in [Req \cup {Timer} -> FrontReqs] /\ req'[Timer].ask = Listing
        /\ \A p \in Req \cup {Timer} : OneAtMost(req'[p].carries)
    BY <2>1, <2>2, ReqKept
  <2> QED BY <2>1, <2>3 DEF FrontIInv, FrontTypes, factVars, guiVars, counts, OneAtMost
<1>2. ASSUME NEW r \in Req \cup {Timer}, NEW a \in Asks, NEW ro \in BOOLEAN, Click(r, a, ro)
      PROVE  FrontIInv' /\ UNCHANGED <<policy, rules>>
  <2> DEFINE new == [NoReq EXCEPT !.at = "asked", !.ask = a, !.ro = ro]
  <2>1. /\ r # Timer /\ req' = [req EXCEPT ![r] = new]
        /\ UNCHANGED <<factVars, reporting, status, build, up, unseen, guiVars, stops>>
    BY <1>2 DEF Click
  <2>2. new \in FrontReqs /\ OneAtMost(new.carries)
    BY ClickedShape
  <2> HIDE DEF new
  <2>3. /\ req' \in [Req \cup {Timer} -> FrontReqs] /\ req'[Timer].ask = Listing
        /\ \A p \in Req \cup {Timer} : OneAtMost(req'[p].carries)
    BY <2>1, <2>2, ReqKept
  <2> QED BY <2>1, <2>3 DEF FrontIInv, FrontTypes, factVars, guiVars, OneAtMost
<1>3. CASE Follow
  <2>1. /\ UNCHANGED <<factVars, reporting, status, build, up, known, req, counts>>
        /\ \/ pipe' = pipe \/ pipe' = {status} \/ pipe' = {}
        /\ shown' = shown \/ shown' = pipe
    BY <1>3 DEF Follow, Connect, Write, Read, Break
  <2>2. pipe' \subseteq Reports_ /\ shown' \subseteq Reports_ /\ OneAtMost(pipe') /\ OneAtMost(shown')
    BY <2>1 DEF FrontIInv, FrontTypes, OneAtMost
  <2> QED BY <2>1, <2>2 DEF FrontIInv, FrontTypes, factVars, counts, OneAtMost
<1>4. CASE UNCHANGED frontVars
  BY <1>4 DEF frontVars, FrontIInv, FrontTypes, OneAtMost
<1> QED BY <1>1, <1>2, <1>3, <1>4

LEMMA OneIsCounted ==
  ASSUME NEW S, OneAtMost(S)
  PROVE  Cardinality(S) <= 1
<1>1. CASE S = {}
  BY <1>1, FS_EmptySet
<1>2. CASE S # {}
  <2>1. PICK x \in S : S = {x}
    BY <1>2 DEF OneAtMost
  <2> QED BY <2>1, FS_Singleton
<1> QED BY <1>1, <1>2

\* Nothing asked on the read-only endpoint changes the policy or the exposures, and the
\* snapshot never tells of a newer certificate than the task holds (control/server.rs
\* Access::allows, handle_conn; status.rs; daemon.rs apply_state): for any users, ports and
\* certificates and any number of requests at once.
THEOREM ReadOnlyIsReadOnly == FrontSpec => FrontSafe
<1>1. FrontInit => FrontIInv
  <2> SUFFICES ASSUME FrontInit PROVE FrontIInv
    OBVIOUS
  <2>1. policy \in FrontPolicies /\ req \in [Req \cup {Timer} -> FrontReqs]
    BY FrontShapes DEF FrontInit, FrontPolicies
  <2>2. /\ cert = 0 /\ 0 \in 0 .. MaxTurn /\ stops \in Nat /\ status = Fresh /\ Fresh.cert = 0
    BY FrontShapes DEF FrontInit
  <2>3. FrontTypes
    BY <2>1, <2>2, FrontShapes DEF FrontInit, FrontTypes
  <2> QED BY <2>2, <2>3, FrontShapes DEF FrontInit, FrontIInv, OneAtMost
<1>2. FrontIInv /\ [FrontNext]_frontVars
      => FrontIInv' /\ (<<policy, rules>>' # <<policy, rules>> =>
           \E r \in Req : req[r].at = "asked" /\ req'[r].at = "mirror" /\ ~req[r].ro)
  <2> SUFFICES ASSUME FrontIInv, [FrontNext]_frontVars
               PROVE  FrontIInv' /\ (<<policy, rules>>' # <<policy, rules>> =>
                        \E r \in Req : req[r].at = "asked" /\ req'[r].at = "mirror" /\ ~req[r].ro)
    OBVIOUS
  <2>1. CASE \E r \in Req \cup {Timer} : Answer(r)
    BY <2>1, AnswerKeeps
  <2>2. CASE Rebuild \/ Replace \/ ReportCert \/ Poll \/ Issue \/ Stop \/ FrontStart
    BY <2>2, EngineKeeps
  <2>3. CASE \/ Tick \/ Follow \/ UNCHANGED frontVars
             \/ \E r \in Req \cup {Timer} : \E a \in Asks, ro \in BOOLEAN : Click(r, a, ro)
    BY <2>3, FrontWorld
  <2> QED BY <2>1, <2>2, <2>3 DEF FrontNext
<1>3. FrontIInv => FrontTypeOK
  <2> SUFFICES ASSUME FrontIInv PROVE FrontTypeOK
    OBVIOUS
  <2>1. Cardinality(build) <= 1 /\ Cardinality(pipe) <= 1 /\ Cardinality(shown) <= 1
    BY OneIsCounted DEF FrontIInv
  <2>2. \A r \in DOMAIN req : req[r].carries \subseteq Reports_ /\ req[r].lists \subseteq Port
    BY DEF FrontIInv, FrontTypes, FrontReqs
  <2> QED BY <2>1, <2>2 DEF FrontIInv, FrontTypes, FrontPolicies, FrontTypeOK
<1> QED BY <1>1, <1>2, <1>3, PTL DEF FrontSpec, FrontSafe, ReadOnlyChangesNothing

-----------------------------------------------------------------------------
(* One desktop per socket.                                                 *)

GuiPlaces == {"off", "bind", "signal", "run", "leaving", "done"}
SingleTypes ==
  /\ guiAt \in [Gui -> GuiPlaces] /\ tries \in [Gui -> 0 .. Tries]
  /\ owner \subseteq Gui /\ asked \in [Gui -> Nat] /\ window \in [Gui -> BOOLEAN]
  /\ connected \in BOOLEAN /\ read \in [Gui -> BOOLEAN] /\ label \in [Gui -> BOOLEAN]
  /\ orders \in [Gui -> SUBSET BOOLEAN]
  /\ ends \in Nat /\ sent \in 0 .. MaxOrder /\ guiFails \in 0 .. MaxGuiFail

\* What belongs to a process that lives, and the name to one of them.
Belongs ==
  /\ \A p, q \in owner : p = q
  /\ \A p \in Gui : /\ window[p] => guiAt[p] = "run"
                    /\ orders[p] # {} => guiAt[p] \in {"run", "leaving"}
                    /\ asked[p] > 0 => guiAt[p] \in {"run", "leaving"}
                    /\ p \in owner => guiAt[p] \in {"run", "leaving"}

\* While nothing broke down, a launch is refused only by an owner, and comes back for another
\* try only once that owner has ended: as many owners have ended as it has tries behind it.
EachTryAnEnd ==
  \A p \in Gui :
    /\ guiAt[p] = "off" => tries[p] = 0
    /\ guiFails = 0 => /\ guiAt[p] = "bind" => tries[p] <= ends
                       /\ guiAt[p] = "signal" => /\ tries[p] <= ends + 1
                                                 /\ owner = {} => tries[p] <= ends
                       /\ guiAt[p] = "run" /\ p \notin owner => Tries <= ends
SingleIInv == SingleTypes /\ Belongs /\ EachTryAnEnd

LEMMA GuiNats == Tries \in Nat /\ MaxOrder \in Nat /\ MaxGuiFail \in Nat
BY GuiBounds

\* A launch on its way: Launch, Bind, GiveUp and GuiSignal.
LEMMA LaunchKeeps ==
  ASSUME SingleIInv, NEW p \in Gui, Launch(p) \/ Starts(p)
  PROVE  SingleIInv'
<1>0. /\ guiAt \in [Gui -> GuiPlaces] /\ tries \in [Gui -> 0 .. Tries] /\ owner \subseteq Gui
      /\ asked \in [Gui -> Nat] /\ window \in [Gui -> BOOLEAN] /\ ends \in Nat /\ guiFails \in 0 .. MaxGuiFail
  BY DEF SingleIInv, SingleTypes
<1>1. UNCHANGED <<connected, read, label, orders, ends, guiClicks, sent, guiFails>>
  BY DEF Launch, Starts, Bind, GiveUp, GuiSignal, trayVars, guiCounts
<1>2. CASE Launch(p)
  <2>1. guiAt[p] = "off" /\ guiAt' = [guiAt EXCEPT ![p] = "bind"] /\ UNCHANGED <<tries, owner, asked, window>>
    BY <1>2 DEF Launch
  <2>2. SingleTypes'
    BY <1>0, <1>1, <2>1 DEF SingleIInv, SingleTypes, GuiPlaces
  <2>3. Belongs'
    BY <1>0, <1>1, <2>1 DEF SingleIInv, Belongs
  <2>4. EachTryAnEnd'
    BY <1>0, <1>1, <2>1 DEF SingleIInv, EachTryAnEnd
  <2> QED BY <2>2, <2>3, <2>4 DEF SingleIInv
<1>3. CASE Bind(p)
  <2>1. /\ guiAt[p] = "bind" /\ tries[p] < Tries /\ tries' = [tries EXCEPT ![p] = tries[p] + 1]
        /\ asked' = asked
    BY <1>3 DEF Bind
  <2>2. tries' \in [Gui -> 0 .. Tries] /\ tries[p] \in Nat
    BY <1>0, <2>1, GuiNats
  <2>3. CASE owner = {}
    <3>1. owner' = {p} /\ guiAt' = [guiAt EXCEPT ![p] = "run"] /\ window' = [window EXCEPT ![p] = TRUE]
      BY <1>3, <2>3 DEF Bind, Free, Runs
    <3>2. SingleTypes'
      BY <1>0, <1>1, <2>1, <2>2, <3>1 DEF SingleIInv, SingleTypes, GuiPlaces
    <3>3. Belongs'
      BY <1>0, <1>1, <2>1, <3>1 DEF SingleIInv, Belongs
    <3>4. EachTryAnEnd'
      BY <1>0, <1>1, <2>1, <2>3, <3>1 DEF SingleIInv, EachTryAnEnd
    <3> QED BY <3>2, <3>3, <3>4 DEF SingleIInv
  <2>4. CASE owner # {}
    <3>1. guiAt' = [guiAt EXCEPT ![p] = "signal"] /\ UNCHANGED <<owner, window>>
      BY <1>3, <2>4 DEF Bind, Free
    <3>2. SingleTypes'
      BY <1>0, <1>1, <2>1, <2>2, <3>1 DEF SingleIInv, SingleTypes, GuiPlaces
    <3>3. Belongs'
      BY <1>0, <1>1, <2>1, <3>1 DEF SingleIInv, Belongs
    <3>4. EachTryAnEnd'
      BY <1>0, <1>1, <2>1, <2>2, <2>4, <3>1 DEF SingleIInv, EachTryAnEnd
    <3> QED BY <3>2, <3>3, <3>4 DEF SingleIInv
  <2> QED BY <2>3, <2>4
<1>4. CASE GiveUp(p)
  <2>1. /\ guiAt[p] = "bind" /\ tries[p] = Tries /\ guiAt' = [guiAt EXCEPT ![p] = "run"]
        /\ window' = [window EXCEPT ![p] = TRUE] /\ UNCHANGED <<tries, owner, asked>>
    BY <1>4 DEF GiveUp, Runs
  <2>2. SingleTypes'
    BY <1>0, <1>1, <2>1 DEF SingleIInv, SingleTypes, GuiPlaces
  <2>3. Belongs'
    BY <1>0, <1>1, <2>1 DEF SingleIInv, Belongs
  <2>4. EachTryAnEnd'
    BY <1>0, <1>1, <2>1 DEF SingleIInv, EachTryAnEnd
  <2> QED BY <2>2, <2>3, <2>4 DEF SingleIInv
<1>5. CASE GuiSignal(p)
  <2>1. /\ guiAt[p] = "signal" /\ UNCHANGED <<tries, owner, window>>
        /\ guiAt' = [guiAt EXCEPT ![p] = IF owner = {} THEN "bind" ELSE "done"]
        /\ asked' = [q \in Gui |-> asked[q] + (IF q \in owner THEN 1 ELSE 0)]
    BY <1>5 DEF GuiSignal, Retries
  <2>2. asked' \in [Gui -> Nat] /\ \A q \in Gui \ owner : asked'[q] = asked[q]
    BY <1>0, <2>1
  <2>3. SingleTypes'
    BY <1>0, <1>1, <2>1, <2>2 DEF SingleIInv, SingleTypes, GuiPlaces
  <2>4. Belongs'
    BY <1>0, <1>1, <2>1, <2>2 DEF SingleIInv, Belongs
  <2>5. EachTryAnEnd'
    BY <1>0, <1>1, <2>1 DEF SingleIInv, EachTryAnEnd
  <2> QED BY <2>3, <2>4, <2>5 DEF SingleIInv
<1> QED BY <1>2, <1>3, <1>4, <1>5 DEF Starts

\* What the user asks of a process, and what its window shows: the name stays where it is.
LEMMA UseKeeps ==
  ASSUME SingleIInv, NEW p \in Gui,
         \/ Activate(p) /\ UNCHANGED guiCounts
         \/ GuiUse(p) /\ UNCHANGED <<ends, sent, guiFails>>
  PROVE  SingleIInv'
<1>0. /\ guiAt \in [Gui -> GuiPlaces] /\ tries \in [Gui -> 0 .. Tries] /\ owner \subseteq Gui
      /\ asked \in [Gui -> Nat] /\ window \in [Gui -> BOOLEAN] /\ ends \in Nat /\ guiFails \in 0 .. MaxGuiFail
      /\ orders \in [Gui -> SUBSET BOOLEAN] /\ read \in [Gui -> BOOLEAN]
  BY DEF SingleIInv, SingleTypes
<1>1. UNCHANGED <<tries, owner, connected, read, label, ends, sent, guiFails>> /\ guiAt[p] = "run"
  BY DEF Activate, GuiUse, Toggle, Hide, Quit, Relaunch, ClickMesh, trayVars, guiStates, guiCounts, GuiRunning
<1>2. CASE Activate(p)
  <2>1. asked[p] > 0 /\ asked' = [asked EXCEPT ![p] = asked[p] - 1] /\ window' = [window EXCEPT ![p] = TRUE]
        /\ UNCHANGED <<guiAt, orders>>
    BY <1>2 DEF Activate, trayVars
  <2>2. asked' \in [Gui -> Nat]
    BY <1>0, <2>1
  <2>3. SingleTypes'
    BY <1>0, <1>1, <2>1, <2>2 DEF SingleIInv, SingleTypes
  <2>4. Belongs' /\ EachTryAnEnd'
    BY <1>0, <1>1, <2>1 DEF SingleIInv, Belongs, EachTryAnEnd
  <2> QED BY <2>3, <2>4 DEF SingleIInv
<1>3. CASE Toggle(p) \/ Hide(p)
  <2>1. window' \in [Gui -> BOOLEAN] /\ (\A q \in Gui : q # p => window'[q] = window[q])
        /\ UNCHANGED <<guiAt, asked, orders>>
    BY <1>0, <1>3 DEF Toggle, Hide, trayVars
  <2>2. SingleTypes'
    BY <1>0, <1>1, <2>1 DEF SingleIInv, SingleTypes
  <2>3. Belongs'
    BY <1>0, <1>1, <2>1 DEF SingleIInv, Belongs
  <2>4. EachTryAnEnd'
    BY <1>0, <1>1, <2>1 DEF SingleIInv, EachTryAnEnd
  <2> QED BY <2>2, <2>3, <2>4 DEF SingleIInv
<1>4. CASE Quit(p)
  <2>1. guiAt' = [guiAt EXCEPT ![p] = "leaving"] /\ window' = [window EXCEPT ![p] = FALSE]
        /\ UNCHANGED <<asked, orders>>
    BY <1>4 DEF Quit, trayVars
  <2>2. SingleTypes'
    BY <1>0, <1>1, <2>1 DEF SingleIInv, SingleTypes, GuiPlaces
  <2>3. Belongs'
    BY <1>0, <1>1, <2>1 DEF SingleIInv, Belongs
  <2>4. EachTryAnEnd'
    BY <1>0, <1>1, <2>1 DEF SingleIInv, EachTryAnEnd
  <2> QED BY <2>2, <2>3, <2>4 DEF SingleIInv
<1>5. CASE Relaunch(p)
  <2>1. PICK q \in Gui : guiAt[q] = "off" /\ guiAt' = [guiAt EXCEPT ![q] = "bind", ![p] = "leaving"]
    BY <1>5 DEF Relaunch
  <2>2. window' = [window EXCEPT ![p] = FALSE] /\ UNCHANGED <<asked, orders>>
    BY <1>5 DEF Relaunch, trayVars
  <2>3. SingleTypes'
    BY <1>0, <1>1, <2>1, <2>2 DEF SingleIInv, SingleTypes, GuiPlaces
  <2>4. Belongs'
    BY <1>0, <1>1, <2>1, <2>2 DEF SingleIInv, Belongs
  <2>5. EachTryAnEnd'
    BY <1>0, <1>1, <2>1 DEF SingleIInv, EachTryAnEnd
  <2> QED BY <2>3, <2>4, <2>5 DEF SingleIInv
<1>6. CASE ClickMesh(p)
  <2>1. orders' = [orders EXCEPT ![p] = {~read[p]}] /\ UNCHANGED <<guiAt, asked, window>>
    BY <1>6 DEF ClickMesh, guiStates
  <2>2. orders' \in [Gui -> SUBSET BOOLEAN]
    BY <1>0, <2>1
  <2>3. SingleTypes'
    BY <1>0, <1>1, <2>1, <2>2 DEF SingleIInv, SingleTypes
  <2>4. Belongs' /\ EachTryAnEnd'
    BY <1>0, <1>1, <2>1 DEF SingleIInv, Belongs, EachTryAnEnd
  <2> QED BY <2>3, <2>4 DEF SingleIInv
<1> QED BY <1>2, <1>3, <1>4, <1>5, <1>6 DEF GuiUse

\* The ends of a process and of its accept thread.
LEMMA EndKeeps ==
  ASSUME SingleIInv, NEW p \in Gui, Exit(p) \/ GuiCrash(p) \/ AcceptFails(p)
  PROVE  SingleIInv'
<1>0. /\ guiAt \in [Gui -> GuiPlaces] /\ tries \in [Gui -> 0 .. Tries] /\ owner \subseteq Gui
      /\ asked \in [Gui -> Nat] /\ window \in [Gui -> BOOLEAN] /\ ends \in Nat /\ guiFails \in 0 .. MaxGuiFail
      /\ orders \in [Gui -> SUBSET BOOLEAN]
  BY DEF SingleIInv, SingleTypes
<1>1. UNCHANGED <<tries, connected, read, label, sent>>
  BY DEF Exit, GuiCrash, AcceptFails, Gone, trayVars
<1>2. CASE Exit(p) \/ GuiCrash(p)
  <2>1. /\ guiAt' = [guiAt EXCEPT ![p] = "done"] /\ owner' = owner \ {p} /\ ends' = ends + 1
        /\ asked' = [asked EXCEPT ![p] = 0] /\ orders' = [orders EXCEPT ![p] = {}]
    BY <1>2 DEF Exit, GuiCrash, Gone, Freed
  <2>2. window' \in [Gui -> BOOLEAN] /\ ~window'[p] /\ \A q \in Gui : q # p => window'[q] = window[q]
    BY <1>0, <1>2 DEF Exit, GuiCrash, SingleIInv, Belongs
  <2>3. guiFails' \in 0 .. MaxGuiFail /\ (guiFails' = 0 => guiFails = 0)
    BY <1>0, <1>2, GuiNats DEF Exit, GuiCrash
  <2>9. /\ guiAt' \in [Gui -> GuiPlaces] /\ owner' \subseteq Gui /\ ends' \in Nat
        /\ asked' \in [Gui -> Nat] /\ orders' \in [Gui -> SUBSET BOOLEAN]
    BY <1>0, <2>1 DEF GuiPlaces
  <2>4. SingleTypes'
    BY <1>1, <2>2, <2>3, <2>9 DEF SingleIInv, SingleTypes
  <2>5. Belongs'
    BY <1>0, <1>1, <2>1, <2>2 DEF SingleIInv, Belongs
  <2>6. \A q \in Gui : guiAt[q] = "off" => tries[q] = 0
    BY DEF SingleIInv, EachTryAnEnd
  <2>7. ASSUME guiFails' = 0, NEW q \in Gui
        PROVE  /\ guiAt'[q] = "bind" => tries[q] <= ends + 1
               /\ guiAt'[q] = "signal" => tries[q] <= ends + 1
               /\ guiAt'[q] = "run" /\ q \notin owner' => Tries <= ends
    BY <1>0, <2>1, <2>3, <2>7 DEF SingleIInv, EachTryAnEnd
  <2>8. EachTryAnEnd'
    BY <1>0, <1>1, <2>1, <2>6, <2>7, GuiNats DEF EachTryAnEnd
  <2> QED BY <2>4, <2>5, <2>8 DEF SingleIInv
<1>3. CASE AcceptFails(p)
  <2>1. owner' = {} /\ UNCHANGED <<guiAt, asked, window, orders, ends>>
    BY <1>3 DEF AcceptFails, trayVars
  <2>2. guiFails' \in 0 .. MaxGuiFail /\ guiFails' # 0
    BY <1>0, <1>3, GuiNats DEF AcceptFails
  <2>3. SingleTypes'
    BY <1>0, <1>1, <2>1, <2>2 DEF SingleIInv, SingleTypes
  <2>4. Belongs'
    BY <1>0, <1>1, <2>1 DEF SingleIInv, Belongs
  <2>5. EachTryAnEnd'
    BY <1>0, <1>1, <2>1, <2>2 DEF SingleIInv, EachTryAnEnd
  <2> QED BY <2>3, <2>4, <2>5 DEF SingleIInv
<1> QED BY <1>2, <1>3

\* The trays and the engine.
LEMMA TrayKeeps ==
  ASSUME SingleIInv,
         \/ \E p \in Gui : PollMesh(p) \/ Repaint(p) \/ Send(p)
         \/ Elsewhere \/ UNCHANGED singleVars
  PROVE  SingleIInv'
<1>0. /\ connected \in BOOLEAN /\ read \in [Gui -> BOOLEAN] /\ label \in [Gui -> BOOLEAN]
      /\ orders \in [Gui -> SUBSET BOOLEAN] /\ sent \in 0 .. MaxOrder
  BY DEF SingleIInv, SingleTypes
<1>1. UNCHANGED <<guiStates, ends, guiFails>>
  BY DEF PollMesh, Repaint, Send, Elsewhere, singleVars, guiCounts
<1>2. /\ connected' \in BOOLEAN /\ read' \in [Gui -> BOOLEAN] /\ label' \in [Gui -> BOOLEAN]
      /\ orders' \in [Gui -> SUBSET BOOLEAN] /\ sent' \in 0 .. MaxOrder
      /\ \A q \in Gui : orders'[q] \subseteq orders[q]
  <2>1. ASSUME NEW p \in Gui, PollMesh(p) PROVE read' \in [Gui -> BOOLEAN] /\ UNCHANGED <<connected, label, orders, sent>>
    BY <1>0, <2>1 DEF PollMesh, guiCounts
  <2>2. ASSUME NEW p \in Gui, Repaint(p) PROVE label' \in [Gui -> BOOLEAN] /\ UNCHANGED <<connected, read, orders, sent>>
    BY <1>0, <2>2 DEF Repaint, guiCounts
  <2>3. ASSUME NEW p \in Gui, Send(p)
        PROVE  connected' \in BOOLEAN /\ orders' = [orders EXCEPT ![p] = {}] /\ UNCHANGED <<read, label, sent>>
    BY <1>0, <2>3 DEF Send, guiCounts
  <2>4. CASE Elsewhere
    BY <1>0, <2>4, GuiNats DEF Elsewhere
  <2>5. CASE UNCHANGED singleVars
    BY <1>0, <2>5 DEF singleVars, trayVars, guiCounts
  <2> QED BY <1>0, <2>1, <2>2, <2>3, <2>4, <2>5
<1>3. SingleTypes'
  BY <1>1, <1>2 DEF SingleIInv, SingleTypes, guiStates
<1>4. Belongs'
  <2>1. \A q \in Gui : orders'[q] # {} => orders[q] # {}
    BY <1>2
  <2> QED BY <1>1, <2>1 DEF SingleIInv, Belongs, guiStates
<1>5. EachTryAnEnd'
  BY <1>1 DEF SingleIInv, EachTryAnEnd, guiStates
<1> QED BY <1>3, <1>4, <1>5 DEF SingleIInv

LEMMA SingleKept == SingleIInv /\ [SingleNext]_<<singleVars, launchDue>> => SingleIInv'
<1> SUFFICES ASSUME SingleIInv, SingleStep \/ UNCHANGED singleVars PROVE SingleIInv'
  BY DEF SingleNext
<1>1. ASSUME NEW p \in Gui, Activate(p) PROVE SingleIInv'
  BY <1>1, UseKeeps DEF Activate
<1>2. ASSUME NEW p \in Gui, GuiUse(p) /\ UNCHANGED <<ends, sent, guiFails>> PROVE SingleIInv'
  BY <1>2, UseKeeps
<1> QED BY <1>1, <1>2, LaunchKeeps, EndKeeps, TrayKeeps DEF SingleStep

LEMMA FewOwners ==
  ASSUME Belongs, NEW S \in SUBSET owner
  PROVE  Cardinality(S) \in 0 .. 1
<1>1. CASE S = {}
  BY <1>1, FS_EmptySet
<1>2. CASE S # {}
  <2>1. PICK p \in S : S = {p}
    BY <1>2 DEF Belongs
  <2>2. Cardinality({p}) = 1
    BY FS_Singleton
  <2> QED BY <2>1, <2>2
<1> QED BY <1>1, <1>2

\* One desktop runs per socket: two need an accept thread that broke down, or as many owners
\* lost as a launch has tries (gui/src/instance.rs start, signal, accept_loop): for any
\* number of processes, tries, crashes and relaunches.
THEOREM DesktopIsSingle == SingleSpec => []DesktopSafe
<1> DEFINE Inv == SingleIInv /\ launchDue \in BOOLEAN
<1>1. SingleInit => Inv
  <2> SUFFICES ASSUME SingleInit PROVE Inv
    OBVIOUS
  <2>1. /\ guiAt \in [Gui -> GuiPlaces] /\ tries \in [Gui -> 0 .. Tries] /\ owner \subseteq Gui
        /\ asked \in [Gui -> Nat] /\ ends \in Nat /\ sent \in 0 .. MaxOrder /\ guiFails \in 0 .. MaxGuiFail
    BY GuiNats DEF SingleInit, GuiPlaces
  <2>2. window \in [Gui -> BOOLEAN]
    BY DEF SingleInit
  <2>3. read \in [Gui -> BOOLEAN]
    BY DEF SingleInit
  <2>4. label \in [Gui -> BOOLEAN]
    BY DEF SingleInit
  <2>5. orders \in [Gui -> SUBSET BOOLEAN]
    BY DEF SingleInit
  <2>6. connected \in BOOLEAN
    BY DEF SingleInit
  <2>7. launchDue \in BOOLEAN
    BY DEF SingleInit
  <2>8. SingleTypes
    BY <2>1, <2>2, <2>3, <2>4, <2>5, <2>6 DEF SingleTypes
  <2>9. Belongs
    BY DEF SingleInit, Belongs
  <2>10. EachTryAnEnd
    BY DEF SingleInit, EachTryAnEnd
  <2> QED BY <2>7, <2>8, <2>9, <2>10 DEF SingleIInv
<1>2. Inv /\ [SingleNext]_<<singleVars, launchDue>> => Inv'
  <2>1. launchDue \in BOOLEAN /\ [SingleNext]_<<singleVars, launchDue>> => launchDue' \in BOOLEAN
    BY DEF SingleNext
  <2> QED BY <2>1, SingleKept
<1>3. Inv => DesktopSafe
  <2> SUFFICES ASSUME SingleIInv, launchDue \in BOOLEAN PROVE DesktopSafe
    OBVIOUS
  <2>1. Cardinality(owner) <= 1
    BY FewOwners DEF SingleIInv
  <2>2. SingleTypeOK
    BY <2>1 DEF SingleIInv, SingleTypes, Belongs, SingleTypeOK, GuiPlaces, GuiRunning
  <2>3. ASSUME guiFails = 0, ~(ends >= Tries) PROVE ~(Cardinality({p \in Gui : GuiRunning(p)}) > 1)
    <3> DEFINE R == {p \in Gui : GuiRunning(p)}
    <3>1. R \in SUBSET owner
      BY <2>3, GuiNats DEF SingleIInv, SingleTypes, EachTryAnEnd, GuiRunning
    <3> HIDE DEF R
    <3>2. Cardinality(R) \in 0 .. 1
      BY <3>1, FewOwners DEF SingleIInv
    <3>3. ~(Cardinality(R) > 1)
      BY <3>2
    <3> QED BY <3>3 DEF R
  <2>4. guiFails \in Nat
    BY DEF SingleIInv, SingleTypes
  <2>5. OneGui
    BY <2>3, <2>4 DEF OneGui
  <2> QED BY <2>2, <2>5 DEF DesktopSafe
<1> HIDE DEF Inv
<1>4. SingleInit /\ [][SingleNext]_<<singleVars, launchDue>> => []Inv
  BY <1>1, <1>2, PTL
<1>5. []Inv => []DesktopSafe
  BY <1>3, PTL
<1> QED BY <1>4, <1>5, PTL DEF SingleSpec

-----------------------------------------------------------------------------
(* Named services.                                                         *)

Entry == UNION {UNION Offer[d] : d \in Dev}
Usable == {s \in Entry : s.label \in Label}

SvcTypes ==
  /\ offers \in [Dev -> SUBSET Entry] /\ svcPresent \subseteq Dev
  /\ seeds \in [Obs -> SUBSET Dev] /\ book \in [Obs -> [Dev -> SUBSET SUBSET Usable]]
  /\ due \in [Obs -> SUBSET Dev] /\ svcAsking \in [Obs -> SUBSET Dev] /\ since \in [Obs -> SUBSET Dev]
  /\ zone \in [Obs -> [Names -> Dev \cup {0}]]

\* A pass asks the peers of the latest refresh only, and what the book holds was said since
\* its author joined.
Asked ==
  \A o \in Obs :
    /\ o \notin seeds[o] /\ svcAsking[o] \subseteq seeds[o]
    /\ ~passing[o] => svcAsking[o] = {}
    /\ \A d \in Dev : book[o][d] # {} => d \in since[o]
SvcIInv == SvcTypes /\ passing \in [Obs -> BOOLEAN] /\ Asked

LEMMA LeastKey ==
  ASSUME NEW T \in SUBSET Nat, T # {} PROVE \E x \in T : \A y \in T : x <= y
<1>1. PICK x \in T : \A y \in T : <<y, x>> \notin OpToRel(<, Nat)
  BY WFMin, NatLessThanWellFounded
<1>2. \A y \in T : ~(y < x)
  BY <1>1 DEF OpToRel
<1> QED BY <1>2

LEMMA MinKey ==
  ASSUME NEW T \in SUBSET Dev, T # {}
  PROVE  Min(T) \in T /\ \A y \in T : Min(T) <= y
<1>1. \E x \in T : \A y \in T : x <= y
  BY LeastKey, SvcKeys
<1> QED BY <1>1 DEF Min

\* What an observer claims for others it was told by a peer of its latest refresh.
LEMMA ClaimsAre ==
  ASSUME SvcTypes, NEW o \in Obs, NEW c \in Claims(o)
  PROVE  /\ c.key \in seeds[o] \cup {o} /\ c.key \in Dev /\ c.label \in Label
         /\ c.key # o => book[o][c.key] # {}
         /\ NameOf(c) \in Names
<1>0. o \in Dev /\ seeds[o] \subseteq Dev /\ offers[o] \subseteq Entry
  BY SvcKeys DEF SvcTypes
<1>1. CASE c \in {[key |-> o, label |-> s.label, port |-> s.port] :
                     s \in {t \in offers[o] : t.label \in Label}}
  <2>1. c.key = o /\ c.label \in Label
    BY <1>1
  <2> QED BY <1>0, <2>1 DEF NameOf, Names, SvcUser
<1>2. ASSUME NEW d \in seeds[o], c \in {[key |-> d, label |-> s.label, port |-> s.port] : s \in Held(o, d)}
      PROVE  c.key = d /\ c.label \in Label /\ book[o][d] # {}
  <2>1. PICK s \in Held(o, d) : c = [key |-> d, label |-> s.label, port |-> s.port]
    BY <1>2
  <2>2. d \in Dev
    BY <1>0
  <2>3. book[o][d] \in SUBSET SUBSET Usable
    BY <2>2 DEF SvcTypes
  <2>4. s \in Usable /\ book[o][d] # {}
    BY <2>1, <2>3 DEF Held
  <2> QED BY <2>1, <2>4 DEF Usable
<1>3. CASE c \in UNION {{[key |-> d, label |-> s.label, port |-> s.port] : s \in Held(o, d)} : d \in seeds[o]}
  <2>1. \E d \in seeds[o] : c \in {[key |-> d, label |-> s.label, port |-> s.port] : s \in Held(o, d)}
    BY <1>3
  <2>2. PICK d \in seeds[o] : c \in {[key |-> d, label |-> s.label, port |-> s.port] : s \in Held(o, d)}
    BY <2>1
  <2>3. c.key = d /\ c.label \in Label /\ book[o][d] # {}
    BY <1>2, <2>2
  <2> QED BY <1>0, <2>3 DEF NameOf, Names, SvcUser
<1> QED BY <1>1, <1>3 DEF Claims

LEMMA WinnerIs ==
  ASSUME SvcTypes, NEW o \in Obs, NEW n
  PROVE  \/ Winner(o, n) = 0
         \/ \E c \in Claims(o) : NameOf(c) = n /\ Winner(o, n) = c.key
<1> DEFINE cs == {c \in Claims(o) : NameOf(c) = n /\ ~OutOfPlay(o, c)}
           K == {c.key : c \in cs}
<1>1. CASE cs = {}
  BY <1>1 DEF Winner
<1>2. CASE cs # {}
  <2>1. K \in SUBSET Dev /\ K # {}
    BY <1>2, ClaimsAre
  <2>2. Min(K) \in K
    <3> HIDE DEF K
    <3> QED BY <2>1, MinKey
  <2>3. Winner(o, n) = Min(K)
    BY <1>2 DEF Winner
  <2> HIDE DEF cs
  <2>4. PICK c \in cs : Min(K) = c.key
    BY <2>2
  <2> QED BY <2>3, <2>4 DEF cs
<1> QED BY <1>1, <1>2

\* A name of an observer's zone is a device's own, or the claim of one.
LEMMA ZoneIs ==
  ASSUME SvcTypes, NEW o \in Obs
  PROVE  /\ Zone(o) \in [Names -> Dev \cup {0}]
         /\ \A n \in Names : \/ Zone(o)[n] \in seeds[o] \cup {o} /\ DeviceName(Zone(o)[n]) = n
                             \/ Zone(o)[n] = Winner(o, n)
<1>0. o \in Dev /\ seeds[o] \subseteq Dev
  BY SvcKeys DEF SvcTypes
<1> DEFINE ds(n) == {d \in seeds[o] \cup {o} : DeviceName(d) = n}
           z(n) == IF ds(n) # {} THEN Min(ds(n)) ELSE Winner(o, n)
<1>1. Zone(o) = [n \in Names |-> z(n)]
  BY DEF Zone
<1>2. ASSUME NEW n \in Names
      PROVE  /\ z(n) \in Dev \cup {0}
             /\ (z(n) \in seeds[o] \cup {o} /\ DeviceName(z(n)) = n) \/ z(n) = Winner(o, n)
  <2>1. CASE ds(n) # {}
    <3>1. ds(n) \in SUBSET Dev
      BY <1>0
    <3>2. Min(ds(n)) \in ds(n)
      <4> HIDE DEF ds
      <4> QED BY <2>1, <3>1, MinKey
    <3> QED BY <1>0, <2>1, <3>2
  <2>2. CASE ds(n) = {}
    <3>1. Winner(o, n) \in Dev \cup {0}
      BY WinnerIs, ClaimsAre
    <3> QED BY <2>2, <3>1
  <2> QED BY <2>1, <2>2
<1> HIDE DEF z
<1>3. Zone(o) \in [Names -> Dev \cup {0}]
  BY <1>1, <1>2
<1>4. \A n \in Names : Zone(o)[n] = z(n)
  BY <1>1
<1> QED BY <1>2, <1>3, <1>4

\* resolve: who is not reported as shadowed has no rival before it.
LEMMA WinnerHolds ==
  ASSUME SvcTypes, NEW o \in Obs, NEW c \in Claims(o), <<c.key, c.label>> \notin Shadowed(o)
  PROVE  Zone(o)[NameOf(c)] = c.key
<1> DEFINE n == NameOf(c)
           cs == {e \in Claims(o) : NameOf(e) = n /\ ~OutOfPlay(o, e)}
           K == {e.key : e \in cs}
<1>1. c \notin SvcLost(o)
  BY DEF Shadowed
<1>2. ~OutOfPlay(o, c) /\ \A e \in Rivals(o, c) : ~(e.key < c.key)
  BY <1>1 DEF SvcLost
<1>3. c \in cs /\ c.key \in K /\ K \in SUBSET Dev
  BY <1>2, ClaimsAre
<1>4. Winner(o, n) = Min(K)
  BY <1>3 DEF Winner
<1>5. Min(K) \in K /\ Min(K) <= c.key /\ Min(K) \in Nat /\ c.key \in Nat
  <2> HIDE DEF K
  <2>1. Min(K) \in K /\ \A y \in K : Min(K) <= y
    BY <1>3, MinKey
  <2> QED BY <1>3, <2>1, SvcKeys
<1>6. ~(Min(K) < c.key)
  <2>1. PICK e \in cs : Min(K) = e.key
    BY <1>5
  <2>2. e \in Rivals(o, c)
    BY <2>1 DEF Rivals
  <2> QED BY <1>2, <2>1, <2>2
<1>7. Min(K) = c.key
  <2> HIDE DEF K
  <2> QED BY <1>5, <1>6
<1>8. {d \in seeds[o] \cup {o} : DeviceName(d) = n} = {}
  BY <1>2 DEF OutOfPlay, DeviceNames
<1>9. n \in Names
  BY ClaimsAre
<1>10. Zone(o)[n] = Winner(o, n)
  BY <1>8, <1>9 DEF Zone
<1> QED BY <1>4, <1>7, <1>10

LEMMA PassKeeps ==
  ASSUME SvcIInv, NEW o \in Obs, BeginPass(o) \/ EndPass(o) \/ Merge(o)
  PROVE  SvcIInv'
<1>0. SvcTypes /\ passing \in [Obs -> BOOLEAN] /\ Asked
  BY DEF SvcIInv
<1>1. CASE BeginPass(o)
  <2>1. Due(o) \subseteq seeds[o]
    BY DEF Due
  <2> QED BY <1>0, <1>1, <2>1 DEF BeginPass, SvcIInv, SvcTypes, Asked
<1>2. CASE EndPass(o)
  <2>1. zone' \in [Obs -> [Names -> Dev \cup {0}]]
    BY <1>0, <1>2, ZoneIs DEF EndPass, Resolves, SvcTypes
  <2> QED BY <1>0, <1>2, <2>1 DEF EndPass, SvcIInv, SvcTypes, Asked
<1>3. CASE Merge(o)
  <2>1. /\ ~passing[o] /\ seeds' = [seeds EXCEPT ![o] = svcPresent \ {o}]
        /\ book' = [book EXCEPT ![o] = Retained(o, svcPresent)]
        /\ due' = [due EXCEPT ![o] = @ \cap svcPresent]
        /\ since' = [since EXCEPT ![o] = @ \cap svcPresent]
        /\ UNCHANGED <<offers, svcPresent, svcAsking, passing, zone>>
    BY <1>3 DEF Merge
  <2>2. Retained(o, svcPresent) \in [Dev -> SUBSET SUBSET Usable]
    BY <1>0 DEF SvcTypes, Retained
  <2>3. \A d \in Dev : Retained(o, svcPresent)[d] # {} => d \in since[o] \cap svcPresent
    BY <1>0 DEF Retained, Asked
  <2>4. SvcTypes'
    BY <1>0, <2>1, <2>2 DEF SvcTypes
  <2>5. Asked'
    BY <1>0, <2>1, <2>3 DEF SvcTypes, Asked
  <2> QED BY <1>0, <2>1, <2>4, <2>5 DEF SvcIInv
<1> QED BY <1>1, <1>2, <1>3

LEMMA AskKeeps ==
  ASSUME SvcIInv, NEW o \in Obs, NEW d \in Dev, Pull(o, d) \/ Silence(o, d) \/ Ages(o, d)
  PROVE  SvcIInv'
<1>0. SvcTypes /\ passing \in [Obs -> BOOLEAN] /\ Asked
  BY DEF SvcIInv
<1>1. CASE Pull(o, d)
  <2>1. /\ svcAsking' = [svcAsking EXCEPT ![o] = @ \ {d}]
        /\ book' = [book EXCEPT ![o] = [book[o] EXCEPT ![d] = {Announced(d, o)}]]
        /\ due' = [due EXCEPT ![o] = @ \ {d}] /\ since' = [since EXCEPT ![o] = @ \cup {d}]
        /\ UNCHANGED <<offers, svcPresent, seeds, passing, zone>>
    BY <1>1 DEF Pull
  <2>2. {Announced(d, o)} \in SUBSET SUBSET Usable
    BY <1>0 DEF SvcTypes, Announced, Told, Usable
  <2> DEFINE bd == [book[o] EXCEPT ![d] = {Announced(d, o)}]
  <2>3. bd \in [Dev -> SUBSET SUBSET Usable] /\ \A e \in Dev : bd[e] # {} => e \in since[o] \cup {d}
    BY <1>0, <2>2 DEF SvcTypes, Asked
  <2> HIDE DEF bd
  <2>4. SvcTypes'
    BY <1>0, <2>1, <2>3 DEF SvcTypes, bd
  <2>5. book' = [book EXCEPT ![o] = bd]
    BY <2>1 DEF bd
  <2>6. Asked'
    BY <1>0, <2>1, <2>3, <2>5 DEF SvcTypes, Asked
  <2> QED BY <1>0, <2>1, <2>4, <2>6 DEF SvcIInv
<1>2. CASE Silence(o, d)
  BY <1>0, <1>2 DEF Silence, SvcIInv, SvcTypes, Asked
<1>3. CASE Ages(o, d)
  BY <1>0, <1>3 DEF Ages, SvcIInv, SvcTypes, Asked
<1> QED BY <1>1, <1>2, <1>3

LEMMA OwnersKeep ==
  ASSUME SvcIInv, NEW d \in Dev, SvcOffers(d) \/ ComesOrGoes(d)
  PROVE  SvcIInv'
<1>0. SvcTypes /\ passing \in [Obs -> BOOLEAN] /\ Asked
  BY DEF SvcIInv
<1>1. CASE SvcOffers(d)
  <2>1. PICK S \in Offer[d] : offers' = [offers EXCEPT ![d] = S]
    BY <1>1 DEF SvcOffers
  <2>2. S \subseteq Entry
    BY DEF Entry
  <2> QED BY <1>0, <1>1, <2>1, <2>2 DEF SvcOffers, SvcIInv, SvcTypes, Asked
<1>2. CASE ComesOrGoes(d)
  BY <1>0, <1>2 DEF ComesOrGoes, SvcIInv, SvcTypes, Asked
<1> QED BY <1>1, <1>2

LEMMA SvcKept == SvcIInv /\ [SvcNext]_svcVars => SvcIInv'
<1> SUFFICES ASSUME SvcIInv, [SvcNext]_svcVars PROVE SvcIInv'
  OBVIOUS
<1>1. CASE UNCHANGED svcVars
  BY <1>1 DEF svcVars, SvcIInv, SvcTypes, Asked, Names, SvcUser
<1>2. CASE SvcNext
  BY <1>2, PassKeeps, AskKeeps, OwnersKeep DEF SvcNext
<1> QED BY <1>1, <1>2

\* Only the end of a pass changes names, and to what was told since its teller joined.
LEMMA NamesAreTold ==
  ASSUME SvcIInv, [SvcNext]_svcVars, NEW o \in Obs, NEW n \in Names,
         zone'[o][n] # zone[o][n], zone'[o][n] \in Dev \ {o}, DeviceName(zone'[o][n]) # n
  PROVE  zone'[o][n] \in since[o]
<1>0. SvcTypes /\ Asked
  BY DEF SvcIInv
<1>1. PICK p \in Obs : EndPass(p)
  BY DEF SvcNext, BeginPass, Merge, Pull, Silence, Ages, SvcOffers, ComesOrGoes, svcVars
<1>2. zone' = [zone EXCEPT ![p] = Zone(p)]
  BY <1>1 DEF EndPass, Resolves
<1>3. p = o /\ zone'[o][n] = Zone(o)[n]
  BY <1>0, <1>2 DEF SvcTypes
<1>4. zone'[o][n] = Winner(o, n)
  BY <1>0, <1>3, ZoneIs
<1>5. PICK c \in Claims(o) : zone'[o][n] = c.key
  BY <1>0, <1>4, WinnerIs, SvcKeys
<1>6. book[o][c.key] # {} /\ c.key \in Dev
  BY <1>0, <1>5, ClaimsAre
<1> QED BY <1>0, <1>5, <1>6 DEF Asked

\* A claim not reported as lost resolves to its claimant, and no name resolves to a device
\* but on what that device said since it last joined (mesh_services.rs resolve,
\* pull_services, retain_peers; dns.rs update): for any devices, observers, labels and offers.
THEOREM NamesAreEarned == SvcSpec => ServicesSafe
<1>1. SvcInit => SvcIInv
  <2> SUFFICES ASSUME SvcInit PROVE SvcIInv
    OBVIOUS
  <2>1. offers \in [Dev -> SUBSET Entry]
    BY DEF SvcInit, Entry
  <2>2. SvcTypes
    BY <2>1, SvcKeys DEF SvcInit, SvcTypes
  <2>3. passing \in [Obs -> BOOLEAN]
    BY DEF SvcInit
  <2>4. Asked
    BY SvcKeys DEF SvcInit, Asked
  <2> QED BY <2>2, <2>3, <2>4 DEF SvcIInv
<1>2. SvcIInv => SvcTypeOK /\ WinnersResolve
  <2> SUFFICES ASSUME SvcIInv PROVE SvcTypeOK /\ WinnersResolve
    OBVIOUS
  <2>1. ASSUME NEW o \in Obs, NEW d \in Dev PROVE \A s \in Held(o, d) : s.label \in Label
    <3>1. book[o][d] \in SUBSET SUBSET Usable
      BY DEF SvcIInv, SvcTypes
    <3> QED BY <3>1 DEF Held, Usable
  <2>2. SvcTypeOK
    BY <2>1 DEF SvcIInv, SvcTypes, Asked, SvcTypeOK
  <2>3. WinnersResolve
    BY WinnerHolds DEF SvcIInv, WinnersResolve
  <2> QED BY <2>2, <2>3
<1>3. SvcIInv /\ [SvcNext]_svcVars =>
        [\A o \in Obs, n \in Names :
           (zone'[o][n] # zone[o][n] /\ zone'[o][n] \in Dev \ {o}
              /\ DeviceName(zone'[o][n]) # n) => zone'[o][n] \in since[o]]_svcVars
  BY NamesAreTold
<1>4. SvcInit /\ [][SvcNext]_svcVars => []SvcIInv
  BY <1>1, SvcKept, PTL
<1> QED BY <1>2, <1>3, <1>4, PTL DEF SvcSpec, ServicesSafe, LeftIsForgotten

=============================================================================
