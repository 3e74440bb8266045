----------------------------- MODULE SelfUpdate -----------------------------
(***************************************************************************)
(* Updating the engine in place (engine/src/selfupdate.rs): every response *)
(* of the coordinator may carry a release-signed manifest; one that clears *)
(* the rollback floor, is newer than what runs and has an artifact for     *)
(* this platform is staged.  ApplyUpdate on the control socket downloads   *)
(* and verifies the staged artifact in a task of its own, unpacks it into  *)
(* the state directory, replaces the GUI and then the engine, leaves a     *)
(* breadcrumb and has the daemon restart.  Versions are numbers; signature *)
(* and digest checks are the manifests the environment may offer.          *)
(***************************************************************************)
EXTENDS Naturals, FiniteSets

CONSTANTS UpdTask,       \* ApplyUpdate tasks that may be under way at once
          MaxVersion,    \* releases 1 .. MaxVersion; 0 is "none"
          MaxResponse, MaxApply, MaxCut    \* bounds

ASSUME UpdVersions == MaxVersion \in Nat \ {0}

Version == 1 .. MaxVersion
Torn == MaxVersion + 1        \* a file caught while it is being written

VARIABLES running,     \* version of this process, 0 while none runs
          engine, gui, \* the installed binaries
          floor,       \* update_floor: the highest version accepted
          slot,        \* the pending slot: the staged version or 0
          offer,       \* the last response's manifest
          best,        \* the highest version ever staged (history)
          work,        \* [task -> how far it is and with which version]
          unpacked,    \* the shared unitylan-*.update files: 0, Torn or a version
          marker,      \* update_pending
          plan, restartLit,    \* the exec slot and the restart permit
          updLeft
updVars == <<running, engine, gui, floor, slot, offer, best, work, unpacked, marker,
             plan, restartLit, updLeft>>

NoOffer == [v |-> 0, ours |-> FALSE]
Idle == [at |-> "idle", v |-> 0]
UpdSteps == {"idle", "download", "unpack", "gui", "swap", "tidy", "mark", "plan", "signal"}

UpdInit ==
    /\ running = 1 /\ engine = 1 /\ gui \in {0, 1} /\ floor = 0 /\ slot = 0 /\ offer = NoOffer
    /\ best = 0 /\ work = [t \in UpdTask |-> Idle] /\ unpacked = 0 /\ marker = 0
    /\ plan = FALSE /\ restartLit = FALSE
    /\ updLeft = [response |-> MaxResponse, apply |-> MaxApply, cut |-> MaxCut]

UpdUse(b) == updLeft[b] > 0 /\ updLeft' = [updLeft EXCEPT ![b] = @ - 1]
Up == running # 0
IsNewer(v, w) == v > w

(***************************************************************************)
(* Staging                                                                 *)
(***************************************************************************)
ClearsFloor(m) == ~IsNewer(floor, m.v)
Applies(m) == ClearsFloor(m) /\ IsNewer(m.v, running) /\ m.ours
\* the floor is tightened only by a manifest that passed every check
RaisesEarly(m) == ClearsFloor(m)
Raises(m) == Applies(m)

\* note_update, on every register and refresh; a response may carry nothing
Respond(m) ==
    /\ Up /\ UpdUse("response")
    /\ offer' = m
    /\ slot' = IF m.v # 0 /\ Applies(m) THEN m.v ELSE 0
    /\ best' = IF m.v # 0 /\ Applies(m) /\ m.v > best THEN m.v ELSE best
    /\ floor' = IF m.v # 0 /\ Raises(m) /\ IsNewer(m.v, floor) THEN m.v ELSE floor
    /\ UNCHANGED <<running, engine, gui, work, unpacked, marker, plan, restartLit>>

(***************************************************************************)
(* Applying: one task per request, each reading the slot once              *)
(***************************************************************************)
Goto(t, place) == work' = [work EXCEPT ![t].at = place]

ApplyUpdate(t) ==
    /\ Up /\ work[t] = Idle /\ slot # 0 /\ UpdUse("apply")
    /\ work' = [work EXCEPT ![t] = [at |-> "download", v |-> slot]]
    /\ UNCHANGED <<running, engine, gui, floor, slot, offer, best, unpacked, marker, plan, restartLit>>

\* fetched and matching the manifest's size and digest, or nothing is applied
Download(t) ==
    /\ work[t].at = "download"
    /\ \/ Goto(t, "unpack") /\ unpacked' = Torn       \* unpacking truncates the shared files
       \/ work' = [work EXCEPT ![t] = Idle] /\ UNCHANGED unpacked
    /\ UNCHANGED <<running, engine, gui, floor, slot, offer, best, marker, plan, restartLit, updLeft>>
Unpack(t) ==
    /\ work[t].at = "unpack" /\ Goto(t, "gui") /\ unpacked' = work[t].v
    /\ UNCHANGED <<running, engine, gui, floor, slot, offer, best, marker, plan, restartLit, updLeft>>

\* the companion is replaced, best effort, only where one is installed
ReplaceGui(t) ==
    /\ work[t].at = "gui" /\ Goto(t, "swap")
    /\ gui' \in {gui, IF 0 \in {gui, unpacked} THEN gui ELSE unpacked}
    /\ UNCHANGED <<running, engine, floor, slot, offer, best, unpacked, marker, plan, restartLit, updLeft>>

Swapped == unpacked
Swap(t) ==
    /\ work[t].at = "swap"
    /\ \/ unpacked # 0 /\ engine' = Swapped /\ Goto(t, "tidy")
       \/ work' = [work EXCEPT ![t] = Idle] /\ UNCHANGED engine     \* the task only logs it
    /\ UNCHANGED <<running, gui, floor, slot, offer, best, unpacked, marker, plan, restartLit, updLeft>>
Tidy(t) ==
    /\ work[t].at = "tidy" /\ Goto(t, "mark") /\ unpacked' = 0
    /\ UNCHANGED <<running, engine, gui, floor, slot, offer, best, marker, plan, restartLit, updLeft>>
Marked(t) == work[t].v
Mark(t) ==
    /\ work[t].at = "mark" /\ Goto(t, "plan") /\ marker' = Marked(t)
    /\ UNCHANGED <<running, engine, gui, floor, slot, offer, best, unpacked, plan, restartLit, updLeft>>
Plan(t) ==
    /\ work[t].at = "plan" /\ Goto(t, "signal") /\ plan' = TRUE
    /\ UNCHANGED <<running, engine, gui, floor, slot, offer, best, unpacked, marker, restartLit, updLeft>>
UpdSignals == TRUE
Signal(t) ==
    /\ work[t].at = "signal" /\ work' = [work EXCEPT ![t] = Idle] /\ restartLit' = UpdSignals
    /\ UNCHANGED <<running, engine, gui, floor, slot, offer, best, unpacked, marker, plan, updLeft>>

(***************************************************************************)
(* Restarting                                                              *)
(***************************************************************************)
\* a start reconciles the breadcrumb: it stays while an older engine runs
Cleared(v) == IF marker # 0 /\ ~IsNewer(marker, v) THEN 0 ELSE marker
Comes(v) ==
    /\ running' = v
    /\ marker' = Cleared(v)
    /\ work' = [t \in UpdTask |-> Idle] /\ slot' = 0 /\ plan' = FALSE /\ restartLit' = FALSE
    /\ offer' = NoOffer
Ends == /\ running' = 0 /\ marker' = marker
        /\ work' = [t \in UpdTask |-> Idle] /\ slot' = 0 /\ plan' = FALSE /\ restartLit' = FALSE
        /\ offer' = NoOffer

\* the mesh loop takes the permit: torn down, it re-execs the staged plan
Restart == /\ Up /\ restartLit
           /\ IF plan /\ engine # Torn THEN Comes(engine) ELSE Ends
           /\ UNCHANGED <<engine, gui, floor, best, unpacked, updLeft>>
Cut == /\ Up /\ UpdUse("cut") /\ Ends
       /\ UNCHANGED <<engine, gui, floor, best, unpacked>>
\* the supervisor starts whatever is installed; a torn file does not start
Boot == /\ ~Up /\ engine # Torn /\ Comes(engine)
        /\ UNCHANGED <<engine, gui, floor, best, unpacked, updLeft>>

Offers == [v : Version, ours : BOOLEAN] \cup {NoOffer}
Task(t) == Download(t) \/ Unpack(t) \/ ReplaceGui(t) \/ Swap(t) \/ Tidy(t) \/ Mark(t)
           \/ Plan(t) \/ Signal(t)
UpdNext == \/ \E m \in Offers : Respond(m)
           \/ \E t \in UpdTask : ApplyUpdate(t) \/ Task(t)
           \/ Restart \/ Cut \/ Boot
\* a task, the daemon loop and the supervisor keep running
UpdFair == WF_updVars(Restart) /\ WF_updVars(Boot) /\ \A t \in UpdTask : WF_updVars(Task(t))
UpdSpec == UpdInit /\ [][UpdNext]_updVars /\ UpdFair

(***************************************************************************)
(* Properties                                                              *)
(***************************************************************************)
\* Every variable keeps its type.
UpdTypeOK ==
    /\ running \in Version \cup {0} /\ engine \in Version \cup {Torn} /\ gui \in Version \cup {0, Torn}
    /\ floor \in Version \cup {0} /\ slot \in Version \cup {0} /\ best \in Version \cup {0}
    /\ offer \in Offers /\ work \in [UpdTask -> [at : UpdSteps, v : Version \cup {0}]]
    /\ unpacked \in Version \cup {0, Torn} /\ marker \in Version \cup {0}
    /\ plan \in BOOLEAN /\ restartLit \in BOOLEAN

\* A replayed older manifest is never staged once a newer one was, across
\* restarts (selfupdate.rs clears_floor: "refuse any strictly-older one").
NoRollback == slot \in {0, best}

\* A manifest that was refused never poisons the floor: a release newer than
\* what runs and than everything accepted, for this platform, is staged
\* (selfupdate.rs raise_floor: "would otherwise brick every future, lower-
\* versioned real release").
NotPoisoned == Up /\ offer.ours /\ offer.v > running /\ offer.v >= best => slot = offer.v

\* The breadcrumb tells the truth: while one names a newer version than the one
\* running, the installed file holds it or something newer (selfupdate.rs
\* reconcile_update_marker reads anything else as a swap that did not take).
MarkerIsEarned == marker > running /\ Up => engine >= marker

\* An installed engine gets to run: whatever is cut, the process ends up on the
\* binary on disk (daemon.rs run: the restart arm, with the supervisor behind it).
InstalledRuns == \A v \in Version : []<>(engine = v => running = v)

\* What an update keeps at every step, wherever it is cut.
UpdateSafe == UpdTypeOK /\ NoRollback /\ NotPoisoned /\ MarkerIsEarned
=============================================================================
