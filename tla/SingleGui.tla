----------------------------- MODULE SingleGui -----------------------------
(***************************************************************************)
(* One desktop per engine socket (src/crates/gui/src/instance.rs), its     *)
(* window and its tray (main.rs, tray/mod.rs, linux.rs and windows.rs).    *)
(*                                                                         *)
(* A launch binds a name; one that finds it taken asks the owner to show   *)
(* itself and ends.  The name is the operating system's: it is free again  *)
(* when the process that holds it has ended, or when its accept thread     *)
(* has.  Closing the window only hides it.  The tray follows the mesh by   *)
(* polling, and its menu sends the opposite of what it last read.          *)
(***************************************************************************)
EXTENDS Integers, FiniteSets

CONSTANTS
  Gui,       \* processes
  Tries,     \* how often a launch tries to bind
  MaxGuiClick,  \* bound on what the user does with a window or a menu
  MaxOrder,  \* bound on connects and disconnects sent by others
  MaxGuiFail    \* bound on crashes and on accept errors

ASSUME GuiBounds == {Tries, MaxOrder, MaxGuiFail} \subseteq Nat

VARIABLES
  guiAt,        \* process -> where it is
  tries,     \* process -> binds it has tried
  owner,     \* {} or {the process whose listener holds the name}
  asked,     \* process -> requests to show itself it has not handled
  window,    \* process -> its window exists
  connected, \* the engine's state
  read,      \* process -> the state its tray read last
  label,     \* process -> the state its menu shows
  orders,    \* process -> {} or {what its tray is to ask of the engine}
  ends, guiClicks, sent, guiFails,
  launchDue  \* a launch has begun, and no window has been seen or desktop ended since

guiStates == <<guiAt, tries, owner, asked, window>>
trayVars == <<connected, read, label, orders>>
guiCounts == <<ends, guiClicks, sent, guiFails>>
singleVars == <<guiStates, trayVars, guiCounts>>

GuiRunning(p) == guiAt[p] = "run"
Shown == \E p \in Gui : GuiRunning(p) /\ window[p]

------------------------------------------------------------------------------
\* The user starts a process.
Launch(p) ==
  /\ guiAt[p] = "off" /\ guiAt' = [guiAt EXCEPT ![p] = "bind"]
  /\ UNCHANGED <<tries, owner, asked, window, trayVars, guiCounts>>

\* main: the first window opens as the process starts to run.
Runs(p) == guiAt' = [guiAt EXCEPT ![p] = "run"] /\ window' = [window EXCEPT ![p] = TRUE]
\* Not part of the code: a name that is taken is taken over.
FreeAlways == TRUE
\* Only one process binds the name.
Free == owner = {}
\* start: bind first, so exactly one process wins.
Bind(p) ==
  /\ guiAt[p] = "bind" /\ tries[p] < Tries
  /\ IF Free THEN owner' = {p} /\ Runs(p)
             ELSE guiAt' = [guiAt EXCEPT ![p] = "signal"] /\ UNCHANGED <<owner, window>>
  /\ tries' = [tries EXCEPT ![p] = @ + 1]
  /\ UNCHANGED <<asked, trayVars, guiCounts>>
\* Unsupported: the launch goes on without the guard.
GiveUp(p) ==
  /\ guiAt[p] = "bind" /\ tries[p] = Tries /\ Runs(p)
  /\ UNCHANGED <<tries, owner, asked, trayVars, guiCounts>>
\* Not part of the code: a launch that reached nobody ends all the same.
RetriesNot == FALSE
\* The owner vanished before it could be reached.
Retries == owner = {}
\* signal: connecting is the request; it is answered while the name is held.
GuiSignal(p) ==
  /\ guiAt[p] = "signal"
  /\ guiAt' = [guiAt EXCEPT ![p] = IF Retries THEN "bind" ELSE "done"]
  /\ asked' = [q \in Gui |-> asked[q] + (IF q \in owner THEN 1 ELSE 0)]
  /\ UNCHANGED <<tries, owner, window, trayVars, guiCounts>>

\* Message::Activate: never hides.
Activate(p) ==
  /\ GuiRunning(p) /\ asked[p] > 0
  /\ asked' = [asked EXCEPT ![p] = @ - 1] /\ window' = [window EXCEPT ![p] = TRUE]
  /\ UNCHANGED <<guiAt, tries, owner, trayVars, guiCounts>>

\* ToggleWindow of the tray, CloseRequested of the window: hidden is destroyed.
Toggle(p) ==
  /\ GuiRunning(p) /\ window' = [window EXCEPT ![p] = ~@]
  /\ UNCHANGED <<guiAt, tries, owner, asked, trayVars>>
Hide(p) ==
  /\ GuiRunning(p) /\ window[p] /\ window' = [window EXCEPT ![p] = FALSE]
  /\ UNCHANGED <<guiAt, tries, owner, asked, trayVars>>
\* TrayMsg::Quit, and what ends a process: its name goes with it.
Quit(p) ==
  /\ GuiRunning(p) /\ guiAt' = [guiAt EXCEPT ![p] = "leaving"]
  /\ window' = [window EXCEPT ![p] = FALSE]
  /\ UNCHANGED <<tries, owner, asked, trayVars>>
\* Message::Relaunch: spawn the successor, then exit; or stay and report.
Relaunch(p) ==
  /\ GuiRunning(p) /\ window[p]
  /\ \E q \in Gui :
       /\ guiAt[q] = "off"
       /\ guiAt' = [guiAt EXCEPT ![q] = "bind", ![p] = "leaving"]
  /\ window' = [window EXCEPT ![p] = FALSE]
  /\ UNCHANGED <<tries, owner, asked, trayVars>>
\* A namespaced socket vanishes with its process.
Freed(p) == owner \ {p}
Gone(p) ==
  /\ guiAt' = [guiAt EXCEPT ![p] = "done"] /\ owner' = Freed(p) /\ ends' = ends + 1
  /\ asked' = [asked EXCEPT ![p] = 0] /\ orders' = [orders EXCEPT ![p] = {}]
  /\ UNCHANGED <<tries, connected, read, label, guiClicks, sent>>
Exit(p) == guiAt[p] = "leaving" /\ Gone(p) /\ UNCHANGED <<window, guiFails>>
GuiCrash(p) ==
  /\ GuiRunning(p) /\ guiFails < MaxGuiFail /\ guiFails' = guiFails + 1
  /\ window' = [window EXCEPT ![p] = FALSE] /\ Gone(p)
\* accept_loop ends at the first error, and its listener with it.
AcceptFails(p) ==
  /\ GuiRunning(p) /\ p \in owner /\ guiFails < MaxGuiFail /\ guiFails' = guiFails + 1
  /\ owner' = {}
  /\ UNCHANGED <<guiAt, tries, asked, window, trayVars, ends, guiClicks, sent>>

------------------------------------------------------------------------------
\* Both trays take whatever the engine reports.
News == TRUE
\* tray_main and net_thread: the status is polled every two seconds.
PollMesh(p) ==
  /\ GuiRunning(p) /\ News /\ read' = [read EXCEPT ![p] = connected]
  /\ UNCHANGED <<guiStates, connected, label, orders, guiCounts>>
\* ksni redraws after an update, Windows on a timer of its own.
Repaint(p) ==
  /\ GuiRunning(p) /\ label' = [label EXCEPT ![p] = read[p]]
  /\ UNCHANGED <<guiStates, connected, read, orders, guiCounts>>
\* The menu sends the opposite of what was read, through a queue.
ClickMesh(p) ==
  /\ GuiRunning(p) /\ orders[p] = {} /\ orders' = [orders EXCEPT ![p] = {~read[p]}]
  /\ UNCHANGED <<guiStates, connected, read, label>>
Send(p) ==
  /\ \E w \in orders[p] : connected' = w
  /\ orders' = [orders EXCEPT ![p] = {}]
  /\ UNCHANGED <<guiStates, read, label, guiCounts>>
\* Another frontend connects or disconnects.
Elsewhere ==
  /\ sent < MaxOrder /\ sent' = sent + 1 /\ connected' = ~connected
  /\ UNCHANGED <<guiStates, read, label, orders, ends, guiClicks, guiFails>>

GuiUse(p) == Toggle(p) \/ Hide(p) \/ Quit(p) \/ Relaunch(p) \/ ClickMesh(p)
Starts(p) == Bind(p) \/ GiveUp(p) \/ GuiSignal(p)

SingleInit ==
  /\ guiAt = [p \in Gui |-> "off"] /\ tries = [p \in Gui |-> 0] /\ owner = {}
  /\ asked = [p \in Gui |-> 0] /\ window = [p \in Gui |-> FALSE]
  /\ connected = TRUE /\ read = [p \in Gui |-> TRUE] /\ label = [p \in Gui |-> TRUE]
  /\ orders = [p \in Gui |-> {}] /\ ends = 0 /\ guiClicks = 0 /\ sent = 0 /\ guiFails = 0
  /\ launchDue = FALSE

SingleStep ==
  \/ \E p \in Gui :
       \/ Launch(p) \/ Starts(p) \/ Activate(p) \/ Exit(p) \/ GuiCrash(p) \/ AcceptFails(p)
       \/ GuiUse(p) /\ guiClicks < MaxGuiClick /\ guiClicks' = guiClicks + 1 /\ UNCHANGED <<ends, sent, guiFails>>
       \/ PollMesh(p) \/ Repaint(p) \/ Send(p)
  \/ Elsewhere

SingleNext ==
  /\ SingleStep
  /\ launchDue' = (~Shown' /\ ((launchDue /\ ends' = ends) \/ \E p \in Gui : guiAt'[p] = "bind"))

\* A process that was started goes on, and so do its threads; the user need not.
SingleFairness ==
  \A p \in Gui :
    /\ WF_singleVars(Starts(p)) /\ WF_singleVars(Activate(p)) /\ WF_singleVars(Exit(p))
    /\ WF_singleVars(PollMesh(p)) /\ WF_singleVars(Repaint(p)) /\ WF_singleVars(Send(p))

SingleSpec == SingleInit /\ [][SingleNext]_<<singleVars, launchDue>> /\ SingleFairness

------------------------------------------------------------------------------
\* The variables have their types; a window and an order belong to a process
\* that lives, and the name to one that runs or is about to end.
SingleTypeOK ==
  /\ guiAt \in [Gui -> {"off", "bind", "signal", "run", "leaving", "done"}]
  /\ tries \in [Gui -> 0..Tries] /\ owner \subseteq Gui /\ Cardinality(owner) <= 1
  /\ connected \in BOOLEAN /\ read \in [Gui -> BOOLEAN]
  /\ label \in [Gui -> BOOLEAN] /\ guiFails \in 0..MaxGuiFail /\ sent \in 0..MaxOrder
  /\ \A p \in Gui : /\ window[p] => GuiRunning(p)
                    /\ orders[p] # {} => guiAt[p] \in {"run", "leaving"}
                    /\ asked[p] > 0 => guiAt[p] \in {"run", "leaving"}
  /\ \A p \in owner : guiAt[p] \in {"run", "leaving"}
  /\ launchDue \in BOOLEAN

\* Only one desktop runs per socket, whatever is launched, relaunched, crashes
\* or ends while another launch is between its bind and its signal: two need an
\* accept thread that broke down or as many owners lost as a launch has tries.
OneGui ==
  Cardinality({p \in Gui : GuiRunning(p)}) > 1 => guiFails > 0 \/ ends >= Tries

\* What any number of launches keep, at every step.
DesktopSafe == SingleTypeOK /\ OneGui

\* A launch ends with a window on the screen, unless a desktop ended meanwhile.
LaunchShows == []<>~launchDue

\* When nobody connects or disconnects any more, the menu of the tray names what
\* a click on it does.
TrayTracks ==
  \A p \in Gui : <>[](GuiRunning(p) => label[p] = connected /\ read[p] = connected)
=============================================================================
