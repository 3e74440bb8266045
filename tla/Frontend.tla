------------------------------ MODULE Frontend ------------------------------
(***************************************************************************)
(* The status a device shows and the frontends that show it                *)
(* (src/crates/engine/src/control/status.rs, server.rs and client.rs,      *)
(* src/crates/gui/src/ctl.rs and main.rs).                                 *)
(*                                                                         *)
(* The snapshot has several writers: the mesh loop rebuilds it from what   *)
(* it captured some steps earlier, the handlers of the control socket      *)
(* overlay the policy they have just changed, the certificate task and the *)
(* health poll overlay theirs.  A frontend follows the snapshot on one     *)
(* connection and sends each command on another, whose reply may carry a   *)
(* snapshot or the list of exposures too; the desktop shows whichever      *)
(* arrived last.  A read-only endpoint serves the TLS proxy.               *)
(*                                                                         *)
(* Of the policy, the default for new networks stands for the switches     *)
(* that are mirrored one by one; of the report, the blocked list and the   *)
(* peers, whose mesh does not change here.  Drafts, tabs, menus and        *)
(* banners are left out.                                                   *)
(***************************************************************************)
EXTENDS Integers, FiniteSets

CONSTANTS
  FrontUser,     \* owners of peers
  Port,     \* ports that may be exposed
  Req,      \* commands that may be under way at once
  Timer,    \* the desktop's timer, whose requests are the lists
  NoTarget, \* what a list is aimed at
  MaxClick, MaxTurn  \* bounds: commands; certificates issued and engine stops, together

ASSUME TurnBound == MaxTurn \in Nat

VARIABLES
  policy,   \* LocalNet on disk: the default for new networks, who is blocked
  rules,    \* the firewall's exposures
  cert,     \* the certificate the task holds
  reporting, \* a certificate reconcile is under way
  status,   \* the watch channel's value
  build,    \* {} or {what apply_state captured for the next snapshot}
  up,       \* the engine runs
  link,     \* the desktop's Watch is connected
  unseen,   \* the value changed since the stream last took it
  pipe,     \* {} or {the line under way to the desktop}
  shown,    \* {} or {the report the desktop shows}
  known,    \* the exposures the desktop shows
  req,      \* request -> how far it is, what it asks, what the reply carries
  clicks, stops

frontVars == <<policy, rules, cert, reporting, status, build, up, link, unseen,
               pipe, shown, known, req, clicks, stops>>
guiVars == <<link, pipe, shown, known>>
factVars == <<policy, rules, cert>>
counts == <<clicks, stops>>

Asks == [does : {"default"}, to : BOOLEAN] \cup [does : {"block", "unblock"}, to : FrontUser]
        \cup [does : {"expose", "close"}, to : Port] \cup [does : {"list"}, to : {NoTarget}]
Listing == [does |-> "list", to |-> NoTarget]
\* What a frontend may ask for, and on which endpoint it is answered.
Reading == {"status"}
\* The snapshot before the first rebuild.
Fresh == [disable |-> TRUE, blocked |-> {}, peers |-> {}, cert |-> 0]
NoReq == [at |-> "idle", ask |-> Listing, ro |-> FALSE, carries |-> {}, lists |-> {}]

------------------------------------------------------------------------------
\* apply_state captures the policy and what the last snapshot overlaid.
Captured ==
  [disable |-> policy.disable, blocked |-> policy.blocked,
   peers |-> FrontUser \ policy.blocked, cert |-> status.cert]
\* The loop is running: teardown has ended it otherwise.
Running == up
Rebuild ==
  /\ Running /\ build = {} /\ build' = {Captured}
  /\ UNCHANGED <<factVars, reporting, status, up, unseen, guiVars, req, counts>>
\* send_modify and send_replace wake the streams whatever the value.
Wakes(s) == TRUE
\* update replaces the snapshot; a certificate reconcile follows.
Replace ==
  /\ up
  /\ \E b \in build : status' = b /\ unseen' = Wakes(b)
  /\ build' = {} /\ reporting' = TRUE
  /\ UNCHANGED <<factVars, up, guiVars, req, counts>>
\* set_cert_status, at the end of every reconcile.
ReportCert ==
  /\ up /\ reporting
  /\ reporting' = FALSE
  /\ status' = [status EXCEPT !.cert = cert]
  /\ unseen' = (unseen \/ status.cert # cert)
  /\ UNCHANGED <<factVars, build, up, guiVars, req, counts>>
\* set_live, in every pass, wakes the streams too.
Poll ==
  /\ up /\ unseen' = Wakes(status)
  /\ UNCHANGED <<factVars, reporting, status, build, up, guiVars, req, counts>>

------------------------------------------------------------------------------
\* A command of the desktop, or of the proxy's account on its own endpoint.
Click(r, a, ro) ==
  /\ r # Timer /\ req[r].at = "idle" /\ clicks < MaxClick /\ clicks' = clicks + 1
  /\ req' = [req EXCEPT ![r] = [NoReq EXCEPT !.at = "asked", !.ask = a, !.ro = ro]]
  /\ UNCHANGED <<factVars, reporting, status, build, up, unseen, guiVars, stops>>
\* The desktop's timer asks for the lists every two seconds.
Tick ==
  /\ req[Timer].at = "idle"
  /\ req' = [req EXCEPT ![Timer] = [NoReq EXCEPT !.at = "asked"]]
  /\ UNCHANGED <<factVars, reporting, status, build, up, unseen, guiVars, counts>>

\* Not part of the code: every endpoint answers everything.
AllowsAll(r) == TRUE
\* Access::allows
Allows(r) == ~req[r].ro \/ req[r].ask.does \in Reading
Changed(p, a) ==
  CASE a.does = "default" -> [p EXCEPT !.disable = a.to]
    [] a.does = "block"   -> [p EXCEPT !.blocked = @ \cup {a.to}]
    [] a.does = "unblock" -> [p EXCEPT !.blocked = @ \ {a.to}]
    [] OTHER              -> p
Exposed(rs, a) ==
  CASE a.does = "expose" -> rs \cup {a.to}
    [] a.does = "close"  -> rs \ {a.to}
    [] OTHER             -> rs
\* handle_conn: the change is made and saved before the mirror.
Serve(r) ==
  /\ up /\ req[r].at = "asked" /\ Allows(r)
  /\ policy' = Changed(policy, req[r].ask)
  /\ rules' = Exposed(rules, req[r].ask)
  /\ req' = [req EXCEPT ![r].at = "mirror", ![r].lists = rules']
  /\ UNCHANGED <<cert, reporting, status, build, up, unseen, guiVars, counts>>

\* set_disable_new and set_blocked: the overlay of the handler.
Mirrored(s, a) ==
  CASE a.does = "default" -> [s EXCEPT !.disable = a.to]
    [] a.does \in {"block", "unblock"} ->
         [s EXCEPT !.blocked = policy.blocked, !.peers = @ \ policy.blocked]
    [] OTHER -> s
Carries(a) == a.does \in {"default", "block", "unblock"}
Mirror(r) ==
  /\ up /\ req[r].at = "mirror"
  /\ status' = Mirrored(status, req[r].ask)
  /\ unseen' = (unseen \/ Carries(req[r].ask))
  /\ req' = [req EXCEPT ![r].at = "answered",
                        ![r].carries = IF Carries(req[r].ask) THEN {status'} ELSE {}]
  /\ UNCHANGED <<factVars, reporting, build, up, guiVars, counts>>
\* Refused, unreachable, or cut off by a restart: an error, which shows nothing.
Fail(r) ==
  /\ \/ ~up /\ req[r].at \in {"asked", "mirror"}
     \/ up /\ req[r].at = "asked" /\ ~Allows(r)
  /\ req' = [req EXCEPT ![r] = NoReq]
  /\ UNCHANGED <<factVars, reporting, status, build, up, unseen, guiVars, counts>>
\* App::update, for the reply: a report replaces the report, a list the list.
FrontDeliver(r) ==
  /\ req[r].at = "answered"
  /\ shown' = IF Carries(req[r].ask) THEN req[r].carries ELSE shown
  /\ known' = IF Carries(req[r].ask) THEN known ELSE req[r].lists
  /\ req' = [req EXCEPT ![r] = NoReq]
  /\ UNCHANGED <<factVars, reporting, status, build, up, unseen, link, pipe, counts>>

------------------------------------------------------------------------------
\* stream_status and watch_status.
Connect ==
  /\ up /\ ~link /\ link' = TRUE /\ unseen' = TRUE
  /\ UNCHANGED <<factVars, reporting, status, build, up, pipe, shown, known, req, counts>>
Write ==
  /\ up /\ link /\ unseen /\ pipe = {}
  /\ pipe' = {status} /\ unseen' = FALSE
  /\ UNCHANGED <<factVars, reporting, status, build, up, link, shown, known, req, counts>>
Read ==
  /\ pipe # {} /\ shown' = pipe /\ pipe' = {}
  /\ UNCHANGED <<factVars, reporting, status, build, up, link, unseen, known, req, counts>>
Break ==
  /\ ~up /\ link /\ pipe = {} /\ link' = FALSE
  /\ UNCHANGED <<factVars, reporting, status, build, up, unseen, pipe, shown, known, req, counts>>

\* The CA and the process.
Issue ==
  /\ up /\ reporting /\ cert + stops < MaxTurn /\ cert' = cert + 1
  /\ UNCHANGED <<policy, rules, reporting, status, build, up, unseen, guiVars, req, counts>>
\* The snapshot and the list live in memory; the policy and the rules do not.
Stop ==
  /\ up /\ cert + stops < MaxTurn /\ stops' = stops + 1
  /\ up' = FALSE /\ build' = {} /\ reporting' = FALSE /\ status' = Fresh
  /\ UNCHANGED <<factVars, unseen, guiVars, req, clicks>>
FrontStart ==
  /\ ~up /\ ~link /\ up' = TRUE
  /\ UNCHANGED <<factVars, reporting, status, build, unseen, guiVars, req, counts>>

FrontInit ==
  /\ policy = [disable |-> TRUE, blocked |-> {}] /\ rules = {} /\ cert = 0
  /\ reporting = FALSE /\ status = Fresh /\ build = {} /\ up = TRUE
  /\ link = FALSE /\ unseen = FALSE /\ pipe = {} /\ shown = {} /\ known = {}
  /\ req = [r \in Req \cup {Timer} |-> NoReq]
  /\ clicks = 0 /\ stops = 0

Answer(r) == Serve(r) \/ Mirror(r) \/ Fail(r) \/ FrontDeliver(r)
Follow == Connect \/ Write \/ Read \/ Break

FrontNext ==
  \/ Rebuild \/ Replace \/ ReportCert \/ Poll
  \/ Tick \/ \E r \in Req \cup {Timer} : Answer(r) \/ \E a \in Asks, ro \in BOOLEAN : Click(r, a, ro)
  \/ Follow \/ Issue \/ Stop \/ FrontStart

\* The loop and its tasks go on, requests are answered, the desktop follows,
\* asks for the lists again and again, and an engine that stopped is restarted.
FrontFairness ==
  /\ WF_frontVars(Rebuild) /\ WF_frontVars(Replace) /\ WF_frontVars(ReportCert)
  /\ WF_frontVars(Poll) /\ WF_frontVars(Follow) /\ WF_frontVars(FrontStart)
  /\ WF_frontVars(Tick) /\ \A r \in Req \cup {Timer} : WF_frontVars(Answer(r))

FrontSpec == FrontInit /\ [][FrontNext]_frontVars /\ FrontFairness

------------------------------------------------------------------------------
Reports_ == [disable : BOOLEAN, blocked : SUBSET FrontUser, peers : SUBSET FrontUser, cert : 0..MaxTurn]
\* The variables have their types, a reply carries the report of a command that
\* returns one, and only an engine that runs rebuilds.
FrontTypeOK ==
  /\ policy \in [disable : BOOLEAN, blocked : SUBSET FrontUser] /\ rules \subseteq Port
  /\ cert \in 0..MaxTurn /\ status \in Reports_
  /\ build \subseteq Reports_ /\ pipe \subseteq Reports_ /\ shown \subseteq Reports_
  /\ Cardinality(build) <= 1 /\ Cardinality(pipe) <= 1 /\ Cardinality(shown) <= 1
  /\ known \subseteq Port
  /\ \A r \in DOMAIN req : req[r].carries \subseteq Reports_ /\ req[r].lists \subseteq Port
  /\ status.cert <= cert
  /\ ~up => build = {} /\ ~reporting

\* Nothing that comes in on the read-only endpoint changes the policy or the
\* exposures: what changes them is a request of the full one (Access).
ReadOnlyChangesNothing ==
  [][<<policy, rules>>' # <<policy, rules>> =>
       \E r \in Req : req[r].at = "asked" /\ req'[r].at = "mirror" /\ ~req[r].ro]_frontVars

\* What the control socket never does, at any step.
FrontSafe == []FrontTypeOK /\ ReadOnlyChangesNothing

\* Whatever is overlaid between a capture and the rebuild it leads to, the
\* snapshot ends up with the policy on disk and without the blocked, and comes
\* back to the certificate the task holds each time a rebuild loses it.
StatusIsRight ==
  /\ status.disable = policy.disable /\ status.blocked = policy.blocked
  /\ status.peers = FrontUser \ policy.blocked
StatusSettles == <>[]StatusIsRight /\ []<>(status.cert = cert)

\* A late reply is not the last word: the desktop ends up showing the policy,
\* the peers and the exposures that are there.
ShownIsRight ==
  /\ shown # {} /\ known = rules
  /\ \A s \in shown : s.disable = policy.disable /\ s.peers = FrontUser \ policy.blocked
ShownSettles == <>[]ShownIsRight
=============================================================================
