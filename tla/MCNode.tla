------------------------------ MODULE MCNode ------------------------------
(***************************************************************************)
(* The components around an engine and its owner, each to itself: they     *)
(* share no state, so a behaviour of this instance is a behaviour of one   *)
(* of them.  `focus` names it, the others rest in an initial state, and    *)
(* the fairness of a component is asked only of the one in focus, as the   *)
(* specification of that component has it.                                 *)
(*   membership : two builds of one user, two changes of a role, one event *)
(*                the gateway misses and one failure;                      *)
(*   admin      : one network, one device, two overlapping fetches, or one *)
(*                lost reply or restart;                                   *)
(*   host       : two keys, one stop, logout, update and kill, two logins; *)
(*   update     : three releases, two orders to apply and one cut;         *)
(*   frontend   : a desktop, a command line and the read-only endpoint on  *)
(*                one peer and one port, and a certificate or a stop;      *)
(*   gui        : three launches of two tries each, one crash;             *)
(*   services   : three devices of two users, one of which watches;        *)
(*   proxy      : one service, one peer, two mesh addresses and two        *)
(*                certificates, two crashes.                               *)
(***************************************************************************)
EXTENDS Membership, AdminFeed, HostLifecycle, SelfUpdate, Frontend, SingleGui, MeshServices,
        Proxy, TLC

MCAdminOwner == [d \in ADev |-> "u"]
MCOwner == 1 :> "alice" @@ 2 :> "alice" @@ 3 :> "bob"
MCDeviceLabel == 1 :> "wiki" @@ 2 :> "box" @@ 3 :> "lap"
Announces(name, num, whom) == [label |-> name, port |-> num, to |-> whom]
MCOffer ==
  1 :> {{}, {Announces("mc", 1, "own")}} @@
  2 :> {{}, {Announces("mc", 1, "all"), Announces("wiki", 2, "all")}} @@
  3 :> {{}, {Announces("mc", 1, "all"), Announces("mc", 2, "all"), Announces("b_d", 3, "all")}}

VARIABLE focus

On(name) == focus = name
MCInit ==
  /\ focus \in {"membership", "admin", "host", "update", "frontend", "gui", "services", "proxy"}
  /\ MemberInit /\ AdminInit /\ HostInit /\ UpdInit /\ FrontInit /\ SingleInit /\ SvcInit
  /\ ProxyInit
  /\ ~On("membership") => standing = [g \in Guild |-> "none"]
  /\ ~On("update") => gui = 0

guiAll == <<singleVars, launchDue>>
MCNext ==
  \/ /\ On("membership") /\ MemberNext
     /\ UNCHANGED <<adminVars, hostVars, updVars, frontVars, guiAll, svcVars, proxyVars, focus>>
  \/ /\ On("admin") /\ AdminNext
     /\ UNCHANGED <<memberVars, hostVars, updVars, frontVars, guiAll, svcVars, proxyVars, focus>>
  \/ /\ On("host") /\ HostNext
     /\ UNCHANGED <<memberVars, adminVars, updVars, frontVars, guiAll, svcVars, proxyVars, focus>>
  \/ /\ On("update") /\ UpdNext
     /\ UNCHANGED <<memberVars, adminVars, hostVars, frontVars, guiAll, svcVars, proxyVars, focus>>
  \/ /\ On("frontend") /\ FrontNext
     /\ UNCHANGED <<memberVars, adminVars, hostVars, updVars, guiAll, svcVars, proxyVars, focus>>
  \/ /\ On("gui") /\ SingleNext
     /\ UNCHANGED <<memberVars, adminVars, hostVars, updVars, frontVars, svcVars, proxyVars, focus>>
  \/ /\ On("services") /\ SvcNext
     /\ UNCHANGED <<memberVars, adminVars, hostVars, updVars, frontVars, guiAll, proxyVars, focus>>
  \/ /\ On("proxy") /\ ProxyNext
     /\ UNCHANGED <<memberVars, adminVars, hostVars, updVars, frontVars, guiAll, svcVars, focus>>

\* The fairness of each specification, for the component in focus.
MCFairness ==
  /\ WF_memberVars(On("membership") /\ Deliver) /\ WF_memberVars(On("membership") /\ ExpireMemo)
  /\ \A g \in Guild : WF_memberVars(On("membership") /\ Expire(g))
  /\ \A b \in Build : /\ WF_memberVars(On("membership") /\ Begin(b))
                      /\ WF_memberVars(On("membership") /\ BuildStep(b))
  /\ \A d \in ADev : WF_adminVars(On("admin") /\ Renew(d))
  /\ WF_adminVars(On("admin") /\ ReapNetworks) /\ WF_adminVars(On("admin") /\ ReapOwn)
  /\ WF_adminVars(On("admin") /\ Announce) /\ WF_adminVars(On("admin") /\ StatsStep)
  /\ WF_adminVars(On("admin") /\ Fetched) /\ WF_adminVars(On("admin") /\ Drawn)
  /\ WF_hostVars(On("host") /\ Steps) /\ WF_hostVars(On("host") /\ KillLate)
  /\ WF_updVars(On("update") /\ Restart) /\ WF_updVars(On("update") /\ Boot)
  /\ \A t \in UpdTask : WF_updVars(On("update") /\ Task(t))
  /\ WF_frontVars(On("frontend") /\ Rebuild) /\ WF_frontVars(On("frontend") /\ Replace)
  /\ WF_frontVars(On("frontend") /\ ReportCert) /\ WF_frontVars(On("frontend") /\ Poll)
  /\ WF_frontVars(On("frontend") /\ Follow) /\ WF_frontVars(On("frontend") /\ FrontStart)
  /\ WF_frontVars(On("frontend") /\ Tick)
  /\ \A r \in Req \cup {Timer} : WF_frontVars(On("frontend") /\ Answer(r))
  /\ \A p \in Gui :
       /\ WF_singleVars(On("gui") /\ Starts(p)) /\ WF_singleVars(On("gui") /\ Activate(p))
       /\ WF_singleVars(On("gui") /\ Exit(p)) /\ WF_singleVars(On("gui") /\ PollMesh(p))
       /\ WF_singleVars(On("gui") /\ Repaint(p)) /\ WF_singleVars(On("gui") /\ Send(p))
  /\ \A o \in Obs :
       /\ WF_svcVars(On("services") /\ BeginPass(o)) /\ WF_svcVars(On("services") /\ EndPass(o))
       /\ SF_svcVars(On("services") /\ Merge(o))
       /\ \A d \in Dev : /\ WF_svcVars(On("services") /\ (Pull(o, d) \/ Silence(o, d)))
                         /\ WF_svcVars(On("services") /\ Ages(o, d))
  /\ WF_proxyVars(On("proxy") /\ SyncStart) /\ WF_proxyVars(On("proxy") /\ SyncStop)
  /\ WF_proxyVars(On("proxy") /\ ProxyGone) /\ WF_proxyVars(On("proxy") /\ ProxyFollow)
  /\ WF_proxyVars(On("proxy") /\ ProxyRebuild) /\ WF_proxyVars(On("proxy") /\ Own)
  /\ WF_proxyVars(On("proxy") /\ EngineStarts)

\* A component at rest makes no progress: what must come to pass is asked of the
\* one in focus.
\* AdminFeed!PageSettles: an open tab comes to show the statistics there are.
AdminPageSettles == <>[](On("admin") => PageIsRight)
\* AdminFeed!GraphSettles: and the graph there is.
AdminGraphSettles == <>[](On("admin") => GraphIsRight)
\* Frontend!StatusSettles: the snapshot comes to show the policy and the certificate.
FrontStatusSettles ==
  <>[](On("frontend") => StatusIsRight) /\ []<>(On("frontend") => status.cert = cert)
\* Frontend!ShownSettles: the desktop comes to show the policy, the peers and the exposures.
FrontShownSettles == <>[](On("frontend") => ShownIsRight)
\* MeshServices!NamesSettle: every observer comes to resolve a name to its rightful device.
SvcNamesSettle == <>[](On("services") => NamesAreRight)

\* The operator's page is well formed, and comes to show what there is (AdminFeed).
AdminHolds == []AdminTypeOK /\ AdminPageSettles /\ AdminGraphSettles

\* A stop ends with a clean host (HostLifecycle) and an update with the new release running
\* (SelfUpdate).
EngineSettles == StopEnds /\ InstalledRuns

\* The frontends come to show what there is (Frontend, SingleGui), every observer to resolve
\* each name to its device (MeshServices), the proxy to serve what there is (Proxy).
FrontsSettle ==
  /\ FrontStatusSettles /\ FrontShownSettles /\ LaunchShows /\ TrayTracks
  /\ SvcNamesSettle /\ ServesAtLast

MCVars == <<memberVars, adminVars, hostVars, updVars, frontVars, guiAll, svcVars, proxyVars, focus>>
MCSpec == MCInit /\ [][MCNext]_MCVars /\ MCFairness
=============================================================================
