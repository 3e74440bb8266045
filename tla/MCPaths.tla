------------------------------ MODULE MCPaths ------------------------------
(***************************************************************************)
(* The components that keep two engines reachable, each to itself: they    *)
(* share no state, so a behaviour of this instance is a behaviour of one   *)
(* of them.  `focus` names it, the others rest in an initial state, and    *)
(* the fairness of a component is asked only of the one in focus (weak     *)
(* fairness is enough for everything this instance checks).                *)
(*   ice     : one mishap at either end or between them, and an end that   *)
(*             is not willing;                                             *)
(*   relay   : two relays, one outage, credentials of two holds;           *)
(*   beacon  : a peer that moves between two addresses of the segment and  *)
(*             away from it, at the smallest timers that keep their order; *)
(*   gossip  : two peers and one whose attestations this build cannot      *)
(*             verify, and two changes of the world;                       *)
(*   certs   : two reconciles alive at once, one crash, one outage and one *)
(*             refusal;                                                    *)
(*   tunnels : two peers, two kinds of endpoint, two ends of the engine.   *)
(***************************************************************************)
EXTENDS IcePath, RelayPath, Beacon, Gossip, Certs, Tunnels

MCTunIp == [p \in TunPeer |-> IF p = "p" THEN {1, 2} ELSE {3}]

VARIABLE focus

MCInit ==
  /\ focus \in {"ice", "relay", "beacon", "gossip", "certs", "tunnels"}
  /\ IceInit /\ RelInit /\ BeaconInit /\ GossipInit /\ CertInit /\ TunInit
  /\ focus # "ice" => open /\ willing["b"]
  /\ focus # "beacon" => at = None
  /\ focus # "gossip" => \A p \in mesh : left[p] = GossipLife
  /\ focus # "tunnels" => ~kernel

MCNext ==
  \/ focus = "ice" /\ IceNext
     /\ UNCHANGED <<relVars, beaconVars, gossipVars, certVars, tunVars, focus>>
  \/ focus = "relay" /\ RelNext
     /\ UNCHANGED <<iceVars, beaconVars, gossipVars, certVars, tunVars, focus>>
  \/ focus = "beacon" /\ BeaconNext
     /\ UNCHANGED <<iceVars, relVars, gossipVars, certVars, tunVars, focus>>
  \/ focus = "gossip" /\ GossipNext
     /\ UNCHANGED <<iceVars, relVars, beaconVars, certVars, tunVars, focus>>
  \/ focus = "certs" /\ CertNext
     /\ UNCHANGED <<iceVars, relVars, beaconVars, gossipVars, tunVars, focus>>
  \/ focus = "tunnels" /\ TunNext
     /\ UNCHANGED <<iceVars, relVars, beaconVars, gossipVars, certVars, focus>>

\* The fairness of each specification, for the component in focus.
On(name) == focus = name
MCFairness ==
  /\ \A p \in End :
       /\ WF_iceVars(On("ice") /\ Recheck(p)) /\ WF_iceVars(On("ice") /\ Refreshed(p))
       /\ WF_iceVars(On("ice") /\ Serve(p)) /\ WF_iceVars(On("ice") /\ Tasks(p))
       /\ WF_iceVars(On("ice") /\ Cool(p)) /\ WF_iceVars(On("ice") /\ Path(p))
       /\ WF_relVars(On("relay") /\ RelRecheck(p)) /\ WF_relVars(On("relay") /\ RelRefreshed(p))
       /\ WF_relVars(On("relay") /\ RelServe(p)) /\ WF_relVars(On("relay") /\ RelPath(p))
  /\ \A r \in Server : WF_relVars(On("relay") /\ RelReap(r))
  /\ WF_beaconVars(On("beacon") /\ Loop) /\ WF_beaconVars(On("beacon") /\ BeaconTick)
  /\ WF_gossipVars(On("gossip") /\ GossipPass) /\ WF_gossipVars(On("gossip") /\ Reply)
  /\ WF_gossipVars(On("gossip") /\ GossipTick)
  /\ WF_certVars(On("certs") /\ \E t \in Task : Spawn(t))
  /\ \A t \in Task : WF_certVars(On("certs") /\ CertStep(t))
  /\ WF_certVars(On("certs") /\ Return) /\ WF_certVars(On("certs") /\ CertTick)
  /\ WF_tunVars(On("tunnels") /\ TunStep)

\* A component at rest makes no progress: what must come to pass is asked of the
\* one in focus.
\* IcePath!FirstAgentsMeet: two stuck ends with an open path meet on their first agents.
IceAgentsMeet == <>[](On("ice") => MeetsIfCalm)
\* RelayPath!EndsMeet: two stuck ends meet through a relay, however the exchanges interleave.
RelayEndsMeet == <>[](On("relay") => MeetsIfServed)
\* Certs!CertFollows: the certificate comes to cover the services that want one.
CertsFollow == <>[](On("certs") => Covered)
\* Tunnels!ComesUpAgain: the engine is up again, with the peers of its latest seeds.
TunnelsComeUp == <>[](On("tunnels") => IsUp)

\* What must come to pass, for the component in focus: a failed agent is left and stuck
\* ends meet (IcePath, RelayPath), a peer that left the segment is off it (Beacon), a member
\* comes back after an outage (Gossip), certificates and tunnels come up (Certs, Tunnels).
PathsSettle ==
  /\ FailedIsLeft /\ IceAgentsMeet /\ RelayEndsMeet
  /\ LeavesTheSegment /\ ComesBack
  /\ CertsFollow /\ TunnelsComeUp

MCVars == <<iceVars, relVars, beaconVars, gossipVars, certVars, tunVars, focus>>
MCSpec == MCInit /\ [][MCNext]_MCVars /\ MCFairness
=============================================================================
