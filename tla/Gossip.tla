------------------------------- MODULE Gossip -------------------------------
(***************************************************************************)
(* How one engine keeps its peers' attestations fresh: it pulls them from  *)
(* the peers themselves over the tunnel, falls back to a full refresh when *)
(* one is about to lapse, folds delta refreshes into what it holds, and    *)
(* drops a peer whose attestation lapsed (engine/src/daemon.rs, coord.rs,  *)
(* p2p.rs; coordinator/src/api/snapshot.rs apply_delta).  Attestations are *)
(* their remaining lifetime in ticks; the loop makes a pass, and a request *)
(* the coordinator can answer at once is answered, within a tick.          *)
(***************************************************************************)
EXTENDS Integers, FiniteSetsExt

CONSTANTS Peer, Skewed,             \* ... and those whose attestations this build cannot verify
          GossipLife, Hold, FullMargin,   \* ATTESTATION_TTL_SECS, LONGPOLL_HOLD_SECS, COORD_FULL_MARGIN
          MaxFlip                   \* changes of the world

ASSUME GossipAssumption ==
    /\ Skewed \subseteq Peer
    /\ {GossipLife, Hold, FullMargin, MaxFlip} \subseteq Nat
    /\ 0 < FullMargin /\ FullMargin < Hold /\ Hold < GossipLife

VARIABLES left,      \* [Peer -> lifetime of the attestation in last_seeds; 0 when not held]
          mesh,      \* last_seeds, as applied to WireGuard
          own,       \* [Peer -> lifetime of what the peer itself hands out]
          up,        \* peers that answer over the tunnel
          members,   \* peers the coordinator has present and authorized
          coordUp,
          req,       \* the refresh in flight: the held set it carries, whether it completes at once
          news,      \* membership moved on since the version we echo
          mine,      \* lifetime of our own grant
          passed,    \* the loop made its pass
          gossipCalm,      \* ticks since the coordinator was last down
          gone,      \* [Peer -> ticks since it was a member]
          flips
gossipVars == <<left, mesh, own, up, members, coordUp, req, news, mine, passed, gossipCalm, gone, flips>>

NoReq == [on |-> FALSE, held |-> {}, now |-> FALSE, age |-> 0]
Fresh == {GossipLife \div 2, GossipLife}          \* a seed's signature may be a reused one
Less(n) == IF n > 0 THEN n - 1 ELSE 0
More(n, top) == IF n < top THEN n + 1 ELSE n

GossipInit ==
    /\ mesh = Peer \ Skewed /\ members = Peer /\ up = mesh /\ coordUp = TRUE
    /\ \E n \in Fresh : left = [p \in Peer |-> IF p \in mesh THEN n ELSE 0]
    /\ own = [p \in Peer |-> IF p \in mesh THEN GossipLife ELSE 0] /\ mine = GossipLife
    /\ req = NoReq /\ news = FALSE /\ passed = FALSE
    /\ gossipCalm = GossipLife /\ gone = [p \in Peer |-> 0] /\ flips = MaxFlip

(***************************************************************************)
(* A pass of the mesh loop                                                 *)
(***************************************************************************)
Due(p) == p \in mesh /\ left[p] <= Hold
Fresher(p) == own[p] > left[p]
\* verify_pulled: only the peer's own, and strictly fresher than what is held
Pullable == {p \in Peer : Due(p) /\ p \in up /\ Fresher(p)}

GossipKept(m, l) == {p \in m : l[p] > 0}

HeldAlways(m, l) == m
HeldForRefresh(m, l) == IF \E p \in m : l[p] <= FullMargin THEN {} ELSE m
ForcedFull(m, l) == m # {} /\ HeldForRefresh(m, l) = {}
OwnGrantStale == mine <= Hold

GossipPass ==
    /\ ~passed /\ passed' = TRUE
    /\ \E got \in SUBSET Pullable :
         LET l == [p \in Peer |-> IF p \in got THEN own[p] ELSE left[p]]
             m == GossipKept(mesh, l)
             report == OwnGrantStale \/ ForcedFull(m, l)
         IN /\ left' = [p \in Peer |-> IF p \in m THEN l[p] ELSE 0] /\ mesh' = m
            /\ req' = IF req.on /\ ~report THEN req
                      ELSE [on |-> TRUE, held |-> HeldForRefresh(m, l), now |-> report, age |-> 0]
    /\ UNCHANGED <<own, up, members, coordUp, news, mine, gossipCalm, gone, flips>>

(***************************************************************************)
(* The coordinator's answer and its merge                                  *)
(***************************************************************************)
Answerable == req.on /\ coordUp /\ (req.now \/ news \/ req.age >= Hold)
\* apply_delta: what is new to the caller or changed, and what it should drop
Sent(held, changed) == IF held = {} THEN members ELSE (members \ held) \cup changed
\* verified_seeds: a peer that cannot be verified costs that peer only
Admitted(sent) == sent \ Skewed
Removed(held) == held \ members
Merged(held, sent) == IF held = {} THEN sent ELSE (mesh \ Removed(held)) \cup sent

Reply ==
    /\ Answerable
    /\ \E n \in Fresh, changed \in SUBSET (members \cap req.held) :
         LET sent == Admitted(Sent(req.held, changed)) IN
         /\ mesh' = Merged(req.held, sent)
         /\ left' = [p \in Peer |-> IF p \in sent THEN n ELSE IF p \in mesh' THEN left[p] ELSE 0]
    /\ mine' = GossipLife /\ req' = NoReq /\ news' = FALSE /\ passed' = FALSE
    /\ UNCHANGED <<own, up, members, coordUp, gossipCalm, gone, flips>>
Fails ==
    /\ req.on /\ ~coordUp /\ req' = NoReq /\ passed' = FALSE
    /\ UNCHANGED <<left, mesh, own, up, members, coordUp, news, mine, gossipCalm, gone, flips>>

(***************************************************************************)
(* The peers, the coordinator and time                                     *)
(***************************************************************************)
\* a peer's refresh completes: its p2p service hands out the new grant
Renew(p) ==
    /\ coordUp /\ p \in members /\ p \in up /\ own[p] <= Hold /\ own' = [own EXCEPT ![p] = GossipLife]
    /\ UNCHANGED <<left, mesh, up, members, coordUp, req, news, mine, passed, gossipCalm, gone, flips>>

Flip == flips > 0 /\ flips' = flips - 1
\* a local toggle drops the request in flight; the next one waits from the start
GossipToggle ==
    /\ Flip /\ req.on /\ req' = NoReq /\ passed' = FALSE
    /\ UNCHANGED <<left, mesh, own, up, members, coordUp, news, mine, gossipCalm, gone>>
\* revoked, or reaped, and back
Member(p) ==
    /\ Flip /\ coordUp /\ news' = TRUE
    /\ members' = (IF p \in members THEN members \ {p} ELSE members \cup {p})
    /\ gone' = [gone EXCEPT ![p] = 0]
    /\ UNCHANGED <<left, mesh, own, up, coordUp, req, mine, passed, gossipCalm>>
Power(p) ==
    /\ Flip /\ up' = (IF p \in up THEN up \ {p} ELSE up \cup {p})
    /\ UNCHANGED <<left, mesh, own, members, coordUp, req, news, mine, passed, gossipCalm, gone>>
Coordinator ==
    /\ Flip /\ coordUp' = ~coordUp /\ gossipCalm' = 0
    /\ UNCHANGED <<left, mesh, own, up, members, req, news, mine, passed, gone>>

GossipTick ==
    /\ passed /\ ~Answerable
    /\ passed' = FALSE
    /\ left' = [p \in Peer |-> Less(left[p])] /\ own' = [p \in Peer |-> Less(own[p])]
    /\ mine' = Less(mine) /\ req' = [req EXCEPT !.age = More(@, Hold)]
    /\ gossipCalm' = IF coordUp THEN More(gossipCalm, GossipLife) ELSE 0
    /\ gone' = [p \in Peer |-> IF p \in members THEN 0 ELSE More(gone[p], GossipLife + 1)]
    /\ UNCHANGED <<mesh, up, members, coordUp, news, flips>>

GossipNext == \/ GossipPass \/ Reply \/ Fails \/ GossipTick \/ GossipToggle \/ Coordinator
              \/ \E p \in Peer : Member(p)
              \/ \E p \in Peer \ Skewed : Renew(p) \/ Power(p)
GossipSpec == /\ GossipInit /\ [][GossipNext]_gossipVars
              /\ WF_gossipVars(GossipPass) /\ WF_gossipVars(Reply) /\ WF_gossipVars(GossipTick)

(***************************************************************************)
(* Properties                                                              *)
(***************************************************************************)
\* Every variable keeps its type; after a pass of the loop nothing lapsed is held.
GossipTypeOK ==
    /\ left \in [Peer -> 0 .. GossipLife] /\ mesh \subseteq Peer /\ (passed => \A p \in mesh : left[p] > 0)
    /\ own \in [Peer -> 0 .. GossipLife] /\ up \subseteq Peer /\ members \subseteq Peer
    /\ coordUp \in BOOLEAN /\ news \in BOOLEAN /\ passed \in BOOLEAN /\ mine \in 0 .. GossipLife
    /\ req \in [on : BOOLEAN, held : SUBSET Peer, now : BOOLEAN, age : 0 .. Hold]
    /\ gossipCalm \in 0 .. GossipLife /\ gone \in [Peer -> 0 .. GossipLife + 1] /\ flips \in 0 .. MaxFlip

\* A peer that is no longer authorized is out of the mesh within one attestation
\* lifetime, coordinator or no coordinator (daemon.rs: "revocation propagates via
\* expiry even while the coordinator is unreachable").
RevocationLapses == \A p \in mesh : gone[p] <= GossipLife

\* With the coordinator up for a full lifetime, a peer that is a member is never let
\* lapse: a failed pull falls through to a full refresh in time, whatever delta is
\* in flight.
NoLapseInCalm ==
    [][\A p \in mesh \cap members : p \notin mesh' => gossipCalm < GossipLife]_gossipVars

\* With the coordinator up, our own grant is renewed before the peers that pull it
\* from us would refuse it, although a parked request renews nothing.
GrantStaysFresh == mine = 0 => gossipCalm < GossipLife

\* A member dropped in an outage is meshed again once the coordinator is back, though
\* the version we echo says that nothing changed, and whoever else cannot be verified.
ComesBack == \A p \in Peer \ Skewed : <>[](coordUp /\ p \in members) => <>[](p \in mesh)

\* What an engine keeps of its peers' grants and of its own, at every step.
GossipSafe == [](GossipTypeOK /\ RevocationLapses /\ GrantStaysFresh) /\ NoLapseInCalm
=============================================================================
