------------------------------ MODULE IcePath ------------------------------
(***************************************************************************)
(* Side-socket ICE between two engines whose hole punch cannot complete    *)
(* (engine/src/ice.rs, and the mesh loop of daemon.rs that drives it): an  *)
(* engine that finds the peer stuck starts an agent with fresh             *)
(* credentials, reports them, and gets the peer's from the coordinator's   *)
(* exchange table (coordinator/src/api/nat.rs); the agent settles on the   *)
(* first credentials it sees, and once connected the peer's WireGuard      *)
(* endpoint is the loopback shim.  Copies of an end's credentials are told *)
(* apart by whether they are still those of its last agent.                *)
(***************************************************************************)
EXTENDS Naturals, TwoEnds

CONSTANT MaxMishap     \* bound on what the environment does

ASSUME MishapBound == MaxMishap \in Nat

\* where an end's offer travels: its last report, its held request, the table,
\* and at the other end the answer, the seeds and what the agent settled on
Place == {"sent", "held", "offered", "answer", "seed", "lock"}

VARIABLES agent,     \* [End -> IceState and how far its connect task is]
          copy,      \* [End -> [Place -> Cred]]: the copies of this end's credentials
          back,      \* [End -> restart backoff after a failure: "none", "cooling", "over"]
          want,      \* [End -> the peer is in this iteration's stuck set]
          conn,      \* [End -> PeerConn: a fresh handshake; the attempt outlived its grace]
          route,     \* [End -> the peer's WireGuard endpoint is the ICE shim]
          poll,      \* [End -> the refresh in flight: "held" or "answered"]
          open,      \* some candidate pair carries traffic
          willing,   \* [End -> userspace backend with ice = true]
          mishaps,   \* environment steps left
          calm       \* no restart, no pruning and no change of the path so far (history)
iceVars == <<agent, copy, back, want, conn, route, poll, open, willing, mishaps, calm>>

NoAgent == [st |-> "none", task |-> "done"]
Started == [st |-> "negotiating", task |-> "running"]

IceInit ==
    /\ agent = [p \in End |-> NoAgent]
    /\ copy = [p \in End |-> [x \in Place |-> "none"]]
    /\ back = [p \in End |-> "none"] /\ want = [p \in End |-> FALSE]
    /\ conn = [p \in End |-> [up |-> FALSE, aged |-> FALSE]]
    /\ route = [p \in End |-> FALSE] /\ poll = [p \in End |-> "held"]
    /\ open \in BOOLEAN
    /\ willing \in {[p \in End |-> TRUE], [p \in End |-> p = "a"]}
    /\ mishaps = MaxMishap /\ calm = TRUE

Mishap == mishaps > 0 /\ mishaps' = mishaps - 1
Icing(p) == agent[p].st = "connected"
Session(p) == agent[p].st # "none"

(***************************************************************************)
(* The manager: one agent per stuck peer                                   *)
(***************************************************************************)
\* a peer stays served while it is stuck or a session for it exists
Kept(p) == want[p] \/ Session(p)
\* a dead session is dropped, and only a spent backoff starts another
Dead(p) == agent[p].st = "failed"
MayStart(p) == ~Session(p) /\ back[p] # "cooling"

\* new credentials: every copy anywhere is now of an earlier agent
Renewed(p, c) == [c EXCEPT ![p] = [x \in Place |-> Older(c[p][x])], ![Other(p)].lock = "none"]

\* sync_ice, its ensure and its retain, on the copies c the caller has brought up
\* to date: the session, the backoff, and the endpoint apply_state then routes by
SyncIce(p, c) ==
    CASE ~willing[p] \/ ~Kept(p)
           -> [agent |-> agent[p], back |-> "none", route |-> FALSE, copy |-> c]
      [] willing[p] /\ Kept(p) /\ Dead(p)
           -> [agent |-> NoAgent, back |-> "cooling", route |-> FALSE, copy |-> c]
      [] willing[p] /\ Kept(p) /\ ~Dead(p) /\ MayStart(p)
           -> [agent |-> Started, back |-> back[p], route |-> FALSE, copy |-> Renewed(p, c)]
      [] OTHER
           -> [agent |-> agent[p], back |-> IF Icing(p) THEN "none" ELSE back[p],
               route |-> Icing(p), copy |-> c]

(***************************************************************************)
(* The mesh loop                                                           *)
(***************************************************************************)
Offer(ag) == IF ag.st = "none" THEN "none" ELSE "cur"
Wanted(p, ag) == ag.st = "connected" \/ (~conn[p].up /\ conn[p].aged)

\* an arm of the select ends in y, and the loop comes round: the peers' health is
\* read, and the request in flight stands unless there is news or it is gone
ComesRound(p, y, gone) ==
    /\ agent' = [agent EXCEPT ![p] = y.agent] /\ back' = [back EXCEPT ![p] = y.back]
    /\ route' = [route EXCEPT ![p] = y.route] /\ want' = [want EXCEPT ![p] = Wanted(p, y.agent)]
    /\ IF gone \/ Offer(y.agent) # y.copy[p].sent
       THEN /\ poll' = [poll EXCEPT ![p] = "held"]
            /\ copy' = [y.copy EXCEPT ![p].held = Offer(y.agent), ![Other(p)].answer = "none"]
       ELSE poll' = poll /\ copy' = y.copy
    /\ UNCHANGED <<conn, open, willing>>

\* the two-second recheck: no traffic with the coordinator; a request that carries
\* news is taken to be answered within it
Recheck(p) ==
    /\ Offer(agent[p]) = copy[p].sent /\ ComesRound(p, SyncIce(p, copy), FALSE)
    /\ UNCHANGED <<mishaps, calm>>
\* a local toggle re-issues the request; the failure of one waits out a backoff
Toggle(p) == Mishap /\ ComesRound(p, SyncIce(p, copy), TRUE) /\ UNCHANGED calm
RefreshFails(p) ==
    /\ Mishap
    /\ ComesRound(p, [agent |-> agent[p], back |-> back[p], route |-> route[p], copy |-> copy], TRUE)
    /\ UNCHANGED calm
Refreshed(p) ==
    /\ poll[p] = "answered"
    /\ ComesRound(p, SyncIce(p, [copy EXCEPT ![p].sent = Offer(agent[p]),
                                             ![Other(p)].seed = copy[Other(p)].answer]), TRUE)
    /\ UNCHANGED <<mishaps, calm>>

(***************************************************************************)
(* The coordinator only exchanges                                          *)
(***************************************************************************)
Recorded(p) == IF copy[p].held = "none" THEN copy[p].offered ELSE copy[p].held
SeedIce(p) == copy[Other(p)].offered
Serve(p) ==
    /\ poll[p] = "held" /\ poll' = [poll EXCEPT ![p] = "answered"]
    /\ copy' = [copy EXCEPT ![p].offered = Recorded(p), ![p].held = "none",
                            ![Other(p)].answer = SeedIce(p)]
    /\ UNCHANGED <<agent, back, want, conn, route, open, willing, mishaps, calm>>
\* either end absent for the presence lifetime, or the coordinator restarted
Prune ==
    /\ Mishap /\ calm' = FALSE /\ copy' = [p \in End |-> [copy[p] EXCEPT !.offered = "none"]]
    /\ UNCHANGED <<agent, back, want, conn, route, poll, open, willing>>

(***************************************************************************)
(* The agent's tasks and callbacks                                         *)
(***************************************************************************)
Lock(p) == copy[Other(p)].lock
Live(p) == agent[p].st \in {"negotiating", "connected"}
Works == open /\ \A p \in End : Live(p) /\ Lock(p) = "cur"
\* not merely waiting for the other end to settle
Hopeless == ~open \/ \E p \in End : Lock(p) = "old" \/ ~Live(p)
Put(p, st, task) == agent' = [agent EXCEPT ![p] = [st |-> st, task |-> task]]
Unlooped == UNCHANGED <<back, want, conn, route, poll, open, willing, mishaps, calm>>

\* the first credentials the watch shows are the ones dialed with
Settle(p) ==
    /\ agent[p] = Started /\ Lock(p) = "none" /\ copy[Other(p)].seed # "none"
    /\ copy' = [copy EXCEPT ![Other(p)].lock = copy[Other(p)].seed]
    /\ UNCHANGED agent /\ Unlooped
Dialed(p) ==
    /\ agent[p] = Started /\ Works /\ Put(p, "negotiating", "dialed")
    /\ UNCHANGED copy /\ Unlooped
\* Failed is terminal: a connect that comes after it does not overwrite it
PublishedBlind(p) == "connected"
Published(p) == IF agent[p].st = "failed" THEN "failed" ELSE "connected"
Publish(p) ==
    /\ agent[p].task = "dialed" /\ Put(p, Published(p), "done")
    /\ UNCHANGED copy /\ Unlooped
\* no usable pair, or the pair died: the state callback, or the connect task's
\* own timeout; an agent whose peer never offers waits out its own timer
CheckFails(p) ==
    /\ Live(p) /\ Lock(p) # "none" /\ Hopeless
    /\ Put(p, "failed", IF agent[p].task = "dialed" THEN "dialed" ELSE "done")
    /\ UNCHANGED copy /\ Unlooped
OfferTimeout(p) ==
    /\ agent[p].st = "negotiating" /\ Lock(p) = "none" /\ ~willing[Other(p)]
    /\ Put(p, "failed", "done")
    /\ UNCHANGED copy /\ Unlooped
Cool(p) ==
    /\ back[p] = "cooling" /\ back' = [back EXCEPT ![p] = "over"]
    /\ UNCHANGED <<agent, copy, want, conn, route, poll, open, willing, mishaps, calm>>

(***************************************************************************)
(* WireGuard and the world                                                 *)
(***************************************************************************)
Carries == Works /\ \A p \in End : route[p] /\ Icing(p)
Conn(p, up, aged) ==
    /\ conn' = [conn EXCEPT ![p] = [up |-> up, aged |-> aged]]
    /\ UNCHANGED <<agent, copy, back, want, route, poll, open, willing, mishaps, calm>>
Handshake(p) == Carries /\ ~conn[p].up /\ Conn(p, TRUE, FALSE)
Lapse(p) == ~Carries /\ conn[p].up /\ Conn(p, FALSE, FALSE)
Grace(p) == ~conn[p].up /\ ~conn[p].aged /\ Conn(p, FALSE, TRUE)

Shift ==
    /\ Mishap /\ open' = ~open /\ calm' = FALSE
    /\ UNCHANGED <<agent, copy, back, want, conn, route, poll, willing>>
\* the engine's process restarts: what it held of itself and of the peer is gone
Restart(p) ==
    /\ Mishap /\ calm' = FALSE
    /\ agent' = [agent EXCEPT ![p] = NoAgent] /\ back' = [back EXCEPT ![p] = "none"]
    /\ want' = [want EXCEPT ![p] = FALSE] /\ route' = [route EXCEPT ![p] = FALSE]
    /\ conn' = [conn EXCEPT ![p] = [up |-> FALSE, aged |-> FALSE]]
    /\ poll' = [poll EXCEPT ![p] = "held"]
    /\ copy' = [copy EXCEPT ![p] = [x \in Place |-> IF x \in {"sent", "held"} THEN "none"
                                                     ELSE Older(copy[p][x])],
                            ![Other(p)] = [x \in Place |-> IF x \in {"answer", "seed", "lock"}
                                                     THEN "none" ELSE copy[Other(p)][x]]]
    /\ UNCHANGED <<open, willing>>

Tasks(p) == Settle(p) \/ Dialed(p) \/ Publish(p) \/ CheckFails(p) \/ OfferTimeout(p)
Path(p) == Handshake(p) \/ Lapse(p) \/ Grace(p)
IceNext == \/ \E p \in End : Recheck(p) \/ Refreshed(p) \/ Toggle(p) \/ RefreshFails(p) \/ Serve(p)
           \/ \E p \in End : Tasks(p) \/ Cool(p) \/ Path(p) \/ Restart(p)
           \/ Prune \/ Shift
\* the loop never stops and its select is fair to a finished request; timers fire
IceFair == \A p \in End :
    /\ WF_iceVars(Recheck(p)) /\ SF_iceVars(Refreshed(p)) /\ WF_iceVars(Serve(p)) /\ WF_iceVars(Tasks(p))
    /\ WF_iceVars(Cool(p)) /\ WF_iceVars(Path(p))
IceSpec == IceInit /\ [][IceNext]_iceVars /\ IceFair

(***************************************************************************)
(* Properties                                                              *)
(***************************************************************************)
\* Every variable keeps its type, no agent runs against a backoff, and
\* no endpoint is the shim of an agent that is gone.
IceTypeOK ==
    /\ agent \in [End -> [st : {"none", "negotiating", "connected", "failed"},
                          task : {"running", "dialed", "done"}]]
    /\ copy \in [End -> [Place -> Cred]] /\ back \in [End -> {"none", "cooling", "over"}]
    /\ want \in [End -> BOOLEAN] /\ conn \in [End -> [up : BOOLEAN, aged : BOOLEAN]]
    /\ route \in [End -> BOOLEAN] /\ poll \in [End -> {"held", "answered"}]
    /\ open \in BOOLEAN /\ willing \in [End -> BOOLEAN]
    /\ mishaps \in 0 .. MaxMishap /\ calm \in BOOLEAN
    /\ \A p \in End : (back[p] = "cooling" => ~Session(p)) /\ (route[p] => Session(p))

\* A failed agent never comes back as connected, whichever of the callback and
\* the connect task writes last (ice.rs IceState: "Failed win by construction").
FailedIsFinal == [][\A p \in End : agent[p].st = "failed" => agent'[p].st # "connected"]_iceVars

\* What an agent never does, at any step.
IceSafe == []IceTypeOK /\ FailedIsFinal

\* An agent that failed is dropped by a later pass of the loop (ice.rs ensure:
\* never "holding a corpse forever").
FailedIsLeft == \A p \in End : []<>(agent[p].st # "failed")

\* Two stuck ends with an open path and no restart in between reach each other
\* by ICE on their first agents and stay so: neither the idle long-poll, nor a
\* stale stuck set, nor the order the offers come in keeps them apart.
Both == \A p \in End : conn[p].up
MeetsIfCalm == open /\ calm /\ (\A p \in End : willing[p]) => Both
FirstAgentsMeet == <>[]MeetsIfCalm

\* nat.rs record_peer_reports: an "ICE restart's new ufrag/pwd" reaches the peer
\* "so it picks up the candidates ... and runs connectivity checks": ends whose
\* path opens again, both willing, do meet again.
RestartsMeet == <>[](open /\ \A p \in End : willing[p]) => []<>Both
=============================================================================
