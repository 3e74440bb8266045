----------------------------- MODULE AdminFeed -----------------------------
(***************************************************************************)
(* The operator's dashboard (coordinator/src/api/admin.rs, admin.html): a  *)
(* tab long-polls the statistics with the version it last rendered, and    *)
(* refetches the graph of networks and users when that version moves.      *)
(* Both are assembled from the registry (commands.rs, store.rs), presence  *)
(* and the global version, each read at its own moment, while devices come *)
(* and go and an administrator adds and removes networks.  A change and    *)
(* the bump that announces it are two steps.  The process may restart: the *)
(* registry survives, presence and the version start over.                 *)
(***************************************************************************)
EXTENDS Naturals, FiniteSets

CONSTANTS ANet, ADev, AOwner,      \* [ADev -> users]
          MaxMoves, MaxAdmin, MaxFault,
          Overlap    \* bounds; the last on fetches of the graph in flight and faults, together

VARIABLES registry,   \* rows of the networks table
          online,     \* presence: <<network, device>>
          solo,       \* the own-device map
          alive,      \* devices that still refresh
          reaping,    \* the reaper is between its two maps
          owed,       \* changes whose bump has not run
          global,     \* Versions.global
          poll,       \* the tab's statistics loop
          page, loaded, graph, draws, spent
adminVars == <<registry, online, solo, alive, reaping, owed, global,
               poll, page, loaded, graph, draws, spent>>
feedVars == <<poll, page, loaded, graph, draws>>
worldVars == <<registry, online, solo, alive, reaping, owed, global>>

NoPage == [listed |-> {}, devices |-> 0, off |-> 0]
NoGraph == {}
NoVersion == {}
Quiet == [at |-> "idle", since |-> NoVersion, nets |-> {}, seen |-> NoPage, ver |-> 0]

AdminInit ==
    /\ registry = ANet /\ online = {} /\ solo = {} /\ alive = {} /\ reaping = FALSE
    /\ owed = 0 /\ global = 0
    /\ poll = Quiet
    /\ page = NoPage /\ loaded = NoVersion /\ graph = NoGraph /\ draws = {}
    /\ spent = [move |-> 0, admin |-> 0, lost |-> 0, reboot |-> 0]

AdminSpend(what, bound) == spent[what] < bound /\ spent' = [spent EXCEPT ![what] = @ + 1]
Fault(what) == spent.lost + spent.reboot < MaxFault /\ spent' = [spent EXCEPT ![what] = @ + 1]

(***************************************************************************)
(* What the dashboard shows                                                *)
(***************************************************************************)
\* Presence::stats: distinct devices of both maps, and those on no network
OnNetwork == {d \in ADev : \E n \in ANet : <<n, d>> \in online}
Live(n) == {d \in ADev : <<n, d>> \in online}
Listed(nets) == {<<n, Cardinality(Live(n)), Cardinality({AOwner[d] : d \in Live(n)})>> :
                   n \in {m \in nets : Live(m) # {}}}
Counted(nets) == [listed |-> Listed(nets), devices |-> Cardinality(OnNetwork \cup solo),
                  off |-> Cardinality(solo \ OnNetwork)]
\* Presence::membership: one edge for each user of a network
Edges == {<<e[1], AOwner[e[2]]>> : e \in online}

(***************************************************************************)
(* The registry and presence                                               *)
(***************************************************************************)
Upsert(n) == /\ AdminSpend("admin", MaxAdmin)
             /\ registry' = registry \cup {n} /\ owed' = owed + 1
             /\ UNCHANGED <<online, solo, alive, reaping, global, feedVars>>
Unregister(n) == /\ AdminSpend("admin", MaxAdmin)
                 /\ registry' = registry \ {n} /\ owed' = owed + 1
                 /\ UNCHANGED <<online, solo, alive, reaping, global, feedVars>>

\* a request of device d records it in these networks, and as its owner's
Records(d, nets, own) ==
    LET rows == {e \in online : e[2] # d} \cup {<<n, d>> : n \in nets}
        mine == IF own THEN solo \cup {d} ELSE solo \ {d}
    IN  /\ online' = rows /\ solo' = mine
        /\ owed' = IF rows # online \/ mine # solo THEN owed + 1 ELSE owed
        /\ alive' = alive \cup {d}
        /\ UNCHANGED <<registry, reaping, global, feedVars>>
Arrive(d) == /\ AdminSpend("move", MaxMoves)
             /\ \E nets \in SUBSET registry, own \in BOOLEAN : Records(d, nets, own)
\* a wake or a renewal rebuilds: dropped networks are left
Renew(d) == /\ d \in alive /\ \E n \in ANet \ registry : <<n, d>> \in online
            /\ Records(d, {n \in registry : <<n, d>> \in online}, d \in solo)
            /\ UNCHANGED spent
Vanish(d) == /\ d \in alive /\ alive' = alive \ {d}
             /\ UNCHANGED <<registry, online, solo, reaping, owed, global, feedVars, spent>>

\* Presence::reap: the network map, then the own-device map; then the bump
ReapNetworks == /\ ~reaping /\ \/ \E e \in online : e[2] \notin alive
                               \/ solo \ alive # {}
                /\ online' = {e \in online : e[2] \in alive} /\ reaping' = TRUE
                /\ UNCHANGED <<registry, solo, alive, owed, global, feedVars, spent>>
ReapOwn == /\ reaping /\ solo' = solo \cap alive /\ reaping' = FALSE /\ owed' = owed + 1
           /\ UNCHANGED <<registry, online, alive, global, feedVars, spent>>

Announce == /\ owed > 0 /\ owed' = owed - 1 /\ global' = global + 1
            /\ UNCHANGED <<registry, online, solo, alive, reaping, feedVars, spent>>

(***************************************************************************)
(* GET /admin/stats                                                        *)
(***************************************************************************)
ParksOn(since) == since = {global}
StatsAdmit == /\ poll.at = "idle" /\ Cardinality(draws) + spent.lost + spent.reboot < Overlap
              /\ poll' = [poll EXCEPT !.at = IF ParksOn(poll.since) THEN "held" ELSE "nets"]
              /\ UNCHANGED <<worldVars, page, loaded, graph, draws, spent>>

\* wait_for_change_until: the level moved, or the heartbeat elapsed
HeartbeatNever == FALSE
Heartbeat == TRUE
StatsWake == /\ poll.at = "held" /\ ({global} # poll.since \/ Heartbeat)
                /\ poll' = [poll EXCEPT !.at = "nets"]
                /\ UNCHANGED <<worldVars, page, loaded, graph, draws, spent>>

\* gather_stats: registry, presence, (guild names,) and the version last
StatsNets == /\ poll.at = "nets"
                /\ poll' = [poll EXCEPT !.at = "presence", !.nets = registry]
                /\ UNCHANGED <<worldVars, page, loaded, graph, draws, spent>>
StatsPresence == /\ poll.at = "presence"
                    /\ poll' = [poll EXCEPT !.at = "version", !.nets = {}, !.seen = Counted(poll.nets)]
                    /\ UNCHANGED <<worldVars, page, loaded, graph, draws, spent>>
StatsVersion == /\ poll.at = "version"
                   /\ poll' = [poll EXCEPT !.at = "reply", !.ver = global]
                   /\ UNCHANGED <<worldVars, page, loaded, graph, draws, spent>>

\* the page renders, and redraws the graph unless it drew this version
\* only a fetch that succeeds counts as drawn
AdminMarked(v) == loaded
Stale(v) == loaded # {v}
StatsReply ==
    /\ poll.at = "reply"
    /\ poll' = [Quiet EXCEPT !.since = {poll.ver}]
    /\ page' = poll.seen
    /\ draws' = IF Stale(poll.ver)
                THEN draws \cup {[for |-> poll.ver, at |-> "ask", got |-> NoGraph]}
                ELSE draws
    /\ loaded' = AdminMarked(poll.ver)
    /\ UNCHANGED <<worldVars, graph, spent>>
StatsLost == /\ poll.at # "idle" /\ Fault("lost")
                /\ poll' = [Quiet EXCEPT !.since = poll.since]
                /\ UNCHANGED <<worldVars, page, loaded, graph, draws>>

(***************************************************************************)
(* GET /admin/graph                                                        *)
(***************************************************************************)
GraphRead(f) == /\ f.at = "ask"
                /\ draws' = (draws \ {f}) \cup {[f EXCEPT !.at = "reply", !.got = Edges]}
                /\ UNCHANGED <<worldVars, poll, page, loaded, graph, spent>>
GraphReply(f) == /\ f.at = "reply"
                 /\ draws' = draws \ {f}
                 /\ loaded' = {f.for} /\ graph' = f.got
                 /\ UNCHANGED <<worldVars, poll, page, spent>>
GraphLost(f) == /\ Fault("lost") /\ draws' = draws \ {f}
                /\ UNCHANGED <<worldVars, poll, page, loaded, graph>>

\* the coordinator restarts; a failed fetch keeps the version
Reload == /\ Fault("reboot")
          /\ online' = {} /\ solo' = {} /\ reaping' = FALSE /\ owed' = 0 /\ global' = 0
          /\ poll' = [Quiet EXCEPT !.since = poll.since]
          /\ draws' = {}
          /\ UNCHANGED <<registry, alive, page, loaded, graph>>

StatsStep == StatsAdmit \/ StatsWake \/ StatsNets
             \/ StatsPresence \/ StatsVersion \/ StatsReply
Fetched == \E f \in draws : GraphRead(f)
Drawn == \E f \in draws : GraphReply(f)
AdminNext ==
    \/ \E n \in ANet : Upsert(n) \/ Unregister(n)
    \/ \E d \in ADev : Arrive(d) \/ Renew(d) \/ Vanish(d)
    \/ ReapNetworks \/ ReapOwn \/ Announce
    \/ StatsStep \/ StatsLost
    \/ Fetched \/ Drawn \/ \E f \in draws : GraphLost(f)
    \/ Reload

\* handlers run on, devices renew, the reaper ticks, the page's loop is a loop
AdminFairness ==
    /\ \A d \in ADev : WF_adminVars(Renew(d))
    /\ WF_adminVars(ReapNetworks) /\ WF_adminVars(ReapOwn) /\ WF_adminVars(Announce)
    /\ WF_adminVars(StatsStep)
    /\ WF_adminVars(Fetched) /\ WF_adminVars(Drawn)
AdminSpec == AdminInit /\ [][AdminNext]_adminVars /\ AdminFairness

(***************************************************************************)
(* Properties                                                              *)
(***************************************************************************)
Counts == 0 .. (MaxMoves * 2 + MaxAdmin * 2 + 4) * (MaxFault + 1)

\* Every variable keeps its type; a page never counts more devices off the
\* networks than online (presence.rs stats, under one lock).
AdminTypeOK ==
    /\ registry \subseteq ANet /\ online \subseteq ANet \X ADev
    /\ solo \subseteq ADev /\ alive \subseteq ADev /\ reaping \in BOOLEAN
    /\ owed \in Counts /\ global \in Counts
    /\ page.listed \subseteq ANet \X (0 .. Cardinality(ADev)) \X (0 .. Cardinality(ADev))
    /\ page.off \in 0 .. page.devices /\ page.devices \in 0 .. Cardinality(ADev)
    /\ graph \subseteq ANet \X {AOwner[d] : d \in ADev}
    /\ poll.at \in {"idle", "held", "nets", "presence", "version", "reply"}

\* The statistics an open tab shows become and stay those of the
\* deployment once it is calm, though each reply's version is read after its
\* data and may vouch for a change the data misses (admin.rs gather_stats), and
\* though requests are lost and the coordinator restarts.
PageIsRight == page = Counted(registry)
PageSettles == <>[]PageIsRight

\* So does the graph, whichever of two overlapping fetches answers last and
\* whichever fails: "the stats loop will trigger another refresh" (admin.html).
\* Without restarts: a restart resets the version, and a graph drawn for the same
\* number before it is kept.
GraphIsRight == spent.reboot = 0 => graph = Edges
GraphSettles == <>[]GraphIsRight
=============================================================================
