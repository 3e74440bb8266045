---------------------------- MODULE PathsProofs ----------------------------
(***************************************************************************)
(* Proofs about what keeps two engines reachable: side-socket ICE, the     *)
(* relay, the LAN beacon, attestations between peers, certificates and     *)
(* the tunnels an engine lays, for any peers, timers, tasks and bounds.    *)
(* (The proof modules of the other components are LongPollProofs,          *)
(* RecordsProofs, EdgeProofs and NodeProofs.)                              *)
(***************************************************************************)
EXTENDS IcePath, RelayPath, Beacon, Gossip, Certs, Tunnels,
        FiniteSetTheorems, NaturalsInduction, WellFoundedInduction, TLAPS

-----------------------------------------------------------------------------
\* Side-socket ICE: an agent that failed stays down, and an endpoint is the shim of an agent that exists.

IceAgent == [st : {"none", "negotiating", "connected", "failed"}, task : {"running", "dialed", "done"}]
IceCopies == [End -> [Place -> Cred]]
IceBack == {"none", "cooling", "over"}

\* A connect task belongs to an agent that exists: one that is gone publishes nothing.
IceIInv == IceTypeOK /\ \A p \in End : agent[p].st = "none" => agent[p].task = "done"

\* What one arm of the loop may do to an end: keep its agent, drop it, or start one.
IceOutcome == [agent : IceAgent, back : IceBack, route : BOOLEAN, copy : IceCopies]
Sound(y) == /\ y \in IceOutcome
            /\ y.agent.st = "none" => y.agent.task = "done"
            /\ y.back = "cooling" => y.agent.st = "none"
            /\ y.route => y.agent.st # "none"

LEMMA IceEnds == \A p \in End : Other(p) \in End /\ Other(p) # p
BY DEF End, Other

LEMMA IceShapes ==
  /\ NoAgent \in IceAgent /\ NoAgent.st = "none" /\ NoAgent.task = "done"
  /\ Started \in IceAgent /\ Started.st = "negotiating"
  /\ \A a \in IceAgent : Offer(a) \in Cred
  /\ \A v \in Cred : Older(v) \in Cred
  /\ "none" \in Cred /\ Place = {"sent", "held", "offered", "answer", "seed", "lock"}
BY DEF NoAgent, Started, IceAgent, Offer, Cred, Older, Place

\* Writing one copy of an end's credentials leaves a table of copies.
LEMMA SetPlace ==
  ASSUME NEW t \in IceCopies, NEW q \in End, NEW x \in Place, NEW v \in Cred
  PROVE  [t EXCEPT ![q] = [t[q] EXCEPT ![x] = v]] \in IceCopies
BY DEF IceCopies

LEMMA SyncSound ==
  ASSUME IceIInv, NEW p \in End, NEW t \in IceCopies
  PROVE  /\ Sound(SyncIce(p, t))
         /\ agent[p].st = "failed" => SyncIce(p, t).agent.st # "connected"
<1>1. agent[p] \in IceAgent /\ back[p] \in IceBack /\ (agent[p].st = "none" => agent[p].task = "done")
      /\ (back[p] = "cooling" => agent[p].st = "none")
  BY DEF IceIInv, IceTypeOK, IceAgent, IceBack, Session
<1>2. CASE ~willing[p] \/ ~Kept(p)
  <2>1. SyncIce(p, t) = [agent |-> agent[p], back |-> "none", route |-> FALSE, copy |-> t]
    BY <1>2 DEF SyncIce
  <2> QED BY <1>1, <2>1 DEF Sound, IceOutcome, IceBack
<1>3. CASE willing[p] /\ Kept(p) /\ Dead(p)
  <2>1. SyncIce(p, t) = [agent |-> NoAgent, back |-> "cooling", route |-> FALSE, copy |-> t]
    BY <1>3 DEF SyncIce
  <2> QED BY <2>1, IceShapes DEF Sound, IceOutcome, IceBack
<1>4. CASE willing[p] /\ Kept(p) /\ ~Dead(p) /\ MayStart(p)
  <2>1. SyncIce(p, t) = [agent |-> Started, back |-> back[p], route |-> FALSE, copy |-> Renewed(p, t)]
    BY <1>4 DEF SyncIce
  <2>2. Renewed(p, t) \in IceCopies
    <3> DEFINE aged == [x \in Place |-> Older(t[p][x])]
               t1 == [t EXCEPT ![p] = aged]
    <3>1. aged \in [Place -> Cred]
      BY IceShapes DEF IceCopies
    <3>2. Renewed(p, t) = [t1 EXCEPT ![Other(p)] = [t1[Other(p)] EXCEPT !["lock"] = "none"]]
      BY IceEnds DEF Renewed, IceCopies
    <3> HIDE DEF aged
    <3>3. t1 \in IceCopies
      BY <3>1 DEF IceCopies
    <3> HIDE DEF t1
    <3>4. Other(p) \in End /\ "lock" \in Place /\ "none" \in Cred
      BY IceEnds, IceShapes
    <3>5. [t1 EXCEPT ![Other(p)] = [t1[Other(p)] EXCEPT !["lock"] = "none"]] \in IceCopies
      BY <3>3, <3>4, SetPlace
    <3> QED BY <3>2, <3>5
  <2>3. back[p] # "cooling"
    BY <1>4 DEF MayStart
  <2> QED BY <1>1, <2>1, <2>2, <2>3, IceShapes DEF Sound, IceOutcome
<1>5. CASE willing[p] /\ Kept(p) /\ ~Dead(p) /\ ~MayStart(p)
  <2>1. SyncIce(p, t) = [agent |-> agent[p], back |-> IF Icing(p) THEN "none" ELSE back[p],
                         route |-> Icing(p), copy |-> t]
    BY <1>5 DEF SyncIce
  <2>2. Icing(p) \in BOOLEAN /\ (Icing(p) => agent[p].st = "connected")
    BY DEF Icing
  <2> QED BY <1>1, <2>1, <2>2 DEF Sound, IceOutcome, IceBack
<1> QED BY <1>1, <1>2, <1>3, <1>4, <1>5 DEF SyncIce, Dead

\* An arm of the select: the loop comes round for p with a sound outcome.
LEMMA IceRoundKeeps ==
  ASSUME IceIInv, NEW p \in End, NEW y, Sound(y), NEW over \in BOOLEAN,
         ComesRound(p, y, over), mishaps' \in 0 .. MaxMishap, calm' \in BOOLEAN
  PROVE  IceIInv' /\ agent' = [agent EXCEPT ![p] = y.agent]
<1>1. y \in IceOutcome
  BY DEF Sound
<1>2. /\ agent' = [agent EXCEPT ![p] = y.agent] /\ back' = [back EXCEPT ![p] = y.back]
      /\ route' = [route EXCEPT ![p] = y.route] /\ want' = [want EXCEPT ![p] = Wanted(p, y.agent)]
      /\ UNCHANGED <<conn, open, willing>>
  BY DEF ComesRound
<1>3. y.agent \in IceAgent /\ y.back \in IceBack /\ y.route \in BOOLEAN /\ y.copy \in IceCopies
  BY <1>1 DEF IceOutcome
<1>4. copy' \in IceCopies /\ poll' \in [End -> {"held", "answered"}]
  <2>1. CASE over \/ Offer(y.agent) # y.copy[p].sent
    <3> DEFINE t == y.copy
               t1 == [t EXCEPT ![p] = [t[p] EXCEPT !["held"] = Offer(y.agent)]]
    <3>1. t1 \in IceCopies
      BY <1>3, SetPlace, IceShapes
    <3>2. copy' = [t1 EXCEPT ![Other(p)] = [t1[Other(p)] EXCEPT !["answer"] = "none"]]
      BY <1>3, <2>1, IceEnds DEF ComesRound, IceCopies
    <3>3. poll' = [poll EXCEPT ![p] = "held"]
      BY <2>1 DEF ComesRound
    <3> HIDE DEF t1
    <3>4. copy' \in IceCopies
      BY <3>1, <3>2, SetPlace, IceShapes, IceEnds
    <3> QED BY <3>3, <3>4 DEF IceIInv, IceTypeOK
  <2>2. CASE ~(over \/ Offer(y.agent) # y.copy[p].sent)
    BY <1>3, <2>2 DEF ComesRound, IceIInv, IceTypeOK
  <2> QED BY <2>1, <2>2
<1>5. Wanted(p, y.agent) \in BOOLEAN
  BY DEF Wanted
<1>6. /\ agent' \in [End -> IceAgent] /\ back' \in [End -> IceBack] /\ want' \in [End -> BOOLEAN]
      /\ route' \in [End -> BOOLEAN]
  BY <1>2, <1>3, <1>5 DEF IceIInv, IceTypeOK, IceAgent, IceBack
<1>7. ASSUME NEW q \in End
      PROVE  /\ agent'[q].st = "none" => agent'[q].task = "done"
             /\ back'[q] = "cooling" => ~(agent'[q].st # "none")
             /\ route'[q] => agent'[q].st # "none"
  <2>1. CASE q = p
    BY <1>2, <2>1 DEF Sound, IceIInv, IceTypeOK
  <2>2. CASE q # p
    BY <1>2, <2>2 DEF IceIInv, IceTypeOK, Session
  <2> QED BY <2>1, <2>2
<1>8. conn' \in [End -> [up : BOOLEAN, aged : BOOLEAN]] /\ open' \in BOOLEAN /\ willing' \in [End -> BOOLEAN]
  BY <1>2 DEF IceIInv, IceTypeOK
<1>9. IceTypeOK'
  BY <1>4, <1>6, <1>7, <1>8 DEF IceTypeOK, IceAgent, IceBack, IceCopies, Session
<1> QED BY <1>2, <1>7, <1>9 DEF IceIInv

LEMMA IceLoopKeeps ==
  ASSUME IceIInv, NEW p \in End, Recheck(p) \/ Refreshed(p) \/ Toggle(p) \/ RefreshFails(p)
  PROVE  IceIInv' /\ \A q \in End : agent[q].st = "failed" => agent'[q].st # "connected"
<1>0. /\ copy \in IceCopies /\ mishaps \in 0 .. MaxMishap /\ calm \in BOOLEAN /\ agent \in [End -> IceAgent]
      /\ (Mishap => mishaps' \in 0 .. MaxMishap)
  BY MishapBound DEF IceIInv, IceTypeOK, IceCopies, IceAgent, Mishap
<1>1. \E y : \E g \in BOOLEAN : /\ Sound(y) /\ ComesRound(p, y, g)
                                /\ agent[p].st = "failed" => y.agent.st # "connected"
                                /\ mishaps' \in 0 .. MaxMishap /\ calm' \in BOOLEAN
  <2>1. CASE Recheck(p)
    BY <1>0, <2>1, SyncSound DEF Recheck
  <2>2. CASE Toggle(p)
    BY <1>0, <2>2, SyncSound DEF Toggle
  <2>3. CASE RefreshFails(p)
    <3> DEFINE y == [agent |-> agent[p], back |-> back[p], route |-> route[p], copy |-> copy]
    <3>1. Sound(y)
      BY <1>0 DEF Sound, IceIInv, IceTypeOK, IceOutcome, IceBack, Session
    <3>2. ComesRound(p, y, TRUE) /\ calm' = calm /\ Mishap /\ y.agent = agent[p]
      BY <2>3 DEF RefreshFails
    <3>3. mishaps' \in 0 .. MaxMishap /\ calm' \in BOOLEAN
      BY <1>0, <3>2
    <3> HIDE DEF y
    <3> QED BY <3>1, <3>2, <3>3
  <2>4. CASE Refreshed(p)
    <3> DEFINE t1 == [copy EXCEPT ![p] = [copy[p] EXCEPT !["sent"] = Offer(agent[p])]]
               t2 == [t1 EXCEPT ![Other(p)] = [t1[Other(p)] EXCEPT !["seed"] = copy[Other(p)].answer]]
    <3>1. t1 \in IceCopies
      BY <1>0, SetPlace, IceShapes
    <3>2. copy[Other(p)].answer \in Cred
      BY <1>0, IceEnds, IceShapes DEF IceCopies
    <3>3. [copy EXCEPT ![p].sent = Offer(agent[p]), ![Other(p)].seed = copy[Other(p)].answer] = t2
      BY <1>0, IceEnds DEF IceCopies
    <3>4. t2 \in IceCopies
      <4> HIDE DEF t1
      <4> QED BY <3>1, <3>2, SetPlace, IceEnds, IceShapes
    <3>5. ComesRound(p, SyncIce(p, t2), TRUE) /\ UNCHANGED <<mishaps, calm>>
      BY <2>4, <3>3 DEF Refreshed
    <3> HIDE DEF t2
    <3> QED BY <1>0, <3>4, <3>5, SyncSound
  <2> QED BY <2>1, <2>2, <2>3, <2>4
<1>2. PICK y : \E g \in BOOLEAN : /\ Sound(y) /\ ComesRound(p, y, g)
                                  /\ agent[p].st = "failed" => y.agent.st # "connected"
                                  /\ mishaps' \in 0 .. MaxMishap /\ calm' \in BOOLEAN
  BY <1>1
<1>3. PICK g \in BOOLEAN : ComesRound(p, y, g)
  BY <1>2
<1>4. Sound(y) /\ (agent[p].st = "failed" => y.agent.st # "connected")
  BY <1>2
<1>5. mishaps' \in 0 .. MaxMishap /\ calm' \in BOOLEAN
  BY <1>2
<1>6. IceIInv' /\ agent' = [agent EXCEPT ![p] = y.agent]
  BY <1>3, <1>4, <1>5, IceRoundKeeps
<1>7. \A q \in End : agent[q].st = "failed" => agent'[q].st # "connected"
  BY <1>0, <1>4, <1>6
<1> QED BY <1>6, <1>7

\* The agent's tasks move one end's agent forward, never from failed to connected.
LEMMA IceTasksKeep ==
  ASSUME IceIInv, NEW p \in End, Tasks(p)
  PROVE  IceIInv' /\ \A q \in End : agent[q].st = "failed" => agent'[q].st # "connected"
<1>0. /\ copy \in IceCopies /\ agent \in [End -> IceAgent]
      /\ UNCHANGED <<back, want, conn, route, poll, open, willing, mishaps, calm>>
  BY DEF IceIInv, IceTypeOK, IceCopies, IceAgent, Tasks, Settle, Dialed, Publish, CheckFails, OfferTimeout, Unlooped
<1>1. CASE Settle(p)
  <2>1. /\ agent' = agent
        /\ copy' = [copy EXCEPT ![Other(p)] = [copy[Other(p)] EXCEPT !["lock"] = copy[Other(p)].seed]]
    BY <1>0, <1>1, IceEnds DEF Settle, IceCopies
  <2>2. copy[Other(p)].seed \in Cred
    BY <1>0, IceEnds, IceShapes DEF IceCopies
  <2>3. copy' \in IceCopies
    BY <1>0, <2>1, <2>2, IceEnds, IceShapes, SetPlace
  <2> QED BY <1>0, <2>1, <2>3 DEF IceIInv, IceTypeOK, IceCopies, Session
<1>2. CASE Dialed(p) \/ Publish(p) \/ CheckFails(p) \/ OfferTimeout(p)
  <2>1. \E s \in {"negotiating", "connected", "failed"}, k \in {"dialed", "done"} :
          agent' = [agent EXCEPT ![p] = [st |-> s, task |-> k]] /\ (agent[p].st = "failed" => s # "connected")
    BY <1>2 DEF Dialed, Publish, Published, CheckFails, OfferTimeout, Put, Started
  <2>2. copy' = copy /\ agent[p].st # "none"
    BY <1>2 DEF Dialed, Publish, CheckFails, OfferTimeout, Started, Live, IceIInv
  <2>3. PICK s \in {"negotiating", "connected", "failed"}, k \in {"dialed", "done"} :
          agent' = [agent EXCEPT ![p] = [st |-> s, task |-> k]] /\ (agent[p].st = "failed" => s # "connected")
    BY <2>1
  <2>4. [st |-> s, task |-> k] \in IceAgent
    BY DEF IceAgent
  <2>5. agent' \in [End -> IceAgent]
    BY <1>0, <2>3, <2>4
  <2>6. ASSUME NEW q \in End
        PROVE  /\ agent'[q].st = "none" <=> agent[q].st = "none"
               /\ agent'[q].st = "none" => agent'[q].task = "done"
               /\ agent[q].st = "failed" => agent'[q].st # "connected"
    BY <1>0, <2>2, <2>3 DEF IceIInv
  <2> QED BY <1>0, <2>2, <2>5, <2>6 DEF IceIInv, IceTypeOK, IceAgent, Session
<1> QED BY <1>1, <1>2 DEF Tasks

LEMMA IceWorld ==
  ASSUME IceIInv,
         \/ \E p \in End : Serve(p) \/ Cool(p) \/ Path(p) \/ Restart(p)
         \/ Prune \/ Shift \/ UNCHANGED iceVars
  PROVE  IceIInv' /\ \A q \in End : agent[q].st = "failed" => agent'[q].st # "connected"
<1>0. /\ copy \in IceCopies /\ agent \in [End -> IceAgent]
      /\ (Mishap => mishaps' \in 0 .. MaxMishap)
  BY MishapBound DEF IceIInv, IceTypeOK, IceCopies, IceAgent, Mishap
<1>1. ASSUME NEW p \in End, Serve(p) PROVE IceIInv' /\ agent' = agent
  <2> DEFINE t1 == [copy EXCEPT ![p] = [copy[p] EXCEPT !["offered"] = Recorded(p)]]
             t2 == [t1 EXCEPT ![p] = [t1[p] EXCEPT !["held"] = "none"]]
             t3 == [t2 EXCEPT ![Other(p)] = [t2[Other(p)] EXCEPT !["answer"] = SeedIce(p)]]
  <2>1. Recorded(p) \in Cred /\ SeedIce(p) \in Cred
    BY <1>0, IceEnds, IceShapes DEF IceCopies, Recorded, SeedIce
  <2>2. copy' = t3
    BY <1>0, <1>1, IceEnds DEF Serve, IceCopies
  <2>3. t1 \in IceCopies
    BY <1>0, <2>1, IceShapes, SetPlace
  <2> HIDE DEF t1
  <2>4. t2 \in IceCopies
    BY <2>3, IceShapes, SetPlace
  <2> HIDE DEF t2
  <2>5. t3 \in IceCopies
    BY <2>1, <2>4, IceShapes, IceEnds, SetPlace
  <2> HIDE DEF t3
  <2>6. /\ poll' = [poll EXCEPT ![p] = "answered"]
        /\ UNCHANGED <<agent, back, want, conn, route, open, willing, mishaps, calm>>
    BY <1>1 DEF Serve
  <2> QED BY <2>2, <2>5, <2>6 DEF IceIInv, IceTypeOK, IceCopies, Session
<1>2. ASSUME NEW p \in End, Cool(p) PROVE IceIInv' /\ agent' = agent
  BY <1>2 DEF Cool, IceIInv, IceTypeOK, Session
<1>3. ASSUME NEW p \in End, Path(p) PROVE IceIInv' /\ agent' = agent
  <2>1. PICK u \in BOOLEAN, a \in BOOLEAN : Conn(p, u, a)
    BY <1>3 DEF Path, Handshake, Lapse, Grace
  <2>2. [up |-> u, aged |-> a] \in [up : BOOLEAN, aged : BOOLEAN]
    OBVIOUS
  <2>3. /\ conn' = [conn EXCEPT ![p] = [up |-> u, aged |-> a]]
        /\ UNCHANGED <<agent, copy, back, want, route, poll, open, willing, mishaps, calm>>
    BY <2>1 DEF Conn
  <2> QED BY <2>2, <2>3 DEF IceIInv, IceTypeOK, Session
<1>4. ASSUME NEW p \in End, Restart(p) PROVE IceIInv' /\ agent' = [agent EXCEPT ![p] = NoAgent]
  <2>1. /\ Mishap /\ agent' = [agent EXCEPT ![p] = NoAgent] /\ back' = [back EXCEPT ![p] = "none"]
        /\ want' = [want EXCEPT ![p] = FALSE] /\ route' = [route EXCEPT ![p] = FALSE]
        /\ conn' = [conn EXCEPT ![p] = [up |-> FALSE, aged |-> FALSE]]
        /\ poll' = [poll EXCEPT ![p] = "held"] /\ calm' = FALSE /\ UNCHANGED <<open, willing>>
    BY <1>4 DEF Restart
  <2> DEFINE f == [x \in Place |-> IF x \in {"sent", "held"} THEN "none" ELSE Older(copy[p][x])]
             h == [x \in Place |-> IF x \in {"answer", "seed", "lock"} THEN "none" ELSE copy[Other(p)][x]]
  <2>2. f \in [Place -> Cred] /\ h \in [Place -> Cred]
    BY <1>0, IceEnds, IceShapes DEF IceCopies
  <2>3. copy' = [copy EXCEPT ![p] = f, ![Other(p)] = h]
    BY <1>4 DEF Restart
  <2> HIDE DEF f, h
  <2>4. copy' \in IceCopies
    BY <1>0, <2>2, <2>3, IceEnds DEF IceCopies
  <2>5. [up |-> FALSE, aged |-> FALSE] \in [up : BOOLEAN, aged : BOOLEAN]
    OBVIOUS
  <2>6. conn' \in [End -> [up : BOOLEAN, aged : BOOLEAN]]
    BY <2>1, <2>5 DEF IceIInv, IceTypeOK
  <2>7. agent' \in [End -> IceAgent]
    BY <1>0, <2>1, IceShapes
  <2>8. ASSUME NEW q \in End
        PROVE  /\ agent'[q].st = "none" => agent'[q].task = "done"
               /\ back'[q] = "cooling" => ~(agent'[q].st # "none")
               /\ route'[q] => agent'[q].st # "none"
    BY <1>0, <2>1, IceShapes DEF IceIInv, IceTypeOK, Session
  <2>9. IceTypeOK'
    BY <1>0, <2>1, <2>4, <2>6, <2>7, <2>8 DEF IceIInv, IceTypeOK, IceAgent, IceCopies, Session
  <2> QED BY <2>1, <2>8, <2>9 DEF IceIInv
<1>5. CASE Prune
  <2>1. \A q \in End : [copy[q] EXCEPT !.offered = "none"] \in [Place -> Cred]
    BY <1>0, IceShapes DEF IceCopies
  <2>2. copy' \in IceCopies
    BY <1>5, <2>1 DEF Prune, IceCopies
  <2>3. /\ mishaps' \in 0 .. MaxMishap /\ calm' = FALSE
        /\ UNCHANGED <<agent, back, want, conn, route, poll, open, willing>>
    BY <1>0, <1>5 DEF Prune
  <2> QED BY <2>2, <2>3 DEF IceIInv, IceTypeOK, IceCopies, Session
<1>6. CASE Shift
  <2>1. /\ mishaps' \in 0 .. MaxMishap /\ calm' = FALSE /\ open' = ~open
        /\ UNCHANGED <<agent, copy, back, want, conn, route, poll, willing>>
    BY <1>0, <1>6 DEF Shift
  <2>2. open' \in BOOLEAN
    BY <2>1
  <2> QED BY <2>1, <2>2 DEF IceIInv, IceTypeOK, Session
<1>7. CASE UNCHANGED iceVars
  BY <1>7 DEF iceVars, IceIInv, IceTypeOK, Session
<1> QED BY <1>0, <1>1, <1>2, <1>3, <1>4, <1>5, <1>6, <1>7, IceShapes

\* An agent that has failed is never taken for connected again, whichever of its state
\* callback and its connect task writes last, and no endpoint is the shim of an agent that
\* is gone (ice.rs IceState, ensure; daemon.rs sync_ice): for any number of mishaps.
THEOREM FailedAgentsStayDown == IceSpec => IceSafe
<1>1. IceInit => IceIInv
  <2> SUFFICES ASSUME IceInit PROVE IceIInv
    OBVIOUS
  <2>1. agent \in [End -> IceAgent] /\ copy \in IceCopies /\ willing \in [End -> BOOLEAN]
    BY IceShapes DEF IceInit, IceCopies
  <2> QED BY <2>1, IceShapes, MishapBound DEF IceInit, IceIInv, IceTypeOK, IceAgent, IceCopies, Session
<1>2. IceIInv /\ [IceNext]_iceVars => IceIInv'
  BY IceLoopKeeps, IceTasksKeep, IceWorld DEF IceNext
<1>3. IceIInv /\ [IceNext]_iceVars
      => [\A p \in End : agent[p].st = "failed" => agent'[p].st # "connected"]_iceVars
  BY IceLoopKeeps, IceTasksKeep, IceWorld DEF IceNext
<1>4. IceIInv => IceTypeOK
  BY DEF IceIInv
<1> QED BY <1>1, <1>2, <1>3, <1>4, PTL DEF IceSpec, IceSafe, FailedIsFinal

-----------------------------------------------------------------------------
\* The relay: a session that exists is given up only when there was no relay to offer.

RelSess == [at : Server \cup {RelNone}, lives : BOOLEAN, age : 0 .. Ttl]
RelCopies == [End -> [RelPlace -> Cred]]
Outcome == [sess : {ss \in RelSess : ~Relaying(ss) => ss = NoSess}, relay : Server \cup {RelNone}, copy : RelCopies]

\* An end that relays has said so in the request it waits on, and an answer to one that
\* says so names a relay if there was one to name.
RelIInv ==
  /\ RelTypeOK
  /\ \A p \in End : /\ Relaying(sess[p]) => need[p].held
                    /\ relPoll[p] = "answered" /\ need[p].held /\ answer[p].had => answer[p].relay # RelNone

LEMMA RelayEnds ==
  /\ \A p \in End : Other(p) \in End /\ Other(p) # p /\ \A q \in End : q \in {p, Other(p)}
  /\ Ttl \in Nat /\ MaxRelOutage \in Nat /\ MaxTick \in Nat
BY RelLimits DEF End, Other

LEMMA LowestRelay == ASSUME NEW S \in SUBSET Server, S # {} PROVE Min(S) \in Server
<1>1. \E x \in S : \A y \in S : x =< y
  <2>1. CASE 1 \in S
    BY <2>1 DEF Server
  <2>2. CASE 1 \notin S
    <3>1. 2 \in S /\ \A y \in S : y = 2
      BY <2>2 DEF Server
    <3> QED BY <3>1
  <2> QED BY <2>1, <2>2
<1> QED BY <1>1 DEF Min

LEMMA CopyShapes ==
  /\ Relayed(NoSess) \in Cred /\ \A ss : Relayed(ss) \in Cred
  /\ \A c \in Cred : Older(c) \in Cred
  /\ "none" \in Cred /\ RelPlace = {"sent", "held", "table", "answer", "seed"}
BY DEF Relayed, Cred, Older, RelPlace

\* Writing one copy of an end's address leaves a table of copies.
LEMMA SetCopy ==
  ASSUME NEW t \in RelCopies, NEW q \in End, NEW v \in Cred
  PROVE  [t EXCEPT ![q].sent = v] \in RelCopies
BY CopyShapes DEF RelCopies

LEMMA SetSeed ==
  ASSUME NEW t \in RelCopies, NEW q \in End, NEW v \in Cred
  PROVE  [t EXCEPT ![q].seed = v] \in RelCopies
BY CopyShapes DEF RelCopies

LEMMA SyncShape ==
  ASSUME RelTypeOK, NEW p \in End, NEW r \in Server \cup {RelNone}, NEW c \in RelCopies
  PROVE  /\ SyncRelays(p, r, c) \in Outcome
         /\ Relaying(sess[p]) /\ r # RelNone => Relaying(SyncRelays(p, r, c).sess)
<1> DEFINE new == IF r = RelNone THEN NoSess ELSE Ensured(p, r)
           fresh == ~Relaying(sess[p]) /\ Relaying(new)
           copies == IF fresh THEN [c EXCEPT ![p] = [x \in RelPlace |-> Older(c[p][x])]] ELSE c
<1>1. SyncRelays(p, r, c) = [sess |-> new, relay |-> r, copy |-> copies]
  BY DEF SyncRelays
<1>2. NoSess \in RelSess /\ ~Relaying(NoSess) /\ NoSess.at = RelNone
  BY RelayEnds DEF NoSess, RelSess, Relaying
<1>3. sess[p] \in RelSess /\ (~Relaying(sess[p]) => sess[p] = NoSess)
  BY DEF RelTypeOK, RelSess
<1>4. r # RelNone => Allocated(p, r) \in RelSess /\ (~Relaying(Allocated(p, r)) => Allocated(p, r) = NoSess)
  <2>1. r # RelNone => [at |-> r, lives |-> TRUE, age |-> 0] \in RelSess /\ Relaying([at |-> r, lives |-> TRUE, age |-> 0])
    BY RelayEnds DEF RelSess, Relaying
  <2> QED BY <1>2, <2>1 DEF Allocated
<1>5. new \in RelSess /\ (~Relaying(new) => new = NoSess) /\ (Relaying(sess[p]) /\ r # RelNone => Relaying(new))
  BY <1>2, <1>3, <1>4 DEF Ensured
<1>6. copies \in RelCopies
  <2>1. [x \in RelPlace |-> Older(c[p][x])] \in [RelPlace -> Cred]
    BY CopyShapes DEF RelCopies
  <2> HIDE DEF new
  <2> QED BY <2>1 DEF RelCopies
<1> HIDE DEF new, copies
<1> QED BY <1>1, <1>5, <1>6 DEF Outcome

LEMMA SameShape ==
  ASSUME RelTypeOK, NEW p \in End
  PROVE  Same(p) \in Outcome /\ Same(p).sess = sess[p]
BY DEF RelTypeOK, Same, Outcome, RelSess, RelCopies

\* An arm of the select: the loop comes round for p with a session that it keeps or that the
\* coordinator took away.
LEMMA RoundKeeps ==
  ASSUME RelIInv, NEW p \in End, NEW y \in Outcome, NEW s \in BOOLEAN, NEW over \in BOOLEAN,
         RelComesRound(p, y, s, over), relQuiet' \in [End -> BOOLEAN], over \/ y.sess = sess[p]
  PROVE  /\ RelIInv' /\ sess' = [sess EXCEPT ![p] = y.sess]
<1>0. RelTypeOK
  BY DEF RelIInv
<1>1. /\ sess' = [sess EXCEPT ![p] = y.sess] /\ relay' = [relay EXCEPT ![p] = y.relay]
      /\ UNCHANGED <<relConn, serving, regs, outages, ticks>>
  BY DEF RelComesRound, worldVars
<1>2. /\ y.sess \in RelSess /\ (~Relaying(y.sess) => y.sess = NoSess) /\ y.relay \in Server \cup {RelNone} /\ y.copy \in RelCopies
  BY DEF Outcome
<1> DEFINE w == RelWanted(p, y.sess)
           re == over \/ w # s \/ Relayed(y.sess) # y.copy[p].sent
<1>3. w \in BOOLEAN /\ (Relaying(y.sess) => w)
  BY DEF RelWanted
<1>4. /\ re => /\ relPoll' = [relPoll EXCEPT ![p] = "held"] /\ answer' = [answer EXCEPT ![p] = NoAnswer]
               /\ need' = [need EXCEPT ![p] = [sent |-> s, held |-> w]]
               /\ relCopy' = [y.copy EXCEPT ![p].held = Relayed(y.sess), ![Other(p)].answer = "none"]
      /\ ~re => /\ need' = [need EXCEPT ![p].sent = s] /\ relCopy' = y.copy /\ UNCHANGED <<relPoll, answer>>
  BY DEF RelComesRound
<1> HIDE DEF w
<1>5. sess' \in [End -> RelSess] /\ \A q \in End : ~Relaying(sess'[q]) => sess'[q] = NoSess
  BY <1>0, <1>1, <1>2 DEF RelTypeOK, RelSess
<1>6. relay' \in [End -> Server \cup {RelNone}]
  BY <1>0, <1>1, <1>2 DEF RelTypeOK
<1>7. CASE re
  <2>1. answer' \in [End -> [relay : Server \cup {RelNone}, had : BOOLEAN]]
    <3>1. NoAnswer \in [relay : Server \cup {RelNone}, had : BOOLEAN]
      BY DEF NoAnswer
    <3> QED BY <1>0, <1>4, <1>7, <3>1 DEF RelTypeOK
  <2>2. relPoll' \in [End -> {"held", "answered"}] /\ relPoll'[p] = "held"
    BY <1>0, <1>4, <1>7 DEF RelTypeOK
  <2>3. need' \in [End -> [sent : BOOLEAN, held : BOOLEAN]]
    <3>1. [sent |-> s, held |-> w] \in [sent : BOOLEAN, held : BOOLEAN]
      BY <1>3
    <3> QED BY <1>0, <1>4, <1>7, <3>1 DEF RelTypeOK
  <2>4. relCopy' \in RelCopies
    <3> DEFINE c1 == [y.copy EXCEPT ![p].held = Relayed(y.sess)]
    <3>1. c1 \in RelCopies
      BY <1>2, CopyShapes DEF RelCopies
    <3>2. relCopy' = [c1 EXCEPT ![Other(p)].answer = "none"]
      BY <1>4, <1>7
    <3> HIDE DEF c1
    <3> QED BY <3>1, <3>2, CopyShapes, RelayEnds DEF RelCopies
  <2>5. RelTypeOK'
    BY <1>0, <1>1, <1>5, <1>6, <2>1, <2>2, <2>3, <2>4 DEF RelTypeOK, RelSess, RelCopies
  <2>6. ASSUME NEW q \in End
        PROVE  /\ Relaying(sess'[q]) => need'[q].held
               /\ relPoll'[q] = "answered" /\ need'[q].held /\ answer'[q].had => answer'[q].relay # RelNone
    <3>1. CASE q = p
      BY <1>0, <1>1, <1>3, <1>4, <1>7, <2>2, <3>1 DEF RelTypeOK
    <3>2. CASE q # p
      <4>1. sess'[q] = sess[q] /\ need'[q] = need[q] /\ relPoll'[q] = relPoll[q] /\ answer'[q] = answer[q]
        BY <1>0, <1>1, <1>4, <1>7, <3>2 DEF RelTypeOK
      <4> QED BY <4>1 DEF RelIInv
    <3> QED BY <3>1, <3>2
  <2> QED BY <1>1, <2>5, <2>6 DEF RelIInv, Relaying
<1>8. CASE ~re
  <2>1. need' \in [End -> [sent : BOOLEAN, held : BOOLEAN]] /\ \A q \in End : need'[q].held = need[q].held
    <3>1. need \in [End -> [sent : BOOLEAN, held : BOOLEAN]]
      BY <1>0 DEF RelTypeOK
    <3>2. need' = [need EXCEPT ![p] = [need[p] EXCEPT !.sent = s]]
      BY <1>4, <1>8, <3>1
    <3>3. [need[p] EXCEPT !.sent = s] \in [sent : BOOLEAN, held : BOOLEAN] /\ [need[p] EXCEPT !.sent = s].held = need[p].held
      BY <3>1
    <3> QED BY <3>1, <3>2, <3>3
  <2>2. sess' = sess
    BY <1>0, <1>1, <1>8 DEF RelTypeOK
  <2>3. RelTypeOK'
    BY <1>0, <1>1, <1>2, <1>4, <1>5, <1>6, <1>8, <2>1 DEF RelTypeOK, RelSess, RelCopies
  <2> QED BY <1>1, <1>4, <1>8, <2>1, <2>2, <2>3 DEF RelIInv, Relaying
<1> QED BY <1>7, <1>8

LEMMA LoopKeeps ==
  ASSUME RelIInv, NEW p \in End, RelRecheck(p) \/ RelToggle(p) \/ RelRefreshed(p)
  PROVE  RelIInv' /\ \A q \in End : Relaying(sess[q]) /\ ~Relaying(sess'[q]) => ~answer[q].had
<1>0. RelTypeOK /\ need[p].sent \in BOOLEAN /\ relQuiet \in [End -> BOOLEAN] /\ relay[p] \in Server \cup {RelNone}
  BY DEF RelIInv, RelTypeOK
<1>1. CASE RelRecheck(p)
  <2>1. RelComesRound(p, Same(p), need[p].sent, FALSE) /\ relQuiet' = relQuiet
    BY <1>1 DEF RelRecheck
  <2>2. RelIInv' /\ sess' = [sess EXCEPT ![p] = sess[p]]
    BY <1>0, <2>1, RoundKeeps, SameShape
  <2> QED BY <1>0, <2>2 DEF RelTypeOK
<1>2. CASE RelToggle(p)
  <2> DEFINE y == SyncRelays(p, relay[p], relCopy)
  <2>1. RelComesRound(p, y, need[p].sent, TRUE) /\ relQuiet' = relQuiet /\ ~Relaying(sess[p])
    BY <1>2 DEF RelToggle
  <2>2. y \in Outcome
    BY <1>0, SyncShape DEF RelTypeOK, RelCopies
  <2> HIDE DEF y
  <2>3. RelIInv' /\ sess' = [sess EXCEPT ![p] = y.sess]
    BY <1>0, <2>1, <2>2, RoundKeeps
  <2>4. \A q \in End : Relaying(sess[q]) => sess'[q] = sess[q]
    BY <1>0, <2>1, <2>3 DEF RelTypeOK
  <2> QED BY <2>3, <2>4
<1>3. CASE RelRefreshed(p)
  <2> DEFINE c == [relCopy EXCEPT ![p].sent = Relayed(sess[p]), ![Other(p)].seed = relCopy[Other(p)].answer]
             y == SyncRelays(p, answer[p].relay, c)
             s == RelWanted(p, sess[p])
  <2>1. /\ relPoll[p] = "answered" /\ relQuiet' = [relQuiet EXCEPT ![p] = FALSE]
        /\ RelComesRound(p, y, s, TRUE)
    BY <1>3 DEF RelRefreshed
  <2>2. c \in RelCopies
    <3>1. [relCopy EXCEPT ![p].sent = Relayed(sess[p])] \in RelCopies
      BY <1>0, CopyShapes, SetCopy DEF RelTypeOK, RelCopies
    <3>2. relCopy[Other(p)].answer \in Cred
      BY <1>0, CopyShapes, RelayEnds DEF RelTypeOK
    <3> QED BY <3>1, <3>2, RelayEnds, SetSeed
  <2> HIDE DEF c
  <2>3. answer[p].relay \in Server \cup {RelNone}
    BY <1>0 DEF RelTypeOK
  <2>4. y \in Outcome /\ (Relaying(sess[p]) /\ answer[p].relay # RelNone => Relaying(y.sess))
    BY <1>0, <2>2, <2>3, SyncShape
  <2>5. s \in BOOLEAN /\ relQuiet' \in [End -> BOOLEAN]
    BY <1>0, <2>1 DEF RelWanted
  <2> HIDE DEF y, s
  <2>6. RelIInv' /\ sess' = [sess EXCEPT ![p] = y.sess]
    BY <1>0, <2>1, <2>4, <2>5, RoundKeeps
  <2>7. ASSUME NEW q \in End, Relaying(sess[q]), ~Relaying(sess'[q]) PROVE ~answer[q].had
    <3>1. q = p /\ sess'[q] = y.sess
      BY <1>0, <2>6, <2>7 DEF RelTypeOK
    <3>2. answer[p].relay = RelNone
      BY <2>3, <2>4, <2>7, <3>1
    <3> QED BY <2>1, <2>7, <3>1, <3>2 DEF RelIInv
  <2> QED BY <2>6, <2>7
<1> QED BY <1>1, <1>2, <1>3

LEMMA ServeKeeps ==
  ASSUME RelIInv, NEW p \in End, RelServe(p)
  PROVE  RelIInv' /\ sess' = sess
<1>0. RelTypeOK
  BY DEF RelIInv
<1>1. /\ relPoll' = [relPoll EXCEPT ![p] = "answered"]
      /\ answer' = [answer EXCEPT ![p] = [relay |-> RelayTarget(need[p].held), had |-> regs # {}]]
      /\ UNCHANGED <<sess, relay, need, relConn, relQuiet, serving, regs, outages, ticks>>
  BY DEF RelServe, worldVars
<1>2. relCopy' \in RelCopies
  <2> DEFINE v == IF relCopy[p].held = "none" THEN relCopy[p].table ELSE relCopy[p].held
             c1 == [relCopy EXCEPT ![p].table = v]
             c2 == [c1 EXCEPT ![p].held = "none"]
             c3 == [c2 EXCEPT ![Other(p)].answer = PeerRelayed(p)]
  <2>1. v \in Cred /\ PeerRelayed(p) \in Cred
    BY <1>0, CopyShapes, RelayEnds DEF RelTypeOK, PeerRelayed
  <2>2. relCopy' = c3
    BY <1>0, CopyShapes DEF RelServe, RelTypeOK
  <2> HIDE DEF v
  <2>3. c1 \in RelCopies
    BY <1>0, <2>1, CopyShapes DEF RelCopies, RelTypeOK
  <2> HIDE DEF c1
  <2>4. c2 \in RelCopies
    BY <2>3, CopyShapes DEF RelCopies
  <2> HIDE DEF c2
  <2>5. c3 \in RelCopies
    BY <2>1, <2>4, CopyShapes, RelayEnds DEF RelCopies
  <2> QED BY <2>2, <2>5
<1>3. RelayTarget(need[p].held) \in Server \cup {RelNone} /\ (need[p].held /\ regs # {} => RelayTarget(need[p].held) # RelNone)
  <2>1. regs \subseteq Server /\ RelNone \notin Server
    BY <1>0 DEF RelTypeOK, Server, RelNone
  <2> QED BY <2>1, LowestRelay DEF RelayTarget
<1>4. answer' \in [End -> [relay : Server \cup {RelNone}, had : BOOLEAN]]
  BY <1>0, <1>1, <1>3 DEF RelTypeOK
<1>5. RelTypeOK'
  BY <1>0, <1>1, <1>2, <1>4 DEF RelTypeOK, RelCopies
<1>6. ASSUME NEW q \in End, relPoll'[q] = "answered", need'[q].held, answer'[q].had PROVE answer'[q].relay # RelNone
  <2>1. CASE q = p
    BY <1>0, <1>1, <1>3, <1>6, <2>1 DEF RelTypeOK
  <2>2. CASE q # p
    BY <1>0, <1>1, <1>6, <2>2 DEF RelIInv, RelTypeOK
  <2> QED BY <2>1, <2>2
<1> QED BY <1>1, <1>5, <1>6 DEF RelIInv

LEMMA RelWorld ==
  ASSUME RelIInv,
         \/ \E p \in End : RelPath(p)
         \/ \E r \in Server : RelOutage(r) \/ RelReap(r) \/ RelReturn(r)
         \/ RelTick \/ UNCHANGED relVars
  PROVE  RelIInv' /\ \A q \in End : Relaying(sess'[q]) <=> Relaying(sess[q])
<1>0. RelTypeOK
  BY DEF RelIInv
<1>1. ASSUME NEW p \in End, RelPath(p) PROVE RelIInv' /\ sess' = sess
  <2>1. relConn' \in [End -> [up : BOOLEAN, aged : BOOLEAN]]
        /\ UNCHANGED <<sess, relQuiet, serving, regs, outages, ticks, relCopy, relay, answer, need, relPoll>>
    <3>1. PICK u \in BOOLEAN, a \in BOOLEAN : RelConn(p, u, a)
      BY <1>1 DEF RelPath, RelHandshake, RelLapse, RelGrace
    <3>2. [up |-> u, aged |-> a] \in [up : BOOLEAN, aged : BOOLEAN]
      OBVIOUS
    <3> QED BY <1>0, <3>1, <3>2 DEF RelConn, RelUnlooped, worldVars, RelTypeOK
  <2> QED BY <1>0, <2>1 DEF RelIInv, RelTypeOK
<1>2. ASSUME NEW r \in Server, RelOutage(r) PROVE RelIInv' /\ \A q \in End : sess'[q].at = sess[q].at
  <2>1. /\ outages > 0 /\ outages' = outages - 1 /\ serving' = serving \ {r}
        /\ sess' = [p \in End |-> IF sess[p].at = r THEN [sess[p] EXCEPT !.lives = FALSE] ELSE sess[p]]
        /\ UNCHANGED <<regs, relConn, relQuiet, ticks, relCopy, relay, answer, need, relPoll>>
    BY <1>2 DEF RelOutage, RelUnlooped
  <2>2. ASSUME NEW q \in End
        PROVE  sess'[q] \in RelSess /\ sess'[q].at = sess[q].at /\ (~Relaying(sess'[q]) => sess'[q] = NoSess)
    <3>1. sess[q] \in RelSess /\ (~Relaying(sess[q]) => sess[q] = NoSess)
      BY <1>0 DEF RelTypeOK, RelSess
    <3>2. CASE sess[q].at = r
      <4>1. sess'[q] = [at |-> sess[q].at, lives |-> FALSE, age |-> sess[q].age]
        BY <2>1, <3>1, <3>2 DEF RelSess
      <4>2. sess[q].at # RelNone
        BY <3>2 DEF Server, RelNone
      <4>3. sess'[q] \in RelSess
        BY <3>1, <4>1 DEF RelSess
      <4> QED BY <4>1, <4>2, <4>3 DEF Relaying
    <3>3. CASE sess[q].at # r
      BY <2>1, <3>1, <3>3
    <3> QED BY <3>2, <3>3
  <2>3. outages' \in 0 .. MaxRelOutage
    BY <1>0, <2>1, RelayEnds DEF RelTypeOK
  <2>4. sess' \in [End -> RelSess]
    BY <2>1, <2>2
  <2>5. RelTypeOK'
    BY <1>0, <2>1, <2>2, <2>3, <2>4 DEF RelTypeOK, RelSess
  <2> QED BY <2>1, <2>2, <2>5 DEF RelIInv, Relaying
<1>3. ASSUME NEW r \in Server, RelReap(r) \/ RelReturn(r) PROVE RelIInv' /\ sess' = sess
  <2>1. serving' \subseteq Server /\ regs' \subseteq Server
        /\ UNCHANGED <<sess, relConn, relQuiet, outages, ticks, relCopy, relay, answer, need, relPoll>>
    BY <1>0, <1>3 DEF RelReap, RelReturn, RelUnlooped, RelTypeOK
  <2> QED BY <1>0, <2>1 DEF RelIInv, RelTypeOK
<1>4. CASE RelTick
  <2>1. /\ ticks > 0 /\ ticks' = ticks - 1 /\ (\A p \in End : sess[p].age < Ttl)
        /\ relQuiet' = [p \in End |-> TRUE] /\ sess' = [p \in End |-> RelAged(sess[p])]
        /\ UNCHANGED <<serving, regs, relConn, outages, relCopy, relay, answer, need, relPoll>>
    BY <1>4 DEF RelTick, RelUnlooped
  <2>2. ASSUME NEW q \in End
        PROVE  sess'[q] \in RelSess /\ sess'[q].at = sess[q].at /\ (~Relaying(sess'[q]) => sess'[q] = NoSess)
    <3>1. sess[q] \in RelSess /\ (~Relaying(sess[q]) => sess[q] = NoSess) /\ sess[q].age < Ttl /\ sess'[q] = RelAged(sess[q])
      BY <1>0, <2>1 DEF RelTypeOK, RelSess
    <3>2. CASE ~Relaying(sess[q])
      BY <3>1, <3>2 DEF RelAged
    <3>3. CASE Relaying(sess[q])
      <4> DEFINE l == sess[q].lives /\ sess[q].age + 1 < Ttl
      <4>1. sess'[q] = [at |-> sess[q].at, lives |-> l, age |-> sess[q].age + 1]
        BY <3>1, <3>3 DEF RelAged, RelSess
      <4>2. l \in BOOLEAN /\ sess[q].age + 1 \in 0 .. Ttl
        BY <3>1, RelayEnds DEF RelSess
      <4> HIDE DEF l
      <4> QED BY <3>1, <3>3, <4>1, <4>2 DEF RelSess, Relaying
    <3> QED BY <3>2, <3>3
  <2>3. ticks' \in 0 .. MaxTick
    BY <1>0, <2>1, RelayEnds DEF RelTypeOK
  <2>4. sess' \in [End -> RelSess] /\ relQuiet' \in [End -> BOOLEAN]
    BY <2>1, <2>2
  <2>5. RelTypeOK'
    BY <1>0, <2>1, <2>2, <2>3, <2>4 DEF RelTypeOK, RelSess
  <2> QED BY <2>1, <2>2, <2>5 DEF RelIInv, Relaying
<1>5. CASE UNCHANGED relVars
  BY <1>0, <1>5 DEF relVars, RelIInv, RelTypeOK
<1> QED BY <1>1, <1>2, <1>3, <1>4, <1>5 DEF Relaying

LEMMA RelStart == RelInit => RelIInv
<1> SUFFICES ASSUME RelInit PROVE RelIInv
  OBVIOUS
<1>1. NoSess \in RelSess /\ NoAnswer \in [relay : Server \cup {RelNone}, had : BOOLEAN] /\ ~Relaying(NoSess)
  BY RelayEnds DEF NoSess, NoAnswer, RelSess, Relaying
<1>2. MaxRelOutage \in 0 .. MaxRelOutage /\ MaxTick \in 0 .. MaxTick
  BY RelayEnds
<1>3. relCopy \in [End -> [RelPlace -> Cred]]
  BY CopyShapes DEF RelInit
<1>4. RelTypeOK
  BY <1>1, <1>2, <1>3 DEF RelInit, RelTypeOK, RelSess
<1> QED BY <1>1, <1>4 DEF RelIInv, RelInit

\* A relay session is given up only on an answer made while the coordinator had no relay
\* to offer: an end that relays says so in every request, and is then named a relay if
\* there is one (relay.rs ensure, is_relaying; nat.rs relay_target; daemon.rs sync_relays).
THEOREM RelayIsKept == RelSpec => RelaySafe
<1>1. RelIInv /\ [RelNext]_relVars => RelIInv'
  BY LoopKeeps, ServeKeeps, RelWorld DEF RelNext
<1>2. RelIInv /\ [RelNext]_relVars
      => [\A p \in End : Relaying(sess[p]) /\ ~Relaying(sess[p])' => ~answer[p].had]_relVars
  <2> SUFFICES ASSUME RelIInv, RelNext, NEW p \in End, Relaying(sess[p]), ~Relaying(sess'[p]) PROVE ~answer[p].had
    BY DEF Relaying
  <2>1. \/ \E q \in End : RelRecheck(q) \/ RelToggle(q) \/ RelRefreshed(q)
    BY ServeKeeps, RelWorld DEF RelNext
  <2> QED BY <2>1, LoopKeeps
<1>3. RelIInv => RelTypeOK
  BY DEF RelIInv
<1> QED BY <1>1, <1>2, <1>3, RelStart, PTL DEF RelSpec, RelaySafe, RelayKept

-----------------------------------------------------------------------------
(* The LAN beacon.                                                          *)

\* An answer on the wire is no older than the nonce it carries, one on the shelf no older
\* than its own age and the life of a nonce.
BeaconIInv ==
  /\ BeaconTypeOK
  /\ wire.from # None /\ wire.current /\ pending >= 0 => answered[wire.from] <= pending
  /\ acked.addr # None => answered[acked.addr] < acked.age + AckTtl

LEMMA BeaconTimes ==
  /\ CandTtl \in Nat /\ AckTtl \in Nat /\ ProbeGrace \in Nat /\ ProbeBackoff \in Nat /\ BeaconSettle \in Nat
  /\ VerifyGrace \in Nat /\ StaleGrace \in Nat /\ Cooldown \in Nat /\ AckTtl > 0 /\ None \notin Lan
BY BeaconAssumption DEF None

LEMMA CapBounds == Cap \in Nat /\ Cap >= 2 * AckTtl + 1 /\ Cap >= 1
<1> DEFINE S == {CandTtl, 2 * AckTtl + 1, ProbeGrace, VerifyGrace, StaleGrace, Cooldown}
<1>1. S \subseteq Nat /\ 2 * AckTtl + 1 \in S
  BY BeaconTimes
<1>2. \E x \in S : \A y \in S : x >= y
  BY BeaconTimes
<1> HIDE DEF S
<1>3. Max(S) \in S /\ \A y \in S : Max(S) >= y
  BY <1>2 DEF Max
<1>4. Cap = Max(S)
  BY DEF Cap, S
<1>5. Max(S) \in Nat /\ Max(S) >= 2 * AckTtl + 1
  BY <1>1, <1>3
<1> QED BY <1>4, <1>5, BeaconTimes

LEMMA OldShape == ASSUME NEW n \in 0 .. Cap PROVE Old(n) \in 0 .. Cap /\ Old(n) <= n + 1 /\ (Old(n) = n + 1 \/ Old(n) = Cap)
BY CapBounds DEF Old

LanStates == [kind : {"none", "probing", "trying", "active", "failed"}, addr : Lan \cup {None}, age : 0 .. Cap]

LEMMA AgedShape ==
  /\ \A r \in Timed : /\ Aged(r) \in Timed /\ Aged(r).addr = r.addr
                      /\ r.addr # None => Aged(r).age = Old(r.age)
  /\ \A s \in LanStates : Aged(s) \in LanStates /\ Aged(s).addr = s.addr /\ Aged(s).kind = s.kind
<1>1. ASSUME NEW r \in Timed
      PROVE  Aged(r) \in Timed /\ Aged(r).addr = r.addr /\ (r.addr # None => Aged(r).age = Old(r.age))
  <2>1. Old(r.age) \in 0 .. Cap
    BY OldShape DEF Timed
  <2> QED BY <2>1 DEF Aged, Timed
<1>2. ASSUME NEW s \in LanStates PROVE Aged(s) \in LanStates /\ Aged(s).addr = s.addr /\ Aged(s).kind = s.kind
  <2>1. Old(s.age) \in 0 .. Cap
    BY OldShape DEF LanStates
  <2> QED BY <2>1 DEF Aged, LanStates
<1> QED BY <1>1, <1>2

\* What one pass makes of the peer's state, and on what evidence it starts a route.
LEMMA StepShape ==
  ASSUME BeaconTypeOK, NEW ok \in BOOLEAN, cand.addr # None,
         NEW s, s = BeaconStep(cand, ok)
  PROVE  /\ s \in LanStates
         /\ Routed(s) # None /\ Routed(s) # Routed(state) =>
              Routed(state) = None /\ acked.addr = Routed(s) /\ acked.age < AckTtl /\ s.kind = "trying"
<1>0. /\ state \in LanStates /\ cand \in Timed /\ acked \in Timed /\ 0 \in 0 .. Cap
      /\ state.kind \in {"none", "probing", "trying", "active", "failed"} /\ state.addr \in Lan \cup {None} /\ state.age \in 0 .. Cap
      /\ cand.addr \in Lan \cup {None}
  BY CapBounds DEF BeaconTypeOK, LanStates, Timed
<1>1. Idle \in LanStates /\ Idle.kind = "none"
  BY CapBounds DEF Idle, LanStates
<1>2. \A k \in {"none", "probing", "trying", "active", "failed"} : \A a \in Lan \cup {None} :
        St(k, a, 0) \in LanStates /\ St(k, a, 0).kind = k /\ St(k, a, 0).addr = a
  BY <1>0 DEF St, LanStates
<1>3. ASSUME NEW c, c.addr \in Lan \cup {None}, Begun(c) = s, Routed(state) = None
      PROVE  s \in LanStates /\ (Routed(s) # None => acked.addr = Routed(s) /\ acked.age < AckTtl /\ s.kind = "trying")
  BY <1>1, <1>2, <1>3 DEF Begun, AckFresh, Routed
<1>4. CASE state.kind = "none"
  <2>1. s = Begun(cand) /\ Routed(state) = None
    BY <1>4 DEF BeaconStep, Routed
  <2> QED BY <1>0, <1>3, <1>4, <2>1
<1>5. CASE state.kind = "probing"
  <2>1. s = Probed(state) /\ Routed(state) = None
    BY <1>5 DEF BeaconStep, Routed
  <2>2. s \in {St("trying", state.addr, 0), Idle, state}
    BY <2>1 DEF Probed
  <2>3. s = St("trying", state.addr, 0) \/ Routed(s) = None
    BY <1>1, <1>5, <2>2 DEF Routed
  <2>4. Routed(s) # None => AckFresh(state.addr)
    BY <1>1, <1>5, <2>1 DEF Probed, Routed
  <2>5. St("trying", state.addr, 0) \in LanStates /\ Routed(St("trying", state.addr, 0)) = state.addr
    BY <1>0, <1>2 DEF Routed
  <2> QED BY <1>0, <1>1, <1>2, <2>1, <2>2, <2>3, <2>4, <2>5 DEF AckFresh
<1>6. CASE state.kind = "trying"
  <2>1. s \in {state, St("active", state.addr, 0), St("failed", state.addr, 0)}
    BY <1>6 DEF BeaconStep, Tried
  <2>4. \A k \in {"active", "failed"} : St(k, state.addr, 0) \in LanStates /\ St(k, state.addr, 0).addr = state.addr
    BY <1>0, <1>2
  <2>5. s \in LanStates /\ s.addr = state.addr
    BY <1>0, <2>1, <2>4
  <2>2. s \in LanStates /\ Routed(s) \in {None, state.addr}
    BY <2>5 DEF Routed
  <2>3. Routed(state) = state.addr
    BY <1>6 DEF Routed
  <2> QED BY <2>2, <2>3
<1>7. CASE state.kind = "active"
  <2>1. s \in {[state EXCEPT !.age = 0], state, St("failed", state.addr, 0)}
    BY <1>7 DEF BeaconStep, Stayed
  <2>2. [state EXCEPT !.age = 0] \in LanStates /\ [state EXCEPT !.age = 0].addr = state.addr
    BY <1>0 DEF LanStates
  <2>5. St("failed", state.addr, 0) \in LanStates /\ St("failed", state.addr, 0).addr = state.addr
    BY <1>0, <1>2
  <2>6. s \in LanStates /\ s.addr = state.addr
    BY <1>0, <2>1, <2>2, <2>5
  <2>3. s \in LanStates /\ Routed(s) \in {None, state.addr}
    BY <2>6 DEF Routed
  <2>4. Routed(state) = state.addr
    BY <1>7 DEF Routed
  <2> QED BY <2>3, <2>4
<1>8. CASE state.kind = "failed"
  <2>1. s \in {state, Begun(cand)} /\ Routed(state) = None
    BY <1>8 DEF BeaconStep, Routed
  <2> QED BY <1>0, <1>3, <2>1
<1> QED BY <1>0, <1>4, <1>5, <1>6, <1>7, <1>8

LEMMA BeaconStart == BeaconInit => BeaconIInv
<1> SUFFICES ASSUME BeaconInit PROVE BeaconIInv
  OBVIOUS
<1>1. NoAddr \in Timed /\ Idle \in LanStates
  BY CapBounds DEF NoAddr, Idle, Timed, LanStates
<1>2. [from |-> None, current |-> FALSE] \in [from : Lan \cup {None}, current : BOOLEAN]
      /\ -1 \in -1 .. Cap /\ 0 \in 0 .. ProbeBackoff /\ Cap \in 0 .. Cap
  BY CapBounds, BeaconTimes
<1>3. BeaconTypeOK
  BY <1>1, <1>2 DEF BeaconInit, BeaconTypeOK, LanStates, Idle
<1> QED BY <1>3 DEF BeaconIInv, BeaconInit, NoAddr

LEMMA PassKeepsBeacon ==
  ASSUME BeaconIInv, NEW ok \in BOOLEAN, BeaconPass(ok)
  PROVE  /\ BeaconIInv'
         /\ lan' # None /\ lan' # lan => lan = None /\ answered'[lan'] < 2 * AckTtl
<1> DEFINE s == IF ~member THEN Idle ELSE IF ~BeaconLive(cand) THEN Unseen ELSE BeaconStep(cand, ok)
           probe == s.kind = "probing"
<1>0. BeaconTypeOK
  BY DEF BeaconIInv
<1>1. /\ loop' = "select" /\ ticked' = FALSE /\ gate' = member
      /\ cand' = BeaconKept(cand, CandTtl) /\ acked' = BeaconKept(acked, AckTtl)
      /\ state' = s /\ lan' = Routed(s) /\ changed' = (lan' # lan)
      /\ backoff' = (IF ~member THEN 0
                     ELSE IF state.kind = "probing" /\ s.kind = "none" /\ BeaconLive(cand) THEN ProbeBackoff
                     ELSE backoff)
      /\ pending' = (IF probe THEN 0 ELSE IF ~member \/ pending >= CandTtl THEN -1 ELSE pending)
      /\ UNCHANGED <<at, member, lanRoute>>
  BY DEF BeaconPass
<1>2. \/ wire' = (IF probe THEN [wire EXCEPT !.current = FALSE] ELSE wire) /\ UNCHANGED answered
      \/ probe /\ s.addr = at /\ wire' = [from |-> at, current |-> TRUE] /\ answered' = [answered EXCEPT ![at] = 0]
  BY DEF BeaconPass
<1>3. /\ s \in LanStates
      /\ Routed(s) # None /\ Routed(s) # Routed(state) =>
           Routed(state) = None /\ acked.addr = Routed(s) /\ acked.age < AckTtl /\ s.kind = "trying"
  <2>1. CASE ~member \/ ~BeaconLive(cand)
    <3>1. s = Idle /\ Idle \in LanStates /\ Idle.kind = "none"
      BY <2>1, CapBounds DEF Unseen, Idle, LanStates
    <3> QED BY <3>1 DEF Routed
  <2>2. CASE member /\ BeaconLive(cand)
    <3>1. s = BeaconStep(cand, ok) /\ cand.addr # None
      BY <2>2 DEF BeaconLive
    <3> HIDE DEF s
    <3> QED BY <1>0, <3>1, StepShape
  <2> QED BY <2>1, <2>2
<1> HIDE DEF s
<1>4. lan = Routed(state) /\ lan' = (IF state'.kind \in {"trying", "active"} THEN state'.addr ELSE None)
  BY <1>0, <1>1 DEF Routed, BeaconTypeOK
<1>5. cand' \in Timed /\ acked' \in Timed /\ (acked' = acked \/ acked'.addr = None)
  <2>1. NoAddr \in Timed /\ NoAddr.addr = None
    BY CapBounds DEF NoAddr, Timed
  <2> QED BY <1>0, <1>1, <2>1 DEF BeaconKept, BeaconTypeOK
<1>6. pending' \in -1 .. Cap /\ backoff' \in 0 .. ProbeBackoff
  BY <1>0, <1>1, CapBounds, BeaconTimes DEF BeaconTypeOK
<1>7. wire' \in [from : Lan \cup {None}, current : BOOLEAN]
  <2>1. wire \in [from : Lan \cup {None}, current : BOOLEAN] /\ at \in Lan \cup {None}
    BY <1>0 DEF BeaconTypeOK
  <2>2. [wire EXCEPT !.current = FALSE] \in [from : Lan \cup {None}, current : BOOLEAN]
    BY <2>1
  <2>3. [from |-> at, current |-> TRUE] \in [from : Lan \cup {None}, current : BOOLEAN]
    BY <2>1
  <2> QED BY <1>2, <2>1, <2>2, <2>3
<1>8. answered' \in [Lan -> 0 .. Cap]
  BY <1>0, <1>2, CapBounds DEF BeaconTypeOK
<1>9. \A a \in Lan : answered'[a] <= answered[a] /\ answered[a] \in 0 .. Cap
  BY <1>0, <1>2, CapBounds DEF BeaconTypeOK
<1>10. BeaconTypeOK'
  BY <1>0, <1>1, <1>3, <1>4, <1>5, <1>6, <1>7, <1>8 DEF BeaconTypeOK, LanStates
<1>11. wire'.from # None /\ wire'.current /\ pending' >= 0 => answered'[wire'.from] <= pending'
  <2> SUFFICES ASSUME wire'.from # None, wire'.current, pending' >= 0 PROVE answered'[wire'.from] <= pending'
    OBVIOUS
  <2>1. CASE probe /\ wire' = [from |-> at, current |-> TRUE] /\ answered' = [answered EXCEPT ![at] = 0]
    <3>1. wire'.from = at /\ at \in Lan
      BY <1>0, <2>1 DEF BeaconTypeOK
    <3>2. answered'[at] = 0 /\ pending' = 0
      BY <1>0, <1>1, <2>1, <3>1 DEF BeaconTypeOK
    <3> QED BY <3>1, <3>2
  <2>2. CASE wire' = (IF probe THEN [wire EXCEPT !.current = FALSE] ELSE wire) /\ UNCHANGED answered
    <3>1. ~probe /\ wire' = wire
      BY <1>0, <2>2 DEF BeaconTypeOK
    <3>2. pending' = pending
      BY <1>1, <3>1
    <3> QED BY <2>2, <3>1, <3>2 DEF BeaconIInv
  <2> QED BY <1>2, <2>1, <2>2
<1>12. acked'.addr # None => answered'[acked'.addr] < acked'.age + AckTtl
  <2> SUFFICES ASSUME acked'.addr # None PROVE answered'[acked'.addr] < acked'.age + AckTtl
    OBVIOUS
  <2>1. acked' = acked /\ acked.addr \in Lan /\ acked.age \in 0 .. Cap
    BY <1>0, <1>5 DEF BeaconTypeOK, Timed
  <2>2. answered[acked.addr] < acked.age + AckTtl
    BY <2>1 DEF BeaconIInv
  <2>3. answered'[acked.addr] \in Int /\ answered[acked.addr] \in Int /\ answered'[acked.addr] <= answered[acked.addr]
    BY <1>8, <1>9, <2>1
  <2> QED BY <2>1, <2>2, <2>3, BeaconTimes
<1>13. ASSUME lan' # None, lan' # lan PROVE lan = None /\ answered'[lan'] < 2 * AckTtl
  <2>1. lan = None /\ acked.addr = lan' /\ acked.age < AckTtl /\ s.kind = "trying"
    BY <1>1, <1>3, <1>4, <1>13
  <2>2. answered' = answered
    BY <1>2, <2>1
  <2>3. acked.age \in 0 .. Cap /\ lan' \in Lan
    BY <1>0, <1>13, <2>1 DEF BeaconTypeOK, Timed
  <2>4. answered[lan'] \in 0 .. Cap /\ answered[lan'] < acked.age + AckTtl
    BY <1>13, <1>9, <2>1, <2>3 DEF BeaconIInv
  <2> QED BY <2>1, <2>2, <2>3, <2>4, BeaconTimes
<1> QED BY <1>10, <1>11, <1>12, <1>13 DEF BeaconIInv

LEMMA AckKeeps ==
  ASSUME BeaconIInv, Ack
  PROVE  BeaconIInv' /\ lan' = lan
<1>0. BeaconTypeOK
  BY DEF BeaconIInv
<1>1. /\ wire.from \in Lan /\ wire' = [wire EXCEPT !.from = None]
      /\ cand' = (IF gate THEN [addr |-> wire.from, age |-> 0] ELSE cand)
      /\ acked' = (IF gate /\ FreshNonce THEN [addr |-> wire.from, age |-> 0] ELSE acked)
      /\ UNCHANGED <<gate, pending, at, member, answered, state, backoff, lan, changed, lanRoute, loop, ticked>>
  BY <1>0 DEF Ack, radioVars, ownVars, BeaconTypeOK
<1>2. [addr |-> wire.from, age |-> 0] \in Timed
  BY <1>1, CapBounds DEF Timed
<1>3. BeaconTypeOK'
  BY <1>0, <1>1, <1>2 DEF BeaconTypeOK
<1>4. wire'.from = None
  BY <1>0, <1>1 DEF BeaconTypeOK
<1>5. acked'.addr # None => answered'[acked'.addr] < acked'.age + AckTtl
  <2>1. CASE gate /\ FreshNonce
    <3>1. acked' = [addr |-> wire.from, age |-> 0] /\ pending >= 0 /\ pending < AckTtl /\ wire.current
      BY <1>1, <2>1 DEF FreshNonce
    <3>2. answered[wire.from] <= pending /\ answered[wire.from] \in 0 .. Cap /\ pending \in -1 .. Cap
      BY <1>0, <1>1, <3>1, BeaconTimes DEF BeaconIInv, BeaconTypeOK
    <3> QED BY <1>1, <3>1, <3>2, BeaconTimes
  <2>2. CASE ~(gate /\ FreshNonce)
    BY <1>1, <2>2 DEF BeaconIInv
  <2> QED BY <2>1, <2>2
<1> QED BY <1>1, <1>3, <1>4, <1>5 DEF BeaconIInv

LEMMA TickKeepsBeacon ==
  ASSUME BeaconIInv, BeaconTick
  PROVE  BeaconIInv' /\ lan' = lan
<1>0. BeaconTypeOK /\ cand \in Timed /\ acked \in Timed /\ state \in LanStates /\ answered \in [Lan -> 0 .. Cap]
      /\ pending \in -1 .. Cap /\ backoff \in 0 .. ProbeBackoff
  BY DEF BeaconIInv, BeaconTypeOK, LanStates
<1>1. /\ ticked' = TRUE /\ cand' = Aged(cand) /\ acked' = Aged(acked) /\ state' = Aged(state)
      /\ pending' = (IF pending < 0 THEN pending ELSE Old(pending))
      /\ backoff' = Max({backoff - 1, 0}) /\ answered' = [a \in Lan |-> Old(answered[a])]
      /\ UNCHANGED <<at, member, gate, wire, lan, changed, lanRoute, loop>>
  BY DEF BeaconTick
<1>2. backoff' \in 0 .. ProbeBackoff
  <2> DEFINE S == {backoff - 1, 0}
  <2>1. \E x \in S : \A y \in S : x >= y
    BY <1>0
  <2>2. S \subseteq Int /\ \A x \in S : (\A y \in S : x >= y) => x \in 0 .. ProbeBackoff
    BY <1>0, BeaconTimes
  <2> HIDE DEF S
  <2>3. Max(S) \in 0 .. ProbeBackoff
    BY <2>1, <2>2 DEF Max
  <2> QED BY <1>1, <2>3 DEF S
<1>3. /\ cand' \in Timed /\ acked' \in Timed /\ acked'.addr = acked.addr
      /\ state' \in LanStates /\ state'.addr = state.addr /\ state'.kind = state.kind
      /\ (acked.addr # None => acked'.age = Old(acked.age))
  BY <1>0, <1>1, AgedShape
<1>4. pending' \in -1 .. Cap /\ answered' \in [Lan -> 0 .. Cap]
  BY <1>0, <1>1, OldShape
<1>5. BeaconTypeOK'
  BY <1>0, <1>1, <1>2, <1>3, <1>4 DEF BeaconTypeOK, LanStates
<1>6. wire.from # None /\ wire.current /\ pending' >= 0 => answered'[wire.from] <= pending'
  <2> SUFFICES ASSUME wire.from # None, wire.current, pending' >= 0 PROVE answered'[wire.from] <= pending'
    OBVIOUS
  <2>1. pending \in 0 .. Cap /\ pending' = Old(pending) /\ wire.from \in Lan
    BY <1>0, <1>1 DEF BeaconTypeOK
  <2>2. answered[wire.from] <= pending /\ answered[wire.from] \in 0 .. Cap /\ answered'[wire.from] = Old(answered[wire.from])
    BY <1>0, <1>1, <2>1 DEF BeaconIInv
  <2> QED BY <2>1, <2>2, CapBounds DEF Old
<1>7. acked.addr # None => answered'[acked.addr] < acked'.age + AckTtl
  <2> SUFFICES ASSUME acked.addr # None PROVE answered'[acked.addr] < acked'.age + AckTtl
    OBVIOUS
  <2>1. acked.addr \in Lan /\ acked.age \in 0 .. Cap /\ acked'.age = Old(acked.age)
    BY <1>0, <1>3 DEF Timed
  <2>2. answered[acked.addr] < acked.age + AckTtl /\ answered[acked.addr] \in 0 .. Cap
        /\ answered'[acked.addr] = Old(answered[acked.addr])
    BY <1>0, <1>1, <2>1 DEF BeaconIInv
  <2> QED BY <2>1, <2>2, CapBounds, BeaconTimes DEF Old
<1> QED BY <1>1, <1>3, <1>5, <1>6, <1>7 DEF BeaconIInv

LEMMA BeaconWorld ==
  ASSUME BeaconIInv, \/ BeaconRecheck \/ BeaconRefreshed \/ BeaconRefreshFails \/ Awake \/ UNCHANGED beaconVars
                     \/ (\E a \in Lan : Announce(a)) \/ \E a \in Lan \cup {None} : Move(a)
  PROVE  BeaconIInv' /\ lan' = lan
<1>0. BeaconTypeOK /\ lan \in Lan \cup {None}
  BY DEF BeaconIInv, BeaconTypeOK
<1>1. CASE BeaconRecheck \/ BeaconRefreshed \/ BeaconRefreshFails \/ Awake \/ UNCHANGED beaconVars
  BY <1>0, <1>1 DEF BeaconRecheck, BeaconRefreshed, BeaconRefreshFails, Awake, beaconVars, radioVars, netVars, ownVars,
                    Applied, BeaconIInv, BeaconTypeOK
<1>2. CASE \E a \in Lan : Announce(a)
  <2>1. /\ cand' \in Timed
        /\ UNCHANGED <<gate, acked, pending, wire, at, member, answered, state, backoff, lan, changed, lanRoute, loop, ticked>>
    BY <1>2, CapBounds DEF Announce, radioVars, ownVars, Timed
  <2> QED BY <1>0, <2>1 DEF BeaconIInv, BeaconTypeOK
<1>3. CASE \E a \in Lan \cup {None} : Move(a)
  BY <1>0, <1>3 DEF Move, netVars, ownVars, BeaconIInv, BeaconTypeOK
<1> QED BY <1>1, <1>2, <1>3

\* A peer is pointed at a LAN address only on an answer it gave there within two ack
\* lifetimes, and is never moved from one address to another without going back to the
\* coordinator's path first (beacon.rs step, ack_fresh): for any timers in the
\* order BeaconAssumption keeps and any addresses.
THEOREM BeaconIsSafe == BeaconSpec => BeaconSafe
<1>1. BeaconIInv /\ [BeaconNext]_beaconVars => BeaconIInv'
  BY PassKeepsBeacon, AckKeeps, TickKeepsBeacon, BeaconWorld DEF BeaconNext, Loop
<1>2. BeaconIInv /\ [BeaconNext]_beaconVars
      => [lan' # None /\ lan' # lan => answered'[lan'] < 2 * AckTtl]_beaconVars
  BY PassKeepsBeacon, AckKeeps, TickKeepsBeacon, BeaconWorld DEF BeaconNext, Loop
<1>3. BeaconIInv /\ [BeaconNext]_beaconVars
      => [lan # None /\ lan' # None => lan' = lan]_beaconVars
  BY PassKeepsBeacon, AckKeeps, TickKeepsBeacon, BeaconWorld DEF BeaconNext, Loop
<1>4. BeaconIInv => BeaconTypeOK
  BY DEF BeaconIInv
<1> QED BY <1>1, <1>2, <1>3, <1>4, BeaconStart, PTL DEF BeaconSpec, BeaconSafe, EvidenceIsRecent, NoHops

-----------------------------------------------------------------------------
(* Attestations between peers.                                              *)

\* What a pass has left to say: while the loop has made its pass, the request in flight
\* carries what the pass found due; a member's age is counted from when it left.
GossipIInv ==
  /\ GossipTypeOK /\ mesh \cap Skewed = {}
  /\ passed => /\ req.on
               /\ mine <= Hold => req.now
               /\ (\E p \in mesh : left[p] <= FullMargin) => req.now
  /\ gossipCalm > 0 => mine > 0 /\ \A p \in mesh : left[p] > 0
  /\ \A p \in Peer : /\ p \in members => gone[p] = 0
                     /\ p \in mesh => left[p] + gone[p] <= GossipLife
                     /\ own[p] > 0 => own[p] + gone[p] <= GossipLife

LEMMA GossipTimes ==
  /\ GossipLife \in Nat /\ Hold \in Nat /\ FullMargin \in Nat /\ MaxFlip \in Nat
  /\ 0 < FullMargin /\ FullMargin < Hold /\ Hold < GossipLife
  /\ Fresh \subseteq 1 .. GossipLife /\ Skewed \subseteq Peer
<1>1. /\ GossipLife \in Nat /\ Hold \in Nat /\ FullMargin \in Nat /\ MaxFlip \in Nat
      /\ 0 < FullMargin /\ FullMargin < Hold /\ Hold < GossipLife /\ Skewed \subseteq Peer
  BY GossipAssumption
<1>2. GossipLife \div 2 \in 1 .. GossipLife
  BY <1>1
<1> QED BY <1>1, <1>2 DEF Fresh

LEMMA LessShape ==
  ASSUME NEW top \in Nat, NEW n \in 0 .. top
  PROVE  /\ Less(n) \in 0 .. top /\ Less(n) <= n /\ (n > 0 => Less(n) = n - 1)
         /\ More(n, top) \in 0 .. top /\ More(n, top) <= n + 1
         /\ (top > 0 => More(n, top) > 0)
BY DEF Less, More

LEMMA NoReqType == NoReq \in [on : BOOLEAN, held : SUBSET Peer, now : BOOLEAN, age : 0 .. Hold]
<1>1. 0 \in 0 .. Hold
  BY GossipTimes
<1> QED BY <1>1 DEF NoReq

LEMMA GossipStart == GossipInit => GossipIInv
<1> SUFFICES ASSUME GossipInit PROVE GossipIInv
  OBVIOUS
<1>1. mesh = Peer \ Skewed /\ members = Peer /\ up = mesh /\ coordUp = TRUE
      /\ own = [p \in Peer |-> IF p \in mesh THEN GossipLife ELSE 0] /\ mine = GossipLife
      /\ req = NoReq /\ news = FALSE /\ passed = FALSE
      /\ gossipCalm = GossipLife /\ gone = [p \in Peer |-> 0] /\ flips = MaxFlip
  BY DEF GossipInit
<1>2. PICK n \in Fresh : left = [p \in Peer |-> IF p \in mesh THEN n ELSE 0]
  BY DEF GossipInit
<1>3. n \in 1 .. GossipLife
  BY GossipTimes
<1>6. req \in [on : BOOLEAN, held : SUBSET Peer, now : BOOLEAN, age : 0 .. Hold]
  BY <1>1, NoReqType
<1>7. left \in [Peer -> 0 .. GossipLife] /\ own \in [Peer -> 0 .. GossipLife] /\ gone \in [Peer -> 0 .. GossipLife + 1]
  BY <1>1, <1>2, <1>3, GossipTimes
<1>8. flips \in 0 .. MaxFlip /\ gossipCalm \in 0 .. GossipLife /\ mine \in 0 .. GossipLife
  BY <1>1, GossipTimes
<1>4. GossipTypeOK
  BY <1>1, <1>6, <1>7, <1>8 DEF GossipTypeOK
<1>5. \A p \in Peer : /\ p \in mesh => left[p] > 0 /\ left[p] + gone[p] <= GossipLife
                      /\ own[p] > 0 => own[p] + gone[p] <= GossipLife
  BY <1>1, <1>2, <1>3, GossipTimes
<1> QED BY <1>1, <1>4, <1>5, GossipTimes DEF GossipIInv

LEMMA PassKeeps ==
  ASSUME GossipIInv, GossipPass
  PROVE  GossipIInv' /\ (gossipCalm > 0 => mesh' = mesh)
<1> DEFINE L(got) == [p \in Peer |-> IF p \in got THEN own[p] ELSE left[p]]
<1>0. GossipTypeOK
  BY DEF GossipIInv
<1>1. PICK got \in SUBSET Pullable :
        LET l == [p \in Peer |-> IF p \in got THEN own[p] ELSE left[p]]
            m == GossipKept(mesh, l)
            report == OwnGrantStale \/ ForcedFull(m, l)
        IN /\ left' = [p \in Peer |-> IF p \in m THEN l[p] ELSE 0] /\ mesh' = m
           /\ req' = IF req.on /\ ~report THEN req
                     ELSE [on |-> TRUE, held |-> HeldForRefresh(m, l), now |-> report, age |-> 0]
  BY DEF GossipPass
<1> DEFINE l == L(got)
           m == GossipKept(mesh, l)
           report == OwnGrantStale \/ ForcedFull(m, l)
<1>2. /\ left' = [p \in Peer |-> IF p \in m THEN l[p] ELSE 0] /\ mesh' = m
      /\ req' = IF req.on /\ ~report THEN req
                ELSE [on |-> TRUE, held |-> HeldForRefresh(m, l), now |-> report, age |-> 0]
      /\ passed' = TRUE /\ UNCHANGED <<own, up, members, coordUp, news, mine, gossipCalm, gone, flips>>
  BY <1>1 DEF GossipPass
<1>3. \A p \in Peer : l[p] \in 0 .. GossipLife /\ l[p] >= left[p] /\ (l[p] = left[p] \/ (l[p] = own[p] /\ own[p] > 0))
  BY <1>0 DEF Pullable, Fresher, GossipTypeOK
<1>4. m \subseteq mesh /\ \A p \in mesh : p \in m <=> l[p] > 0
  BY DEF GossipKept
<1>5. HeldForRefresh(m, l) \in SUBSET Peer
  BY <1>0, <1>4 DEF HeldForRefresh, GossipTypeOK
<1>6. OwnGrantStale \in BOOLEAN /\ ForcedFull(m, l) \in BOOLEAN
  BY DEF OwnGrantStale, ForcedFull
<1>7. (\E p \in m : l[p] <= FullMargin) => ForcedFull(m, l)
  BY DEF ForcedFull, HeldForRefresh
<1> HIDE DEF l, m
<1>8. /\ left' \in [Peer -> 0 .. GossipLife] /\ mesh' \subseteq Peer /\ \A p \in mesh' : left'[p] > 0 /\ left'[p] = l[p]
  BY <1>0, <1>2, <1>3, <1>4, GossipTimes DEF GossipTypeOK
<1>9. req' \in [on : BOOLEAN, held : SUBSET Peer, now : BOOLEAN, age : 0 .. Hold] /\ req'.on /\ (report => req'.now)
  <2>1. CASE req.on /\ ~report
    BY <1>0, <1>2, <2>1 DEF GossipTypeOK
  <2>2. CASE ~(req.on /\ ~report)
    <3>1. req' = [on |-> TRUE, held |-> HeldForRefresh(m, l), now |-> report, age |-> 0] /\ report \in BOOLEAN /\ 0 \in 0 .. Hold
      BY <1>2, <1>6, <2>2, GossipTimes
    <3> HIDE DEF report
    <3> QED BY <1>5, <3>1
  <2> QED BY <2>1, <2>2
<1>10. GossipTypeOK'
  BY <1>0, <1>2, <1>8, <1>9 DEF GossipTypeOK
<1>11. /\ mine' <= Hold => req'.now
       /\ (\E p \in mesh' : left'[p] <= FullMargin) => req'.now
  BY <1>2, <1>7, <1>8, <1>9 DEF OwnGrantStale
<1>12. gossipCalm > 0 => mesh' = mesh
  <2> SUFFICES ASSUME gossipCalm > 0 PROVE m = mesh
    BY <1>2
  <2>1. \A p \in mesh : p \in Peer /\ left[p] > 0
    BY <1>0 DEF GossipIInv, GossipTypeOK
  <2>2. \A p \in mesh : l[p] > 0
    BY <1>0, <1>3, <2>1 DEF GossipTypeOK
  <2> QED BY <1>4, <2>2
<1>13. \A p \in Peer : /\ p \in members' => gone'[p] = 0
                       /\ p \in mesh' => left'[p] + gone'[p] <= GossipLife
                       /\ own'[p] > 0 => own'[p] + gone'[p] <= GossipLife
  BY <1>2, <1>3, <1>4, <1>8 DEF GossipIInv
<1>14. mesh' \cap Skewed = {} /\ (gossipCalm' > 0 => mine' > 0 /\ \A p \in mesh' : left'[p] > 0)
  BY <1>2, <1>4, <1>8 DEF GossipIInv
<1> QED BY <1>9, <1>10, <1>11, <1>12, <1>13, <1>14 DEF GossipIInv

LEMMA ReplyKeeps ==
  ASSUME GossipIInv, Reply
  PROVE  GossipIInv' /\ mesh \cap members \subseteq mesh'
<1>0. GossipTypeOK /\ mesh \cap Skewed = {}
  BY DEF GossipIInv
<1>1. PICK n \in Fresh, moved \in SUBSET (members \cap req.held) :
        LET sent == Admitted(Sent(req.held, moved)) IN
        /\ mesh' = Merged(req.held, sent)
        /\ left' = [p \in Peer |-> IF p \in sent THEN n ELSE IF p \in mesh' THEN left[p] ELSE 0]
  BY DEF Reply
<1> DEFINE sent == Admitted(Sent(req.held, moved))
<1>2. /\ mesh' = Merged(req.held, sent)
      /\ left' = [p \in Peer |-> IF p \in sent THEN n ELSE IF p \in mesh' THEN left[p] ELSE 0]
      /\ mine' = GossipLife /\ req' = NoReq /\ news' = FALSE /\ passed' = FALSE
      /\ UNCHANGED <<own, up, members, coordUp, gossipCalm, gone, flips>>
  BY <1>1 DEF Reply
<1>3. sent \subseteq members \ Skewed /\ members \subseteq Peer /\ (req.held = {} => sent = members \ Skewed)
  BY <1>0 DEF Admitted, Sent, GossipTypeOK
<1> HIDE DEF sent
<1>4. mesh' \subseteq mesh \cup sent /\ mesh \cap members \subseteq mesh'
  BY <1>0, <1>2, <1>3 DEF Merged, Removed
<1>5. n \in 1 .. GossipLife
  BY GossipTimes
<1>6. left' \in [Peer -> 0 .. GossipLife] /\ mesh' \subseteq Peer
  BY <1>0, <1>2, <1>3, <1>4, <1>5, GossipTimes DEF GossipTypeOK
<1>7. GossipTypeOK'
  <2>1. req' \in [on : BOOLEAN, held : SUBSET Peer, now : BOOLEAN, age : 0 .. Hold]
    BY <1>2, NoReqType
  <2>2. mine' \in 0 .. GossipLife
    BY <1>2, GossipTimes
  <2>3. news' \in BOOLEAN /\ passed' \in BOOLEAN /\ ~passed'
    BY <1>2
  <2> QED BY <1>0, <1>2, <1>6, <2>1, <2>2, <2>3 DEF GossipTypeOK
<1>8. ASSUME NEW p \in Peer
      PROVE  /\ p \in members' => gone'[p] = 0
             /\ p \in mesh' => left'[p] + gone'[p] <= GossipLife
             /\ own'[p] > 0 => own'[p] + gone'[p] <= GossipLife
  <2>1. p \in members => gone[p] = 0
    BY DEF GossipIInv
  <2>2. CASE p \in sent
    BY <1>2, <1>3, <1>5, <2>1, <2>2, GossipTimes DEF GossipIInv
  <2>3. CASE p \notin sent
    BY <1>2, <1>4, <2>1, <2>3 DEF GossipIInv
  <2> QED BY <2>2, <2>3
<1>9. mesh' \cap Skewed = {} /\ (gossipCalm' > 0 => mine' > 0 /\ \A p \in mesh' : left'[p] > 0)
  <2>1. mesh' \cap Skewed = {}
    BY <1>0, <1>3, <1>4
  <2>2. ASSUME gossipCalm > 0, NEW p \in mesh' PROVE left'[p] > 0
    <3>1. CASE p \in sent
      BY <1>2, <1>3, <1>5, <3>1
    <3>2. CASE p \notin sent
      <4>1. p \in mesh /\ p \in Peer
        BY <1>4, <1>6, <3>2
      <4> QED BY <1>2, <2>2, <3>2, <4>1 DEF GossipIInv
    <3> QED BY <3>1, <3>2
  <2> QED BY <1>2, <2>1, <2>2, GossipTimes
<1> QED BY <1>2, <1>4, <1>7, <1>8, <1>9 DEF GossipIInv

LEMMA TickKeeps ==
  ASSUME GossipIInv, GossipTick
  PROVE  GossipIInv'
<1>0. GossipTypeOK /\ passed /\ ~Answerable
  BY DEF GossipIInv, GossipTick
<1>1. /\ passed' = FALSE
      /\ left' = [p \in Peer |-> Less(left[p])] /\ own' = [p \in Peer |-> Less(own[p])]
      /\ mine' = Less(mine) /\ req' = [req EXCEPT !.age = More(@, Hold)]
      /\ gossipCalm' = IF coordUp THEN More(gossipCalm, GossipLife) ELSE 0
      /\ gone' = [p \in Peer |-> IF p \in members THEN 0 ELSE More(gone[p], GossipLife + 1)]
      /\ UNCHANGED <<mesh, up, members, coordUp, news, flips>>
  BY DEF GossipTick
<1>2. \A p \in Peer : left[p] \in 0 .. GossipLife /\ own[p] \in 0 .. GossipLife /\ gone[p] \in 0 .. GossipLife + 1
  BY <1>0 DEF GossipTypeOK
<1>3. mine \in 0 .. GossipLife /\ gossipCalm \in 0 .. GossipLife /\ req.age \in 0 .. Hold
  BY <1>0 DEF GossipTypeOK
<1>4. left' \in [Peer -> 0 .. GossipLife] /\ own' \in [Peer -> 0 .. GossipLife]
  BY <1>1, <1>2, LessShape, GossipTimes
<1>13. ASSUME NEW p \in Peer
       PROVE  gone'[p] \in 0 .. GossipLife + 1 /\ gone'[p] <= gone[p] + 1 /\ (p \in members => gone'[p] = 0)
  <2>1. GossipLife + 1 \in Nat /\ gone[p] \in 0 .. GossipLife + 1
    BY <1>2, GossipTimes
  <2>2. More(gone[p], GossipLife + 1) \in 0 .. GossipLife + 1 /\ More(gone[p], GossipLife + 1) <= gone[p] + 1
    BY <2>1 DEF More
  <2>3. gone'[p] = IF p \in members THEN 0 ELSE More(gone[p], GossipLife + 1)
    BY <1>1
  <2> QED BY <2>1, <2>2, <2>3
<1>5. gone' \in [Peer -> 0 .. GossipLife + 1]
  BY <1>1, <1>13
<1>6. mine' \in 0 .. GossipLife /\ gossipCalm' \in 0 .. GossipLife
  BY <1>1, <1>3, LessShape, GossipTimes
<1>7. req' \in [on : BOOLEAN, held : SUBSET Peer, now : BOOLEAN, age : 0 .. Hold]
  <2>1. More(req.age, Hold) \in 0 .. Hold
    BY <1>3, LessShape, GossipTimes
  <2> QED BY <1>0, <1>1, <2>1 DEF GossipTypeOK
<1>8. GossipTypeOK'
  BY <1>0, <1>1, <1>4, <1>5, <1>6, <1>7 DEF GossipTypeOK
<1>9. ASSUME NEW p \in Peer
      PROVE  /\ p \in members' => gone'[p] = 0
             /\ p \in mesh' => left'[p] + gone'[p] <= GossipLife
             /\ own'[p] > 0 => own'[p] + gone'[p] <= GossipLife
  <2>1. /\ left'[p] = Less(left[p]) /\ own'[p] = Less(own[p]) /\ gone'[p] \in Nat /\ gone'[p] <= gone[p] + 1
        /\ (p \in members => gone'[p] = 0)
    BY <1>1, <1>13, GossipTimes
  <2>2. p \in mesh => left[p] > 0 /\ left[p] + gone[p] <= GossipLife
    BY <1>0 DEF GossipIInv, GossipTypeOK
  <2>3. own[p] > 0 => own[p] + gone[p] <= GossipLife
    BY DEF GossipIInv
  <2>4. (left[p] > 0 => Less(left[p]) = left[p] - 1) /\ (own[p] > 0 => Less(own[p]) = own[p] - 1) /\ Less(own[p]) <= own[p]
    BY <1>2, LessShape, GossipTimes
  <2>7. left[p] \in Int /\ own[p] \in Nat /\ gone[p] \in Int /\ gone'[p] \in Int /\ GossipLife \in Int
    BY <1>2, <2>1, GossipTimes
  <2>5. p \in mesh => left'[p] + gone'[p] <= GossipLife
    BY <2>1, <2>2, <2>4, <2>7
  <2>6. own'[p] > 0 => own'[p] + gone'[p] <= GossipLife
    <3>1. CASE own[p] > 0
      <4>1. own'[p] = own[p] - 1 /\ own[p] + gone[p] <= GossipLife
        BY <2>1, <2>3, <2>4, <3>1
      <4> QED BY <2>1, <2>7, <4>1
    <3>2. CASE ~(own[p] > 0)
      <4>1. own'[p] <= own[p] /\ own'[p] \in Int
        BY <1>2, <1>4, <2>1, <2>4
      <4> QED BY <2>7, <3>2, <4>1
    <3> QED BY <3>1, <3>2
  <2> QED BY <1>1, <2>1, <2>5, <2>6
<1>10. ASSUME coordUp PROVE mine' > 0 /\ \A p \in mesh : left'[p] > 0
  <2>1. req.on /\ ~req.now
    BY <1>0, <1>10 DEF GossipIInv, Answerable
  <2>2. mine > Hold /\ \A p \in mesh : left[p] > FullMargin
    BY <1>0, <1>2, <1>3, <2>1, GossipTimes DEF GossipIInv, GossipTypeOK
  <2>3. mine' = mine - 1
    BY <1>1, <1>3, <2>2, LessShape, GossipTimes
  <2>4. ASSUME NEW p \in mesh PROVE left'[p] > 0
    <3>1. p \in Peer /\ left[p] > FullMargin
      BY <1>0, <2>2 DEF GossipTypeOK
    <3>2. left'[p] = left[p] - 1
      BY <1>1, <1>2, <3>1, LessShape, GossipTimes
    <3> QED BY <1>2, <3>1, <3>2, GossipTimes
  <2> QED BY <1>3, <2>2, <2>3, <2>4, GossipTimes
<1>11. gossipCalm' > 0 => mine' > 0 /\ \A p \in mesh' : left'[p] > 0
  BY <1>1, <1>10
<1>12. ~passed' /\ mesh' \cap Skewed = {}
  BY <1>1 DEF GossipIInv
<1> QED BY <1>8, <1>9, <1>11, <1>12 DEF GossipIInv

LEMMA GossipWorld ==
  ASSUME GossipIInv, \/ Fails \/ GossipToggle \/ Coordinator \/ UNCHANGED gossipVars
                     \/ \E p \in Peer : Member(p)
                     \/ \E p \in Peer \ Skewed : Renew(p) \/ Power(p)
  PROVE  GossipIInv' /\ mesh' = mesh
<1>0. GossipTypeOK /\ flips \in 0 .. MaxFlip /\ MaxFlip \in Nat /\ GossipLife \in Nat
  BY GossipTimes DEF GossipIInv, GossipTypeOK
<1>1. NoReq \in [on : BOOLEAN, held : SUBSET Peer, now : BOOLEAN, age : 0 .. Hold]
  BY GossipTimes DEF NoReq
<1>2. CASE Fails \/ GossipToggle
  <2>1. /\ req' = NoReq /\ passed' = FALSE /\ (flips' = flips \/ (flips > 0 /\ flips' = flips - 1))
        /\ UNCHANGED <<left, mesh, own, up, members, coordUp, news, mine, gossipCalm, gone>>
    BY <1>2 DEF Fails, GossipToggle, Flip
  <2>2. flips' \in 0 .. MaxFlip
    BY <1>0, <2>1
  <2> QED BY <1>0, <1>1, <2>1, <2>2 DEF GossipIInv, GossipTypeOK
<1>3. CASE Coordinator
  <2>1. /\ gossipCalm' = 0 /\ coordUp' \in BOOLEAN /\ flips > 0 /\ flips' = flips - 1
        /\ UNCHANGED <<left, mesh, own, up, members, req, news, mine, passed, gone>>
    BY <1>3 DEF Coordinator, Flip
  <2>2. flips' \in 0 .. MaxFlip /\ gossipCalm' \in 0 .. GossipLife /\ ~(gossipCalm' > 0)
    BY <1>0, <2>1
  <2> QED BY <1>0, <2>1, <2>2 DEF GossipIInv, GossipTypeOK
<1>4. ASSUME NEW p \in Peer, Member(p) PROVE GossipIInv' /\ mesh' = mesh
  <2>1. /\ news' = TRUE /\ flips > 0 /\ flips' = flips - 1 /\ gone' = [gone EXCEPT ![p] = 0]
        /\ members' = (IF p \in members THEN members \ {p} ELSE members \cup {p})
        /\ UNCHANGED <<left, mesh, own, up, coordUp, req, mine, passed, gossipCalm>>
    BY <1>4 DEF Member, Flip
  <2>2. flips' \in 0 .. MaxFlip /\ gone' \in [Peer -> 0 .. GossipLife + 1] /\ members' \subseteq Peer
    BY <1>0, <2>1 DEF GossipTypeOK
  <2>3. GossipTypeOK'
    BY <1>0, <2>1, <2>2 DEF GossipTypeOK
  <2>4. ASSUME NEW q \in Peer
        PROVE  /\ q \in members' => gone'[q] = 0
               /\ q \in mesh' => left'[q] + gone'[q] <= GossipLife
               /\ own'[q] > 0 => own'[q] + gone'[q] <= GossipLife
    <3>1. left[q] \in 0 .. GossipLife /\ own[q] \in 0 .. GossipLife /\ gone \in [Peer -> 0 .. GossipLife + 1]
      BY <1>0 DEF GossipTypeOK
    <3>2. CASE q = p
      BY <1>0, <2>1, <3>1, <3>2
    <3>3. CASE q # p
      BY <2>1, <3>1, <3>3 DEF GossipIInv
    <3> QED BY <3>2, <3>3
  <2> QED BY <2>1, <2>3, <2>4 DEF GossipIInv
<1>5. ASSUME NEW p \in Peer \ Skewed, Power(p) PROVE GossipIInv' /\ mesh' = mesh
  <2>1. /\ flips > 0 /\ flips' = flips - 1 /\ up' \subseteq up \cup {p}
        /\ UNCHANGED <<left, mesh, own, members, coordUp, req, news, mine, passed, gossipCalm, gone>>
    BY <1>5 DEF Power, Flip
  <2>2. flips' \in 0 .. MaxFlip /\ up' \subseteq Peer
    BY <1>0, <2>1 DEF GossipTypeOK
  <2> QED BY <1>0, <2>1, <2>2 DEF GossipIInv, GossipTypeOK
<1>6. ASSUME NEW p \in Peer \ Skewed, Renew(p) PROVE GossipIInv' /\ mesh' = mesh
  <2>1. /\ p \in members /\ own' = [own EXCEPT ![p] = GossipLife]
        /\ UNCHANGED <<left, mesh, up, members, coordUp, req, news, mine, passed, gossipCalm, gone, flips>>
    BY <1>6 DEF Renew
  <2>2. own' \in [Peer -> 0 .. GossipLife]
    BY <1>0, <2>1 DEF GossipTypeOK
  <2>3. \A q \in Peer : own'[q] > 0 => own'[q] + gone[q] <= GossipLife
    BY <1>0, <2>1 DEF GossipIInv, GossipTypeOK
  <2> QED BY <1>0, <2>1, <2>2, <2>3 DEF GossipIInv, GossipTypeOK
<1>7. CASE UNCHANGED gossipVars
  BY <1>0, <1>7 DEF gossipVars, GossipIInv, GossipTypeOK
<1> QED BY <1>2, <1>3, <1>4, <1>5, <1>6, <1>7

\* A revoked peer is out of the mesh within a lifetime, our own grant is renewed in time,
\* and a member is let lapse only in an outage (the mesh loop of daemon.rs; p2p.rs):
\* for any peers and any timers in the order GossipAssumption keeps.
THEOREM GossipIsSafe == GossipSpec => GossipSafe
<1>1. GossipIInv /\ [GossipNext]_gossipVars => GossipIInv'
  BY PassKeeps, ReplyKeeps, TickKeeps, GossipWorld DEF GossipNext
<1>2. GossipIInv => GossipTypeOK /\ RevocationLapses /\ GrantStaysFresh
  <2> SUFFICES ASSUME GossipIInv PROVE GossipTypeOK /\ RevocationLapses /\ GrantStaysFresh
    OBVIOUS
  <2>1. GossipTypeOK
    BY DEF GossipIInv
  <2>2. RevocationLapses
    <3> SUFFICES ASSUME NEW p \in mesh PROVE gone[p] <= GossipLife
      BY DEF RevocationLapses
    <3>1. p \in Peer /\ left[p] \in 0 .. GossipLife /\ gone[p] \in 0 .. GossipLife + 1
      BY <2>1 DEF GossipTypeOK
    <3>2. left[p] + gone[p] <= GossipLife
      BY <3>1 DEF GossipIInv
    <3> QED BY <3>1, <3>2, GossipTimes
  <2>3. GrantStaysFresh
    BY <2>1, GossipTimes DEF GossipIInv, GossipTypeOK, GrantStaysFresh
  <2> QED BY <2>1, <2>2, <2>3
<1>3. GossipIInv /\ [GossipNext]_gossipVars
      => [\A p \in mesh \cap members : p \notin mesh' => gossipCalm < GossipLife]_gossipVars
  <2> SUFFICES ASSUME GossipIInv, GossipNext, NEW p \in mesh \cap members, p \notin mesh'
               PROVE  gossipCalm < GossipLife
    OBVIOUS
  <2>1. mesh' # mesh /\ ~(mesh \cap members \subseteq mesh')
    OBVIOUS
  <2>2. GossipTick => mesh' = mesh
    BY DEF GossipTick
  <2>3. GossipPass
    BY <2>1, <2>2, ReplyKeeps, GossipWorld DEF GossipNext
  <2>4. ~(gossipCalm > 0)
    BY <2>1, <2>3, PassKeeps
  <2> QED BY <2>4, GossipTimes DEF GossipIInv, GossipTypeOK
<1> QED BY <1>1, <1>2, <1>3, GossipStart, PTL DEF GossipSpec, GossipSafe, NoLapseInCalm

-----------------------------------------------------------------------------
(* Certificates.                                                            *)

CertRecord == [names : {{}} \cup {{n} : n \in SUBSET Ours}, left : 0 .. Life,
               fails : 0 .. MaxFails, ago : 0 .. Horizon, pending : Never .. CertSettle]
CertJob == [at : {"none", "register", "decide", "order", "cert", "key", "record"},
            enabled : BOOLEAN, exposed : BOOLEAN, web : SUBSET Svc, names : SUBSET Ours]

CertTypes ==
  /\ switches \in [enabled : BOOLEAN, exposed : BOOLEAN, web : SUBSET Svc]
  /\ reachable \in BOOLEAN /\ keyed \in BOOLEAN
  /\ certState \in CertRecord /\ (certState.names = {} => certState.pending = Never)
  /\ pem \in [names : SUBSET Ours, left : 0 .. Life]
  /\ job \in [Task -> CertJob] /\ quiet \in 0 .. Horizon /\ row \in 0 .. MaxFails

\* One reconcile at a time; what issued.json says of the past is what happened: the failures
\* of the last orders and the time since, and a mismatch no older than the last order's end.
CertIInv ==
  /\ CertTypes
  /\ \A t, u \in Task : job[t].at # "none" /\ job[u].at # "none" => t = u
  /\ row = certState.fails
  /\ certState.fails > 0 => certState.ago = quiet
  /\ certState.fails = 0 /\ certState.pending # Never => certState.pending <= quiet

LEMMA CertUnits ==
  /\ Life \in Nat /\ MaxBack \in Nat /\ MaxBack >= 1 /\ MaxFails = MaxBack + 1 /\ Horizon = MaxBack
  /\ CertSettle = 1 /\ Never = -1
BY CertTimes DEF MaxFails, Horizon, CertSettle, Never

LEMMA BackoffShape ==
  ASSUME NEW f \in 0 .. MaxFails
  PROVE  Backoff(f) \in 0 .. Horizon /\ (f = 0 => Backoff(f) = 0) /\ (f > 0 => Backoff(f) >= 1)
<1>1. CASE f = 0
  BY <1>1, CertUnits DEF Backoff
<1>2. CASE f # 0
  <2>1. f - 1 \in 0 .. MaxBack
    BY <1>2, CertUnits
  <2> DEFINE w == 2 ^ (f - 1)
  <2>2. w \in Nat \ {0}
    BY <2>1, BackoffStarts
  <2>3. Backoff(f) = Least(w, MaxBack)
    BY <1>2 DEF Backoff
  <2> HIDE DEF w
  <2> QED BY <1>2, <2>2, <2>3, CertUnits DEF Least
<1> QED BY <1>1, <1>2

LEMMA StampedShape ==
  ASSUME NEW s \in CertRecord, NEW names \in SUBSET Ours, s.names = {} => s.pending = Never
  PROVE  /\ Stamped(s, names) \in CertRecord
         /\ Stamped(s, names).names = s.names /\ Stamped(s, names).left = s.left
         /\ Stamped(s, names).fails = s.fails /\ Stamped(s, names).ago = s.ago
         /\ (s.names = {} => Stamped(s, names).pending = Never)
         /\ Stamped(s, names).pending \in {Never, 0, s.pending}
<1> DEFINE q == IF s.names \in {{}, {names}} THEN Never ELSE IF s.pending = Never THEN 0 ELSE s.pending
<1>1. Stamped(s, names) = [names |-> s.names, left |-> s.left, fails |-> s.fails, ago |-> s.ago, pending |-> q]
  BY DEF Stamped, CertRecord
<1>2. q \in Never .. CertSettle /\ q \in {Never, 0, s.pending} /\ (s.names = {} => q = Never)
  BY CertUnits DEF CertRecord
<1> HIDE DEF q
<1> QED BY <1>1, <1>2 DEF CertRecord

LEMMA CertStart == CertInit => CertIInv
<1> SUFFICES ASSUME CertInit PROVE CertIInv
  OBVIOUS
<1>1. NoState \in CertRecord /\ NoPem \in [names : SUBSET Ours, left : 0 .. Life] /\ NoJob \in CertJob
  BY CertUnits DEF NoState, NoPem, NoJob, CertRecord, CertJob
<1>2. Horizon \in 0 .. Horizon /\ 0 \in 0 .. MaxFails
  BY CertUnits
<1>3. CertTypes
  BY <1>1, <1>2 DEF CertInit, CertTypes, NoState
<1> QED BY <1>3 DEF CertInit, CertIInv, NoState, NoJob

\* A task's own step, which leaves the others' jobs alone.
LEMMA JobsKept ==
  ASSUME CertIInv, NEW t \in Task, NEW j \in CertJob, job[t].at # "none", job' = [job EXCEPT ![t] = j]
  PROVE  job' \in [Task -> CertJob] /\ \A u, v \in Task : job'[u].at # "none" /\ job'[v].at # "none" => u = v
BY DEF CertIInv, CertTypes

LEMMA DecideKeeps ==
  ASSUME CertIInv, NEW t \in Task, Decide(t)
  PROVE  CertIInv'
<1> DEFINE s == Stamped(certState, job[t].names)
<1>0. CertTypes /\ job[t] \in CertJob
  BY DEF CertIInv, CertTypes
<1>1. /\ job[t].at = "decide" /\ certState' = s
      /\ job' = [job EXCEPT ![t] = IF Issues(s, @) THEN [@ EXCEPT !.at = "order"] ELSE NoJob]
      /\ UNCHANGED <<switches, reachable, pem, keyed, quiet, row, budget>>
  BY DEF Decide
<1>2. /\ s \in CertRecord /\ s.fails = certState.fails /\ s.ago = certState.ago
      /\ (s.names = {} => s.pending = Never) /\ s.pending \in {Never, 0, certState.pending}
  BY <1>0, StampedShape DEF CertTypes, CertJob
<1> HIDE DEF s
<1>3. PICK j \in CertJob : job' = [job EXCEPT ![t] = j]
  <2>1. NoJob \in CertJob /\ [job[t] EXCEPT !.at = "order"] \in CertJob
    BY <1>0 DEF NoJob, CertJob
  <2> QED BY <1>1, <2>1
<1>4. job' \in [Task -> CertJob] /\ \A u, v \in Task : job'[u].at # "none" /\ job'[v].at # "none" => u = v
  BY <1>1, <1>3, JobsKept
<1>5. CertTypes'
  BY <1>0, <1>1, <1>2, <1>4 DEF CertTypes
<1>6. certState'.fails = 0 /\ certState'.pending # Never => certState'.pending <= quiet'
  BY <1>0, <1>1, <1>2, CertUnits DEF CertIInv, CertTypes
<1> QED BY <1>1, <1>2, <1>4, <1>5, <1>6 DEF CertIInv

LEMMA OrderFailsKeeps ==
  ASSUME CertIInv, NEW t \in Task, OrderFails(t)
  PROVE  CertIInv'
<1>0. CertTypes /\ row = certState.fails
  BY DEF CertIInv
<1>1. /\ job[t].at = "order" /\ certState' = Failed(certState) /\ job' = [job EXCEPT ![t] = NoJob]
      /\ quiet' = 0 /\ row' = Least(row + 1, MaxFails)
      /\ UNCHANGED <<switches, reachable, pem, keyed>>
  BY DEF OrderFails
<1>2. Least(row + 1, MaxFails) \in 1 .. MaxFails /\ 0 \in 0 .. Horizon
  BY <1>0, CertUnits DEF CertTypes, Least
<1> DEFINE n == Least(row + 1, MaxFails)
<1>3. Failed(certState) = [names |-> certState.names, left |-> certState.left, fails |-> n,
                           ago |-> 0, pending |-> certState.pending]
  <2>1. Failed(certState) = [certState EXCEPT !.fails = n, !.ago = 0]
    BY <1>0 DEF Failed
  <2> HIDE DEF n
  <2> QED BY <1>0, <2>1 DEF CertTypes, CertRecord
<1> HIDE DEF n
<1>4. certState' \in CertRecord /\ certState'.fails = n /\ certState'.ago = 0
      /\ certState'.names = certState.names /\ certState'.pending = certState.pending
  BY <1>0, <1>1, <1>2, <1>3, CertUnits DEF CertTypes, CertRecord, n
<1>5. NoJob \in CertJob
  BY DEF NoJob, CertJob
<1>6. job' \in [Task -> CertJob] /\ \A u, v \in Task : job'[u].at # "none" /\ job'[v].at # "none" => u = v
  BY <1>1, <1>5, JobsKept
<1>7. row' = n /\ n \in 1 .. MaxFails /\ n \in 0 .. MaxFails
  BY <1>1, <1>2, CertUnits DEF n
<1>8. CertTypes'
  BY <1>0, <1>1, <1>2, <1>4, <1>6, <1>7 DEF CertTypes
<1> QED BY <1>1, <1>4, <1>6, <1>7, <1>8, CertUnits DEF CertIInv

LEMMA WritesKeep ==
  ASSUME CertIInv, NEW t \in Task, RegisterNames(t) \/ OrderReady(t) \/ WriteCert(t) \/ WriteKey(t) \/ Spawn(t)
  PROVE  CertIInv'
<1>0. CertTypes /\ job[t] \in CertJob
  BY DEF CertIInv, CertTypes
<1>1. UNCHANGED <<switches, reachable, certState, quiet, row>>
  BY DEF RegisterNames, OrderReady, WriteCert, WriteKey, Spawn
<1>2. pem' \in [names : SUBSET Ours, left : 0 .. Life] /\ keyed' \in BOOLEAN
  <2>1. CASE WriteCert(t)
    <3>1. pem' = [names |-> job[t].names, left |-> Life]
      BY <2>1 DEF WriteCert
    <3>2. keyed' \in BOOLEAN
      BY <2>1 DEF WriteCert
    <3>3. job[t].names \in SUBSET Ours /\ Life \in 0 .. Life
      BY <1>0, CertUnits DEF CertJob
    <3> QED BY <3>1, <3>2, <3>3
  <2>2. CASE ~WriteCert(t)
    BY <1>0, <2>2 DEF RegisterNames, OrderReady, WriteKey, Spawn, CertTypes
  <2> QED BY <2>1, <2>2
<1>3. job' \in [Task -> CertJob] /\ \A u, v \in Task : job'[u].at # "none" /\ job'[v].at # "none" => u = v
  <2>1. CASE Spawn(t)
    <3>1. PICK j \in CertJob : job' = [job EXCEPT ![t] = j]
      <4>1. [at |-> "register", enabled |-> switches.enabled, exposed |-> switches.exposed,
             web |-> switches.web, names |-> {}] \in CertJob
        BY <1>0 DEF CertTypes, CertJob
      <4> QED BY <2>1, <4>1 DEF Spawn
    <3>2. \A u \in Task : job[u].at = "none"
      BY <2>1 DEF Spawn, Free
    <3> QED BY <1>0, <3>1, <3>2 DEF CertTypes
  <2>2. CASE ~Spawn(t)
    <3>1. job[t].at # "none" /\ \E j \in CertJob : job' = [job EXCEPT ![t] = j]
      <4>1. CASE RegisterNames(t)
        <5>1. job' = [job EXCEPT ![t] = [job[t] EXCEPT !.at = "decide", !.names = Confirmed(job[t].web)]]
          BY <1>0, <4>1 DEF RegisterNames, CertTypes
        <5>2. Confirmed(job[t].web) \in SUBSET Ours
          BY DEF Confirmed
        <5>3. [job[t] EXCEPT !.at = "decide", !.names = Confirmed(job[t].web)] \in CertJob
          BY <1>0, <5>2 DEF CertJob
        <5> QED BY <4>1, <5>1, <5>3 DEF RegisterNames
      <4>2. ASSUME NEW a \in {"cert", "key", "record"}, job' = [job EXCEPT ![t].at = a]
            PROVE  \E j \in CertJob : job' = [job EXCEPT ![t] = j]
        <5>1. [job[t] EXCEPT !.at = a] \in CertJob /\ job' = [job EXCEPT ![t] = [job[t] EXCEPT !.at = a]]
          BY <1>0, <4>2 DEF CertTypes, CertJob
        <5> QED BY <5>1
      <4>3. CASE OrderReady(t)
        BY <4>2, <4>3 DEF OrderReady
      <4>4. CASE WriteCert(t)
        BY <4>2, <4>4 DEF WriteCert
      <4>5. CASE WriteKey(t)
        BY <4>2, <4>5 DEF WriteKey
      <4> QED BY <2>2, <4>1, <4>3, <4>4, <4>5
    <3> QED BY <3>1, JobsKept
  <2> QED BY <2>1, <2>2
<1>4. CertTypes'
  BY <1>0, <1>1, <1>2, <1>3 DEF CertTypes
<1> QED BY <1>1, <1>3, <1>4 DEF CertIInv

LEMMA RecordKeeps ==
  ASSUME CertIInv, NEW t \in Task, Record(t)
  PROVE  CertIInv'
<1>0. CertTypes /\ job[t] \in CertJob
  BY DEF CertIInv, CertTypes
<1>1. /\ job[t].at = "record" /\ job' = [job EXCEPT ![t] = NoJob] /\ quiet' = 0 /\ row' = 0
      /\ certState' = [names |-> {job[t].names}, left |-> pem.left, fails |-> 0, ago |-> 0, pending |-> Never]
      /\ UNCHANGED <<switches, reachable, pem, keyed>>
  BY DEF Record, Issued
<1>2. NoJob \in CertJob
  BY DEF NoJob, CertJob
<1>3. job' \in [Task -> CertJob] /\ \A u, v \in Task : job'[u].at # "none" /\ job'[v].at # "none" => u = v
  BY <1>1, <1>2, JobsKept
<1>4. 0 \in 0 .. MaxFails /\ 0 \in 0 .. Horizon /\ Never \in Never .. CertSettle
  BY CertUnits
<1>5. certState' \in CertRecord
  BY <1>0, <1>1, <1>4 DEF CertTypes, CertRecord, CertJob
<1>6. CertTypes'
  BY <1>0, <1>1, <1>3, <1>4, <1>5 DEF CertTypes
<1> QED BY <1>1, <1>3, <1>6 DEF CertIInv

LEMMA CertTickKeeps == CertIInv /\ CertTick => CertIInv'
<1> SUFFICES ASSUME CertIInv, CertTick PROVE CertIInv'
  OBVIOUS
<1>0. CertTypes
  BY DEF CertIInv
<1> DEFINE a == Shorter(certState.left)
           g == IF certState.fails = 0 THEN 0 ELSE Longer(certState.ago)
           q == IF certState.pending = Never THEN Never ELSE Least(certState.pending + 1, CertSettle)
<1>1. /\ certState' = [names |-> certState.names, left |-> a, fails |-> certState.fails, ago |-> g, pending |-> q]
      /\ pem' = [names |-> pem.names, left |-> Shorter(pem.left)] /\ quiet' = Longer(quiet)
      /\ UNCHANGED <<switches, reachable, keyed, job, row>>
  BY <1>0 DEF CertTick, CertTypes, CertRecord
<1>2. a \in 0 .. Life /\ Shorter(pem.left) \in 0 .. Life
  BY <1>0, CertUnits DEF CertTypes, CertRecord, Shorter
<1>3. g \in 0 .. Horizon /\ Longer(quiet) \in 0 .. Horizon
  BY <1>0, CertUnits DEF CertTypes, CertRecord, Longer, Least
<1>4. q \in Never .. CertSettle /\ (certState.names = {} => q = Never)
  BY <1>0, CertUnits DEF CertTypes, CertRecord, Least
<1>5. certState.fails = 0 /\ q # Never => q <= Longer(quiet)
  BY <1>0, CertUnits DEF CertIInv, CertTypes, CertRecord, Longer, Least
<1>6. certState.fails > 0 => g = Longer(quiet)
  BY <1>0, CertUnits DEF CertIInv, CertTypes, CertRecord
<1> HIDE DEF a, g, q
<1>7. certState' \in CertRecord
  BY <1>0, <1>1, <1>2, <1>3, <1>4 DEF CertTypes, CertRecord
<1>8. CertTypes'
  BY <1>0, <1>1, <1>2, <1>3, <1>4, <1>7 DEF CertTypes
<1> QED BY <1>1, <1>5, <1>6, <1>8 DEF CertIInv

LEMMA CertWorld ==
  ASSUME CertIInv, \/ Change \/ Crash \/ Outage \/ Return \/ UNCHANGED certVars
  PROVE  CertIInv'
<1>0. CertTypes
  BY DEF CertIInv
<1>1. CASE Change
  <2>1. switches' \in [enabled : BOOLEAN, exposed : BOOLEAN, web : SUBSET Svc]
    <3>1. CASE \E e, x \in BOOLEAN : switches' = [switches EXCEPT !.enabled = e, !.exposed = x]
      BY <1>0, <3>1 DEF CertTypes
    <3>2. CASE \E w \in SUBSET Svc : switches' = [switches EXCEPT !.web = w]
      BY <1>0, <3>2 DEF CertTypes
    <3> QED BY <1>1, <3>1, <3>2 DEF Change
  <2> QED BY <1>0, <1>1, <2>1 DEF Change, CertIInv, CertTypes
<1>2. CASE Crash
  <2>1. NoJob \in CertJob /\ NoJob.at = "none"
    BY DEF NoJob, CertJob
  <2> QED BY <1>0, <1>2, <2>1 DEF Crash, CertIInv, CertTypes
<1>3. CASE Outage \/ Return \/ UNCHANGED certVars
  BY <1>0, <1>3 DEF Outage, Return, CertIInv, CertTypes, certVars
<1> QED BY <1>1, <1>2, <1>3

\* cert.rs decide: an order that begins has waited out the backoff of every failure before
\* it, and the settling time when the certificate that is there would do.
LEMMA OrdersWait ==
  ASSUME CertIInv, CertNext, NEW t \in Task, job[t].at = "decide", job'[t].at = "order"
  PROVE  /\ quiet >= Backoff(row)
         /\ (certState.left > 0 /\ ~RenewDue(certState)) => quiet >= CertSettle
<1>0. CertTypes /\ job[t] \in CertJob
  BY DEF CertIInv, CertTypes
<1>1. Decide(t)
  <2>1. ASSUME NEW u \in Task, Spawn(u) \/ CertStep(u) PROVE u = t /\ Decide(t)
    <3>1. CASE u # t
      <4>1. job'[t] = job[t]
        BY <1>0, <2>1, <3>1 DEF Spawn, CertStep, RegisterNames, Decide, OrderReady, OrderFails, WriteCert, WriteKey, Record, CertTypes
      <4> QED BY <4>1
    <3>2. CASE u = t
      BY <2>1, <3>2 DEF Spawn, CertStep, RegisterNames, OrderReady, OrderFails, WriteCert, WriteKey, Record
    <3> QED BY <3>1, <3>2
  <2>2. ~(Change \/ Outage \/ Return \/ CertTick)
    BY DEF Change, Outage, Return, CertTick
  <2>3. ~Crash
    BY DEF Crash, NoJob
  <2> QED BY <2>1, <2>2, <2>3 DEF CertNext
<1> DEFINE s == Stamped(certState, job[t].names)
<1>2. Issues(s, job[t])
  <2>1. ~Issues(s, job[t]) => job'[t] = NoJob
    BY <1>0, <1>1 DEF Decide, CertTypes
  <2> QED BY <2>1 DEF NoJob
<1>3. /\ s \in CertRecord /\ s.left = certState.left /\ s.fails = certState.fails /\ s.ago = certState.ago
      /\ s.pending \in {Never, 0, certState.pending}
  BY <1>0, StampedShape DEF CertTypes, CertJob
<1> HIDE DEF s
<1>4. /\ row = certState.fails /\ row \in 0 .. MaxFails /\ quiet \in 0 .. Horizon
      /\ certState.ago \in 0 .. Horizon
      /\ (row > 0 => certState.ago = quiet)
      /\ (row = 0 /\ certState.pending # Never => certState.pending <= quiet)
  BY <1>0 DEF CertIInv, CertTypes, CertRecord
<1>5. row = 0 \/ certState.ago >= Backoff(row)
  BY <1>2, <1>3, <1>4 DEF Issues
<1>6. quiet >= Backoff(row)
  BY <1>4, <1>5, BackoffShape, CertUnits
<1>7. ASSUME certState.left > 0, ~RenewDue(certState) PROVE quiet >= CertSettle
  <2>1. s.left > 0 /\ ~RenewDue(s)
    BY <1>3, <1>7 DEF RenewDue
  <2>2. ~(s.pending < CertSettle)
    BY <1>2, <2>1 DEF Issues, Waiting
  <2>3. s.pending = certState.pending /\ certState.pending # Never
    BY <1>3, <2>2, CertUnits DEF CertRecord
  <2>4. CASE row = 0
    BY <1>0, <1>4, <2>2, <2>3, <2>4, CertUnits DEF CertTypes, CertRecord
  <2>5. CASE row # 0
    BY <1>4, <1>6, <2>5, BackoffShape, CertUnits
  <2> QED BY <2>4, <2>5
<1> QED BY <1>6, <1>7

LEMMA OneAtATime == CertIInv => OneOrder
<1> SUFFICES ASSUME CertIInv PROVE Cardinality(Ordering) <= 1
  BY DEF OneOrder
<1>1. CASE Ordering = {}
  BY <1>1, FS_EmptySet
<1>2. CASE Ordering # {}
  <2>1. PICK t \in Task : t \in Ordering
    BY <1>2 DEF Ordering
  <2>2. Ordering = {t}
    BY <2>1 DEF Ordering, CertIInv
  <2> QED BY <2>2, FS_Singleton
<1> QED BY <1>1, <1>2

\* No two ACME orders are under way at once, and an order never begins inside the backoff
\* of a run of failures nor inside SETTLE of the last one recorded (cert.rs decide,
\* IssuedState; daemon.rs spawn_cert_reconcile): for any services, tasks and bounds.
THEOREM CertsAreSafe == CertSpec => CertsSafe
<1>1. CertIInv /\ [CertNext]_certVars => CertIInv'
  BY DecideKeeps, OrderFailsKeeps, WritesKeep, RecordKeeps, CertTickKeeps, CertWorld DEF CertNext, CertStep
<1>2. CertIInv => CertTypeOK /\ OneOrder
  BY OneAtATime DEF CertIInv, CertTypes, CertTypeOK, CertRecord, CertJob
<1>3. CertIInv /\ [CertNext]_certVars
      => [\A t \in Task : (job[t].at = "decide" /\ job'[t].at = "order") =>
            /\ quiet >= Backoff(row)
            /\ (certState.left > 0 /\ ~RenewDue(certState)) => quiet >= CertSettle]_certVars
  BY OrdersWait
<1> QED BY <1>1, <1>2, <1>3, CertStart, PTL DEF CertSpec, CertsSafe, OrdersAreSpaced

-----------------------------------------------------------------------------
(* Tunnels and routes.                                                      *)

LEMMA LeastRank ==
  ASSUME NEW S \in SUBSET Rank, S # {} PROVE Min(S) \in Rank
<1>1. PICK x \in S : \A y \in S : <<y, x>> \notin OpToRel(<, Nat)
  BY WFMin, NatLessThanWellFounded, TunRanks
<1>2. \A y \in S : ~(y < x)
  BY <1>1, TunRanks DEF OpToRel
<1>3. \E n \in S : \A y \in S : n =< y
  BY <1>2, TunRanks
<1> QED BY <1>3 DEF Min

\* What a peer has to carry is routed.
CarriedIsRouted == \A p \in TunPeer : \A t \in known[p] : t.ips \subseteq routed
Input == [seeds : [TunPeer -> SUBSET UNION {TunIp[p] : p \in TunPeer}],
          paths : [TunPeer -> SUBSET Rank], paused : BOOLEAN]
Served(in) == \A p \in TunPeer : in.seeds[p] \subseteq TunIp[p]

TunTypes ==
  /\ kernel \in BOOLEAN
  /\ engine \in {"down", "create", "stale", "config", "link", "prune", "set", "route", "idle"}
  /\ socket \in {"none", "live", "stale"} /\ link \in BOOLEAN
  /\ input \in Input /\ Served(input) /\ given \in Input /\ Served(given)
  /\ known \in [TunPeer -> SUBSET UNION {Tunnel(p) : p \in TunPeer}]
  /\ \A p \in TunPeer : known[p] \subseteq Tunnel(p)
  /\ todo \subseteq TunPeer /\ dirty \in BOOLEAN /\ ~panicked
  /\ used \in [input : Nat, end : Nat, route : Nat]

\* What each step of a pass leaves to the next.
PassInv ==
  /\ engine \in {"down", "create", "stale", "config"} => known = Bare
  /\ engine = "prune" => \A p \in TunPeer \ todo : ~Active(p) => known[p] = {}
  /\ engine = "prune" => \A p \in todo : ~Active(p)
  /\ engine = "set" => \A p \in TunPeer \ todo : known[p] = TunWanted(p)
  /\ engine \in {"route", "idle"} => \A p \in TunPeer : known[p] = TunWanted(p)
  /\ engine \in {"prune", "set", "route", "idle"} => link = (kernel \/ ~given.paused)

RouteInv ==
  used.route = 0 =>
    /\ engine \in {"link", "idle"} => CarriedIsRouted
    /\ engine = "prune" => CarriedIsRouted \/ dirty \/ todo # {}
    /\ engine \in {"set", "route"} => CarriedIsRouted \/ dirty

TunIInv == TunTypes /\ PassInv /\ RouteInv

LEMMA WantedType ==
  ASSUME TunTypes, NEW p \in TunPeer
  PROVE  /\ TunWanted(p) \subseteq Tunnel(p)
         /\ TunWanted(p) = IF given.paused \/ given.seeds[p] = {} THEN {}
                           ELSE {[ips |-> given.seeds[p], to |-> Endpoint(p)]}
<1>1. given.seeds[p] \subseteq TunIp[p] /\ given.paths[p] \subseteq Rank
  BY DEF TunTypes, Served, Input
<1>2. Endpoint(p) \in {{}} \cup {{r} : r \in Rank}
  BY <1>1, LeastRank DEF Endpoint
<1>3. [ips |-> given.seeds[p], to |-> Endpoint(p)] \in Tunnel(p)
  BY <1>1, <1>2 DEF Tunnel
<1> QED BY <1>3 DEF TunWanted, Active

LEMMA TunStart == TunInit => TunIInv
<1> SUFFICES ASSUME TunInit PROVE TunIInv
  OBVIOUS
<1>1. Nothing \in Input /\ Served(Nothing)
  BY DEF Nothing, Input, Served
<1>2. Bare \in [TunPeer -> SUBSET UNION {Tunnel(p) : p \in TunPeer}] /\ \A p \in TunPeer : Bare[p] = {}
  BY DEF Bare
<1>3. TunTypes
  BY <1>1, <1>2 DEF TunInit, TunTypes
<1> QED BY <1>3 DEF TunIInv, TunInit, PassInv, RouteInv

LEMMA TunTypesKept == TunIInv /\ [TunNext]_tunVars => TunTypes'
<1> SUFFICES ASSUME TunIInv, [TunNext]_tunVars PROVE TunTypes'
  OBVIOUS
<1>0. TunTypes
  BY DEF TunIInv
<1>1. Nothing \in Input /\ Served(Nothing)
  BY DEF Nothing, Input, Served
<1>2. Bare \in [TunPeer -> SUBSET UNION {Tunnel(p) : p \in TunPeer}] /\ \A p \in TunPeer : Bare[p] \subseteq Tunnel(p)
  BY DEF Bare
<1>3. CASE Launch \/ Create \/ Reap \/ TunPass \/ UNCHANGED tunVars
  BY <1>0, <1>3 DEF TunTypes, Launch, Create, Reap, TunPass, tunVars
<1>4. CASE Configure
  BY <1>0, <1>4 DEF TunTypes, Configure
<1>5. CASE Feed
  <2>1. /\ used' = [used EXCEPT !.input = @ + 1]
        /\ UNCHANGED <<kernel, engine, socket, link, given, known, todo, dirty, routed, panicked>>
    BY <1>5 DEF Feed
  <2>2. used' \in [input : Nat, end : Nat, route : Nat]
    BY <1>0, <2>1 DEF TunTypes
  <2>3. input' \in Input /\ Served(input')
    <3>1. CASE \E p \in TunPeer : \E s \in SUBSET TunIp[p] : input' = [input EXCEPT !.seeds[p] = s]
      <4>6. PICK p \in TunPeer : \E s \in SUBSET TunIp[p] : input' = [input EXCEPT !.seeds[p] = s]
        BY <3>1
      <4>1. PICK s \in SUBSET TunIp[p] : input' = [input EXCEPT !.seeds[p] = s]
        BY <4>6
      <4>2. /\ input'.seeds = [input.seeds EXCEPT ![p] = s] /\ input'.paths = input.paths /\ input'.paused = input.paused
            /\ input' = [seeds |-> input'.seeds, paths |-> input'.paths, paused |-> input'.paused]
        BY <1>0, <4>1 DEF TunTypes, Input
      <4>3. input'.seeds \in [TunPeer -> SUBSET UNION {TunIp[q] : q \in TunPeer}]
        BY <1>0, <4>1, <4>2 DEF TunTypes, Input
      <4>4. \A q \in TunPeer : input'.seeds[q] \subseteq TunIp[q]
        BY <1>0, <4>1, <4>2 DEF TunTypes, Input, Served
      <4>5. input.paths \in [TunPeer -> SUBSET Rank] /\ input.paused \in BOOLEAN
        BY <1>0 DEF TunTypes, Input
      <4> QED BY <4>2, <4>3, <4>4, <4>5 DEF Input, Served
    <3>2. CASE \E p \in TunPeer : \E r \in SUBSET Rank : input' = [input EXCEPT !.paths[p] = r]
      <4>1. PICK p \in TunPeer, r \in SUBSET Rank : input' = [input EXCEPT !.paths[p] = r]
        BY <3>2
      <4>2. /\ input'.seeds = input.seeds /\ input'.paths = [input.paths EXCEPT ![p] = r] /\ input'.paused = input.paused
            /\ input' = [seeds |-> input'.seeds, paths |-> input'.paths, paused |-> input'.paused]
        BY <1>0, <4>1 DEF TunTypes, Input
      <4>3. input'.paths \in [TunPeer -> SUBSET Rank]
        BY <1>0, <4>1, <4>2 DEF TunTypes, Input
      <4> QED BY <1>0, <4>2, <4>3 DEF TunTypes, Input, Served
    <3>3. CASE input' = [input EXCEPT !.paused = ~@]
      BY <1>0, <3>3 DEF TunTypes, Input, Served
    <3> QED BY <1>5, <3>1, <3>2, <3>3 DEF Feed
  <2> QED BY <1>0, <2>1, <2>2, <2>3 DEF TunTypes
<1>6. CASE SetLink
  BY <1>0, <1>6 DEF TunTypes, SetLink
<1>7. CASE TunPrune
  <2>1. CASE todo = {} /\ engine' = "set" /\ todo' = {p \in TunPeer : Active(p)} /\ UNCHANGED <<known, dirty>>
    BY <1>0, <1>7, <2>1 DEF TunTypes, TunPrune
  <2>2. CASE \E p \in todo : known' = [known EXCEPT ![p] = {}] /\ todo' = todo \ {p} /\ dirty' = TRUE /\ UNCHANGED engine
    BY <1>0, <1>7, <2>2 DEF TunTypes, TunPrune
  <2> QED BY <1>7, <2>1, <2>2 DEF TunPrune
<1>8. CASE SetPeer
  <2>1. CASE todo = {} /\ engine' = "route" /\ UNCHANGED <<known, todo, dirty, panicked>>
    BY <1>0, <1>8, <2>1 DEF TunTypes, SetPeer
  <2>2. ASSUME NEW p \in todo, todo' = todo \ {p}, UNCHANGED engine,
               IF Differs(p)
               THEN /\ panicked' = (panicked \/ (First(p) # {} /\ ~kernel))
                    /\ known' = [known EXCEPT ![p] = TunWanted(p)] /\ dirty' = TRUE
               ELSE UNCHANGED <<known, dirty, panicked>>
        PROVE  TunTypes'
    <3>1. p \in TunPeer /\ TunWanted(p) \subseteq Tunnel(p)
      BY <1>0, <2>2, WantedType DEF TunTypes
    <3>2. ~panicked' /\ dirty' \in BOOLEAN
      BY <1>0, <2>2 DEF First, TunTypes
    <3>3. known' \in [TunPeer -> SUBSET UNION {Tunnel(q) : q \in TunPeer}] /\ \A q \in TunPeer : known'[q] \subseteq Tunnel(q)
      BY <1>0, <2>2, <3>1 DEF TunTypes
    <3> QED BY <1>0, <1>8, <2>2, <3>2, <3>3 DEF TunTypes, SetPeer
  <2> QED BY <1>8, <2>1, <2>2 DEF SetPeer
<1>9. CASE Route
  <2>1. used' \in [input : Nat, end : Nat, route : Nat]
    BY <1>0, <1>9 DEF Route, TunTypes
  <2> QED BY <1>0, <1>9, <2>1 DEF TunTypes, Route
<1>10. CASE TunEnd
  <2>1. used' \in [input : Nat, end : Nat, route : Nat]
    BY <1>0, <1>10 DEF TunEnd, TunTypes
  <2> QED BY <1>0, <1>1, <1>2, <1>10, <2>1 DEF TunTypes, TunEnd
<1> QED BY <1>3, <1>4, <1>5, <1>6, <1>7, <1>8, <1>9, <1>10 DEF TunNext, TunStep

LEMMA PassKept == TunIInv /\ [TunNext]_tunVars => PassInv'
<1> SUFFICES ASSUME TunIInv, [TunNext]_tunVars PROVE PassInv'
  OBVIOUS
<1>0. TunTypes /\ PassInv
  BY DEF TunIInv
<1>1. CASE Launch \/ Create \/ Reap \/ TunPass \/ Configure
  <2>1. engine' \in {"down", "create", "stale", "config", "link"} /\ UNCHANGED known
    BY <1>1 DEF Launch, Create, Reap, TunPass, Configure
  <2>2. engine' # "link" => known = Bare
    BY <1>0, <1>1 DEF PassInv, Launch, Create, Reap, TunPass, Configure
  <2> QED BY <2>1, <2>2 DEF PassInv, Bare
<1>2. CASE Feed \/ UNCHANGED tunVars
  <2>1. UNCHANGED <<kernel, engine, link, given, known, todo>>
    BY <1>2 DEF Feed, tunVars
  <2>2. \A p \in TunPeer : TunWanted(p)' = TunWanted(p) /\ (Active(p)' <=> Active(p))
    BY <2>1 DEF TunWanted, Active, Endpoint
  <2>3. (engine = "prune" => \A p \in TunPeer \ todo : ~Active(p) => known[p] = {})'
        /\ (engine = "prune" => \A p \in todo : ~Active(p))'
    BY <1>0, <2>1 DEF PassInv, Active
  <2>4. (engine = "set" => \A p \in TunPeer \ todo : known[p] = TunWanted(p))'
        /\ (engine \in {"route", "idle"} => \A p \in TunPeer : known[p] = TunWanted(p))'
    BY <1>0, <2>1, <2>2 DEF PassInv
  <2>5. (engine \in {"prune", "set", "route", "idle"} => link = (kernel \/ ~given.paused))'
        /\ (engine \in {"down", "create", "stale", "config"} => known = Bare)'
    BY <1>0, <2>1 DEF PassInv
  <2> QED BY <2>3, <2>4, <2>5 DEF PassInv
<1>3. CASE SetLink
  BY <1>3, <1>0 DEF PassInv, SetLink, Active, TunTypes
<1>4. CASE TunPrune
  <2>1. engine = "prune" /\ UNCHANGED <<kernel, link, given>>
    BY <1>4 DEF TunPrune
  <2>2. CASE todo = {} /\ engine' = "set" /\ todo' = {p \in TunPeer : Active(p)} /\ UNCHANGED <<known, dirty>>
    <3>1. \A p \in TunPeer : ~Active(p) => known[p] = TunWanted(p)
      BY <1>0, <2>1, <2>2 DEF PassInv, TunWanted
    <3>2. \A p \in TunPeer : TunWanted(p)' = TunWanted(p)
      BY <2>1 DEF TunWanted, Active, Endpoint
    <3> QED BY <1>0, <2>1, <2>2, <3>1, <3>2 DEF PassInv
  <2>3. CASE \E p \in todo : known' = [known EXCEPT ![p] = {}] /\ todo' = todo \ {p} /\ dirty' = TRUE /\ UNCHANGED engine
    BY <1>0, <2>1, <2>3 DEF PassInv, Active, TunTypes
  <2> QED BY <1>4, <2>2, <2>3 DEF TunPrune
<1>5. CASE SetPeer
  <2>1. engine = "set" /\ UNCHANGED <<kernel, link, given>>
    BY <1>5 DEF SetPeer
  <2>2. \A p \in TunPeer : TunWanted(p)' = TunWanted(p)
    BY <2>1 DEF TunWanted, Active, Endpoint
  <2>3. CASE todo = {} /\ engine' = "route" /\ UNCHANGED <<known, todo, dirty, panicked>>
    BY <1>0, <2>1, <2>2, <2>3 DEF PassInv
  <2>4. ASSUME NEW p \in todo, todo' = todo \ {p}, UNCHANGED engine,
               IF Differs(p)
               THEN /\ panicked' = (panicked \/ (First(p) # {} /\ ~kernel))
                    /\ known' = [known EXCEPT ![p] = TunWanted(p)] /\ dirty' = TRUE
               ELSE UNCHANGED <<known, dirty, panicked>>
        PROVE  PassInv'
    <3>1. p \in TunPeer /\ todo \subseteq TunPeer
      BY <1>0 DEF TunTypes
    <3>2. known'[p] = TunWanted(p) /\ \A q \in TunPeer \ {p} : known'[q] = known[q]
      BY <1>0, <2>4, <3>1 DEF Differs, TunTypes
    <3>3. \A q \in TunPeer \ todo' : known'[q] = TunWanted(q)
      BY <1>0, <2>1, <2>4, <3>2 DEF PassInv
    <3> QED BY <1>0, <2>1, <2>2, <2>4, <3>3 DEF PassInv
  <2> QED BY <1>5, <2>3, <2>4 DEF SetPeer
<1>6. CASE Route
  <2>1. engine = "route" /\ engine' = "idle" /\ UNCHANGED <<kernel, link, given, known>>
    BY <1>6 DEF Route
  <2>2. \A p \in TunPeer : TunWanted(p)' = TunWanted(p)
    BY <2>1 DEF TunWanted, Active, Endpoint
  <2> QED BY <1>0, <2>1, <2>2 DEF PassInv
<1>7. CASE TunEnd
  <2>1. engine' = "down" /\ known' = Bare
    BY <1>7 DEF TunEnd
  <2> QED BY <2>1 DEF PassInv, Bare
<1> QED BY <1>1, <1>2, <1>3, <1>4, <1>5, <1>6, <1>7 DEF TunNext, TunStep

LEMMA RoutesKept == TunIInv /\ [TunNext]_tunVars => RouteInv'
<1> SUFFICES ASSUME TunIInv, [TunNext]_tunVars PROVE RouteInv'
  OBVIOUS
<1>0. TunTypes /\ PassInv /\ RouteInv
  BY DEF TunIInv
<1>1. CASE Launch \/ Create \/ Reap \/ TunPass \/ UNCHANGED tunVars
  BY <1>1, <1>0 DEF RouteInv, CarriedIsRouted, Launch, Create, Reap, TunPass, tunVars
<1>2. CASE Configure
  <2>1. engine' = "link" /\ known' = Bare
    BY <1>0, <1>2 DEF Configure, PassInv
  <2> QED BY <2>1 DEF RouteInv, CarriedIsRouted, Bare
<1>3. CASE Feed
  <2>1. used'.route = used.route
    BY <1>0, <1>3 DEF Feed, TunTypes
  <2> QED BY <1>3, <1>0, <2>1 DEF RouteInv, CarriedIsRouted, Feed
<1>4. CASE SetLink
  <2>1. /\ engine = "link" /\ engine' = "prune" /\ link' = (kernel \/ ~given.paused)
        /\ routed' = (IF link' THEN routed ELSE {})
        /\ todo' = {p \in TunPeer : known[p] # {} /\ ~Active(p)} /\ UNCHANGED <<known, used>>
    BY <1>4 DEF SetLink
  <2>2. CASE link'
    BY <1>0, <2>1, <2>2 DEF RouteInv, CarriedIsRouted
  <2>3. CASE ~link'
    <3>1. \A p \in TunPeer : ~Active(p)
      BY <2>1, <2>3 DEF Active
    <3>2. todo' = {} => CarriedIsRouted'
      BY <2>1, <3>1 DEF CarriedIsRouted
    <3> QED BY <2>1, <3>2 DEF RouteInv
  <2> QED BY <2>2, <2>3
<1>5. CASE TunPrune
  BY <1>5, <1>0 DEF RouteInv, CarriedIsRouted, TunPrune
<1>6. CASE SetPeer
  BY <1>6, <1>0 DEF RouteInv, CarriedIsRouted, SetPeer
<1>7. CASE Route
  <2>1. engine = "route" /\ engine' = "idle" /\ UNCHANGED <<kernel, link, given, known>>
    BY <1>7 DEF Route
  <2>2. CASE dirty /\ routed' = (IF link THEN AllIps ELSE routed) /\ UNCHANGED used
    <3>1. CASE link
      BY <1>0, <2>1, <2>2, <3>1 DEF RouteInv, CarriedIsRouted, AllIps
    <3>2. CASE ~link
      <4>1. given.paused
        BY <1>0, <2>1, <3>2 DEF PassInv
      <4>2. \A p \in TunPeer : known[p] = {}
        BY <1>0, <2>1, <4>1 DEF PassInv, TunWanted, Active
      <4> QED BY <2>1, <4>2 DEF RouteInv, CarriedIsRouted
    <3> QED BY <3>1, <3>2
  <2>3. CASE used' = [used EXCEPT !.route = @ + 1]
    BY <1>0, <2>3 DEF TunTypes, RouteInv
  <2>4. CASE ~dirty /\ UNCHANGED <<routed, used>>
    BY <1>0, <2>1, <2>4 DEF RouteInv, CarriedIsRouted
  <2> QED BY <1>7, <2>2, <2>3, <2>4 DEF Route
<1>8. CASE TunEnd
  BY <1>8 DEF RouteInv, TunEnd
<1> QED BY <1>1, <1>2, <1>3, <1>4, <1>5, <1>6, <1>7, <1>8 DEF TunNext, TunStep

\* After every pass the interface carries one tunnel per seeded peer, with all its addresses
\* and its best endpoint, routed unless installing routes failed, and none while paused;
\* none was ever changed in place (daemon.rs apply_seeds, apply_state): for any peers,
\* addresses and ranks, through any sequence of seeds, pauses and ends.
THEOREM TunnelsAreExact == TunSpec => []TunnelsSafe
<1>1. TunIInv /\ [TunNext]_tunVars => TunIInv'
  BY TunTypesKept, PassKept, RoutesKept DEF TunIInv
<1>2. TunIInv => TunTypeOK /\ TunnelsFollow /\ RoutesFollow
  <2> SUFFICES ASSUME TunIInv PROVE TunTypeOK /\ TunnelsFollow /\ RoutesFollow
    OBVIOUS
  <2>1. TunTypeOK
    BY DEF TunIInv, TunTypes, TunTypeOK
  <2>2. TunnelsFollow
    BY WantedType DEF TunIInv, TunTypes, PassInv, TunnelsFollow
  <2>3. RoutesFollow
    BY DEF TunIInv, RouteInv, CarriedIsRouted, RoutesFollow
  <2> QED BY <2>1, <2>2, <2>3
<1> QED BY <1>1, <1>2, TunStart, PTL DEF TunSpec, TunnelsSafe

=============================================================================
