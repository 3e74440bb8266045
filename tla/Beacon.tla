------------------------------- MODULE Beacon -------------------------------
(***************************************************************************)
(* LAN discovery for one peer (engine/src/beacon.rs) and the mesh loop     *)
(* that applies what it decides (daemon.rs poll_peer_health, apply_seeds). *)
(* A received broadcast makes its source a candidate; a MAC'd probe to it  *)
(* must be answered before the peer is routed there; pings then confirm    *)
(* the path or give it back.  Clocks are ages in ticks of one recheck,     *)
(* saturating; a probe in flight is told apart by whether its nonce is the *)
(* one last issued.                                                        *)
(***************************************************************************)
EXTENDS Integers, FiniteSetsExt

CONSTANTS Lan,                                  \* addresses on the segment
          CandTtl, AckTtl, ProbeGrace, ProbeBackoff,
          BeaconSettle, VerifyGrace, StaleGrace, Cooldown

ASSUME BeaconAssumption ==
    /\ 0 \notin Lan
    /\ {CandTtl, AckTtl, ProbeGrace, ProbeBackoff, BeaconSettle, VerifyGrace, StaleGrace, Cooldown}
           \subseteq Nat \ {0}

None == 0                                       \* no LAN address: the coordinator's path
Cap == Max({CandTtl, 2 * AckTtl + 1, ProbeGrace, VerifyGrace, StaleGrace, Cooldown})

VARIABLES at,        \* the address the peer is at on our segment, or None
          member,    \* it is in the mesh (Beacon::members follows at each select)
          gate,      \* ... as the receiver sees it
          cand,      \* candidates: [addr, age]
          acked,     \* acks: the address that answered, and when
          pending,   \* the age of the last probe's nonce, or -1
          wire,      \* an ack in flight: [from, current], from None for none
          state,     \* LanState: [kind, addr, age]
          backoff,   \* probe_backoff: ticks left
          lan,       \* lan_eps
          changed,   \* lan_changed of the last pass
          lanRoute,     \* the LAN endpoint the WireGuard backend was given
          loop,      \* "pass", "select" or "asleep" (the backoff of a failed refresh)
          ticked,    \* the recheck's two seconds have passed
          answered   \* [Lan -> how long ago the peer answered a probe there]
beaconVars == <<at, member, gate, cand, acked, pending, wire, state, backoff, lan, changed, lanRoute,
                loop, ticked, answered>>
radioVars == <<at, member, answered>>
netVars == <<gate, cand, acked, pending, wire>>
ownVars == <<state, backoff, lan, changed>>

NoAddr == [addr |-> None, age |-> 0]
Idle == [kind |-> "none", addr |-> None, age |-> 0]
Old(n) == IF n < Cap THEN n + 1 ELSE n
Aged(r) == IF r.addr = None THEN r ELSE [r EXCEPT !.age = Old(@)]

BeaconInit ==
    /\ at \in Lan \cup {None} /\ member = TRUE /\ gate = FALSE
    /\ cand = NoAddr /\ acked = NoAddr /\ pending = -1 /\ wire = [from |-> None, current |-> FALSE]
    /\ state = Idle /\ backoff = 0 /\ lan = None /\ changed = FALSE /\ lanRoute = None
    /\ loop = "pass" /\ ticked = FALSE /\ answered = [a \in Lan |-> Cap]

(***************************************************************************)
(* The receiver                                                            *)
(***************************************************************************)
\* a broadcast names the peer; nothing says it is the peer that sent it
Announce(a) ==
    /\ gate /\ cand' = [addr |-> a, age |-> 0]
    /\ UNCHANGED <<gate, acked, pending, wire, radioVars, ownVars, lanRoute, loop, ticked>>

FreshNonce == wire.current /\ pending >= 0 /\ pending < AckTtl
Ack ==
    /\ wire.from # None /\ wire' = [wire EXCEPT !.from = None]
    /\ cand' = IF gate THEN [addr |-> wire.from, age |-> 0] ELSE cand
    /\ acked' = IF gate /\ FreshNonce THEN [addr |-> wire.from, age |-> 0] ELSE acked
    /\ UNCHANGED <<gate, pending, radioVars, ownVars, lanRoute, loop, ticked>>

(***************************************************************************)
(* One pass of the mesh loop                                               *)
(***************************************************************************)
BeaconLive(c) == c.addr # None /\ c.age < CandTtl
BeaconKept(r, ttl) == IF r.age < ttl THEN r ELSE NoAddr
AckFresh(a) == acked.addr = a /\ acked.age < AckTtl

St(k, a, n) == [kind |-> k, addr |-> a, age |-> n]
Begun(c) == IF AckFresh(c.addr) THEN St("trying", c.addr, 0)
            ELSE IF backoff > 0 THEN Idle ELSE St("probing", c.addr, 0)
\* the probe goes out as the pass ends; the prober is taken to keep up
Probed(c) == IF AckFresh(c.addr) THEN St("trying", c.addr, 0)
             ELSE IF state.age >= ProbeGrace THEN Idle ELSE state
Tried(ok) == IF state.age < BeaconSettle THEN state
             ELSE IF ok THEN St("active", state.addr, 0)
             ELSE IF state.age >= VerifyGrace THEN St("failed", state.addr, 0) ELSE state
Stayed(ok) == IF ok THEN [state EXCEPT !.age = 0]
              ELSE IF state.age >= StaleGrace THEN St("failed", state.addr, 0) ELSE state

\* (verifying whichever address was announced last)
StepNewest(c, ok) == IF state.kind = "none" THEN Begun(c)
                     ELSE IF state.kind = "probing" THEN Probed(c)
                     ELSE St("active", c.addr, 0)
BeaconStep(c, ok) ==
    CASE state.kind = "none" -> Begun(c)
      [] state.kind = "probing" -> Probed(state)
      [] state.kind = "trying" -> Tried(ok)
      [] state.kind = "active" -> Stayed(ok)
      [] state.kind = "failed" -> IF state.age < Cooldown THEN state ELSE Begun(c)

Routed(s) == IF s.kind \in {"trying", "active"} THEN s.addr ELSE None

\* a peer whose beacons have stopped is not on our LAN
Unseen == Idle

\* select and its probe; ok is the ping of this pass, over whatever path is applied
BeaconPass(ok) ==
    /\ loop = "pass" /\ loop' = "select" /\ ticked' = FALSE
    /\ gate' = member /\ cand' = BeaconKept(cand, CandTtl) /\ acked' = BeaconKept(acked, AckTtl)
    /\ LET s == IF ~member THEN Idle ELSE IF ~BeaconLive(cand) THEN Unseen ELSE BeaconStep(cand, ok)
           probe == s.kind = "probing"
       IN /\ state' = s /\ lan' = Routed(s) /\ changed' = (lan' # lan)
          /\ backoff' = IF ~member THEN 0
                        ELSE IF state.kind = "probing" /\ s.kind = "none" /\ BeaconLive(cand) THEN ProbeBackoff
                        ELSE backoff
          /\ pending' = IF probe THEN 0 ELSE IF ~member \/ pending >= CandTtl THEN -1 ELSE pending
          \* only the peer can answer, and only where it is
          /\ \/ /\ wire' = IF probe THEN [wire EXCEPT !.current = FALSE] ELSE wire
                /\ UNCHANGED answered
             \/ /\ probe /\ s.addr = at
                /\ wire' = [from |-> at, current |-> TRUE]
                /\ answered' = [answered EXCEPT ![at] = 0]
    /\ UNCHANGED <<at, member, lanRoute>>

\* apply_seeds: the LAN endpoint comes before what the coordinator gave
Applied == IF member THEN lan ELSE None
BeaconRecheck ==
    /\ loop = "select" /\ ticked /\ loop' = "pass"
    /\ lanRoute' = IF changed THEN Applied ELSE lanRoute
    /\ UNCHANGED <<radioVars, netVars, ownVars, ticked>>
\* a completed refresh, or a local toggle; the seeds may gain or lose the peer
BeaconRefreshed ==
    /\ loop = "select" /\ loop' = "pass" /\ member' \in BOOLEAN
    /\ lanRoute' = IF member' THEN lan ELSE None
    /\ UNCHANGED <<at, answered, netVars, ownVars, ticked>>
BeaconRefreshFails ==
    /\ loop = "select" /\ loop' = "asleep"
    /\ UNCHANGED <<radioVars, netVars, ownVars, lanRoute, ticked>>
Awake == /\ loop = "asleep" /\ loop' = "pass"
         /\ UNCHANGED <<radioVars, netVars, ownVars, lanRoute, ticked>>

(***************************************************************************)
(* Time and the segment                                                    *)
(***************************************************************************)
BeaconTick ==
    /\ loop = "asleep" \/ (loop = "select" /\ ~ticked)
    /\ ticked' = TRUE /\ cand' = Aged(cand) /\ acked' = Aged(acked) /\ state' = Aged(state)
    /\ pending' = IF pending < 0 THEN pending ELSE Old(pending)
    /\ backoff' = Max({backoff - 1, 0}) /\ answered' = [a \in Lan |-> Old(answered[a])]
    /\ UNCHANGED <<at, member, gate, wire, lan, changed, lanRoute, loop>>
Move(a) == /\ a # at /\ at' = a
           /\ UNCHANGED <<member, answered, netVars, ownVars, lanRoute, loop, ticked>>

Loop == \/ \E ok \in BOOLEAN : BeaconPass(ok)
        \/ BeaconRecheck \/ BeaconRefreshed \/ BeaconRefreshFails \/ Awake
BeaconNext == Loop \/ (\E a \in Lan : Announce(a)) \/ Ack \/ BeaconTick \/ (\E a \in Lan \cup {None} : Move(a))
\* the loop and the clock run, and the peer's broadcasts stop when it has left
BeaconSpec == BeaconInit /\ [][BeaconNext]_beaconVars /\ WF_beaconVars(Loop) /\ WF_beaconVars(BeaconTick)

(***************************************************************************)
(* Properties                                                              *)
(***************************************************************************)
Timed == [addr : Lan \cup {None}, age : 0 .. Cap]
\* Every variable keeps its type, and a peer is routed exactly in the two states
\* that mean it.
BeaconTypeOK ==
    /\ at \in Lan \cup {None} /\ member \in BOOLEAN /\ gate \in BOOLEAN
    /\ cand \in Timed /\ acked \in Timed /\ pending \in -1 .. Cap
    /\ wire \in [from : Lan \cup {None}, current : BOOLEAN]
    /\ state \in [kind : {"none", "probing", "trying", "active", "failed"},
                  addr : Lan \cup {None}, age : 0 .. Cap]
    /\ backoff \in 0 .. ProbeBackoff /\ changed \in BOOLEAN /\ lanRoute \in Lan \cup {None}
    /\ lan = (IF state.kind \in {"trying", "active"} THEN state.addr ELSE None)
    /\ loop \in {"pass", "select", "asleep"} /\ ticked \in BOOLEAN /\ answered \in [Lan -> 0 .. Cap]

\* Whatever is announced and however late an answer comes, a peer is pointed at a LAN
\* address only on the strength of an answer it gave there at most two ack lifetimes
\* ago: one on the wire and one on the shelf.
EvidenceIsRecent ==
    [][lan' # None /\ lan' # lan => answered'[lan'] < 2 * AckTtl]_beaconVars

\* A peer on one LAN address is never moved to another without having been given back
\* to the coordinator's path first, whatever is announced meanwhile (beacon.rs step:
\* "Stick to the address in flight").
NoHops == [][lan # None /\ lan' # None => lan' = lan]_beaconVars

\* A peer that has left the segment is off its LAN endpoint in the end, provided
\* refreshes complete now and then.
LeavesTheSegment == (<>[](cand.addr = None) /\ []<><<BeaconRefreshed>>_beaconVars) => []<>(lanRoute = None)

\* What a route over the LAN promises at every step: recent evidence, and no hopping.
BeaconSafe == []BeaconTypeOK /\ EvidenceIsRecent /\ NoHops
=============================================================================
