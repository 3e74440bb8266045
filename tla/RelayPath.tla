----------------------------- MODULE RelayPath -----------------------------
(***************************************************************************)
(* The ciphertext relay between two engines that cannot punch (kernel      *)
(* backend): an engine that finds the peer stuck asks for a relay, the     *)
(* coordinator answers with the lowest one that serves both and a minted   *)
(* credential, the engine allocates on it and reports the relayed address, *)
(* which the coordinator hands to the other end (engine/src/relay.rs,      *)
(* daemon.rs sync_relays, coordinator/src/api/nat.rs).  Copies of an end's *)
(* relayed address are told apart by whether they are of its last          *)
(* allocation; a tick of time is a long-poll hold.                         *)
(***************************************************************************)
EXTENDS Naturals, FiniteSetsExt, TwoEnds

CONSTANTS MaxRelOutage, Ttl, MaxTick     \* relay stops; RELAY_CRED_TTL_SECS and the clock, in holds

ASSUME RelLimits == {MaxRelOutage, Ttl, MaxTick} \subseteq Nat

Server == {1, 2}             \* relay-capable co-members, by public key
RelNone == 0
RelPlace == {"sent", "held", "table", "answer", "seed"}

VARIABLES serving,    \* relays whose TURN server runs
          regs,       \* relays in the coordinator's table, their owners present
          sess,       \* [End -> RelaySession: its server, whether the allocation lives, its credential's age]
          relCopy,       \* [End -> [RelPlace -> Cred]]: copies of this end's relayed address
          relay,      \* [End -> the relay in the seeds last applied]
          answer,     \* [End -> the relay in the answer, and whether there was one to give]
          need,       \* [End -> need_relay: last sent, and in the held request]
          relConn,       \* [End -> PeerConn: a fresh handshake; the attempt outlived its grace]
          relPoll,       \* [End -> the refresh in flight: "held" or "answered"]
          relQuiet,      \* [End -> no refresh completed since the last tick]
          outages, ticks
relVars == <<serving, regs, sess, relCopy, relay, answer, need, relConn, relPoll, relQuiet, outages, ticks>>
worldVars == <<serving, regs, outages, ticks>>

NoSess == [at |-> RelNone, lives |-> FALSE, age |-> 0]
NoAnswer == [relay |-> RelNone, had |-> FALSE]

RelInit ==
    /\ serving = Server /\ regs = Server
    /\ sess = [p \in End |-> NoSess] /\ relCopy = [p \in End |-> [x \in RelPlace |-> "none"]]
    /\ relay = [p \in End |-> RelNone] /\ answer = [p \in End |-> NoAnswer]
    /\ need = [p \in End |-> [sent |-> FALSE, held |-> FALSE]]
    /\ relConn = [p \in End |-> [up |-> FALSE, aged |-> FALSE]]
    /\ relPoll = [p \in End |-> "held"] /\ relQuiet = [p \in End |-> FALSE]
    /\ outages = MaxRelOutage /\ ticks = MaxTick

(***************************************************************************)
(* The manager: one allocation per peer the seeds give a relay for         *)
(***************************************************************************)
Relaying(ss) == ss.at # RelNone
Relayed(ss) == IF Relaying(ss) THEN "cur" ELSE "none"

\* a session is kept as it is while the seed names any relay
Allocated(p, r) == IF r \in serving THEN [at |-> r, lives |-> TRUE, age |-> 0] ELSE NoSess
Ensured(p, r) == IF Relaying(sess[p]) THEN sess[p] ELSE Allocated(p, r)
SyncRelays(p, r, c) ==
    LET new == IF r = RelNone THEN NoSess ELSE Ensured(p, r)
        fresh == ~Relaying(sess[p]) /\ Relaying(new)
    IN [sess |-> new, relay |-> r,
        copy |-> IF fresh THEN [c EXCEPT ![p] = [x \in RelPlace |-> Older(c[p][x])]] ELSE c]

(***************************************************************************)
(* The mesh loop                                                           *)
(***************************************************************************)
WantedStuck(p, ss) == ~relConn[p].up /\ relConn[p].aged
RelWanted(p, ss) == Relaying(ss) \/ (~relConn[p].up /\ relConn[p].aged)

\* an arm of the select ends in y with the report s accepted, and the loop comes
\* round: the request in flight stands unless there is news or it is gone
RelComesRound(p, y, s, gone) ==
    /\ sess' = [sess EXCEPT ![p] = y.sess] /\ relay' = [relay EXCEPT ![p] = y.relay]
    /\ IF gone \/ RelWanted(p, y.sess) # s \/ Relayed(y.sess) # y.copy[p].sent
       THEN /\ relPoll' = [relPoll EXCEPT ![p] = "held"] /\ answer' = [answer EXCEPT ![p] = NoAnswer]
            /\ need' = [need EXCEPT ![p] = [sent |-> s, held |-> RelWanted(p, y.sess)]]
            /\ relCopy' = [y.copy EXCEPT ![p].held = Relayed(y.sess), ![Other(p)].answer = "none"]
       ELSE /\ need' = [need EXCEPT ![p].sent = s] /\ relCopy' = y.copy
            /\ UNCHANGED <<relPoll, answer>>
    /\ UNCHANGED <<relConn, worldVars>>
Same(p) == [sess |-> sess[p], relay |-> relay[p], copy |-> relCopy]
News(p) == RelWanted(p, sess[p]) # need[p].sent \/ Relayed(sess[p]) # relCopy[p].sent

\* the two-second recheck notices a peer newly stuck; a request with news is
\* taken to be answered within it
RelRecheck(p) ==
    /\ ~(need[p].held # need[p].sent \/ Relayed(sess[p]) # relCopy[p].sent) /\ News(p)
    /\ RelComesRound(p, Same(p), need[p].sent, FALSE) /\ UNCHANGED relQuiet
RelToggle(p) ==
    /\ relay[p] # RelNone /\ ~Relaying(sess[p])
    /\ RelComesRound(p, SyncRelays(p, relay[p], relCopy), need[p].sent, TRUE)
    /\ UNCHANGED relQuiet
RelRefreshed(p) ==
    /\ relPoll[p] = "answered" /\ relQuiet' = [relQuiet EXCEPT ![p] = FALSE]
    /\ RelComesRound(p, SyncRelays(p, answer[p].relay,
                                [relCopy EXCEPT ![p].sent = Relayed(sess[p]),
                                             ![Other(p)].seed = relCopy[Other(p)].answer]),
                  RelWanted(p, sess[p]), TRUE)

(***************************************************************************)
(* The coordinator                                                         *)
(***************************************************************************)
\* the lowest-keyed candidate that serves both: both ends are given the same
RelayTarget(wanted) == IF wanted /\ regs # {} THEN Min(regs) ELSE RelNone
PeerRelayedOnce(p) == IF relCopy[p].table = "none" THEN relCopy[Other(p)].table ELSE "none"
PeerRelayed(p) == relCopy[Other(p)].table
RelServe(p) ==
    /\ relPoll[p] = "held" /\ relPoll' = [relPoll EXCEPT ![p] = "answered"]
    /\ answer' = [answer EXCEPT ![p] = [relay |-> RelayTarget(need[p].held), had |-> regs # {}]]
    /\ relCopy' = [relCopy EXCEPT ![p].table = IF relCopy[p].held = "none" THEN @ ELSE relCopy[p].held,
                            ![p].held = "none",
                            ![Other(p)].answer = PeerRelayed(p)]
    /\ UNCHANGED <<sess, relay, need, relConn, relQuiet, worldVars>>

(***************************************************************************)
(* Relays, time and WireGuard                                              *)
(***************************************************************************)
RelUnlooped == UNCHANGED <<relCopy, relay, answer, need, relPoll>>
RelOutage(r) ==
    /\ r \in serving /\ outages > 0 /\ outages' = outages - 1 /\ serving' = serving \ {r}
    /\ sess' = [p \in End |-> IF sess[p].at = r THEN [sess[p] EXCEPT !.lives = FALSE] ELSE sess[p]]
    /\ UNCHANGED <<regs, relConn, relQuiet, ticks>> /\ RelUnlooped
RelReap(r) == /\ r \in regs \ serving /\ regs' = regs \ {r}
              /\ UNCHANGED <<serving, sess, relConn, relQuiet, outages, ticks>> /\ RelUnlooped
RelReturn(r) == /\ r \notin regs /\ serving' = serving \cup {r} /\ regs' = regs \cup {r}
                /\ UNCHANGED <<sess, relConn, relQuiet, outages, ticks>> /\ RelUnlooped
\* the TURN server refuses to refresh an allocation whose username has expired
RelAged(ss) == IF ~Relaying(ss) THEN ss
            ELSE [ss EXCEPT !.age = @ + 1, !.lives = @ /\ ss.age + 1 < Ttl]
RelTick ==
    /\ ticks > 0 /\ ticks' = ticks - 1 /\ \A p \in End : ~relQuiet[p] /\ sess[p].age < Ttl
    /\ relQuiet' = [p \in End |-> TRUE] /\ sess' = [p \in End |-> RelAged(sess[p])]
    /\ UNCHANGED <<serving, regs, relConn, outages>> /\ RelUnlooped

\* both bridges forward, each to the address the other end listens on
RelCarries == \A p \in End : sess[p].lives /\ relCopy[p].seed = "cur"
RelConn(p, up, aged) == /\ relConn' = [relConn EXCEPT ![p] = [up |-> up, aged |-> aged]]
                        /\ UNCHANGED <<sess, relQuiet, worldVars>> /\ RelUnlooped
RelHandshake(p) == RelCarries /\ ~relConn[p].up /\ RelConn(p, TRUE, FALSE)
RelLapse(p) == ~RelCarries /\ relConn[p].up /\ RelConn(p, FALSE, FALSE)
RelGrace(p) == ~relConn[p].up /\ ~relConn[p].aged /\ RelConn(p, FALSE, TRUE)
RelPath(p) == RelHandshake(p) \/ RelLapse(p) \/ RelGrace(p)

RelNext == \/ \E p \in End : RelRecheck(p) \/ RelToggle(p) \/ RelRefreshed(p) \/ RelServe(p) \/ RelPath(p)
           \/ \E r \in Server : RelOutage(r) \/ RelReap(r) \/ RelReturn(r)
           \/ RelTick
\* the loop, the coordinator and the reaper keep running; handshakes are retried
RelFair == /\ \A p \in End : /\ WF_relVars(RelRecheck(p)) /\ WF_relVars(RelRefreshed(p))
                             /\ WF_relVars(RelServe(p)) /\ WF_relVars(RelPath(p))
           /\ \A r \in Server : WF_relVars(RelReap(r))
RelSpec == RelInit /\ [][RelNext]_relVars /\ RelFair

(***************************************************************************)
(* Properties                                                              *)
(***************************************************************************)
\* Every variable keeps its type, and only a session that exists has a credential's age.
RelTypeOK ==
    /\ serving \subseteq Server /\ regs \subseteq Server
    /\ sess \in [End -> [at : Server \cup {RelNone}, lives : BOOLEAN, age : 0 .. Ttl]]
    /\ \A p \in End : ~Relaying(sess[p]) => sess[p] = NoSess
    /\ relCopy \in [End -> [RelPlace -> Cred]] /\ relay \in [End -> Server \cup {RelNone}]
    /\ answer \in [End -> [relay : Server \cup {RelNone}, had : BOOLEAN]]
    /\ need \in [End -> [sent : BOOLEAN, held : BOOLEAN]]
    /\ relConn \in [End -> [up : BOOLEAN, aged : BOOLEAN]] /\ relPoll \in [End -> {"held", "answered"}]
    /\ relQuiet \in [End -> BOOLEAN] /\ outages \in 0 .. MaxRelOutage /\ ticks \in 0 .. MaxTick

\* A relay session is given up only when the coordinator had none left to offer:
\* a working tunnel, which reads as connected, does not withdraw the relay it rides
\* on (relay.rs is_relaying: "the coordinator would withdraw the relay, flapping it").
RelayKept == [][\A p \in End : Relaying(sess[p]) /\ ~Relaying(sess[p])' => ~answer[p].had]_relVars

\* What a relay session never does, at any step.
RelaySafe == []RelTypeOK /\ RelayKept

\* With no relay ever out and no credential expired, two stuck ends reach each other
\* through a relay and stay so: each learns the other's relayed address however
\* the two exchanges interleave.
RelBoth == \A p \in End : relConn[p].up
MeetsIfServed == outages = MaxRelOutage /\ (\A p \in End : sess[p].age < Ttl) => RelBoth
EndsMeet == <>[]MeetsIfServed

=============================================================================
