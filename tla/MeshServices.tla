---------------------------- MODULE MeshServices ----------------------------
(***************************************************************************)
(* Named services: what each device announces, what its peers remember of  *)
(* it and the names they make of it                                        *)
(* (src/crates/engine/src/mesh_services.rs, p2p.rs, dns.rs, the services   *)
(* block of daemon.rs; src/crates/common/src/service.rs).                  *)
(*                                                                         *)
(* There is no push.  Once in a pass an observer asks each peer that is    *)
(* due, one after the other, and a peer answers with the services that the *)
(* asker may reach; at the end of the pass the observer resolves every     *)
(* claim it holds, its own included, into names.  A device is known by its *)
(* public key, a number, because keys are compared.  A name is a label     *)
(* under a user; a device's own name is one too.                           *)
(***************************************************************************)
EXTENDS Integers, FiniteSets, FiniteSetsExt

CONSTANTS
  Dev,        \* devices, by public key
  Obs,        \* the devices whose resolvers are followed
  Owner,      \* device -> the user label the coordinator allocated
  DeviceLabel,\* device -> its device label
  Label,      \* usable service labels
  Offer,      \* device -> the lists it may serve: sets of [label, port, to]
  MaxSvcChange, MaxSilent  \* bounds: changes of offers and membership, lost answers

\* Keys are compared, and none is 0, which stands for no device.
ASSUME SvcKeys == Dev \subseteq Nat \ {0} /\ Obs \subseteq Dev

VARIABLES
  offers,     \* device -> what it serves now
  svcPresent,    \* devices of the mesh
  seeds,      \* observer -> the peers of its latest refresh
  book,       \* observer -> peer -> {} or {what it last announced}
  due,        \* observer -> the peers whose entry is older than REFRESH
  svcAsking,     \* observer -> the peers its pass has still to ask
  passing,    \* observer -> a pass is under way
  since,      \* observer -> the peers that answered since they joined
  zone,       \* observer -> name -> the device it resolves to, or 0
  shadowed,   \* observer -> the claims reported as lost: <<key, label>>
  svcChanges, silent

svcVars == <<offers, svcPresent, seeds, book, due, svcAsking, passing, since, zone,
             shadowed, svcChanges, silent>>

SvcUser == {Owner[d] : d \in Dev}
\* Names are told apart by label and user; labels of devices are names too.
Names == (Label \cup {DeviceLabel[d] : d \in Dev}) \X SvcUser
DeviceName(d) == <<DeviceLabel[d], Owner[d]>>

\* services_for on the side of the peer: the scope of each service decides.
MayReach(s, d, o) == s.to = "all" \/ (s.to = "own" /\ Owner[o] = Owner[d])
Told(d, o) == {s \in offers[d] : MayReach(s, d, o)}
\* pull_services: entries that could never resolve are dropped, the rest kept.
Announced(d, o) == {s \in Told(d, o) : s.label \in Label}

Held(o, d) == UNION book[o][d]
\* own_claims and peer_claims: the label is the claimant's, the user label is
\* the one we verified.
Claims(o) ==
  {[key |-> o, label |-> s.label, port |-> s.port] :
     s \in {t \in offers[o] : t.label \in Label}}
  \cup UNION {{[key |-> d, label |-> s.label, port |-> s.port] : s \in Held(o, d)} :
                d \in seeds[o]}
NameOf(c) == <<c.label, Owner[c.key]>>
DeviceNames(o) == {DeviceName(d) : d \in seeds[o] \cup {o}}
Rivals(o, c) == {e \in Claims(o) : NameOf(e) = NameOf(c)}

\* resolve, rule 1: a device name always wins.
OutOfPlay(o, c) == NameOf(c) \in DeviceNames(o)
\* resolve, rule 2: the lowest public key wins; any further claim to the name,
\* one of the winner's own on another port included, is reported as shadowed.
SvcLost(o) ==
  {c \in Claims(o) :
     \/ OutOfPlay(o, c)
     \/ \E e \in Rivals(o, c) : e.key < c.key \/ (e.key = c.key /\ e # c)}
Shadowed(o) == {<<c.key, c.label>> : c \in SvcLost(o)}
Winner(o, n) ==
  LET cs == {c \in Claims(o) : NameOf(c) = n /\ ~OutOfPlay(o, c)}
  IN  IF cs = {} THEN 0 ELSE Min({c.key : c \in cs})
\* dns::update: services first, so that device names overwrite them.
Zone(o) ==
  [n \in Names |->
     LET ds == {d \in seeds[o] \cup {o} : DeviceName(d) = n}
     IN  IF ds # {} THEN Min(ds) ELSE Winner(o, n)]

------------------------------------------------------------------------------
\* is_due: never asked, or asked longer ago than REFRESH.
Due(o) == {d \in seeds[o] : book[o][d] = {} \/ d \in due[o]}

\* A pass of the loop begins with the peers that are due.
BeginPass(o) ==
  /\ ~passing[o] /\ o \in svcPresent
  /\ passing' = [passing EXCEPT ![o] = TRUE]
  /\ svcAsking' = [svcAsking EXCEPT ![o] = Due(o)]
  /\ UNCHANGED <<offers, svcPresent, seeds, book, due, since, zone, shadowed, svcChanges, silent>>

\* A pull answered: ServiceBook::set.
Pull(o, d) ==
  /\ d \in svcAsking[o] /\ d \in svcPresent
  /\ svcAsking' = [svcAsking EXCEPT ![o] = @ \ {d}]
  /\ book' = [book EXCEPT ![o][d] = {Announced(d, o)}]
  /\ due' = [due EXCEPT ![o] = @ \ {d}]
  /\ since' = [since EXCEPT ![o] = @ \cup {d}]
  /\ UNCHANGED <<offers, svcPresent, seeds, passing, zone, shadowed, svcChanges, silent>>

\* A pull that timed out: the peer keeps what it last announced, and is due.
Silence(o, d) ==
  /\ d \in svcAsking[o] /\ (d \in svcPresent => silent < MaxSilent)
  /\ silent' = IF d \in svcPresent THEN silent + 1 ELSE silent
  /\ svcAsking' = [svcAsking EXCEPT ![o] = @ \ {d}]
  /\ UNCHANGED <<offers, svcPresent, seeds, book, due, passing, since, zone, shadowed, svcChanges>>

\* The end of the block: the names are resolved again in every pass.
Resolves(o) == /\ zone' = [zone EXCEPT ![o] = Zone(o)]
               /\ shadowed' = [shadowed EXCEPT ![o] = Shadowed(o)]
EndPass(o) ==
  /\ passing[o] /\ svcAsking[o] = {}
  /\ passing' = [passing EXCEPT ![o] = FALSE]
  /\ Resolves(o)
  /\ UNCHANGED <<offers, svcPresent, seeds, book, due, svcAsking, since, svcChanges, silent>>

\* Not part of the code: departed peers stay in the book.
RetainedAll(o, S) == book[o]
\* retain_peers.
Retained(o, S) == [d \in Dev |-> IF d \in S THEN book[o][d] ELSE {}]

\* apply_state with the seeds of a refresh, between two passes: the book is
\* pruned first; the names follow in the next pass.
Merge(o) ==
  /\ ~passing[o] /\ o \in svcPresent /\ seeds[o] # svcPresent \ {o}
  /\ seeds' = [seeds EXCEPT ![o] = svcPresent \ {o}]
  /\ book' = [book EXCEPT ![o] = Retained(o, svcPresent)]
  /\ due' = [due EXCEPT ![o] = @ \cap svcPresent]
  /\ since' = [since EXCEPT ![o] = @ \cap svcPresent]
  /\ UNCHANGED <<offers, svcPresent, svcAsking, passing, zone, shadowed, svcChanges, silent>>

\* REFRESH passes for an entry.
Ages(o, d) ==
  /\ book[o][d] # {} /\ d \notin due[o]
  /\ due' = [due EXCEPT ![o] = @ \cup {d}]
  /\ UNCHANGED <<offers, svcPresent, seeds, book, svcAsking, passing, since, zone, shadowed, svcChanges, silent>>

\* An owner changes what a device serves, through its control socket.
SvcOffers(d) ==
  /\ svcChanges < MaxSvcChange /\ svcChanges' = svcChanges + 1
  /\ \E S \in Offer[d] \ {offers[d]} : offers' = [offers EXCEPT ![d] = S]
  /\ UNCHANGED <<svcPresent, seeds, book, due, svcAsking, passing, since, zone, shadowed, silent>>

\* A device leaves the mesh or comes back.
ComesOrGoes(d) ==
  /\ d \notin Obs /\ svcChanges < MaxSvcChange /\ svcChanges' = svcChanges + 1
  /\ svcPresent' = IF d \in svcPresent THEN svcPresent \ {d} ELSE svcPresent \cup {d}
  /\ UNCHANGED <<offers, seeds, book, due, svcAsking, passing, since, zone, shadowed, silent>>

SvcInit ==
  /\ offers = [d \in Dev |-> UNION Offer[d]] /\ svcPresent = Dev
  /\ seeds = [o \in Obs |-> Dev \ {o}]
  /\ book = [o \in Obs |-> [d \in Dev |-> {}]]
  /\ due = [o \in Obs |-> {}] /\ svcAsking = [o \in Obs |-> {}]
  /\ passing = [o \in Obs |-> FALSE] /\ since = [o \in Obs |-> {}]
  /\ zone = [o \in Obs |-> [n \in Names |-> 0]]
  /\ shadowed = [o \in Obs |-> {}]
  /\ svcChanges = 0 /\ silent = 0

SvcNext ==
  \/ \E o \in Obs : BeginPass(o) \/ EndPass(o) \/ Merge(o)
  \/ \E o \in Obs, d \in Dev : Pull(o, d) \/ Silence(o, d) \/ Ages(o, d)
  \/ \E d \in Dev : SvcOffers(d) \/ ComesOrGoes(d)

\* The loop keeps turning, refreshes bring what changed, time passes, and a
\* peer that is asked and there answers unless one of MaxSilent answers is lost.
SvcFairness ==
  \A o \in Obs :
    /\ WF_svcVars(BeginPass(o)) /\ WF_svcVars(EndPass(o)) /\ SF_svcVars(Merge(o))
    /\ \A d \in Dev : WF_svcVars(Pull(o, d) \/ Silence(o, d)) /\ WF_svcVars(Ages(o, d))

SvcSpec == SvcInit /\ [][SvcNext]_svcVars /\ SvcFairness

------------------------------------------------------------------------------
SvcTypeOK ==
  /\ \A o \in Obs : /\ svcAsking[o] \subseteq seeds[o] /\ seeds[o] \subseteq Dev \ {o}
                    /\ \A d \in Dev : \A s \in Held(o, d) : s.label \in Label
  /\ svcPresent \subseteq Dev /\ zone \in [Obs -> [Names -> Dev \cup {0}]]

\* Every claim an observer does not report as shadowed resolves to its
\* claimant: what the frontend shows as a working name is one
\* (mesh_services.rs, Resolved).
WinnersResolve ==
  \A o \in Obs :
    (passing[o] /\ svcAsking[o] = {}) =>
      \A c \in Claims(o) : <<c.key, c.label>> \notin Shadowed(o) => Zone(o)[NameOf(c)] = c.key

\* A device that left and came back is taken at its new word only: no name it
\* announced before it left resolves to it again until it has answered
\* (mesh_services.rs, retain_peers).
LeftIsForgotten ==
  [][\A o \in Obs, n \in Names :
       (zone'[o][n] # zone[o][n] /\ zone'[o][n] \in Dev \ {o}
          /\ DeviceName(zone'[o][n]) # n) => zone'[o][n] \in since[o]]_svcVars

\* What an observer's names never do, at any step.
ServicesSafe == [](SvcTypeOK /\ WinnersResolve) /\ LeftIsForgotten

\* Who a name belongs to for one observer, told from what everyone serves: the
\* device of that name, or the lowest key of those that serve it to the observer.
Rightful(o, n) ==
  LET named == {d \in svcPresent : DeviceName(d) = n}
      serving == {d \in svcPresent : /\ Owner[d] = n[2]
                                     /\ \E s \in offers[d] :
                                          s.label = n[1] /\ (d = o \/ MayReach(s, d, o))}
  IN  IF named # {} THEN Min(named) ELSE IF serving = {} THEN 0 ELSE Min(serving)

\* Once offers and membership rest, every observer comes to resolve each name to
\* its rightful device, and forgets the withdrawn ones: the interval is all that
\* stands between a device that names a service and its peers
\* (mesh_services.rs, REFRESH).
NamesAreRight == \A o \in Obs, n \in Names \cap (Label \X SvcUser) : zone[o][n] = Rightful(o, n)
NamesSettle == <>[]NamesAreRight

=============================================================================
