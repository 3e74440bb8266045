------------------------------ MODULE Rotation ------------------------------
(***************************************************************************)
(* The rotation of one guild's signing key: the `rotate` subcommand        *)
(* (coordinator/src/rotate.rs) works on the store while a coordinator may  *)
(* be running on the key it cached (signer.rs), and clients that pinned an *)
(* earlier anchor follow the chain of certificates the coordinator serves  *)
(* (common/src/rotation.rs, engine/src/keys.rs).                           *)
(*                                                                         *)
(* A key is a number, in the order they are generated.  A certificate is   *)
(* always signed by the key it names as `prev`, so it is the pair of them. *)
(***************************************************************************)
EXTENDS Naturals, Sequences

CONSTANTS Client,       \* engines
          MaxKey,       \* bound on the keys generated
          MaxChain,     \* MAX_ROTATION_CHAIN
          MaxStop       \* bound on rotations cut short and databases lost

ASSUME MaxChainType == MaxChain \in Nat

VARIABLES seed,      \* table guild_signing_keys: the signing key, or NoKeyYet
          certs,     \* table guild_rotation_certs, in insertion order
          rotating,  \* the subcommand: where it is, and its two keys
          served,    \* the running coordinator's cached key and chain
          pin,       \* per client: the anchor file, or NoKeyYet
          refused,   \* clients that refused the anchor they were served
          line,      \* history: the database each key was generated for
          lost, stops

rotVars == <<seed, certs, rotating, served, pin, refused, line, lost, stops>>

NoKeyYet == 0
made == Len(line)
AtRest == [at |-> "idle", old |-> NoKeyYet, new |-> NoKeyYet]
NotLoaded == [key |-> NoKeyYet, chain |-> <<>>, ready |-> FALSE]

RotInit ==
  /\ seed = NoKeyYet /\ certs = <<>>
  /\ rotating = AtRest
  /\ served = NotLoaded
  /\ pin = [c \in Client |-> NoKeyYet]
  /\ refused = {}
  /\ line = <<>> /\ lost = 0 /\ stops = 0

\* The anchor the first certificate by `k` names, or none.
Advance(k, chain) ==
  LET hops == {i \in 1 .. Len(chain) : chain[i].prev = k} IN
  IF hops = {} THEN NoKeyYet
  ELSE chain[CHOOSE i \in hops : \A j \in hops : i <= j].new

\* Where the walk from `p` is after n hops.
Walked(p, chain) ==
  LET at[n \in 0 .. Len(chain) + 1] ==
        IF n = 0 THEN p ELSE IF at[n - 1] = NoKeyYet THEN NoKeyYet ELSE Advance(at[n - 1], chain)
  IN at

WalkChain(p, t, chain) ==
  /\ Len(chain) <= MaxChain
  /\ \E n \in 0 .. Len(chain) + 1 : Walked(p, chain)[n] = t

-----------------------------------------------------------------------------
(* rotate_key.                                                             *)

\* load_or_create_seed, and a fresh key for the successor.
RotateLoad ==
  /\ rotating.at = "idle" /\ made + 2 <= MaxKey
  /\ LET first == IF seed = NoKeyYet THEN made + 1 ELSE seed
         n == IF seed = NoKeyYet THEN made + 2 ELSE made + 1
     IN /\ seed' = first
        /\ line' = line \o [i \in 1 .. n - made |-> lost]
        /\ rotating' = [at |-> "append", old |-> first, new |-> n]
  /\ UNCHANGED <<certs, served, pin, refused, lost, stops>>

\* The outgoing key vouches for its successor.
Cert(old, new) == [prev |-> old, new |-> new]

\* Mutant of Writes: the seed is replaced before the certificate is appended.
WritesSwapped ==
  \/ /\ rotating.at = "append"
     /\ seed' = rotating.new
     /\ rotating' = [rotating EXCEPT !.at = "swap"]
     /\ UNCHANGED certs
  \/ /\ rotating.at = "swap"
     /\ certs' = Append(certs, Cert(rotating.old, rotating.new))
     /\ rotating' = AtRest
     /\ UNCHANGED seed

\* The certificate first, then the seed.
Writes ==
  \/ /\ rotating.at = "append"
     /\ certs' = Append(certs, Cert(rotating.old, rotating.new))
     /\ rotating' = [rotating EXCEPT !.at = "swap"]
     /\ UNCHANGED seed
  \/ /\ rotating.at = "swap"
     /\ seed' = rotating.new
     /\ rotating' = AtRest
     /\ UNCHANGED certs

RotateWrite == Writes /\ UNCHANGED <<served, pin, refused, line, lost, stops>>

\* The subcommand dies between two writes.
RotateStop ==
  /\ rotating.at # "idle" /\ stops < MaxStop
  /\ stops' = stops + 1
  /\ rotating' = AtRest
  /\ UNCHANGED <<seed, certs, served, pin, refused, line, lost>>

\* The host loses its database; the coordinator starts over on an empty one.
DatabaseLost ==
  /\ seed # NoKeyYet /\ rotating.at = "idle" /\ stops < MaxStop
  /\ stops' = stops + 1 /\ lost' = lost + 1
  /\ seed' = NoKeyYet /\ certs' = <<>> /\ served' = NotLoaded
  /\ UNCHANGED <<rotating, pin, refused, line>>

-----------------------------------------------------------------------------
(* The coordinator and the clients.                                        *)

\* GuildKeys::get on a miss: the seed first, generated when the guild has none.
LoadSeed ==
  /\ served.key = NoKeyYet /\ (seed # NoKeyYet \/ made < MaxKey)
  /\ LET k == IF seed = NoKeyYet THEN made + 1 ELSE seed IN
     /\ seed' = k
     /\ line' = IF seed = NoKeyYet THEN Append(line, lost) ELSE line
     /\ served' = [key |-> k, chain |-> <<>>, ready |-> FALSE]
  /\ UNCHANGED <<certs, rotating, pin, refused, lost, stops>>

\* Then the chain; from here on the pair is cached until the process ends.
LoadChain ==
  /\ served.key # NoKeyYet /\ ~served.ready
  /\ served' = [served EXCEPT !.chain = certs, !.ready = TRUE]
  /\ UNCHANGED <<seed, certs, rotating, pin, refused, line, lost, stops>>

Restart ==
  /\ served # NotLoaded
  /\ served' = NotLoaded
  /\ UNCHANGED <<seed, certs, rotating, pin, refused, line, lost, stops>>

\* pin_anchor on a response: the first anchor is trusted, a changed one only through the chain.
Pin(c) ==
  /\ served.key # NoKeyYet /\ served.ready
  /\ IF pin[c] = NoKeyYet \/ WalkChain(pin[c], served.key, served.chain)
       THEN /\ pin' = [pin EXCEPT ![c] = served.key]
            /\ refused' = refused \ {c}
       ELSE /\ refused' = refused \cup {c}
            /\ UNCHANGED pin
  /\ UNCHANGED <<seed, certs, rotating, served, line, lost, stops>>

RotNext == RotateLoad \/ RotateWrite \/ RotateStop \/ DatabaseLost \/ LoadSeed \/ LoadChain \/ Restart
             \/ \E c \in Client : Pin(c)

RotSpec == RotInit /\ [][RotNext]_rotVars

-----------------------------------------------------------------------------
\* Every certificate leads from a key to a later one, and every pin is a generated key.
RotTypeOK ==
  /\ seed \in 0 .. made /\ served.key \in 0 .. made
  /\ \A i \in 1 .. Len(certs) : certs[i].prev \in 1 .. made /\ certs[i].new \in 1 .. made
                                /\ certs[i].prev < certs[i].new
  /\ pin \in [Client -> 0 .. made] /\ refused \subseteq Client

\* rotate.rs:24: without a rotation cut short, whenever the subcommand runs against a
\* serving or restarting coordinator, a client pinned at any earlier anchor follows (up to
\* the longest chain a client walks).
RotationIsFollowed == stops = 0 /\ Len(certs) <= MaxChain => refused = {}

\* rotation.rs:9: trust extends from the pin one signed hop at a time.  A client does not
\* re-pin to a key of a database it never pinned, whatever chain comes with it.
TrustStaysInLine ==
  [][\A c \in Client : pin[c] # NoKeyYet => line'[pin'[c]] = line[pin[c]]]_rotVars

\* What rotate.rs:25 says of a rotation cut short: a harmless dangling certificate, never a
\* new anchor with no path.
NeverWithoutPath == lost = 0 => refused = {}

\* What a rotation promises the engines that pinned an earlier key: they follow, and they
\* follow nobody else.
RotationHolds == [](RotTypeOK /\ RotationIsFollowed) /\ TrustStaysInLine
=============================================================================
