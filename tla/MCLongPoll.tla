----------------------------- MODULE MCLongPoll -----------------------------
(* Instances of LongPoll.  A pair of devices of one guild, with one request *)
(* slot each; two devices of one user, one of them also in a guild; and a   *)
(* single device with two requests, so that an abandoned one meets its      *)
(* successor.                                                               *)
EXTENDS LongPoll, TLC

CONSTANTS a, b, a1, a2, b1, g, u, o1, s1

MCOffer == {o1}
MCSighting == {s1}
MCNone == {}
MCGuild == {g}

PairDevice == {a, b}
PairReq == {a1, b1}
PairOwner == a1 :> a @@ b1 :> b
PairMemberOf == a :> {g} @@ b :> {g}

\* The same pair as two devices of one user, the first also in a guild.
UserScope == {g, u}
UserMemberOf == a :> {g, u} @@ b :> {u}

SoloDevice == {a}
SoloReq == {a1, a2}
SoloOwner == a1 :> a @@ a2 :> a
SoloMemberOf == a :> {g}
=============================================================================
