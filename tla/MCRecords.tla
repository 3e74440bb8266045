----------------------------- MODULE MCRecords -----------------------------
(***************************************************************************)
(* The components whose promises are safety: what the coordinator records, *)
(* signs and answers, and what an engine keeps of its owner's choices and  *)
(* exposures.  They share no state, so a behaviour of this instance is a   *)
(* behaviour of one of them: `focus` names it, and the others rest.        *)
(*   devices    : two requests at a time of two users on a mesh range of   *)
(*                two addresses, with one enrollment key, so that an       *)
(*                address is given again and a key is presented twice;     *)
(*   labels     : two builds of one user among four, three users of one    *)
(*                name and two suffixes, so that one of them goes without; *)
(*   rotation   : more keys than a chain holds, two engines, and one stop  *)
(*                between the two writes of a rotation;                    *)
(*   signing    : two builds, a lifetime above the cap on reuse;           *)
(*   challenges : two devices at budgets and tables of one or two, and one *)
(*                restart;                                                 *)
(*   limiter    : three sources in a table of two, behind one proxy;       *)
(*   prefs      : two networks, a torn write and a killed process;         *)
(*   firewall   : a control connection and the loop on one port, two names *)
(*                and two networks, with one failed write or load.         *)
(***************************************************************************)
EXTENDS Devices, Labels, Rotation, SignCache, Challenges, Limiter, MCPrefs, Firewall

CONSTANTS k1, a1, a2, b1, c1, alice, bob, carol, wiki, n1, n2, i1, i2

MCKeyUser == k1 :> u1
MCAsker == a1 :> alice @@ a2 :> alice @@ b1 :> bob @@ c1 :> carol
MCSeedName == [r \in LabelReq |-> IF r = a2 THEN "renamed" ELSE "name"]
MCHandlers == Permutations(Handler)   \* requests are alike
MCNet == {n1, n2}
MCFeed == {n1 :> {i1} @@ n2 :> {} @@ "own" :> {i2}, n1 :> {i1} @@ n2 :> {i2} @@ "own" :> {}}
MCSeeds == <<"port", "named">> :> wiki

VARIABLE focus

MCInit ==
  /\ focus \in {"devices", "labels", "rotation", "signing", "challenges", "limiter",
                "prefs", "firewall"}
  /\ DeviceInit /\ LabelInit /\ RotInit /\ SignInit /\ ChalInit /\ LimInit /\ PrefInit /\ FwInit
  /\ focus # "challenges" => holder = CHOOSE f \in [DnsName -> Orderer] : TRUE

MCNext ==
  \/ /\ focus = "devices" /\ DeviceNext
     /\ UNCHANGED <<labelVars, rotVars, signVars, chalVars, limVars, prefVars, fwVars, focus>>
  \/ /\ focus = "labels" /\ LabelNext
     /\ UNCHANGED <<deviceVars, rotVars, signVars, chalVars, limVars, prefVars, fwVars, focus>>
  \/ /\ focus = "rotation" /\ RotNext
     /\ UNCHANGED <<deviceVars, labelVars, signVars, chalVars, limVars, prefVars, fwVars, focus>>
  \/ /\ focus = "signing" /\ SignNext
     /\ UNCHANGED <<deviceVars, labelVars, rotVars, chalVars, limVars, prefVars, fwVars, focus>>
  \/ /\ focus = "challenges" /\ ChalNext
     /\ UNCHANGED <<deviceVars, labelVars, rotVars, signVars, limVars, prefVars, fwVars, focus>>
  \/ /\ focus = "limiter" /\ LimNext
     /\ UNCHANGED <<deviceVars, labelVars, rotVars, signVars, chalVars, prefVars, fwVars, focus>>
  \/ /\ focus = "prefs" /\ PrefNext
     /\ UNCHANGED <<deviceVars, labelVars, rotVars, signVars, chalVars, limVars, fwVars, focus>>
  \/ /\ focus = "firewall" /\ FwNext
     /\ UNCHANGED <<deviceVars, labelVars, rotVars, signVars, chalVars, limVars, prefVars, focus>>

MCVars == <<deviceVars, labelVars, rotVars, signVars, chalVars, limVars, prefVars, fwVars, focus>>
MCSpec == MCInit /\ [][MCNext]_MCVars
=============================================================================
