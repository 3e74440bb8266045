----------------------------- MODULE EdgeProofs -----------------------------
(***************************************************************************)
(* Proofs about the edges of the system: what the coordinator publishes    *)
(* and admits (Challenges, Limiter) and what an engine keeps of its        *)
(* owner's choices and exposures (LocalPrefs, Firewall), for any devices,  *)
(* names, sources, networks and limits.                                    *)
(***************************************************************************)
EXTENDS Challenges, Limiter, LocalPrefs, Firewall, SequenceTheorems, FiniteSetTheorems,
        WellFoundedInduction, TLAPS

-----------------------------------------------------------------------------
(* Challenges.                                                             *)

Distinct(s) == \A j, k \in 1 .. Len(s) : s[j] = s[k] => j = k

\* A record of the table.
Recorded(l) ==
  /\ l.values \in Seq(Txt) /\ Len(l.values) \in 1 .. MaxValues /\ Distinct(l.values)
  /\ l.expires \in Nat

LiveIInv ==
  /\ now \in Nat \ {0} /\ posted \in [DnsName -> Nat]
  /\ live = [n \in DnsName |-> live[n]]
  /\ \A n \in LiveNames : /\ live[n] \in [values : Seq(Txt), expires : Nat] /\ Recorded(live[n])
                          /\ live[n].expires = posted[n] + ChallengeTtl
                          /\ posted[n] \in 1 .. now
  /\ Cardinality(LiveNames) <= MaxLive
  /\ AnswersAreLive

BudgetIInv ==
  /\ now \in Nat \ {0} /\ boots \in Nat
  /\ issued \subseteq spent /\ IsFiniteSet(spent)
  /\ \A i \in spent : i.at \in 1 .. now /\ i.id \in 0 .. Cardinality(spent) - 1
  /\ boots = 0 => \A i \in spent : InWindow(i) => i \in issued
  /\ BudgetsHold

HolderIInv == /\ holder \in [DnsName -> Orderer] /\ posters \subseteq DnsName \X Orderer
              /\ OwnNamesOnly

\* A recorded value replaces the oldest only at the cap, and the record stays well formed.
LEMMA PushRecords ==
  ASSUME NEW v \in Txt, NEW l \in [values : Seq(Txt), expires : Nat], now \in Nat,
         Len(l.values) <= MaxValues, Distinct(l.values)
  PROVE  /\ Push(l, v) \in [values : Seq(Txt), expires : Nat] /\ Recorded(Push(l, v))
         /\ Push(l, v).expires = now + ChallengeTtl
         /\ \A k \in 1 .. Len(l.values) :
              \/ \E j \in 1 .. Len(Push(l, v).values) : Push(l, v).values[j] = l.values[k]
              \/ k = 1 /\ Len(l.values) = MaxValues
<1> DEFINE s == l.values
           has == \E k \in 1 .. Len(s) : s[k] = v
           room == IF Len(s) >= MaxValues THEN Tail(s) ELSE s
           t == IF has THEN s ELSE Append(room, v)
<1>1. Push(l, v) = [values |-> t, expires |-> now + ChallengeTtl]
  BY DEF Push
<1>2. s \in Seq(Txt) /\ Len(s) \in Nat /\ Len(s) <= MaxValues /\ Distinct(s) /\ MaxValues \in Nat \ {0} /\ ChallengeTtl \in Nat
  BY LenProperties, ChallengeLimits
<1> HIDE DEF s
<1>3. CASE has
  <2>1. t = s /\ Len(s) \in 1 .. MaxValues
    BY <1>2, <1>3
  <2> HIDE DEF t
  <2> QED BY <1>1, <1>2, <2>1 DEF Recorded, s
<1>4. CASE ~has
  <2>1. t = Append(room, v)
    BY <1>4
  <2> HIDE DEF t
  <2>2. CASE Len(s) >= MaxValues
    <3>1. Len(s) = MaxValues /\ room = Tail(s) /\ s # <<>>
      BY <1>2, <2>2, EmptySeq
    <3>2. Tail(s) \in Seq(Txt) /\ Len(Tail(s)) = Len(s) - 1 /\ \A k \in 1 .. Len(Tail(s)) : Tail(s)[k] = s[k + 1]
      BY <1>2, <3>1, HeadTailProperties
    <3>3. t \in Seq(Txt) /\ Len(t) = Len(s) /\ t[Len(s)] = v /\ \A k \in 1 .. Len(s) - 1 : t[k] = s[k + 1]
      BY <1>2, <2>1, <3>1, <3>2, AppendProperties
    <3>4. Distinct(t)
      <4> SUFFICES ASSUME NEW j \in 1 .. Len(s), NEW k \in 1 .. Len(s), t[j] = t[k] PROVE j = k
        BY <3>3 DEF Distinct
      <4>1. \A i \in 1 .. Len(s) : i # Len(s) => i \in 1 .. Len(s) - 1 /\ i + 1 \in 1 .. Len(s)
        BY <1>2
      <4>2. \A i \in 1 .. Len(s) - 1 : t[i] = s[i + 1] /\ i + 1 \in 1 .. Len(s) /\ t[i] # v
        BY <1>2, <1>4, <3>3
      <4>3. CASE j = Len(s) \/ k = Len(s)
        BY <3>3, <4>1, <4>2, <4>3
      <4>4. CASE j # Len(s) /\ k # Len(s)
        <5>1. s[j + 1] = s[k + 1] /\ j + 1 \in 1 .. Len(s) /\ k + 1 \in 1 .. Len(s)
          BY <4>1, <4>2, <4>4
        <5>2. j + 1 = k + 1
          BY <1>2, <5>1 DEF Distinct
        <5> QED BY <5>2
      <4> QED BY <4>3, <4>4
    <3>5. \A k \in 1 .. Len(s) : (\E j \in 1 .. Len(t) : t[j] = s[k]) \/ (k = 1 /\ Len(s) = MaxValues)
      <4> SUFFICES ASSUME NEW k \in 1 .. Len(s), k # 1 PROVE \E j \in 1 .. Len(t) : t[j] = s[k]
        BY <3>1
      <4>1. k - 1 \in 1 .. Len(s) - 1 /\ (k - 1) + 1 = k /\ k - 1 \in 1 .. Len(t)
        BY <1>2, <3>3
      <4> QED BY <3>3, <4>1
    <3>6. Len(t) \in 1 .. MaxValues
      BY <1>2, <3>1, <3>3
    <3> QED BY <1>1, <1>2, <3>3, <3>4, <3>5, <3>6 DEF Recorded, s
  <2>3. CASE ~(Len(s) >= MaxValues)
    <3>1. t \in Seq(Txt) /\ Len(t) = Len(s) + 1 /\ t[Len(s) + 1] = v /\ \A k \in 1 .. Len(s) : t[k] = s[k]
      BY <1>2, <2>1, <2>3, AppendProperties
    <3>2. Distinct(t)
      <4> SUFFICES ASSUME NEW j \in 1 .. Len(s) + 1, NEW k \in 1 .. Len(s) + 1, t[j] = t[k] PROVE j = k
        BY <3>1 DEF Distinct
      <4>1. \A i \in 1 .. Len(s) + 1 : i # Len(s) + 1 => i \in 1 .. Len(s)
        BY <1>2
      <4>2. \A i \in 1 .. Len(s) : t[i] = s[i] /\ t[i] # v
        BY <1>4, <3>1
      <4> QED BY <1>2, <3>1, <4>1, <4>2 DEF Distinct
    <3>3. Len(t) \in 1 .. MaxValues
      BY <1>2, <2>3, <3>1
    <3>4. \A k \in 1 .. Len(s) : \E j \in 1 .. Len(t) : t[j] = s[k]
      <4> SUFFICES ASSUME NEW k \in 1 .. Len(s) PROVE \E j \in 1 .. Len(t) : t[j] = s[k]
        OBVIOUS
      <4>1. k \in 1 .. Len(t)
        BY <1>2, <3>1
      <4> QED BY <3>1, <4>1
    <3> QED BY <1>1, <1>2, <3>1, <3>2, <3>3, <3>4 DEF Recorded, s
  <2> QED BY <2>2, <2>3
<1> QED BY <1>3, <1>4

InFlight(n) ==
  Kept(n) => \A k \in 1 .. Len(live[n].values) :
               \/ \E j \in 1 .. Len(live'[n].values) : live'[n].values[j] = live[n].values[k]
               \/ k = 1 /\ Len(live[n].values) = MaxValues /\ live'[n] # Dead

\* A step that only drops records.
LEMMA LiveShrinks ==
  ASSUME LiveIInv, posted' = posted, now' = now \/ now' = now + 1,
         live' = [n \in DnsName |-> live'[n]],
         \A n \in DnsName : live'[n] = Dead \/ live'[n] = live[n], AnswersAreLive'
  PROVE  LiveIInv'
<1>1. LiveNames' \subseteq LiveNames /\ IsFiniteSet(LiveNames) /\ \A n \in LiveNames' : live'[n] = live[n]
  <2>1. LiveNames \subseteq DnsName
    BY DEF LiveNames
  <2>2. IsFiniteSet(LiveNames)
    BY <2>1, ChallengeLimits, FS_Subset
  <2> QED BY <2>2 DEF LiveNames
<1>2. Cardinality(LiveNames') <= MaxLive
  <2>1. Cardinality(LiveNames') \in Nat /\ Cardinality(LiveNames) \in Nat /\ Cardinality(LiveNames') <= Cardinality(LiveNames)
    BY <1>1, FS_Subset, FS_CardinalityType
  <2> QED BY <2>1, ChallengeLimits DEF LiveIInv
<1>3. now' \in Nat \ {0} /\ \A m \in 1 .. now : m \in 1 .. now'
  BY DEF LiveIInv
<1>4. \A n \in LiveNames' : /\ live'[n] \in [values : Seq(Txt), expires : Nat] /\ Recorded(live'[n])
                            /\ live'[n].expires = posted[n] + ChallengeTtl
                            /\ posted[n] \in 1 .. now'
  BY <1>1, <1>3 DEF LiveIInv
<1> QED BY <1>2, <1>3, <1>4 DEF LiveIInv, Recorded

LEMMA LiveQuiet ==
  ASSUME LiveIInv, boots \in Nat,
         \/ \E d \in Orderer, o \in Orders : Refuse(d, Derived(d, o))
         \/ \E n \in DnsName, d \in Orderer : MoveName(n, d)
         \/ Pass \/ Reboot \/ UNCHANGED chalVars
  PROVE  LiveIInv' /\ (boots' = boots => \A n \in DnsName : InFlight(n))
<1>1. posted' = posted /\ (now' = now \/ now' = now + 1)
  BY DEF Refuse, MoveName, Pass, Reboot, chalVars
<1>2. /\ live' = [n \in DnsName |-> live'[n]]
      /\ \A n \in DnsName : live'[n] = Dead \/ live'[n] = live[n]
      /\ boots' = boots => \A n \in DnsName : Kept(n) => live'[n] = live[n]
  <2>1. CASE live' = live
    BY <2>1 DEF LiveIInv
  <2>2. CASE live' = PrunedLive
    BY <2>2 DEF PrunedLive
  <2>3. CASE Reboot
    BY <2>3 DEF Reboot, LiveIInv, BudgetIInv
  <2> QED BY <2>1, <2>2, <2>3 DEF Refuse, MoveName, Pass, chalVars
<1>3. AnswersAreLive'
  <2>1. CASE reply' = NoReply
    BY <2>1 DEF AnswersAreLive, NoReply
  <2>2. CASE UNCHANGED chalVars
    BY <2>2 DEF AnswersAreLive, chalVars, LiveIInv
  <2> QED BY <2>1, <2>2 DEF Refuse, MoveName, Pass, Reboot
<1> QED BY <1>1, <1>2, <1>3, LiveShrinks DEF InFlight

LEMMA LiveAnswers ==
  ASSUME LiveIInv, NEW n \in DnsName, NEW txt \in BOOLEAN, Query(n, txt)
  PROVE  LiveIInv' /\ \A m \in DnsName : InFlight(m)
<1>1. posted' = posted /\ now' = now /\ live' = PrunedLive
  BY DEF Query
<1>2. /\ live' = [m \in DnsName |-> live'[m]]
      /\ \A m \in DnsName : live'[m] = Dead \/ live'[m] = live[m]
      /\ \A m \in DnsName : Kept(m) => live'[m] = live[m]
  BY <1>1 DEF PrunedLive
<1>3. AnswersAreLive'
  <2>1. CASE Kept(n) /\ txt
    <3>1. reply' = [code |-> "answer", values |-> live[n].values, name |-> n]
      BY <2>1 DEF Query
    <3>2. n \in LiveNames /\ live[n].expires > now
      BY <2>1 DEF Kept, LiveNames
    <3>3. posted[n] \in 1 .. now /\ posted[n] + ChallengeTtl > now /\ now \in Nat
      BY <3>2 DEF LiveIInv
    <3> QED BY <1>1, <3>1, <3>3, ChallengeLimits DEF AnswersAreLive
  <2>2. CASE ~(Kept(n) /\ txt)
    <3>1. reply'.code # "answer"
      <4>1. reply' = [code |-> "NXDOMAIN", values |-> <<>>, name |-> n] \/ reply' = [code |-> "NODATA", values |-> <<>>, name |-> n]
        BY <2>2 DEF Query
      <4> QED BY <4>1
    <3> QED BY <3>1 DEF AnswersAreLive
  <2> QED BY <2>1, <2>2
<1> QED BY <1>1, <1>2, <1>3, LiveShrinks DEF InFlight

\* What an order is: one value for each of its names.
LEMMA OrderShape ==
  ASSUME NEW d \in Orderer, NEW o \in Orders, NEW n \in NamesIn(Derived(d, o))
  PROVE  /\ n \in DnsName
         /\ \E r \in Derived(d, o) : /\ r.name = n /\ r.value \in Txt
                                     /\ (CHOOSE q \in Derived(d, o) : q.name = n) = r
<1>1. PICK r \in Derived(d, o) : r.name = n
  BY DEF NamesIn
<1>2. \A q \in Derived(d, o) : q \in [name : DnsName, value : Txt] /\ (q.name = n => q = r)
  BY <1>1 DEF Derived, Orders
<1> QED BY <1>1, <1>2

\* A step that writes the names of an order and drops what has expired.
LEMMA LiveWrites ==
  ASSUME LiveIInv, NEW touched \in SUBSET DnsName, now' = now,
         live' = [n \in DnsName |-> live'[n]], reply' = NoReply,
         posted' = [n \in DnsName |-> IF n \in touched THEN now ELSE posted[n]],
         \A n \in DnsName : n \notin touched => live'[n] = PrunedLive[n],
         \A n \in touched : /\ live'[n] \in [values : Seq(Txt), expires : Nat] /\ Recorded(live'[n])
                          /\ live'[n].expires = now + ChallengeTtl,
         Cardinality({n \in DnsName : Kept(n)} \cup touched) <= MaxLive
  PROVE  LiveIInv'
<1>1. LiveNames' \subseteq {n \in DnsName : Kept(n)} \cup touched
  BY DEF LiveNames, PrunedLive
<1>2. Cardinality(LiveNames') <= MaxLive
  <2> DEFINE S == {n \in DnsName : Kept(n)} \cup touched
  <2>1. S \subseteq DnsName /\ LiveNames' \subseteq S
    BY <1>1
  <2>2. IsFiniteSet(S)
    BY <2>1, ChallengeLimits, FS_Subset
  <2>3. Cardinality(LiveNames') \in Nat /\ Cardinality(S) \in Nat /\ Cardinality(LiveNames') <= Cardinality(S)
    BY <2>1, <2>2, FS_Subset, FS_CardinalityType
  <2> HIDE DEF S
  <2>4. Cardinality(S) <= MaxLive
    BY DEF S
  <2> QED BY <2>3, <2>4, ChallengeLimits
<1>3. \A n \in LiveNames' : n \in DnsName /\ (n \notin touched => n \in LiveNames /\ live'[n] = live[n])
  BY DEF LiveNames, PrunedLive, Kept
<1>4. now \in Nat \ {0} /\ now \in 1 .. now /\ posted' \in [DnsName -> Nat]
  BY DEF LiveIInv
<1>5. \A n \in LiveNames' : /\ live'[n] \in [values : Seq(Txt), expires : Nat] /\ Recorded(live'[n])
                            /\ live'[n].expires = posted'[n] + ChallengeTtl
                            /\ posted'[n] \in 1 .. now'
  <2> SUFFICES ASSUME NEW n \in LiveNames'
               PROVE  /\ live'[n] \in [values : Seq(Txt), expires : Nat] /\ Recorded(live'[n])
                      /\ live'[n].expires = posted'[n] + ChallengeTtl
                      /\ posted'[n] \in 1 .. now'
    OBVIOUS
  <2>1. CASE n \in touched
    BY <1>3, <1>4, <2>1
  <2>2. CASE n \notin touched
    <3>1. n \in LiveNames /\ live'[n] = live[n] /\ posted'[n] = posted[n]
      BY <1>3, <2>2
    <3> QED BY <3>1 DEF LiveIInv
  <2> QED BY <2>1, <2>2
<1>6. AnswersAreLive'
  BY DEF AnswersAreLive, NoReply
<1> QED BY <1>2, <1>4, <1>5, <1>6 DEF LiveIInv, Recorded

LEMMA LivePublished ==
  ASSUME LiveIInv, NEW d \in Orderer, NEW o \in Orders, Publish(d, Derived(d, o))
  PROVE  LiveIInv' /\ \A n \in DnsName : InFlight(n)
<1> DEFINE own == Derived(d, o)
           touched == NamesIn(own)
           val(n) == (CHOOSE r \in own : r.name = n).value
<1>1. /\ live' = [n \in DnsName |-> IF n \in touched THEN Push(PrunedLive[n], val(n)) ELSE PrunedLive[n]]
      /\ posted' = [n \in DnsName |-> IF n \in touched THEN now ELSE posted[n]]
      /\ reply' = NoReply /\ now' = now /\ Room(own)
  BY DEF Publish, Stamp
<1>2. touched \in SUBSET DnsName /\ \A n \in touched : val(n) \in Txt
  <2> SUFFICES ASSUME NEW n \in touched PROVE n \in DnsName /\ val(n) \in Txt
    OBVIOUS
  <2>1. n \in NamesIn(Derived(d, o))
    OBVIOUS
  <2>2. n \in DnsName /\ \E r \in own : r.value \in Txt /\ (CHOOSE q \in own : q.name = n) = r
    BY <2>1, OrderShape
  <2> QED BY <2>2
<1>3. now \in Nat /\ \A n \in DnsName : /\ PrunedLive[n] \in [values : Seq(Txt), expires : Nat]
                                        /\ Len(PrunedLive[n].values) <= MaxValues /\ Distinct(PrunedLive[n].values)
  <2> SUFFICES ASSUME NEW n \in DnsName
               PROVE  /\ PrunedLive[n] \in [values : Seq(Txt), expires : Nat]
                      /\ Len(PrunedLive[n].values) <= MaxValues /\ Distinct(PrunedLive[n].values)
    BY DEF LiveIInv
  <2>1. CASE Kept(n)
    <3>1. PrunedLive[n] = live[n] /\ n \in LiveNames
      BY <2>1 DEF PrunedLive, Kept, LiveNames
    <3>2. live[n] \in [values : Seq(Txt), expires : Nat] /\ Recorded(live[n])
      BY <3>1 DEF LiveIInv
    <3> QED BY <3>1, <3>2, ChallengeLimits DEF Recorded
  <2>2. CASE ~Kept(n)
    <3>1. PrunedLive[n] = [values |-> <<>>, expires |-> 0]
      BY <2>2 DEF PrunedLive, Dead
    <3>2. <<>> \in Seq(Txt) /\ Len(<<>>) = 0
      BY EmptySeq
    <3> QED BY <3>1, <3>2, ChallengeLimits DEF Distinct
  <2> QED BY <2>1, <2>2
<1> HIDE DEF val, own
<1>4. \A n \in touched : /\ live'[n] = Push(PrunedLive[n], val(n))
                       /\ live'[n] \in [values : Seq(Txt), expires : Nat] /\ Recorded(live'[n])
                       /\ live'[n].expires = now + ChallengeTtl
  BY <1>1, <1>2, <1>3, PushRecords
<1>5. LiveIInv'
  <2>1. Cardinality({n \in DnsName : Kept(n)} \cup touched) <= MaxLive
    BY <1>1 DEF Room
  <2>2. \A n \in DnsName : n \notin touched => live'[n] = PrunedLive[n]
    BY <1>1
  <2>3. live' = [n \in DnsName |-> live'[n]]
    BY <1>1
  <2> HIDE DEF touched
  <2> QED BY <1>1, <1>2, <1>4, <2>1, <2>2, <2>3, LiveWrites
<1>6. \A n \in DnsName : InFlight(n)
  <2> SUFFICES ASSUME NEW n \in DnsName, Kept(n), NEW k \in 1 .. Len(live[n].values)
               PROVE  \/ \E j \in 1 .. Len(live'[n].values) : live'[n].values[j] = live[n].values[k]
                      \/ k = 1 /\ Len(live[n].values) = MaxValues /\ live'[n] # Dead
    BY DEF InFlight
  <2>1. PrunedLive[n] = live[n]
    BY DEF PrunedLive
  <2>2. CASE n \notin touched
    BY <1>1, <2>1, <2>2
  <2>3. CASE n \in touched
    <3>1. \/ \E j \in 1 .. Len(live'[n].values) : live'[n].values[j] = live[n].values[k]
          \/ k = 1 /\ Len(live[n].values) = MaxValues
      <4> DEFINE l == live[n]
                 v == val(n)
      <4>1. l \in [values : Seq(Txt), expires : Nat] /\ Len(l.values) <= MaxValues /\ Distinct(l.values) /\ v \in Txt
            /\ live'[n] = Push(l, v) /\ k \in 1 .. Len(l.values) /\ now \in Nat
        BY <1>2, <1>3, <1>4, <2>1, <2>3
      <4> HIDE DEF l, v
      <4>2. \/ \E j \in 1 .. Len(Push(l, v).values) : Push(l, v).values[j] = l.values[k]
            \/ k = 1 /\ Len(l.values) = MaxValues
        BY <4>1, PushRecords
      <4> QED BY <4>1, <4>2 DEF l
    <3>2. live'[n] # Dead
      <4>1. Len(live'[n].values) # 0
        BY <1>4, <2>3 DEF Recorded
      <4>2. Dead.values = <<>> /\ Len(<<>>) = 0
        BY EmptySeq DEF Dead
      <4> QED BY <4>1, <4>2
    <3> QED BY <3>1, <3>2
  <2> QED BY <2>2, <2>3
<1> QED BY <1>5, <1>6

LEMMA LiveRepublished ==
  ASSUME LiveIInv, NEW d \in Orderer, NEW o \in Orders, Republish(d, Derived(d, o))
  PROVE  LiveIInv' /\ \A n \in DnsName : InFlight(n)
<1> DEFINE own == Derived(d, o)
           touched == NamesIn(own)
<1>1. /\ live' = [n \in DnsName |-> IF n \in touched THEN [PrunedLive[n] EXCEPT !.expires = now + ChallengeTtl] ELSE PrunedLive[n]]
      /\ posted' = [n \in DnsName |-> IF n \in touched THEN now ELSE posted[n]]
      /\ reply' = NoReply /\ now' = now /\ ~Novel(own, PrunedLive)
  BY DEF Republish, Stamp
<1>2. touched \in SUBSET DnsName
  BY OrderShape
<1>3. \A n \in touched : Kept(n) /\ PrunedLive[n] = live[n] /\ n \in LiveNames
  <2> SUFFICES ASSUME NEW n \in touched, ~Kept(n) PROVE FALSE
    BY <1>2 DEF PrunedLive, Kept, LiveNames
  <2>1. PICK r \in own : r.name = n
    BY DEF NamesIn
  <2>2. PrunedLive[n].values = <<>> /\ Len(<<>>) = 0
    BY <1>2, EmptySeq DEF PrunedLive, Dead
  <2> QED BY <1>1, <2>1, <2>2 DEF Novel
<1> HIDE DEF own
<1>4. \A n \in touched : /\ live'[n] \in [values : Seq(Txt), expires : Nat] /\ Recorded(live'[n])
                       /\ live'[n].expires = now + ChallengeTtl /\ live'[n].values = live[n].values
  <2> SUFFICES ASSUME NEW n \in touched
               PROVE  /\ live'[n] \in [values : Seq(Txt), expires : Nat] /\ Recorded(live'[n])
                      /\ live'[n].expires = now + ChallengeTtl /\ live'[n].values = live[n].values
    OBVIOUS
  <2>1. live[n] \in [values : Seq(Txt), expires : Nat] /\ Recorded(live[n]) /\ now + ChallengeTtl \in Nat
    <3>1. ChallengeTtl \in Nat /\ now \in Nat
      BY ChallengeLimits DEF LiveIInv
    <3>2. live[n] \in [values : Seq(Txt), expires : Nat] /\ Recorded(live[n])
      BY <1>3 DEF LiveIInv
    <3> QED BY <3>1, <3>2
  <2>2. live'[n] = [live[n] EXCEPT !.expires = now + ChallengeTtl]
    BY <1>1, <1>2, <1>3
  <2> QED BY <2>1, <2>2 DEF Recorded
<1>5. LiveIInv'
  <2>1. {n \in DnsName : Kept(n)} \cup touched \subseteq LiveNames /\ LiveNames \subseteq DnsName
    BY <1>2, <1>3 DEF Kept, LiveNames
  <2>2. Cardinality({n \in DnsName : Kept(n)} \cup touched) <= MaxLive
    <3> DEFINE S == {n \in DnsName : Kept(n)} \cup touched
    <3> HIDE DEF S
    <3>1. S \subseteq LiveNames /\ IsFiniteSet(LiveNames)
      BY <2>1, ChallengeLimits, FS_Subset DEF S
    <3>2. Cardinality(S) \in Nat /\ Cardinality(LiveNames) \in Nat /\ Cardinality(S) <= Cardinality(LiveNames)
      BY <3>1, FS_Subset, FS_CardinalityType
    <3>3. Cardinality(S) <= MaxLive
      BY <3>2, ChallengeLimits DEF LiveIInv
    <3> QED BY <3>3 DEF S
  <2>3. \A n \in DnsName : n \notin touched => live'[n] = PrunedLive[n]
    BY <1>1
  <2>4. live' = [n \in DnsName |-> live'[n]]
    BY <1>1
  <2> HIDE DEF touched
  <2> QED BY <1>1, <1>2, <1>4, <2>2, <2>3, <2>4, LiveWrites
<1>6. \A n \in DnsName : InFlight(n)
  <2> SUFFICES ASSUME NEW n \in DnsName, Kept(n) PROVE live'[n].values = live[n].values
    BY DEF InFlight
  <2>1. PrunedLive[n] = live[n]
    BY DEF PrunedLive
  <2> QED BY <1>1, <1>4, <2>1
<1> QED BY <1>5, <1>6

-----------------------------------------------------------------------------
SpentIn(s, t) == {i \in s : i.at <= t /\ t - i.at < Window}
Slice(s, d) == {i \in s : i.dev = d}

\* A step that charges nobody.
LEMMA BudgetKept ==
  ASSUME BudgetIInv, spent' = spent, now' = now, issued' = issued \/ issued' = PrunedIssued, boots' = boots
  PROVE  BudgetIInv'
<1>1. issued' \subseteq spent /\ \A i \in issued : InWindow(i) => i \in issued'
  BY DEF PrunedIssued, BudgetIInv
<1>2. BudgetsHold'
  BY DEF BudgetIInv, BudgetsHold, Within
<1>3. \A i \in spent : InWindow(i)' = InWindow(i)
  BY DEF InWindow
<1> QED BY <1>1, <1>2, <1>3 DEF BudgetIInv, InWindow

LEMMA BudgetPass ==
  ASSUME BudgetIInv, Pass PROVE BudgetIInv'
<1>1. now' = now + 1 /\ UNCHANGED <<issued, spent, boots>> /\ now \in Nat \ {0} /\ Window \in Nat /\ MaxWeek \in Nat /\ MaxDevice \in Nat
  BY ChallengeLimits DEF Pass, BudgetIInv
<1>2. \A i \in spent : i.at \in 1 .. now
  BY DEF BudgetIInv
<1>3. \A i \in spent : i.at \in 1 .. now' /\ (now' - i.at < Window => now - i.at < Window)
  BY <1>1, <1>2
<1>4. BudgetsHold'
  <2> SUFFICES ASSUME boots = 0, NEW t \in 1 .. now'
               PROVE  /\ Cardinality(Within(t)) <= MaxWeek
                      /\ \A d \in Orderer : Cardinality({i \in Within(t) : i.dev = d}) <= MaxDevice
    BY <1>1 DEF BudgetsHold, Within
  <2>1. CASE t \in 1 .. now
    BY <2>1 DEF BudgetIInv, BudgetsHold
  <2>2. CASE t \notin 1 .. now
    <3>1. t = now + 1 /\ now \in 1 .. now
      BY <1>1, <2>2
    <3>2. Within(t) \subseteq Within(now) /\ Within(now) \subseteq spent
      BY <1>1, <1>2, <1>3, <3>1 DEF Within
    <3>3. IsFiniteSet(Within(now)) /\ Cardinality(Within(now)) <= MaxWeek
      BY <3>1, <3>2, FS_Subset DEF BudgetIInv, BudgetsHold
    <3>4. Cardinality(Within(t)) <= MaxWeek
      <4>1. Cardinality(Within(t)) \in Nat /\ Cardinality(Within(now)) \in Nat /\ Cardinality(Within(t)) <= Cardinality(Within(now))
        BY <3>2, <3>3, FS_Subset, FS_CardinalityType
      <4> QED BY <1>1, <3>3, <4>1
    <3>5. ASSUME NEW d \in Orderer PROVE Cardinality({i \in Within(t) : i.dev = d}) <= MaxDevice
      <4> DEFINE A == {i \in Within(t) : i.dev = d}
                 B == {i \in Within(now) : i.dev = d}
      <4>1. A \subseteq B /\ B \subseteq Within(now)
        BY <3>2
      <4>2. Cardinality(B) <= MaxDevice
        BY <3>1 DEF BudgetIInv, BudgetsHold
      <4> HIDE DEF A, B
      <4>3. IsFiniteSet(B)
        BY <3>3, <4>1, FS_Subset
      <4>4. Cardinality(A) \in Nat /\ Cardinality(B) \in Nat /\ Cardinality(A) <= Cardinality(B)
        BY <4>1, <4>3, FS_Subset, FS_CardinalityType
      <4>5. Cardinality(A) <= MaxDevice
        BY <1>1, <4>2, <4>4
      <4> QED BY <4>5 DEF A
    <3> QED BY <3>4, <3>5
  <2> QED BY <2>1, <2>2
<1>5. boots' = 0 => \A i \in spent' : InWindow(i)' => i \in issued'
  <2> SUFFICES ASSUME boots = 0, NEW i \in spent, now' - i.at < Window PROVE i \in issued
    BY <1>1 DEF InWindow
  <2>1. InWindow(i)
    BY <1>3 DEF InWindow
  <2> QED BY <2>1 DEF BudgetIInv
<1> QED BY <1>1, <1>3, <1>4, <1>5 DEF BudgetIInv

LEMMA BudgetReboot ==
  ASSUME BudgetIInv, Reboot PROVE BudgetIInv'
<1>1. boots' = boots + 1 /\ issued' = {} /\ spent' = spent /\ now' = now /\ boots \in Nat
  BY DEF Reboot, BudgetIInv
<1>2. boots' # 0 /\ boots' \in Nat
  BY <1>1
<1> QED BY <1>1, <1>2 DEF BudgetIInv, BudgetsHold

LEMMA BudgetCharged ==
  ASSUME BudgetIInv, NEW d \in Orderer, NEW order, Publish(d, order) PROVE BudgetIInv'
<1> DEFINE c == Cardinality(spent)
           e == [dev |-> d, at |-> now, id |-> c]
<1>1. /\ issued' = PrunedIssued \cup {e} /\ spent' = spent \cup {e} /\ now' = now /\ boots' = boots
      /\ DeviceBudget(d) /\ Cardinality(PrunedIssued) < MaxWeek
  BY DEF Publish
<1>2. /\ now \in Nat \ {0} /\ c \in Nat /\ IsFiniteSet(spent) /\ boots \in Nat
      /\ MaxWeek \in Nat /\ MaxDevice \in Nat /\ Window \in Nat
      /\ \A i \in spent : i.at \in 1 .. now /\ i.id \in 0 .. c - 1
  BY FS_CardinalityType, ChallengeLimits DEF BudgetIInv
<1>3. e.dev = d /\ e.at = now /\ e.id = c /\ e \notin spent
  BY <1>2
<1> HIDE DEF e, c
<1>4. IsFiniteSet(spent') /\ Cardinality(spent') = c + 1
  BY <1>1, <1>2, <1>3, FS_AddElement DEF c
<1>5. \A i \in spent' : i.at \in 1 .. now /\ i.id \in 0 .. c
  BY <1>1, <1>2, <1>3
<1>6. issued' \subseteq spent'
  BY <1>1 DEF PrunedIssued, BudgetIInv
<1>7. boots' = 0 => \A i \in spent' : InWindow(i)' => i \in issued'
  BY <1>1 DEF InWindow, PrunedIssued, BudgetIInv
<1>8. BudgetsHold'
  <2> SUFFICES ASSUME boots = 0, NEW t \in 1 .. now
               PROVE  /\ Cardinality(SpentIn(spent', t)) <= MaxWeek
                      /\ \A q \in Orderer : Cardinality(Slice(SpentIn(spent', t), q)) <= MaxDevice
    BY <1>1 DEF BudgetsHold, Within, SpentIn, Slice
  <2>1. CASE t # now
    <3>1. SpentIn(spent', t) = Within(t)
      BY <1>1, <1>2, <1>3, <2>1 DEF SpentIn, Within
    <3> QED BY <3>1 DEF BudgetIInv, BudgetsHold, Slice
  <2>2. CASE t = now
    <3>1. SpentIn(spent', t) \subseteq PrunedIssued \cup {e} /\ PrunedIssued \subseteq spent
      BY <1>1, <1>2, <2>2 DEF SpentIn, PrunedIssued, InWindow, BudgetIInv
    <3>2. IsFiniteSet(PrunedIssued)
      BY <1>2, <3>1, FS_Subset
    <3>3. e \notin PrunedIssued
      BY <1>3, <3>1
    <3>4. Cardinality(SpentIn(spent', t)) <= MaxWeek
      <4> DEFINE A == SpentIn(spent', t)
                 B == PrunedIssued \cup {e}
      <4>1. A \subseteq B
        BY <3>1
      <4>2. IsFiniteSet(B) /\ Cardinality(B) = Cardinality(PrunedIssued) + 1 /\ Cardinality(PrunedIssued) \in Nat
        BY <3>2, <3>3, FS_AddElement, FS_CardinalityType
      <4> HIDE DEF A, B
      <4>3. Cardinality(A) \in Nat /\ Cardinality(A) <= Cardinality(B)
        BY <4>1, <4>2, FS_Subset, FS_CardinalityType
      <4>4. Cardinality(A) <= MaxWeek
        BY <1>1, <1>2, <4>2, <4>3
      <4> QED BY <4>4 DEF A
    <3>5. ASSUME NEW q \in Orderer PROVE Cardinality(Slice(SpentIn(spent', t), q)) <= MaxDevice
      <4> DEFINE A == Slice(SpentIn(spent', t), q)
                 P == {i \in PrunedIssued : i.dev = q}
      <4>1. P \subseteq PrunedIssued /\ IsFiniteSet(P)
        BY <3>2, FS_Subset
      <4>2. CASE q = d
        <5>1. A \subseteq P \cup {e} /\ e \notin P
          BY <1>3, <3>1, <3>3 DEF Slice
        <5>2. Cardinality(P) < MaxDevice
          <6>1. Cardinality(P) < (IF MaxDevice < MaxWeek THEN MaxDevice ELSE MaxWeek)
            BY <1>1, <4>2 DEF DeviceBudget
          <6>2. Cardinality(P) \in Nat
            BY <4>1, FS_CardinalityType
          <6> HIDE DEF P
          <6> QED BY <1>2, <6>1, <6>2
        <5> HIDE DEF A, P
        <5>3. IsFiniteSet(P \cup {e}) /\ Cardinality(P \cup {e}) = Cardinality(P) + 1 /\ Cardinality(P) \in Nat
          BY <4>1, <5>1, FS_AddElement, FS_CardinalityType
        <5>4. Cardinality(A) \in Nat /\ Cardinality(A) <= Cardinality(P \cup {e})
          BY <5>1, <5>3, FS_Subset, FS_CardinalityType
        <5>5. Cardinality(A) <= MaxDevice
          BY <1>2, <5>2, <5>3, <5>4
        <5> QED BY <5>5 DEF A
      <4>3. CASE q # d
        <5> DEFINE B == {i \in Within(now) : i.dev = q}
        <5>1. A \subseteq B
          BY <1>1, <1>3, <2>2, <4>3 DEF Slice, SpentIn, Within
        <5>2. Cardinality(B) <= MaxDevice
          <6>1. now \in 1 .. now
            BY <1>2
          <6> QED BY <6>1 DEF BudgetIInv, BudgetsHold
        <5>3. B \subseteq spent
          BY DEF Within
        <5> HIDE DEF A, B
        <5>4. IsFiniteSet(B)
          BY <1>2, <5>3, FS_Subset
        <5>5. Cardinality(A) \in Nat /\ Cardinality(B) \in Nat /\ Cardinality(A) <= Cardinality(B)
          BY <5>1, <5>4, FS_Subset, FS_CardinalityType
        <5>6. Cardinality(A) <= MaxDevice
          BY <1>2, <5>2, <5>5
        <5> QED BY <5>6 DEF A
      <4> QED BY <4>2, <4>3
    <3> QED BY <3>4, <3>5
  <2> QED BY <2>1, <2>2
<1>9. \A i \in spent' : i.id \in 0 .. Cardinality(spent') - 1
  <2>1. (c + 1) - 1 = c
    BY <1>2
  <2> QED BY <1>4, <1>5, <2>1
<1> QED BY <1>1, <1>2, <1>4, <1>5, <1>6, <1>7, <1>8, <1>9 DEF BudgetIInv

LEMMA ChalStep ==
  ASSUME LiveIInv, BudgetIInv, HolderIInv, [ChalNext]_chalVars
  PROVE  /\ LiveIInv' /\ BudgetIInv' /\ HolderIInv'
         /\ boots' = boots => \A n \in DnsName : InFlight(n)
<1>0. boots \in Nat
  BY DEF BudgetIInv
<1>1. ASSUME NEW d \in Orderer, NEW o \in Orders, Publish(d, Derived(d, o))
      PROVE  LiveIInv' /\ BudgetIInv' /\ HolderIInv' /\ \A n \in DnsName : InFlight(n)
  <2>1. LiveIInv' /\ \A n \in DnsName : InFlight(n)
    BY <1>1, LivePublished
  <2>2. BudgetIInv'
    BY <1>1, BudgetCharged
  <2>3. HolderIInv'
    <3>1. holder' = holder /\ heirs' = heirs /\ posters' = posters \cup {<<n, d>> : n \in NamesIn(Derived(d, o))}
      BY <1>1 DEF Publish
    <3>2. \A n \in NamesIn(Derived(d, o)) : holder[n] = d /\ n \in DnsName
      BY OrderShape DEF NamesIn, Derived
    <3> QED BY <3>1, <3>2 DEF HolderIInv, OwnNamesOnly
  <2> QED BY <2>1, <2>2, <2>3
<1>2. ASSUME NEW d \in Orderer, NEW o \in Orders, Republish(d, Derived(d, o))
      PROVE  LiveIInv' /\ BudgetIInv' /\ HolderIInv' /\ \A n \in DnsName : InFlight(n)
  <2>1. LiveIInv' /\ \A n \in DnsName : InFlight(n)
    BY <1>2, LiveRepublished
  <2>2. BudgetIInv'
    BY <1>2, BudgetKept DEF Republish
  <2> QED BY <1>2, <2>1, <2>2 DEF Republish, HolderIInv, OwnNamesOnly
<1>3. ASSUME NEW n \in DnsName, NEW txt \in BOOLEAN, Query(n, txt)
      PROVE  LiveIInv' /\ BudgetIInv' /\ HolderIInv' /\ \A m \in DnsName : InFlight(m)
  <2>1. LiveIInv' /\ \A m \in DnsName : InFlight(m)
    BY <1>3, LiveAnswers
  <2>2. BudgetIInv'
    BY <1>3, BudgetKept DEF Query
  <2> QED BY <1>3, <2>1, <2>2 DEF Query, HolderIInv, OwnNamesOnly
<1>4. ASSUME \/ \E d \in Orderer, o \in Orders : Refuse(d, Derived(d, o))
             \/ \E n \in DnsName, d \in Orderer : MoveName(n, d)
             \/ Pass \/ Reboot \/ UNCHANGED chalVars
      PROVE  LiveIInv' /\ BudgetIInv' /\ HolderIInv' /\ (boots' = boots => \A n \in DnsName : InFlight(n))
  <2>1. LiveIInv' /\ (boots' = boots => \A n \in DnsName : InFlight(n))
    BY <1>0, <1>4, LiveQuiet
  <2>2. BudgetIInv'
    <3>1. CASE Pass \/ Reboot
      BY <3>1, BudgetPass, BudgetReboot
    <3>2. CASE ~(Pass \/ Reboot)
      BY <1>4, <3>2, BudgetKept DEF Refuse, MoveName, chalVars
    <3> QED BY <3>1, <3>2
  <2>3. HolderIInv'
    <3>1. ASSUME NEW n \in DnsName, NEW d \in Orderer, MoveName(n, d) PROVE HolderIInv'
      <4>1. heirs' = heirs \cup {<<n, holder[n]>>} /\ holder' = [holder EXCEPT ![n] = d] /\ posters' = posters
        BY <3>1 DEF MoveName
      <4>2. ASSUME NEW p \in posters PROVE holder'[p[1]] = p[2] \/ p \in heirs'
        <5>1. p[1] \in DnsName /\ p = <<p[1], p[2]>> /\ (holder[p[1]] = p[2] \/ p \in heirs)
          BY DEF HolderIInv, OwnNamesOnly
        <5> QED BY <4>1, <5>1 DEF HolderIInv
      <4> QED BY <4>1, <4>2 DEF HolderIInv, OwnNamesOnly
    <3>2. CASE UNCHANGED <<holder, heirs, posters>>
      BY <3>2 DEF HolderIInv, OwnNamesOnly
    <3> QED BY <1>4, <3>1, <3>2 DEF Refuse, Pass, Reboot, chalVars
  <2> QED BY <2>1, <2>2, <2>3
<1> QED BY <1>1, <1>2, <1>3, <1>4 DEF ChalNext

LEMMA ChalStart == ChalInit => LiveIInv /\ BudgetIInv /\ HolderIInv
<1> SUFFICES ASSUME ChalInit PROVE LiveIInv /\ BudgetIInv /\ HolderIInv
  OBVIOUS
<1>1. LiveNames = {} /\ live = [n \in DnsName |-> Dead] /\ reply.code # "answer" /\ now = 1
  BY DEF ChalInit, LiveNames, NoReply
<1>2. Cardinality({}) = 0 /\ IsFiniteSet({})
  BY FS_EmptySet
<1>3. LiveIInv
  BY <1>1, <1>2, ChallengeLimits DEF ChalInit, LiveIInv, AnswersAreLive
<1>4. BudgetIInv
  <2>1. \A t : Within(t) = {} /\ \A d : {i \in Within(t) : i.dev = d} = {}
    BY DEF ChalInit, Within
  <2>2. BudgetsHold
    BY <1>2, <2>1, ChallengeLimits DEF BudgetsHold
  <2> QED BY <1>2, <2>2 DEF ChalInit, BudgetIInv
<1> QED BY <1>3, <1>4 DEF ChalInit, HolderIInv, OwnNamesOnly

\* zone.rs:57, zone.rs:229 and acme.rs:9, for any devices, names, values and limits: the
\* budgets hold in every window since the last restart, only holders publish, answers are
\* live, and no step takes a live value from a name but by its own newer ones.
THEOREM ChallengesAreSafe == ChalSpec => ChallengesHold
<1> DEFINE I == LiveIInv /\ BudgetIInv /\ HolderIInv
<1>1. ChalInit => I
  BY ChalStart
<1>2. I /\ [ChalNext]_chalVars => I'
  BY ChalStep
<1>3. I => ChalTypeOK /\ OwnNamesOnly /\ BudgetsHold /\ AnswersAreLive
  BY DEF LiveIInv, BudgetIInv, HolderIInv, ChalTypeOK, Recorded, Distinct
<1>4. I /\ [ChalNext]_chalVars
        => [boots' = boots => \A n \in DnsName : Kept(n) =>
              \A k \in 1 .. Len(live[n].values) :
                \/ \E j \in 1 .. Len(live'[n].values) : live'[n].values[j] = live[n].values[k]
                \/ k = 1 /\ Len(live[n].values) = MaxValues /\ live'[n] # Dead]_chalVars
  BY ChalStep DEF InFlight
<1> QED BY <1>1, <1>2, <1>3, <1>4, PTL DEF ChalSpec, ChallengesHold, InFlightIsKept

-----------------------------------------------------------------------------
(* Limiter.  The requests admitted up to an instant are a recursive sum, so *)
(* the facts about it are proved by the least counterexample.               *)

\* Every set of naturals that is not empty has a least element.
LEMMA LeastElement ==
  ASSUME NEW T \in SUBSET Nat, T # {} PROVE \E x \in T : \A y \in T : x <= y
<1>1. PICK x \in T : \A y \in T : <<y, x>> \notin OpToRel(<, Nat)
  BY WFMin, NatLessThanWellFounded
<1>2. \A y \in T : ~(y < x)
  BY <1>1 DEF OpToRel
<1> QED BY <1>2

Horizon == MaxInstant + 1
Hits == [0 .. MaxInstant -> Nat]

IsTally(f, h) == f = [t \in 0 .. MaxInstant + 1 |-> IF t = 0 THEN 0 ELSE f[t - 1] + h[t - 1]]

LEMMA TallyExists ==
  ASSUME NEW h \in Hits
  PROVE  \E f : IsTally(f, h) /\ f \in [0 .. MaxInstant + 1 -> Nat]
<1> DEFINE Good(m) == \E f \in [0 .. m -> Nat] : f[0] = 0 /\ \A t \in 1 .. m : f[t] = f[t - 1] + h[t - 1]
           Bad == {m \in 0 .. Horizon : ~Good(m)}
<1>0. MaxInstant \in Nat /\ Horizon \in Nat /\ Horizon = MaxInstant + 1
  BY LimiterCaps DEF Horizon
<1>1. Bad = {}
  <2> SUFFICES ASSUME Bad # {} PROVE FALSE
    OBVIOUS
  <2> HIDE DEF Good
  <2>1. PICK m \in Bad : \A y \in Bad : m <= y
    <3>1. Bad \in SUBSET Nat
      BY <1>0
    <3> QED BY <3>1, LeastElement
  <2>2. Good(0)
    <3> DEFINE f == [t \in 0 .. 0 |-> 0]
    <3>1. f \in [0 .. 0 -> Nat] /\ f[0] = 0 /\ \A t \in 1 .. 0 : f[t] = f[t - 1] + h[t - 1]
      OBVIOUS
    <3> HIDE DEF f
    <3> QED BY <3>1 DEF Good
  <2>3. m \in 1 .. Horizon /\ m - 1 \in 0 .. MaxInstant /\ Good(m - 1)
    BY <1>0, <2>1, <2>2
  <2>4. PICK f \in [0 .. m - 1 -> Nat] : f[0] = 0 /\ \A t \in 1 .. m - 1 : f[t] = f[t - 1] + h[t - 1]
    BY <2>3 DEF Good
  <2>5. Good(m)
    <3> DEFINE g == [t \in 0 .. m |-> IF t = m THEN f[m - 1] + h[m - 1] ELSE f[t]]
    <3>1. m \in Nat /\ h[m - 1] \in Nat /\ m - 1 \in 0 .. m - 1 /\ m # 0
      BY <1>0, <2>3 DEF Hits
    <3>2. g \in [0 .. m -> Nat]
      <4> SUFFICES ASSUME NEW t \in 0 .. m PROVE (IF t = m THEN f[m - 1] + h[m - 1] ELSE f[t]) \in Nat
        OBVIOUS
      <4>1. f[m - 1] \in Nat /\ (t # m => t \in 0 .. m - 1)
        BY <3>1
      <4> QED BY <3>1, <4>1
    <3>3. ASSUME NEW t \in 1 .. m PROVE g[t] = g[t - 1] + h[t - 1]
      <4>1. t - 1 \in 0 .. m /\ t - 1 # m /\ t \in 0 .. m
        BY <3>1
      <4>2. g[t - 1] = f[t - 1]
        BY <4>1
      <4>3. CASE t = m
        BY <4>1, <4>2, <4>3
      <4>4. CASE t # m
        <5>1. t \in 1 .. m - 1
          BY <4>1, <4>4
        <5> QED BY <2>4, <4>1, <4>2, <4>4, <5>1
      <4> QED BY <4>3, <4>4
    <3>4. g[0] = 0
      BY <2>4, <3>1
    <3> HIDE DEF g
    <3> QED BY <3>2, <3>3, <3>4 DEF Good
  <2> QED BY <2>1, <2>5
<1>2. PICK f \in [0 .. Horizon -> Nat] : f[0] = 0 /\ \A t \in 1 .. Horizon : f[t] = f[t - 1] + h[t - 1]
  <2>1. Horizon \in 0 .. Horizon
    BY <1>0
  <2> HIDE DEF Good
  <2>2. Good(Horizon)
    BY <1>1, <2>1
  <2> QED BY <2>2 DEF Good
<1>3. f = [t \in 0 .. Horizon |-> IF t = 0 THEN 0 ELSE f[t - 1] + h[t - 1]]
  <2> DEFINE e(t) == IF t = 0 THEN 0 ELSE f[t - 1] + h[t - 1]
  <2>1. ASSUME NEW t \in 0 .. Horizon PROVE f[t] = e(t)
    <3>1. t # 0 => t \in 1 .. Horizon
      BY <1>0
    <3> QED BY <1>2, <3>1
  <2>2. f = [t \in 0 .. Horizon |-> f[t]]
    OBVIOUS
  <2> HIDE DEF e
  <2>3. f = [t \in 0 .. Horizon |-> e(t)]
    BY <2>1, <2>2
  <2> QED BY <2>3 DEF e
<1> QED BY <1>0, <1>3 DEF IsTally

LEMMA TallySums ==
  ASSUME NEW h \in Hits
  PROVE  /\ Tally(h) \in [0 .. Horizon -> Nat] /\ Tally(h)[0] = 0
         /\ \A t \in 1 .. Horizon : Tally(h)[t] = Tally(h)[t - 1] + h[t - 1]
<1>0. MaxInstant \in Nat /\ Horizon \in Nat /\ Horizon = MaxInstant + 1
  BY LimiterCaps DEF Horizon
<1>1. Tally(h) = CHOOSE f : IsTally(f, h)
  BY DEF Tally, IsTally
<1>2. IsTally(Tally(h), h)
  BY <1>1, TallyExists
<1> DEFINE F == Tally(h)
<1> HIDE DEF F
<1>3. F = [t \in 0 .. Horizon |-> IF t = 0 THEN 0 ELSE F[t - 1] + h[t - 1]]
  BY <1>0, <1>2 DEF F, IsTally
<1>4. F[0] = 0 /\ \A t \in 1 .. Horizon : F[t] = F[t - 1] + h[t - 1]
  BY <1>0, <1>3
<1> DEFINE Bad == {t \in 0 .. Horizon : F[t] \notin Nat}
<1>5. Bad = {}
  <2> SUFFICES ASSUME Bad # {} PROVE FALSE
    OBVIOUS
  <2>1. PICK t \in Bad : \A y \in Bad : t <= y
    <3>1. Bad \in SUBSET Nat
      BY <1>0
    <3> QED BY <3>1, LeastElement
  <2>2. t # 0
    BY <1>4, <2>1
  <2>3. t \in 1 .. Horizon /\ t - 1 \in 0 .. MaxInstant /\ t - 1 \in 0 .. Horizon
    BY <1>0, <2>1, <2>2
  <2>4. F[t - 1] \in Nat /\ h[t - 1] \in Nat
    BY <2>1, <2>3 DEF Hits
  <2>5. F[t] \in Nat
    BY <1>4, <2>3, <2>4
  <2> QED BY <2>1, <2>5
<1>6. F = [t \in 0 .. Horizon |-> F[t]]
  BY <1>3
<1> QED BY <1>4, <1>5, <1>6 DEF F

\* Tallies do not fall, and stand still where nothing is admitted.
LEMMA TallyRises ==
  ASSUME NEW h \in Hits, NEW a \in 0 .. Horizon, NEW b \in 0 .. Horizon, a <= b
  PROVE  /\ Tally(h)[a] <= Tally(h)[b]
         /\ (\A t \in a .. b - 1 : h[t] = 0) => Tally(h)[a] = Tally(h)[b]
<1> DEFINE F == Tally(h)
           Fine(b0) == F[a] <= F[b0] /\ ((\A t \in a .. b0 - 1 : h[t] = 0) => F[a] = F[b0])
           Bad == {x \in a .. Horizon : ~Fine(x)}
<1>0. MaxInstant \in Nat /\ Horizon \in Nat /\ Horizon = MaxInstant + 1 /\ a \in Nat /\ b \in Nat
  BY LimiterCaps DEF Horizon
<1>1. F \in [0 .. Horizon -> Nat] /\ \A t \in 1 .. Horizon : F[t] = F[t - 1] + h[t - 1]
  BY TallySums
<1> HIDE DEF F
<1>2. Bad = {}
  <2> SUFFICES ASSUME Bad # {} PROVE FALSE
    OBVIOUS
  <2>1. PICK x \in Bad : \A y \in Bad : x <= y
    <3>1. Bad \in SUBSET Nat
      BY <1>0
    <3> QED BY <3>1, LeastElement
  <2>2. x # a
    BY <1>0, <1>1, <2>1
  <2>3. x \in 1 .. Horizon /\ x - 1 \in a .. Horizon /\ x - 1 \in 0 .. MaxInstant /\ x - 1 \in 0 .. Horizon /\ x - 1 \in a .. x - 1 /\ x - 1 < x
    BY <1>0, <2>1, <2>2
  <2>4. Fine(x - 1)
    BY <2>1, <2>3
  <2>5. F[x] = F[x - 1] + h[x - 1] /\ h[x - 1] \in Nat /\ F[x - 1] \in Nat /\ F[a] \in Nat
    BY <1>1, <2>3 DEF Hits
  <2>6. F[a] <= F[x]
    BY <2>4, <2>5
  <2>7. ASSUME \A t \in a .. x - 1 : h[t] = 0 PROVE F[a] = F[x]
    <3>1. \A t \in a .. (x - 1) - 1 : t \in a .. x - 1
      BY <1>0, <2>3
    <3>2. F[a] = F[x - 1] /\ h[x - 1] = 0
      BY <2>3, <2>4, <2>7, <3>1
    <3> QED BY <2>5, <3>2
  <2> QED BY <2>1, <2>6, <2>7
<1>3. b \in a .. Horizon
  BY <1>0
<1> QED BY <1>2, <1>3 DEF F

\* One more at one instant is one more in every tally past it.
LEMMA TallyAdds ==
  ASSUME NEW h \in Hits, NEW n \in 0 .. MaxInstant
  PROVE  LET g == [h EXCEPT ![n] = @ + 1] IN
         /\ g \in Hits
         /\ \A t \in 0 .. Horizon : Tally(g)[t] = IF t <= n THEN Tally(h)[t] ELSE Tally(h)[t] + 1
<1> DEFINE g == [h EXCEPT ![n] = @ + 1]
<1>0. MaxInstant \in Nat /\ Horizon \in Nat /\ Horizon = MaxInstant + 1 /\ n \in Nat
  BY LimiterCaps DEF Horizon
<1>1. g \in Hits /\ \A t \in 0 .. MaxInstant : g[t] = IF t = n THEN h[t] + 1 ELSE h[t]
  BY DEF Hits
<1> HIDE DEF g
<1> DEFINE F == Tally(h)
           G == Tally(g)
           Fine(t) == G[t] = IF t <= n THEN F[t] ELSE F[t] + 1
           Bad == {t \in 0 .. Horizon : ~Fine(t)}
<1>2. /\ F \in [0 .. Horizon -> Nat] /\ F[0] = 0 /\ \A t \in 1 .. Horizon : F[t] = F[t - 1] + h[t - 1]
      /\ G \in [0 .. Horizon -> Nat] /\ G[0] = 0 /\ \A t \in 1 .. Horizon : G[t] = G[t - 1] + g[t - 1]
  BY <1>1, TallySums
<1> HIDE DEF F, G
<1>3. Bad = {}
  <2> SUFFICES ASSUME Bad # {} PROVE FALSE
    OBVIOUS
  <2>1. PICK x \in Bad : \A y \in Bad : x <= y
    <3>1. Bad \in SUBSET Nat
      BY <1>0
    <3> QED BY <3>1, LeastElement
  <2>2. x # 0
    BY <1>0, <1>2, <2>1
  <2>3. x \in 1 .. Horizon /\ x - 1 \in 0 .. Horizon /\ x - 1 \in 0 .. MaxInstant
    BY <1>0, <2>1, <2>2
  <2>4. Fine(x - 1)
    BY <2>1, <2>3
  <2>5. G[x] = G[x - 1] + g[x - 1] /\ F[x] = F[x - 1] + h[x - 1] /\ h[x - 1] \in Nat /\ F[x - 1] \in Nat
        /\ g[x - 1] = (IF x - 1 = n THEN h[x - 1] + 1 ELSE h[x - 1])
    BY <1>1, <1>2, <2>3 DEF Hits
  <2>6. Fine(x)
    BY <1>0, <2>3, <2>4, <2>5
  <2> QED BY <2>1, <2>6
<1>4. \A t \in 0 .. Horizon : Fine(t)
  BY <1>3
<1> QED BY <1>1, <1>4 DEF g, F, G

\* What a window counter that started at ws and counted c of a source's requests up to
\* the instant n knows of the requests h it admitted.
Bounded(h, ws, n, c) ==
  /\ \A t \in 0 .. MaxInstant : t > n \/ t >= ws + LimWindow => h[t] = 0
  /\ Tally(h)[n + 1] <= Tally(h)[ws] + c
  /\ \A t \in 0 .. ws : ws - t < LimWindow => Tally(h)[ws] <= Tally(h)[t] + MaxPerIp
  /\ \A a, b \in 0 .. Horizon : a <= b /\ b <= a + LimWindow => Tally(h)[b] <= Tally(h)[a] + 2 * MaxPerIp

LEMMA BoundedElapse ==
  ASSUME NEW h \in Hits, NEW n \in 0 .. MaxInstant - 1, NEW ws \in 0 .. n, NEW c \in Nat, Bounded(h, ws, n, c)
  PROVE  Bounded(h, ws, n + 1, c)
<1>0. MaxInstant \in Nat /\ Horizon \in Nat /\ Horizon = MaxInstant + 1 /\ n \in Nat /\ ws \in Nat /\ LimWindow \in Nat
  BY LimiterCaps DEF Horizon
<1>1. n + 1 \in 0 .. Horizon /\ n + 2 \in 0 .. Horizon /\ n + 1 <= n + 2 /\ (n + 2) - 1 = n + 1 /\ n + 1 \in 0 .. MaxInstant /\ (n + 1) + 1 = n + 2
  BY <1>0
<1>2. \A t \in n + 1 .. n + 1 : h[t] = 0
  BY <1>0, <1>1 DEF Bounded
<1>3. Tally(h)[n + 1] = Tally(h)[n + 2]
  BY <1>1, <1>2, TallyRises
<1>4. \A t \in 0 .. MaxInstant : t > n + 1 => t > n
  BY <1>0
<1>5. Tally(h)[(n + 1) + 1] <= Tally(h)[ws] + c
  BY <1>1, <1>3 DEF Bounded
<1> QED BY <1>4, <1>5 DEF Bounded

LEMMA BoundedRoll ==
  ASSUME NEW h \in Hits, NEW n \in 0 .. MaxInstant, NEW ws \in 0 .. n, NEW c \in 0 .. MaxPerIp,
         Bounded(h, ws, n, c), n - ws >= LimWindow
  PROVE  Bounded(h, n, n, 0)
<1>0. MaxInstant \in Nat /\ Horizon \in Nat /\ Horizon = MaxInstant + 1 /\ n \in Nat /\ ws \in Nat
      /\ LimWindow \in Nat \ {0} /\ MaxPerIp \in Nat /\ c \in Nat
  BY LimiterCaps DEF Horizon
<1>1. n \in 0 .. Horizon /\ n + 1 \in 0 .. Horizon /\ n <= n + 1 /\ ws \in 0 .. Horizon /\ ws <= n
  BY <1>0
<1>2. \A t \in n .. (n + 1) - 1 : h[t] = 0
  BY <1>0 DEF Bounded
<1>3. Tally(h)[n] = Tally(h)[n + 1]
  BY <1>1, <1>2, TallyRises
<1>4. Tally(h) \in [0 .. Horizon -> Nat]
  BY TallySums
<1>5. ASSUME NEW t \in 0 .. n, n - t < LimWindow PROVE Tally(h)[n] <= Tally(h)[t] + MaxPerIp
  <2>1. t \in 0 .. Horizon /\ ws <= t
    BY <1>0, <1>5
  <2>2. Tally(h)[ws] <= Tally(h)[t]
    BY <1>1, <2>1, TallyRises
  <2>3. Tally(h)[n] <= Tally(h)[ws] + c
    BY <1>3 DEF Bounded
  <2>4. Tally(h)[ws] \in Nat /\ Tally(h)[t] \in Nat /\ Tally(h)[n] \in Nat
    BY <1>1, <1>4, <2>1
  <2> QED BY <1>0, <2>2, <2>3, <2>4
<1>6. Tally(h)[n + 1] <= Tally(h)[n] + 0
  <2>1. Tally(h)[n] \in Nat
    BY <1>1, <1>4
  <2> QED BY <1>3, <2>1
<1>7. \A t \in 0 .. MaxInstant : t >= n + LimWindow => t > n
  BY <1>0
<1> QED BY <1>5, <1>6, <1>7 DEF Bounded

LEMMA BoundedHit ==
  ASSUME NEW h \in Hits, NEW n \in 0 .. MaxInstant, NEW ws \in 0 .. n, NEW c \in 0 .. MaxPerIp - 1,
         Bounded(h, ws, n, c), n - ws < LimWindow
  PROVE  [h EXCEPT ![n] = @ + 1] \in Hits /\ Bounded([h EXCEPT ![n] = @ + 1], ws, n, c + 1)
<1> DEFINE g == [h EXCEPT ![n] = @ + 1]
<1>0. MaxInstant \in Nat /\ Horizon \in Nat /\ Horizon = MaxInstant + 1 /\ n \in Nat /\ ws \in Nat
      /\ LimWindow \in Nat \ {0} /\ MaxPerIp \in Nat \ {0} /\ c \in Nat /\ c + 1 <= MaxPerIp
  BY LimiterCaps DEF Horizon
<1>1. g \in Hits /\ \A t \in 0 .. Horizon : Tally(g)[t] = IF t <= n THEN Tally(h)[t] ELSE Tally(h)[t] + 1
  BY TallyAdds
<1>2. \A t \in 0 .. MaxInstant : t # n => g[t] = h[t]
  BY DEF Hits
<1> HIDE DEF g
<1>3. Tally(h) \in [0 .. Horizon -> Nat] /\ Tally(g) \in [0 .. Horizon -> Nat]
  BY <1>1, TallySums
<1>4. \A t \in 0 .. MaxInstant : t > n \/ t >= ws + LimWindow => g[t] = 0
  <2>1. \A t \in 0 .. MaxInstant : t > n \/ t >= ws + LimWindow => t # n
    BY <1>0
  <2> QED BY <1>2, <2>1 DEF Bounded
<1>5. Tally(g)[n + 1] <= Tally(g)[ws] + (c + 1)
  <2>1. n + 1 \in 0 .. Horizon /\ ws \in 0 .. Horizon /\ ~(n + 1 <= n) /\ ws <= n
    BY <1>0
  <2>2. Tally(g)[n + 1] = Tally(h)[n + 1] + 1 /\ Tally(g)[ws] = Tally(h)[ws] /\ Tally(h)[n + 1] \in Nat /\ Tally(h)[ws] \in Nat
    BY <1>1, <1>3, <2>1
  <2>3. Tally(h)[n + 1] <= Tally(h)[ws] + c
    BY DEF Bounded
  <2> QED BY <1>0, <2>2, <2>3
<1>6. \A t \in 0 .. ws : ws - t < LimWindow => Tally(g)[ws] <= Tally(g)[t] + MaxPerIp
  <2> SUFFICES ASSUME NEW t \in 0 .. ws, ws - t < LimWindow PROVE Tally(g)[ws] <= Tally(g)[t] + MaxPerIp
    OBVIOUS
  <2>1. t \in 0 .. Horizon /\ ws \in 0 .. Horizon /\ t <= n /\ ws <= n
    BY <1>0
  <2>2. Tally(g)[ws] = Tally(h)[ws] /\ Tally(g)[t] = Tally(h)[t]
    BY <1>1, <2>1
  <2> QED BY <2>2 DEF Bounded
<1>7. ASSUME NEW a \in 0 .. Horizon, NEW b \in 0 .. Horizon, a <= b /\ b <= a + LimWindow
      PROVE  Tally(g)[b] <= Tally(g)[a] + 2 * MaxPerIp
  <2>1. Tally(h)[b] <= Tally(h)[a] + 2 * MaxPerIp /\ Tally(h)[a] \in Nat /\ Tally(h)[b] \in Nat
        /\ Tally(g)[a] \in Nat /\ Tally(g)[b] \in Nat
    BY <1>3, <1>7 DEF Bounded
  <2>2. CASE b <= n \/ a > n
    <3>1. (a <= n /\ b <= n) \/ (~(a <= n) /\ ~(b <= n))
      BY <1>0, <1>7, <2>2
    <3>2. \/ Tally(g)[a] = Tally(h)[a] /\ Tally(g)[b] = Tally(h)[b]
          \/ Tally(g)[a] = Tally(h)[a] + 1 /\ Tally(g)[b] = Tally(h)[b] + 1
      BY <1>1, <3>1
    <3> QED BY <1>0, <2>1, <3>2
  <2>3. CASE a <= n /\ b > n
    <3>1. n + 1 \in 0 .. Horizon /\ n + 1 <= b /\ ws \in 0 .. Horizon
      BY <1>0, <2>3
    <3>2. \A t \in n + 1 .. b - 1 : g[t] = 0
      <4>1. \A t \in n + 1 .. b - 1 : t \in 0 .. MaxInstant /\ t > n
        BY <1>0
      <4> QED BY <1>4, <4>1
    <3>3. Tally(g)[b] = Tally(g)[n + 1]
      BY <1>1, <3>1, <3>2, TallyRises
    <3>4. Tally(g)[b] <= Tally(g)[ws] + (c + 1) /\ Tally(g)[ws] \in Nat
      BY <1>3, <1>5, <3>1, <3>3
    <3>5. CASE a >= ws
      <4>1. Tally(g)[ws] <= Tally(g)[a]
        BY <1>0, <1>1, <3>1, <3>5, TallyRises
      <4> QED BY <1>0, <2>1, <3>4, <4>1
    <3>6. CASE a < ws
      <4>1. a \in 0 .. ws /\ ws - a < LimWindow
        BY <1>0, <1>7, <2>3, <3>6
      <4>2. Tally(g)[ws] <= Tally(g)[a] + MaxPerIp
        BY <1>6, <4>1
      <4> QED BY <1>0, <2>1, <3>4, <4>2
    <3> QED BY <1>0, <3>5, <3>6
  <2> QED BY <1>0, <2>2, <2>3
<1>8. Bounded(g, ws, n, c + 1)
  BY <1>4, <1>5, <1>6, <1>7 DEF Bounded
<1> QED BY <1>1, <1>8 DEF g

\* Whom a request is charged to.
LEMMA CallerIp ==
  ASSUME NEW s \in Source, NEW peer \in {s} \cup Proxy, NEW forged \in {<<>>} \cup {<<f>> : f \in Source}
  PROVE  ClientIp(peer, IF peer = s THEN forged ELSE Append(forged, s)) = s
<1>1. s \notin Proxy
  BY LimiterCaps
<1>2. CASE peer = s
  BY <1>1, <1>2 DEF ClientIp
<1>3. CASE peer # s
  <2> DEFINE xff == Append(forged, s)
             seen == {k \in 1 .. Len(xff) : xff[k] \notin Proxy}
             last == CHOOSE k \in seen : \A j \in seen : j <= k
  <2>1. forged \in Seq(Source) /\ Len(forged) \in Nat
    <3>1. <<>> \in Seq(Source) /\ \A f \in Source : <<f>> \in Seq(Source)
      BY EmptySeq
    <3>2. forged \in Seq(Source)
      BY <3>1
    <3> QED BY <3>2, LenProperties
  <2>2. Len(xff) = Len(forged) + 1 /\ xff[Len(forged) + 1] = s
    BY <2>1, AppendProperties
  <2> HIDE DEF xff
  <2>3. Len(xff) \in seen /\ xff[Len(xff)] = s /\ \A j \in seen : j <= Len(xff)
    BY <1>1, <2>1, <2>2
  <2>4. last \in seen /\ \A j \in seen : j <= last
    BY <2>3
  <2>5. last = Len(xff)
    BY <2>1, <2>2, <2>3, <2>4
  <2>6. peer \in Proxy /\ seen # {}
    BY <1>3, <2>3
  <2>7. ClientIp(peer, xff) = xff[last]
    BY <2>6 DEF ClientIp
  <2> QED BY <1>3, <2>3, <2>5, <2>7 DEF xff
<1> QED BY <1>2, <1>3

CountOf(table, s) == IF s \in DOMAIN table THEN table[s] ELSE 0

LimIInv ==
  /\ instant \in 0 .. MaxInstant /\ windowStart \in 0 .. instant /\ total \in 0 .. MaxTotal
  /\ perIp \in [DOMAIN perIp -> 1 .. MaxPerIp]
  /\ IsFiniteSet(DOMAIN perIp) /\ Cardinality(DOMAIN perIp) <= MaxTracked
  /\ hits \in [Source -> Hits]
  /\ \A s \in Source : Bounded(hits[s], windowStart, instant, CountOf(perIp, s))
  /\ ChargedToCaller

\* The window a request is counted in, after the roll it may cause.
LEMMA WindowNow ==
  ASSUME LimIInv
  PROVE  LET ws == IF Rolled(instant) THEN instant ELSE windowStart
             table == TableNow(instant)
         IN /\ ws \in 0 .. instant /\ instant - ws < LimWindow
            /\ TotalNow(instant) \in 0 .. MaxTotal
            /\ table \in [DOMAIN table -> 1 .. MaxPerIp]
            /\ IsFiniteSet(DOMAIN table) /\ Cardinality(DOMAIN table) <= MaxTracked
            /\ \A s \in Source : Bounded(hits[s], ws, instant, CountOf(table, s))
<1>0. MaxInstant \in Nat /\ MaxTotal \in Nat /\ MaxTracked \in Nat /\ LimWindow \in Nat \ {0} /\ MaxPerIp \in Nat
      /\ instant \in Nat /\ windowStart \in Nat /\ windowStart <= instant
  BY LimiterCaps DEF LimIInv
<1>1. CASE ~Rolled(instant)
  BY <1>0, <1>1 DEF Rolled, TableNow, TotalNow, LimIInv
<1>2. CASE Rolled(instant)
  <2> DEFINE table == [s \in {} |-> 0]
  <2>1. TableNow(instant) = table /\ TotalNow(instant) = 0 /\ DOMAIN table = {} /\ table \in [{} -> 1 .. MaxPerIp]
    BY <1>2 DEF TableNow, TotalNow
  <2>2. instant - windowStart >= LimWindow
    BY <1>2 DEF Rolled
  <2>3. ASSUME NEW s \in Source PROVE Bounded(hits[s], instant, instant, CountOf(table, s))
    <3>1. hits[s] \in Hits /\ Bounded(hits[s], windowStart, instant, CountOf(perIp, s))
      BY DEF LimIInv
    <3>2. CountOf(perIp, s) \in 0 .. MaxPerIp
      <4>1. perIp \in [DOMAIN perIp -> 1 .. MaxPerIp]
        BY DEF LimIInv
      <4> QED BY <1>0, <4>1 DEF CountOf
    <3>3. instant \in 0 .. MaxInstant /\ windowStart \in 0 .. instant
      BY DEF LimIInv
    <3>4. Bounded(hits[s], instant, instant, 0)
      BY <2>2, <3>1, <3>2, <3>3, BoundedRoll
    <3> QED BY <3>4 DEF CountOf
  <2>4. IsFiniteSet({}) /\ Cardinality({}) = 0
    BY FS_EmptySet
  <2> HIDE DEF table
  <2> QED BY <1>0, <1>2, <2>1, <2>3, <2>4
<1> QED BY <1>1, <1>2

LEMMA LimRequest ==
  ASSUME LimIInv, NEW s \in Source, NEW peer \in {s} \cup Proxy,
         NEW forged \in {<<>>} \cup {<<f>> : f \in Source}, Request(s, peer, forged)
  PROVE  LimIInv'
<1> DEFINE ws == IF Rolled(instant) THEN instant ELSE windowStart
           table == TableNow(instant)
           tot == TotalNow(instant)
           xff == IF peer = s THEN forged ELSE Append(forged, s)
<1>1. ClientIp(peer, xff) = s
  BY CallerIp
<1>2. /\ ws \in 0 .. instant /\ instant - ws < LimWindow /\ tot \in 0 .. MaxTotal
      /\ table \in [DOMAIN table -> 1 .. MaxPerIp]
      /\ IsFiniteSet(DOMAIN table) /\ Cardinality(DOMAIN table) <= MaxTracked
      /\ \A q \in Source : Bounded(hits[q], ws, instant, CountOf(table, q))
  BY WindowNow
<1>3. /\ windowStart' = ws /\ instant' = instant
      /\ IF LimAdmits(s, instant)
           THEN /\ perIp' = [q \in DOMAIN table \cup {s} |-> IF q \in DOMAIN table THEN table[q] + (IF q = s THEN 1 ELSE 0) ELSE 1]
                /\ total' = tot + 1
                /\ hits' = [hits EXCEPT ![s][instant] = @ + 1]
                /\ charged' = charged \cup {<<s, s>>}
           ELSE /\ perIp' = table /\ total' = tot
                /\ UNCHANGED <<hits, charged>>
  <2> HIDE DEF xff
  <2>1. Request(s, peer, forged) =>
          /\ windowStart' = ws /\ instant' = instant
          /\ IF LimAdmits(ClientIp(peer, xff), instant)
               THEN /\ perIp' = [q \in DOMAIN table \cup {ClientIp(peer, xff)} |-> IF q \in DOMAIN table THEN table[q] + (IF q = ClientIp(peer, xff) THEN 1 ELSE 0) ELSE 1]
                    /\ total' = tot + 1
                    /\ hits' = [hits EXCEPT ![s][instant] = @ + 1]
                    /\ charged' = charged \cup {<<s, ClientIp(peer, xff)>>}
               ELSE /\ perIp' = table /\ total' = tot
                    /\ UNCHANGED <<hits, charged>>
    BY DEF Request, xff
  <2> QED BY <1>1, <2>1
<1>4. /\ LimAdmits(s, instant) => /\ tot < MaxTotal
                                  /\ IF s \in DOMAIN table THEN table[s] < MaxPerIp ELSE Cardinality(DOMAIN table) < MaxTracked
  BY DEF LimAdmits
<1>5. /\ instant \in 0 .. MaxInstant /\ hits \in [Source -> Hits] /\ ChargedToCaller
      /\ MaxPerIp \in Nat \ {0} /\ MaxTotal \in Nat /\ MaxTracked \in Nat
  BY LimiterCaps DEF LimIInv
<1> HIDE DEF ws, table, tot, xff
<1>6. CASE ~LimAdmits(s, instant)
  <2>1. perIp' = table /\ total' = tot /\ hits' = hits /\ charged' = charged
    BY <1>3, <1>6
  <2> QED BY <1>2, <1>3, <1>5, <2>1 DEF LimIInv, ChargedToCaller
<1>7. CASE LimAdmits(s, instant)
  <2> DEFINE next == [q \in DOMAIN table \cup {s} |-> IF q \in DOMAIN table THEN table[q] + (IF q = s THEN 1 ELSE 0) ELSE 1]
  <2>1. perIp' = next /\ total' = tot + 1 /\ hits' = [hits EXCEPT ![s][instant] = @ + 1] /\ charged' = charged \cup {<<s, s>>}
    BY <1>3, <1>7
  <2>2. DOMAIN next = DOMAIN table \cup {s} /\ next \in [DOMAIN next -> 1 .. MaxPerIp]
    <3> SUFFICES ASSUME NEW q \in DOMAIN table \cup {s}
                 PROVE  (IF q \in DOMAIN table THEN table[q] + (IF q = s THEN 1 ELSE 0) ELSE 1) \in 1 .. MaxPerIp
      OBVIOUS
    <3>1. CASE q \in DOMAIN table
      <4>1. table[q] \in 1 .. MaxPerIp /\ (q = s => table[q] < MaxPerIp)
        BY <1>2, <1>4, <1>7, <3>1
      <4> QED BY <1>5, <3>1, <4>1
    <3>2. CASE q \notin DOMAIN table
      BY <1>5, <3>2
    <3> QED BY <3>1, <3>2
  <2>3. IsFiniteSet(DOMAIN next) /\ Cardinality(DOMAIN next) <= MaxTracked
    <3>1. /\ IsFiniteSet(DOMAIN table \cup {s})
          /\ Cardinality(DOMAIN table \cup {s}) = IF s \in DOMAIN table THEN Cardinality(DOMAIN table) ELSE Cardinality(DOMAIN table) + 1
          /\ Cardinality(DOMAIN table) \in Nat
      BY <1>2, FS_AddElement, FS_CardinalityType
    <3>2. s \notin DOMAIN table => Cardinality(DOMAIN table) < MaxTracked
      BY <1>4, <1>7
    <3> QED BY <1>2, <1>5, <2>2, <3>1, <3>2
  <2>4. CountOf(next, s) = CountOf(table, s) + 1 /\ CountOf(table, s) \in 0 .. MaxPerIp - 1
        /\ \A q \in Source : q # s => CountOf(next, q) = CountOf(table, q)
    <3>1. s \in DOMAIN table => table[s] \in 1 .. MaxPerIp /\ table[s] < MaxPerIp
      BY <1>2, <1>4, <1>7
    <3>2. s \in DOMAIN next /\ next[s] = IF s \in DOMAIN table THEN table[s] + 1 ELSE 1
      BY <2>2
    <3>3. \A q \in Source : q # s => (q \in DOMAIN next <=> q \in DOMAIN table) /\ (q \in DOMAIN table => next[q] = table[q])
      <4> SUFFICES ASSUME NEW q \in Source, q # s, q \in DOMAIN table PROVE next[q] = table[q]
        BY <2>2
      <4>1. table[q] \in Nat /\ next[q] = table[q] + 0
        BY <1>2, <1>5
      <4> QED BY <4>1
    <3> HIDE DEF next
    <3> QED BY <1>5, <3>1, <3>2, <3>3 DEF CountOf
  <2> HIDE DEF next
  <2>5. hits' \in [Source -> Hits] /\ \A q \in Source : Bounded(hits'[q], ws, instant, CountOf(next, q))
    <3>1. [hits[s] EXCEPT ![instant] = @ + 1] \in Hits
          /\ Bounded([hits[s] EXCEPT ![instant] = @ + 1], ws, instant, CountOf(table, s) + 1)
      BY <1>2, <1>5, <2>4, BoundedHit
    <3>2. hits' = [hits EXCEPT ![s] = [hits[s] EXCEPT ![instant] = @ + 1]]
      BY <2>1
    <3>3. hits'[s] = [hits[s] EXCEPT ![instant] = @ + 1] /\ \A q \in Source : q # s => hits'[q] = hits[q]
      BY <1>5, <3>2
    <3>4. hits' \in [Source -> Hits]
      BY <1>5, <3>1, <3>2
    <3>5. ASSUME NEW q \in Source PROVE Bounded(hits'[q], ws, instant, CountOf(next, q))
      <4>1. CASE q = s
        BY <2>4, <3>1, <3>3, <4>1
      <4>2. CASE q # s
        BY <1>2, <2>4, <3>3, <4>2
      <4> QED BY <4>1, <4>2
    <3> QED BY <3>4, <3>5
  <2>6. total' \in 0 .. MaxTotal /\ ChargedToCaller'
    <3>1. ChargedToCaller'
      BY <1>5, <2>1 DEF ChargedToCaller
    <3> QED BY <1>2, <1>4, <1>5, <1>7, <2>1, <3>1
  <2>7. perIp' \in [DOMAIN perIp' -> 1 .. MaxPerIp] /\ IsFiniteSet(DOMAIN perIp') /\ Cardinality(DOMAIN perIp') <= MaxTracked
    BY <2>1, <2>2, <2>3
  <2>8. \A q \in Source : Bounded(hits'[q], windowStart', instant', CountOf(perIp', q))
    BY <1>3, <2>1, <2>5
  <2>9. windowStart' \in 0 .. instant' /\ instant' \in 0 .. MaxInstant
    BY <1>2, <1>3, <1>5
  <2> QED BY <2>5, <2>6, <2>7, <2>8, <2>9 DEF LimIInv
<1> QED BY <1>6, <1>7

LEMMA LimElapse ==
  ASSUME LimIInv, Elapse PROVE LimIInv'
<1>1. instant < MaxInstant /\ instant' = instant + 1 /\ UNCHANGED <<windowStart, total, perIp, hits, charged>>
  BY DEF Elapse
<1>2. MaxInstant \in Nat /\ instant \in 0 .. MaxInstant /\ windowStart \in 0 .. instant /\ MaxPerIp \in Nat
      /\ perIp \in [DOMAIN perIp -> 1 .. MaxPerIp]
  BY LimiterCaps DEF LimIInv
<1>3. instant' \in 0 .. MaxInstant /\ windowStart \in 0 .. instant' /\ instant \in 0 .. MaxInstant - 1
  BY <1>1, <1>2
<1>4. ASSUME NEW s \in Source PROVE Bounded(hits[s], windowStart, instant', CountOf(perIp, s))
  <2>1. hits[s] \in Hits /\ Bounded(hits[s], windowStart, instant, CountOf(perIp, s))
    BY DEF LimIInv
  <2>2. CountOf(perIp, s) \in Nat
    BY <1>2 DEF CountOf
  <2>3. Bounded(hits[s], windowStart, instant + 1, CountOf(perIp, s))
    BY <1>2, <1>3, <2>1, <2>2, BoundedElapse
  <2> QED BY <1>1, <2>3
<1> QED BY <1>1, <1>3, <1>4 DEF LimIInv, ChargedToCaller

LEMMA LimStart == LimInit => LimIInv
<1> SUFFICES ASSUME LimInit PROVE LimIInv
  OBVIOUS
<1> DEFINE none == [t \in 0 .. MaxInstant |-> 0]
<1>0. MaxInstant \in Nat /\ Horizon \in Nat /\ Horizon = MaxInstant + 1 /\ MaxPerIp \in Nat /\ MaxTotal \in Nat /\ MaxTracked \in Nat
  BY LimiterCaps DEF Horizon
<1>1. none \in Hits /\ \A t \in 0 .. MaxInstant : none[t] = 0
  BY DEF Hits
<1>2. hits = [s \in Source |-> none] /\ instant = 0 /\ windowStart = 0 /\ total = 0 /\ charged = {} /\ DOMAIN perIp = {}
      /\ perIp \in [DOMAIN perIp -> 1 .. MaxPerIp]
  BY DEF LimInit
<1> HIDE DEF none
<1>3. \A t \in 0 .. Horizon : Tally(none)[t] = 0
  <2> SUFFICES ASSUME NEW t \in 0 .. Horizon PROVE Tally(none)[t] = 0
    OBVIOUS
  <2>1. 0 \in 0 .. Horizon /\ 0 <= t /\ \A i \in 0 .. t - 1 : i \in 0 .. MaxInstant
    BY <1>0
  <2> QED BY <1>1, <2>1, TallyRises, TallySums
<1>4. Bounded(none, 0, 0, 0)
  <2>1. 0 + 1 \in 0 .. Horizon /\ 0 \in 0 .. Horizon
    BY <1>0
  <2>2. \A t \in 0 .. 0 : t \in 0 .. Horizon
    BY <1>0
  <2>3. 0 <= 0 + MaxPerIp /\ 0 <= 0 + 2 * MaxPerIp
    BY <1>0
  <2> QED BY <1>1, <1>3, <2>1, <2>2, <2>3 DEF Bounded
<1>5. IsFiniteSet({}) /\ Cardinality({}) = 0
  BY FS_EmptySet
<1>6. \A s \in Source : hits[s] = none /\ CountOf(perIp, s) = 0
  BY <1>2 DEF CountOf
<1>7. hits \in [Source -> Hits] /\ ChargedToCaller
  BY <1>1, <1>2 DEF ChargedToCaller
<1> QED BY <1>0, <1>2, <1>4, <1>5, <1>6, <1>7 DEF LimIInv

LEMMA LimKept == LimIInv /\ [LimNext]_limVars => LimIInv'
<1> SUFFICES ASSUME LimIInv, [LimNext]_limVars PROVE LimIInv'
  OBVIOUS
<1>1. CASE UNCHANGED limVars
  BY <1>1 DEF limVars, LimIInv, ChargedToCaller
<1> QED BY <1>1, LimElapse, LimRequest DEF LimNext

\* ratelimit.rs:36 and stun.rs:25, for any sources, proxies, windows and caps: the counters
\* keep their caps and every request is charged to its true source.
THEOREM LimiterIsSafe == LimSpec => []LimiterSafe
<1>1. LimIInv => LimiterSafe
  BY LimiterCaps DEF LimIInv, LimiterSafe, LimTypeOK
<1> QED BY <1>1, LimStart, LimKept, PTL DEF LimSpec

\* stun.rs:25 and limiter.rs (allow), for any sources and any sequence of requests: no
\* source is let through more than twice its cap in any window's length, wherever the
\* length falls on the fixed windows.
THEOREM SlidingIsTwice == LimSpec => []SlidingBound
<1>1. LimIInv => SlidingBound
  <2> SUFFICES ASSUME LimIInv, NEW t \in 0 .. MaxInstant - LimWindow + 1, NEW s \in Source
               PROVE  SumHits(s, t) <= 2 * MaxPerIp
    BY DEF SlidingBound
  <2>1. LimWindow \in Nat /\ MaxInstant \in Nat /\ MaxPerIp \in Nat /\ Horizon = MaxInstant + 1
    BY LimiterCaps DEF Horizon
  <2>2. t \in 0 .. Horizon /\ t + LimWindow \in 0 .. Horizon /\ t <= t + LimWindow
    BY <2>1
  <2>3. hits[s] \in Hits
    BY DEF LimIInv
  <2>4. Tally(hits[s])[t + LimWindow] <= Tally(hits[s])[t] + 2 * MaxPerIp
    <3>1. Bounded(hits[s], windowStart, instant, CountOf(perIp, s))
      BY DEF LimIInv
    <3>2. t + LimWindow <= t + LimWindow
      BY <2>1
    <3> QED BY <2>2, <3>1, <3>2 DEF Bounded
  <2>5. Tally(hits[s])[t + LimWindow] \in Nat /\ Tally(hits[s])[t] \in Nat
    BY <2>2, <2>3, TallySums
  <2> QED BY <2>1, <2>4, <2>5 DEF SumHits
<1> QED BY <1>1, LimStart, LimKept, PTL DEF LimSpec

-----------------------------------------------------------------------------
(* The owner's choices.                                                    *)

SnapType == [nets : SUBSET Net, peers : SUBSET PrefPeer]

\* What is known of the choices, whatever is toggled, answered, torn or killed.
PrefIInv ==
  /\ PrefTypeOK
  /\ left \in [choice : Nat, bad : 0 .. MaxBadWrite, death : Nat]
  /\ MeshFollowsPrefs
  /\ spot = "down" => mesh = {} /\ snap.nets = {}
  /\ spot # "down" => snap.nets \subseteq prefs.known
  /\ WritesHeld /\ spot # "down" => disk = prefs
  /\ WritesHeld => \A n \in Net : wish[n] = "on" => n \in disk.known
  /\ ChoicesStick

\* No two networks the coordinator lists share a display name.
NamesDiffer == \A m, n \in Net : NetName[m] = NetName[n] => m = n

LEMMA ActiveIsWanted ==
  ASSUME NamesDiffer, NEW s \in SnapType, NEW p, NEW q \in Active(s, p)
  PROVE  /\ q \in s.peers /\ "paused" \notin p.on /\ PeerUser[q] \notin p.blocked
         /\ PeerNets[q] \cap s.nets # {} => ~(PeerNets[q] \cap s.nets \subseteq p.off)
<1>1. "paused" \notin p.on /\ q \in FilterActive(s, p)
  BY DEF Active
<1>2. ASSUME NEW n \in s.nets PROVE Resolved(n, s.nets) = n
  <2>1. s.nets \subseteq Net /\ n \in Nat
    BY PrefBounds DEF SnapType
  <2>2. \A m \in s.nets : NetName[m] = NetName[n] => m = n
    BY <2>1 DEF NamesDiffer
  <2>3. n <= n
    BY <2>1
  <2>4. \A m \in s.nets : (NetName[m] = NetName[n] /\ \A o \in s.nets : NetName[o] = NetName[n] => o <= m) <=> m = n
    BY <2>2, <2>3
  <2> QED BY <2>4 DEF Resolved
<1> QED BY <1>1, <1>2 DEF FilterActive

LEMMA ReconciledShape ==
  ASSUME NEW p \in Files, NEW nets \in SUBSET Net
  PROVE  LET r == Reconciled(p, nets) IN
         /\ r \in Files /\ r.known = p.known \cup nets /\ r.on = p.on /\ r.blocked = p.blocked
         /\ r.off \in {p.off, p.off \cup (nets \ p.known)}
BY DEF Reconciled, Files

\* What applying a snapshot leaves, when no write has failed by then.
LEMMA ApplyKeeps ==
  ASSUME PrefIInv, NamesDiffer, NEW s \in SnapType, ApplyState(s), spot = "select"
  PROVE  LET p == Reconciled(prefs, s.nets) IN
         /\ prefs' = p /\ p \in Files /\ disk' \in Files
         /\ mesh' \subseteq s.peers /\ names' \subseteq s.peers
         /\ s.nets \subseteq p.known /\ p.known = prefs.known \cup s.nets
         /\ snap'.nets = s.nets => \A q \in mesh' : (~Unwanted(q, prefs))'
         /\ left' \in [choice : Nat, bad : 0 .. MaxBadWrite, death : Nat]
         /\ WritesHeld' => /\ WritesHeld /\ disk' = p
                           /\ p.off \in {disk.off, disk.off \cup (s.nets \ disk.known)}
                           /\ p.known = disk.known \cup s.nets
<1> DEFINE p == Reconciled(prefs, s.nets)
<1>1. prefs \in Files /\ disk \in Files /\ left \in [choice : Nat, bad : 0 .. MaxBadWrite, death : Nat] /\ s.nets \in SUBSET Net
      /\ MaxBadWrite \in Nat /\ (WritesHeld => disk = prefs)
  BY PrefBounds DEF PrefIInv, PrefTypeOK, SnapType
<1>2. /\ p \in Files /\ p.known = prefs.known \cup s.nets /\ p.on = prefs.on /\ p.blocked = prefs.blocked
      /\ p.off \in {prefs.off, prefs.off \cup (s.nets \ prefs.known)}
  BY <1>1, ReconciledShape
<1>3. prefs' = p /\ mesh' = Active(s, p) /\ names' = Active(s, p)
  BY DEF ApplyState
<1>4. \/ /\ disk' = [disk EXCEPT !.known = IF p.known # prefs.known THEN p.known ELSE @,
                                 !.off = IF p.off # prefs.off THEN p.off ELSE @]
         /\ left' = left
      \/ /\ left.bad > 0
         /\ left' = [left EXCEPT !.bad = @ - 1]
         /\ disk' \in {disk, [disk EXCEPT !.known = {}], [disk EXCEPT !.known = p.known],
                       [disk EXCEPT !.known = p.known, !.off = {}]}
  BY DEF ApplyState
<1> HIDE DEF p
<1>5. mesh' \subseteq s.peers /\ names' \subseteq s.peers
  BY <1>3, ActiveIsWanted
<1>6. snap'.nets = s.nets => \A q \in mesh' : (~Unwanted(q, prefs))'
  <2> SUFFICES ASSUME snap'.nets = s.nets, NEW q \in mesh' PROVE (~Unwanted(q, prefs))'
    OBVIOUS
  <2>1. /\ "paused" \notin p.on /\ PeerUser[q] \notin p.blocked
        /\ PeerNets[q] \cap s.nets # {} => ~(PeerNets[q] \cap s.nets \subseteq p.off)
    BY <1>3, ActiveIsWanted
  <2> QED BY <2>1, <1>3 DEF Unwanted
<1>7. disk' \in Files
  BY <1>1, <1>2, <1>4 DEF Files
<1>8. left' \in [choice : Nat, bad : 0 .. MaxBadWrite, death : Nat]
  BY <1>1, <1>4
<1>9. ASSUME WritesHeld' PROVE WritesHeld /\ disk' = p
  <2>1. CASE left' = left
    <3>1. WritesHeld /\ disk = prefs
      BY <1>1, <1>9, <2>1 DEF WritesHeld
    <3>2. disk' = [prefs EXCEPT !.known = IF p.known # prefs.known THEN p.known ELSE @,
                                !.off = IF p.off # prefs.off THEN p.off ELSE @]
      <4>1. left'.bad # left.bad - 1
        BY <1>1, <2>1
      <4> QED BY <1>1, <1>4, <3>1, <4>1
    <3>3. disk' = [off |-> p.off, known |-> p.known, blocked |-> p.blocked, on |-> p.on]
      BY <1>1, <1>2, <3>2 DEF Files
    <3> QED BY <1>2, <3>1, <3>3 DEF Files
  <2>2. CASE left.bad > 0 /\ left' = [left EXCEPT !.bad = @ - 1]
    BY <1>1, <1>9, <2>2 DEF WritesHeld
  <2> QED BY <1>4, <2>1, <2>2
<1>10. ASSUME WritesHeld' PROVE /\ p.off \in {disk.off, disk.off \cup (s.nets \ disk.known)}
                                /\ p.known = disk.known \cup s.nets
  BY <1>1, <1>2, <1>9, <1>10
<1> QED BY <1>2, <1>3, <1>5, <1>6, <1>7, <1>8, <1>9, <1>10 DEF p

LEMMA PrefApply ==
  ASSUME PrefIInv, NamesDiffer, NEW s \in SnapType, ApplyState(s), spot = "select",
         snap' = s, spot' = "top", asked' \in {asked, NoAsk}, lit' \in BOOLEAN, wish' = wish
  PROVE  PrefIInv'
<1> DEFINE p == Reconciled(prefs, s.nets)
<1>1. /\ prefs' = p /\ p \in Files /\ disk' \in Files
      /\ mesh' \subseteq s.peers /\ names' \subseteq s.peers
      /\ s.nets \subseteq p.known
      /\ \A q \in mesh' : (~Unwanted(q, prefs))'
      /\ left' \in [choice : Nat, bad : 0 .. MaxBadWrite, death : Nat]
      /\ WritesHeld' => /\ WritesHeld /\ disk' = p
                        /\ p.off \in {disk.off, disk.off \cup (s.nets \ disk.known)}
                        /\ p.known = disk.known \cup s.nets
  BY ApplyKeeps
<1> HIDE DEF p
<1>2. PrefTypeOK'
  <2>1. snap' \in [nets : SUBSET Net, peers : SUBSET PrefPeer]
    BY DEF SnapType
  <2>2. asked' \in Asks \cup {NoAsk} /\ wish \in [Net -> {"none", "on", "off"}]
    BY DEF PrefIInv, PrefTypeOK
  <2> QED BY <1>1, <2>1, <2>2 DEF PrefTypeOK
<1>3. MeshFollowsPrefs'
  BY <1>1 DEF MeshFollowsPrefs
<1>4. ASSUME WritesHeld' PROVE /\ \A n \in Net : wish[n] = "on" => n \in disk'.known
                               /\ \A n \in Net : wish[n] = "off" => n \in disk'.off
                               /\ \A n \in Net : wish[n] = "on" => n \notin disk'.off
  <2>1. /\ \A n \in Net : wish[n] = "on" => n \in disk.known
        /\ \A n \in Net : wish[n] = "off" => n \in disk.off
        /\ \A n \in Net : wish[n] = "on" /\ n \in disk.known => n \notin disk.off
    BY <1>1, <1>4 DEF PrefIInv, ChoicesStick
  <2> QED BY <1>1, <1>4, <2>1
<1>5. ChoicesStick'
  BY <1>4 DEF ChoicesStick
<1> QED BY <1>1, <1>2, <1>3, <1>4, <1>5 DEF PrefIInv

\* A choice: the part of the preferences its part holds, and nothing else of it.
Chosen(p, part) ==
  \/ part = "off" /\ \E x \in SUBSET Net : p = [prefs EXCEPT !.off = x]
  \/ part = "blocked" /\ \E x \in SUBSET {PeerUser[q] : q \in PrefPeer} : p = [prefs EXCEPT !.blocked = x]
  \/ part = "on" /\ \E x \in SUBSET Switch : p = [prefs EXCEPT !.on = x]

LEMMA PrefChoose ==
  ASSUME PrefIInv, NEW p, NEW part \in {"off", "blocked", "on"}, Chosen(p, part), Choose(p, part)
  PROVE  /\ PrefTypeOK' \/ wish' \notin [Net -> {"none", "on", "off"}]
         /\ left' \in [choice : Nat, bad : 0 .. MaxBadWrite, death : Nat]
         /\ MeshFollowsPrefs' /\ spot' # "down" /\ snap'.nets \subseteq prefs'.known
         /\ p \in Files /\ p.known = prefs.known /\ (WritesHeld' => WritesHeld /\ disk' = p /\ prefs' = p)
<1>1. /\ prefs \in Files /\ disk \in Files /\ left \in [choice : Nat, bad : 0 .. MaxBadWrite, death : Nat]
      /\ MaxBadWrite \in Nat /\ (WritesHeld /\ spot # "down" => disk = prefs)
  BY PrefBounds DEF PrefIInv, PrefTypeOK
<1>2. /\ left.choice > 0 /\ spot # "down" /\ prefs' = p
      /\ \/ /\ disk' = [disk EXCEPT ![part] = p[part]]
            /\ lit' = (lit \/ Wakes(p, prefs))
            /\ left' = [left EXCEPT !.choice = @ - 1]
         \/ /\ left.bad > 0
            /\ disk' \in {disk, [disk EXCEPT ![part] = Default[part]]}
            /\ left' = [left EXCEPT !.choice = @ - 1, !.bad = @ - 1]
            /\ lit' = lit
      /\ UNCHANGED <<snap, mesh, names, asked, spot>>
  BY DEF Choose
<1>3. p \in Files /\ p.known = prefs.known /\ Default \in Files
  BY <1>1 DEF Chosen, Files, Default
<1>4. disk' \in Files
  BY <1>1, <1>2, <1>3 DEF Files
<1>5. /\ left' \in [choice : Nat, bad : 0 .. MaxBadWrite, death : Nat]
      /\ left'.bad = left.bad \/ (left.bad > 0 /\ left'.bad = left.bad - 1 /\ disk' \in {disk, [disk EXCEPT ![part] = Default[part]]})
  <2>1. left.choice \in Nat /\ left.bad \in 0 .. MaxBadWrite /\ left.death \in Nat
        /\ left = [choice |-> left.choice, bad |-> left.bad, death |-> left.death]
    BY <1>1
  <2>2. left.choice - 1 \in Nat /\ (left.bad > 0 => left.bad - 1 \in 0 .. MaxBadWrite)
    BY <1>1, <1>2, <2>1
  <2>3. CASE left' = [left EXCEPT !.choice = @ - 1]
    <3>1. left' = [choice |-> left.choice - 1, bad |-> left.bad, death |-> left.death]
      BY <2>1, <2>3
    <3> QED BY <2>1, <2>2, <3>1
  <2>4. CASE /\ left.bad > 0 /\ left' = [left EXCEPT !.choice = @ - 1, !.bad = @ - 1]
             /\ disk' \in {disk, [disk EXCEPT ![part] = Default[part]]}
    <3>1. left' = [choice |-> left.choice - 1, bad |-> left.bad - 1, death |-> left.death]
      BY <2>1, <2>4
    <3> QED BY <2>1, <2>2, <2>4, <3>1
  <2> QED BY <1>2, <2>3, <2>4
<1>6. ASSUME WritesHeld' PROVE /\ WritesHeld /\ disk = prefs /\ lit' = (lit \/ Wakes(p, prefs))
                               /\ disk' = [disk EXCEPT ![part] = p[part]]
  <2>1. left'.bad = MaxBadWrite /\ left.bad \in 0 .. MaxBadWrite
    BY <1>1, <1>6 DEF WritesHeld
  <2>2. left.bad = MaxBadWrite
    BY <1>1, <1>5, <2>1
  <2>3. ASSUME left' = [left EXCEPT !.choice = @ - 1, !.bad = @ - 1] PROVE FALSE
    <3>1. left'.bad = left.bad - 1
      BY <1>1, <2>3
    <3> QED BY <1>1, <2>1, <2>2, <3>1
  <2> QED BY <1>1, <1>2, <2>2, <2>3 DEF WritesHeld
<1>7. ASSUME WritesHeld' PROVE disk' = p
  <2>1. disk' = [prefs EXCEPT ![part] = p[part]]
    BY <1>6, <1>7
  <2> QED BY <1>1, <1>3, <2>1 DEF Chosen, Files
<1>8. MeshFollowsPrefs'
  <2> SUFFICES ASSUME spot' \in {"top", "select", "backoff"}, ~lit', WritesHeld', NEW q \in mesh'
               PROVE  (~Unwanted(q, prefs))'
    BY DEF MeshFollowsPrefs
  <2>1. ~lit /\ ~Wakes(p, prefs) /\ WritesHeld /\ mesh' = mesh /\ snap' = snap /\ spot' = spot
    BY <1>1, <1>2, <1>6 DEF PrefIInv, PrefTypeOK
  <2>2. ~Unwanted(q, prefs)
    BY <2>1 DEF PrefIInv, MeshFollowsPrefs
  <2>3. ("paused" \in p.on <=> "paused" \in prefs.on) /\ p.off = prefs.off /\ p.blocked = prefs.blocked
    <3>1. p.on \ {"newOff"} = prefs.on \ {"newOff"} /\ p.off = prefs.off /\ p.blocked = prefs.blocked
      BY <2>1 DEF Wakes
    <3> QED BY <3>1
  <2> QED BY <1>2, <2>1, <2>2, <2>3 DEF Unwanted
<1>9. snap'.nets \subseteq prefs'.known
  BY <1>2, <1>3 DEF PrefIInv
<1>10. PrefTypeOK' \/ wish' \notin [Net -> {"none", "on", "off"}]
  <2>1. lit' \in BOOLEAN
    BY <1>1, <1>2 DEF PrefIInv, PrefTypeOK, Wakes
  <2> QED BY <1>2, <1>3, <1>4, <2>1 DEF PrefIInv, PrefTypeOK
<1> QED BY <1>2, <1>3, <1>5, <1>6, <1>7, <1>8, <1>9, <1>10

LEMMA PrefNetwork ==
  ASSUME PrefIInv, NEW n \in Net, NEW b \in BOOLEAN, SetNetwork(n, b)
  PROVE  PrefIInv'
<1> DEFINE p == [prefs EXCEPT !.off = IF b THEN @ \ {n} ELSE @ \cup {n}]
<1>1. /\ prefs \in Files /\ wish \in [Net -> {"none", "on", "off"}]
  BY DEF PrefIInv, PrefTypeOK
<1>2. Choose(p, "off") /\ n \in snap.nets /\ wish' = [wish EXCEPT ![n] = IF b THEN "on" ELSE "off"]
  BY DEF SetNetwork
<1>3. Chosen(p, "off") /\ p.off = (IF b THEN prefs.off \ {n} ELSE prefs.off \cup {n})
  BY <1>1 DEF Chosen, Files
<1>4. wish' \in [Net -> {"none", "on", "off"}]
  BY <1>1, <1>2
<1> HIDE DEF p
<1>5. /\ PrefTypeOK' /\ left' \in [choice : Nat, bad : 0 .. MaxBadWrite, death : Nat]
      /\ MeshFollowsPrefs' /\ spot' # "down" /\ snap'.nets \subseteq prefs'.known
      /\ p \in Files /\ p.known = prefs.known /\ (WritesHeld' => WritesHeld /\ disk' = p /\ prefs' = p)
  BY <1>2, <1>3, <1>4, PrefChoose
<1>6. spot # "down"
  BY <1>2 DEF Choose
<1>7. ASSUME WritesHeld' PROVE /\ \A m \in Net : wish'[m] = "on" => m \in disk'.known
                               /\ \A m \in Net : wish'[m] = "off" => m \in disk'.off
                               /\ \A m \in Net : wish'[m] = "on" => m \notin disk'.off
  <2>1. WritesHeld /\ disk = prefs /\ disk' = p /\ n \in prefs.known
    BY <1>2, <1>5, <1>6, <1>7 DEF PrefIInv
  <2>2. /\ \A m \in Net : wish[m] = "on" => m \in prefs.known
        /\ \A m \in Net : wish[m] = "off" => m \in prefs.off
        /\ \A m \in Net : wish[m] = "on" /\ m \in prefs.known => m \notin prefs.off
    BY <2>1 DEF PrefIInv, ChoicesStick
  <2>3. \A m \in Net : wish'[m] = IF m = n THEN (IF b THEN "on" ELSE "off") ELSE wish[m]
    BY <1>1, <1>2
  <2> QED BY <1>3, <1>5, <2>1, <2>2, <2>3
<1>8. ChoicesStick'
  BY <1>7 DEF ChoicesStick
<1> QED BY <1>5, <1>7, <1>8 DEF PrefIInv

LEMMA PrefOther ==
  ASSUME PrefIInv, \/ \E q \in PrefPeer, b \in BOOLEAN : SetBlocked(PeerUser[q], b)
                   \/ \E s \in Switch, b \in BOOLEAN : SetSwitch(s, b)
  PROVE  PrefIInv'
<1>1. /\ prefs \in Files /\ wish \in [Net -> {"none", "on", "off"}]
  BY DEF PrefIInv, PrefTypeOK
<1>2. PICK p : \E part \in {"blocked", "on"} : Chosen(p, part) /\ Choose(p, part) /\ p.off = prefs.off /\ wish' = wish
  <2>1. ASSUME NEW q \in PrefPeer, NEW b \in BOOLEAN, SetBlocked(PeerUser[q], b)
        PROVE  \E p : \E part \in {"blocked", "on"} : Chosen(p, part) /\ Choose(p, part) /\ p.off = prefs.off /\ wish' = wish
    <3> DEFINE p == [prefs EXCEPT !.blocked = IF b THEN @ \cup {PeerUser[q]} ELSE @ \ {PeerUser[q]}]
    <3>1. Choose(p, "blocked") /\ wish' = wish
      BY <2>1 DEF SetBlocked
    <3>2. Chosen(p, "blocked") /\ p.off = prefs.off
      BY <1>1 DEF Chosen, Files
    <3> HIDE DEF p
    <3> QED BY <3>1, <3>2
  <2>2. ASSUME NEW s \in Switch, NEW b \in BOOLEAN, SetSwitch(s, b)
        PROVE  \E p : \E part \in {"blocked", "on"} : Chosen(p, part) /\ Choose(p, part) /\ p.off = prefs.off /\ wish' = wish
    <3> DEFINE p == [prefs EXCEPT !.on = IF b THEN @ \cup {s} ELSE @ \ {s}]
    <3>1. Choose(p, "on") /\ wish' = wish
      BY <2>2 DEF SetSwitch
    <3>2. Chosen(p, "on") /\ p.off = prefs.off
      BY <1>1 DEF Chosen, Files
    <3> HIDE DEF p
    <3> QED BY <3>1, <3>2
  <2> QED BY <2>1, <2>2
<1>3. PICK part \in {"off", "blocked", "on"} : Chosen(p, part) /\ Choose(p, part)
  BY <1>2
<1>5. /\ PrefTypeOK' /\ left' \in [choice : Nat, bad : 0 .. MaxBadWrite, death : Nat]
      /\ MeshFollowsPrefs' /\ spot' # "down" /\ snap'.nets \subseteq prefs'.known
      /\ p \in Files /\ p.known = prefs.known /\ (WritesHeld' => WritesHeld /\ disk' = p /\ prefs' = p)
  BY <1>1, <1>2, <1>3, PrefChoose
<1>6. spot # "down"
  BY <1>2 DEF Choose
<1>7. ASSUME WritesHeld' PROVE /\ \A m \in Net : wish'[m] = "on" => m \in disk'.known
                               /\ ChoicesStick'
  <2>1. WritesHeld /\ disk = prefs /\ disk' = p
    BY <1>2, <1>5, <1>6, <1>7 DEF PrefIInv
  <2> QED BY <1>2, <1>5, <2>1 DEF PrefIInv, ChoicesStick
<1>8. ChoicesStick'
  BY <1>7 DEF ChoicesStick
<1> QED BY <1>5, <1>7, <1>8 DEF PrefIInv

LEMMA PrefLoop ==
  ASSUME PrefIInv, NamesDiffer, WakeArm \/ Recheck \/ Answer \/ Revoked
  PROVE  PrefIInv'
<1>1. snap \in SnapType /\ lit \in BOOLEAN
  BY DEF PrefIInv, PrefTypeOK, SnapType
<1>2. CASE WakeArm
  BY <1>1, <1>2, PrefApply DEF WakeArm
<1>3. CASE Recheck /\ ApplyState(snap)
  BY <1>1, <1>3, PrefApply DEF Recheck
<1>4. CASE Recheck /\ UNCHANGED <<prefs, disk, mesh, names, left>>
  <2>1. UNCHANGED <<prefs, disk, mesh, names, left, lit, snap, asked, wish>> /\ spot = "select" /\ spot' = "top"
    BY <1>4 DEF Recheck
  <2> QED BY <2>1 DEF PrefIInv, PrefTypeOK, MeshFollowsPrefs, Unwanted, WritesHeld, ChoicesStick
<1>5. CASE Answer
  <2>1. PICK s \in Snapshots(asked) : snap' = s /\ ApplyState(s)
    BY <1>5 DEF Answer
  <2>2. s \in SnapType
    BY DEF Snapshots, SnapType
  <2> QED BY <1>1, <1>5, <2>1, <2>2, PrefApply DEF Answer
<1>6. CASE Revoked
  <2> DEFINE s == [snap EXCEPT !.peers = {}]
  <2>1. s \in SnapType
    BY <1>1 DEF SnapType
  <2>2. snap' = s /\ ApplyState(s) /\ spot = "select" /\ spot' = "top" /\ asked' = NoAsk /\ lit' = lit /\ wish' = wish
    BY <1>6 DEF Revoked
  <2> HIDE DEF s
  <2> QED BY <1>1, <2>1, <2>2, PrefApply
<1> QED BY <1>2, <1>3, <1>4, <1>5, <1>6 DEF Recheck

LEMMA PrefTop ==
  ASSUME PrefIInv, NamesDiffer, Top PROVE PrefIInv'
<1>1. PICK gone \in SUBSET snap.peers :
        LET s == [snap EXCEPT !.peers = @ \ gone]
        IN  /\ snap' = s /\ names' = Named(s)
            /\ mesh' = IF gone = {} THEN mesh ELSE Active(s, prefs)
  BY DEF Top
<1> DEFINE s == [snap EXCEPT !.peers = @ \ gone]
<1>2. snap' = s /\ names' = s.peers /\ mesh' = IF gone = {} THEN mesh ELSE Active(s, prefs)
  BY <1>1 DEF Named
<1>3. s \in SnapType /\ s.nets = snap.nets /\ s.peers = snap.peers \ gone
  BY DEF PrefIInv, PrefTypeOK, SnapType
<1>4. spot = "top" /\ spot' = "select" /\ UNCHANGED <<prefs, disk, lit, wish, left>> /\ asked' \in {asked, Report}
  BY DEF Top
<1> HIDE DEF s
<1>5. asked' \in Asks \cup {NoAsk}
  BY <1>4 DEF PrefIInv, PrefTypeOK, Report, Asks, Files
<1>6. mesh' \subseteq s.peers
  <2>1. CASE gone = {}
    BY <1>2, <1>3, <2>1 DEF PrefIInv, PrefTypeOK
  <2>2. CASE gone # {}
    BY <1>2, <1>3, <2>2, ActiveIsWanted
  <2> QED BY <2>1, <2>2
<1>7. PrefTypeOK'
  BY <1>2, <1>3, <1>4, <1>5, <1>6 DEF PrefIInv, PrefTypeOK, SnapType
<1>8. MeshFollowsPrefs'
  <2>1. CASE gone = {}
    BY <1>2, <1>3, <1>4, <2>1 DEF PrefIInv, MeshFollowsPrefs, Unwanted, WritesHeld
  <2>2. CASE gone # {}
    BY <1>2, <1>3, <1>4, <2>2, ActiveIsWanted DEF MeshFollowsPrefs, Unwanted
  <2> QED BY <2>1, <2>2
<1> QED BY <1>2, <1>3, <1>4, <1>7, <1>8 DEF PrefIInv, WritesHeld, ChoicesStick

LEMMA PrefDie ==
  ASSUME PrefIInv, DieIdle \/ DieReconciling PROVE PrefIInv'
<1>1. /\ prefs \in Files /\ disk \in Files /\ left \in [choice : Nat, bad : 0 .. MaxBadWrite, death : Nat]
  BY DEF PrefIInv, PrefTypeOK
<1>2. PICK nets \in SUBSET Net : Die([disk EXCEPT !.known = @ \cup nets])
  <2>1. CASE DieIdle
    <3>1. {} \in SUBSET Net /\ disk = [disk EXCEPT !.known = @ \cup {}]
      BY <1>1 DEF Files
    <3>2. Die(disk)
      BY <2>1 DEF DieIdle
    <3> QED BY <3>1, <3>2
  <2>2. CASE DieReconciling
    BY <2>2 DEF DieReconciling
  <2> QED BY <2>1, <2>2
<1> DEFINE d == [disk EXCEPT !.known = @ \cup nets]
<1>3. d \in Files /\ d.off = disk.off /\ disk.known \subseteq d.known
  BY <1>1 DEF Files
<1> HIDE DEF d
<1>4. /\ left.death > 0 /\ spot # "down" /\ left' = [left EXCEPT !.death = @ - 1]
      /\ disk' = d /\ spot' = "down" /\ mesh' = {} /\ names' = {} /\ snap' = NoSnap /\ asked' = NoAsk /\ lit' = FALSE
      /\ UNCHANGED <<prefs, wish>>
  BY <1>2 DEF Die, d
<1>5. left' \in [choice : Nat, bad : 0 .. MaxBadWrite, death : Nat] /\ left'.bad = left.bad
  BY <1>1, <1>4
<1>6. snap' \in [nets : SUBSET Net, peers : SUBSET PrefPeer] /\ snap'.nets = {} /\ mesh' \subseteq snap'.peers /\ names' \subseteq snap'.peers
  BY <1>4 DEF NoSnap
<1>7. PrefTypeOK' /\ MeshFollowsPrefs'
  BY <1>3, <1>4, <1>6 DEF PrefIInv, PrefTypeOK, MeshFollowsPrefs
<1>8. ASSUME WritesHeld' PROVE /\ \A n \in Net : wish'[n] = "on" => n \in disk'.known
                               /\ ChoicesStick'
  <2>1. WritesHeld /\ disk.known \subseteq disk'.known /\ disk'.off = disk.off /\ wish' = wish
    BY <1>3, <1>4, <1>5, <1>8 DEF WritesHeld
  <2>2. /\ \A n \in Net : wish[n] = "on" => n \in disk.known
        /\ \A n \in Net : wish[n] = "off" => n \in disk.off
        /\ \A n \in Net : wish[n] = "on" /\ n \in disk.known => n \notin disk.off
    BY <2>1 DEF PrefIInv, ChoicesStick
  <2> QED BY <2>1, <2>2 DEF ChoicesStick
<1>9. ChoicesStick'
  BY <1>8 DEF ChoicesStick
<1> QED BY <1>4, <1>5, <1>6, <1>7, <1>8, <1>9 DEF PrefIInv

LEMMA PrefQuiet ==
  ASSUME PrefIInv, Unreachable \/ Slept \/ Load \/ UNCHANGED prefVars PROVE PrefIInv'
<1>1. CASE Unreachable
  BY <1>1 DEF Unreachable, PrefIInv, PrefTypeOK, MeshFollowsPrefs, Unwanted, WritesHeld, ChoicesStick
<1>2. CASE Slept
  BY <1>2 DEF Slept, PrefIInv, PrefTypeOK, MeshFollowsPrefs, Unwanted, WritesHeld, ChoicesStick
<1>3. CASE Load
  BY <1>3 DEF Load, PrefIInv, PrefTypeOK, MeshFollowsPrefs, WritesHeld, ChoicesStick
<1>4. CASE UNCHANGED prefVars
  BY <1>4 DEF prefVars, PrefIInv, PrefTypeOK, MeshFollowsPrefs, Unwanted, WritesHeld, ChoicesStick
<1> QED BY <1>1, <1>2, <1>3, <1>4

LEMMA PrefStart == PrefInit => PrefIInv
<1> SUFFICES ASSUME PrefInit PROVE PrefIInv
  OBVIOUS
<1>1. Default \in Files
  BY DEF Default, Files
<1>2. left \in [choice : Nat, bad : 0 .. MaxBadWrite, death : Nat]
  BY PrefBounds DEF PrefInit
<1>3. snap \in [nets : SUBSET Net, peers : SUBSET PrefPeer] /\ snap.nets = {} /\ mesh = {} /\ names = {}
  BY DEF PrefInit, NoSnap
<1>4. PrefTypeOK
  BY <1>1, <1>3 DEF PrefInit, PrefTypeOK
<1> QED BY <1>2, <1>3, <1>4 DEF PrefInit, PrefIInv, MeshFollowsPrefs, ChoicesStick

\* daemon.rs (filter_active) and netcfg.rs (reconcile_new), for any networks of distinct
\* display names, peers and bounds: the tunnels follow the choices whenever no wake is owed
\* and no write failed, and the owner's own word on a network outlives crashes and snapshots.
THEOREM PrefsAreSafe == ASSUME NamesDiffer PROVE PrefSpec => []PrefsSafe
<1>1. PrefInit => PrefIInv
  BY PrefStart
<1>2. PrefIInv /\ [PrefNext]_prefVars => PrefIInv'
  <2> SUFFICES ASSUME PrefIInv, [PrefNext]_prefVars PROVE PrefIInv'
    OBVIOUS
  <2>1. CASE \E n \in Net, b \in BOOLEAN : SetNetwork(n, b)
    BY <2>1, PrefNetwork
  <2>2. CASE \/ \E p \in PrefPeer, b \in BOOLEAN : SetBlocked(PeerUser[p], b)
             \/ \E s \in Switch, b \in BOOLEAN : SetSwitch(s, b)
    BY <2>2, PrefOther
  <2>3. CASE WakeArm \/ Recheck \/ Answer \/ Revoked
    BY <2>3, PrefLoop
  <2> QED BY <2>1, <2>2, <2>3, PrefTop, PrefDie, PrefQuiet DEF PrefNext
<1>3. PrefIInv => PrefsSafe
  BY DEF PrefIInv, PrefsSafe
<1> QED BY <1>1, <1>2, <1>3, PTL DEF PrefSpec

-----------------------------------------------------------------------------
(* The host firewall.                                                      *)

Views == [rules : SUBSET ((Port \cup {Https}) \X Scope), peers : [Group -> SUBSET Ip],
          guarded : BOOLEAN, missing : BOOLEAN]

\* An operation that adds or widens carries the one slot or scope it adds, and a name.
Workable(o) ==
  /\ o.does = "add" => (\E s \in Slot : o.slots = {s}) /\ o.name \in Name
  /\ o.does = "widen" => (\E sc \in Scope : o.slots = {sc}) /\ o.name \in Name

\* The types, down to what an operation carries and what a reconcile has read.
FwTyped ==
  /\ exposed \in Exposures /\ file \in {{}} \cup {{e} : e \in Exposures}
  /\ op = [c \in Ctl |-> op[c]] /\ \A c \in Ctl : Workable(op[c])
  /\ blob \in [Ctl -> {{}} \cup {{e} : e \in Exposures}]
  /\ fwView \in [Actor -> Views] /\ installed \in Views
  /\ stage \in [Actor -> Stages] /\ up \in {"up", "stopping", "down"}
  /\ addr \in BOOLEAN /\ exact \in BOOLEAN
  /\ peers \in [Group -> SUBSET Ip] /\ peers \in Feed \cup {NoPeers} /\ fwMesh = peers

\* One exemption for each reconcile that found none and has not yet inserted its own.
Owing == {a \in Actor : fwView[a].missing}
FwCounted ==
  /\ exempt \in Nat
  /\ \A a \in Actor : fwView[a].missing => stage[a] = "gather"
  /\ exempt + Cardinality(Owing) <= Cardinality(Actor)

\* What an operation that runs alone may rely on.
FwAlone ==
  /\ solo \in Actor \cup {FwNobody}
  /\ solo \in Actor => \A b \in Actor \ {solo} : stage[b] = "idle"
  /\ \A a \in Actor :
       solo = a => /\ stage[a] \in {"peers", "apply"} => fwView[a].rules = Rules(exposed)
                   /\ stage[a] = "apply" => fwView[a].peers = peers
  /\ exact => Quiet /\ installed.rules = Rules(exposed) /\ installed.peers = peers
  /\ up = "down" => Quiet
  /\ up # "up" /\ solo = "loop" => Quiet /\ StopLeavesNothing

FwIInv == FwTyped /\ FwCounted /\ FwAlone

LEMMA ExposedShape ==
  ASSUME NEW e
  PROVE  e \in Exposures <=> /\ DOMAIN e \subseteq Slot /\ e \in [DOMAIN e -> Name]
BY DEF Exposures

LEMMA RulesShape ==
  ASSUME NEW e \in Exposures
  PROVE  Rules(e) \in SUBSET ((Port \cup {Https}) \X Scope)
<1>1. DOMAIN e \subseteq Port \X Scope
  BY ExposedShape DEF Slot
<1>2. WebScopes(e) \subseteq Scope
  BY <1>1 DEF WebScopes
<1> QED BY <1>1, <1>2 DEF Rules

LEMMA OpsKeepShape ==
  ASSUME NEW e \in Exposures
  PROVE  /\ \A s \in Slot, n \in Name : Added(e, s, n) \in Exposures
         /\ \A S : Closed(e, S) \in Exposures
         /\ \A n \in Name, sc \in Scope : Widened(e, n, sc) \in Exposures
<1>1. DOMAIN e \subseteq Slot /\ e \in [DOMAIN e -> Name]
  BY ExposedShape
<1>2. ASSUME NEW s \in Slot, NEW n \in Name PROVE Added(e, s, n) \in Exposures
  <2>1. DOMAIN Added(e, s, n) = DOMAIN e \cup {s} /\ Added(e, s, n) \in [DOMAIN e \cup {s} -> Name]
    BY <1>1 DEF Added
  <2> QED BY <1>1, <2>1, ExposedShape
<1>3. ASSUME NEW S PROVE Closed(e, S) \in Exposures
  <2>1. Closed(e, S) \in [DOMAIN e \ S -> Name] /\ DOMAIN Closed(e, S) = DOMAIN e \ S
    BY <1>1 DEF Closed, Restrict
  <2> QED BY <1>1, <2>1, ExposedShape
<1>4. ASSUME NEW n \in Name, NEW sc \in Scope PROVE Widened(e, n, sc) \in Exposures
  <2> DEFINE more == {<<s[1], sc>> : s \in {t \in DOMAIN e : e[t] = n}} \ DOMAIN e
  <2>1. more \subseteq Slot
    BY <1>1 DEF Slot
  <2>2. Widened(e, n, sc) = [t \in DOMAIN e \cup more |-> IF t \in more THEN n ELSE e[t]]
    BY DEF Widened
  <2> HIDE DEF more
  <2>3. Widened(e, n, sc) \in [DOMAIN e \cup more -> Name] /\ DOMAIN Widened(e, n, sc) = DOMAIN e \cup more
    BY <1>1, <2>2
  <2> QED BY <1>1, <2>1, <2>3, ExposedShape
<1> QED BY <1>2, <1>3, <1>4

LEMMA ActorFacts ==
  /\ IsFiniteSet(Actor) /\ "loop" \in Actor /\ FwNobody \notin Actor /\ "loop" \notin Ctl
  /\ Ctl \subseteq Actor
<1>1. IsFiniteSet(Ctl) /\ "loop" \notin Ctl /\ "nobody" \notin Ctl
  BY FwConstants
<1>2. IsFiniteSet(Actor)
  BY <1>1, FS_AddElement, FS_Union, FS_Singleton DEF Actor
<1> QED BY <1>1, <1>2 DEF Actor, FwNobody

LEMMA NoRulesView == NoRules \in Views /\ NoPeers \in [Group -> SUBSET Ip]
BY DEF NoRules, NoPeers, Views

-----------------------------------------------------------------------------
LEMMA FwTypedStart == FwInit => FwTyped /\ FwCounted /\ FwAlone
<1> SUFFICES ASSUME FwInit PROVE FwTyped /\ FwCounted /\ FwAlone
  OBVIOUS
<1>1. Seeds \in Exposures
  BY FwConstants, ExposedShape DEF Slot, Scope, Group
<1>2. FwTyped
  BY <1>1, NoRulesView DEF FwInit, FwTyped, Stages, NoOp, Workable, Actor
<1>3. \A a \in Actor : ~fwView[a].missing
  BY DEF FwInit, NoRules
<1>4. Owing = {}
  BY <1>3 DEF Owing
<1>5. Cardinality(Owing) = 0 /\ Cardinality(Actor) \in Nat
  BY <1>4, ActorFacts, FS_EmptySet, FS_CardinalityType
<1>6. FwCounted
  BY <1>3, <1>5 DEF FwInit, FwCounted
<1>7. FwAlone
  BY ActorFacts DEF FwInit, FwAlone, FwNobody, Quiet, Actor
<1> QED BY <1>2, <1>6, <1>7

LEMMA FwRequestTyped ==
  ASSUME FwTyped, NEW c \in Ctl, FwRequest(c) PROVE FwTyped' /\ \E o : Requested(c, o) /\ Goes(c, "change")
<1>1. c \in Actor
  BY ActorFacts
<1>2. PICK o : Requested(c, o) /\ Goes(c, "change") /\ Workable(o)
  <2>1. ASSUME NEW s \in Port \X CtlScope, NEW n \in Name, Expose(c, s, n)
        PROVE  \E o : Requested(c, o) /\ Goes(c, "change") /\ Workable(o)
    <3>1. s \in Slot
      BY DEF Slot, Scope, CtlScope
    <3>2. Workable([does |-> "add", slots |-> {s}, name |-> n])
      BY <3>1 DEF Workable
    <3> QED BY <2>1, <3>2 DEF Expose
  <2>2. ASSUME NEW S, Unexpose(c, S)
        PROVE  \E o : Requested(c, o) /\ Goes(c, "change") /\ Workable(o)
    <3>1. Workable([does |-> "close", slots |-> S, name |-> FwNobody])
      BY DEF Workable
    <3> QED BY <2>2, <3>1 DEF Unexpose
  <2>3. ASSUME NEW n \in Name, NEW sc \in CtlScope, ExposeNamed(c, n, sc)
        PROVE  \E o : Requested(c, o) /\ Goes(c, "change") /\ Workable(o)
    <3>1. Workable([does |-> "widen", slots |-> {sc}, name |-> n])
      BY DEF Workable, CtlScope, Scope
    <3> QED BY <2>3, <3>1 DEF ExposeNamed
  <2>4. ASSUME NEW n \in Name, UnexposeNamed(c, n)
        PROVE  \E o : Requested(c, o) /\ Goes(c, "change") /\ Workable(o)
    <3>1. Workable([does |-> "drop", slots |-> {}, name |-> n])
      BY DEF Workable
    <3> QED BY <2>4, <3>1 DEF UnexposeNamed
  <2> QED BY <2>1, <2>2, <2>3, <2>4 DEF FwRequest
<1>3. op' = [op EXCEPT ![c] = o] /\ stage' = [stage EXCEPT ![c] = "change"] /\ exact' = FALSE
      /\ UNCHANGED <<exposed, file, peers, addr, installed, fwMesh, blob, fwView, up>>
  BY <1>2 DEF Requested, Goes, Begins, fwData
<1>4. op' = [d \in Ctl |-> op'[d]] /\ \A d \in Ctl : Workable(op'[d])
  BY <1>2, <1>3 DEF FwTyped
<1>5. stage' \in [Actor -> Stages]
  BY <1>1, <1>3 DEF FwTyped, Stages
<1> QED BY <1>2, <1>3, <1>4, <1>5 DEF FwTyped

LEMMA FwChangeTyped ==
  ASSUME FwTyped, NEW c \in Ctl, Change(c) \/ Save(c) \/ Write(c) \/ WriteFails(c)
  PROVE  FwTyped'
<1>1. c \in Actor
  BY ActorFacts
<1>2. CASE Change(c)
  <2>1. Changed(c) \in Exposures
    <3>1. exposed \in Exposures /\ Workable(op[c])
      BY DEF FwTyped
    <3>2. \A S : Closed(exposed, S) \in Exposures
      BY <3>1, OpsKeepShape
    <3>3. CASE op[c].does = "add"
      <4>1. PICK s \in Slot : op[c].slots = {s}
        BY <3>1, <3>3 DEF Workable
      <4>2. (CHOOSE t \in op[c].slots : TRUE) = s
        BY <4>1
      <4> QED BY <3>1, <3>3, <4>2, OpsKeepShape DEF Changed, Workable
    <3>4. CASE op[c].does = "widen"
      <4>1. PICK s \in Scope : op[c].slots = {s}
        BY <3>1, <3>4 DEF Workable
      <4>2. (CHOOSE t \in op[c].slots : TRUE) = s
        BY <4>1
      <4>3. Widened(exposed, op[c].name, s) \in Exposures
        BY <3>1, <3>4, OpsKeepShape DEF Workable
      <4> QED BY <3>4, <4>2, <4>3 DEF Changed
    <3> QED BY <3>2, <3>3, <3>4 DEF Changed
  <2>2. stage' \in [Actor -> Stages]
    BY <1>1, <1>2 DEF FwTyped, Stages, Change, Goes
  <2> QED BY <1>2, <2>1, <2>2 DEF FwTyped, Change
<1>3. CASE Save(c)
  <2>1. stage' \in [Actor -> Stages] /\ blob' \in [Ctl -> {{}} \cup {{e} : e \in Exposures}]
    BY <1>1, <1>3 DEF FwTyped, Stages, Save, Goes
  <2> QED BY <1>3, <2>1 DEF FwTyped, Save, fwData
<1>4. CASE Write(c) \/ WriteFails(c)
  <2>1. stage' = [stage EXCEPT ![c] = "exempt"] \/ stage' = [stage EXCEPT ![c] = "idle"]
    BY <1>4 DEF Write, WriteFails, Goes
  <2>2. /\ stage' \in [Actor -> Stages] /\ blob' \in [Ctl -> {{}} \cup {{e} : e \in Exposures}]
        /\ file' \in {{}} \cup {{e} : e \in Exposures}
    BY <1>1, <1>4, <2>1 DEF FwTyped, Stages, Write, WriteFails, fwData
  <2>3. op' = [op EXCEPT ![c] = NoOp] /\ Workable(NoOp)
    BY <1>4 DEF Write, WriteFails, NoOp, Workable
  <2>4. op' = [d \in Ctl |-> op'[d]] /\ \A d \in Ctl : Workable(op'[d])
    BY <2>3 DEF FwTyped
  <2> QED BY <1>4, <2>2, <2>4 DEF FwTyped, Write, WriteFails, fwData
<1> QED BY <1>2, <1>3, <1>4

LEMMA FwReconcileTyped ==
  ASSUME FwTyped, NEW a \in Actor,
         LookForExemption(a) \/ Gather(a) \/ GatherPeers(a) \/ Apply(a) \/ ApplyFails(a)
  PROVE  FwTyped'
<1>1. UNCHANGED <<exposed, file, op, blob, up, addr, peers, fwMesh>> /\ fwView \in [Actor -> Views] /\ fwView[a] \in Views
  BY DEF FwTyped, LookForExemption, Gather, GatherPeers, Apply, ApplyFails, fwData
<1>2. stage' \in [Actor -> Stages]
  BY DEF FwTyped, Stages, LookForExemption, Gather, GatherPeers, Apply, ApplyFails, Goes
<1>3. fwView' \in [Actor -> Views]
  <2>1. CASE LookForExemption(a)
    <3>1. [fwView[a] EXCEPT !.missing = (exempt = 0)] \in Views
      BY <1>1 DEF Views
    <3>2. fwView' = [fwView EXCEPT ![a] = [fwView[a] EXCEPT !.missing = (exempt = 0)]]
      BY <1>1, <2>1 DEF LookForExemption
    <3> QED BY <1>1, <3>1, <3>2
  <2>2. CASE Gather(a)
    <3>1. Rules(exposed) \in SUBSET ((Port \cup {Https}) \X Scope) /\ addr \in BOOLEAN
      BY RulesShape DEF FwTyped
    <3>2. [fwView[a] EXCEPT !.rules = Rules(exposed), !.guarded = addr, !.missing = FALSE] \in Views
      BY <1>1, <3>1 DEF Views
    <3>3. fwView' = [fwView EXCEPT ![a] = [fwView[a] EXCEPT !.rules = Rules(exposed), !.guarded = addr, !.missing = FALSE]]
      BY <1>1, <2>2 DEF Gather
    <3> QED BY <1>1, <3>2, <3>3
  <2>3. CASE GatherPeers(a)
    <3>1. [fwView[a] EXCEPT !.peers = peers] \in Views
      BY <1>1 DEF Views, FwTyped
    <3>2. fwView' = [fwView EXCEPT ![a] = [fwView[a] EXCEPT !.peers = peers]]
      BY <1>1, <2>3 DEF GatherPeers
    <3> QED BY <1>1, <3>1, <3>2
  <2>4. CASE Apply(a) \/ ApplyFails(a)
    BY <1>1, <2>4, NoRulesView DEF Apply, ApplyFails
  <2> QED BY <2>1, <2>2, <2>3, <2>4
<1>4. installed' \in Views /\ exact' \in BOOLEAN
  BY <1>1 DEF FwTyped, LookForExemption, Gather, GatherPeers, Apply, ApplyFails, fwData
<1> QED BY <1>1, <1>2, <1>3, <1>4 DEF FwTyped

LEMMA FwRestTyped ==
  ASSUME FwTyped, \/ \E p \in Feed : UpdatePeers(p)
                  \/ SetMeshAddr \/ ForeignRestart \/ Reset \/ Ends \/ Boot \/ UNCHANGED fwVars
  PROVE  FwTyped'
<1>1. "loop" \in Actor
  BY ActorFacts
<1>2. CASE \E p \in Feed : UpdatePeers(p)
  <2>1. PICK p \in Feed : UpdatePeers(p)
    BY <1>2
  <2>2. p \in [Group -> SUBSET Ip]
    BY FwConstants DEF Group
  <2>3. stage' \in [Actor -> Stages] /\ exact' \in BOOLEAN
    BY <1>1, <2>1 DEF UpdatePeers, Begins, Goes, FwTyped, Stages
  <2>4. peers' = p /\ fwMesh' = p
    BY <2>1 DEF UpdatePeers, Differs
  <2> QED BY <2>1, <2>2, <2>3, <2>4 DEF UpdatePeers, FwTyped
<1>3. CASE SetMeshAddr
  BY <1>1, <1>3 DEF SetMeshAddr, Begins, Goes, FwTyped, Stages
<1>4. CASE ForeignRestart \/ UNCHANGED fwVars
  BY <1>4 DEF ForeignRestart, fwVars, FwTyped
<1>5. CASE Reset
  BY <1>5, NoRulesView DEF Reset, FwTyped
<1>6. CASE Ends
  <2>1. Workable(NoOp)
    BY DEF Workable, NoOp
  <2>2. op' = [c \in Ctl |-> op'[c]] /\ \A c \in Ctl : Workable(op'[c])
    BY <1>6, <2>1 DEF Ends
  <2>3. file' \in {{}} \cup {{e} : e \in Exposures}
    BY <1>6 DEF Ends, FwTyped
  <2> QED BY <1>6, <2>2, <2>3, NoRulesView DEF Ends, FwTyped, Stages
<1>7. CASE Boot
  <2>1. exposed' \in Exposures
    <3>1. CASE file = {}
      BY <1>7, <3>1, FwConstants, ExposedShape DEF Boot, Loaded, Slot, Scope, Group
    <3>2. CASE file # {}
      <4>1. PICK e \in Exposures : file = {e}
        BY <3>2 DEF FwTyped
      <4> QED BY <1>7, <3>2, <4>1 DEF Boot, Loaded
    <3> QED BY <3>1, <3>2
  <2>2. stage' \in [Actor -> Stages] /\ exact' \in BOOLEAN
    BY <1>1, <1>7 DEF Boot, Begins, Goes, FwTyped, Stages
  <2> QED BY <1>7, <2>1, <2>2, NoRulesView DEF Boot, FwTyped
<1> QED BY <1>2, <1>3, <1>4, <1>5, <1>6, <1>7

-----------------------------------------------------------------------------
\* A step after which an actor owes an exemption only if it did before.
LEMMA FwCountKept ==
  ASSUME FwCounted, exempt' \in Nat, exempt' <= exempt,
         \A a \in Actor : fwView'[a].missing => fwView[a].missing /\ stage'[a] = stage[a]
  PROVE  FwCounted'
<1> DEFINE O == Owing  P == Owing'
<1>1. P \subseteq O /\ O \subseteq Actor
  BY DEF Owing
<1>2. IsFiniteSet(O) /\ IsFiniteSet(P)
  BY <1>1, ActorFacts, FS_Subset
<1>3. Cardinality(P) <= Cardinality(O) /\ Cardinality(P) \in Nat /\ Cardinality(O) \in Nat
      /\ Cardinality(Actor) \in Nat
  BY <1>1, <1>2, ActorFacts, FS_Subset, FS_CardinalityType
<1>4. exempt + Cardinality(O) <= Cardinality(Actor) /\ exempt \in Nat
  BY DEF FwCounted
<1> HIDE DEF O, P
<1>5. exempt' + Cardinality(P) <= Cardinality(Actor)
  BY <1>3, <1>4
<1>6. \A a \in Actor : fwView'[a].missing => stage'[a] = "gather"
  BY DEF FwCounted
<1> QED BY <1>5, <1>6 DEF FwCounted, P

LEMMA FwCountLook ==
  ASSUME FwTyped, FwCounted, NEW a \in Actor, LookForExemption(a) PROVE FwCounted'
<1>1. fwView \in [Actor -> Views] /\ stage \in [Actor -> Stages]
  BY DEF FwTyped
<1>2. /\ stage[a] = "exempt" /\ fwView' = [fwView EXCEPT ![a].missing = (exempt = 0)]
      /\ stage' = [stage EXCEPT ![a] = "gather"] /\ exempt' = exempt
  BY DEF LookForExemption, Goes, fwData
<1>3. \A b \in Actor : b # a => fwView'[b] = fwView[b] /\ stage'[b] = stage[b]
  BY <1>1, <1>2
<1>4. fwView'[a].missing = (exempt = 0) /\ stage'[a] = "gather"
  BY <1>1, <1>2 DEF Views
<1>5. CASE exempt = 0
  <2> DEFINE P == Owing'
  <2>1. P \subseteq Actor
    BY DEF Owing
  <2>2. Cardinality(P) <= Cardinality(Actor) /\ Cardinality(P) \in Nat
    BY <2>1, ActorFacts, FS_Subset, FS_CardinalityType
  <2> HIDE DEF P
  <2>3. exempt' + Cardinality(P) <= Cardinality(Actor)
    BY <1>2, <1>5, <2>2, ActorFacts, FS_CardinalityType
  <2>4. \A b \in Actor : fwView'[b].missing => stage'[b] = "gather"
    BY <1>3, <1>4 DEF FwCounted
  <2>5. exempt' \in Nat
    BY <1>2, <1>5
  <2> QED BY <2>3, <2>4, <2>5 DEF FwCounted, P
<1>6. CASE exempt # 0
  <2>1. \A b \in Actor : fwView'[b].missing => fwView[b].missing /\ stage'[b] = stage[b]
    BY <1>3, <1>4, <1>6
  <2> QED BY <1>2, <2>1, FwCountKept DEF FwCounted
<1> QED BY <1>5, <1>6

LEMMA FwCountGather ==
  ASSUME FwTyped, FwCounted, NEW a \in Actor, Gather(a) PROVE FwCounted'
<1>1. fwView \in [Actor -> Views] /\ stage \in [Actor -> Stages]
  BY DEF FwTyped
<1>2. /\ stage[a] = "gather"
      /\ fwView' = [fwView EXCEPT ![a].rules = Rules(exposed), ![a].guarded = addr, ![a].missing = FALSE]
      /\ stage' = [stage EXCEPT ![a] = "peers"]
      /\ exempt' = IF fwView[a].missing THEN exempt + 1 ELSE exempt
  BY DEF Gather, Goes
<1>3. \A b \in Actor : b # a => fwView'[b] = fwView[b] /\ stage'[b] = stage[b]
  BY <1>1, <1>2
<1>4. ~fwView'[a].missing
  BY <1>1, <1>2 DEF Views
<1>5. \A b \in Actor : fwView'[b].missing => fwView[b].missing /\ stage'[b] = stage[b]
  BY <1>3, <1>4
<1>6. CASE ~fwView[a].missing
  <2>1. exempt' = exempt /\ exempt \in Nat
    BY <1>2, <1>6 DEF FwCounted
  <2>2. exempt' \in Nat /\ exempt' <= exempt
    BY <2>1
  <2> QED BY <1>5, <2>2, FwCountKept
<1>7. CASE fwView[a].missing
  <2> DEFINE O == Owing  P == Owing'
  <2>1. P = O \ {a} /\ a \in O /\ O \subseteq Actor
    BY <1>3, <1>4, <1>7 DEF Owing
  <2>2. IsFiniteSet(O)
    BY <2>1, ActorFacts, FS_Subset
  <2>3. Cardinality(P) = Cardinality(O) - 1 /\ Cardinality(O) \in Nat /\ Cardinality(Actor) \in Nat
    BY <2>1, <2>2, ActorFacts, FS_RemoveElement, FS_CardinalityType
  <2>4. exempt + Cardinality(O) <= Cardinality(Actor) /\ exempt \in Nat /\ exempt' = exempt + 1
    BY <1>2, <1>7 DEF FwCounted
  <2> HIDE DEF O, P
  <2>5. exempt' + Cardinality(P) <= Cardinality(Actor) /\ exempt' \in Nat
    BY <2>3, <2>4
  <2>6. \A b \in Actor : fwView'[b].missing => stage'[b] = "gather"
    BY <1>5 DEF FwCounted
  <2> QED BY <2>5, <2>6 DEF FwCounted, P
<1> QED BY <1>6, <1>7

LEMMA FwCountNext ==
  ASSUME FwTyped, FwCounted, FwAlone, [FwNext]_fwVars PROVE FwCounted'
<1>0. fwView \in [Actor -> Views] /\ stage \in [Actor -> Stages] /\ exempt \in Nat /\ 0 \in Nat
      /\ "loop" \in Actor /\ Ctl \subseteq Actor
  BY ActorFacts DEF FwTyped, FwCounted
<1>1. ASSUME NEW c \in Ctl, FwRequest(c) \/ Change(c) \/ Save(c) \/ Write(c) \/ WriteFails(c) PROVE FwCounted'
  <2>1. exempt' = exempt /\ fwView' = fwView
    BY <1>1, FwRequestTyped DEF Requested, Change, Save, Write, WriteFails, fwData, FwRequest, Expose, Unexpose, ExposeNamed, UnexposeNamed
  <2>2. \A b \in Actor : b # c => stage'[b] = stage[b]
    BY <1>0, <1>1, FwRequestTyped DEF Goes, Change, Save, Write, WriteFails, FwRequest, Expose, Unexpose, ExposeNamed, UnexposeNamed
  <2>3. stage[c] \in {"idle", "change", "save", "write"}
    BY <1>1, FwRequestTyped DEF Requested, Change, Save, Write, WriteFails, FwRequest, Expose, Unexpose, ExposeNamed, UnexposeNamed
  <2>4. ~fwView[c].missing
    BY <1>0, <2>3 DEF FwCounted
  <2>5. \A b \in Actor : fwView'[b].missing => fwView[b].missing /\ stage'[b] = stage[b]
    BY <2>1, <2>2, <2>4
  <2> QED BY <1>0, <2>1, <2>5, FwCountKept
<1>2. CASE \/ \E p \in Feed : UpdatePeers(p)
           \/ SetMeshAddr \/ Boot
  <2>1. exempt' = exempt /\ fwView' = fwView /\ \A b \in Actor \ {"loop"} : stage'[b] = stage[b]
    BY <1>0, <1>2 DEF UpdatePeers, SetMeshAddr, Boot, Goes
  <2>2. stage["loop"] = "idle" \/ stage' = stage
    BY <1>0, <1>2 DEF UpdatePeers, SetMeshAddr, Boot, FwAlone, Quiet
  <2>3. fwView["loop"].missing => stage["loop"] = "gather"
    BY <1>0 DEF FwCounted
  <2>4. \A b \in Actor : fwView'[b].missing => fwView[b].missing /\ stage'[b] = stage[b]
    BY <2>1, <2>2, <2>3
  <2> QED BY <1>0, <2>1, <2>4, FwCountKept
<1>3. CASE Ends
  <2>1. exempt' = exempt /\ \A b \in Actor : fwView'[b] = NoRules
    BY <1>3 DEF Ends
  <2>2. \A b \in Actor : ~fwView'[b].missing
    BY <2>1 DEF NoRules
  <2> QED BY <1>0, <2>1, <2>2, FwCountKept
<1>4. CASE Reset \/ ForeignRestart \/ UNCHANGED fwVars
  <2>1. exempt' \in {0, exempt} /\ fwView' = fwView /\ stage' = stage
    BY <1>4 DEF Reset, Removed, ForeignRestart, fwVars
  <2>2. exempt' \in Nat /\ exempt' <= exempt
    BY <1>0, <2>1
  <2> QED BY <1>0, <2>1, <2>2, FwCountKept
<1>5. ASSUME NEW a \in Actor, GatherPeers(a) \/ Apply(a) \/ ApplyFails(a) PROVE FwCounted'
  <2>1. exempt' = exempt /\ \A b \in Actor : b # a => fwView'[b] = fwView[b] /\ stage'[b] = stage[b]
    BY <1>0, <1>5 DEF GatherPeers, Apply, ApplyFails, Goes, fwData
  <2>2. stage[a] # "gather" /\ ~fwView[a].missing
    BY <1>5 DEF GatherPeers, Apply, ApplyFails, FwCounted
  <2>3. ~fwView'[a].missing
    BY <1>0, <1>5, <2>2 DEF GatherPeers, Apply, ApplyFails, Views, NoRules
  <2>4. \A b \in Actor : fwView'[b].missing => fwView[b].missing /\ stage'[b] = stage[b]
    BY <2>1, <2>3
  <2> QED BY <1>0, <2>1, <2>4, FwCountKept
<1> QED BY <1>1, <1>2, <1>3, <1>4, <1>5, FwCountLook, FwCountGather DEF FwNext

-----------------------------------------------------------------------------
\* An operation that begins.
LEMMA FwBegun ==
  ASSUME FwTyped, FwAlone, NEW a \in Actor, Begins(a), \A b \in Actor \ {a} : stage'[b] = stage[b],
         stage'[a] \notin {"peers", "apply"}, up' # "down", up' = "up" \/ a # "loop"
  PROVE  FwAlone'
<1>1. a # FwNobody /\ solo' \in {a, FwNobody} /\ (solo' = a => Quiet) /\ exact' = FALSE
  BY ActorFacts DEF Begins
<1>2. solo' \in Actor => \A b \in Actor \ {solo'} : stage'[b] = "idle"
  BY <1>1, ActorFacts DEF Quiet
<1>3. \A b \in Actor : solo' = b => stage'[b] \notin {"peers", "apply"}
  BY <1>1, ActorFacts
<1>4. ~(up' # "up" /\ solo' = "loop")
  BY <1>1 DEF FwNobody
<1> QED BY <1>1, <1>2, <1>3, <1>4 DEF FwAlone

\* A step of an operation under way.
LEMMA FwStepped ==
  ASSUME FwTyped, FwAlone, NEW a \in Actor, stage[a] # "idle", solo' = solo, up' = up,
         \A b \in Actor \ {a} : stage'[b] = stage[b],
         solo = a => /\ stage'[a] \in {"peers", "apply"} => fwView'[a].rules = Rules(exposed')
                     /\ stage'[a] = "apply" => fwView'[a].peers = peers',
         exact' => solo = a /\ stage'[a] = "idle" /\ installed'.rules = Rules(exposed') /\ installed'.peers = peers'
  PROVE  FwAlone'
<1>1. ~Quiet /\ up # "down" /\ ~(up # "up" /\ solo = "loop")
  BY DEF Quiet, FwAlone
<1>2. solo \in Actor \cup {FwNobody} /\ (solo \in Actor => solo = a)
  BY DEF FwAlone
<1>3. solo' \in Actor => \A b \in Actor \ {solo'} : stage'[b] = "idle"
  BY <1>2 DEF FwAlone
<1>4. exact' => \A b \in Actor : stage'[b] = "idle"
  BY <1>2, <1>3
<1>5. exact' => Quiet'
  BY <1>4 DEF Quiet
<1> QED BY <1>1, <1>2, <1>3, <1>5 DEF FwAlone

LEMMA FwAloneNext ==
  ASSUME FwTyped, FwAlone, [FwNext]_fwVars PROVE FwAlone'
<1>0. fwView \in [Actor -> Views] /\ stage \in [Actor -> Stages] /\ Ctl \subseteq Actor
      /\ "loop" \in Actor /\ "loop" \notin Ctl
  BY ActorFacts DEF FwTyped
<1>1. ASSUME NEW c \in Ctl, FwRequest(c) PROVE FwAlone'
  <2>1. PICK o : Requested(c, o) /\ Goes(c, "change")
    BY <1>1, FwRequestTyped
  <2>2. Begins(c) /\ up' = up /\ up # "down" /\ stage' = [stage EXCEPT ![c] = "change"]
    BY <2>1 DEF Requested, Goes
  <2>3. stage'[c] = "change" /\ \A b \in Actor \ {c} : stage'[b] = stage[b]
    BY <1>0, <2>2
  <2> QED BY <1>0, <2>2, <2>3, FwBegun
<1>2. ASSUME NEW c \in Ctl, Change(c) \/ Save(c) \/ Write(c) \/ WriteFails(c) PROVE FwAlone'
  <2>1. stage[c] # "idle" /\ solo' = solo /\ up' = up /\ exact' = exact
        /\ \A b \in Actor \ {c} : stage'[b] = stage[b]
    BY <1>0, <1>2 DEF Change, Save, Write, WriteFails, Goes
  <2>2. stage'[c] \in {"save", "write", "exempt", "idle"}
    BY <1>0, <1>2 DEF Change, Save, Write, WriteFails, Goes
  <2>3. ~exact
    BY <1>0, <2>1 DEF FwAlone, Quiet
  <2> QED BY <1>0, <2>1, <2>2, <2>3, FwStepped
<1>3. ASSUME NEW p \in Feed, UpdatePeers(p) PROVE FwAlone'
  <2>1. CASE Differs(p)
    <3>1. Begins("loop") /\ up' = "up" /\ stage' = [stage EXCEPT !["loop"] = "exempt"]
      BY <1>3, <2>1 DEF UpdatePeers, Goes
    <3>2. stage'["loop"] = "exempt" /\ \A b \in Actor \ {"loop"} : stage'[b] = stage[b]
      BY <1>0, <3>1
    <3> QED BY <1>0, <3>1, <3>2, FwBegun
  <2>2. CASE ~Differs(p)
    <3>1. UNCHANGED <<peers, solo, exact, stage, exposed, installed, exempt, fwView, up>>
      BY <1>3, <2>2 DEF UpdatePeers
    <3> QED BY <3>1 DEF FwAlone, Quiet, StopLeavesNothing, Rules, WebScopes
  <2> QED BY <2>1, <2>2
<1>4. CASE SetMeshAddr \/ Boot
  <2>1. Begins("loop") /\ up' = "up" /\ stage' = [stage EXCEPT !["loop"] = "exempt"]
    BY <1>4 DEF SetMeshAddr, Boot, Goes
  <2>2. stage'["loop"] = "exempt" /\ \A b \in Actor \ {"loop"} : stage'[b] = stage[b]
    BY <1>0, <2>1
  <2> QED BY <1>0, <2>1, <2>2, FwBegun
<1>5. ASSUME NEW a \in Actor, LookForExemption(a) \/ ApplyFails(a) PROVE FwAlone'
  <2>1. stage[a] # "idle" /\ solo' = solo /\ up' = up /\ exact' = exact
        /\ \A b \in Actor \ {a} : stage'[b] = stage[b]
    BY <1>0, <1>5 DEF LookForExemption, ApplyFails, Goes, fwData
  <2>2. stage'[a] \in {"gather", "idle"}
    BY <1>0, <1>5 DEF LookForExemption, ApplyFails, Goes
  <2>3. ~exact
    BY <1>0, <2>1 DEF FwAlone, Quiet
  <2> QED BY <2>1, <2>2, <2>3, FwStepped
<1>6. ASSUME NEW a \in Actor, Gather(a) PROVE FwAlone'
  <2>1. stage[a] # "idle" /\ solo' = solo /\ up' = up /\ exact' = exact /\ exposed' = exposed
        /\ stage'[a] = "peers" /\ \A b \in Actor \ {a} : stage'[b] = stage[b]
    BY <1>0, <1>6 DEF Gather, Goes
  <2>2. fwView'[a].rules = Rules(exposed')
    BY <1>0, <1>6, <2>1 DEF Gather, Views
  <2>3. ~exact
    BY <1>0, <2>1 DEF FwAlone, Quiet
  <2> QED BY <2>1, <2>2, <2>3, FwStepped
<1>7. ASSUME NEW a \in Actor, GatherPeers(a) PROVE FwAlone'
  <2>1. stage[a] = "peers" /\ solo' = solo /\ up' = up /\ exact' = exact /\ exposed' = exposed /\ peers' = peers
        /\ stage'[a] = "apply" /\ \A b \in Actor \ {a} : stage'[b] = stage[b]
    BY <1>0, <1>7 DEF GatherPeers, Goes, fwData
  <2>2. fwView'[a].rules = fwView[a].rules /\ fwView'[a].peers = peers
    BY <1>0, <1>7 DEF GatherPeers, Views
  <2>3. ~exact /\ (solo = a => fwView[a].rules = Rules(exposed))
    BY <1>0, <2>1 DEF FwAlone, Quiet
  <2> QED BY <2>1, <2>2, <2>3, FwStepped
<1>8. ASSUME NEW a \in Actor, Apply(a) PROVE FwAlone'
  <2>1. stage[a] = "apply" /\ solo' = solo /\ up' = up /\ exposed' = exposed /\ peers' = peers
        /\ exact' = (solo = a) /\ installed' = fwView[a]
        /\ stage'[a] = "idle" /\ \A b \in Actor \ {a} : stage'[b] = stage[b]
    BY <1>0, <1>8 DEF Apply, Goes
  <2>2. solo = a => fwView[a].rules = Rules(exposed) /\ fwView[a].peers = peers
    BY <2>1 DEF FwAlone
  <2> QED BY <2>1, <2>2, FwStepped
<1>9. CASE ForeignRestart \/ UNCHANGED fwVars
  <2>1. UNCHANGED <<peers, solo, exact, stage, exposed, installed, fwView, up>> /\ exempt' \in {0, exempt}
    BY <1>9 DEF ForeignRestart, fwVars
  <2> QED BY <2>1 DEF FwAlone, Quiet, StopLeavesNothing, Rules, WebScopes
<1>10. CASE Reset
  <2>1. UNCHANGED <<stage, exposed, peers, fwView>> /\ exempt' = 0 /\ installed' = NoRules /\ ~exact'
        /\ up' = "stopping" /\ solo' \in {"loop", FwNobody} /\ (solo' = "loop" => Quiet)
    BY <1>10 DEF Reset, Removed, FwNobody
  <2>2. solo' = "loop" => \A b \in Actor : stage'[b] = "idle"
    BY <2>1 DEF Quiet
  <2>3. StopLeavesNothing'
    BY <2>1 DEF StopLeavesNothing
  <2>4. solo' = "loop" => Quiet'
    BY <2>2 DEF Quiet
  <2>5. \A b \in Actor : solo' = b => stage'[b] = "idle"
    BY <2>1, <2>2, ActorFacts
  <2> QED BY <1>0, <2>1, <2>2, <2>3, <2>4, <2>5, ActorFacts DEF FwAlone
<1>11. CASE Ends
  <2>1. /\ \A b \in Actor : stage'[b] = "idle"
        /\ ~exact' /\ up' = "down" /\ installed' = installed /\ exempt' = exempt
        /\ (solo' = FwNobody \/ (up # "up" /\ solo' = solo))
    BY <1>11 DEF Ends
  <2>2. Quiet'
    BY <2>1 DEF Quiet
  <2>3. solo' = "loop" => StopLeavesNothing'
    <3> SUFFICES ASSUME solo' = "loop" PROVE StopLeavesNothing'
      OBVIOUS
    <3>1. up # "up" /\ solo = "loop"
      BY <2>1 DEF FwNobody
    <3>2. StopLeavesNothing
      BY <3>1 DEF FwAlone
    <3> QED BY <2>1, <3>1, <3>2 DEF StopLeavesNothing
  <2>4. solo' \in Actor \cup {FwNobody}
    BY <2>1 DEF FwAlone
  <2> QED BY <2>1, <2>2, <2>3, <2>4 DEF FwAlone
<1> QED BY <1>1, <1>2, <1>3, <1>4, <1>5, <1>6, <1>7, <1>8, <1>9, <1>10, <1>11 DEF FwNext

-----------------------------------------------------------------------------
LEMMA EveryoneIsAll == \A p : Sources("all", p) = Ip
<1>1. "all" \notin Group
  BY FwConstants DEF Group
<1> QED BY <1>1 DEF Sources

\* Belonging to a scope is being one of its sources.
LEMMA SourcesAreMembers ==
  ASSUME FwTyped, NEW ip \in Ip, NEW sc \in Scope
  PROVE  Belongs(ip, sc) <=> ip \in Sources(sc, peers)
<1>1. peers \in [Group -> SUBSET Ip] /\ fwMesh = peers
  BY DEF FwTyped
<1>2. "named" \notin Group /\ "all" \notin Group
  BY FwConstants DEF Group
<1>3. CASE sc = "all"
  BY <1>3, EveryoneIsAll DEF Belongs
<1>4. CASE sc \in Group
  BY <1>1, <1>2, <1>4 DEF Belongs, Sources
<1>5. CASE sc = "named"
  <2>1. Sources(sc, peers) = IF Cardinality(Matching(peers)) = 1
                             THEN UNION {peers[n] : n \in Matching(peers)} ELSE {}
    BY <1>2, <1>5 DEF Sources
  <2>2. IsFiniteSet(Matching(peers))
    BY FwConstants, FS_Subset DEF Matching
  <2>3. Cardinality(Matching(peers)) = 1 <=> \E n : Matching(peers) = {n}
    BY <2>2, FS_Singleton
  <2>4. Belongs(ip, sc) <=> \E n \in FwNet : ip \in peers[n] /\ \A m \in FwNet \ {n} : peers[m] = {}
    BY <1>1, <1>2, <1>5 DEF Belongs
  <2>5. ASSUME NEW n \in FwNet, ip \in peers[n], \A m \in FwNet \ {n} : peers[m] = {}
        PROVE  ip \in Sources(sc, peers)
    <3>1. Matching(peers) = {n}
      BY <2>5 DEF Matching
    <3>2. Cardinality(Matching(peers)) = 1
      BY <2>3, <3>1
    <3> QED BY <2>1, <2>5, <3>1, <3>2
  <2>6. ASSUME ip \in Sources(sc, peers)
        PROVE  \E n \in FwNet : ip \in peers[n] /\ \A m \in FwNet \ {n} : peers[m] = {}
    <3>1. Cardinality(Matching(peers)) = 1 /\ ip \in UNION {peers[n] : n \in Matching(peers)}
      BY <2>1, <2>6
    <3>2. PICK n : Matching(peers) = {n}
      BY <2>3, <3>1
    <3> QED BY <3>1, <3>2 DEF Matching
  <2> QED BY <2>4, <2>5, <2>6
<1> QED BY <1>3, <1>4, <1>5 DEF Scope

LEMMA FwHolds == FwIInv => FirewallSafe
<1> SUFFICES ASSUME FwIInv PROVE FirewallSafe
  OBVIOUS
<1>1. FwTyped /\ exposed \in Exposures /\ DOMAIN exposed \subseteq Slot
      /\ \A s \in DOMAIN exposed : s[2] \in Scope /\ s[1] \in Port
  <2>1. FwTyped /\ exposed \in Exposures /\ DOMAIN exposed \subseteq Slot
    BY ExposedShape DEF FwIInv, FwTyped
  <2> QED BY <2>1 DEF Slot
<1>2. FwTypeOK
  <2>1. exempt \in 0 .. Cardinality(Actor)
    <3> DEFINE O == Owing
    <3>1. IsFiniteSet(O)
      BY ActorFacts, FS_Subset DEF Owing
    <3>2. Cardinality(O) \in Nat /\ Cardinality(Actor) \in Nat
      BY <3>1, ActorFacts, FS_CardinalityType
    <3>3. exempt \in Nat /\ exempt + Cardinality(O) <= Cardinality(Actor)
      BY DEF FwIInv, FwCounted
    <3> HIDE DEF O
    <3> QED BY <3>2, <3>3
  <2> QED BY <2>1 DEF FwIInv, FwTyped, FwTypeOK, Views
<1>3. StopLeavesNothing
  BY DEF FwIInv, FwAlone, StopLeavesNothing
<1>4. ASSUME exact PROVE installed.rules = Rules(exposed) /\ installed.peers = peers
  BY <1>4 DEF FwIInv, FwAlone
<1>5. ASSUME exact, NEW ip \in Ip, NEW port \in Port \cup {Https}
      PROVE  LET due == \E s \in DOMAIN exposed :
                          /\ Belongs(ip, s[2])
                          /\ port = s[1] \/ (port = Https /\ exposed[s] \in WebName)
             IN  /\ Reaches(installed, ip, port) <=> due
                 /\ ReachesOnWindows(installed, ip, port) <=> due
  <2> DEFINE due == \E s \in DOMAIN exposed :
                          /\ ip \in Sources(s[2], peers)
                          /\ port = s[1] \/ (port = Https /\ exposed[s] \in WebName)
  <2>1. (\E s \in DOMAIN exposed : /\ Belongs(ip, s[2])
                                   /\ port = s[1] \/ (port = Https /\ exposed[s] \in WebName)) <=> due
    BY <1>1, SourcesAreMembers
  <2>2. \A s \in Rules(exposed) : ip \in Sources(s[2], peers) <=>
           s[2] = "all" \/ (Sources(s[2], peers) # {} /\ ip \in Sources(s[2], peers))
    BY EveryoneIsAll
  <2>3. (\E s \in Rules(exposed) : s[1] = port /\ ip \in Sources(s[2], peers)) <=> due
    <3>1. ASSUME NEW s \in Rules(exposed), s[1] = port, ip \in Sources(s[2], peers) PROVE due
      <4>1. CASE s \in DOMAIN exposed
        BY <3>1, <4>1
      <4>2. CASE s \in {Https} \X WebScopes(exposed)
        <5>1. PICK t \in DOMAIN exposed : exposed[t] \in WebName /\ t[2] = s[2]
          BY <4>2 DEF WebScopes
        <5> QED BY <3>1, <4>2, <5>1
      <4> QED BY <4>1, <4>2 DEF Rules
    <3>2. ASSUME NEW s \in DOMAIN exposed, ip \in Sources(s[2], peers),
                 port = s[1] \/ (port = Https /\ exposed[s] \in WebName)
          PROVE  \E t \in Rules(exposed) : t[1] = port /\ ip \in Sources(t[2], peers)
      <4>1. CASE port = s[1]
        BY <3>2, <4>1 DEF Rules
      <4>2. CASE port = Https /\ exposed[s] \in WebName
        <5>1. <<Https, s[2]>> \in Rules(exposed)
          BY <4>2 DEF Rules, WebScopes
        <5> QED BY <3>2, <4>2, <5>1
      <4> QED BY <3>2, <4>1, <4>2
    <3> QED BY <3>1, <3>2
  <2> HIDE DEF due
  <2>4. Reaches(installed, ip, port) <=> due
    BY <1>4, <1>5, <2>3 DEF Reaches
  <2>5. ReachesOnWindows(installed, ip, port) <=> due
    BY <1>4, <1>5, <2>2, <2>3 DEF ReachesOnWindows
  <2> QED BY <2>1, <2>4, <2>5
<1>6. FilterIsExact
  BY <1>5 DEF FilterIsExact
<1>7. ASSUME exact, NEW ip \in Ip, NEW n \in Name
      PROVE  /\ n \in VisibleTo(ip) =>
                  \E s \in DOMAIN exposed : exposed[s] = n /\ Reaches(installed, ip, s[1])
             /\ (n \in WebName /\ ip \in Allowed(n)) =>
                  /\ Reaches(installed, ip, Https)
                  /\ \E s \in DOMAIN exposed : exposed[s] = n /\ Belongs(ip, s[2])
  <2>1. ASSUME n \in VisibleTo(ip)
        PROVE  \E s \in DOMAIN exposed : exposed[s] = n /\ Reaches(installed, ip, s[1])
    <3>1. PICK s \in DOMAIN exposed : ip \in Sources(s[2], peers) /\ exposed[s] = n
      BY <2>1 DEF VisibleTo
    <3>2. s \in installed.rules
      BY <1>4, <1>7 DEF Rules
    <3> QED BY <1>4, <1>7, <3>1, <3>2 DEF Reaches
  <2>2. ASSUME n \in WebName, ip \in Allowed(n)
        PROVE  /\ Reaches(installed, ip, Https)
               /\ \E s \in DOMAIN exposed : exposed[s] = n /\ Belongs(ip, s[2])
    <3>1. PICK s \in DOMAIN exposed : ip \in Sources(s[2], peers) /\ exposed[s] = n
      BY <2>2 DEF Allowed
    <3>2. <<Https, s[2]>> \in installed.rules
      BY <1>4, <1>7, <2>2, <3>1 DEF Rules, WebScopes
    <3>3. Reaches(installed, ip, Https)
      BY <1>4, <1>7, <3>1, <3>2 DEF Reaches
    <3> QED BY <1>1, <3>1, <3>3, SourcesAreMembers
  <2> QED BY <2>1, <2>2
<1>8. TellsWhoReaches
  BY <1>7 DEF TellsWhoReaches
<1> QED BY <1>2, <1>3, <1>6, <1>8 DEF FirewallSafe

\* fw/mod.rs (reconcile, reset), for any control connections, networks, peers and services:
\* what an operation that ran alone leaves in the kernel admits exactly whom the owner
\* exposed to, whatever failed before it, and a stop that ran alone leaves nothing.
THEOREM FirewallIsExact == FwSpec => []FirewallSafe
<1>1. FwInit => FwIInv
  BY FwTypedStart DEF FwIInv
<1>2. FwIInv /\ [FwNext]_fwVars => FwIInv'
  <2> SUFFICES ASSUME FwIInv, [FwNext]_fwVars PROVE FwIInv'
    OBVIOUS
  <2>1. FwTyped /\ FwCounted /\ FwAlone
    BY DEF FwIInv
  <2>2. FwTyped'
    BY <2>1, FwRequestTyped, FwChangeTyped, FwReconcileTyped, FwRestTyped DEF FwNext
  <2> QED BY <2>1, <2>2, FwCountNext, FwAloneNext DEF FwIInv
<1> QED BY <1>1, <1>2, FwHolds, PTL DEF FwSpec
=============================================================================
