------------------------------- MODULE Labels -------------------------------
(***************************************************************************)
(* The allocation of a user's DNS label (Store::user_label in              *)
(* coordinator/src/store.rs).  Every snapshot build asks for one; builds   *)
(* of one user and of different users run at once, and each statement is   *)
(* a step.  A label is the sanitised Discord name with a suffix, or the    *)
(* fallback made of the user id.                                           *)
(***************************************************************************)
EXTENDS Naturals

CONSTANTS LabelReq,   \* builds that ask
          Asker,      \* the user of each
          SeedName,   \* the sanitised Discord name its user goes by at the time
          MaxSuffix   \* MAX_LABEL_SUFFIX

LabelUser == {Asker[r] : r \in LabelReq}

ASSUME AskerType == Asker \in [LabelReq -> LabelUser] /\ MaxSuffix \in Nat

VARIABLES labels,   \* table user_labels: PRIMARY KEY (user_id), UNIQUE (label)
          asks,     \* where each build is: the lookup, the n-th insert, or done
          replies   \* the label each build was given

labelVars == <<labels, asks, replies>>

NoLabel == <<"none", 0>>
Candidate(r, n) == <<SeedName[r], n>>
Fallback(u) == <<"user", u>>

LabelInit ==
  /\ labels = [u \in LabelUser |-> NoLabel]
  /\ asks = [r \in LabelReq |-> <<"lookup", 0>>]
  /\ replies = [r \in LabelReq |-> NoLabel]

NextTry(n) == <<IF n < MaxSuffix THEN "insert" ELSE "fallback", n + 1>>

\* The label is there (on first sight, or because a concurrent build allocated it), or the
\* search goes on with the next suffix.
Lookup(r) ==
  /\ asks[r][1] = "lookup"
  /\ LET u == Asker[r]
         n == asks[r][2]
     IN IF labels[u] # NoLabel
          THEN /\ replies' = [replies EXCEPT ![r] = labels[u]]
               /\ asks' = [asks EXCEPT ![r] = <<"done", n>>]
          ELSE /\ asks' = [asks EXCEPT ![r] = NextTry(n)]
               /\ UNCHANGED replies
  /\ UNCHANGED labels

\* Mutant of Taken: a user's row is overwritten.
TakenByOther(u, l) == \E v \in LabelUser \ {u} : labels[v] = l

\* The table's constraints refuse the row.
Taken(u, l) == labels[u] # NoLabel \/ \E v \in LabelUser : labels[v] = l

Stored(r, l) ==
  /\ labels' = [labels EXCEPT ![Asker[r]] = l]
  /\ replies' = [replies EXCEPT ![r] = l]
  /\ asks' = [asks EXCEPT ![r] = <<"done", @[2]>>]

\* A refused insert looks the user up before the next suffix is tried.
Insert(r) ==
  /\ asks[r][1] = "insert"
  /\ LET l == Candidate(r, asks[r][2]) IN
     IF Taken(Asker[r], l)
       THEN asks' = [asks EXCEPT ![r] = <<"lookup", @[2]>>] /\ UNCHANGED <<labels, replies>>
       ELSE Stored(r, l)

\* Every suffix was taken; a refusal here fails the request.
InsertFallback(r) ==
  /\ asks[r][1] = "fallback"
  /\ LET l == Fallback(Asker[r]) IN
     IF Taken(Asker[r], l)
       THEN asks' = [asks EXCEPT ![r] = <<"failed", @[2]>>] /\ UNCHANGED <<labels, replies>>
       ELSE Stored(r, l)

\* The build is over, or its request was dropped; another one asks.
AskAgain(r) ==
  /\ asks[r] # <<"lookup", 0>>
  /\ asks' = [asks EXCEPT ![r] = <<"lookup", 0>>]
  /\ replies' = [replies EXCEPT ![r] = NoLabel]
  /\ UNCHANGED labels

LabelNext ==
  \E r \in LabelReq : Lookup(r) \/ Insert(r) \/ InsertFallback(r) \/ AskAgain(r)

LabelSpec == LabelInit /\ [][LabelNext]_labelVars

-----------------------------------------------------------------------------
\* Every label in the table is one its user could have been given.
LabelTypeOK ==
  /\ \A u \in LabelUser :
       labels[u] \in {NoLabel, Fallback(u)} \cup {Candidate(r, n) : r \in LabelReq, n \in 1 .. MaxSuffix}
  /\ \A r \in LabelReq : asks[r][2] \in 0 .. MaxSuffix + 1

\* store.rs:715: two users whose names sanitise to one label never share it, however their
\* first registers interleave.
LabelsUnique == \A u, v \in LabelUser : labels[u] = labels[v] /\ labels[u] # NoLabel => u = v

\* store.rs:723: a label is allocated once and kept; builds of one user that race for the
\* first allocation, and every later one, are given the same label.
LabelsAgree == \A r \in LabelReq : replies[r] \in {NoLabel, labels[Asker[r]]}

\* What the label table promises: one user to a label, and one label to a user, for good.
LabelsSafe == LabelTypeOK /\ LabelsUnique /\ LabelsAgree
=============================================================================
