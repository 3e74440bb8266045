------------------------------- MODULE Certs -------------------------------
(***************************************************************************)
(* One device's public certificate: when it is ordered, what it names and  *)
(* what is on disk (src/crates/engine/src/cert.rs, and                     *)
(* daemon.rs::spawn_cert_reconcile).                                       *)
(*                                                                         *)
(* Every refresh of the mesh loop may start a reconcile, a task of its own *)
(* that reads the owner's switches, registers the web services with the    *)
(* coordinator, decides, orders, writes the two halves and records what it *)
(* did.  A flag keeps a second one out.  The process may die between any   *)
(* two of these steps: the flag and the task go, the files stay.           *)
(*                                                                         *)
(* A certificate names the device (always) and a set of services; only the *)
(* set is kept.  One unit of time is SETTLE, ten minutes.  Ages saturate   *)
(* at the largest value the policy tells apart.  The account, the ACME     *)
(* messages, the key's group and the reload hook are left out, and so is a *)
(* disk that refuses a write.                                              *)
(***************************************************************************)
EXTENDS Integers, FiniteSets

CONSTANTS
  MaxTask,      \* reconciles that may be alive at once
  Svc,          \* labels of web services
  Ours,         \* the ones the coordinator confirms
  Life,         \* units a new certificate is valid
  RenewBefore,  \* RENEW_BEFORE
  MaxBack,      \* the ceiling of the backoff
  MaxChange, MaxCrash, MaxOutage, MaxRefusal  \* bounds

ASSUME CertTimes == Life \in Nat /\ MaxBack \in Nat \ {0}

VARIABLES
  switches,  \* the owner's settings: enabled, exposed, web
  reachable, \* the coordinator answers
  certState,     \* issued.json
  pem,       \* cert.pem: what it names and how long it has left
  keyed,     \* key.pem is the other half of cert.pem
  job,       \* task -> what it has read, and the step it takes next
  quiet,     \* units since an order's end was last recorded
  row,       \* orders that failed since the last that succeeded
  budget     \* what the bounds leave

certVars == <<switches, reachable, certState, pem, keyed, job, quiet, row, budget>>

Task == 1..MaxTask
Never == -1
CertSettle == 1
Horizon == IF MaxBack > CertSettle THEN MaxBack ELSE CertSettle
Least(a, b) == IF a < b THEN a ELSE b
NoPem == [names |-> {}, left |-> 0]
NoJob == [at |-> "none", enabled |-> FALSE, exposed |-> FALSE, web |-> {}, names |-> {}]
\* IssuedState::default.  `names` is {} or {the names it was issued for}.
NoState == [names |-> {}, left |-> 0, fails |-> 0, ago |-> 0, pending |-> Never]

\* IssuedState::backoff: the first wait is ten minutes, and it doubles.
Backoff(fails) == IF fails = 0 THEN 0 ELSE Least(2 ^ (fails - 1), MaxBack)
MaxFails == MaxBack + 1
\* the shortest backoff is one unit
ASSUME BackoffStarts == \A n \in 0 .. MaxBack : 2 ^ n \in Nat \ {0}

------------------------------------------------------------------------------
\* running.swap: one reconcile at a time.
Free == \A t \in Task : job[t].at = "none"

\* spawn_cert_reconcile: the switches are read when the task is started.
Spawn(t) ==
  /\ Free /\ job[t].at = "none" /\ \A u \in 1..t-1 : job[u].at # "none"
  /\ job' = [job EXCEPT ![t] =
       [at |-> "register", enabled |-> switches.enabled, exposed |-> switches.exposed,
        web |-> switches.web, names |-> {}]]
  /\ UNCHANGED <<switches, reachable, certState, pem, keyed, quiet, row, budget>>

\* register_services: the coordinator confirms what is ours; unreachable, it
\* confirms nothing.
Confirmed(web) == IF reachable THEN web \cap Ours ELSE {}
RegisterNames(t) ==
  /\ job[t].at = "register"
  /\ job' = [job EXCEPT ![t].at = "decide", ![t].names = Confirmed(job[t].web)]
  /\ UNCHANGED <<switches, reachable, certState, pem, keyed, quiet, row, budget>>

\* note_pending: stamp when the wanted names stopped matching, or clear it.
Stamped(s, names) ==
  [s EXCEPT !.pending =
     IF s.names \in {{}, {names}} THEN Never ELSE IF @ = Never THEN 0 ELSE @]

RenewDue(s) == s.left < RenewBefore
HeldFor(s, names) == s.names = {names} /\ s.left > 0
Waiting(s, names) ==
  /\ ~HeldFor(s, names) /\ s.left > 0 /\ ~RenewDue(s)
  /\ s.pending < CertSettle
\* decide: the gates in front of an order.
Issues(s, j) ==
  /\ j.enabled /\ j.exposed
  /\ ~(HeldFor(s, j.names) /\ ~RenewDue(s))
  /\ ~Waiting(s, j.names)
  /\ s.fails = 0 \/ s.ago >= Backoff(s.fails)

\* reconcile, up to the order: load, stamp and save, decide.
Decide(t) ==
  LET s == Stamped(certState, job[t].names)
  IN  /\ job[t].at = "decide"
      /\ certState' = s
      /\ job' = [job EXCEPT ![t] = IF Issues(s, @) THEN [@ EXCEPT !.at = "order"] ELSE NoJob]
      /\ UNCHANGED <<switches, reachable, pem, keyed, quiet, row, budget>>

\* issue: the challenges are published through the coordinator, unless the CA
\* still holds every authorization valid and asks for none.
OrderReady(t) ==
  /\ job[t].at = "order"
  /\ job' = [job EXCEPT ![t].at = "cert"]
  /\ UNCHANGED <<switches, reachable, certState, pem, keyed, quiet, row, budget>>

\* Not part of the code: a failure is counted in memory only.
FailedForgotten(s) == s
\* The failure arm of reconcile.
Failed(s) == [s EXCEPT !.fails = Least(@ + 1, MaxFails), !.ago = 0]
OrderFails(t) ==
  /\ job[t].at = "order"
  /\ ~reachable \/ budget.refusal > 0
  /\ budget' = IF reachable THEN [budget EXCEPT !.refusal = @ - 1] ELSE budget
  /\ certState' = Failed(certState)
  /\ job' = [job EXCEPT ![t] = NoJob]
  /\ quiet' = 0 /\ row' = Least(row + 1, MaxFails)
  /\ UNCHANGED <<switches, reachable, pem, keyed>>

\* finalize: the certificate, then its key.
WriteCert(t) ==
  /\ job[t].at = "cert"
  /\ pem' = [names |-> job[t].names, left |-> Life]
  /\ keyed' = FALSE
  /\ job' = [job EXCEPT ![t].at = "key"]
  /\ UNCHANGED <<switches, reachable, certState, quiet, row, budget>>
WriteKey(t) ==
  /\ job[t].at = "key"
  /\ keyed' = TRUE
  /\ job' = [job EXCEPT ![t].at = "record"]
  /\ UNCHANGED <<switches, reachable, certState, pem, quiet, row, budget>>

\* The success arm of reconcile: a new IssuedState.
Issued(names) ==
  [names |-> {names}, left |-> pem.left, fails |-> 0, ago |-> 0, pending |-> Never]
Record(t) ==
  /\ job[t].at = "record"
  /\ certState' = Issued(job[t].names)
  /\ job' = [job EXCEPT ![t] = NoJob]
  /\ quiet' = 0 /\ row' = 0
  /\ UNCHANGED <<switches, reachable, pem, keyed, budget>>

------------------------------------------------------------------------------
\* The owner's switches, the process, the coordinator and the clock.
Change ==
  /\ budget.change > 0 /\ budget' = [budget EXCEPT !.change = @ - 1]
  /\ \/ \E e, x \in BOOLEAN : switches' = [switches EXCEPT !.enabled = e, !.exposed = x]
     \/ \E w \in SUBSET Svc : switches' = [switches EXCEPT !.web = w]
  /\ switches' # switches
  /\ UNCHANGED <<reachable, certState, pem, keyed, job, quiet, row>>

Crash ==
  /\ budget.crash > 0 /\ budget' = [budget EXCEPT !.crash = @ - 1]
  /\ job' = [t \in Task |-> NoJob]
  /\ UNCHANGED <<switches, reachable, certState, pem, keyed, quiet, row>>

Outage ==
  /\ reachable /\ budget.outage > 0
  /\ reachable' = FALSE /\ budget' = [budget EXCEPT !.outage = @ - 1]
  /\ UNCHANGED <<switches, certState, pem, keyed, job, quiet, row>>
Return ==
  /\ ~reachable /\ reachable' = TRUE
  /\ UNCHANGED <<switches, certState, pem, keyed, job, quiet, row, budget>>

Shorter(n) == IF n > 0 THEN n - 1 ELSE 0
Longer(n) == Least(n + 1, Horizon)
CertTick ==
  /\ certState' = [certState EXCEPT !.left = Shorter(@),
                            !.ago = IF certState.fails = 0 THEN 0 ELSE Longer(@),
                            !.pending = IF @ = Never THEN Never ELSE Least(@ + 1, CertSettle)]
  /\ pem' = [pem EXCEPT !.left = Shorter(@)]
  /\ quiet' = Longer(quiet)
  /\ UNCHANGED <<switches, reachable, keyed, job, row, budget>>

CertStep(t) ==
  \/ RegisterNames(t) \/ Decide(t) \/ OrderReady(t) \/ OrderFails(t)
  \/ WriteCert(t) \/ WriteKey(t) \/ Record(t)

CertInit ==
  /\ switches = [enabled |-> TRUE, exposed |-> TRUE, web |-> {}]
  /\ reachable = TRUE /\ certState = NoState /\ pem = NoPem /\ keyed = FALSE
  /\ job = [t \in Task |-> NoJob]
  /\ quiet = Horizon /\ row = 0
  /\ budget = [change |-> MaxChange, crash |-> MaxCrash, outage |-> MaxOutage,
               refusal |-> MaxRefusal]

CertNext ==
  \/ \E t \in Task : Spawn(t) \/ CertStep(t)
  \/ Change \/ Crash \/ Outage \/ Return \/ CertTick

\* The loop refreshes for ever, a task runs to its end, an outage ends, time
\* passes.
CertFairness ==
  /\ WF_certVars(\E t \in Task : Spawn(t))
  /\ \A t \in Task : WF_certVars(CertStep(t))
  /\ WF_certVars(Return) /\ WF_certVars(CertTick)

CertSpec == CertInit /\ [][CertNext]_certVars /\ CertFairness

------------------------------------------------------------------------------
\* The variables have their types, and a mismatch is stamped only against a
\* certificate that was issued (IssuedState::pending_since).
CertTypeOK ==
  /\ switches \in [enabled : BOOLEAN, exposed : BOOLEAN, web : SUBSET Svc]
  /\ reachable \in BOOLEAN /\ keyed \in BOOLEAN
  /\ certState \in [names : {{}} \cup {{n} : n \in SUBSET Ours}, left : 0..Life,
                fails : 0..MaxFails, ago : 0..Horizon, pending : Never..CertSettle]
  /\ certState.names = {} => certState.pending = Never
  /\ pem \in [names : SUBSET Ours, left : 0..Life]
  /\ \A t \in Task : job[t].at \in {"none", "register", "decide", "order", "cert", "key", "record"}

Ordering == {t \in Task : job[t].at \in {"order", "cert", "key", "record"}}

\* "back-to-back refreshes cannot start two ACME orders for the same
\* certificate": no two orders are under way at once (CertCtx.running).
OneOrder == Cardinality(Ordering) <= 1

\* An order begins no sooner than the backoff after a run of failures, and,
\* with a live certificate that is not due, no sooner than SETTLE after the
\* last order whose end was recorded: across restarts, and whatever the owner
\* changes in between (IssuedState, decide).
OrdersAreSpaced ==
  [][\A t \in Task : (job[t].at = "decide" /\ job'[t].at = "order") =>
       /\ quiet >= Backoff(row)
       /\ (certState.left > 0 /\ ~RenewDue(certState)) => quiet >= CertSettle]_certVars

\* What the issuing of certificates never does, at any step.
CertsSafe == [](CertTypeOK /\ OneOrder) /\ OrdersAreSpaced

\* Once the owner, the coordinator and the CA are quiet, a device that opted in
\* and exposes a port ends up recorded with exactly the services it serves.
Covered == switches.enabled /\ switches.exposed => certState.names = {switches.web \cap Ours}
CertFollows == <>[]Covered
=============================================================================
