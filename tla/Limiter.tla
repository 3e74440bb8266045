------------------------------- MODULE Limiter -------------------------------
(***************************************************************************)
(* The windowed request counter (coordinator/src/limiter.rs) in front of   *)
(* the HTTP API, the STUN responder and the DNS zone, and the address a    *)
(* request is charged to when a trusted proxy stands before the API        *)
(* (client_ip in api/ratelimit.rs).                                        *)
(***************************************************************************)
EXTENDS Integers, Sequences, FiniteSets

CONSTANTS Source,      \* addresses that are not proxies
          Proxy,       \* the trusted proxies
          LimWindow,   \* Caps::window
          MaxPerIp,    \* Caps::max_per_ip
          MaxTotal,    \* Caps::max_total
          MaxTracked,  \* Caps::max_tracked_ips
          MaxInstant   \* bound on time

ASSUME LimiterCaps ==
  /\ Source \cap Proxy = {}
  /\ {LimWindow, MaxPerIp} \subseteq Nat \ {0} /\ {MaxTotal, MaxTracked, MaxInstant} \subseteq Nat

VARIABLES instant, windowStart, total, perIp,
          hits,     \* history: requests admitted, by true source and instant
          charged   \* history: <<true source, address charged>>

limVars == <<instant, windowStart, total, perIp, hits, charged>>

LimInit ==
  /\ instant = 0 /\ windowStart = 0 /\ total = 0
  /\ perIp = [s \in {} |-> 0]
  /\ hits = [s \in Source |-> [t \in 0 .. MaxInstant |-> 0]]
  /\ charged = {}

\* Mutant of ClientIp: the header is read from the left.
ClientIpLeft(peer, xff) ==
  IF peer \notin Proxy \/ xff = <<>> THEN peer ELSE Head(xff)

\* client_ip: the header counts only behind a proxy, and its last address that is no proxy.
ClientIp(peer, xff) ==
  LET seen == {k \in 1 .. Len(xff) : xff[k] \notin Proxy} IN
  IF peer \notin Proxy \/ seen = {} THEN peer
  ELSE xff[CHOOSE k \in seen : \A j \in seen : j <= k]

\* The first request past the window starts the next one.
Rolled(now) == now - windowStart >= LimWindow
TotalNow(now) == IF Rolled(now) THEN 0 ELSE total
TableNow(now) == IF Rolled(now) THEN [s \in {} |-> 0] ELSE perIp

\* Mutant of LimAdmits: the check after the count.
AdmitsOver(ip, now) ==
  /\ TotalNow(now) <= MaxTotal
  /\ ip \in DOMAIN TableNow(now) => TableNow(now)[ip] <= MaxPerIp

\* WindowCounter::allow's refusals: the total, the source, the table.
LimAdmits(ip, now) ==
  /\ TotalNow(now) < MaxTotal
  /\ IF ip \in DOMAIN TableNow(now) THEN TableNow(now)[ip] < MaxPerIp
     ELSE Cardinality(DOMAIN TableNow(now)) < MaxTracked

\* A request of `source`, direct or through a proxy that appends what it saw to whatever
\* header the client made up.
Request(source, peer, forged) ==
  LET xff == IF peer = source THEN forged ELSE Append(forged, source)
      ip == ClientIp(peer, xff)
      table == TableNow(instant)
  IN /\ windowStart' = IF Rolled(instant) THEN instant ELSE windowStart
     /\ IF LimAdmits(ip, instant)
          THEN /\ perIp' = [s \in DOMAIN table \cup {ip} |-> IF s \in DOMAIN table THEN table[s] + (IF s = ip THEN 1 ELSE 0) ELSE 1]
               /\ total' = TotalNow(instant) + 1
               /\ hits' = [hits EXCEPT ![source][instant] = @ + 1]
               /\ charged' = charged \cup {<<source, ip>>}
          ELSE /\ perIp' = table /\ total' = TotalNow(instant)
               /\ UNCHANGED <<hits, charged>>
     /\ UNCHANGED instant

Elapse ==
  /\ instant < MaxInstant
  /\ instant' = instant + 1
  /\ UNCHANGED <<windowStart, total, perIp, hits, charged>>

LimNext ==
  \/ Elapse
  \/ \E s \in Source : \E peer \in {s} \cup Proxy, forged \in {<<>>} \cup {<<f>> : f \in Source} :
       Request(s, peer, forged)

LimSpec == LimInit /\ [][LimNext]_limVars

-----------------------------------------------------------------------------
\* How many of a source's requests were admitted before each instant, and from one on for
\* a window's length.
Tally(h) == LET f[t \in 0 .. MaxInstant + 1] == IF t = 0 THEN 0 ELSE f[t - 1] + h[t - 1] IN f
SumHits(s, from) == Tally(hits[s])[from + LimWindow] - Tally(hits[s])[from]

\* The counters are within their caps and the table within its size.
LimTypeOK ==
  /\ windowStart <= instant /\ total <= MaxTotal
  /\ Cardinality(DOMAIN perIp) <= MaxTracked
  /\ \A s \in DOMAIN perIp : perIp[s] \in 1 .. MaxPerIp

\* ratelimit.rs:36: nobody spends another source's budget, whatever header it makes up.
ChargedToCaller == \A c \in charged : c[1] = c[2]

\* stun.rs:25: fixed windows let a source through at most twice its cap in any window's
\* length, wherever the windows fall.
SlidingBound ==
  \A t \in 0 .. MaxInstant - LimWindow + 1 :
    \A s \in Source : SumHits(s, t) <= 2 * MaxPerIp

\* What the limiter keeps at every step: its caps, and whom it charges.
LimiterSafe == LimTypeOK /\ ChargedToCaller
=============================================================================
