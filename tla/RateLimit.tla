------------------------------ MODULE RateLimit ------------------------------
(***************************************************************************)
(* The shared rate limiters of lib/ratelimit.ts: a counter per client and  *)
(* minute, then a counter per day, both in Redis.  The eleven limiters are *)
(* one function over different keys and limits; checkLedgerReadLimit has   *)
(* no daily counter and checkServerDriftLimit fails closed.  A route may   *)
(* stack two of them: /api/v1/ledger and /api/owner/verify-behavior do.    *)
(*                                                                         *)
(* A request reads the clock once and then makes up to four round trips    *)
(* per limiter, each an action.  Time is a bounded count of ticks; a       *)
(* timestamp cut to its minute or its day is the first tick of the window. *)
(***************************************************************************)
EXTENDS FiniteSets, Integers, Sequences

CONSTANTS
  Limiter,       \* the key prefixes: screen, drift:read, ledger:read, ...
  Client,        \* client addresses (IPv6 ones as their /64)
  Req,           \* the requests of a run; a bound
  Route, Plan,   \* the limiters each route consults, in order
  PerIp,         \* the limit per client and minute of each limiter
  PerDay,        \* the limit per day
  Daily,         \* the limiters that have a daily counter
  FailOpen,      \* the limiters that let a request through on a Redis error
  Minute, Day,   \* the windows, in ticks
  IpTtl, DayTtl, \* what EXPIRE asks for, in ticks
  MaxDelay,      \* how long after reading the clock a round trip may come
  Horizon,       \* the last tick; a bound
  Outcomes,      \* what can become of one command of a faulty Redis
  All            \* the "client" of a daily key

\* ok: it took effect and was answered; resent: the answer to the first try was
\* lost and the client's own retry was answered; refused: no effect, the call
\* throws; unacked: it took effect but the call throws.
Effects(o) == CASE o = "ok" -> 1 [] o = "resent" -> 2 [] o = "refused" -> 0
               [] o = "unacked" -> 1
Answered == {"ok", "resent"}

ASSUME RateLimitConstants ==
  /\ Plan \in [Route -> Seq(Limiter) \ {<<>>}]
  /\ \A rt \in Route : \A i, j \in 1..Len(Plan[rt]) :
       Plan[rt][i] = Plan[rt][j] => i = j
  /\ PerIp \in [Limiter -> Nat \ {0}] /\ PerDay \in [Limiter -> Nat \ {0}]
  /\ Daily \subseteq Limiter /\ FailOpen \subseteq Limiter
  /\ Minute \in Nat \ {0} /\ Day \in Nat \ {0}
  /\ IpTtl \in Nat \ {0} /\ DayTtl \in Nat \ {0}
  /\ MaxDelay \in Nat /\ Horizon \in Nat
  /\ Outcomes \subseteq {"ok", "resent", "refused", "unacked"}
  /\ All \notin Client

\* A key outlives its window by at least the time a request may lag: EXPIRE asks
\* for 70 s on a minute and 25 h on a day.
ASSUME KeysOutliveRequests ==
  /\ Minute + MaxDelay <= IpTtl
  /\ Day + MaxDelay <= DayTtl

VARIABLES
  now,
  count,        \* Redis: the counter under each key, 0 when there is none
  expiry,       \* Redis: when each key goes, NoExpiry when it has no TTL
  req,
  faulty        \* whether Redis may fail in this behaviour

vars == <<now, count, expiry, req, faulty>>
-----------------------------------------------------------------------------
Times == 0..Horizon
NoExpiry == 0

\* Keys are named by limiter, client and the window they count.
Key == [limiter: Limiter, client: Client \cup {All}, from: Times]

WindowStart(t, length) == t - (t % length)

Request == [pc: {"new", "ip", "ipttl", "day", "dayttl", "served", "refusedIp",
                 "refusedDay", "unavailable"},
            client: Client, route: Route, at: Times,
            k: Nat,                  \* which limiter of its plan it is at
            ip: [Limiter -> Nat],    \* `c` of each limiter, 0 before it
            day: [Limiter -> Nat],   \* `g` of each limiter, 0 before it
            open: SUBSET Limiter]    \* history: limiters that failed open

Waiting == {"ip", "ipttl", "day", "dayttl"}
At(q, pc) == req[q].pc = pc
Possible == IF faulty THEN Outcomes ELSE {"ok"}
Lim(r) == Plan[r.route][r.k]

\* Mutant: every limiter counts under one prefix.
OnePrefix(r, l) == [limiter |-> CHOOSE x \in Limiter : TRUE, client |-> r.client,
                    from |-> WindowStart(r.at, Minute)]

\* <limiter>:ip:<client>:<minute>
IpKey(r, l) == [limiter |-> l, client |-> r.client,
                from |-> WindowStart(r.at, Minute)]

\* <limiter>:global:<day>
DayKey(r, l) == [limiter |-> l, client |-> All, from |-> WindowStart(r.at, Day)]

\* The limiter answers { ok: true }: on to the route's next one.
Passed(r) ==
  [r EXCEPT !.k = @ + 1,
            !.pc = IF r.k = Len(Plan[r.route]) THEN "served" ELSE "ip"]

\* Mutant: every limiter fails open.
AlwaysOpen(r) == Passed([r EXCEPT !.open = @ \cup {Lim(r)}])

\* The catch of each limiter.
Caught(r) ==
  IF Lim(r) \in FailOpen THEN Passed([r EXCEPT !.open = @ \cup {Lim(r)}])
                         ELSE [r EXCEPT !.pc = "unavailable"]
-----------------------------------------------------------------------------
(* The steps of a limiter.                                                 *)

\* Mutant: one request too many.
OverIpByOne(r, c) == c > PerIp[Lim(r)] + 1

OverIp(r, c) == c > PerIp[Lim(r)]

\* Mutant: a request over its limit still goes on to the daily counter.
CheckedIpLate(r) ==
  IF Lim(r) \in Daily THEN [r EXCEPT !.pc = "day"] ELSE Passed(r)

\* Past the per-minute counter: refused here, or on to the daily one.
CheckedIp(r) ==
  IF OverIp(r, r.ip[Lim(r)]) THEN [r EXCEPT !.pc = "refusedIp"]
  ELSE IF Lim(r) \in Daily   THEN [r EXCEPT !.pc = "day"]
                             ELSE Passed(r)

CheckedDay(r) ==
  IF r.day[Lim(r)] > PerDay[Lim(r)] THEN [r EXCEPT !.pc = "refusedDay"]
                                    ELSE Passed(r)

\* Mutant: the TTL is set on the second hit.
SecondHit(c) == c = 2

\* The hit that created the key sets its TTL.
FirstHit(c) == c = 1

\* INCR: the key's TTL, if any, stays.
Incr(key, o) == count' = [count EXCEPT ![key] = @ + Effects(o)]

\* EXPIRE: no effect on a key that is gone.
Expire(key, ttl, o) ==
  expiry' = IF Effects(o) = 0 \/ count[key] = 0 THEN expiry
            ELSE [expiry EXCEPT ![key] = now + ttl]

Continue(q, o, next) ==
  req' = [req EXCEPT ![q] = IF o \in Answered THEN next ELSE Caught(req[q])]

\* The route reads the clock and asks its first limiter.
Arrive(q) ==
  /\ At(q, "new")
  /\ req' = [req EXCEPT ![q].pc = "ip", ![q].at = now]
  /\ UNCHANGED <<now, count, expiry, faulty>>

IncrIp(q) ==
  /\ At(q, "ip")
  /\ \E o \in Possible :
       LET key == IpKey(req[q], Lim(req[q]))
           r   == [req[q] EXCEPT !.ip[Lim(req[q])] = count'[key]]
       IN  /\ Incr(key, o)
           /\ Continue(q, o, IF FirstHit(count'[key])
                             THEN [r EXCEPT !.pc = "ipttl"] ELSE CheckedIp(r))
  /\ UNCHANGED <<now, expiry, faulty>>

ExpireIp(q) ==
  /\ At(q, "ipttl")
  /\ \E o \in Possible :
       /\ Expire(IpKey(req[q], Lim(req[q])), IpTtl, o)
       /\ Continue(q, o, CheckedIp(req[q]))
  /\ UNCHANGED <<now, count, faulty>>

IncrDay(q) ==
  /\ At(q, "day")
  /\ \E o \in Possible :
       LET key == DayKey(req[q], Lim(req[q]))
           r   == [req[q] EXCEPT !.day[Lim(req[q])] = count'[key]]
       IN  /\ Incr(key, o)
           /\ Continue(q, o, IF FirstHit(count'[key])
                             THEN [r EXCEPT !.pc = "dayttl"] ELSE CheckedDay(r))
  /\ UNCHANGED <<now, expiry, faulty>>

ExpireDay(q) ==
  /\ At(q, "dayttl")
  /\ \E o \in Possible :
       /\ Expire(DayKey(req[q], Lim(req[q])), DayTtl, o)
       /\ Continue(q, o, CheckedDay(req[q]))
  /\ UNCHANGED <<now, count, faulty>>

\* A tick: keys whose TTL has run out are gone.  No request lags by more than
\* MaxDelay.
Tick ==
  /\ now < Horizon
  /\ \A q \in Req : req[q].pc \in Waiting => now < req[q].at + MaxDelay
  /\ now' = now + 1
  /\ LET gone == {k \in Key : expiry[k] # NoExpiry /\ expiry[k] <= now'}
     IN  /\ count'  = [k \in Key |-> IF k \in gone THEN 0 ELSE count[k]]
         /\ expiry' = [k \in Key |-> IF k \in gone THEN NoExpiry ELSE expiry[k]]
  /\ UNCHANGED <<req, faulty>>

Init ==
  /\ now = 0
  /\ count = [k \in Key |-> 0]
  /\ expiry = [k \in Key |-> NoExpiry]
  /\ faulty \in BOOLEAN
  /\ req \in [Req -> {[pc |-> "new", client |-> c, route |-> rt, at |-> 0, k |-> 1,
                       ip |-> [l \in Limiter |-> 0], day |-> [l \in Limiter |-> 0],
                       open |-> {}] : c \in Client, rt \in Route}]

Next ==
  \/ \E q \in Req : \/ Arrive(q) \/ IncrIp(q) \/ ExpireIp(q)
                    \/ IncrDay(q) \/ ExpireDay(q)
  \/ Tick

Spec == Init /\ [][Next]_vars
-----------------------------------------------------------------------------
Stored ==
  /\ now \in Times
  /\ count \in [Key -> Nat]
  /\ expiry \in [Key -> Nat]
  /\ req \in [Req -> Request]

TypeOK == Stored /\ faulty \in BOOLEAN

\* Has limiter l let request r through?
PassedBy(r, l) == \E j \in 1..(r.k - 1) : Plan[r.route][j] = l

\* The requests of a client and minute (of a day) a limiter let through because
\* its counters said so.
AdmittedIn(l, c, m) ==
  {q \in Req : /\ PassedBy(req[q], l) /\ l \notin req[q].open
               /\ req[q].client = c /\ WindowStart(req[q].at, Minute) = m}

AdmittedOn(l, d) ==
  {q \in Req : /\ PassedBy(req[q], l) /\ l \notin req[q].open
               /\ WindowStart(req[q].at, Day) = d}

\* However requests interleave, retry and lag across the end of a minute, a
\* limiter whose Redis answers never lets through more than its limit for one
\* client and minute (PER_IP_PER_MIN).
WithinMinuteBudget ==
  \A l \in Limiter, c \in Client, m \in Times :
    Cardinality(AdmittedIn(l, c, m)) <= PerIp[l]

\* ... nor more than its ceiling for one day (GLOBAL_PER_DAY), whatever clients
\* the requests come from.
WithinDayBudget ==
  \A l \in Daily, d \in Times : Cardinality(AdmittedOn(l, d)) <= PerDay[l]

\* Both budgets of a limiter.
WithinBudgets == WithinMinuteBudget /\ WithinDayBudget

\* "An IP-blocked request must NOT count toward the global cap": in a minute one
\* client spends at most its own limit of a limiter's daily budget.
OneClientSpendsItsShare ==
  \A l \in Daily, c \in Client, m \in Times :
    Cardinality({q \in Req : /\ req[q].day[l] # 0 /\ req[q].client = c
                             /\ WindowStart(req[q].at, Minute) = m}) <= PerIp[l]

\* A limiter that fails closed lets nothing through beyond its limits, Redis
\* errors included: an outage is never an unthrottled window.
ClosedLimiterHolds ==
  \A l \in Limiter \ FailOpen, c \in Client, m \in Times :
    Cardinality({q \in Req : /\ PassedBy(req[q], l) /\ req[q].client = c
                             /\ WindowStart(req[q].at, Minute) = m}) <= PerIp[l]

\* The requests of the client and minute of r that limiter l counted, and that did not
\* come to it through the limiter `bulk`.
Elsewhere(r, l, bulk) ==
  {p \in Req : /\ req[p].client = r.client
               /\ WindowStart(req[p].at, Minute) = WindowStart(r.at, Minute)
               /\ req[p].ip[l] # 0 /\ ~PassedBy(req[p], bulk)}

\* Where a bulk route stacks its own limiter before one it shares with another
\* route, a client's bulk requests take at most the bulk limit out of the shared
\* budget: a request is refused its minute of a limiter only after more than the rest of
\* that limit went to requests of other routes (the ledger and the SDK's gate check).
BulkLeavesTheRest ==
  \A q \in Req, bulk \in Limiter :
    At(q, "refusedIp") /\ bulk # Lim(req[q]) =>
      Cardinality(Elsewhere(req[q], Lim(req[q]), bulk)) >
        PerIp[Lim(req[q])] - PerIp[bulk]

\* A counter without a TTL is one whose creating request has yet to ask for it.
EveryKeyExpires ==
  \A k \in Key : count[k] > 0 /\ expiry[k] = NoExpiry =>
    \E q \in Req : \/ At(q, "ipttl") /\ k = IpKey(req[q], Lim(req[q]))
                   \/ At(q, "dayttl") /\ k = DayKey(req[q], Lim(req[q]))

\* As long as Redis answers, a bulk walk leaves the other routes their share and no
\* counter outlives its window. (app/api/v1/ledger/route.ts:56, ratelimit.ts:44-66)
HoldsWhileRedisAnswers == ~faulty => BulkLeavesTheRest /\ EveryKeyExpires
=============================================================================
