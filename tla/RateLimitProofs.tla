---------------------------- MODULE RateLimitProofs ----------------------------
(***************************************************************************)
(* The budgets of RateLimit, proved for any number of limiters, clients    *)
(* and requests.  The value INCR answers is the request's ticket.  Tickets *)
(* on one key differ, because the counter only grows while the key lives   *)
(* and no request is late enough to meet the key a second time; a request  *)
(* that is let through holds a ticket no greater than the limit.           *)
(***************************************************************************)
EXTENDS RateLimit, FiniteSetTheorems, TLAPS

\* What holds of every request by itself.
Sound(r) ==
  /\ r \in Request
  /\ r.k \in 1..(Len(Plan[r.route]) + 1)
  /\ r.pc \in Waiting => r.k <= Len(Plan[r.route])
  /\ r.pc = "new" => r.k = 1 /\ \A l \in Limiter : r.ip[l] = 0 /\ r.day[l] = 0
  /\ r.open \subseteq FailOpen
  /\ r.pc \in {"day", "dayttl"} => Lim(r) \in Daily
  /\ r.pc \in {"ipttl", "day", "dayttl"} => r.ip[Lim(r)] \in 1..PerIp[Lim(r)]
  /\ r.pc = "dayttl" => r.day[Lim(r)] \in 1..PerDay[Lim(r)]
  /\ \A l \in Limiter : PassedBy(r, l) /\ l \notin r.open =>
       /\ r.ip[l] \in 1..PerIp[l]
       /\ l \in Daily => r.day[l] \in 1..PerDay[l]
  /\ \A l \in Limiter : r.day[l] # 0 => r.ip[l] \in 1..PerIp[l]
  /\ \A j \in 1..Len(Plan[r.route]) :
       j > r.k \/ (j = r.k /\ r.pc \in {"new", "ip"})
         => r.day[Plan[r.route][j]] = 0

\* No request under way has lagged by more than MaxDelay.
Prompt ==
  \A q \in Req : req[q].pc \in Waiting =>
    req[q].at <= now /\ now <= req[q].at + MaxDelay

\* No key goes before its TTL, counted from the start of its window, is over.
LateExpiry ==
  \A k \in Key : expiry[k] # NoExpiry =>
    expiry[k] >= k.from + (IF k.client = All THEN DayTtl ELSE IpTtl)

\* Every ticket is covered by its counter for as long as the key may live.
IpTickets ==
  \A q \in Req, l \in Limiter : req[q].ip[l] # 0 =>
    \/ req[q].ip[l] <= count[IpKey(req[q], l)]
    \/ now >= WindowStart(req[q].at, Minute) + IpTtl

DayTickets ==
  \A q \in Req, l \in Limiter : req[q].day[l] # 0 =>
    \/ req[q].day[l] <= count[DayKey(req[q], l)]
    \/ now >= WindowStart(req[q].at, Day) + DayTtl

\* No two requests hold the same ticket.
IpDistinct ==
  \A q, p \in Req, l \in Limiter :
    (/\ q # p /\ req[q].ip[l] # 0 /\ req[p].ip[l] # 0
     /\ IpKey(req[q], l) = IpKey(req[p], l))
    => req[q].ip[l] # req[p].ip[l]

DayDistinct ==
  \A q, p \in Req, l \in Limiter :
    (/\ q # p /\ req[q].day[l] # 0 /\ req[p].day[l] # 0
     /\ DayKey(req[q], l) = DayKey(req[p], l))
    => req[q].day[l] # req[p].day[l]

IInv ==
  /\ Stored
  /\ \A q \in Req : Sound(req[q])
  /\ Prompt /\ LateExpiry
  /\ IpTickets /\ DayTickets /\ IpDistinct /\ DayDistinct
-----------------------------------------------------------------------------
(* The operators.                                                          *)

\* A window starts at most its length before the instants it holds.
LEMMA WindowFacts ==
  ASSUME NEW t \in Nat, NEW n \in Nat \ {0}
  PROVE  /\ WindowStart(t, n) \in 0..t
         /\ t < WindowStart(t, n) + n
<1>1. t % n \in 0..(n - 1)
  OBVIOUS
<1>2. t % n <= t
  OBVIOUS
<1> QED BY <1>1, <1>2 DEF WindowStart

\* The keys of a request that has arrived.
LEMMA KeyFacts ==
  ASSUME NEW r \in Request, NEW l \in Limiter
  PROVE  /\ IpKey(r, l) \in Key /\ DayKey(r, l) \in Key
         /\ IpKey(r, l).client # All /\ DayKey(r, l).client = All
         /\ IpKey(r, l).from = WindowStart(r.at, Minute)
         /\ DayKey(r, l).from = WindowStart(r.at, Day)
         /\ WindowStart(r.at, Minute) <= r.at
         /\ r.at < WindowStart(r.at, Minute) + Minute
         /\ WindowStart(r.at, Day) <= r.at
         /\ r.at < WindowStart(r.at, Day) + Day
<1>1. r.at \in 0..Horizon /\ r.client \in Client /\ All \notin Client
  BY RateLimitConstants DEF Request, Times
<1>2. /\ Minute \in Nat \ {0} /\ Day \in Nat \ {0} /\ Horizon \in Nat
  BY RateLimitConstants
<1>3. /\ WindowStart(r.at, Minute) \in 0..r.at
      /\ r.at < WindowStart(r.at, Minute) + Minute
  BY <1>1, <1>2, WindowFacts
<1>4. /\ WindowStart(r.at, Day) \in 0..r.at
      /\ r.at < WindowStart(r.at, Day) + Day
  BY <1>1, <1>2, WindowFacts
<1>5. WindowStart(r.at, Minute) \in 0..Horizon /\ WindowStart(r.at, Day) \in 0..Horizon
  BY <1>1, <1>2, <1>3, <1>4
<1> QED BY <1>1, <1>3, <1>4, <1>5 DEF IpKey, DayKey, Key, Times

\* An answered command took effect.
LEMMA EffectsFacts ==
  ASSUME NEW o \in Possible
  PROVE  Effects(o) \in Nat /\ (o \in Answered => Effects(o) >= 1)
BY RateLimitConstants DEF Possible, Effects, Answered

\* A request under way is at a limiter of its plan.
LEMMA LimType ==
  ASSUME NEW r, Sound(r), r.pc \in Waiting
  PROVE  Lim(r) \in Limiter /\ r.k \in 1..Len(Plan[r.route])
<1>1. r.route \in Route /\ r.k \in Nat
  BY DEF Sound, Request
<1>2. Plan[r.route] \in Seq(Limiter)
  BY <1>1, RateLimitConstants
<1>3. Len(Plan[r.route]) \in Nat
  BY <1>2
<1>4. r.k \in 1..Len(Plan[r.route])
  BY <1>1, <1>3 DEF Sound
<1> QED BY <1>2, <1>4 DEF Lim
-----------------------------------------------------------------------------
(* A request by itself.                                                    *)

\* Plans are non-empty and name a limiter once.
LEMMA PlanFacts ==
  ASSUME NEW rt \in Route
  PROVE  /\ Len(Plan[rt]) \in Nat \ {0}
         /\ \A j \in 1..Len(Plan[rt]) : Plan[rt][j] \in Limiter
         /\ \A i, j \in 1..Len(Plan[rt]) : Plan[rt][i] = Plan[rt][j] => i = j
<1>1. Plan[rt] \in Seq(Limiter) /\ Plan[rt] # <<>>
  BY RateLimitConstants
<1>2. Len(Plan[rt]) \in Nat \ {0}
  BY <1>1
<1> QED BY <1>1, <1>2, RateLimitConstants

\* Going on past a limiter, with its tickets in order or as an open failure.
LEMMA PassedSound ==
  ASSUME NEW r, Sound(r), r.pc \in Waiting, NEW o \in {{}, {Lim(r)}},
         o \subseteq FailOpen,
         o = {} => /\ r.ip[Lim(r)] \in 1..PerIp[Lim(r)]
                   /\ Lim(r) \in Daily => r.day[Lim(r)] \in 1..PerDay[Lim(r)]
  PROVE  Sound(Passed([r EXCEPT !.open = @ \cup o]))
<1> DEFINE n == Passed([r EXCEPT !.open = @ \cup o])
<1>1. Lim(r) \in Limiter /\ r.k \in 1..Len(Plan[r.route])
  BY LimType
<1>2. r \in Request /\ r.route \in Route
  BY DEF Sound, Request
<1>3. /\ n \in Request /\ n.k = r.k + 1 /\ n.route = r.route
      /\ n.open = r.open \cup o /\ n.ip = r.ip /\ n.day = r.day
      /\ n.pc = IF r.k = Len(Plan[r.route]) THEN "served" ELSE "ip"
  <2> DEFINE m == [r EXCEPT !.open = @ \cup o]
             pc == IF m.k = Len(Plan[m.route]) THEN "served" ELSE "ip"
  <2>1. r.open \cup o \in SUBSET Limiter
    BY <1>1, <1>2 DEF Request
  <2>2. /\ m \in Request /\ m.k = r.k /\ m.route = r.route
        /\ m.open = r.open \cup o /\ m.ip = r.ip /\ m.day = r.day
    BY <1>2, <2>1 DEF Request
  <2>3. n = [m EXCEPT !.k = @ + 1, !.pc = pc]
    BY DEF Passed
  <2>4. pc \in {"served", "ip"}
    OBVIOUS
  <2> HIDE DEF m, n
  <2>5. /\ n \in Request /\ n.k = m.k + 1 /\ n.route = m.route
        /\ n.open = m.open /\ n.ip = m.ip /\ n.day = m.day /\ n.pc = pc
    <3> HIDE DEF pc
    <3> DEFINE h == [m EXCEPT !.k = @ + 1]
    <3>1. /\ h \in Request /\ h.k = m.k + 1 /\ h.route = m.route
          /\ h.open = m.open /\ h.ip = m.ip /\ h.day = m.day
      <4>1. m.k + 1 \in Nat
        BY <2>2 DEF Request
      <4> QED BY <2>2, <4>1 DEF Request
    <3>2. n = [h EXCEPT !.pc = pc]
      BY <2>2, <2>3 DEF Request
    <3> HIDE DEF h
    <3> QED BY <3>1, <3>2, <2>4 DEF Request
  <2>6. pc = IF r.k = Len(Plan[r.route]) THEN "served" ELSE "ip"
    BY <2>2
  <2> HIDE DEF pc
  <2> QED BY <2>2, <2>5, <2>6
<1>4. /\ n.k \in 1..(Len(Plan[n.route]) + 1)
      /\ n.pc \in Waiting => n.k <= Len(Plan[n.route])
      /\ n.pc \in {"served", "ip"}
  BY <1>1, <1>2, <1>3, PlanFacts DEF Waiting
<1>5. n.open \subseteq FailOpen
  BY <1>3 DEF Sound
<1>6. \A l \in Limiter : PassedBy(n, l) /\ l \notin n.open =>
       /\ n.ip[l] \in 1..PerIp[l]
       /\ l \in Daily => n.day[l] \in 1..PerDay[l]
  <2> SUFFICES ASSUME NEW l \in Limiter, PassedBy(n, l), l \notin n.open
               PROVE  /\ n.ip[l] \in 1..PerIp[l]
                      /\ l \in Daily => n.day[l] \in 1..PerDay[l]
    OBVIOUS
  <2>1. PICK j \in 1..(n.k - 1) : Plan[n.route][j] = l
    BY DEF PassedBy
  <2>2. CASE j = r.k
    BY <2>1, <2>2, <1>3 DEF Lim
  <2>3. CASE j # r.k
    <3>1. j \in 1..(r.k - 1)
      BY <2>1, <2>3, <1>1, <1>3, <1>2, PlanFacts
    <3>2. PassedBy(r, l)
      BY <3>1, <2>1, <1>3 DEF PassedBy
    <3> QED BY <3>2, <1>3 DEF Sound
  <2> QED BY <2>2, <2>3
<1>7. \A l \in Limiter : n.day[l] # 0 => n.ip[l] \in 1..PerIp[l]
  BY <1>3 DEF Sound
<1>8. \A j \in 1..Len(Plan[n.route]) :
       j > n.k \/ (j = n.k /\ n.pc \in {"new", "ip"})
         => n.day[Plan[n.route][j]] = 0
  BY <1>1, <1>2, <1>3, PlanFacts DEF Sound
<1> QED BY <1>3, <1>4, <1>5, <1>6, <1>7, <1>8 DEF Sound

\* The catch of a limiter.
LEMMA CaughtSound ==
  ASSUME NEW r, Sound(r), r.pc \in Waiting
  PROVE  Sound(Caught(r))
<1>1. CASE Lim(r) \in FailOpen
  <2>1. Sound(Passed([r EXCEPT !.open = @ \cup {Lim(r)}]))
    BY <1>1, PassedSound
  <2> QED BY <1>1, <2>1 DEF Caught
<1>2. CASE Lim(r) \notin FailOpen
  <2> DEFINE n == [r EXCEPT !.pc = "unavailable"]
  <2>1. /\ n \in Request /\ n.pc = "unavailable" /\ n.k = r.k
        /\ n.route = r.route /\ n.open = r.open /\ n.ip = r.ip /\ n.day = r.day
    BY DEF Sound, Request
  <2>2. Sound(n)
    BY <2>1 DEF Sound, PassedBy, Waiting
  <2> QED BY <1>2, <2>2 DEF Caught
<1> QED BY <1>1, <1>2

\* The per-minute counter has answered, with the ticket in r.
LEMMA CheckedIpSound ==
  ASSUME NEW r, Sound(r), r.pc \in {"ip", "ipttl"}, r.ip[Lim(r)] # 0
  PROVE  Sound(CheckedIp(r))
<1>1. Lim(r) \in Limiter /\ r.k \in 1..Len(Plan[r.route])
  BY LimType DEF Waiting
<1>2. r \in Request /\ r.route \in Route /\ r.ip[Lim(r)] \in Nat
      /\ PerIp[Lim(r)] \in Nat
  BY <1>1, RateLimitConstants DEF Sound, Request
<1>3. CASE OverIp(r, r.ip[Lim(r)])
  <2> DEFINE n == [r EXCEPT !.pc = "refusedIp"]
  <2>1. /\ n \in Request /\ n.pc = "refusedIp" /\ n.k = r.k
        /\ n.route = r.route /\ n.open = r.open /\ n.ip = r.ip /\ n.day = r.day
    BY <1>2 DEF Request
  <2>2. Sound(n)
    BY <2>1 DEF Sound, PassedBy, Waiting
  <2> QED BY <1>3, <2>2 DEF CheckedIp
<1>4. CASE ~OverIp(r, r.ip[Lim(r)]) /\ Lim(r) \in Daily
  <2> DEFINE n == [r EXCEPT !.pc = "day"]
  <2>1. /\ n \in Request /\ n.pc = "day" /\ n.k = r.k /\ Lim(n) = Lim(r)
        /\ n.route = r.route /\ n.open = r.open /\ n.ip = r.ip /\ n.day = r.day
    BY <1>2 DEF Request, Lim
  <2>2. r.ip[Lim(r)] \in 1..PerIp[Lim(r)]
    BY <1>2, <1>4 DEF OverIp
  <2>3. n.k <= Len(Plan[n.route])
    BY <1>1, <1>2, <2>1, PlanFacts
  <2>4. Sound(n)
    BY <1>4, <2>1, <2>2, <2>3 DEF Sound, PassedBy
  <2> QED BY <1>4, <2>4 DEF CheckedIp
<1>5. CASE ~OverIp(r, r.ip[Lim(r)]) /\ Lim(r) \notin Daily
  <2>1. r.ip[Lim(r)] \in 1..PerIp[Lim(r)]
    BY <1>2, <1>5 DEF OverIp
  <2>2. [r EXCEPT !.open = @ \cup {}] = r
    BY <1>2 DEF Request
  <2>3. Sound(Passed([r EXCEPT !.open = @ \cup {}]))
    BY <1>5, <2>1, PassedSound DEF Waiting
  <2> QED BY <1>5, <2>2, <2>3 DEF CheckedIp
<1> QED BY <1>3, <1>4, <1>5

\* The daily counter has answered, with the ticket in r.
LEMMA CheckedDaySound ==
  ASSUME NEW r, Sound(r), r.pc \in {"day", "dayttl"}, r.day[Lim(r)] # 0
  PROVE  Sound(CheckedDay(r))
<1>1. Lim(r) \in Limiter /\ r.k \in 1..Len(Plan[r.route])
  BY LimType DEF Waiting
<1>2. r \in Request /\ r.route \in Route /\ r.day[Lim(r)] \in Nat
      /\ PerDay[Lim(r)] \in Nat
  BY <1>1, RateLimitConstants DEF Sound, Request
<1>3. CASE r.day[Lim(r)] > PerDay[Lim(r)]
  <2> DEFINE n == [r EXCEPT !.pc = "refusedDay"]
  <2>1. /\ n \in Request /\ n.pc = "refusedDay" /\ n.k = r.k
        /\ n.route = r.route /\ n.open = r.open /\ n.ip = r.ip /\ n.day = r.day
    BY <1>2 DEF Request
  <2>2. Sound(n)
    BY <2>1 DEF Sound, PassedBy, Waiting
  <2> QED BY <1>3, <2>2 DEF CheckedDay
<1>4. CASE ~(r.day[Lim(r)] > PerDay[Lim(r)])
  <2>1. r.day[Lim(r)] \in 1..PerDay[Lim(r)]
    BY <1>2, <1>4
  <2>2. r.ip[Lim(r)] \in 1..PerIp[Lim(r)]
    BY DEF Sound
  <2>3. [r EXCEPT !.open = @ \cup {}] = r
    BY <1>2 DEF Request
  <2>4. Sound(Passed([r EXCEPT !.open = @ \cup {}]))
    BY <2>1, <2>2, PassedSound DEF Waiting
  <2> QED BY <1>4, <2>3, <2>4 DEF CheckedDay
<1> QED BY <1>3, <1>4
-----------------------------------------------------------------------------
(* The shapes of a step.                                                   *)

\* What names the keys of a request.
Kept(n, r) == n.at = r.at /\ n.client = r.client /\ n.route = r.route
SameTickets(n, r) == Kept(n, r) /\ n.ip = r.ip /\ n.day = r.day

\* A limiter's answer leaves tickets alone.
LEMMA AnswersKeepTickets ==
  ASSUME NEW r \in Request
  PROVE  /\ SameTickets(Passed(r), r) /\ SameTickets(Caught(r), r)
         /\ SameTickets(CheckedIp(r), r) /\ SameTickets(CheckedDay(r), r)
<1>1. \A s \in Request : SameTickets(Passed(s), s)
  BY DEF SameTickets, Kept, Passed, Request
<1>2. \A x : SameTickets([r EXCEPT !.pc = x], r)
  BY DEF SameTickets, Kept, Request
<1>3. SameTickets(Caught(r), r)
  <2> DEFINE h == [r EXCEPT !.open = @ \cup {Lim(r)}]
  <2>1. SameTickets(Passed(h), r)
    BY DEF SameTickets, Kept, Passed, Request
  <2> QED BY <1>2, <2>1 DEF Caught
<1> QED BY <1>1, <1>2, <1>3 DEF CheckedIp, CheckedDay

\* A step of q that gives no ticket and moves no counter.
LEMMA QuietStep ==
  ASSUME IInv, NEW q \in Req, NEW n, req' = [req EXCEPT ![q] = n],
         Sound(n), SameTickets(n, req[q]),
         n.pc \in Waiting => req[q].pc \in Waiting,
         now' = now, count' = count,
         expiry' \in [Key -> Nat], LateExpiry'
  PROVE  IInv'
<1> USE DEF IInv
<1>1. req \in [Req -> Request] /\ n \in Request
  BY DEF Stored, Sound
<1>2. /\ Stored' /\ \A p \in Req : Sound(req'[p])
  BY <1>1 DEF Stored
<1>3. \A p \in Req : SameTickets(req'[p], req[p])
  BY <1>1 DEF SameTickets, Kept
<1>4. Prompt'
  BY <1>1, <1>3 DEF Prompt, SameTickets, Kept
<1>5. \A p \in Req, l \in Limiter : /\ IpKey(req'[p], l) = IpKey(req[p], l)
                                    /\ DayKey(req'[p], l) = DayKey(req[p], l)
  BY <1>3 DEF SameTickets, Kept, IpKey, DayKey
<1>6. IpTickets' /\ DayTickets'
  BY <1>3, <1>5 DEF IpTickets, DayTickets, SameTickets, Kept
<1>7. IpDistinct' /\ DayDistinct'
  BY <1>3, <1>5 DEF IpDistinct, DayDistinct, SameTickets, Kept
<1> QED BY <1>2, <1>4, <1>6, <1>7

\* A counter grows by e, and q may leave with its new value as a ticket.
LEMMA IpTicketStep ==
  ASSUME IInv, NEW q \in Req, NEW l \in Limiter, req[q].pc \in Waiting,
         NEW e \in Nat,
         count' = [count EXCEPT ![IpKey(req[q], l)] = @ + e],
         NEW n, req' = [req EXCEPT ![q] = n], Sound(n), Kept(n, req[q]),
         n.day = req[q].day,
         \/ n.ip = req[q].ip
         \/ e >= 1 /\ n.ip = [req[q].ip EXCEPT ![l] = count'[IpKey(req[q], l)]],
         now' = now, expiry' = expiry
  PROVE  IInv'
<1> USE DEF IInv
<1> DEFINE key == IpKey(req[q], l)
<1>1. req \in [Req -> Request] /\ n \in Request /\ req' \in [Req -> Request]
  BY DEF Stored, Sound
<1>2. /\ key \in Key /\ count \in [Key -> Nat] /\ count' \in [Key -> Nat]
      /\ count'[key] = count[key] + e
      /\ \A k \in Key : count'[k] >= count[k]
      /\ now \in Nat /\ \A k \in Key : k # key => count'[k] = count[k]
  <2>1. key \in Key /\ key \in DOMAIN count
    BY <1>1, KeyFacts DEF Stored
  <2>2. count \in [Key -> Nat] /\ now \in Nat
    BY RateLimitConstants DEF Stored, Times
  <2>3. count' = [count EXCEPT ![key] = @ + e]
    OBVIOUS
  <2> HIDE DEF key
  <2>4. count[key] + e \in Nat /\ count'[key] = count[key] + e
    BY <2>1, <2>2, <2>3
  <2>5. \A k \in Key : k # key => count'[k] = count[k]
    BY <2>1, <2>2, <2>3
  <2>6. count' \in [Key -> Nat]
    BY <2>1, <2>2, <2>3, <2>4
  <2>7. \A k \in Key : count'[k] >= count[k]
    <3> SUFFICES ASSUME NEW k \in Key PROVE count'[k] >= count[k]
      OBVIOUS
    <3>1. count[k] \in Nat /\ count[key] \in Nat
      BY <2>1, <2>2
    <3> QED BY <3>1, <2>4, <2>5
  <2> QED BY <2>1, <2>2, <2>4, <2>5, <2>6, <2>7
<1>3. /\ Stored' /\ \A p \in Req : Sound(req'[p])
  BY <1>1, <1>2 DEF Stored
<1>4. \A p \in Req : Kept(req'[p], req[p]) /\ req'[p].day = req[p].day
  BY <1>1 DEF Kept
<1>5. Prompt' /\ LateExpiry'
  BY <1>1, <1>4 DEF Prompt, Kept, LateExpiry
<1>6. \A p \in Req, m \in Limiter : /\ IpKey(req'[p], m) = IpKey(req[p], m)
                                    /\ DayKey(req'[p], m) = DayKey(req[p], m)
                                    /\ IpKey(req[p], m) \in Key
                                    /\ DayKey(req[p], m) \in Key
  BY <1>1, <1>4, KeyFacts DEF Kept, IpKey, DayKey
<1>7. \A p \in Req, m \in Limiter : \/ req'[p].ip[m] = req[p].ip[m]
                                    \/ /\ p = q /\ m = l /\ e >= 1
                                       /\ req'[p].ip[m] = count'[key]
  <2> SUFFICES ASSUME NEW p \in Req, NEW m \in Limiter
               PROVE  \/ req'[p].ip[m] = req[p].ip[m]
                      \/ /\ p = q /\ m = l /\ e >= 1
                         /\ req'[p].ip[m] = count'[key]
    OBVIOUS
  <2>1. req[q].ip \in [Limiter -> Nat]
    BY <1>1 DEF Request
  <2>2. \/ n.ip = req[q].ip
        \/ e >= 1 /\ n.ip = [req[q].ip EXCEPT ![l] = count'[key]]
    OBVIOUS
  <2> HIDE DEF key
  <2> QED BY <1>1, <2>1, <2>2
<1>8. DayTickets' /\ DayDistinct'
  <2>1. DayTickets'
    BY <1>1, <1>2, <1>4, <1>6 DEF DayTickets, Kept, Request
  <2>2. DayDistinct'
    BY <1>4, <1>6 DEF DayDistinct, Kept
  <2> QED BY <2>1, <2>2
<1>9. IpTickets'
  <2> SUFFICES ASSUME NEW p \in Req, NEW m \in Limiter, req'[p].ip[m] # 0
               PROVE  \/ req'[p].ip[m] <= count'[IpKey(req'[p], m)]
                      \/ now' >= WindowStart(req'[p].at, Minute) + IpTtl
    BY DEF IpTickets
  <2>1. CASE req'[p].ip[m] = req[p].ip[m]
    <3>1. req[p].ip[m] \in Nat
      BY <1>1 DEF Request
    <3>2. \/ req[p].ip[m] <= count[IpKey(req[p], m)]
          \/ now >= WindowStart(req[p].at, Minute) + IpTtl
      BY <2>1 DEF IpTickets
    <3> HIDE DEF key
    <3>3. count'[IpKey(req[p], m)] >= count[IpKey(req[p], m)]
          /\ count'[IpKey(req[p], m)] \in Nat /\ count[IpKey(req[p], m)] \in Nat
      BY <1>2, <1>6
    <3> QED BY <2>1, <3>1, <3>2, <3>3, <1>4, <1>6 DEF Kept
  <2>2. CASE p = q /\ m = l /\ req'[p].ip[m] = count'[key]
    BY <2>2, <1>2, <1>6
  <2> QED BY <2>1, <2>2, <1>7
<1>10. IpDistinct'
  <2>1. ASSUME NEW p \in Req, p # q, req[p].ip[l] # 0, IpKey(req[p], l) = key
        PROVE  req[p].ip[l] <= count[key]
    <3>1. \/ req[p].ip[l] <= count[key]
          \/ now >= key.from + IpTtl
      BY <2>1, <1>1, KeyFacts DEF IpTickets
    <3>2. now <= req[q].at + MaxDelay
      BY DEF Prompt
    <3>3. req[q].at < key.from + Minute /\ req[q].at \in Nat /\ key.from \in Nat
      <4>1. req[q] \in Request
        BY <1>1
      <4>2. req[q].at < key.from + Minute /\ key \in Key
        BY <4>1, KeyFacts
      <4>3. req[q].at \in Nat
        BY <4>1, RateLimitConstants DEF Request, Times
      <4>4. key.from \in Nat
        BY <4>2, RateLimitConstants DEF Key, Times
      <4> QED BY <4>2, <4>3, <4>4
    <3>4. now < key.from + IpTtl
      <4>1. now \in Nat
        BY <1>2
      <4> HIDE DEF key
      <4> QED BY <3>2, <3>3, <4>1, RateLimitConstants, KeysOutliveRequests
    <3> HIDE DEF key
    <3> QED BY <3>1, <3>3, <3>4, <1>2, RateLimitConstants
  <2>2. ASSUME NEW p \in Req, p # q, req[p].ip[l] # 0, IpKey(req[p], l) = key, e >= 1
        PROVE  req[p].ip[l] # count'[key]
    <3>1. req[p].ip[l] <= count[key]
      BY <2>1, <2>2
    <3>2. req[p].ip[l] \in Nat
      BY <1>1 DEF Request
    <3> HIDE DEF key
    <3> QED BY <3>1, <3>2, <2>2, <1>2
  <2> SUFFICES ASSUME NEW a \in Req, NEW b \in Req, NEW m \in Limiter,
                      a # b, req'[a].ip[m] # 0, req'[b].ip[m] # 0,
                      IpKey(req'[a], m) = IpKey(req'[b], m)
               PROVE  req'[a].ip[m] # req'[b].ip[m]
    BY DEF IpDistinct
  <2>3. IpKey(req[a], m) = IpKey(req[b], m)
    BY <1>6
  <2>4. CASE req'[a].ip[m] = req[a].ip[m] /\ req'[b].ip[m] = req[b].ip[m]
    BY <2>3, <2>4 DEF IpDistinct
  <2>5. CASE req'[a].ip[m] # req[a].ip[m]
    <3>1. a = q /\ m = l /\ e >= 1 /\ req'[a].ip[m] = count'[key]
      BY <2>5, <1>7
    <3>2. req'[b].ip[m] = req[b].ip[m]
      BY <3>1, <1>7
    <3> QED BY <3>1, <3>2, <2>2, <2>3
  <2>6. CASE req'[b].ip[m] # req[b].ip[m]
    <3>1. b = q /\ m = l /\ e >= 1 /\ req'[b].ip[m] = count'[key]
      BY <2>6, <1>7
    <3>2. req'[a].ip[m] = req[a].ip[m]
      BY <3>1, <1>7
    <3> QED BY <3>1, <3>2, <2>2, <2>3
  <2> QED BY <2>4, <2>5, <2>6
<1> QED BY <1>3, <1>5, <1>8, <1>9, <1>10
\* The same for a daily counter.
LEMMA DayTicketStep ==
  ASSUME IInv, NEW q \in Req, NEW l \in Limiter, req[q].pc \in Waiting,
         NEW e \in Nat,
         count' = [count EXCEPT ![DayKey(req[q], l)] = @ + e],
         NEW n, req' = [req EXCEPT ![q] = n], Sound(n), Kept(n, req[q]),
         n.ip = req[q].ip,
         \/ n.day = req[q].day
         \/ e >= 1 /\ n.day = [req[q].day EXCEPT ![l] = count'[DayKey(req[q], l)]],
         now' = now, expiry' = expiry
  PROVE  IInv'
<1> USE DEF IInv
<1> DEFINE key == DayKey(req[q], l)
<1>1. req \in [Req -> Request] /\ n \in Request /\ req' \in [Req -> Request]
  BY DEF Stored, Sound
<1>2. /\ key \in Key /\ count \in [Key -> Nat] /\ count' \in [Key -> Nat]
      /\ count'[key] = count[key] + e
      /\ \A k \in Key : count'[k] >= count[k]
      /\ now \in Nat /\ \A k \in Key : k # key => count'[k] = count[k]
  <2>1. key \in Key /\ key \in DOMAIN count
    BY <1>1, KeyFacts DEF Stored
  <2>2. count \in [Key -> Nat] /\ now \in Nat
    BY RateLimitConstants DEF Stored, Times
  <2>3. count' = [count EXCEPT ![key] = @ + e]
    OBVIOUS
  <2> HIDE DEF key
  <2>4. count[key] + e \in Nat /\ count'[key] = count[key] + e
    BY <2>1, <2>2, <2>3
  <2>5. \A k \in Key : k # key => count'[k] = count[k]
    BY <2>1, <2>2, <2>3
  <2>6. count' \in [Key -> Nat]
    BY <2>1, <2>2, <2>3, <2>4
  <2>7. \A k \in Key : count'[k] >= count[k]
    <3> SUFFICES ASSUME NEW k \in Key PROVE count'[k] >= count[k]
      OBVIOUS
    <3>1. count[k] \in Nat /\ count[key] \in Nat
      BY <2>1, <2>2
    <3> QED BY <3>1, <2>4, <2>5
  <2> QED BY <2>1, <2>2, <2>4, <2>5, <2>6, <2>7
<1>3. /\ Stored' /\ \A p \in Req : Sound(req'[p])
  BY <1>1, <1>2 DEF Stored
<1>4. \A p \in Req : Kept(req'[p], req[p]) /\ req'[p].ip = req[p].ip
  BY <1>1 DEF Kept
<1>5. Prompt' /\ LateExpiry'
  BY <1>1, <1>4 DEF Prompt, Kept, LateExpiry
<1>6. \A p \in Req, m \in Limiter : /\ DayKey(req'[p], m) = DayKey(req[p], m)
                                    /\ IpKey(req'[p], m) = IpKey(req[p], m)
                                    /\ DayKey(req[p], m) \in Key
                                    /\ IpKey(req[p], m) \in Key
  BY <1>1, <1>4, KeyFacts DEF Kept, DayKey, IpKey
<1>7. \A p \in Req, m \in Limiter : \/ req'[p].day[m] = req[p].day[m]
                                    \/ /\ p = q /\ m = l /\ e >= 1
                                       /\ req'[p].day[m] = count'[key]
  <2> SUFFICES ASSUME NEW p \in Req, NEW m \in Limiter
               PROVE  \/ req'[p].day[m] = req[p].day[m]
                      \/ /\ p = q /\ m = l /\ e >= 1
                         /\ req'[p].day[m] = count'[key]
    OBVIOUS
  <2>1. req[q].day \in [Limiter -> Nat]
    BY <1>1 DEF Request
  <2>2. \/ n.day = req[q].day
        \/ e >= 1 /\ n.day = [req[q].day EXCEPT ![l] = count'[key]]
    OBVIOUS
  <2> HIDE DEF key
  <2> QED BY <1>1, <2>1, <2>2
<1>8. IpTickets' /\ IpDistinct'
  <2>1. IpTickets'
    BY <1>1, <1>2, <1>4, <1>6 DEF IpTickets, Kept, Request
  <2>2. IpDistinct'
    BY <1>4, <1>6 DEF IpDistinct, Kept
  <2> QED BY <2>1, <2>2
<1>9. DayTickets'
  <2> SUFFICES ASSUME NEW p \in Req, NEW m \in Limiter, req'[p].day[m] # 0
               PROVE  \/ req'[p].day[m] <= count'[DayKey(req'[p], m)]
                      \/ now' >= WindowStart(req'[p].at, Day) + DayTtl
    BY DEF DayTickets
  <2>1. CASE req'[p].day[m] = req[p].day[m]
    <3>1. req[p].day[m] \in Nat
      BY <1>1 DEF Request
    <3>2. \/ req[p].day[m] <= count[DayKey(req[p], m)]
          \/ now >= WindowStart(req[p].at, Day) + DayTtl
      BY <2>1 DEF DayTickets
    <3> HIDE DEF key
    <3>3. count'[DayKey(req[p], m)] >= count[DayKey(req[p], m)]
          /\ count'[DayKey(req[p], m)] \in Nat /\ count[DayKey(req[p], m)] \in Nat
      BY <1>2, <1>6
    <3> QED BY <2>1, <3>1, <3>2, <3>3, <1>4, <1>6 DEF Kept
  <2>2. CASE p = q /\ m = l /\ req'[p].day[m] = count'[key]
    BY <2>2, <1>2, <1>6
  <2> QED BY <2>1, <2>2, <1>7
<1>10. DayDistinct'
  <2>1. ASSUME NEW p \in Req, p # q, req[p].day[l] # 0, DayKey(req[p], l) = key
        PROVE  req[p].day[l] <= count[key]
    <3>1. \/ req[p].day[l] <= count[key]
          \/ now >= key.from + DayTtl
      BY <2>1, <1>1, KeyFacts DEF DayTickets
    <3>2. now <= req[q].at + MaxDelay
      BY DEF Prompt
    <3>3. req[q].at < key.from + Day /\ req[q].at \in Nat /\ key.from \in Nat
      <4>1. req[q] \in Request
        BY <1>1
      <4>2. req[q].at < key.from + Day /\ key \in Key
        BY <4>1, KeyFacts
      <4>3. req[q].at \in Nat
        BY <4>1, RateLimitConstants DEF Request, Times
      <4>4. key.from \in Nat
        BY <4>2, RateLimitConstants DEF Key, Times
      <4> QED BY <4>2, <4>3, <4>4
    <3>4. now < key.from + DayTtl
      <4>1. now \in Nat
        BY <1>2
      <4> HIDE DEF key
      <4> QED BY <3>2, <3>3, <4>1, RateLimitConstants, KeysOutliveRequests
    <3> HIDE DEF key
    <3> QED BY <3>1, <3>3, <3>4, <1>2, RateLimitConstants
  <2>2. ASSUME NEW p \in Req, p # q, req[p].day[l] # 0, DayKey(req[p], l) = key, e >= 1
        PROVE  req[p].day[l] # count'[key]
    <3>1. req[p].day[l] <= count[key]
      BY <2>1, <2>2
    <3>2. req[p].day[l] \in Nat
      BY <1>1 DEF Request
    <3> HIDE DEF key
    <3> QED BY <3>1, <3>2, <2>2, <1>2
  <2> SUFFICES ASSUME NEW a \in Req, NEW b \in Req, NEW m \in Limiter,
                      a # b, req'[a].day[m] # 0, req'[b].day[m] # 0,
                      DayKey(req'[a], m) = DayKey(req'[b], m)
               PROVE  req'[a].day[m] # req'[b].day[m]
    BY DEF DayDistinct
  <2>3. DayKey(req[a], m) = DayKey(req[b], m)
    BY <1>6
  <2>4. CASE req'[a].day[m] = req[a].day[m] /\ req'[b].day[m] = req[b].day[m]
    BY <2>3, <2>4 DEF DayDistinct
  <2>5. CASE req'[a].day[m] # req[a].day[m]
    <3>1. a = q /\ m = l /\ e >= 1 /\ req'[a].day[m] = count'[key]
      BY <2>5, <1>7
    <3>2. req'[b].day[m] = req[b].day[m]
      BY <3>1, <1>7
    <3> QED BY <3>1, <3>2, <2>2, <2>3
  <2>6. CASE req'[b].day[m] # req[b].day[m]
    <3>1. b = q /\ m = l /\ e >= 1 /\ req'[b].day[m] = count'[key]
      BY <2>6, <1>7
    <3>2. req'[a].day[m] = req[a].day[m]
      BY <3>1, <1>7
    <3> QED BY <3>1, <3>2, <2>2, <2>3
  <2> QED BY <2>4, <2>5, <2>6
<1> QED BY <1>3, <1>5, <1>8, <1>9, <1>10
-----------------------------------------------------------------------------
(* The actions.                                                            *)

\* Taking a ticket at the per-minute counter.
WithIp(r, c) == [r EXCEPT !.ip[Lim(r)] = c]

LEMMA IpTicketSound ==
  ASSUME NEW r, Sound(r), r.pc = "ip", NEW c \in Nat
  PROVE  LET n == WithIp(r, c) IN
         /\ Sound(n) /\ Lim(n) = Lim(r) /\ n.pc = "ip" /\ n.ip[Lim(r)] = c
         /\ Kept(n, r) /\ n.day = r.day /\ n.ip = [r.ip EXCEPT ![Lim(r)] = c]
<1> DEFINE n == WithIp(r, c)
<1>1. Lim(r) \in Limiter /\ r.k \in 1..Len(Plan[r.route])
  BY LimType DEF Waiting
<1>2. r \in Request /\ r.route \in Route
  BY DEF Sound, Request
<1>3. /\ n \in Request /\ n.pc = r.pc /\ n.k = r.k /\ Kept(n, r)
      /\ n.open = r.open /\ n.day = r.day /\ n.ip = [r.ip EXCEPT ![Lim(r)] = c]
  <2> DEFINE lim == Lim(r)
  <2>1. lim \in Limiter
    BY <1>1
  <2>2. n = [r EXCEPT !.ip = [r.ip EXCEPT ![lim] = c]]
    BY DEF WithIp
  <2> HIDE DEF n
  <2> HIDE DEF lim
  <2>3. [r.ip EXCEPT ![lim] = c] \in [Limiter -> Nat]
    BY <1>2, <2>1 DEF Request
  <2>4. /\ n \in Request /\ n.pc = r.pc /\ n.k = r.k /\ Kept(n, r)
        /\ n.open = r.open /\ n.day = r.day /\ n.ip = [r.ip EXCEPT ![lim] = c]
    BY <1>2, <2>2, <2>3 DEF Request, Kept
  <2> QED BY <2>4 DEF lim
<1> HIDE DEF n
<1>4. Lim(n) = Lim(r) /\ n.ip[Lim(r)] = c
      /\ \A l \in Limiter : l # Lim(r) => n.ip[l] = r.ip[l]
  BY <1>1, <1>2, <1>3 DEF Lim, Kept, Request
<1>5. ~ PassedBy(r, Lim(r))
  <2> SUFFICES ASSUME NEW j \in 1..(r.k - 1), Plan[r.route][j] = Lim(r)
               PROVE  FALSE
    BY DEF PassedBy
  <2>1. j \in 1..Len(Plan[r.route]) /\ j # r.k
    BY <1>1, <1>2, PlanFacts
  <2> QED BY <1>1, <1>2, <2>1, PlanFacts DEF Lim
<1>6. r.day[Lim(r)] = 0
  BY <1>1 DEF Sound, Lim
<1>7. \A l \in Limiter : PassedBy(n, l) <=> PassedBy(r, l)
  BY <1>3 DEF PassedBy, Kept
<1>8. /\ Sound(n) /\ Lim(n) = Lim(r) /\ n.pc = "ip" /\ n.ip[Lim(r)] = c
      /\ Kept(n, r) /\ n.day = r.day /\ n.ip = [r.ip EXCEPT ![Lim(r)] = c]
  BY <1>1, <1>3, <1>4, <1>5, <1>6, <1>7 DEF Sound, Waiting, Kept
<1> QED BY <1>8 DEF n

\* Taking a ticket at the daily counter.
WithDay(r, c) == [r EXCEPT !.day[Lim(r)] = c]

LEMMA DayTicketSound ==
  ASSUME NEW r, Sound(r), r.pc = "day", NEW c \in Nat
  PROVE  LET n == WithDay(r, c) IN
         /\ Sound(n) /\ Lim(n) = Lim(r) /\ n.pc = "day" /\ n.day[Lim(r)] = c
         /\ Kept(n, r) /\ n.ip = r.ip /\ n.day = [r.day EXCEPT ![Lim(r)] = c]
<1> DEFINE n == WithDay(r, c)
<1>1. Lim(r) \in Limiter /\ r.k \in 1..Len(Plan[r.route])
  BY LimType DEF Waiting
<1>2. r \in Request /\ r.route \in Route
  BY DEF Sound, Request
<1>3. /\ n \in Request /\ n.pc = r.pc /\ n.k = r.k /\ Kept(n, r)
      /\ n.open = r.open /\ n.ip = r.ip /\ n.day = [r.day EXCEPT ![Lim(r)] = c]
  <2> DEFINE lim == Lim(r)
  <2>1. lim \in Limiter
    BY <1>1
  <2>2. n = [r EXCEPT !.day = [r.day EXCEPT ![lim] = c]]
    BY DEF WithDay
  <2> HIDE DEF n
  <2> HIDE DEF lim
  <2>3. [r.day EXCEPT ![lim] = c] \in [Limiter -> Nat]
    BY <1>2, <2>1 DEF Request
  <2>4. /\ n \in Request /\ n.pc = r.pc /\ n.k = r.k /\ Kept(n, r)
        /\ n.open = r.open /\ n.ip = r.ip /\ n.day = [r.day EXCEPT ![lim] = c]
    BY <1>2, <2>2, <2>3 DEF Request, Kept
  <2> QED BY <2>4 DEF lim
<1> HIDE DEF n
<1>4. Lim(n) = Lim(r) /\ n.day[Lim(r)] = c
      /\ \A l \in Limiter : l # Lim(r) => n.day[l] = r.day[l]
  BY <1>1, <1>2, <1>3 DEF Lim, Kept, Request
<1>5. ~ PassedBy(r, Lim(r))
  <2> SUFFICES ASSUME NEW j \in 1..(r.k - 1), Plan[r.route][j] = Lim(r)
               PROVE  FALSE
    BY DEF PassedBy
  <2>1. j \in 1..Len(Plan[r.route]) /\ j # r.k
    BY <1>1, <1>2, PlanFacts
  <2> QED BY <1>1, <1>2, <2>1, PlanFacts DEF Lim
<1>6. \A j \in 1..Len(Plan[r.route]) : j > r.k => Plan[r.route][j] # Lim(r)
                                              /\ Plan[r.route][j] \in Limiter
  BY <1>1, <1>2, PlanFacts DEF Lim
<1>7. \A l \in Limiter : PassedBy(n, l) <=> PassedBy(r, l)
  BY <1>3 DEF PassedBy, Kept
<1>8. /\ Sound(n) /\ Lim(n) = Lim(r) /\ n.pc = "day" /\ n.day[Lim(r)] = c
      /\ Kept(n, r) /\ n.ip = r.ip /\ n.day = [r.day EXCEPT ![Lim(r)] = c]
  BY <1>1, <1>3, <1>4, <1>5, <1>6, <1>7 DEF Sound, Waiting, Kept
<1> QED BY <1>8 DEF n

\* A request arrives with no ticket.
LEMMA ArriveStep ==
  ASSUME IInv, NEW q \in Req, Arrive(q)
  PROVE  IInv'
<1> USE DEF IInv
<1> DEFINE n == [req[q] EXCEPT !.pc = "ip", !.at = now]
<1>1. /\ req \in [Req -> Request] /\ req[q].pc = "new" /\ now \in Times
      /\ req' = [req EXCEPT ![q] = n] /\ count' = count /\ now' = now
      /\ expiry' = expiry
  BY DEF Stored, Arrive, At
<1>2. /\ n \in Request /\ n.pc = "ip" /\ n.at = now /\ n.k = req[q].k
      /\ n.route = req[q].route /\ n.open = req[q].open
      /\ n.ip = req[q].ip /\ n.day = req[q].day
  BY <1>1 DEF Request
<1>3. \A l \in Limiter : n.ip[l] = 0 /\ n.day[l] = 0
  BY <1>1, <1>2 DEF Sound
<1>4. Sound(n)
  <2>1. n.route \in Route /\ n.k = 1
    BY <1>1, <1>2 DEF Sound, Request
  <2>2. n.k <= Len(Plan[n.route]) /\ n.k \in 1..(Len(Plan[n.route]) + 1)
    BY <2>1, PlanFacts
  <2>3. \A l : ~ PassedBy(n, l)
    BY <2>1 DEF PassedBy
  <2> QED BY <1>1, <1>2, <1>3, <2>1, <2>2, <2>3, PlanFacts DEF Sound, Waiting
<1>5. Stored' /\ \A p \in Req : Sound(req'[p])
  BY <1>1, <1>2, <1>4 DEF Stored
<1> HIDE DEF n
<1>6. Prompt' /\ LateExpiry'
  BY <1>1, <1>2, RateLimitConstants DEF Prompt, LateExpiry, Times
<1>7. \A p \in Req, l \in Limiter :
        (req'[p].ip[l] # 0 \/ req'[p].day[l] # 0) => p # q /\ req'[p] = req[p]
  BY <1>1, <1>3
<1>8. IpTickets' /\ DayTickets'
  BY <1>1, <1>7 DEF IpTickets, DayTickets
<1>9. IpDistinct' /\ DayDistinct'
  BY <1>1, <1>7 DEF IpDistinct, DayDistinct
<1> QED BY <1>5, <1>6, <1>8, <1>9

\* The two steps of the per-minute counter.
LEMMA IncrIpStep ==
  ASSUME IInv, NEW q \in Req, IncrIp(q)
  PROVE  IInv'
<1> DEFINE l == Lim(req[q])
           key == IpKey(req[q], l)
           r == [req[q] EXCEPT !.ip[l] = count'[key]]
           next == IF FirstHit(count'[key]) THEN [r EXCEPT !.pc = "ipttl"]
                                            ELSE CheckedIp(r)
<1>1. PICK o \in Possible : Incr(key, o) /\ Continue(q, o, next)
  BY DEF IncrIp
<1>2. /\ req \in [Req -> Request] /\ req[q].pc = "ip" /\ Sound(req[q])
      /\ count \in [Key -> Nat] /\ now' = now /\ expiry' = expiry
  BY DEF IInv, Stored, IncrIp, At
<1>3. l \in Limiter
  BY <1>2, LimType DEF Waiting
<1>4. key \in Key
  BY <1>2, <1>3, KeyFacts
<1>5. Effects(o) \in Nat /\ (o \in Answered => Effects(o) >= 1)
  BY EffectsFacts
<1>6. /\ count' = [count EXCEPT ![key] = @ + Effects(o)]
      /\ count'[key] = count[key] + Effects(o) /\ count[key] \in Nat
  <2>1. count' = [count EXCEPT ![key] = @ + Effects(o)]
    BY <1>1 DEF Incr
  <2> HIDE DEF key
  <2> QED BY <2>1, <1>2, <1>4
<1>7. CASE o \notin Answered
  <2>1. req' = [req EXCEPT ![q] = Caught(req[q])]
    BY <1>1, <1>7 DEF Continue
  <2>2. Sound(Caught(req[q])) /\ SameTickets(Caught(req[q]), req[q])
    BY <1>2, CaughtSound, AnswersKeepTickets DEF Waiting
  <2> QED BY <1>2, <1>3, <1>5, <1>6, <2>1, <2>2, IpTicketStep
          DEF SameTickets, Waiting
<1>8. CASE o \in Answered
  <2>1. count'[key] \in Nat \ {0}
    BY <1>5, <1>6, <1>8
  <2>2. /\ Sound(r) /\ Lim(r) = l /\ r.pc = "ip" /\ r.ip[l] = count'[key]
        /\ Kept(r, req[q]) /\ r.day = req[q].day
        /\ r.ip = [req[q].ip EXCEPT ![l] = count'[key]]
    <3>1. r = WithIp(req[q], count'[key]) /\ count'[key] \in Nat
      BY <2>1 DEF WithIp
    <3> HIDE DEF r
    <3>2. req[q].pc = "ip" /\ Sound(req[q])
      BY <1>2
    <3> QED BY <3>1, <3>2, IpTicketSound
  <2> HIDE DEF r
  <2>3. Sound(next) /\ Kept(next, r) /\ next.ip = r.ip /\ next.day = r.day
    <3>1. CASE FirstHit(count'[key])
      <4> DEFINE n == [r EXCEPT !.pc = "ipttl"]
      <4>1. r.ip[l] \in 1..PerIp[l]
        BY <3>1, <2>2, <1>3, RateLimitConstants DEF FirstHit
      <4>2. /\ n \in Request /\ n.pc = "ipttl" /\ n.k = r.k /\ Kept(n, r)
            /\ n.route = r.route /\ n.open = r.open /\ n.ip = r.ip
            /\ n.day = r.day /\ Lim(n) = Lim(r)
        BY <2>2 DEF Sound, Request, Kept, Lim
      <4>3. Sound(n)
        BY <2>2, <4>1, <4>2 DEF Sound, PassedBy, Waiting
      <4> QED BY <3>1, <4>2, <4>3
    <3>2. CASE ~FirstHit(count'[key])
      <4>1. Sound(CheckedIp(r)) /\ SameTickets(CheckedIp(r), r)
        BY <2>1, <2>2, CheckedIpSound, AnswersKeepTickets DEF Sound
      <4> QED BY <3>2, <4>1 DEF SameTickets
    <3> QED BY <3>1, <3>2
  <2> HIDE DEF next
  <2>4. req' = [req EXCEPT ![q] = next]
    BY <1>1, <1>8 DEF Continue
  <2>5. Kept(next, req[q]) /\ next.day = req[q].day
        /\ next.ip = [req[q].ip EXCEPT ![l] = count'[key]]
    BY <2>2, <2>3 DEF Kept
  <2>6. Effects(o) >= 1
    BY <1>5, <1>8
  <2> QED BY <1>2, <1>3, <1>5, <1>6, <2>3, <2>4, <2>5, <2>6, IpTicketStep
          DEF Waiting
<1> QED BY <1>7, <1>8

\* EXPIRE keeps keys for their whole TTL.
LEMMA ExpireFacts ==
  ASSUME IInv, NEW key \in Key, NEW ttl \in Nat \ {0}, NEW o,
         Expire(key, ttl, o), now >= key.from,
         ttl = IF key.client = All THEN DayTtl ELSE IpTtl, now' = now
  PROVE  expiry' \in [Key -> Nat] /\ LateExpiry'
<1>1. expiry \in [Key -> Nat] /\ now \in Nat /\ key.from \in Nat
  BY RateLimitConstants DEF IInv, Stored, Times, Key
<1>2. \/ expiry' = expiry
      \/ expiry' = [expiry EXCEPT ![key] = now + ttl]
  BY DEF Expire
<1>3. CASE expiry' = expiry
  BY <1>1, <1>3 DEF IInv, LateExpiry
<1>4. CASE expiry' = [expiry EXCEPT ![key] = now + ttl]
  <2>1. expiry' \in [Key -> Nat]
    BY <1>1, <1>4
  <2>2. ASSUME NEW k \in Key, expiry'[k] # NoExpiry
        PROVE  expiry'[k] >= k.from + (IF k.client = All THEN DayTtl ELSE IpTtl)
    <3>1. CASE k = key
      BY <1>1, <1>4, <3>1, RateLimitConstants
    <3>2. CASE k # key
      BY <1>1, <1>4, <2>2, <3>2 DEF IInv, LateExpiry
    <3> QED BY <3>1, <3>2
  <2> QED BY <2>1, <2>2 DEF LateExpiry
<1> QED BY <1>2, <1>3, <1>4

\* After EXPIRE the request goes on as its ticket says.
LEMMA ExpireIpStep ==
  ASSUME IInv, NEW q \in Req, ExpireIp(q)
  PROVE  IInv'
<1> DEFINE r == req[q]
           key == IpKey(r, Lim(r))
<1>1. PICK o \in Possible : Expire(key, IpTtl, o) /\ Continue(q, o, CheckedIp(r))
  BY DEF ExpireIp
<1>2. /\ r \in Request /\ r.pc = "ipttl" /\ Sound(r) /\ now >= r.at
      /\ now' = now /\ count' = count
  BY DEF IInv, Stored, Prompt, ExpireIp, At, Waiting
<1>3. Lim(r) \in Limiter
  BY <1>2, LimType DEF Waiting
<1>4. key \in Key /\ key.client # All /\ now >= key.from
  <2>1. key \in Key /\ key.client # All /\ key.from <= r.at
    BY <1>2, <1>3, KeyFacts
  <2>2. key.from \in Nat /\ r.at \in Nat /\ now \in Nat
    BY <1>2, <2>1, RateLimitConstants DEF IInv, Stored, Key, Request, Times
  <2> HIDE DEF key
  <2> QED BY <1>2, <2>1, <2>2
<1>5. expiry' \in [Key -> Nat] /\ LateExpiry'
  BY <1>1, <1>2, <1>4, ExpireFacts, RateLimitConstants
<1>6. r.ip[Lim(r)] # 0
  <2>1. r.ip[Lim(r)] \in 1..PerIp[Lim(r)]
    BY <1>2 DEF Sound
  <2> QED BY <2>1
<1>7. /\ Sound(CheckedIp(r)) /\ SameTickets(CheckedIp(r), r)
      /\ Sound(Caught(r)) /\ SameTickets(Caught(r), r)
  BY <1>2, <1>6, CheckedIpSound, CaughtSound, AnswersKeepTickets DEF Waiting
<1>8. \/ req' = [req EXCEPT ![q] = CheckedIp(r)]
      \/ req' = [req EXCEPT ![q] = Caught(r)]
  BY <1>1 DEF Continue
<1> QED BY <1>2, <1>5, <1>7, <1>8, QuietStep DEF Waiting

\* The two steps of the daily counter.
LEMMA IncrDayStep ==
  ASSUME IInv, NEW q \in Req, IncrDay(q)
  PROVE  IInv'
<1> DEFINE l == Lim(req[q])
           key == DayKey(req[q], l)
           r == [req[q] EXCEPT !.day[l] = count'[key]]
           next == IF FirstHit(count'[key]) THEN [r EXCEPT !.pc = "dayttl"]
                                            ELSE CheckedDay(r)
<1>1. PICK o \in Possible : Incr(key, o) /\ Continue(q, o, next)
  BY DEF IncrDay
<1>2. /\ req \in [Req -> Request] /\ req[q].pc = "day" /\ Sound(req[q])
      /\ count \in [Key -> Nat] /\ now' = now /\ expiry' = expiry
  BY DEF IInv, Stored, IncrDay, At
<1>3. l \in Limiter
  BY <1>2, LimType DEF Waiting
<1>4. key \in Key
  BY <1>2, <1>3, KeyFacts
<1>5. Effects(o) \in Nat /\ (o \in Answered => Effects(o) >= 1)
  BY EffectsFacts
<1>6. /\ count' = [count EXCEPT ![key] = @ + Effects(o)]
      /\ count'[key] = count[key] + Effects(o) /\ count[key] \in Nat
  <2>1. count' = [count EXCEPT ![key] = @ + Effects(o)]
    BY <1>1 DEF Incr
  <2> HIDE DEF key
  <2> QED BY <2>1, <1>2, <1>4
<1>7. CASE o \notin Answered
  <2>1. req' = [req EXCEPT ![q] = Caught(req[q])]
    BY <1>1, <1>7 DEF Continue
  <2>2. Sound(Caught(req[q])) /\ SameTickets(Caught(req[q]), req[q])
    BY <1>2, CaughtSound, AnswersKeepTickets DEF Waiting
  <2> QED BY <1>2, <1>3, <1>5, <1>6, <2>1, <2>2, DayTicketStep
          DEF SameTickets, Waiting
<1>8. CASE o \in Answered
  <2>1. count'[key] \in Nat \ {0}
    BY <1>5, <1>6, <1>8
  <2>2. /\ Sound(r) /\ Lim(r) = l /\ r.pc = "day" /\ r.day[l] = count'[key]
        /\ Kept(r, req[q]) /\ r.ip = req[q].ip
        /\ r.day = [req[q].day EXCEPT ![l] = count'[key]]
    <3>1. r = WithDay(req[q], count'[key]) /\ count'[key] \in Nat
      BY <2>1 DEF WithDay
    <3> HIDE DEF r
    <3>2. req[q].pc = "day" /\ Sound(req[q])
      BY <1>2
    <3> QED BY <3>1, <3>2, DayTicketSound
  <2> HIDE DEF r
  <2>3. Sound(next) /\ Kept(next, r) /\ next.day = r.day /\ next.ip = r.ip
    <3>1. CASE FirstHit(count'[key])
      <4> DEFINE n == [r EXCEPT !.pc = "dayttl"]
      <4>1. r.day[l] \in 1..PerDay[l]
        BY <3>1, <2>2, <1>3, RateLimitConstants DEF FirstHit
      <4>2. /\ n \in Request /\ n.pc = "dayttl" /\ n.k = r.k /\ Kept(n, r)
            /\ n.route = r.route /\ n.open = r.open /\ n.day = r.day
            /\ n.ip = r.ip /\ Lim(n) = Lim(r)
        BY <2>2 DEF Sound, Request, Kept, Lim
      <4>3. Sound(n)
        BY <2>2, <4>1, <4>2 DEF Sound, PassedBy, Waiting
      <4> QED BY <3>1, <4>2, <4>3
    <3>2. CASE ~FirstHit(count'[key])
      <4>1. Sound(CheckedDay(r)) /\ SameTickets(CheckedDay(r), r)
        BY <2>1, <2>2, CheckedDaySound, AnswersKeepTickets DEF Sound
      <4> QED BY <3>2, <4>1 DEF SameTickets
    <3> QED BY <3>1, <3>2
  <2> HIDE DEF next
  <2>4. req' = [req EXCEPT ![q] = next]
    BY <1>1, <1>8 DEF Continue
  <2>5. Kept(next, req[q]) /\ next.ip = req[q].ip
        /\ next.day = [req[q].day EXCEPT ![l] = count'[key]]
    BY <2>2, <2>3 DEF Kept
  <2>6. Effects(o) >= 1
    BY <1>5, <1>8
  <2> QED BY <1>2, <1>3, <1>5, <1>6, <2>3, <2>4, <2>5, <2>6, DayTicketStep
          DEF Waiting
<1> QED BY <1>7, <1>8

\* After EXPIRE the request goes on as its ticket says.
LEMMA ExpireDayStep ==
  ASSUME IInv, NEW q \in Req, ExpireDay(q)
  PROVE  IInv'
<1> DEFINE r == req[q]
           key == DayKey(r, Lim(r))
<1>1. PICK o \in Possible : Expire(key, DayTtl, o) /\ Continue(q, o, CheckedDay(r))
  BY DEF ExpireDay
<1>2. /\ r \in Request /\ r.pc = "dayttl" /\ Sound(r) /\ now >= r.at
      /\ now' = now /\ count' = count
  BY DEF IInv, Stored, Prompt, ExpireDay, At, Waiting
<1>3. Lim(r) \in Limiter
  BY <1>2, LimType DEF Waiting
<1>4. key \in Key /\ key.client = All /\ now >= key.from
  <2>1. key \in Key /\ key.client = All /\ key.from <= r.at
    BY <1>2, <1>3, KeyFacts
  <2>2. key.from \in Nat /\ r.at \in Nat /\ now \in Nat
    BY <1>2, <2>1, RateLimitConstants DEF IInv, Stored, Key, Request, Times
  <2> HIDE DEF key
  <2> QED BY <1>2, <2>1, <2>2
<1>5. expiry' \in [Key -> Nat] /\ LateExpiry'
  BY <1>1, <1>2, <1>4, ExpireFacts, RateLimitConstants
<1>6. r.day[Lim(r)] # 0
  <2>1. r.day[Lim(r)] \in 1..PerDay[Lim(r)]
    BY <1>2 DEF Sound
  <2> QED BY <2>1
<1>7. /\ Sound(CheckedDay(r)) /\ SameTickets(CheckedDay(r), r)
      /\ Sound(Caught(r)) /\ SameTickets(Caught(r), r)
  BY <1>2, <1>6, CheckedDaySound, CaughtSound, AnswersKeepTickets DEF Waiting
<1>8. \/ req' = [req EXCEPT ![q] = CheckedDay(r)]
      \/ req' = [req EXCEPT ![q] = Caught(r)]
  BY <1>1 DEF Continue
<1> QED BY <1>2, <1>5, <1>7, <1>8, QuietStep DEF Waiting

\* A tick drops only keys no request can meet again.
LEMMA TickStep ==
  ASSUME IInv, Tick
  PROVE  IInv'
<1> DEFINE gone == {k \in Key : expiry[k] # NoExpiry /\ expiry[k] <= now'}
<1>1. /\ req' = req /\ now' = now + 1 /\ now \in Nat /\ now' \in Times
      /\ count \in [Key -> Nat] /\ expiry \in [Key -> Nat]
      /\ req \in [Req -> Request]
  BY RateLimitConstants DEF IInv, Stored, Tick, Times
<1>2. /\ count'  = [k \in Key |-> IF k \in gone THEN 0 ELSE count[k]]
      /\ expiry' = [k \in Key |-> IF k \in gone THEN NoExpiry ELSE expiry[k]]
  BY DEF Tick
<1>3. Stored' /\ \A q \in Req : Sound(req'[q])
  BY <1>1, <1>2 DEF IInv, Stored, NoExpiry
<1>4. Prompt'
  <2> SUFFICES ASSUME NEW q \in Req, req[q].pc \in Waiting
               PROVE  req[q].at <= now' /\ now' <= req[q].at + MaxDelay
    BY <1>1 DEF Prompt
  <2>1. req[q].at <= now /\ now < req[q].at + MaxDelay
    BY DEF IInv, Prompt, Tick
  <2>2. req[q].at \in Nat
    BY <1>1, RateLimitConstants DEF Request, Times
  <2> QED BY <1>1, <2>1, <2>2, RateLimitConstants
<1>5. LateExpiry'
  BY <1>1, <1>2 DEF IInv, LateExpiry
<1>6. IpDistinct' /\ DayDistinct'
  BY <1>1 DEF IInv, IpDistinct, DayDistinct, IpKey, DayKey
<1>7. ASSUME NEW k \in Key, count'[k] # count[k]
      PROVE  now' >= k.from + (IF k.client = All THEN DayTtl ELSE IpTtl)
  <2>1. k \in gone
    BY <1>1, <1>2, <1>7
  <2>2. expiry[k] >= k.from + (IF k.client = All THEN DayTtl ELSE IpTtl)
    BY <2>1 DEF IInv, LateExpiry
  <2>3. expiry[k] \in Nat /\ expiry[k] <= now'
    BY <1>1, <2>1
  <2>4. k.from \in Nat
    BY RateLimitConstants DEF Key, Times
  <2> HIDE DEF gone
  <2> QED BY <1>1, <2>2, <2>3, <2>4, RateLimitConstants
<1>8. IpTickets'
  <2> SUFFICES ASSUME NEW q \in Req, NEW l \in Limiter, req[q].ip[l] # 0
               PROVE  \/ req[q].ip[l] <= count'[IpKey(req[q], l)]
                      \/ now' >= WindowStart(req[q].at, Minute) + IpTtl
    BY <1>1 DEF IpTickets, IpKey
  <2>1. /\ IpKey(req[q], l) \in Key /\ IpKey(req[q], l).client # All
        /\ IpKey(req[q], l).from = WindowStart(req[q].at, Minute)
        /\ IpKey(req[q], l).from \in Nat
    BY <1>1, KeyFacts, RateLimitConstants DEF Key, Times
  <2>2. \/ req[q].ip[l] <= count[IpKey(req[q], l)]
        \/ now >= WindowStart(req[q].at, Minute) + IpTtl
    BY DEF IInv, IpTickets
  <2>3. CASE count'[IpKey(req[q], l)] = count[IpKey(req[q], l)]
    BY <1>1, <2>1, <2>2, <2>3, RateLimitConstants
  <2>4. CASE count'[IpKey(req[q], l)] # count[IpKey(req[q], l)]
    BY <1>7, <2>1, <2>4
  <2> QED BY <2>3, <2>4
<1>9. DayTickets'
  <2> SUFFICES ASSUME NEW q \in Req, NEW l \in Limiter, req[q].day[l] # 0
               PROVE  \/ req[q].day[l] <= count'[DayKey(req[q], l)]
                      \/ now' >= WindowStart(req[q].at, Day) + DayTtl
    BY <1>1 DEF DayTickets, DayKey
  <2>1. /\ DayKey(req[q], l) \in Key /\ DayKey(req[q], l).client = All
        /\ DayKey(req[q], l).from = WindowStart(req[q].at, Day)
        /\ DayKey(req[q], l).from \in Nat
    BY <1>1, KeyFacts, RateLimitConstants DEF Key, Times
  <2>2. \/ req[q].day[l] <= count[DayKey(req[q], l)]
        \/ now >= WindowStart(req[q].at, Day) + DayTtl
    BY DEF IInv, DayTickets
  <2>3. CASE count'[DayKey(req[q], l)] = count[DayKey(req[q], l)]
    BY <1>1, <2>1, <2>2, <2>3, RateLimitConstants
  <2>4. CASE count'[DayKey(req[q], l)] # count[DayKey(req[q], l)]
    BY <1>7, <2>1, <2>4
  <2> QED BY <2>3, <2>4
<1> QED BY <1>3, <1>4, <1>5, <1>6, <1>8, <1>9 DEF IInv

\* Every step keeps the invariant.
LEMMA NextStep ==
  ASSUME IInv, [Next]_vars
  PROVE  IInv'
<1>1. ASSUME NEW q \in Req,
             Arrive(q) \/ IncrIp(q) \/ ExpireIp(q) \/ IncrDay(q) \/ ExpireDay(q)
      PROVE  IInv'
  BY <1>1, ArriveStep, IncrIpStep, ExpireIpStep, IncrDayStep, ExpireDayStep
<1>2. CASE Tick
  BY <1>2, TickStep
<1>3. CASE UNCHANGED vars
  BY <1>3 DEF IInv, Stored, Prompt, LateExpiry, IpTickets, DayTickets, IpDistinct,
              DayDistinct, vars
<1> QED BY <1>1, <1>2, <1>3 DEF Next

\* It holds initially.
LEMMA InitInv ==
  ASSUME Init
  PROVE  IInv
<1>1. /\ now \in Times /\ count \in [Key -> Nat] /\ expiry \in [Key -> Nat]
      /\ \A k \in Key : expiry[k] = NoExpiry
  BY RateLimitConstants DEF Init, Times, NoExpiry
<1>2. ASSUME NEW q \in Req
      PROVE  /\ req[q] \in Request /\ req[q].pc = "new" /\ req[q].k = 1
             /\ req[q].open = {}
             /\ \A l \in Limiter : req[q].ip[l] = 0 /\ req[q].day[l] = 0
  BY RateLimitConstants DEF Init, Request, Times
<1>3. req \in [Req -> Request]
  BY <1>2 DEF Init
<1>4. ASSUME NEW q \in Req
      PROVE  Sound(req[q])
  <2>1. req[q].route \in Route
    BY <1>2 DEF Request
  <2>2. \A l : ~ PassedBy(req[q], l)
    BY <1>2 DEF PassedBy
  <2> QED BY <1>2, <2>1, <2>2, PlanFacts DEF Sound, Waiting
<1>5. Prompt
  BY <1>2 DEF Prompt, Waiting
<1>6. IpTickets /\ DayTickets /\ IpDistinct /\ DayDistinct
  BY <1>2 DEF IpTickets, DayTickets, IpDistinct, DayDistinct
<1> QED BY <1>1, <1>3, <1>4, <1>5, <1>6 DEF IInv, Stored, LateExpiry
-----------------------------------------------------------------------------
(* The results.                                                            *)

\* Every limiter always satisfies the inductive invariant.
THEOREM Invariance == Spec => []IInv
<1>1. Init => IInv
  BY InitInv
<1>2. IInv /\ [Next]_vars => IInv'
  BY NextStep
<1> QED BY <1>1, <1>2, PTL DEF Spec

\* Counters, TTLs and requests keep their types (lib/ratelimit.ts).
THEOREM TypeCorrect == Spec => []TypeOK
<1>1. IInv => Stored
  BY DEF IInv
<1>2. Init => faulty \in BOOLEAN
  BY DEF Init
<1>3. faulty \in BOOLEAN /\ [Next]_vars => (faulty \in BOOLEAN)'
  BY DEF Next, Arrive, IncrIp, ExpireIp, IncrDay, ExpireDay, Tick, vars
<1>4. Stored /\ faulty \in BOOLEAN => TypeOK
  BY DEF TypeOK
<1> QED BY <1>1, <1>2, <1>3, <1>4, Invariance, PTL DEF Spec

\* Requests with distinct tickets of one limiter and minute, none over n.
LEMMA IpPigeons ==
  ASSUME IInv, NEW l \in Limiter, NEW c \in Client, NEW m \in Times,
         NEW S \in SUBSET Req,
         \A q \in S : /\ req[q].ip[l] \in 1..PerIp[l] /\ req[q].client = c
                      /\ WindowStart(req[q].at, Minute) = m
  PROVE  Cardinality(S) <= PerIp[l]
<1> DEFINE f == [q \in S |-> req[q].ip[l]]
<1>1. ASSUME NEW q \in S, NEW p \in S, f[q] = f[p]
      PROVE  q = p
  <2>1. IpKey(req[q], l) = IpKey(req[p], l)
    BY DEF IpKey
  <2> QED BY <1>1, <2>1 DEF IInv, IpDistinct
<1>2. f \in Injection(S, 1..PerIp[l])
  <2>1. f \in [S -> 1..PerIp[l]]
    OBVIOUS
  <2> HIDE DEF f
  <2> QED BY <1>1, <2>1 DEF Injection, IsInjective
<1>3. PerIp[l] \in Nat \ {0}
  BY RateLimitConstants
<1>4. IsFiniteSet(1..PerIp[l]) /\ Cardinality(1..PerIp[l]) = PerIp[l]
  BY <1>3, FS_Interval
<1> HIDE DEF f
<1> QED BY <1>2, <1>4, FS_Injection

\* The same for a limiter's day.
LEMMA DayPigeons ==
  ASSUME IInv, NEW l \in Limiter, NEW d \in Times, NEW S \in SUBSET Req,
         \A q \in S : /\ req[q].day[l] \in 1..PerDay[l]
                      /\ WindowStart(req[q].at, Day) = d
  PROVE  Cardinality(S) <= PerDay[l]
<1> DEFINE f == [q \in S |-> req[q].day[l]]
<1>1. ASSUME NEW q \in S, NEW p \in S, f[q] = f[p]
      PROVE  q = p
  <2>1. DayKey(req[q], l) = DayKey(req[p], l)
    BY DEF DayKey
  <2> QED BY <1>1, <2>1 DEF IInv, DayDistinct
<1>2. f \in Injection(S, 1..PerDay[l])
  <2>1. f \in [S -> 1..PerDay[l]]
    OBVIOUS
  <2> HIDE DEF f
  <2> QED BY <1>1, <2>1 DEF Injection, IsInjective
<1>3. PerDay[l] \in Nat \ {0}
  BY RateLimitConstants
<1>4. IsFiniteSet(1..PerDay[l]) /\ Cardinality(1..PerDay[l]) = PerDay[l]
  BY <1>3, FS_Interval
<1> HIDE DEF f
<1> QED BY <1>2, <1>4, FS_Injection

\* For any limits, clients and number of requests, and whatever the Redis client
\* re-sends or loses: a limiter whose Redis answers never lets more than its
\* limit of one client's requests through in one minute.
THEOREM MinuteBudgetHolds == Spec => []WithinMinuteBudget
<1>1. ASSUME IInv PROVE WithinMinuteBudget
  <2> SUFFICES ASSUME NEW l \in Limiter, NEW c \in Client, NEW m \in Times
               PROVE  Cardinality(AdmittedIn(l, c, m)) <= PerIp[l]
    BY DEF WithinMinuteBudget
  <2>1. \A q \in AdmittedIn(l, c, m) : req[q].ip[l] \in 1..PerIp[l]
    BY <1>1 DEF AdmittedIn, IInv, Sound
  <2> QED BY <1>1, <2>1, IpPigeons DEF AdmittedIn
<1> QED BY <1>1, Invariance, PTL

\* ... nor more than its daily ceiling of everybody's requests in one day.
THEOREM DayBudgetHolds == Spec => []WithinDayBudget
<1>1. ASSUME IInv PROVE WithinDayBudget
  <2> SUFFICES ASSUME NEW l \in Daily, NEW d \in Times
               PROVE  Cardinality(AdmittedOn(l, d)) <= PerDay[l]
    BY DEF WithinDayBudget
  <2>1. l \in Limiter
    BY RateLimitConstants
  <2>2. \A q \in AdmittedOn(l, d) : req[q].day[l] \in 1..PerDay[l]
    BY <1>1, <2>1 DEF AdmittedOn, IInv, Sound
  <2> QED BY <1>1, <2>1, <2>2, DayPigeons DEF AdmittedOn
<1> QED BY <1>1, Invariance, PTL

\* Both budgets, for any limits, clients and number of requests.
THEOREM BudgetsHold == Spec => []WithinBudgets
BY MinuteBudgetHolds, DayBudgetHolds, PTL DEF WithinBudgets

\* An IP-blocked request does not count toward the global cap: one client spends
\* at most its own limit of a daily budget in a minute.
THEOREM ClientSpendsItsShare == Spec => []OneClientSpendsItsShare
<1>1. ASSUME IInv PROVE OneClientSpendsItsShare
  <2> SUFFICES ASSUME NEW l \in Daily, NEW c \in Client, NEW m \in Times
               PROVE  Cardinality({q \in Req :
                        /\ req[q].day[l] # 0 /\ req[q].client = c
                        /\ WindowStart(req[q].at, Minute) = m}) <= PerIp[l]
    BY DEF OneClientSpendsItsShare
  <2>1. l \in Limiter
    BY RateLimitConstants
  <2>2. \A q \in Req : req[q].day[l] # 0 => req[q].ip[l] \in 1..PerIp[l]
    BY <1>1, <2>1 DEF IInv, Sound
  <2> QED BY <1>1, <2>1, <2>2, IpPigeons
<1> QED BY <1>1, Invariance, PTL

\* checkServerDriftLimit: a limiter that fails closed holds its limit through
\* every Redis error.
THEOREM ClosedHolds == Spec => []ClosedLimiterHolds
<1>1. ASSUME IInv PROVE ClosedLimiterHolds
  <2> SUFFICES ASSUME NEW l \in Limiter \ FailOpen, NEW c \in Client, NEW m \in Times
               PROVE  Cardinality({q \in Req :
                        /\ PassedBy(req[q], l) /\ req[q].client = c
                        /\ WindowStart(req[q].at, Minute) = m}) <= PerIp[l]
    BY DEF ClosedLimiterHolds
  <2>1. \A q \in Req : PassedBy(req[q], l) => req[q].ip[l] \in 1..PerIp[l]
    BY <1>1 DEF IInv, Sound
  <2> QED BY <1>1, <2>1, IpPigeons
<1> QED BY <1>1, Invariance, PTL
-----------------------------------------------------------------------------
(* While Redis answers: every ticket below one's own is held by somebody,  *)
(* so a request refused has a whole limit of others before it.             *)

\* What a request has taken, and is yet to take.
Clear(r) ==
  /\ r.open = {}
  /\ r.pc = "refusedIp" => r.k \in 1..Len(Plan[r.route]) /\ r.ip[Lim(r)] > PerIp[Lim(r)]
  /\ \A j \in 1..Len(Plan[r.route]) :
       j > r.k \/ (j = r.k /\ r.pc \in {"new", "ip"}) => r.ip[Plan[r.route][j]] = 0

Held(k, v) == \E p \in Req : IpKey(req[p], k.limiter) = k /\ req[p].ip[k.limiter] = v

Counted == \A k \in Key : k.client # All => \A v \in 1..count[k] : Held(k, v)

Below ==
  \A q \in Req, l \in Limiter, k \in Key :
    k = IpKey(req[q], l) => \A v \in 1..req[q].ip[l] : Held(k, v)

AnswerInv == (\A q \in Req : Clear(req[q])) /\ Counted /\ Below /\ EveryKeyExpires

\* Clear but for the ticket of the limiter it is at, which it has taken.
TookTicket(r) ==
  /\ r.open = {}
  /\ \A j \in 1..Len(Plan[r.route]) : j > r.k => r.ip[Plan[r.route][j]] = 0

LEMMA TookPassed ==
  ASSUME NEW r, Sound(r), TookTicket(r), r.pc \in Waiting
  PROVE  Clear(Passed(r))
<1> DEFINE n == Passed(r)
           pc == IF r.k = Len(Plan[r.route]) THEN "served" ELSE "ip"
<1>1. r \in Request /\ r.route \in Route /\ r.k \in 1..Len(Plan[r.route])
  BY LimType DEF Sound, Request
<1>2. /\ n.k = r.k + 1 /\ n.pc = pc /\ n.route = r.route /\ n.open = r.open /\ n.ip = r.ip
  <2>1. n = [r EXCEPT !.k = @ + 1, !.pc = pc] BY DEF Passed
  <2> HIDE DEF n, pc
  <2> QED BY <1>1, <2>1 DEF Request
<1>3. n.pc \in {"served", "ip"} BY <1>2
<1> HIDE DEF n, pc
<1>4. ASSUME NEW j \in 1..Len(Plan[n.route]), j > n.k \/ j = n.k
      PROVE  n.ip[Plan[n.route][j]] = 0
  <2>1. j \in 1..Len(Plan[r.route]) /\ j > r.k BY <1>1, <1>2, <1>4, PlanFacts
  <2> QED BY <1>2, <2>1 DEF TookTicket
<1>5. Clear(n) BY <1>2, <1>3, <1>4 DEF Clear, TookTicket
<1> QED BY <1>5 DEF n

LEMMA CheckedClear ==
  ASSUME NEW r, Sound(r), TookTicket(r)
  PROVE  /\ r.pc \in {"ip", "ipttl"} => Clear(CheckedIp(r))
         /\ r.pc \in {"day", "dayttl"} => Clear(CheckedDay(r))
<1>1. ASSUME NEW pc \in {"refusedIp", "day", "refusedDay", "ipttl", "dayttl"},
             r.pc \in Waiting, pc = "refusedIp" => OverIp(r, r.ip[Lim(r)])
      PROVE  Clear([r EXCEPT !.pc = pc])
  <2> DEFINE n == [r EXCEPT !.pc = pc]
  <2>1. r.k \in 1..Len(Plan[r.route]) BY <1>1, LimType
  <2>2. /\ n.pc = pc /\ n.k = r.k /\ n.route = r.route /\ n.open = r.open
        /\ n.ip = r.ip /\ Lim(n) = Lim(r)
    BY DEF Sound, Request, Lim
  <2> HIDE DEF n
  <2>3. Clear(n) BY <1>1, <2>1, <2>2 DEF Clear, TookTicket, OverIp
  <2> QED BY <2>3 DEF n
<1>2. ASSUME r.pc \in {"ip", "ipttl"} PROVE Clear(CheckedIp(r))
  BY <1>1, <1>2, TookPassed DEF CheckedIp, Waiting
<1>3. ASSUME r.pc \in {"day", "dayttl"} PROVE Clear(CheckedDay(r))
  BY <1>1, <1>3, TookPassed DEF CheckedDay, Waiting
<1> QED BY <1>2, <1>3

\* A request whose tickets stay, on counters of its own kind that do not grow.
LEMMA TicketsStay ==
  ASSUME IInv, AnswerInv, NEW q \in Req, NEW n, req' = [req EXCEPT ![q] = n], Clear(n),
         \A l \in Limiter : n.ip[l] = req[q].ip[l],
         \A l \in Limiter : n.ip[l] # 0 => IpKey(n, l) = IpKey(req[q], l),
         \A k \in Key : k.client # All => count'[k] = count[k]
  PROVE  (\A p \in Req : Clear(req'[p])) /\ Counted' /\ Below'
<1>1. req \in [Req -> Request] /\ \A k \in Key : k.limiter \in Limiter
  BY DEF IInv, Stored, Key
<1>2. \A p \in Req : Clear(req'[p]) BY <1>1 DEF AnswerInv
<1>3. ASSUME NEW k, k.limiter \in Limiter, NEW v \in Nat \ {0}, Held(k, v) PROVE Held(k, v)'
  BY <1>1, <1>3 DEF Held
<1>4. Counted'
  <2> SUFFICES ASSUME NEW k \in Key, k.client # All, NEW v \in 1..count'[k] PROVE Held(k, v)'
    BY DEF Counted
  <2>1. count'[k] = count[k] /\ Held(k, v) BY DEF AnswerInv, Counted
  <2> QED BY <1>1, <1>3, <2>1
<1>5. Below'
  <2> SUFFICES ASSUME NEW p \in Req, NEW l \in Limiter, NEW k \in Key, k = IpKey(req'[p], l),
                      NEW v \in 1..req'[p].ip[l]
               PROVE  Held(k, v)'
    BY DEF Below
  <2>1. req'[p].ip[l] = req[p].ip[l] /\ req[p].ip[l] \in Nat BY <1>1 DEF Request
  <2>2. k = IpKey(req[p], l) BY <1>1, <2>1
  <2>3. Held(k, v) BY <2>1, <2>2 DEF AnswerInv, Below
  <2> QED BY <1>1, <1>3, <2>1, <2>3
<1> QED BY <1>2, <1>4, <1>5

\* A counter whose creator stays, or whose TTL is set, is none that lives for ever.
LEMMA ExpiryStays ==
  ASSUME IInv, AnswerInv, NEW q \in Req, NEW n, req' = [req EXCEPT ![q] = n],
         NEW key \in Key,
         \A k \in Key : k # key => count'[k] = count[k] /\ expiry'[k] = expiry[k],
         req[q].pc = "ipttl" => key = IpKey(req[q], Lim(req[q])),
         req[q].pc = "dayttl" => key = DayKey(req[q], Lim(req[q])),
         \/ count'[key] = 0 \/ expiry'[key] # NoExpiry
         \/ n.pc = "ipttl" /\ key = IpKey(n, Lim(n))
         \/ n.pc = "dayttl" /\ key = DayKey(n, Lim(n))
         \/ /\ req[q].pc \notin {"ipttl", "dayttl"}
            /\ count[key] # 0 /\ expiry'[key] = expiry[key]
  PROVE  EveryKeyExpires'
<1>1. req \in [Req -> Request] /\ count \in [Key -> Nat] BY DEF IInv, Stored
<1> DEFINE Asks(r, k) == \/ r.pc = "ipttl" /\ k = IpKey(r, Lim(r))
                         \/ r.pc = "dayttl" /\ k = DayKey(r, Lim(r))
<1>2. \A k \in Key : count[k] # 0 /\ expiry[k] = NoExpiry => \E p \in Req : Asks(req[p], k)
  BY <1>1 DEF AnswerInv, EveryKeyExpires, At
<1>3. ASSUME NEW k \in Key, count'[k] # 0, expiry'[k] = NoExpiry
      PROVE  \E p \in Req : Asks(req'[p], k)
  <2>1. CASE k # key
    <3>1. PICK p \in Req : Asks(req[p], k) BY <1>2, <1>3, <2>1
    <3>2. p # q BY <2>1, <3>1
    <3> HIDE DEF Asks
    <3> QED BY <1>1, <3>1, <3>2
  <2>2. CASE k = key /\ Asks(n, key)
    <3> HIDE DEF Asks
    <3> QED BY <1>1, <2>2
  <2>3. CASE k = key /\ ~Asks(n, key)
    <3>1. /\ req[q].pc \notin {"ipttl", "dayttl"} /\ count[key] # 0
          /\ expiry[key] = NoExpiry
      BY <1>3, <2>3
    <3>2. PICK p \in Req : Asks(req[p], key) BY <1>2, <3>1
    <3>3. p # q BY <3>1, <3>2
    <3> HIDE DEF Asks
    <3> QED BY <1>1, <2>3, <3>2, <3>3
  <2> QED BY <2>1, <2>2, <2>3
<1>4. \A k \in Key : count'[k] > 0 => count'[k] # 0 OBVIOUS
<1> QED BY <1>3, <1>4 DEF EveryKeyExpires, At

LEMMA OnlyOk ==
  ASSUME ~faulty, NEW o \in Possible
  PROVE  o = "ok" /\ Effects(o) = 1 /\ o \in Answered
BY DEF Possible, Effects, Answered

LEMMA ClearTook == ASSUME NEW r, Clear(r) PROVE TookTicket(r)
BY DEF Clear, TookTicket

LEMMA ArriveAnswers ==
  ASSUME IInv, AnswerInv, NEW q \in Req, Arrive(q)
  PROVE  AnswerInv'
<1> DEFINE n == [req[q] EXCEPT !.pc = "ip", !.at = now]
<1>1. /\ req' = [req EXCEPT ![q] = n] /\ req[q].pc = "new" /\ req[q] \in Request
      /\ count' = count /\ expiry' = expiry /\ Sound(req[q]) /\ Clear(req[q])
  BY DEF Arrive, At, IInv, Stored, AnswerInv
<1>2. /\ n.pc = "ip" /\ n.k = req[q].k /\ n.route = req[q].route /\ n.open = req[q].open
      /\ n.ip = req[q].ip
  BY <1>1 DEF Request
<1> HIDE DEF n
<1>3. \A l \in Limiter : n.ip[l] = 0 BY <1>1, <1>2 DEF Sound
<1>4. Clear(n) BY <1>1, <1>2 DEF Clear
<1>5. (\A p \in Req : Clear(req'[p])) /\ Counted' /\ Below'
  BY <1>1, <1>2, <1>3, <1>4, TicketsStay
<1>6. EveryKeyExpires'
  <2> SUFFICES ASSUME NEW k \in Key, count[k] > 0, expiry[k] = NoExpiry
               PROVE  EveryKeyExpires'
    BY <1>1 DEF EveryKeyExpires
  <2>1. req \in [Req -> Request] BY DEF IInv, Stored
  <2> QED BY <1>1, <1>2, <2>1 DEF AnswerInv, EveryKeyExpires, At
<1> QED BY <1>5, <1>6 DEF AnswerInv

\* A ticket taken is one above those the counter has given.
OneTicket(n, r, l, c) ==
  n.ip[l] = c /\ \A m \in Limiter : m # l => n.ip[m] = r.ip[m]

LEMMA TicketTaken ==
  ASSUME IInv, AnswerInv, NEW q \in Req, NEW n, req' = [req EXCEPT ![q] = n], Clear(n),
         Kept(n, req[q]), NEW l \in Limiter, req[q].ip[l] = 0,
         NEW key \in Key, key = IpKey(req[q], l), NEW c, c = count[key] + 1,
         OneTicket(n, req[q], l, c),
         count' = [count EXCEPT ![key] = c]
  PROVE  (\A p \in Req : Clear(req'[p])) /\ Counted' /\ Below'
<1>1. req \in [Req -> Request] /\ count \in [Key -> Nat] /\ \A k \in Key : k.limiter \in Limiter
  BY DEF IInv, Stored, Key
<1>2. \A p \in Req : Clear(req'[p]) BY <1>1 DEF AnswerInv
<1>3. /\ req[q].ip \in [Limiter -> Nat] /\ count[key] \in Nat /\ c \in Nat
      /\ n.ip[l] = c /\ \A m \in Limiter : m # l => n.ip[m] = req[q].ip[m]
      /\ key.limiter = l /\ key.client # All
  BY <1>1, KeyFacts DEF Request, IpKey, OneTicket
<1>4. \A p \in Req, m \in Limiter : IpKey(req'[p], m) = IpKey(req[p], m)
  BY <1>1 DEF IpKey, Kept
<1>5. ASSUME NEW k \in Key, NEW v \in Nat \ {0}, Held(k, v) PROVE Held(k, v)'
  <2>1. PICK p \in Req : IpKey(req[p], k.limiter) = k /\ req[p].ip[k.limiter] = v
    BY <1>5 DEF Held
  <2>2. IpKey(req'[p], k.limiter) = k BY <1>1, <1>4, <2>1
  <2>3. req'[p].ip[k.limiter] = v BY <1>1, <1>3, <2>1
  <2> QED BY <2>2, <2>3 DEF Held
<1>6. Held(key, c)'
  <2>1. req'[q] = n BY <1>1
  <2> QED BY <1>3, <1>4, <2>1 DEF Held
<1>7. ASSUME NEW v \in 1..c PROVE Held(key, v)'
  <2>1. v = c \/ v \in 1..count[key] BY <1>3
  <2> QED BY <1>3, <1>5, <1>6, <2>1 DEF AnswerInv, Counted
<1>8. Counted'
  <2> SUFFICES ASSUME NEW k \in Key, k.client # All, NEW v \in 1..count'[k] PROVE Held(k, v)'
    BY DEF Counted
  <2>1. CASE k = key BY <1>1, <1>3, <1>7, <2>1
  <2>2. CASE k # key
    <3>1. count'[k] = count[k] /\ count[k] \in Nat BY <1>1, <2>2
    <3> QED BY <1>5, <3>1 DEF AnswerInv, Counted
  <2> QED BY <2>1, <2>2
<1>9. Below'
  <2> SUFFICES ASSUME NEW p \in Req, NEW m \in Limiter, NEW k \in Key, k = IpKey(req'[p], m),
                      NEW v \in 1..req'[p].ip[m]
               PROVE  Held(k, v)'
    BY DEF Below
  <2>1. CASE p = q /\ m = l
    <3>1. req'[p].ip[m] = c /\ k = key BY <1>1, <1>3, <1>4, <2>1
    <3> QED BY <1>7, <3>1
  <2>2. CASE ~(p = q /\ m = l)
    <3>1. req'[p].ip[m] = req[p].ip[m] /\ req[p].ip[m] \in Nat
      BY <1>1, <1>3, <2>2 DEF Request
    <3>2. Held(k, v) BY <1>4, <3>1 DEF AnswerInv, Below
    <3> QED BY <1>5, <3>1, <3>2
  <2> QED BY <2>1, <2>2
<1> QED BY <1>2, <1>8, <1>9

LEMMA IncrIpAnswers ==
  ASSUME IInv, AnswerInv, ~faulty, NEW q \in Req, IncrIp(q)
  PROVE  AnswerInv'
<1> DEFINE l == Lim(req[q])
           key == IpKey(req[q], l)
           c == count[key] + 1
           r == [req[q] EXCEPT !.ip[l] = count'[key]]
           next == IF FirstHit(count'[key]) THEN [r EXCEPT !.pc = "ipttl"] ELSE CheckedIp(r)
<1>1. PICK o \in Possible : Incr(key, o) /\ Continue(q, o, next) BY DEF IncrIp
<1>2. /\ req \in [Req -> Request] /\ req[q].pc = "ip" /\ Sound(req[q]) /\ Clear(req[q])
      /\ count \in [Key -> Nat] /\ expiry' = expiry
  BY DEF IInv, Stored, IncrIp, At, AnswerInv
<1>3. l \in Limiter /\ req[q].k \in 1..Len(Plan[req[q].route]) BY <1>2, LimType DEF Waiting
<1>4. key \in Key BY <1>2, <1>3, KeyFacts
<1>5. count' = [count EXCEPT ![key] = c] /\ count'[key] = c /\ c \in Nat
  <2>1. count' = [count EXCEPT ![key] = @ + 1] BY <1>1, OnlyOk DEF Incr
  <2> HIDE DEF key
  <2> QED BY <1>2, <1>4, <2>1
<1>6. req' = [req EXCEPT ![q] = next] BY <1>1, OnlyOk DEF Continue
<1>7. req[q].ip[l] = 0 BY <1>2, <1>3 DEF Clear, Lim
<1>8. /\ Sound(r) /\ Lim(r) = l /\ r.pc = "ip" /\ r.ip[l] = c /\ Kept(r, req[q])
      /\ r.ip = [req[q].ip EXCEPT ![l] = c]
  <2>1. r = WithIp(req[q], c) BY <1>5 DEF WithIp
  <2> HIDE DEF r
  <2> QED BY <1>2, <1>5, <2>1, IpTicketSound
<1>9. TookTicket(r)
  <2>1. r.open = req[q].open /\ r.k = req[q].k /\ r.route = req[q].route /\ req[q].route \in Route
    BY <1>2 DEF Request
  <2> HIDE DEF r, c
  <2>2. ASSUME NEW j \in 1..Len(Plan[req[q].route]), j > req[q].k
        PROVE  r.ip[Plan[req[q].route][j]] = 0
    <3>1. /\ Plan[req[q].route][j] # l /\ Plan[req[q].route][j] \in Limiter
      BY <1>3, <2>1, <2>2, PlanFacts DEF Lim
    <3>2. req[q].ip[Plan[req[q].route][j]] = 0 BY <1>2, <2>2 DEF Clear
    <3>3. req[q].ip \in [Limiter -> Nat] BY <1>2 DEF Request
    <3> HIDE DEF l
    <3> QED BY <1>8, <3>1, <3>2, <3>3
  <2> QED BY <1>2, <2>1, <2>2 DEF TookTicket, Clear
<1> HIDE DEF r
<1>10. /\ Clear(next) /\ Kept(next, req[q]) /\ next.ip = r.ip
       /\ c = 1 => next.pc = "ipttl" /\ Lim(next) = l
  <2>1. CASE FirstHit(count'[key])
    <3> DEFINE n == [r EXCEPT !.pc = "ipttl"]
    <3>1. /\ n.pc = "ipttl" /\ n.k = r.k /\ n.route = r.route /\ n.open = r.open /\ n.ip = r.ip
          /\ Kept(n, r) /\ Lim(n) = Lim(r)
      BY <1>8 DEF Sound, Request, Kept, Lim
    <3> HIDE DEF n
    <3>2. Clear(n) BY <1>9, <3>1 DEF Clear, TookTicket
    <3>3. next = n BY <2>1 DEF n
    <3> HIDE DEF next
    <3> QED BY <1>8, <3>1, <3>2, <3>3 DEF Kept
  <2>2. CASE ~FirstHit(count'[key])
    <3>1. Clear(CheckedIp(r)) BY <1>8, <1>9, CheckedClear
    <3>2. SameTickets(CheckedIp(r), r) BY <1>8, AnswersKeepTickets DEF Sound
    <3>3. next = CheckedIp(r) /\ c # 1 BY <1>5, <2>2 DEF FirstHit
    <3> HIDE DEF next
    <3> QED BY <1>8, <3>1, <3>2, <3>3 DEF SameTickets, Kept
  <2> QED BY <2>1, <2>2
<1> HIDE DEF next
<1>11. (\A p \in Req : Clear(req'[p])) /\ Counted' /\ Below'
  <2> HIDE DEF l
  <2>1. key = IpKey(req[q], l) /\ c = count[key] + 1 BY <1>8
  <2>2. OneTicket(next, req[q], l, c)
    <3>1. req[q].ip \in [Limiter -> Nat] BY <1>2 DEF Request
    <3> HIDE DEF c, key
    <3> QED BY <1>3, <1>8, <1>10, <3>1 DEF OneTicket
  <2> HIDE DEF key, c
  <2> QED BY <1>3, <1>4, <1>5, <1>6, <1>7, <1>10, <2>1, <2>2, TicketTaken
<1>12. EveryKeyExpires'
  <2>1. \A k \in Key : k # key => count'[k] = count[k] /\ expiry'[k] = expiry[k]
    <3> HIDE DEF key
    <3> QED BY <1>2, <1>4, <1>5
  <2>2. (next.pc = "ipttl" /\ key = IpKey(next, Lim(next))) \/ count[key] # 0
    <3>1. c = 1 \/ count[key] # 0 BY <1>2, <1>4
    <3>2. c = 1 => next.pc = "ipttl" /\ IpKey(next, l) = key BY <1>10 DEF IpKey, Kept
    <3> QED BY <1>10, <3>1, <3>2
  <2> HIDE DEF key, c, l
  <2> QED BY <1>2, <1>4, <1>6, <2>1, <2>2, ExpiryStays
<1> QED BY <1>11, <1>12 DEF AnswerInv

LEMMA ExpireIpAnswers ==
  ASSUME IInv, AnswerInv, ~faulty, NEW q \in Req, ExpireIp(q)
  PROVE  AnswerInv'
<1> DEFINE r == req[q]
           key == IpKey(r, Lim(r))
           n == CheckedIp(r)
<1>1. PICK o \in Possible : Expire(key, IpTtl, o) /\ Continue(q, o, n) BY DEF ExpireIp
<1>2. /\ r \in Request /\ r.pc = "ipttl" /\ Sound(r) /\ Clear(r) /\ count' = count
      /\ expiry \in [Key -> Nat] /\ now \in Nat
  BY RateLimitConstants DEF IInv, Stored, ExpireIp, At, AnswerInv, Times
<1>3. key \in Key BY <1>2, LimType, KeyFacts DEF Waiting
<1>4. req' = [req EXCEPT ![q] = n] BY <1>1, OnlyOk DEF Continue
<1>5. Clear(n) BY <1>2, CheckedClear, ClearTook
<1>6. SameTickets(n, r) BY <1>2, AnswersKeepTickets
<1>7. /\ \A k \in Key : k # key => expiry'[k] = expiry[k]
      /\ count'[key] = 0 \/ expiry'[key] # NoExpiry
  <2>1. now + IpTtl # NoExpiry BY <1>2, RateLimitConstants DEF NoExpiry
  <2>2. \/ count[key] = 0 /\ expiry' = expiry
        \/ expiry' = [expiry EXCEPT ![key] = now + IpTtl]
    BY <1>1, OnlyOk DEF Expire
  <2> HIDE DEF key
  <2> QED BY <1>2, <1>3, <2>1, <2>2
<1> HIDE DEF n
<1>8. (\A p \in Req : Clear(req'[p])) /\ Counted' /\ Below'
  <2>1. /\ \A l \in Limiter : n.ip[l] = req[q].ip[l]
        /\ \A l \in Limiter : n.ip[l] # 0 => IpKey(n, l) = IpKey(req[q], l)
    BY <1>6 DEF SameTickets, Kept, IpKey
  <2> QED BY <1>2, <1>4, <1>5, <2>1, TicketsStay
<1>9. EveryKeyExpires'
  <2>1. /\ req[q].pc = "ipttl" => key = IpKey(req[q], Lim(req[q]))
        /\ req[q].pc = "dayttl" => key = DayKey(req[q], Lim(req[q]))
    BY <1>2
  <2> HIDE DEF key
  <2> QED BY <1>2, <1>3, <1>4, <1>7, <2>1, ExpiryStays
<1> QED BY <1>8, <1>9 DEF AnswerInv

LEMMA IncrDayAnswers ==
  ASSUME IInv, AnswerInv, ~faulty, NEW q \in Req, IncrDay(q)
  PROVE  AnswerInv'
<1> DEFINE l == Lim(req[q])
           key == DayKey(req[q], l)
           r == [req[q] EXCEPT !.day[l] = count'[key]]
           next == IF FirstHit(count'[key]) THEN [r EXCEPT !.pc = "dayttl"] ELSE CheckedDay(r)
<1>1. PICK o \in Possible : Incr(key, o) /\ Continue(q, o, next) BY DEF IncrDay
<1>2. /\ req \in [Req -> Request] /\ req[q].pc = "day" /\ Sound(req[q]) /\ Clear(req[q])
      /\ count \in [Key -> Nat] /\ expiry' = expiry
  BY DEF IInv, Stored, IncrDay, At, AnswerInv
<1>3. l \in Limiter BY <1>2, LimType DEF Waiting
<1>4. key \in Key /\ key.client = All BY <1>2, <1>3, KeyFacts
<1>5. /\ count'[key] = count[key] + 1 /\ count[key] \in Nat
      /\ \A k \in Key : k # key => count'[k] = count[k]
  <2>1. count' = [count EXCEPT ![key] = @ + 1] BY <1>1, OnlyOk DEF Incr
  <2> HIDE DEF key
  <2> QED BY <1>2, <1>4, <2>1
<1>6. req' = [req EXCEPT ![q] = next] BY <1>1, OnlyOk DEF Continue
<1>7. /\ Sound(r) /\ Lim(r) = l /\ r.pc = "day" /\ Kept(r, req[q]) /\ r.ip = req[q].ip
  <2>1. PICK c \in Nat : c = count'[key] BY <1>5
  <2>2. r = WithDay(req[q], c) BY <2>1 DEF WithDay
  <2>3. LET n == WithDay(req[q], c) IN
        /\ Sound(n) /\ Lim(n) = Lim(req[q]) /\ n.pc = "day" /\ n.day[Lim(req[q])] = c
        /\ Kept(n, req[q]) /\ n.ip = req[q].ip
        /\ n.day = [req[q].day EXCEPT ![Lim(req[q])] = c]
    BY <1>2, DayTicketSound
  <2> HIDE DEF r, key
  <2> QED BY <2>2, <2>3
<1>8. TookTicket(r)
  <2>1. r.open = req[q].open /\ r.k = req[q].k /\ r.route = req[q].route
    BY <1>2 DEF Request
  <2> HIDE DEF r
  <2> QED BY <1>2, <1>7, <2>1 DEF TookTicket, Clear
<1> HIDE DEF r
<1>9. /\ Clear(next) /\ Kept(next, req[q]) /\ next.ip = req[q].ip
      /\ count[key] = 0 => next.pc = "dayttl" /\ Lim(next) = l
  <2>1. CASE FirstHit(count'[key])
    <3> DEFINE n == [r EXCEPT !.pc = "dayttl"]
    <3>1. /\ n.pc = "dayttl" /\ n.k = r.k /\ n.route = r.route /\ n.open = r.open /\ n.ip = r.ip
          /\ Kept(n, r) /\ Lim(n) = Lim(r)
      BY <1>7 DEF Sound, Request, Kept, Lim
    <3> HIDE DEF n
    <3>2. Clear(n) BY <1>8, <3>1 DEF Clear, TookTicket
    <3>3. next = n BY <2>1 DEF n
    <3> HIDE DEF next, key
    <3> QED BY <1>7, <3>1, <3>2, <3>3 DEF Kept
  <2>2. CASE ~FirstHit(count'[key])
    <3>1. Clear(CheckedDay(r)) BY <1>7, <1>8, CheckedClear
    <3>2. SameTickets(CheckedDay(r), r) BY <1>7, AnswersKeepTickets DEF Sound
    <3>3. next = CheckedDay(r) BY <2>2
    <3>4. count[key] # 0 BY <1>5, <2>2 DEF FirstHit
    <3> HIDE DEF next, key
    <3> QED BY <1>7, <3>1, <3>2, <3>3, <3>4 DEF SameTickets, Kept
  <2> QED BY <2>1, <2>2
<1> HIDE DEF next
<1>10. (\A p \in Req : Clear(req'[p])) /\ Counted' /\ Below'
  <2>1. /\ \A m \in Limiter : next.ip[m] = req[q].ip[m]
        /\ \A m \in Limiter : next.ip[m] # 0 => IpKey(next, m) = IpKey(req[q], m)
    BY <1>9 DEF Kept, IpKey
  <2>2. \A k \in Key : k.client # All => count'[k] = count[k] BY <1>4, <1>5
  <2> HIDE DEF key
  <2> QED BY <1>6, <1>9, <2>1, <2>2, TicketsStay
<1>11. EveryKeyExpires'
  <2>1. (next.pc = "dayttl" /\ key = DayKey(next, Lim(next))) \/ count[key] # 0
    <3>1. count[key] = 0 => DayKey(next, l) = key BY <1>9 DEF DayKey, Kept
    <3> QED BY <1>9, <3>1
  <2> HIDE DEF key, l
  <2> QED BY <1>2, <1>4, <1>5, <1>6, <2>1, ExpiryStays
<1> QED BY <1>10, <1>11 DEF AnswerInv

LEMMA ExpireDayAnswers ==
  ASSUME IInv, AnswerInv, ~faulty, NEW q \in Req, ExpireDay(q)
  PROVE  AnswerInv'
<1> DEFINE r == req[q]
           key == DayKey(r, Lim(r))
           n == CheckedDay(r)
<1>1. PICK o \in Possible : Expire(key, DayTtl, o) /\ Continue(q, o, n) BY DEF ExpireDay
<1>2. /\ r \in Request /\ r.pc = "dayttl" /\ Sound(r) /\ Clear(r) /\ count' = count
      /\ expiry \in [Key -> Nat] /\ now \in Nat
  BY RateLimitConstants DEF IInv, Stored, ExpireDay, At, AnswerInv, Times
<1>3. key \in Key BY <1>2, LimType, KeyFacts DEF Waiting
<1>4. req' = [req EXCEPT ![q] = n] BY <1>1, OnlyOk DEF Continue
<1>5. Clear(n) BY <1>2, CheckedClear, ClearTook
<1>6. SameTickets(n, r) BY <1>2, AnswersKeepTickets
<1>7. /\ \A k \in Key : k # key => expiry'[k] = expiry[k]
      /\ count'[key] = 0 \/ expiry'[key] # NoExpiry
  <2>1. now + DayTtl # NoExpiry BY <1>2, RateLimitConstants DEF NoExpiry
  <2>2. \/ count[key] = 0 /\ expiry' = expiry
        \/ expiry' = [expiry EXCEPT ![key] = now + DayTtl]
    BY <1>1, OnlyOk DEF Expire
  <2> HIDE DEF key
  <2> QED BY <1>2, <1>3, <2>1, <2>2
<1> HIDE DEF n
<1>8. (\A p \in Req : Clear(req'[p])) /\ Counted' /\ Below'
  <2>1. /\ \A l \in Limiter : n.ip[l] = req[q].ip[l]
        /\ \A l \in Limiter : n.ip[l] # 0 => IpKey(n, l) = IpKey(req[q], l)
    BY <1>6 DEF SameTickets, Kept, IpKey
  <2> QED BY <1>2, <1>4, <1>5, <2>1, TicketsStay
<1>9. EveryKeyExpires'
  <2>1. /\ req[q].pc = "ipttl" => key = IpKey(req[q], Lim(req[q]))
        /\ req[q].pc = "dayttl" => key = DayKey(req[q], Lim(req[q]))
    BY <1>2
  <2> HIDE DEF key
  <2> QED BY <1>2, <1>3, <1>4, <1>7, <2>1, ExpiryStays
<1> QED BY <1>8, <1>9 DEF AnswerInv

LEMMA TickAnswers ==
  ASSUME IInv, AnswerInv, Tick
  PROVE  AnswerInv'
<1>1. /\ req' = req /\ count \in [Key -> Nat] /\ expiry \in [Key -> Nat]
  BY DEF Tick, IInv, Stored
<1>2. \A k \in Key : \/ count'[k] = 0
                     \/ count'[k] = count[k] /\ expiry'[k] = expiry[k]
  BY <1>1 DEF Tick
<1>3. \A p \in Req : Clear(req'[p]) BY <1>1 DEF AnswerInv
<1>4. Below'
  <2> SUFFICES ASSUME NEW p \in Req, NEW m \in Limiter, NEW k \in Key, k = IpKey(req[p], m),
                      NEW v \in 1..req[p].ip[m]
               PROVE  Held(k, v)'
    BY <1>1 DEF Below
  <2> QED BY <1>1 DEF AnswerInv, Below, Held
<1>5. Counted'
  <2> SUFFICES ASSUME NEW k \in Key, k.client # All, NEW v \in 1..count'[k] PROVE Held(k, v)'
    BY DEF Counted
  <2>1. count'[k] = count[k] BY <1>2
  <2> QED BY <1>1, <2>1 DEF AnswerInv, Counted, Held
<1>6. EveryKeyExpires'
  <2> SUFFICES ASSUME NEW k \in Key, count'[k] > 0, expiry'[k] = NoExpiry
               PROVE  \E q \in Req : \/ At(q, "ipttl") /\ k = IpKey(req[q], Lim(req[q]))
                                     \/ At(q, "dayttl") /\ k = DayKey(req[q], Lim(req[q]))
    BY <1>1 DEF EveryKeyExpires, At
  <2>1. count[k] > 0 /\ expiry[k] = NoExpiry BY <1>2
  <2> QED BY <2>1 DEF AnswerInv, EveryKeyExpires
<1> QED BY <1>3, <1>4, <1>5, <1>6 DEF AnswerInv

LEMMA NextAnswers ==
  ASSUME IInv, ~faulty => AnswerInv, [Next]_vars
  PROVE  ~faulty' => AnswerInv'
<1>1. faulty' = faulty
  BY DEF Next, Arrive, IncrIp, ExpireIp, IncrDay, ExpireDay, Tick, vars
<1> SUFFICES ASSUME ~faulty PROVE AnswerInv' BY <1>1
<1>2. ASSUME NEW q \in Req,
             Arrive(q) \/ IncrIp(q) \/ ExpireIp(q) \/ IncrDay(q) \/ ExpireDay(q)
      PROVE  AnswerInv'
  BY <1>2, ArriveAnswers, IncrIpAnswers, ExpireIpAnswers, IncrDayAnswers, ExpireDayAnswers
<1>3. CASE Tick BY <1>3, TickAnswers
<1>4. CASE UNCHANGED vars
  BY <1>4 DEF AnswerInv, Counted, Below, Held, EveryKeyExpires, At, vars
<1> QED BY <1>2, <1>3, <1>4 DEF Next

LEMMA InitAnswers ==
  ASSUME Init
  PROVE  AnswerInv
<1>1. \A k \in Key : count[k] = 0 BY DEF Init
<1>2. ASSUME NEW q \in Req
      PROVE  /\ req[q].pc = "new" /\ req[q].open = {} /\ req[q].route \in Route
             /\ \A l \in Limiter : req[q].ip[l] = 0
  BY DEF Init
<1>3. ASSUME NEW q \in Req PROVE Clear(req[q]) BY <1>2, PlanFacts DEF Clear
<1>4. Counted BY <1>1 DEF Counted
<1>5. Below BY <1>2 DEF Below
<1>6. EveryKeyExpires BY <1>1 DEF EveryKeyExpires
<1> QED BY <1>3, <1>4, <1>5, <1>6 DEF AnswerInv

\* Behind a request that holds ticket n of a limiter are n requests of its client and minute.
LEMMA TicketsBehind ==
  ASSUME IInv, AnswerInv, IsFiniteSet(Req), NEW q \in Req, NEW l \in Limiter
  PROVE  LET S == {p \in Req : /\ req[p].client = req[q].client
                               /\ WindowStart(req[p].at, Minute) = WindowStart(req[q].at, Minute)
                               /\ req[p].ip[l] # 0}
         IN  IsFiniteSet(S) /\ Cardinality(S) >= req[q].ip[l]
<1> DEFINE S == {p \in Req : /\ req[p].client = req[q].client
                             /\ WindowStart(req[p].at, Minute) = WindowStart(req[q].at, Minute)
                             /\ req[p].ip[l] # 0}
           n == req[q].ip[l]
           holder == [v \in 1..n |-> CHOOSE p \in S : req[p].ip[l] = v]
<1>1. /\ req[q] \in Request /\ n \in Nat /\ IpKey(req[q], l) \in Key
  BY KeyFacts DEF IInv, Stored, Request
<1>2. IsFiniteSet(S) BY FS_Subset
<1>3. ASSUME NEW v \in 1..n PROVE \E p \in S : req[p].ip[l] = v
  <2>1. Held(IpKey(req[q], l), v) BY <1>1 DEF AnswerInv, Below
  <2>2. PICK p \in Req : IpKey(req[p], l) = IpKey(req[q], l) /\ req[p].ip[l] = v
    BY <2>1 DEF Held, IpKey
  <2>3. req[p].client = req[q].client
        /\ WindowStart(req[p].at, Minute) = WindowStart(req[q].at, Minute)
    BY <2>2 DEF IpKey
  <2> QED BY <2>2, <2>3
<1>4. \A v \in 1..n : holder[v] \in S /\ req[holder[v]].ip[l] = v
  <2> SUFFICES ASSUME NEW v \in 1..n PROVE holder[v] \in S /\ req[holder[v]].ip[l] = v
    OBVIOUS
  <2>1. holder[v] = CHOOSE p \in S : req[p].ip[l] = v OBVIOUS
  <2> HIDE DEF holder, S
  <2> QED BY <1>3, <2>1, Zenon
<1>5. holder \in Injection(1..n, S)
  <2>1. holder \in [1..n -> S] BY <1>4
  <2> HIDE DEF holder, S, n
  <2> QED BY <1>4, <2>1 DEF Injection, IsInjective
<1>6. IsFiniteSet(1..n) /\ Cardinality(1..n) = n
  <2>1. PICK k \in Nat : k = n BY <1>1
  <2>2. IsFiniteSet(1..k) /\ Cardinality(1..k) = IF 1 > k THEN 0 ELSE k - 1 + 1
    BY FS_Interval
  <2> HIDE DEF n
  <2> QED BY <2>1, <2>2
<1> HIDE DEF holder, S, n
<1>7. Cardinality(1..n) <= Cardinality(S) BY <1>2, <1>5, FS_Injection
<1>8. Cardinality(S) \in Nat BY <1>2, FS_CardinalityType
<1> QED BY <1>1, <1>2, <1>6, <1>7, <1>8 DEF S, n

\* A request is refused its minute only after the whole limit went to its client's requests,
\* of which those that came through another limiter are no more than that one lets through.
LEMMA OthersHaveTheRest ==
  ASSUME IInv, AnswerInv, IsFiniteSet(Req)
  PROVE  BulkLeavesTheRest
<1> SUFFICES ASSUME NEW q \in Req, NEW bulk \in Limiter, At(q, "refusedIp"), bulk # Lim(req[q])
             PROVE  Cardinality(Elsewhere(req[q], Lim(req[q]), bulk)) >
                      PerIp[Lim(req[q])] - PerIp[bulk]
  BY DEF BulkLeavesTheRest
<1>1. PICK l : l = Lim(req[q]) OBVIOUS
<1>2. /\ req[q] \in Request /\ Sound(req[q]) /\ Clear(req[q]) /\ req[q].pc = "refusedIp"
      /\ req[q].route \in Route /\ req[q].client \in Client /\ req[q].at \in Nat
  BY RateLimitConstants DEF IInv, Stored, AnswerInv, At, Request, Times
<1>3. l \in Limiter /\ req[q].ip[l] > PerIp[l]
  BY <1>1, <1>2, PlanFacts DEF Clear, Lim
<1> DEFINE c == req[q].client
           m == WindowStart(req[q].at, Minute)
           S == {p \in Req : /\ req[p].client = c /\ WindowStart(req[p].at, Minute) = m
                             /\ req[p].ip[l] # 0}
           B == {p \in S : PassedBy(req[p], bulk)}
           E == Elsewhere(req[q], l, bulk)
<1>4. IsFiniteSet(S) /\ Cardinality(S) >= req[q].ip[l] BY <1>3, TicketsBehind
<1>5. m \in Times BY <1>2, KeyFacts, <1>3 DEF Key, IpKey
<1>6. Cardinality(B) <= PerIp[bulk]
  <2>1. \A p \in B : /\ req[p].ip[bulk] \in 1..PerIp[bulk] /\ req[p].client = c
                     /\ WindowStart(req[p].at, Minute) = m
    BY DEF IInv, Sound, AnswerInv, Clear
  <2>2. B \in SUBSET Req OBVIOUS
  <2> HIDE DEF B
  <2> QED BY <1>2, <1>5, <2>1, <2>2, IpPigeons
<1>7. E = S \ B BY DEF Elsewhere
<1>8. IsFiniteSet(B) /\ IsFiniteSet(E) BY <1>4, <1>7, FS_Subset
<1>9. /\ Cardinality(S) = Cardinality(B) + Cardinality(E)
      /\ Cardinality(B) \in Nat /\ Cardinality(E) \in Nat
  <2>1. S = B \cup E /\ B \cap E = {} BY <1>7
  <2> HIDE DEF S, B, E
  <2>2. Cardinality({}) = 0 BY FS_EmptySet
  <2>3. Cardinality(S) = Cardinality(B) + Cardinality(E) - Cardinality(B \cap E)
    BY <1>8, <2>1, FS_Union
  <2>4. Cardinality(B) \in Nat /\ Cardinality(E) \in Nat BY <1>8, FS_CardinalityType
  <2>5. Cardinality(B \cap E) = 0 BY <2>1, <2>2
  <2> QED BY <2>3, <2>4, <2>5
<1>10. /\ PerIp[l] \in Nat /\ PerIp[bulk] \in Nat /\ req[q].ip[l] \in Nat
  BY <1>2, <1>3, RateLimitConstants DEF Request
<1> HIDE DEF S, B, E
<1>11. Cardinality(E) > PerIp[l] - PerIp[bulk] BY <1>3, <1>4, <1>6, <1>9, <1>10
<1> QED BY <1>1, <1>11 DEF E

\* However many requests there are, while Redis answers: no request is refused a limiter's
\* minute by those that another limiter held, and no counter is left without its TTL.
THEOREM HoldsWhileAnswered ==
  ASSUME IsFiniteSet(Req)
  PROVE  Spec => []HoldsWhileRedisAnswers
<1>1. Init => (~faulty => AnswerInv) BY InitAnswers
<1>2. IInv /\ (~faulty => AnswerInv) /\ [Next]_vars => (~faulty => AnswerInv)'
  BY NextAnswers
<1>3. IInv /\ (~faulty => AnswerInv) => HoldsWhileRedisAnswers
  BY OthersHaveTheRest DEF HoldsWhileRedisAnswers, AnswerInv
<1> QED BY <1>1, <1>2, <1>3, Invariance, PTL DEF Spec
=============================================================================
