----------------------------- MODULE EdgeProxy -----------------------------
(***************************************************************************)
(* proxy.ts on one isolate: the answers it gives itself, its limiter, and  *)
(* the crawler counter of lib/aeoCounter.ts behind both.                   *)
(*                                                                         *)
(* The limiter is a map with a fixed window per route class and client,    *)
(* which knows the order of its insertions; it is swept at most every      *)
(* SweepEvery, of what is stale and then of its oldest insertions beyond   *)
(* MaxBuckets.  The counter writes once per route, family and minute, and  *)
(* remembers it before the write.                                          *)
(*                                                                         *)
(* The wall clock may be set back; `real` is time as it passes, and only   *)
(* the properties know it.                                                 *)
(***************************************************************************)
EXTENDS Integers, FiniteSets

CONSTANTS
  Ip, Path, Family,
  NoFamily,           \* a user agent that is no known crawler's
  Window, SweepEvery, Limit, CatalogLimit, MaxBuckets,
  MaxRecent, RecentFor,     \* aeoCounter: 4000 entries, 120 s
  Start, LastTick, MaxRequests     \* bounds: the clock's first value, ticks, requests

Stale == 2 * Window

\* What a path is to the proxy.  "probe" is no catalog file's name, "respelt" another
\* spelling of one; "page", "moved" and "gone" are server pages.
Class ==
  [search |-> "api", preflight |-> "api", mcp |-> "mcp", challenge |-> "wellknown",
   llms |-> "llms", index |-> "llms",
   catalog |-> "llms-catalog", respelt |-> "llms-catalog", probe |-> "llms-catalog",
   page |-> "none", moved |-> "none", gone |-> "none", ledger |-> "none"]

ASSUME EdgeConstants ==
  /\ Window \in Nat \ {0} /\ SweepEvery \in Nat \ {0} /\ MaxBuckets \in Nat
  /\ Limit \in Nat \ {0} /\ CatalogLimit \in Nat /\ CatalogLimit >= Limit
  /\ RecentFor \in Nat /\ Start \in Nat /\ NoFamily \notin Family
  /\ Path \subseteq DOMAIN Class

isLlmsPath(p) == Class[p] \in {"llms", "llms-catalog"}

\* The counter a fetch of the path is written to, if any.
countable(p) == CASE p = "llms" -> "llms" [] p \in {"index", "catalog"} -> "llms-full"
                  [] OTHER -> "none"

Account == {Class[p] : p \in Path} \X Ip
LimitOf(k) == IF k[1] = "llms-catalog" THEN CatalogLimit ELSE Limit
Counter == {"llms", "llms-full"} \X Family

VARIABLES
  clock, lastSweep,
  buckets,     \* the map, each entry with the number of the request that inserted it
  recent,      \* _recentWrites, with the minute in the key
  aeo,         \* the durable counters
  answer,      \* what the last request got
  real, steps,     \* time as it passes; how often the clock was set back
  requests,        \* bound
  passes,      \* history: when each client's requests went past the limiter
  excused,     \* history: keys whose window was cut short for room, or by the clock
  served, lost     \* history: what was to be counted, with its minute and the real time,
                   \* and of that, what was lost with its write
limiter == <<lastSweep, buckets>>
counter == <<recent, aeo, lost>>
proxyHistory == <<passes, excused, served>>
vars == <<clock, limiter, counter, answer, real, steps, requests, proxyHistory>>

Unasked == [of |-> <<"none", "none">>, said |-> "none", at |-> 0]
-----------------------------------------------------------------------------
Fresh == {k \in DOMAIN buckets : buckets[k].start >= clock - Stale}

\* The entries among `keys` that were inserted after k's.
Newer(keys, k) == {j \in keys : buckets[j].born > buckets[k].born}

\* Mutant: room is made as soon as the map is full.
RoomForOneMore(keys) == {k \in keys : Cardinality(Newer(keys, k)) < MaxBuckets - 1}

Roomy(keys) == {k \in keys : Cardinality(Newer(keys, k)) < MaxBuckets}

\* A clock that went back makes the next sweep wait from there.
SweepDue == clock - lastSweep >= SweepEvery
Swept == IF SweepDue THEN [k \in Roomy(Fresh) |-> buckets[k]] ELSE buckets

Over(b) == clock - b.start > Window \/ clock < b.start

Opened(born) == [count |-> 1, start |-> clock, born |-> born]

\* A window that begins anew keeps its place in the map.
Counted(m, k) ==
  LET b == IF k \notin DOMAIN m THEN Opened(requests)
           ELSE IF Over(m[k]) THEN Opened(m[k].born)
           ELSE [m[k] EXCEPT !.count = @ + 1]
  IN  [j \in DOMAIN m \cup {k} |-> IF j = k THEN b ELSE m[j]]

BucketKey(p, ip) == <<Class[p], ip>>
-----------------------------------------------------------------------------
\* The memo is set before the write, and pruned of what is old when it is large.
Remembered(c) ==
  LET all == recent \cup {[of |-> c, minute |-> clock, at |-> clock]}
  IN  IF Cardinality(all) > MaxRecent
      THEN {r \in all : clock - r.at <= RecentFor} ELSE all

\* recordAeoFetch: once per counter and minute; a failed write is not tried again.
recordAeoFetch(c) ==
  /\ IF c[2] = NoFamily \/ \E r \in recent : r.of = c /\ r.minute = clock
     THEN UNCHANGED <<recent, aeo, lost>>
     ELSE /\ recent' = Remembered(c)
          /\ \/ aeo' = [aeo EXCEPT ![c] = aeo[c] + 1] /\ UNCHANGED lost
             \/ lost' = lost \cup {[of |-> c, minute |-> clock, at |-> real]} /\ UNCHANGED aeo

Said(own, said) == answer' = [of |-> own, said |-> said, at |-> real]

\* Mutant: what the guard sends on is counted like what it lets through.
CountsBeforeGuard(p, query) == countable(p) # "none"

\* Only what reaches the content is counted.
Reaches(p, query) == countable(p) # "none" /\ ~query

\* Past the limiter: a query on an llms path and another spelling of a file are sent to
\* the one cacheable address.
Through(own, p, get, query, family) ==
  /\ Said(own, IF (isLlmsPath(p) /\ query) \/ p = "respelt" THEN "308" ELSE "next")
  /\ IF get /\ Reaches(p, query) THEN recordAeoFetch(<<countable(p), family>>)
                                 ELSE UNCHANGED counter
  /\ served' = IF get /\ family # NoFamily /\ countable(p) # "none" /\ answer'.said = "next"
               THEN served \cup {[of |-> <<countable(p), family>>, minute |-> clock, at |-> real]}
               ELSE served

\* History: a client's account with a class of routes.
Passed(own) == [passes EXCEPT ![own] = passes[own] \cup {[at |-> real, by |-> requests]}]

\* History: whose window was cut short to make room.
Shortened ==
  IF SweepDue THEN {k \in Fresh : Cardinality(Newer(Fresh, k)) >= MaxBuckets} ELSE {}

\* `own` is the client's account by route class, k the key its bucket has.
Limited(own, k, p, get, query, family) ==
  LET s == Counted(Swept, k)
  IN  /\ buckets' = s
      /\ lastSweep' = IF SweepDue \/ clock < lastSweep THEN clock ELSE lastSweep
      /\ excused' = excused \cup Shortened
      /\ IF s[k].count > LimitOf(own)
         THEN Said(own, "429") /\ UNCHANGED <<counter, passes, served>>
         ELSE Through(own, p, get, query, family) /\ passes' = Passed(own)

\* The seeded redirects and the removed pages are answered first; what is neither and not
\* on the limiter's list goes on untouched.
Request(p, ip, get, query, family) ==
  /\ requests < MaxRequests
  /\ requests' = requests + 1
  /\ IF Class[p] = "none"
     THEN /\ Said(<<"none", ip>>,
                  CASE p = "moved" -> "308" [] p = "gone" -> "410" [] OTHER -> "next")
          /\ UNCHANGED <<limiter, counter, proxyHistory>>
     ELSE Limited(<<Class[p], ip>>, BucketKey(p, ip), p, get, query, family)
  /\ UNCHANGED <<clock, real, steps>>

ClockTicks ==
  /\ real < LastTick
  /\ real' = real + 1 /\ clock' = clock + 1
  /\ UNCHANGED <<limiter, counter, answer, steps, requests, proxyHistory>>

\* The wall clock is set back; windows it falls out of start again.
StepBack ==
  /\ steps = 0
  /\ \E t \in 0..clock-1 : clock' = t
  /\ steps' = 1
  /\ excused' = excused \cup DOMAIN buckets
  /\ UNCHANGED <<limiter, counter, answer, real, requests, passes, served>>

Init ==
  /\ clock = Start /\ lastSweep = 0 /\ buckets = [k \in {} |-> 0] /\ recent = {}
  /\ aeo = [c \in Counter |-> 0]
  /\ answer = Unasked /\ real = 0 /\ steps = 0 /\ requests = 0
  /\ passes = [k \in Account |-> {}] /\ excused = {} /\ served = {} /\ lost = {}

Next ==
  \/ \E p \in Path, ip \in Ip, get, query \in BOOLEAN, f \in Family \cup {NoFamily} :
       Request(p, ip, get, query, f)
  \/ ClockTicks \/ StepBack

Spec == Init /\ [][Next]_vars
-----------------------------------------------------------------------------
TypeOK ==
  /\ clock \in Nat /\ lastSweep \in Nat /\ real \in Nat
  /\ \A k \in DOMAIN buckets : buckets[k] \in [count : Nat \ {0}, start : Nat, born : Nat]
  /\ aeo \in [Counter -> Nat]
  /\ answer.said \in {"none", "next", "308", "410", "429"}

\* What a client was let through of a class of routes, from a time on.
PassedSince(own, t) == {x \in passes[own] : x.at >= t}

\* No client gets more than two windows' worth past the limiter in any Window and the tick
\* after it, and it is refused only for what it was let through itself, in that class of
\* routes and within a Window: a bucket still in its window is never given up, and no other
\* client or class uses it up, unless the map held more than MaxBuckets or the clock was set
\* back.
LimitIsTheClients ==
  /\ \A k \in Account \ excused :
       Cardinality(PassedSince(k, real - Window - 1)) <= 2 * LimitOf(k)
  /\ answer.said = "429" =>
       \/ answer.of \in excused
       \/ Cardinality(PassedSince(answer.of, answer.at - Window)) >= LimitOf(answer.of)

\* The crawler counters say what they are read for: one for each minute in which a crawler
\* got the content, none for what was refused or sent elsewhere, and none missing but by a
\* failed write.  (A clock set back within a minute may count it once more.)
CountsAreHonest ==
  \A c \in Counter :
    LET mine == {s \in served : s.of = c}
    IN  /\ aeo[c] <= Cardinality({s.at : s \in mine}) + steps
        /\ aeo[c] + Cardinality({l \in lost : l.of = c}) >= Cardinality({s.minute : s \in mine})

\* Each client is held to its own limit, and each crawler counted for what it got.
\* (proxy.ts:29-120, aeoCounter.ts:140-180)
ProxyIsFair == LimitIsTheClients /\ CountsAreHonest
=============================================================================
