----------------------------- MODULE ActiveKeys -----------------------------
(***************************************************************************)
(* The active-key metric of lib/activeKeys.ts: a set of key ids per day,   *)
(* marked after the response of an owner call the upstream let in, once    *)
(* per instance and day, and the windows read from the sets.               *)
(*                                                                         *)
(* A mark is one pipeline (SADD and EXPIRE) cut off by a timer: it may     *)
(* land after that, or never.  The day it is written to is the day on      *)
(* which the work after the response begins.                               *)
(***************************************************************************)
EXTENDS Naturals, FiniteSets

CONSTANTS
  Key, Instance, Task,    \* Task bounds the marks in flight
  WindowDays, MinDays,    \* ACTIVE_WINDOW_DAYS, ACTIVE_MIN_DAYS
  Retention,              \* BUCKET_TTL_SECONDS, in days
  SeriesMax,              \* SERIES_MAX_DAYS
  SeenMax,                \* SEEN_MAX
  LastDay                 \* bound

ASSUME ActiveConstants ==
  /\ WindowDays \in Nat \ {0} /\ MinDays \in 1..WindowDays /\ SeenMax \in Nat \ {0}
  /\ SeriesMax \in Nat \ {0} /\ Retention \in Nat /\ SeriesMax + WindowDays <= Retention
  /\ LastDay \in Nat

Day == 0..LastDay

VARIABLES
  today,
  bucket,      \* activekeys:v1:<day>
  expiry,      \* the day on which it expires, 0 if it does not exist
  seen,        \* each instance's memo of <<day, key>>
  task,        \* the work after a response
  called,      \* history: the days on which the upstream let a key in
  marked,      \* history: the marks ever made
  slipped      \* history: marks that began on a later day than their call
marksHistory == <<called, marked, slipped>>
marksVars == <<today, bucket, expiry, seen, task, marksHistory>>

Free == [pc |-> "free"]
-----------------------------------------------------------------------------
\* Mutant: a 401 counts as let in.
AnyBelow500(status) == status # "5xx"

\* 401 is a key refused, 404 a path that is not mounted; 5xx never comes here (the proxy
\* has answered 502).
upstreamAuthenticated(status) == status \in {"2xx", "4xx"}

\* What the owner service may answer to a key it knows, and to one it does not.
Statuses(valid) == IF valid THEN {"2xx", "4xx", "404", "5xx"} ELSE {"401", "404", "5xx"}

Call(k, i, t, valid, status) ==
  /\ task[t].pc = "free"
  /\ status \in Statuses(valid)
  /\ called' = IF valid THEN called \union {<<today, k>>} ELSE called
  /\ task' = IF upstreamAuthenticated(status)
               THEN [task EXCEPT ![t] = [pc |-> "after", key |-> k, on |-> i, asked |-> today]]
               ELSE task
  /\ UNCHANGED <<today, bucket, expiry, seen, marked, slipped>>

\* recordActiveKey up to its await.
Begin(t) ==
  LET x == task[t]
      memo == <<today, x.key>>
  IN /\ x.pc = "after"
     /\ task' = [task EXCEPT ![t] =
          IF memo \in seen[x.on] THEN Free
          ELSE [pc |-> "write", key |-> x.key, on |-> x.on, asked |-> x.asked, stamp |-> today]]
     /\ slipped' = IF x.asked # today THEN slipped \union {memo} ELSE slipped
     /\ UNCHANGED <<today, bucket, expiry, seen, called, marked>>

\* Redis runs the pipeline, before the timer ("write") or after it ("late").
Land(t) ==
  LET x == task[t]
  IN /\ x.pc \in {"write", "late"}
     /\ bucket' = [bucket EXCEPT ![x.stamp] = @ \union {x.key}]
     /\ expiry' = [expiry EXCEPT ![x.stamp] = today + Retention]
     /\ marked' = marked \union {<<x.stamp, x.key>>}
     /\ task' = [task EXCEPT ![t] = IF x.pc = "write" THEN [x EXCEPT !.pc = "landed"] ELSE Free]
     /\ UNCHANGED <<today, seen, called, slipped>>

\* A full memo is cleared whole.
Room(s) == IF Cardinality(s) >= SeenMax THEN {} ELSE s

\* Mutant: what was tried is remembered, as the crawler counter does.
Tried(t) == task[t].pc \in {"write", "landed"}

\* The write was answered in time.
Answered(t) == task[t].pc = "landed"

Remember(t) ==
  LET x == task[t]
  IN /\ Answered(t)
     /\ seen' = [seen EXCEPT ![x.on] = Room(@) \union {<<x.stamp, x.key>>}]
     /\ task' = [task EXCEPT ![t] = Free]
     /\ UNCHANGED <<today, bucket, expiry, marksHistory>>

\* The timer, a transport error, or an instance that stops: nothing is remembered.
GiveUp(t) ==
  LET x == task[t]
  IN /\ x.pc # "free"
     /\ \/ task' = [task EXCEPT ![t] = Free]
        \/ x.pc = "write" /\ task' = [task EXCEPT ![t].pc = "late"]
     /\ UNCHANGED <<today, bucket, expiry, seen, marksHistory>>

\* A new instance begins with an empty memo.
Recycle(i) ==
  /\ seen[i] # {} /\ \A t \in Task : task[t].pc \in {"after", "write", "landed"} => task[t].on # i
  /\ seen' = [seen EXCEPT ![i] = {}]
  /\ UNCHANGED <<today, bucket, expiry, task, marksHistory>>

\* Midnight; work in flight is at most a day old.
Midnight ==
  /\ today < LastDay
  /\ \A t \in Task : task[t].pc # "free" => task[t].asked = today
  /\ today' = today + 1
  /\ LET over(d) == expiry[d] # 0 /\ expiry[d] <= today + 1
     IN /\ bucket' = [d \in Day |-> IF over(d) THEN {} ELSE bucket[d]]
        /\ expiry' = [d \in Day |-> IF over(d) THEN 0 ELSE expiry[d]]
  /\ UNCHANGED <<seen, task, marksHistory>>
-----------------------------------------------------------------------------
MarksInit ==
  /\ today = 0 /\ bucket = [d \in Day |-> {}] /\ expiry = [d \in Day |-> 0]
  /\ seen = [i \in Instance |-> {}] /\ task = [t \in Task |-> Free]
  /\ called = {} /\ marked = {} /\ slipped = {}

MarksNext ==
  \/ \E k \in Key, i \in Instance, t \in Task, valid \in BOOLEAN :
       \E status \in Statuses(valid) : Call(k, i, t, valid, status)
  \/ \E t \in Task : Begin(t) \/ Land(t) \/ Remember(t) \/ GiveUp(t)
  \/ \E i \in Instance : Recycle(i)
  \/ Midnight

MarksSpec == MarksInit /\ [][MarksNext]_marksVars
-----------------------------------------------------------------------------
(* The reads: seven sets for a date, days + 6 for a series.                *)

windowStamps(end) == {d \in Day : d <= end /\ d + WindowDays > end}

DaysIn(k, end, kept) == {d \in windowStamps(end) : <<d, k>> \in kept}

Active(end, kept) == {k \in Key : Cardinality(DaysIn(k, end, kept)) >= MinDays}

Stored == {p \in Day \X Key : p[2] \in bucket[p[1]]}

\* The dates of a series that ends today.
Series == {e \in Day : e <= today /\ e + SeriesMax > today}

MarksTypeOK ==
  /\ today \in Day /\ bucket \in [Day -> SUBSET Key] /\ expiry \in [Day -> Nat]
  /\ seen \in [Instance -> SUBSET (Day \X Key)]
  /\ \A t \in Task : task[t].pc \in {"free", "after", "write", "landed", "late"}
  /\ called \subseteq Day \X Key /\ marked \subseteq Day \X Key /\ slipped \subseteq Day \X Key

\* A series that ends today counts, for each of its dates, the keys marked on MinDays days
\* of that date's window, none of its sets having expired; and a key it counts was let in
\* by the upstream on that many days of the window, unless a mark slipped past midnight:
\* neither refused calls, nor writes that land late or twice, nor several instances and
\* calls on one day can make a key active.  (activeKeys.ts:3-5, 139, 222)
CountIsEarned ==
  \A e \in Series :
    /\ Active(e, Stored) = Active(e, marked)
    /\ \A k \in Active(e, Stored) :
         \/ k \in Active(e, called)
         \/ DaysIn(k, e, slipped) # {}

\* What an instance skips is stored: a pair it remembers is in its bucket for as long as
\* that is kept, although writes fail, land late or are cut off, and the memo stays within
\* its bound.  (activeKeys.ts:182-191)
MemoLosesNothing ==
  \A i \in Instance :
    /\ Cardinality(seen[i]) <= SeenMax
    /\ \A m \in seen[i] : m[1] + Retention > today => m[2] \in bucket[m[1]]

\* No key is counted that did not earn it, and no mark an instance skips is missing.
MarksHold == CountIsEarned /\ MemoLosesNothing
=============================================================================
