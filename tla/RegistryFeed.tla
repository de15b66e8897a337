----------------------------- MODULE RegistryFeed -----------------------------
(***************************************************************************)
(* What a poller of /api/v1/diff learns of the registry:                   *)
(* lib/registryDiff.ts over the snapshots of scripts/sync-registry.mjs and *)
(* the first-seen dates folded from them (scripts/first-seen.mjs).         *)
(*                                                                         *)
(* The sync walks the registry page by page (a page is one name here)      *)
(* while it changes, and stamps the snapshot when the walk is over.  What  *)
(* each deployment serves is kept, so that any earlier poll can be         *)
(* compared with any later one.  The registry and the site share a clock,  *)
(* and several events may share its tick.  Admitted servers, which have no *)
(* first-seen date, are left out.                                          *)
(***************************************************************************)
EXTENDS Naturals, Sequences, FiniteSets, FiniteSetsExt

CONSTANTS
  Size,                           \* bound: the names are 1..Size, in page order
  PageLimit,                      \* PAGE_LIMIT
  LastTick, MaxEvents, MaxBuilds, \* bounds
  NoDoc                           \* no first-seen.json, or an unreadable one

VARIABLES
  upstream,   \* the registry: each name's latest version and status
  walk,       \* the sync's fetch: the next page (0: none is under way), the rows so far
  builds,     \* what was deployed, snapshot and first-seen.json; `began` is history
  clock, events
feedVars == <<upstream, walk, builds, clock, events>>

Feed == 1..Size
Never == LastTick + 1
NoWalk == [next |-> 0, rows |-> <<>>, began |-> 0]

\* publishedAt of the latest version, and updatedAt.
Row == [pub : 0..Never, upd : 0..Never, status : {"unlisted", "active", "deprecated"}]

\* first-seen.json: per name the date it was first seen, and how far back the file goes.
FirstSeen == [seen : UNION {[names -> Nat] : names \in SUBSET Feed}, from : Nat]

ASSUME FeedConstants ==
  /\ {Size, PageLimit, LastTick, MaxEvents, MaxBuilds} \subseteq Nat /\ Size # 0
  /\ NoDoc \notin FirstSeen

At(f, n) == IF n \in DOMAIN f THEN {f[n]} ELSE {}
-----------------------------------------------------------------------------
(* The registry, external.                                                 *)

Touch(n, row) ==
  /\ events < MaxEvents
  /\ events' = events + 1
  /\ upstream' = [upstream EXCEPT ![n] = row]
  /\ UNCHANGED <<walk, builds, clock>>

\* A version is published, the first or the next.
Release(n) == Touch(n, [pub |-> clock, upd |-> clock, status |-> "active"])

\* A published server is deprecated, deleted or restored: updatedAt alone moves.
SetStatus(n, status) ==
  /\ upstream[n].pub # Never /\ upstream[n].status # status
  /\ Touch(n, [upstream[n] EXCEPT !.upd = clock, !.status = status])

ClockTicks ==
  /\ clock < LastTick
  /\ clock' = clock + 1
  /\ UNCHANGED <<upstream, walk, builds, events>>
-----------------------------------------------------------------------------
(* The sync.                                                               *)

WithRow(rows, n) ==
  LET here == IF upstream[n].status = "unlisted" THEN {} ELSE {n}
  IN  [m \in DOMAIN rows \cup here |-> IF m = n THEN upstream[n] ELSE rows[m]]

\* fetchPage: the latest versions as they are now, the first page as the run begins.
WalkBegins ==
  /\ walk.next = 0 /\ Len(builds) < MaxBuilds
  /\ walk' = [next |-> 2, rows |-> WithRow(<<>>, 1), began |-> clock]
  /\ UNCHANGED <<upstream, builds, clock, events>>

WalkPage ==
  /\ walk.next \in Feed
  /\ walk' = [walk EXCEPT !.next = @ + 1, !.rows = WithRow(@, walk.next)]
  /\ UNCHANGED <<upstream, builds, clock, events>>

\* A page that failed seven times, the deadline, a slow window, too many pages, an
\* unreadable first-seen.json: nothing is written.
WalkFails ==
  /\ walk.next # 0
  /\ walk' = NoWalk
  /\ UNCHANGED <<upstream, builds, clock, events>>

\* Mutant: the dates of the last snapshot.
LastDatesOnly(doc, snapshots) ==
  [seen |-> [n \in UNION {DOMAIN s.rows : s \in snapshots} |->
               Min({s.rows[n].pub : s \in {t \in snapshots : n \in DOMAIN t.rows}})],
   from |-> Min((IF doc = NoDoc THEN {} ELSE {doc.from}) \cup {s.at : s \in snapshots})]

\* mergeFirstSeen, of any number of snapshots: per name the least date one carried, and
\* the time of the earliest.
mergeFirstSeen(doc, snapshots) ==
  LET dates(n) == UNION {At(s.rows, n) : s \in snapshots}
      seen == IF doc = NoDoc THEN <<>> ELSE doc.seen
      names == DOMAIN seen \cup UNION {DOMAIN s.rows : s \in snapshots}
  IN  [seen |-> [n \in names |-> Min(At(seen, n) \cup {r.pub : r \in dates(n)})],
       from |-> Min((IF doc = NoDoc THEN {} ELSE {doc.from}) \cup
                      {s.at : s \in snapshots})]

LastDoc == IF builds = <<>> THEN NoDoc ELSE builds[Len(builds)].doc

\* The walk is over: the snapshot is stamped now, and first-seen.json written beside it.
\* Syncs that ran before there was such a file wrote none.  A walk takes time.
SyncWrites(withDoc) ==
  /\ walk.next = Size + 1 /\ walk.began < clock
  /\ withDoc \/ LastDoc = NoDoc
  /\ LET snapshot == [at |-> clock, began |-> walk.began, rows |-> walk.rows]
     IN  builds' = Append(builds,
           [at |-> clock, began |-> walk.began, rows |-> walk.rows,
            doc |-> IF withDoc THEN mergeFirstSeen(LastDoc, {snapshot}) ELSE NoDoc])
  /\ walk' = NoWalk
  /\ UNCHANGED <<upstream, clock, events>>

\* backfill-first-seen.mjs: every snapshot ever committed is folded in.
Backfill ==
  /\ builds # <<>> /\ Len(builds) < MaxBuilds
  /\ LET last == builds[Len(builds)]
         doc == mergeFirstSeen(last.doc, {builds[i] : i \in DOMAIN builds})
     IN  /\ doc # last.doc
         /\ builds' = Append(builds, [last EXCEPT !.doc = doc])
  /\ UNCHANGED <<upstream, walk, clock, events>>

FeedInit ==
  /\ upstream = [n \in Feed |-> [pub |-> Never, upd |-> Never, status |-> "unlisted"]]
  /\ walk = NoWalk /\ builds = <<>> /\ clock = 0 /\ events = 0

FeedNext ==
  \/ \E n \in Feed : Release(n)
  \/ \E n \in Feed, s \in {"unlisted", "active", "deprecated"} : SetStatus(n, s)
  \/ ClockTicks
  \/ WalkBegins \/ WalkPage \/ WalkFails \/ Backfill
  \/ \E withDoc \in BOOLEAN : SyncWrites(withDoc)

FeedSpec == FeedInit /\ [][FeedNext]_feedVars
-----------------------------------------------------------------------------
(* GET /api/v1/diff                                                        *)

\* Mutant: what happened at `since` itself is left out.
ClassifiedStrictly(rows, doc, since) ==
  LET active == {n \in DOMAIN rows : rows[n].status = "active"}
      first(n) == Min({rows[n].pub} \cup (IF doc = NoDoc THEN {} ELSE At(doc.seen, n)))
      added == {n \in active : first(n) > since}
  IN  [added |-> added,
       updated |-> {n \in active \ added : rows[n].pub > since \/ rows[n].upd > since},
       limits |-> IF doc = NoDoc THEN {"first_seen_unavailable"}
                  ELSE IF since < doc.from THEN {"since_precedes_history"} ELSE {}]

\* classifyDiff, over the active servers.
classifyDiff(rows, doc, since) ==
  LET active == {n \in DOMAIN rows : rows[n].status = "active"}
      first(n) == Min({rows[n].pub} \cup (IF doc = NoDoc THEN {} ELSE At(doc.seen, n)))
      added == {n \in active : first(n) >= since}
  IN  [added |-> added,
       updated |-> {n \in active \ added : rows[n].pub >= since \/ rows[n].upd >= since},
       limits |-> IF doc = NoDoc THEN {"first_seen_unavailable"}
                  ELSE IF since < doc.from THEN {"since_precedes_history"} ELSE {}]

\* The first PageLimit of a list, which is in the snapshot's order.
FirstPage(names) == {n \in names : Cardinality({m \in names : m <= n}) <= PageLimit}

\* A deployment may be unable to read the file it shipped with.
Docs(b) == {b.doc, NoDoc}
-----------------------------------------------------------------------------
FeedTypeOK ==
  /\ upstream \in [Feed -> Row] /\ clock \in 0..LastTick /\ events \in 0..MaxEvents
  /\ walk.next \in 0..(Size + 1) /\ walk.began \in 0..LastTick
  /\ \A n \in DOMAIN walk.rows : n \in Feed /\ walk.rows[n] \in Row
  /\ \A i \in DOMAIN builds :
       /\ builds[i].began <= builds[i].at
       /\ builds[i].doc = NoDoc \/ DOMAIN builds[i].rows \subseteq DOMAIN builds[i].doc.seen

\* A poller who saw one deployment and asks a later one what changed since that
\* snapshot's time is told of every active server whose row differs, or that the list
\* is cut: all but what changed during that snapshot's own walk, behind its cursor.
ChangesAreTold ==
  \A i, j \in DOMAIN builds : i < j =>
    \A doc \in Docs(builds[j]) :
      LET told == classifyDiff(builds[j].rows, doc, builds[i].at)
          now(n) == builds[j].rows[n]
          changed == {n \in DOMAIN builds[j].rows :
                        now(n).status = "active" /\ At(builds[i].rows, n) # {now(n)}}
      IN  \A n \in changed :
            \/ n \in FirstPage(told.added) \cup FirstPage(told.updated)
            \/ n \in told.added /\ Cardinality(told.added) > PageLimit
            \/ n \in told.updated /\ Cardinality(told.updated) > PageLimit
            \/ LET changedAt == Max({now(n).pub, now(n).upd})
               IN  builds[i].began <= changedAt /\ changedAt < builds[i].at

\* "added", said without a limit, is of a name no folded snapshot older than `since`
\* carried: a new release of a known server, one that was deprecated and came back,
\* one that was deleted and came back, is never new.
AddedIsNew ==
  \A j \in DOMAIN builds, since \in 0..LastTick :
    \A doc \in Docs(builds[j]) :
      LET told == classifyDiff(builds[j].rows, doc, since)
      IN  told.limits = {} =>
            \A k \in 1..j, n \in told.added :
              builds[k].at >= doc.from /\ builds[k].at < since => n \notin DOMAIN builds[k].rows

\* What one deployment calls updated in a window, no later one calls added.
UpdatedStaysKnown ==
  \A i, j \in DOMAIN builds, since \in 0..LastTick : i < j =>
    LET was == classifyDiff(builds[i].rows, builds[i].doc, since)
        is == classifyDiff(builds[j].rows, builds[j].doc, since)
    IN  was.limits = {} /\ is.limits = {} => was.updated \cap is.added = {}

\* Polls can be trusted: each tells all that changed, and new means new.
\* (registryDiff.ts:70-99, sync-registry.mjs:88-163, first-seen.mjs:41-56)
FeedIsHonest == ChangesAreTold /\ AddedIsNew /\ UpdatedStaysKnown
=============================================================================
