---------------------------- MODULE DriftQuery ----------------------------
(***************************************************************************)
(* The corroboration lookup of v1/drift/any (lib/driftQuery.ts): has a     *)
(* tool been seen drifting, by the crawl or, where that is served, by the  *)
(* installs?                                                               *)
(*                                                                         *)
(* One lookup reads its tools' membership in the crawl plane, the hits'    *)
(* metadata, the others' membership in the installs plane, and their       *)
(* metadata, each phase after the one before; the drain, which is not in   *)
(* this repository, moves tools between the planes meanwhile.              *)
(***************************************************************************)
EXTENDS Naturals, FiniteSets

CONSTANTS
  Fp,
  DarkServed,         \* DRIFT_DARK_CORROBORATION
  Lookup, MaxMoves    \* bounds: the requests, the moves of the drain

ASSUME QueryConstants == DarkServed \in BOOLEAN /\ MaxMoves \in Nat

VARIABLES
  crawl, dark,        \* drift:corroborated, drift:corroborated:installs
  lookup, moves
queryVars == <<crawl, dark, lookup, moves>>

NotAsked == [pc |-> "idle"]
-----------------------------------------------------------------------------
(* External: the drain.                                                    *)

Known(t, c, d) == t \in c \/ (DarkServed /\ t \in d)

\* The planes are disjoint once the drain is done: the crawl takes a tool over.
PlanesMove(c, d) ==
  /\ moves < MaxMoves /\ moves' = moves + 1
  /\ crawl' = c /\ dark' = d
  /\ lookup' = [l \in Lookup |->
       IF lookup[l].pc \in {"idle", "done"} THEN lookup[l]
       ELSE [lookup[l] EXCEPT
               !.absent = @ \union {t \in Fp : ~Known(t, c, d)},
               !.crawled = @ \union c, !.darkly = @ \union d,
               !.taken = @ \union {t \in c : t \notin crawl}]]

CrawlSees(t) == t \notin crawl /\ PlanesMove(crawl \union {t}, dark)
InstallsSee(t) == t \notin crawl \union dark /\ PlanesMove(crawl, dark \union {t})
MadeDisjoint(t) == t \in crawl \intersect dark /\ PlanesMove(crawl, dark \ {t})
-----------------------------------------------------------------------------
(* lookupCorroborated: the reads of one phase run together.                *)

Ask(l, fps) ==
  /\ lookup[l].pc = "idle"
  /\ lookup' = [lookup EXCEPT ![l] =
       [pc |-> "crawl", todo |-> fps, hits |-> {}, out |-> [t \in fps |-> "none"],
        failed |-> FALSE, absent |-> {t \in Fp : ~Known(t, crawl, dark)},
        crawled |-> crawl, darkly |-> dark, taken |-> {}]]
  /\ UNCHANGED <<crawl, dark, moves>>

\* Mutant: an error leaves what was found and calls the rest clean.
PartlyAnswered(q) == [t \in DOMAIN q.out |-> IF q.out[t] = "none" THEN "false" ELSE q.out[t]]

\* catch: every tool of the batch is unknown, those already found as well.
Unknown(q) == [t \in DOMAIN q.out |-> "null"]

Unfinished(q) == {t \in DOMAIN q.out : q.out[t] = "none"}

ReadMember(l, t) ==
  LET q == lookup[l]
      in == t \in (IF q.pc = "crawl" THEN crawl ELSE dark)
  IN /\ q.pc \in {"crawl", "installs"} /\ t \in q.todo
     /\ lookup' = [lookup EXCEPT ![l].todo = @ \ {t}, ![l].hits = IF in THEN @ \union {t} ELSE @]
     /\ UNCHANGED <<crawl, dark, moves>>

\* The hashes only decorate a hit: what matters is that their read may fail.
EndCrawl(l) ==
  LET q == lookup[l]
      found == [t \in DOMAIN q.out |-> IF t \in q.hits THEN "crawl" ELSE "none"]
      rest == DOMAIN q.out \ q.hits
  IN /\ q.pc = "crawl" /\ q.todo = {}
     /\ lookup' = [lookup EXCEPT ![l] =
          IF rest = {} \/ ~DarkServed
            THEN [q EXCEPT !.pc = "done",
                           !.out = [t \in DOMAIN q.out |-> IF t \in rest THEN "false" ELSE found[t]]]
            ELSE [q EXCEPT !.pc = "installs", !.todo = rest, !.hits = {}, !.out = found]]
     /\ UNCHANGED <<crawl, dark, moves>>

EndInstalls(l) ==
  LET q == lookup[l]
  IN /\ q.pc = "installs" /\ q.todo = {}
     /\ lookup' = [lookup EXCEPT ![l] =
          [q EXCEPT !.pc = "done",
                    !.out = [t \in DOMAIN q.out |->
                               IF t \notin Unfinished(q) THEN q.out[t]
                               ELSE IF t \in q.hits THEN "installs" ELSE "false"]]]
     /\ UNCHANGED <<crawl, dark, moves>>

\* Any read of either phase, a hash's as well.
LookupFails(l) ==
  LET q == lookup[l]
  IN /\ q.pc \in {"crawl", "installs"}
     /\ lookup' = [lookup EXCEPT ![l].pc = "done", ![l].failed = TRUE, ![l].out = Unknown(q)]
     /\ UNCHANGED <<crawl, dark, moves>>
-----------------------------------------------------------------------------
QueryInit ==
  /\ crawl = {} /\ dark \in SUBSET Fp
  /\ lookup = [l \in Lookup |-> NotAsked] /\ moves = 0

QueryNext ==
  \/ \E l \in Lookup :
       \/ \E fps \in (SUBSET Fp) \ {{}} : Ask(l, fps)
       \/ \E t \in Fp : ReadMember(l, t)
       \/ EndCrawl(l) \/ EndInstalls(l) \/ LookupFails(l)
  \/ \E t \in Fp : CrawlSees(t) \/ InstallsSee(t) \/ MadeDisjoint(t)

QuerySpec == QueryInit /\ [][QueryNext]_queryVars
-----------------------------------------------------------------------------
QueryTypeOK ==
  /\ crawl \subseteq Fp /\ dark \subseteq Fp /\ moves \in Nat
  /\ \A l \in Lookup : lookup[l].pc \in {"idle", "crawl", "installs", "done"}

\* A tool is answered clean only if, at some moment of the lookup, no plane that is served
\* had it, or if the crawl took it over from the installs under the lookup (the two reads
\* then see it in neither); a hit names a plane that had it; and unknown is said for all
\* tools of the batch, or for none, when a read failed.  (driftQuery.ts:97-155)
CleanMeansSeenNowhere ==
  \A l \in Lookup : lookup[l].pc = "done" =>
    LET q == lookup[l]
    IN \A t \in DOMAIN q.out :
         /\ q.out[t] = "false" => t \in q.absent \union q.taken
         /\ q.out[t] = "crawl" => t \in q.crawled
         /\ q.out[t] = "installs" => DarkServed /\ t \in q.darkly
         /\ q.out[t] = "null" <=> q.failed
         /\ q.out[t] # "none"
=============================================================================
