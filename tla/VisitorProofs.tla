----------------------------- MODULE VisitorProofs -----------------------------
(***************************************************************************)
(* Theorems about what a visitor and an install meet: each component by    *)
(* itself, as the parts of MCVisitors, for any constants.                  *)
(***************************************************************************)
EXTENDS DriftQuery, TrustClient, PageInputs, ConfigScan, ToolGrade, McpEndpoint, ActiveKeys,
        LeadCapture, DriftIngest, EdgeProxy, FiniteSetTheorems, SequenceTheorems,
        WellFoundedInduction, TLAPS

(***************************************************************************)
(* The lookup.  A tool that was read in neither plane was in neither at    *)
(* the moment of the second read, or the crawl took it over after the      *)
(* first: what a lookup relies on is said of the planes as they are (c, d) *)
(* and of what it has seen of them.                                        *)
(***************************************************************************)
QueryShape(q) ==
  /\ q = [pc |-> q.pc, todo |-> q.todo, hits |-> q.hits, out |-> q.out, failed |-> q.failed,
          absent |-> q.absent, crawled |-> q.crawled, darkly |-> q.darkly, taken |-> q.taken]
  /\ q.pc \in {"crawl", "installs", "done"}
  /\ q.out = [t \in DOMAIN q.out |-> q.out[t]] /\ DOMAIN q.out \subseteq Fp

\* The lookup has seen the planes as they are.
Follows(q, c, d) ==
  /\ q.failed = FALSE /\ c \subseteq q.crawled /\ d \subseteq q.darkly
  /\ \A t \in Fp : ~Known(t, c, d) => t \in q.absent

\* A tool the first phase did not find.
Missed(q, t, c) == t \notin c \/ t \in q.taken

FirstPhase(q, c) ==
  \A t \in DOMAIN q.out :
    /\ q.out[t] = "none" /\ (t \in q.todo => t \notin q.hits)
    /\ t \in q.todo \/ IF t \in q.hits THEN t \in q.crawled
                       ELSE Missed(q, t, c) /\ (DarkServed \/ t \in q.absent)

SecondPhase(q, c) ==
  /\ DarkServed /\ q.todo \cap q.hits = {}
  /\ \A t \in DOMAIN q.out :
       \/ q.out[t] = "crawl" /\ t \in q.crawled
       \/ /\ q.out[t] = "none" /\ Missed(q, t, c)
          /\ t \in q.todo \/ IF t \in q.hits THEN t \in q.darkly ELSE t \in q.absent \cup q.taken

Answers(q) ==
  \A t \in DOMAIN q.out :
    /\ q.out[t] = "false" => t \in q.absent \union q.taken
    /\ q.out[t] = "crawl" => t \in q.crawled
    /\ q.out[t] = "installs" => DarkServed /\ t \in q.darkly
    /\ q.out[t] = "null" <=> q.failed
    /\ q.out[t] # "none"

LookupInv(q, c, d) ==
  q.pc = "idle" \/
    /\ QueryShape(q)
    /\ q.pc # "done" => Follows(q, c, d)
    /\ q.pc = "crawl" => FirstPhase(q, c)
    /\ q.pc = "installs" => SecondPhase(q, c)
    /\ q.pc = "done" => Answers(q)

QueryInv ==
  /\ crawl \subseteq Fp /\ dark \subseteq Fp
  /\ lookup = [l \in Lookup |-> lookup[l]]
  /\ \A l \in Lookup : LookupInv(lookup[l], crawl, dark)

\* A step of one lookup: the planes stay.
LEMMA OneLookup ==
  ASSUME QueryInv, NEW l \in Lookup, NEW q, lookup' = [lookup EXCEPT ![l] = q],
         UNCHANGED <<crawl, dark>>, LookupInv(q, crawl, dark)
  PROVE  QueryInv'
BY DEF QueryInv

LEMMA AskKeeps ==
  ASSUME QueryInv, NEW l \in Lookup, NEW fps \in SUBSET Fp, Ask(l, fps) PROVE QueryInv'
<1> DEFINE q == [pc |-> "crawl", todo |-> fps, hits |-> {}, out |-> [t \in fps |-> "none"],
                 failed |-> FALSE, absent |-> {t \in Fp : ~Known(t, crawl, dark)},
                 crawled |-> crawl, darkly |-> dark, taken |-> {}]
<1>1. lookup' = [lookup EXCEPT ![l] = q] /\ UNCHANGED <<crawl, dark>> BY DEF Ask
<1>2. QueryShape(q) BY DEF QueryShape
<1>3. Follows(q, crawl, dark) /\ FirstPhase(q, crawl) BY DEF Follows, FirstPhase
<1>4. q.pc = "crawl" OBVIOUS
<1> HIDE DEF q
<1>5. LookupInv(q, crawl, dark) BY <1>2, <1>3, <1>4 DEF LookupInv
<1> QED BY <1>1, <1>5, OneLookup

LEMMA ReadMemberKeeps ==
  ASSUME QueryInv, NEW l \in Lookup, NEW t \in Fp, ReadMember(l, t) PROVE QueryInv'
<1> DEFINE in == t \in (IF lookup[l].pc = "crawl" THEN crawl ELSE dark)
           hit == IF in THEN lookup[l].hits \union {t} ELSE lookup[l].hits
<1>1. PICK q : q = lookup[l] OBVIOUS
<1>2. PICK r : r = [q EXCEPT !.todo = q.todo \ {t}, !.hits = hit] OBVIOUS
<1>3. /\ lookup' = [lookup EXCEPT ![l] = r] /\ UNCHANGED <<crawl, dark>>
      /\ q.pc \in {"crawl", "installs"} /\ t \in q.todo
  BY <1>1, <1>2 DEF ReadMember, QueryInv
<1>4. QueryShape(q) /\ Follows(q, crawl, dark) BY <1>1, <1>3 DEF QueryInv, LookupInv
<1>5. r = [pc |-> q.pc, todo |-> q.todo \ {t}, hits |-> hit, out |-> q.out, failed |-> q.failed,
           absent |-> q.absent, crawled |-> q.crawled, darkly |-> q.darkly, taken |-> q.taken]
  BY <1>2, <1>4 DEF QueryShape
<1>6. QueryShape(r) /\ Follows(r, crawl, dark) BY <1>4, <1>5 DEF QueryShape, Follows
<1>7. r.pc = "crawl" => FirstPhase(r, crawl)
  <2> SUFFICES ASSUME q.pc = "crawl" PROVE FirstPhase(r, crawl) BY <1>5
  <2>1. FirstPhase(q, crawl) BY <1>1 DEF QueryInv, LookupInv
  <2>2. hit = IF t \in crawl THEN q.hits \union {t} ELSE q.hits BY <1>1
  <2>3. t \in crawl => t \in q.crawled BY <1>4 DEF Follows
  <2>4. t \notin crawl => Missed(q, t, crawl) /\ (DarkServed \/ t \in q.absent)
    BY <1>4 DEF Follows, Missed, Known
  <2>5. /\ r.out = q.out /\ r.todo = q.todo \ {t} /\ r.hits = hit /\ r.crawled = q.crawled
        /\ r.absent = q.absent /\ r.taken = q.taken
    BY <1>5
  <2> HIDE DEF hit
  <2>6. ASSUME NEW u \in DOMAIN q.out, u \notin r.todo
        PROVE  IF u \in r.hits THEN u \in r.crawled
               ELSE Missed(r, u, crawl) /\ (DarkServed \/ u \in r.absent)
    <3>1. CASE u = t
      <4>1. t \notin q.hits BY <1>3, <2>1, <3>1 DEF FirstPhase
      <4> QED BY <2>2, <2>3, <2>4, <2>5, <3>1, <4>1 DEF Missed
    <3>2. CASE u # t
      <4>1. u \notin q.todo /\ (u \in r.hits <=> u \in q.hits) BY <2>2, <2>5, <2>6, <3>2
      <4> QED BY <2>1, <2>5, <4>1 DEF FirstPhase, Missed
    <3> QED BY <3>1, <3>2
  <2>7. \A u \in r.todo : u \in DOMAIN q.out => u \notin r.hits
    BY <2>1, <2>2, <2>5 DEF FirstPhase
  <2> QED BY <2>1, <2>5, <2>6, <2>7 DEF FirstPhase
<1>8. r.pc = "installs" => SecondPhase(r, crawl)
  <2> SUFFICES ASSUME q.pc = "installs" PROVE SecondPhase(r, crawl) BY <1>5
  <2>1. SecondPhase(q, crawl) BY <1>1 DEF QueryInv, LookupInv
  <2>2. hit = IF t \in dark THEN q.hits \union {t} ELSE q.hits BY <1>1
  <2>3. t \in dark => t \in q.darkly BY <1>4 DEF Follows
  <2>4. t \notin dark /\ Missed(q, t, crawl) => t \in q.absent \cup q.taken
    BY <1>4 DEF Follows, Missed, Known
  <2>5. /\ r.out = q.out /\ r.todo = q.todo \ {t} /\ r.hits = hit /\ r.crawled = q.crawled
        /\ r.absent = q.absent /\ r.taken = q.taken /\ r.darkly = q.darkly
    BY <1>5
  <2> HIDE DEF hit
  <2>6. ASSUME NEW u \in DOMAIN q.out, q.out[u] = "none", Missed(q, u, crawl), u \notin r.todo
        PROVE  IF u \in r.hits THEN u \in r.darkly ELSE u \in r.absent \cup r.taken
    <3>1. CASE u = t
      <4>1. t \notin q.hits BY <1>3, <2>1 DEF SecondPhase
      <4> QED BY <2>2, <2>3, <2>4, <2>5, <2>6, <3>1, <4>1
    <3>2. CASE u # t
      <4>1. u \notin q.todo /\ (u \in r.hits <=> u \in q.hits) BY <2>2, <2>5, <2>6, <3>2
      <4> QED BY <2>1, <2>5, <2>6, <4>1 DEF SecondPhase
    <3> QED BY <3>1, <3>2
  <2>7. \A u \in DOMAIN q.out : Missed(r, u, crawl) <=> Missed(q, u, crawl) BY <2>5 DEF Missed
  <2>8. r.todo \cap r.hits = {} BY <2>1, <2>2, <2>5 DEF SecondPhase
  <2> QED BY <2>1, <2>5, <2>6, <2>7, <2>8 DEF SecondPhase
<1>9. LookupInv(r, crawl, dark) BY <1>3, <1>5, <1>6, <1>7, <1>8 DEF LookupInv
<1> QED BY <1>3, <1>9, OneLookup

LEMMA EndCrawlKeeps == ASSUME QueryInv, NEW l \in Lookup, EndCrawl(l) PROVE QueryInv'
<1>1. PICK q : q = lookup[l] OBVIOUS
<1> DEFINE found == [t \in DOMAIN q.out |-> IF t \in q.hits THEN "crawl" ELSE "none"]
           rest == DOMAIN q.out \ q.hits
           last == [t \in DOMAIN q.out |-> IF t \in rest THEN "false" ELSE found[t]]
<1>2. PICK r : r = IF rest = {} \/ ~DarkServed THEN [q EXCEPT !.pc = "done", !.out = last]
                   ELSE [q EXCEPT !.pc = "installs", !.todo = rest, !.hits = {}, !.out = found]
  OBVIOUS
<1>3. /\ lookup' = [lookup EXCEPT ![l] = r] /\ UNCHANGED <<crawl, dark>>
      /\ q.pc = "crawl" /\ q.todo = {}
  BY <1>1, <1>2 DEF EndCrawl
<1>4. QueryShape(q) /\ Follows(q, crawl, dark) /\ FirstPhase(q, crawl)
  BY <1>1, <1>3 DEF QueryInv, LookupInv
<1>5. CASE rest = {} \/ ~DarkServed
  <2>1. r = [pc |-> "done", todo |-> q.todo, hits |-> q.hits, out |-> last,
             failed |-> q.failed, absent |-> q.absent, crawled |-> q.crawled,
             darkly |-> q.darkly, taken |-> q.taken]
    BY <1>2, <1>4, <1>5 DEF QueryShape
  <2>2. QueryShape(r) BY <1>4, <2>1 DEF QueryShape
  <2>3. Answers(r) BY <1>3, <1>4, <1>5, <2>1 DEF Answers, FirstPhase, Follows
  <2>4. LookupInv(r, crawl, dark) BY <2>1, <2>2, <2>3 DEF LookupInv
  <2> QED BY <1>3, <2>4, OneLookup
<1>6. CASE rest # {} /\ DarkServed
  <2>1. r = [pc |-> "installs", todo |-> rest, hits |-> {}, out |-> found,
             failed |-> q.failed, absent |-> q.absent, crawled |-> q.crawled,
             darkly |-> q.darkly, taken |-> q.taken]
    BY <1>2, <1>4, <1>6 DEF QueryShape
  <2>2. QueryShape(r) /\ Follows(r, crawl, dark) BY <1>4, <2>1 DEF QueryShape, Follows
  <2>3. SecondPhase(r, crawl)
    BY <1>3, <1>4, <1>6, <2>1 DEF SecondPhase, FirstPhase, Missed
  <2>4. LookupInv(r, crawl, dark) BY <2>1, <2>2, <2>3 DEF LookupInv
  <2> QED BY <1>3, <2>4, OneLookup
<1> QED BY <1>5, <1>6

LEMMA EndInstallsKeeps == ASSUME QueryInv, NEW l \in Lookup, EndInstalls(l) PROVE QueryInv'
<1>1. PICK q : q = lookup[l] OBVIOUS
<1> DEFINE last == [t \in DOMAIN q.out |->
                      IF t \notin Unfinished(q) THEN q.out[t]
                      ELSE IF t \in q.hits THEN "installs" ELSE "false"]
<1>2. PICK r : r = [q EXCEPT !.pc = "done", !.out = last] OBVIOUS
<1>3. /\ lookup' = [lookup EXCEPT ![l] = r] /\ UNCHANGED <<crawl, dark>>
      /\ q.pc = "installs" /\ q.todo = {}
  BY <1>1, <1>2 DEF EndInstalls
<1>4. QueryShape(q) /\ Follows(q, crawl, dark) /\ SecondPhase(q, crawl)
  BY <1>1, <1>3 DEF QueryInv, LookupInv
<1>5. r = [pc |-> "done", todo |-> q.todo, hits |-> q.hits, out |-> last,
           failed |-> q.failed, absent |-> q.absent, crawled |-> q.crawled,
           darkly |-> q.darkly, taken |-> q.taken]
  BY <1>2, <1>4 DEF QueryShape
<1>6. QueryShape(r) BY <1>4, <1>5 DEF QueryShape
<1>7. Answers(r) BY <1>3, <1>4, <1>5 DEF Answers, SecondPhase, Follows, Unfinished
<1>8. LookupInv(r, crawl, dark) BY <1>5, <1>6, <1>7 DEF LookupInv
<1> QED BY <1>3, <1>8, OneLookup

LEMMA LookupFailsKeeps == ASSUME QueryInv, NEW l \in Lookup, LookupFails(l) PROVE QueryInv'
<1>1. PICK q : q = lookup[l] OBVIOUS
<1>2. PICK r : r = [q EXCEPT !.pc = "done", !.failed = TRUE, !.out = Unknown(q)] OBVIOUS
<1>3. /\ lookup' = [lookup EXCEPT ![l] = r] /\ UNCHANGED <<crawl, dark>>
      /\ q.pc \in {"crawl", "installs"}
  BY <1>1, <1>2 DEF LookupFails, QueryInv
<1>4. QueryShape(q) BY <1>1, <1>3 DEF QueryInv, LookupInv
<1>5. r = [pc |-> "done", todo |-> q.todo, hits |-> q.hits, out |-> Unknown(q),
           failed |-> TRUE, absent |-> q.absent, crawled |-> q.crawled,
           darkly |-> q.darkly, taken |-> q.taken]
  BY <1>2, <1>4 DEF QueryShape
<1>6. QueryShape(r) /\ Answers(r) BY <1>4, <1>5 DEF QueryShape, Answers, Unknown
<1>7. LookupInv(r, crawl, dark) BY <1>5, <1>6 DEF LookupInv
<1> QED BY <1>3, <1>7, OneLookup

\* The drain moves a tool: what it takes from the installs, every running lookup has seen.
LEMMA PlanesMoveKeeps ==
  ASSUME QueryInv, NEW c \in SUBSET Fp, NEW d \in SUBSET Fp, crawl \subseteq c, PlanesMove(c, d)
  PROVE  QueryInv'
<1>1. crawl' = c /\ dark' = d /\ lookup' = [l \in Lookup |-> lookup'[l]] BY DEF PlanesMove
<1>2. ASSUME NEW l \in Lookup PROVE LookupInv(lookup'[l], c, d)
  <2>1. PICK q : q = lookup[l] OBVIOUS
  <2>2. PICK r : r = lookup'[l] OBVIOUS
  <2>3. LookupInv(q, crawl, dark) BY <2>1 DEF QueryInv
  <2>4. CASE q.pc \in {"idle", "done"}
    <3>1. r = q BY <2>1, <2>2, <2>4 DEF PlanesMove
    <3> QED BY <2>2, <2>3, <2>4, <3>1 DEF LookupInv
  <2>5. CASE q.pc \notin {"idle", "done"}
    <3>1. /\ QueryShape(q) /\ Follows(q, crawl, dark) /\ q.pc \in {"crawl", "installs"}
          /\ q.pc = "crawl" => FirstPhase(q, crawl)
          /\ q.pc = "installs" => SecondPhase(q, crawl)
      BY <2>3, <2>5 DEF LookupInv, QueryShape
    <3>2. r = [q EXCEPT !.absent = @ \union {t \in Fp : ~Known(t, c, d)},
                        !.crawled = @ \union c, !.darkly = @ \union d,
                        !.taken = @ \union {t \in c : t \notin crawl}]
      BY <2>1, <2>2, <2>5 DEF PlanesMove
    <3>3. r = [pc |-> q.pc, todo |-> q.todo, hits |-> q.hits, out |-> q.out, failed |-> q.failed,
               absent |-> q.absent \union {t \in Fp : ~Known(t, c, d)},
               crawled |-> q.crawled \union c, darkly |-> q.darkly \union d,
               taken |-> q.taken \union {t \in c : t \notin crawl}]
      BY <3>1, <3>2 DEF QueryShape
    <3>4. QueryShape(r) /\ Follows(r, c, d) BY <3>1, <3>3 DEF QueryShape, Follows
    <3>5. \A t : Missed(q, t, crawl) => Missed(r, t, c) BY <3>3 DEF Missed
    <3>6. /\ q.absent \subseteq r.absent /\ q.taken \subseteq r.taken
          /\ q.crawled \subseteq r.crawled /\ q.darkly \subseteq r.darkly
          /\ r.pc = q.pc /\ r.out = q.out /\ r.todo = q.todo /\ r.hits = q.hits
      BY <3>3
    <3>7. r.pc = "crawl" => FirstPhase(r, c) BY <3>1, <3>5, <3>6 DEF FirstPhase
    <3>8. r.pc = "installs" => SecondPhase(r, c) BY <3>1, <3>5, <3>6 DEF SecondPhase
    <3> QED BY <2>2, <3>1, <3>4, <3>6, <3>7, <3>8 DEF LookupInv
  <2> QED BY <2>4, <2>5
<1> QED BY <1>1, <1>2 DEF QueryInv

LEMMA QueryInvHolds == QuerySpec => []QueryInv
<1>1. QueryInit => QueryInv BY DEF QueryInit, QueryInv, LookupInv, NotAsked
<1>2. QueryInv /\ [QueryNext]_queryVars => QueryInv'
  <2> SUFFICES ASSUME QueryInv, [QueryNext]_queryVars PROVE QueryInv' OBVIOUS
  <2>1. CASE UNCHANGED queryVars BY <2>1 DEF queryVars, QueryInv
  <2>2. ASSUME NEW t \in Fp, CrawlSees(t) \/ InstallsSee(t) \/ MadeDisjoint(t) PROVE QueryInv'
    <3>1. CASE CrawlSees(t)
      <4>1. crawl \union {t} \in SUBSET Fp /\ dark \in SUBSET Fp BY DEF QueryInv
      <4> QED BY <3>1, <4>1, PlanesMoveKeeps DEF CrawlSees
    <3>2. CASE InstallsSee(t)
      <4>1. crawl \in SUBSET Fp /\ dark \union {t} \in SUBSET Fp BY DEF QueryInv
      <4> QED BY <3>2, <4>1, PlanesMoveKeeps DEF InstallsSee
    <3>3. CASE MadeDisjoint(t)
      <4>1. crawl \in SUBSET Fp /\ dark \ {t} \in SUBSET Fp BY DEF QueryInv
      <4> QED BY <3>3, <4>1, PlanesMoveKeeps DEF MadeDisjoint
    <3> QED BY <2>2, <3>1, <3>2, <3>3
  <2> QED BY <2>1, <2>2, AskKeeps, ReadMemberKeeps, EndCrawlKeeps, EndInstallsKeeps,
             LookupFailsKeeps DEF QueryNext
<1> QED BY <1>1, <1>2, PTL DEF QuerySpec

\* Whatever tools are asked about, and however the drain moves them under the lookups: a
\* tool is called clean only if it was in no served plane at some moment of its lookup, or
\* the crawl took it over meanwhile; a hit names a plane that had it; and a failed read
\* makes all of its batch unknown, and nothing else does (driftQuery.ts).
THEOREM CleanIsSeenNowhere == QuerySpec => []CleanMeansSeenNowhere
<1>1. QueryInv => CleanMeansSeenNowhere
  BY DEF QueryInv, LookupInv, Answers, CleanMeansSeenNowhere
<1> QED BY <1>1, QueryInvHolds, PTL
-----------------------------------------------------------------------------
(***************************************************************************)
(* The npm client.  What was learned of the reply is in its step: no reply *)
(* before the body, a 2xx from then on, and a whole one once it is settled *)
(* without a reason.                                                       *)
(***************************************************************************)
Arrived == reply \in Sent /\ reply.code = 200

Verdict ==
  LET relayed == reply # Absent /\ reply.code = 200 /\ reply.json /\ reason = Absent
  IN /\ verdict.directive = "ALLOW" => relayed /\ reply.raw.directive = "ALLOW"
     /\ verdict.status = "EVALUATED" => relayed /\ reply.raw.status = "EVALUATED"
     /\ verdict.directive # "UNVERIFIED" => verdict.why = Absent
     /\ ~relayed => verdict.why # Absent

ClientInv ==
  /\ step \in {"new", "headers", "body", "settled", "done"}
  /\ step \in {"new", "headers"} => reply = Absent
  /\ step \in {"new", "headers", "body"} => reason = Absent
  /\ step = "body" => Arrived
  /\ step = "settled" => \/ reason \in {"http_500", "network_error", "timeout"}
                         \/ reason = Absent /\ Arrived /\ reply.json
  /\ step = "done" => Verdict
  /\ step \notin {"new", "done"} => \A s \in ask : s \in Segment /\ Safe(s)

\* A segment that passed the guard shows no unsafe form, however often it is decoded: the
\* round that left it as it was had taken off the last of its encodings.
LEMMA SafeIsSafe ==
  ASSUME NEW s \in Segment, Safe(s), NEW k \in Nat
  PROVE  ~Unsafe(Form(s, k)) /\ ~Throws(Form(s, k))
<1>1. PICK n \in 0..(Rounds - 1) :
        Form(s, n + 1) = Form(s, n) /\ \A i \in 0..n : ~Unsafe(Form(s, i)) /\ ~Throws(Form(s, i))
  BY DEF Safe
<1>2. Rounds \in Nat /\ n \in Nat /\ s.wraps \in Nat BY TrustClientConstants DEF Segment
<1>3. s.wraps <= n
  <2>1. Form(s, n).wraps = IF n < s.wraps THEN s.wraps - n ELSE 0 BY DEF Form, Segment
  <2>2. Form(s, n + 1).wraps = IF n + 1 < s.wraps THEN s.wraps - (n + 1) ELSE 0
    BY DEF Form, Segment
  <2> QED BY <1>1, <1>2, <2>1, <2>2
<1>4. CASE k <= n BY <1>1, <1>2, <1>4
<1>5. CASE k > n
  <2>1. ~(k < s.wraps) /\ ~(n < s.wraps) BY <1>2, <1>3, <1>5
  <2>2. Form(s, k) = Form(s, n) BY <2>1 DEF Form
  <2> QED BY <1>1, <1>2, <2>2
<1> QED BY <1>2, <1>4, <1>5

\* Its own verdicts allow nothing and claim nothing, and say why.
LEMMA FabricatedIs ==
  ASSUME NEW why \in Why
  PROVE  /\ Fabricated(why).directive = "UNVERIFIED" /\ Fabricated(why).status = "ERROR"
         /\ Fabricated(why).why = why /\ why # Absent
BY TrustClientConstants DEF Fabricated, Why

LEMMA ClientInvHolds == TrustClientSpec => []ClientInv
<1>1. TrustClientInit => ClientInv BY DEF TrustClientInit, ClientInv
<1>2. ClientInv /\ [TrustClientNext]_trustClientVars => ClientInv'
  <2> SUFFICES ASSUME ClientInv, [TrustClientNext]_trustClientVars PROVE ClientInv' OBVIOUS
  <2>1. CASE UNCHANGED trustClientVars
    BY <2>1 DEF trustClientVars, ClientInv, Arrived, Verdict
  <2>2. ASSUME NEW segments \in SUBSET Segment, Check(segments) PROVE ClientInv'
    <3>1. reply' = Absent /\ reason' = Absent /\ ask' = segments BY <2>2 DEF Check, ClientInv
    <3>2. CASE step' = "headers"
      <4>1. \A s \in segments : Safe(s) BY <2>2, <3>2 DEF Check
      <4> QED BY <2>2, <3>1, <3>2, <4>1 DEF ClientInv
    <3>3. CASE step' # "headers"
      <4>1. step' = "done" /\ \E why \in Why : verdict' = Fabricated(why)
        BY <2>2, <3>3 DEF Check, Why
      <4>2. Verdict' BY <3>1, <4>1, FabricatedIs DEF Verdict
      <4> QED BY <3>1, <4>1, <4>2 DEF ClientInv
    <3> QED BY <3>2, <3>3
  <2>3. ASSUME NEW r \in Sent, Headers(r) PROVE ClientInv'
    BY <2>3 DEF Headers, ClientInv, Arrived, Sent
  <2>4. CASE Body
    BY <2>4 DEF Body, ClientInv, Arrived
  <2>5. ASSUME NEW why \in {"timeout", "network_error"}, BreaksOff(why) PROVE ClientInv'
    BY <2>5 DEF BreaksOff, ClientInv
  <2>6. CASE Settled
    <3>1. /\ step = "settled" /\ step' = "done" /\ UNCHANGED <<ask, reply, reason>>
          /\ verdict' = IF reason # Absent THEN Fabricated(reason) ELSE Shaped(reply.raw)
      BY <2>6 DEF Settled
    <3>2. CASE reason \in {"http_500", "network_error", "timeout"}
      <4>1. reason \in Why BY <3>2 DEF Why
      <4>2. verdict' = Fabricated(reason) /\ reason' # Absent BY <3>1, <4>1, FabricatedIs
      <4>3. Verdict' BY <4>1, <4>2, FabricatedIs DEF Verdict
      <4> QED BY <3>1, <4>3 DEF ClientInv
    <3>3. CASE reason = Absent /\ Arrived /\ reply.json
      <4>1. reply' # Absent /\ reply'.code = 200 /\ reply'.json /\ reason' = Absent
        BY <3>1, <3>3, AbsentIsNoReply DEF Arrived
      <4>2. verdict' = Shaped(reply.raw) BY <3>1, <3>3
      <4>3. CASE reply.raw = Absent
        <5>1. PICK why \in Why : verdict' = Fabricated(why) /\ why = "empty_payload"
          BY <4>2, <4>3 DEF Shaped, Why
        <5>2. verdict'.directive = "UNVERIFIED" /\ verdict'.status = "ERROR"
          BY <5>1, FabricatedIs
        <5>3. Verdict' BY <4>1, <5>2 DEF Verdict
        <5> QED BY <3>1, <5>3 DEF ClientInv
      <4>4. CASE reply.raw # Absent
        <5>1. Verdict' BY <3>1, <4>1, <4>2, <4>4 DEF Verdict, Shaped, Directive, Status
        <5> QED BY <3>1, <5>1 DEF ClientInv
      <4> QED BY <4>3, <4>4
    <3> QED BY <3>1, <3>2, <3>3 DEF ClientInv
  <2>7. \A s, t \in Segment : {s, t} \in SUBSET Segment OBVIOUS
  <2>8. {} \in SUBSET Segment OBVIOUS
  <2> QED BY <2>1, <2>2, <2>3, <2>4, <2>5, <2>6, <2>7, <2>8 DEF TrustClientNext
<1> QED BY <1>1, <1>2, PTL DEF TrustClientSpec

\* However many rounds the guard has, whatever the service sends and wherever it breaks off:
\* a verdict that allows, or claims a whole screen, is one that came whole and with a 2xx; any
\* other says why; and a segment that was sent on decodes to nothing unsafe (trust.mjs).
THEOREM AlwaysFailsClosed == TrustClientSpec => []FailsClosed
<1>1. ClientInv => FailsClosed
  <2> SUFFICES ASSUME ClientInv PROVE FailsClosed OBVIOUS
  <2>1. \A k \in 0..(Rounds + 2) : k \in Nat BY TrustClientConstants
  <2> QED BY <2>1, SafeIsSafe DEF ClientInv, Verdict, FailsClosed
<1> QED BY <1>1, ClientInvHolds, PTL
-----------------------------------------------------------------------------
(***************************************************************************)
(* The inputs of the pages.  At most one fetch is not aborted, and once    *)
(* the timer has fired for the query in the box it is that query's; only   *)
(* the clearing of the box leaves another's under way.                     *)
(***************************************************************************)
BoxInv ==
  /\ search = [q |-> search.q, typed |-> search.typed, debounce |-> search.debounce,
               state |-> search.state, shown |-> search.shown, live |-> search.live]
  /\ \A a, b \in search.live : a = b
  /\ ~search.debounce /\ search.q # 0 =>
       \/ search.live = {search.q} /\ search.state = "loading"
       \/ /\ search.live = {}
          /\ search.state = "error" \/ (search.state = "done" /\ search.shown = search.q)
  /\ ~search.debounce /\ search.q = 0 =>
       \/ search.state = "idle"
       \/ search.live = {} /\ search.state \in {"done", "error"} /\ overtaken

TextInv ==
  /\ scan = [text |-> scan.text, edits |-> scan.edits, presses |-> scan.presses,
             picked |-> scan.picked]
  /\ "clipboard" \notin replaced
  /\ reading = FALSE \/ waiting # {}

LEMMA SearchBoxKeeps ==
  ASSUME BoxInv, (\E q \in Query : Type(q)) \/ Fires \/ (\E q \in Query, ok \in BOOLEAN : SearchEnds(q, ok))
  PROVE  BoxInv'
<1>1. PICK s : s = search OBVIOUS
<1>2. CASE \E q \in Query : Type(q)
  <2>1. PICK q \in Query : Type(q) BY <1>2
  <2>2. search' = [q |-> q, typed |-> s.typed + 1, debounce |-> TRUE, state |-> s.state,
                   shown |-> s.shown, live |-> s.live]
    BY <1>1, <2>1 DEF Type, BoxInv
  <2> QED BY <1>1, <2>2 DEF BoxInv
<1>3. CASE Fires
  <2>1. CASE s.q = 0
    <3>1. search' = [q |-> 0, typed |-> s.typed, debounce |-> FALSE, state |-> "idle",
                     shown |-> 0, live |-> s.live]
      BY <1>1, <1>3, <2>1 DEF Fires, Cleared, BoxInv
    <3> QED BY <1>1, <3>1 DEF BoxInv
  <2>2. CASE s.q # 0
    <3>1. search' = [q |-> s.q, typed |-> s.typed, debounce |-> FALSE, state |-> "loading",
                     shown |-> s.shown, live |-> {s.q}]
      BY <1>1, <1>3, <2>2 DEF Fires, Searching, BoxInv
    <3> QED BY <2>2, <3>1 DEF BoxInv
  <2> QED BY <2>1, <2>2
<1>4. CASE \E q \in Query, ok \in BOOLEAN : SearchEnds(q, ok)
  <2>1. PICK q \in Query, ok \in BOOLEAN : SearchEnds(q, ok) BY <1>4
  <2>2. PICK how : how = IF ok THEN "done" ELSE "error" OBVIOUS
  <2>3. PICK what : what = IF ok THEN q ELSE s.shown OBVIOUS
  <2>4. /\ q \in s.live /\ overtaken' = (s.state = "idle")
        /\ search' = [q |-> s.q, typed |-> s.typed, debounce |-> s.debounce, state |-> how,
                      shown |-> what, live |-> s.live \ {q}]
    BY <1>1, <2>1, <2>2, <2>3 DEF SearchEnds, BoxInv
  <2>5. s.live \ {q} = {} BY <1>1, <2>4 DEF BoxInv
  <2>6. ~s.debounce /\ s.q # 0 => q = s.q BY <1>1, <2>4 DEF BoxInv
  <2>7. ~s.debounce /\ s.q = 0 => s.state = "idle" BY <1>1, <2>4 DEF BoxInv
  <2>8. how = "error" \/ (how = "done" /\ what = q) BY <2>2, <2>3
  <2> QED BY <2>4, <2>5, <2>6, <2>7, <2>8 DEF BoxInv
<1> QED BY <1>2, <1>3, <1>4

\* What fills the box without being asked for finds it empty.
LEMMA ScanBoxKeeps ==
  ASSUME TextInv,
         \/ \E empty \in BOOLEAN : Edit(empty)
         \/ Sample \/ Press \/ Pick
         \/ \E n \in 1..MaxReads : Nudge(n)
         \/ \E n \in 1..MaxReads, w \in {"silent", "nudged"}, filled \in BOOLEAN :
              Clipboard(n, w, filled)
         \/ \E ok \in BOOLEAN : FileRead(ok)
  PROVE  TextInv'
<1>1. ASSUME NEW empty \in BOOLEAN, Edit(empty) PROVE TextInv'
  BY <1>1 DEF Edit, TextInv
<1>2. CASE Sample BY <1>2 DEF Sample, Fill, Loses, TextInv
<1>3. CASE Press BY <1>3 DEF Press, TextInv
<1>4. CASE Pick BY <1>4 DEF Pick, TextInv
<1>5. ASSUME NEW n \in 1..MaxReads, Nudge(n) PROVE TextInv'
  BY <1>5 DEF Nudge, TextInv
<1>6. ASSUME NEW n \in 1..MaxReads, NEW w \in {"silent", "nudged"}, NEW filled \in BOOLEAN,
             Clipboard(n, w, filled)
      PROVE  TextInv'
  <2>1. replaced' = replaced \/ (scan.text = Empty /\ Loses("clipboard"))
    BY <1>6 DEF Clipboard
  <2>2. replaced' = replaced BY <2>1 DEF Loses, Empty
  <2>3. scan' = scan \/ scan' = [scan EXCEPT !.text = <<"clipboard", 0>>]
    BY <1>6 DEF Clipboard, Fill
  <2>4. reading' = FALSE BY <1>6 DEF Clipboard
  <2> QED BY <2>2, <2>3, <2>4 DEF TextInv
<1>7. ASSUME NEW ok \in BOOLEAN, FileRead(ok) PROVE TextInv'
  BY <1>7 DEF FileRead, Fill, Loses, TextInv
<1> QED BY <1>1, <1>2, <1>3, <1>4, <1>5, <1>6, <1>7

LEMMA InputInvHolds == InputSpec => [](BoxInv /\ TextInv)
<1>1. InputInit => BoxInv /\ TextInv
  BY DEF InputInit, BoxInv, TextInv
<1>2. BoxInv /\ TextInv /\ [InputNext]_inputVars => (BoxInv /\ TextInv)'
  <2> SUFFICES ASSUME BoxInv, TextInv, [InputNext]_inputVars PROVE BoxInv' /\ TextInv' OBVIOUS
  <2>1. CASE (\E q \in Query : Type(q)) \/ Fires \/ (\E q \in Query, ok \in BOOLEAN : SearchEnds(q, ok))
    <3>1. TextInv' BY <2>1 DEF Type, Fires, SearchEnds, scanVars, TextInv
    <3> QED BY <2>1, <3>1, SearchBoxKeeps
  <2>2. CASE \/ \E empty \in BOOLEAN : Edit(empty)
             \/ Sample \/ Press \/ Pick
             \/ \E n \in 1..MaxReads : Nudge(n)
             \/ \E n \in 1..MaxReads, w \in {"silent", "nudged"}, filled \in BOOLEAN :
                  Clipboard(n, w, filled)
             \/ \E ok \in BOOLEAN : FileRead(ok)
    <3>1. BoxInv'
      BY <2>2 DEF Edit, Sample, Press, Pick, Nudge, Clipboard, FileRead, searchVars, BoxInv
    <3> QED BY <2>2, <3>1, ScanBoxKeeps
  <2>3. CASE UNCHANGED inputVars BY <2>3 DEF inputVars, BoxInv, TextInv
  <2> QED BY <2>1, <2>2, <2>3 DEF InputNext
<1> QED BY <1>1, <1>2, PTL DEF InputSpec

\* However many edits, fetches, clipboard reads and files there are, and however late each
\* answers: at rest the search page shows what the box asks (or an answer to a box cleared
\* meanwhile), a clipboard never replaces what the visitor typed, and the button that reads
\* it is not stuck (ServerSearch.tsx, ScanTool.tsx).
THEOREM LateAnswersAlwaysYield == InputSpec => []LateAnswersYield
<1>1. BoxInv /\ TextInv => LateAnswersYield
  BY DEF BoxInv, TextInv, LateAnswersYield, ResultsAreTheBoxs, TypedTextStays
<1> QED BY <1>1, InputInvHolds, PTL
-----------------------------------------------------------------------------
(***************************************************************************)
(* The grades of a tool.  Every test of a grade but the domain and the     *)
(* effective type only turns true as the tool says more, and the effective *)
(* type only moves up DestructOrder.                                       *)
(***************************************************************************)
ToolRecord ==
  [name : SUBSET Words, described : SUBSET Words,
   params : SUBSET {"payload", "credential", "huge"}, hints : SUBSET {"readOnly", "destructive"}]

SaysMore(s, t) ==
  /\ s.name \subseteq t.name /\ s.described \subseteq t.described
  /\ s.params \subseteq t.params /\ s.hints \subseteq t.hints

Ordered == {"delete", "execute", "admin", "auth", "send", "write", "update", "search", "read"}

\* e is the first of DestructOrder among the types A.
FirstOf(e, A) ==
  \/ A = {} /\ e = "unknown"
  \/ /\ e \in A /\ e \in Ordered
     /\ e # "delete" => "delete" \notin A
     /\ e \notin {"delete", "execute"} => "execute" \notin A
     /\ e \notin {"delete", "execute", "admin"} => "admin" \notin A
     /\ e \notin {"delete", "execute", "admin", "auth"} => "auth" \notin A
     /\ e \notin {"delete", "execute", "admin", "auth", "send"} => "send" \notin A
     /\ e \in {"update", "search", "read"} => "write" \notin A
     /\ e \in {"search", "read"} => "update" \notin A
     /\ e = "read" => "search" \notin A

\* e is moved to f.
Upward(e, f) ==
  /\ f = "unknown" => e = "unknown"
  /\ e = "delete" => f = "delete"
  /\ e = "execute" => f \in {"delete", "execute"}
  /\ e = "admin" => f \in {"delete", "execute", "admin"}
  /\ e = "auth" => f \in {"delete", "execute", "admin", "auth"}
  /\ e = "send" => f \in {"delete", "execute", "admin", "auth", "send"}
  /\ e = "write" => f \notin {"update", "search", "read"}
  /\ e = "update" => f \notin {"search", "read"}
  /\ e = "search" => f # "read"

LEMMA TypesAreOrdered ==
  ASSUME NEW t \in ToolRecord
  PROVE  actionTypes(t) \subseteq Ordered
<1>1. \A w : VerbType(w) \subseteq Ordered BY DEF VerbType, Ordered
<1>2. "delete" \in Ordered BY DEF Ordered
<1>3. UNION {VerbType(w) : w \in nameTokens(t.name)} \subseteq Ordered
  <2> SUFFICES ASSUME NEW x, NEW w \in nameTokens(t.name), x \in VerbType(w) PROVE x \in Ordered OBVIOUS
  <2> QED BY <1>1
<1>4. (IF "destructive" \in t.hints THEN {"delete"} ELSE {}) \subseteq Ordered BY <1>2
<1> QED BY <1>3, <1>4 DEF actionTypes

LEMMA EffectiveIsFirst ==
  ASSUME NEW t \in ToolRecord
  PROVE  FirstOf(effectiveType(t), actionTypes(t))
<1>1. PICK A : A = actionTypes(t) OBVIOUS
<1>2. A \subseteq Ordered BY <1>1, TypesAreOrdered
<1>3. CASE A = {} BY <1>1, <1>3 DEF effectiveType, FirstOf
<1>4. CASE A # {}
  <2> DEFINE P(i) == DestructOrder[i] \in A /\ \A j \in 1..(i - 1) : DestructOrder[j] \notin A
             first == CHOOSE i \in DOMAIN DestructOrder : P(i)
  <2>1. /\ DOMAIN DestructOrder = 1..9
        /\ DestructOrder[1] = "delete" /\ DestructOrder[2] = "execute"
        /\ DestructOrder[3] = "admin" /\ DestructOrder[4] = "auth" /\ DestructOrder[5] = "send"
        /\ DestructOrder[6] = "write" /\ DestructOrder[7] = "update"
        /\ DestructOrder[8] = "search" /\ DestructOrder[9] = "read"
    BY DEF DestructOrder
  <2>2. \E i \in DOMAIN DestructOrder : P(i)
    <3>1. CASE "delete" \in A BY <2>1, <3>1
    <3>2. CASE "delete" \notin A /\ "execute" \in A BY <2>1, <3>2
    <3>3. CASE A \cap {"delete", "execute"} = {} /\ "admin" \in A BY <2>1, <3>3
    <3>4. CASE A \cap {"delete", "execute", "admin"} = {} /\ "auth" \in A BY <2>1, <3>4
    <3>5. CASE A \cap {"delete", "execute", "admin", "auth"} = {} /\ "send" \in A BY <2>1, <3>5
    <3>6. CASE A \cap {"delete", "execute", "admin", "auth", "send"} = {} /\ "write" \in A
      BY <2>1, <3>6
    <3>7. CASE A \cap {"delete", "execute", "admin", "auth", "send", "write"} = {} /\ "update" \in A
      BY <2>1, <3>7
    <3>8. CASE A \cap {"delete", "execute", "admin", "auth", "send", "write", "update"} = {}
               /\ "search" \in A
      BY <2>1, <3>8
    <3>9. CASE A \subseteq {"read"} /\ "read" \in A BY <2>1, <3>9
    <3> QED BY <1>2, <1>4, <3>1, <3>2, <3>3, <3>4, <3>5, <3>6, <3>7, <3>8, <3>9 DEF Ordered
  <2>3. first \in DOMAIN DestructOrder /\ P(first)
    <3> HIDE DEF P
    <3> QED BY <2>2, Zenon
  <2>4. effectiveType(t) = DestructOrder[first] BY <1>1, <1>4 DEF effectiveType
  <2> HIDE DEF first
  <2>5. PICK i \in 1..9 : i = first /\ DestructOrder[i] \in A
                          /\ \A j \in 1..(i - 1) : DestructOrder[j] \notin A
    BY <2>1, <2>3
  <2>6. PICK e : e = DestructOrder[i] OBVIOUS
  <2>7. FirstOf(e, A) BY <1>2, <2>1, <2>5, <2>6 DEF FirstOf
  <2> QED BY <1>1, <2>4, <2>5, <2>6, <2>7
<1> QED BY <1>3, <1>4

LEMMA MoreTypes ==
  ASSUME NEW s \in ToolRecord, NEW t \in ToolRecord, SaysMore(s, t)
  PROVE  Upward(effectiveType(s), effectiveType(t))
<1>1. actionTypes(s) \subseteq actionTypes(t)
  <2>1. nameTokens(s.name) \subseteq nameTokens(t.name) BY DEF SaysMore, nameTokens
  <2>2. s.hints \subseteq t.hints BY DEF SaysMore
  <2> QED BY <2>1, <2>2 DEF actionTypes
<1>2. PICK A, B, e, f : A = actionTypes(s) /\ B = actionTypes(t)
                        /\ e = effectiveType(s) /\ f = effectiveType(t)
  OBVIOUS
<1>3. FirstOf(e, A) /\ FirstOf(f, B) /\ A \subseteq B BY <1>1, <1>2, EffectiveIsFirst
<1>4. Upward(e, f)
  <2>1. f = "unknown" => e = "unknown" BY <1>3 DEF FirstOf, Ordered
  <2>2. e \in A => e \in B BY <1>3
  <2>3. e = "delete" => f = "delete" BY <1>3, <2>2 DEF FirstOf, Ordered
  <2>4. e = "execute" => f \in {"delete", "execute"} BY <1>3, <2>2 DEF FirstOf, Ordered
  <2>5. e = "admin" => f \in {"delete", "execute", "admin"} BY <1>3, <2>2 DEF FirstOf, Ordered
  <2>6. e = "auth" => f \in {"delete", "execute", "admin", "auth"} BY <1>3, <2>2 DEF FirstOf, Ordered
  <2>7. e = "send" => f \in {"delete", "execute", "admin", "auth", "send"} BY <1>3, <2>2 DEF FirstOf, Ordered
  <2>8. e = "write" => f \notin {"update", "search", "read"} BY <1>3, <2>2 DEF FirstOf, Ordered
  <2>9. e = "update" => f \notin {"search", "read"} BY <1>3, <2>2 DEF FirstOf, Ordered
  <2>10. e = "search" => f # "read" BY <1>3, <2>2 DEF FirstOf, Ordered
  <2> QED BY <2>1, <2>3, <2>4, <2>5, <2>6, <2>7, <2>8, <2>9, <2>10 DEF Upward
<1> QED BY <1>2, <1>4

Met(t, d) == Mentioned(t) \cap DomainTokens(d) # {}

LEMMA DomainIs ==
  ASSUME NEW t \in ToolRecord
  PROVE  domainClass(t) = IF Met(t, "payments") THEN "payments"
                          ELSE IF Met(t, "infra") THEN "infra"
                          ELSE IF Met(t, "comms") THEN "comms"
                          ELSE IF Met(t, "data") THEN "data" ELSE "unknown"
<1>1. PICK M : M = {d \in {"payments", "infra", "comms", "data"} : Met(t, d)} OBVIOUS
<1>2. domainClass(t) =
        CASE "payments" \in M -> "payments"
          [] "payments" \notin M /\ "infra" \in M -> "infra"
          [] M \cap {"payments", "infra"} = {} /\ "comms" \in M -> "comms"
          [] M = {"data"} -> "data"
          [] M = {} -> "unknown"
  BY <1>1 DEF domainClass, Met
<1>3. \A d \in {"payments", "infra", "comms", "data"} : d \in M <=> Met(t, d)
  BY <1>1
<1>4. M \subseteq {"payments", "infra", "comms", "data"} BY <1>1
<1>5. CASE "payments" \in M BY <1>2, <1>3, <1>5
<1>6. CASE "payments" \notin M /\ "infra" \in M BY <1>2, <1>3, <1>6
<1>7. CASE M \cap {"payments", "infra"} = {} /\ "comms" \in M BY <1>2, <1>3, <1>7
<1>8. CASE M = {"data"} BY <1>2, <1>3, <1>8
<1>9. CASE M = {} BY <1>2, <1>3, <1>9
<1> QED BY <1>4, <1>5, <1>6, <1>7, <1>8, <1>9

\* A domain is left only for a graver one, or, unknown, for any.
DomainMoves(c, d) ==
  /\ c = "payments" => d = "payments"
  /\ c = "infra" => d \in {"payments", "infra"}
  /\ c = "comms" => d \in {"payments", "infra", "comms"}
  /\ c = "data" => d # "unknown"

LEMMA MoreDomains ==
  ASSUME NEW s \in ToolRecord, NEW t \in ToolRecord, SaysMore(s, t)
  PROVE  DomainMoves(domainClass(s), domainClass(t))
<1>1. Mentioned(s) \subseteq Mentioned(t) BY DEF SaysMore, Mentioned, nameTokens
<1>2. \A d : Met(s, d) => Met(t, d) BY <1>1 DEF Met
<1> QED BY <1>2, DomainIs DEF DomainMoves

LEMMA MoreWords ==
  ASSUME NEW s \in ToolRecord, NEW t \in ToolRecord, SaysMore(s, t)
  PROVE  /\ nameWriteish(s) => nameWriteish(t)
         /\ requiresCredential(s) => requiresCredential(t)
         /\ hasWritePayloadParam(s) => hasWritePayloadParam(t)
         /\ sideEffectIntent(s) => sideEffectIntent(t)
<1>1. s.name \subseteq t.name /\ s.described \subseteq t.described /\ s.params \subseteq t.params
  BY DEF SaysMore
<1>2. nameTokens(s.name) \subseteq nameTokens(t.name) /\ Mentioned(s) \subseteq Mentioned(t)
  BY <1>1 DEF nameTokens, Mentioned
<1>3. /\ hasSideEffectIntent(s.name) => hasSideEffectIntent(t.name)
      /\ sideEffectIntent(s) => sideEffectIntent(t)
  BY <1>1 DEF hasSideEffectIntent, sideEffectIntent
<1>4. nameWriteish(s) => nameWriteish(t) BY <1>2, <1>3 DEF nameWriteish
<1>5. /\ requiresCredential(s) => requiresCredential(t)
      /\ hasWritePayloadParam(s) => hasWritePayloadParam(t)
  BY <1>1, <1>2 DEF requiresCredential, hasWritePayloadParam
<1> QED BY <1>3, <1>4, <1>5

\* The class as a function of what decides it: the effective type, the domain, whether
\* the tool looks read-only, and its blast radius.
SideEffects(e, d, readOnly) ==
  IF e \in ReadTypes /\ readOnly THEN "none"
  ELSE IF e \in {"delete", "execute", "admin"} \/ d = "payments" THEN "destructive"
  ELSE IF e = "send" \/ d = "comms" THEN "outbound" ELSE "local-write"

CeilingOf(e, d, readOnly, blast) ==
  LET sec == SideEffects(e, d, readOnly) IN staticCeiling(e, sec, reversibility(e, sec), blast)

LEMMA ClassIs ==
  ASSUME NEW t \in ToolRecord
  PROVE  LET e == effectiveType(t)
             d == domainClass(t)
             r == looksReadOnly(t)
         IN  /\ classify(t).effective = e /\ classify(t).domain = d
             /\ classify(t).egress = egressOf(SideEffects(e, d, r))
             /\ classify(t).ceiling = CeilingOf(e, d, r, blastRadius(t))
BY DEF classify, sideEffectClass, SideEffects, CeilingOf

\* From a tool of type e, domain c, read-only or not (r), blast radius b, to one that says
\* more: f, d, q, a; none of the four ways down.
SaidMore(e, f, c, d, r, q, b, a) ==
  /\ e \in Ordered \cup {"unknown"} /\ Upward(e, f)
  /\ c \in {"payments", "infra", "comms", "data", "unknown"} /\ DomainMoves(c, d)
  /\ r => c = "data"
  /\ q => d = "data"
  /\ (q /\ c = "data") => r
  /\ b = 2 => a = 2
  /\ ~(e = "unknown" /\ f # "unknown") /\ ~(e = "execute" /\ f = "delete")
  /\ ~(c = "unknown" /\ d = "data") /\ ~(c = "comms" /\ d = "infra")

LEMMA CeilingRises ==
  ASSUME NEW e, NEW f, NEW c, NEW d, NEW r \in BOOLEAN, NEW q \in BOOLEAN,
         NEW b \in 0..2, NEW a \in 0..2, SaidMore(e, f, c, d, r, q, b, a)
  PROVE  CeilingOf(f, d, q, a) >= CeilingOf(e, c, r, b)
<1>0. /\ e \in Ordered \cup {"unknown"} /\ Upward(e, f)
      /\ c \in {"payments", "infra", "comms", "data", "unknown"} /\ DomainMoves(c, d)
      /\ r => c = "data"
      /\ q => d = "data"
      /\ (q /\ c = "data") => r
      /\ b = 2 => a = 2
      /\ ~(e = "unknown" /\ f # "unknown") /\ ~(e = "execute" /\ f = "delete")
      /\ ~(c = "unknown" /\ d = "data") /\ ~(c = "comms" /\ d = "infra")
  BY DEF SaidMore
<1> USE <1>0
<1> DEFINE low == SideEffects(e, c, r)
           high == SideEffects(f, d, q)
<1>1. /\ CeilingOf(e, c, r, b) = staticCeiling(e, low, reversibility(e, low), b)
      /\ CeilingOf(f, d, q, a) = staticCeiling(f, high, reversibility(f, high), a)
  BY DEF CeilingOf
<1>2. reversibility(e, low) = "irreversible" => reversibility(f, high) = "irreversible"
  <2>1. CASE e \in {"delete", "execute", "admin", "auth"}
    BY <2>1 DEF Upward, reversibility
  <2>2. CASE e \notin {"delete", "execute", "admin", "auth"} /\ c = "payments"
    <3>1. d = "payments" /\ q = FALSE BY <2>2 DEF DomainMoves
    <3> QED BY <3>1 DEF SideEffects, reversibility
  <2>3. CASE e \notin {"delete", "execute", "admin", "auth"} /\ c # "payments"
    BY <2>3 DEF SideEffects, reversibility
  <2> QED BY <2>1, <2>2, <2>3
<1>3. low = "outbound" => high = "outbound" \/ reversibility(f, high) = "irreversible"
  <2>1. CASE e = "send"
    <3>1. f \in {"delete", "execute", "admin", "auth", "send"} BY <2>1 DEF Upward
    <3> QED BY <3>1 DEF SideEffects, reversibility, ReadTypes
  <2>2. CASE e # "send" /\ c = "comms"
    <3>1. d \in {"payments", "comms"} /\ q = FALSE BY <2>2 DEF DomainMoves
    <3> QED BY <3>1 DEF SideEffects, reversibility
  <2>3. CASE e # "send" /\ c # "comms" BY <2>3 DEF SideEffects
  <2> QED BY <2>1, <2>2, <2>3
<1>4. high = "none" => low = "none"
  <2> SUFFICES ASSUME f \in ReadTypes, q PROVE low = "none" BY DEF SideEffects
  <2>1. c = "data" BY DEF DomainMoves
  <2>2. e \in ReadTypes
    BY DEF Upward, Ordered, ReadTypes
  <2> QED BY <2>1, <2>2 DEF SideEffects
<1>5. low = "none" => e \in ReadTypes BY DEF SideEffects
<1>6. low \in {"none", "destructive", "outbound", "local-write"}
      /\ high \in {"none", "destructive", "outbound", "local-write"}
  BY DEF SideEffects
<1>7. /\ high = "destructive" => reversibility(f, high) = "irreversible"
      /\ e \in ReadTypes /\ low = "none" => reversibility(e, low) = "reversible"
  BY DEF reversibility, ReadTypes
<1>8. PICK u, v : u = reversibility(e, low) /\ v = reversibility(f, high) OBVIOUS
<1>9. e \in {"unknown", "execute"} => f \in {"unknown", "execute"}
  BY DEF Upward
<1> HIDE DEF low, high
<1>10. staticCeiling(f, high, v, a) >= staticCeiling(e, low, u, b)
  BY <1>2, <1>3, <1>4, <1>5, <1>6, <1>7, <1>8, <1>9 DEF staticCeiling, ReadTypes
<1> QED BY <1>1, <1>8, <1>10

LEMMA GradeFacts ==
  ASSUME NEW t \in ToolRecord
  PROVE  /\ effectiveType(t) \in Ordered \cup {"unknown"}
         /\ domainClass(t) \in {"payments", "infra", "comms", "data", "unknown"}
         /\ looksReadOnly(t) \in BOOLEAN /\ (looksReadOnly(t) => domainClass(t) = "data")
         /\ blastRadius(t) \in 0..2
         /\ blastRadius(t) = 2
              <=> (domainClass(t) = "payments" \/ (nameWriteish(t) /\ requiresCredential(t)))
<1>1. effectiveType(t) \in Ordered \cup {"unknown"} BY EffectiveIsFirst DEF FirstOf
<1>2. domainClass(t) \in {"payments", "infra", "comms", "data", "unknown"} BY DomainIs
<1> QED BY <1>1, <1>2 DEF looksReadOnly, blastRadius

\* What a tool says more of itself lowers its ceiling in one of the four ways only.
LEMMA MoreIsGraver ==
  ASSUME NEW s \in ToolRecord, NEW t \in ToolRecord, SaysMore(s, t)
  PROVE  classify(t).ceiling >= classify(s).ceiling \/ Lowers(classify(s), classify(t))
<1>1. PICK e, f : e = effectiveType(s) /\ f = effectiveType(t) OBVIOUS
<1>2. PICK c, d : c = domainClass(s) /\ d = domainClass(t) OBVIOUS
<1>3. PICK r \in BOOLEAN, q \in BOOLEAN : r = looksReadOnly(s) /\ q = looksReadOnly(t)
  BY GradeFacts
<1>4. PICK b \in 0..2, a \in 0..2 : b = blastRadius(s) /\ a = blastRadius(t) BY GradeFacts
<1>5. /\ Upward(e, f) /\ e \in Ordered \cup {"unknown"}
      /\ DomainMoves(c, d) /\ c \in {"payments", "infra", "comms", "data", "unknown"}
  BY <1>1, <1>2, GradeFacts, MoreTypes, MoreDomains
<1>6. (r => c = "data") /\ (q => d = "data") BY <1>2, <1>3, GradeFacts
<1>7. q /\ c = "data" => r BY <1>2, <1>3, MoreWords DEF looksReadOnly
<1>8. b = 2 => a = 2
  <2>1. c = "payments" => d = "payments" BY <1>5 DEF DomainMoves
  <2> QED BY <1>2, <1>4, <2>1, GradeFacts, MoreWords
<1>9. /\ classify(s).effective = e /\ classify(s).domain = c
      /\ classify(t).effective = f /\ classify(t).domain = d
      /\ classify(s).ceiling = CeilingOf(e, c, r, b) /\ classify(t).ceiling = CeilingOf(f, d, q, a)
  BY <1>1, <1>2, <1>3, <1>4, ClassIs
<1>10. CASE \/ e = "unknown" /\ f # "unknown"
            \/ e = "execute" /\ f = "delete"
            \/ c = "unknown" /\ d = "data"
            \/ c = "comms" /\ d = "infra"
  BY <1>9, <1>10 DEF Lowers
<1>11. CASE /\ ~(e = "unknown" /\ f # "unknown") /\ ~(e = "execute" /\ f = "delete")
            /\ ~(c = "unknown" /\ d = "data") /\ ~(c = "comms" /\ d = "infra")
  <2>1. SaidMore(e, f, c, d, r, q, b, a) BY <1>5, <1>6, <1>7, <1>8, <1>11 DEF SaidMore
  <2>2. CeilingOf(f, d, q, a) >= CeilingOf(e, c, r, b) BY <2>1, CeilingRises
  <2> QED BY <1>9, <2>2
<1> QED BY <1>10, <1>11

\* A tool's own word that it only reads is not asked for.
LEMMA ReadOnlyIsNotAsked ==
  ASSUME NEW t \in ToolRecord
  PROVE  classify([t EXCEPT !.hints = @ \ {"readOnly"}]) = classify(t)
<1>1. PICK u : u = [t EXCEPT !.hints = @ \ {"readOnly"}] OBVIOUS
<1>2. /\ u.name = t.name /\ u.described = t.described /\ u.params = t.params
      /\ u.hints = t.hints \ {"readOnly"}
  BY <1>1 DEF ToolRecord
<1>3. "destructive" \in u.hints <=> "destructive" \in t.hints BY <1>2
<1>4. Mentioned(u) = Mentioned(t) BY <1>2 DEF Mentioned
<1>5. actionTypes(u) = actionTypes(t) BY <1>2, <1>3 DEF actionTypes
<1>6. effectiveType(u) = effectiveType(t) BY <1>5 DEF effectiveType
<1>7. domainClass(u) = domainClass(t) BY <1>4 DEF domainClass
<1>8. /\ nameWriteish(u) = nameWriteish(t) /\ sideEffectIntent(u) = sideEffectIntent(t)
      /\ requiresCredential(u) = requiresCredential(t)
      /\ hasWritePayloadParam(u) = hasWritePayloadParam(t)
  BY <1>2, <1>4 DEF nameWriteish, sideEffectIntent, requiresCredential, hasWritePayloadParam
<1>9. /\ looksReadOnly(u) = looksReadOnly(t)
      /\ blastRadius(u) = blastRadius(t)
  BY <1>7, <1>8 DEF looksReadOnly, blastRadius
<1>10. sideEffectClass(effectiveType(u), u) = sideEffectClass(effectiveType(t), t)
  <2>1. PICK e, d, r : e = effectiveType(t) /\ d = domainClass(t) /\ r = looksReadOnly(t) OBVIOUS
  <2>2. effectiveType(u) = e /\ domainClass(u) = d /\ looksReadOnly(u) = r
    BY <1>6, <1>7, <1>9, <2>1
  <2> QED BY <2>1, <2>2 DEF sideEffectClass
<1>11. classify(u) = classify(t) BY <1>6, <1>7, <1>9, <1>10 DEF classify
<1> QED BY <1>1, <1>11

\* An agent is let loose only on what has nothing to write with.
LEMMA LooseIsReadOnly ==
  ASSUME NEW t \in ToolRecord, classify(t).ceiling = 0 \/ classify(t).egress = "none"
  PROVE  WritesNothing(t)
<1>1. PICK e : e = effectiveType(t) OBVIOUS
<1>2. PICK d : d = domainClass(t) OBVIOUS
<1>3. PICK r \in BOOLEAN : r = looksReadOnly(t) BY GradeFacts
<1>4. PICK b : b = blastRadius(t) OBVIOUS
<1>5. \/ CeilingOf(e, d, r, b) = 0 \/ egressOf(SideEffects(e, d, r)) = "none"
  BY <1>1, <1>2, <1>3, <1>4, ClassIs
<1>6. SideEffects(e, d, r) = "none"
  <2> DEFINE sec == SideEffects(e, d, r)
  <2>1. sec \in {"none", "destructive", "outbound", "local-write"} BY DEF SideEffects
  <2>2. egressOf(sec) = "none" => sec = "none" BY <2>1 DEF egressOf
  <2>3. sec = "destructive" => reversibility(e, sec) = "irreversible" BY DEF reversibility
  <2>4. CeilingOf(e, d, r, b) = staticCeiling(e, sec, reversibility(e, sec), b) BY DEF CeilingOf
  <2> HIDE DEF sec
  <2>5. CeilingOf(e, d, r, b) = 0 => sec = "none" BY <2>1, <2>3, <2>4 DEF staticCeiling
  <2> QED BY <1>5, <2>2, <2>5 DEF sec
<1>7. e \in ReadTypes /\ r BY <1>6 DEF SideEffects
<1>8. ~nameWriteish(t) /\ ~hasWritePayloadParam(t) /\ ~sideEffectIntent(t)
  BY <1>3, <1>7 DEF looksReadOnly
<1>9. actionTypes(t) \subseteq ReadTypes
  <2>1. FirstOf(e, actionTypes(t)) BY <1>1, EffectiveIsFirst
  <2> QED BY <1>7, <2>1, TypesAreOrdered DEF FirstOf, ReadTypes, Ordered
<1>11. "destructive" \notin t.hints
  <2>1. "delete" \notin actionTypes(t) BY <1>9 DEF ReadTypes
  <2> QED BY <2>1 DEF actionTypes
<1>12. \A w \in nameTokens(t.name) : VerbType(w) \subseteq ReadTypes
  BY <1>9 DEF actionTypes
<1>13. /\ \A w \in nameTokens(t.name) : w \notin MutatingVerbs
       /\ \A w \in SideEffectIntent : {w} \notin t.name \cup t.described
  BY <1>8 DEF nameWriteish, sideEffectIntent, hasSideEffectIntent
<1>10. t.params \subseteq {"credential"}
  <2>1. t.params \subseteq {"payload", "credential", "huge"} BY DEF ToolRecord
  <2> QED BY <1>8, <2>1 DEF hasWritePayloadParam
<1> QED BY <1>10, <1>11, <1>12, <1>13 DEF WritesNothing

LEMMA MoreIs ==
  ASSUME NEW s \in ToolRecord, NEW t \in More(s)
  PROVE  t \in ToolRecord /\ SaysMore(s, t)
<1>1. CASE \E w \in Words \ s.name : t = [s EXCEPT !.name = @ \cup {w}]
  BY <1>1 DEF ToolRecord, SaysMore
<1>2. CASE \E w \in Words \ s.described : t = [s EXCEPT !.described = @ \cup {w}]
  BY <1>2 DEF ToolRecord, SaysMore
<1>3. CASE \E p \in {"payload", "credential", "huge"} \ s.params :
             t = [s EXCEPT !.params = @ \cup {p}]
  BY <1>3 DEF ToolRecord, SaysMore
<1>4. CASE \E h \in {"readOnly", "destructive"} \ s.hints : t = [s EXCEPT !.hints = @ \cup {h}]
  BY <1>4 DEF ToolRecord, SaysMore
<1> QED BY <1>1, <1>2, <1>3, <1>4 DEF More

\* Whatever words a tool is named and described with, and however many: what it says more of
\* itself never lets an agent do more with it unattended but in the four ways, its word that
\* it only reads changes nothing, and what is let loose has no verb in its name, camelCase
\* taken apart, that does more than read, no word of intent that stands alone, no parameter to
\* write with (actionClass.ts, risk.ts, lexicon.ts).
THEOREM GradesAlwaysRise == ToolSpec => GradesOnlyRise
<1>1. ToolInit => tool \in ToolRecord BY DEF ToolInit, ToolRecord
<1>2. tool \in ToolRecord /\ [ToolNext]_gradeVars => (tool \in ToolRecord)'
  BY MoreIs DEF ToolNext, gradeVars
<1> DEFINE Graver ==
      tool' # tool =>
        LET graded == classify(tool')
        IN  /\ graded.ceiling >= classify(tool).ceiling \/ Lowers(classify(tool), graded)
            /\ classify([tool' EXCEPT !.hints = @ \ {"readOnly"}]) = graded
            /\ graded.ceiling = 0 \/ graded.egress = "none" => WritesNothing(tool')
<1>3. tool \in ToolRecord /\ [ToolNext]_gradeVars => [Graver]_gradeVars
  <2> SUFFICES ASSUME tool \in ToolRecord, ToolNext PROVE Graver BY DEF gradeVars
  <2>1. PICK s : s = tool OBVIOUS
  <2>2. PICK t : t = tool' OBVIOUS
  <2>3. s \in ToolRecord /\ t \in ToolRecord /\ SaysMore(s, t)
    BY <2>1, <2>2, MoreIs DEF ToolNext
  <2>4. /\ classify(t).ceiling >= classify(s).ceiling \/ Lowers(classify(s), classify(t))
        /\ classify([t EXCEPT !.hints = @ \ {"readOnly"}]) = classify(t)
    BY <2>3, MoreIsGraver, ReadOnlyIsNotAsked
  <2>5. classify(t).ceiling = 0 \/ classify(t).egress = "none" => WritesNothing(t)
    BY <2>3, LooseIsReadOnly
  <2> QED BY <2>1, <2>2, <2>4, <2>5
<1> QED BY <1>1, <1>2, <1>3, PTL DEF ToolSpec, GradesOnlyRise

(***************************************************************************)
(* The timers of a request.  Until a phase has left a line in the log its  *)
(* 10 s timer is armed, and a timer that is armed is not overdue.          *)
(***************************************************************************)
Phases == {"body-read", "dispatch"}
LogLine == [phase : Phases, line : {"10s", "50s", "completed", "timeout"}]
IsWarning(x) == x.line \in {"10s", "50s"}

\* The warning s[i] has its completion.
Closed(s, i) == \E j \in (i + 1)..Len(s) : s[j] = Completed(s[i].phase)

LogInv ==
  /\ log \in Seq(LogLine)
  /\ \A i \in 1..Len(log) :
       IsWarning(log[i]) => at = "killed" \/ (log[i].phase = at /\ tripped) \/ Closed(log, i)
  /\ sentBy = "forced" <=> \E i \in 1..Len(log) : log[i].line = "timeout"
  /\ at \in {"new", "body-read", "dispatch"} => sentBy = "none"
  /\ at \in {"streaming", "answered"} => sentBy # "none"
  /\ at = "new" => log = <<>> /\ ~tripped

Armed10s(since) == \E t \in timers : t.kind = "slow" /\ t.due = since + SlowMs

TimerInv ==
  /\ timers \subseteq [kind : Watch \cup {"handler", "call"}, of : Nat, due : Nat]
  /\ \A t \in timers : (t.kind = "call" <=> t.of # 0) /\ t.due >= age
                       /\ (t.kind = "call" => t.due <= age + DispatchTimeout)
  /\ at \in {"new", "streaming", "answered", "killed"} => \A t \in timers : t.kind = "call"
  /\ at = "new" => timers = {} /\ age = 0
  /\ at \in {"new", "body-read"} => dispatched = 0
  /\ at = "body-read" => \A t \in timers : t.kind \in Watch
  /\ at = "body-read" => log # <<>> \/ Armed10s(0)
  /\ at = "dispatch" => log # <<>> \/ (dispatched <= SlowMs /\ Armed10s(dispatched))
  /\ at = "dispatch" => \E t \in timers : t.kind = "handler" /\ t.due = dispatched + HandlerTimeout

ToolInv ==
  /\ badSlug => settled = "error"
  /\ orphan => badSlug

KillInv ==
  at = "killed" /\ sentBy = "none" =>
    log # <<>> /\ (dispatched = 0 \/ dispatched + HandlerTimeout >= MaxDuration)

McpInv == McpTypeOK /\ LogInv /\ TimerInv /\ ToolInv /\ KillInv

\* The types that a step leaves.
LEMMA McpTypes ==
  ASSUME McpTypeOK, UNCHANGED <<body, age, dispatched, settled, badSlug, orphan>>,
         at' \in {"body-read", "dispatch", "streaming", "answered", "killed"},
         tripped' \in BOOLEAN, sentBy' \in {"none", "rejected", "broken", "handled", "forced"}
  PROVE  McpTypeOK'
BY DEF McpTypeOK

LEMMA ClosedStays ==
  ASSUME NEW s \in Seq(LogLine), NEW x \in LogLine, NEW i \in 1..Len(s), Closed(s, i)
  PROVE  Closed(Append(s, x), i)
BY DEF Closed

LEMMA CompletedCloses ==
  ASSUME NEW s \in Seq(LogLine), NEW i \in 1..Len(s), NEW x \in LogLine, x = Completed(s[i].phase)
  PROVE  Closed(Append(s, x), i)
<1>1. Len(s) + 1 \in (i + 1)..Len(Append(s, x)) /\ Append(s, x)[Len(s) + 1] = x
      /\ Append(s, x)[i] = s[i]
  OBVIOUS
<1> QED BY <1>1 DEF Closed

\* A line more, in a phase that goes on or one that ends.
LEMMA LineAdded ==
  ASSUME LogInv, at \in Phases, NEW x \in LogLine, NEW l, l = Append(log, x),
         IsWarning(x) => x.phase = at
  PROVE  /\ l \in Seq(LogLine) /\ l # <<>> /\ Len(l) = Len(log) + 1
         /\ \A i \in 1..Len(log) : l[i] = log[i]
         /\ l[Len(l)] = x
         /\ \A i \in 1..Len(l) : IsWarning(l[i]) => l[i].phase = at \/ Closed(l, i)
         /\ ~IsWarning(x) => \A i \in 1..Len(l) : IsWarning(l[i]) =>
              (l[i].phase = at /\ tripped) \/ Closed(l, i)
         /\ x = Completed(at) => \A i \in 1..Len(l) : IsWarning(l[i]) => Closed(l, i)
<1>1. log \in Seq(LogLine) BY DEF LogInv
<1>2. /\ l \in Seq(LogLine) /\ l # <<>> /\ Len(l) = Len(log) + 1
      /\ \A i \in 1..Len(log) : l[i] = log[i]
      /\ l[Len(l)] = x
  BY <1>1
<1>3. \A i \in 1..Len(log) : IsWarning(log[i]) => (log[i].phase = at /\ tripped) \/ Closed(log, i)
  BY DEF LogInv, Phases
<1>4. \A i \in 1..Len(log) : Closed(log, i) => Closed(l, i) BY <1>1, ClosedStays
<1>5. \A i \in 1..Len(l) : i \in 1..Len(log) \/ i = Len(l) BY <1>1, <1>2
<1>6. \A i \in 1..Len(l) : IsWarning(l[i]) => l[i].phase = at \/ Closed(l, i)
  BY <1>2, <1>3, <1>4, <1>5
<1>7. ~IsWarning(x) => \A i \in 1..Len(l) : IsWarning(l[i]) =>
              (l[i].phase = at /\ tripped) \/ Closed(l, i)
  BY <1>2, <1>3, <1>4, <1>5
<1>8. ASSUME x = Completed(at) PROVE \A i \in 1..Len(l) : IsWarning(l[i]) => Closed(l, i)
  <2>1. ~IsWarning(x) BY <1>8 DEF IsWarning, Completed
  <2>2. ASSUME NEW i \in 1..Len(log), l[i].phase = at PROVE Closed(l, i)
    <3>1. x = Completed(log[i].phase) BY <1>2, <1>8, <2>2
    <3> QED BY <1>1, <3>1, CompletedCloses
  <2> QED BY <1>2, <1>5, <1>7, <2>1, <2>2
<1> QED BY <1>2, <1>6, <1>7, <1>8

\* A phase ends, told or not.
LEMMA ToldIsClosed ==
  ASSUME LogInv, at \in Phases, NEW l, l = Told(at)
  PROVE  /\ l \in Seq(LogLine) /\ (l = <<>> => l = log /\ ~tripped)
         /\ \A i \in 1..Len(l) : IsWarning(l[i]) => Closed(l, i)
         /\ (\E i \in 1..Len(l) : l[i].line = "timeout")
              <=> (\E i \in 1..Len(log) : log[i].line = "timeout")
<1>1. CASE tripped
  <2>1. PICK x : x = Completed(at) OBVIOUS
  <2>2. x \in LogLine /\ x.line = "completed" BY <2>1 DEF Completed, LogLine, Phases
  <2>3. l = Append(log, x) BY <1>1, <2>1 DEF Told
  <2>4. ~IsWarning(x) BY <2>2 DEF IsWarning
  <2>5. /\ l \in Seq(LogLine) /\ l # <<>> /\ Len(l) = Len(log) + 1
        /\ \A i \in 1..Len(log) : l[i] = log[i]
        /\ l[Len(l)] = x
        /\ \A i \in 1..Len(l) : IsWarning(l[i]) => Closed(l, i)
    <3>1. at \in Phases /\ x.phase = at BY <2>1 DEF Completed
    <3>2. /\ l \in Seq(LogLine) /\ l # <<>> /\ Len(l) = Len(log) + 1
          /\ \A i \in 1..Len(log) : l[i] = log[i]
          /\ l[Len(l)] = x
          /\ \A i \in 1..Len(l) : IsWarning(l[i]) => l[i].phase = at \/ Closed(l, i)
          /\ ~IsWarning(x) => \A i \in 1..Len(l) : IsWarning(l[i]) =>
               (l[i].phase = at /\ tripped) \/ Closed(l, i)
          /\ x = Completed(at) => \A i \in 1..Len(l) : IsWarning(l[i]) => Closed(l, i)
      BY <2>2, <2>3, <2>4, <3>1, LineAdded
    <3> QED BY <2>1, <3>2
  <2>6. log \in Seq(LogLine) BY DEF LogInv
  <2>7. \A i \in 1..Len(l) : i \in 1..Len(log) \/ i = Len(l) BY <2>5, <2>6
  <2>8. 1..Len(log) \subseteq 1..Len(l) BY <2>5, <2>6
  <2> QED BY <2>2, <2>5, <2>7, <2>8
<1>2. CASE ~tripped
  BY <1>2 DEF Told, LogInv, Phases
<1> QED BY <1>1, <1>2

LEMMA AcceptKeeps ==
  ASSUME McpInv, NEW m \in {"POST", "GET"}, NEW c \in BOOLEAN, NEW b \in Bodies, Accept(m, c, b)
  PROVE  McpInv'
<1>1. /\ at = "new" /\ timers = {} /\ age = 0 /\ log = <<>> /\ tripped = FALSE
      /\ dispatched = 0 /\ sentBy = "none"
  BY DEF McpInv, LogInv, TimerInv, Accept, McpTypeOK
<1>2. UNCHANGED <<age, tripped, log, calls, settled, badSlug, orphan>> /\ body' = b
  BY DEF Accept, toolVars
<1>3. DispatchTimeout \in Nat /\ SlowMs \in Nat /\ NearKillMs \in Nat /\ HandlerTimeout \in Nat
  BY McpConstants
<1>4. CASE at' = "answered" /\ sentBy' = "wrong transport" /\ timers' = timers /\ dispatched' = dispatched
  BY <1>1, <1>2, <1>4 DEF McpInv, McpTypeOK, LogInv, TimerInv, ToolInv, KillInv
<1>5. CASE at' = "body-read" /\ timers' = Armed("body-read", timers) /\ UNCHANGED <<sentBy, dispatched>>
  <2>1. timers' = {[kind |-> "slow", of |-> 0, due |-> SlowMs], [kind |-> "near", of |-> 0, due |-> NearKillMs]}
    BY <1>1, <1>3, <1>5 DEF Armed, Timer
  <2>2. PICK slow, near : /\ slow = [kind |-> "slow", of |-> 0, due |-> SlowMs]
                          /\ near = [kind |-> "near", of |-> 0, due |-> NearKillMs]
    OBVIOUS
  <2>3. /\ timers' = {slow, near} /\ slow.kind = "slow" /\ near.kind = "near"
        /\ slow.of = 0 /\ near.of = 0 /\ slow.due = SlowMs /\ near.due = NearKillMs
        /\ {slow, near} \subseteq [kind : Watch \cup {"handler", "call"}, of : Nat, due : Nat]
    BY <1>3, <2>1, <2>2 DEF Watch
  <2>4. TimerInv' BY <1>1, <1>2, <1>3, <1>5, <2>3 DEF TimerInv, Watch, Armed10s
  <2> QED BY <1>1, <1>2, <1>5, <2>4 DEF McpInv, McpTypeOK, LogInv, ToolInv, KillInv
<1>6. CASE Dispatch(timers) /\ UNCHANGED sentBy
  <2>1. timers' = {[kind |-> "slow", of |-> 0, due |-> SlowMs], [kind |-> "near", of |-> 0, due |-> NearKillMs],
                   [kind |-> "handler", of |-> 0, due |-> HandlerTimeout]}
    BY <1>1, <1>3, <1>6 DEF Dispatch, Armed, Timer
  <2>2. at' = "dispatch" /\ dispatched' = 0 BY <1>1, <1>6 DEF Dispatch
  <2>3. TimerInv' BY <1>1, <1>2, <1>3, <2>1, <2>2 DEF TimerInv, Watch, Armed10s
  <2> QED BY <1>1, <1>2, <1>6, <2>2, <2>3 DEF McpInv, McpTypeOK, LogInv, ToolInv, KillInv
<1> QED BY <1>4, <1>5, <1>6 DEF Accept

\* How a body read ends, whatever comes next.
LEMMA BodyOver ==
  ASSUME McpInv, at = "body-read", log' = Told("body-read"), tripped' = FALSE,
         at' \in {"answered", "dispatch"}, at' = "dispatch" <=> sentBy' = "none",
         sentBy' \in {"none", "rejected", "broken"}
  PROVE  /\ LogInv' /\ (log' # <<>> \/ age <= SlowMs)
<1>1. PICK l : l = log' OBVIOUS
<1>2. /\ l \in Seq(LogLine) /\ (l = <<>> => l = log /\ ~tripped)
      /\ \A i \in 1..Len(l) : IsWarning(l[i]) => Closed(l, i)
      /\ (\E i \in 1..Len(l) : l[i].line = "timeout")
              <=> (\E i \in 1..Len(log) : log[i].line = "timeout")
  BY <1>1, ToldIsClosed DEF McpInv, Phases
<1>3. sentBy = "none" /\ ~\E i \in 1..Len(log) : log[i].line = "timeout"
  BY DEF McpInv, LogInv
<1>4. LogInv' BY <1>1, <1>2, <1>3 DEF LogInv
<1>5. l = <<>> => age <= SlowMs
  <2> SUFFICES ASSUME l = <<>> PROVE age <= SlowMs OBVIOUS
  <2>1. PICK t \in timers : t.kind = "slow" /\ t.due = 0 + SlowMs
    BY <1>2 DEF McpInv, TimerInv, Armed10s
  <2> QED BY <2>1, McpConstants DEF McpInv, TimerInv
<1> QED BY <1>1, <1>4, <1>5

\* Once a phase is over, with an answer or with its stream, only calls have timers.
LEMMA EndedKeeps ==
  ASSUME McpInv, at \in Phases, at' \in {"answered", "streaming"},
         \A t \in timers' : t \in timers /\ t.kind = "call",
         UNCHANGED <<age, dispatched>>
  PROVE  TimerInv'
BY DEF McpInv, TimerInv

LEMMA BodyReadKeeps == McpInv /\ BodyRead => McpInv'
<1> SUFFICES ASSUME McpInv, BodyRead PROVE McpInv' OBVIOUS
<1>1. /\ at = "body-read" /\ sentBy = "none" /\ age \in Nat /\ dispatched = 0
      /\ log' = Told("body-read") /\ tripped' = FALSE
      /\ UNCHANGED <<body, age, calls, settled, badSlug, orphan>>
  BY DEF BodyRead, McpInv, LogInv, TimerInv, McpTypeOK, toolVars
<1>2. DispatchTimeout \in Nat /\ SlowMs \in Nat /\ NearKillMs \in Nat /\ HandlerTimeout \in Nat
  BY McpConstants
<1>3. \A t \in Disarmed : t \in timers /\ t.kind = "call"
  BY <1>1 DEF Disarmed, McpInv, TimerInv
<1>4. CASE /\ at' = "answered" /\ sentBy' = "rejected" /\ timers' = Disarmed
           /\ dispatched' = dispatched
  <2>1. LogInv' BY <1>1, <1>4, BodyOver
  <2>2. TimerInv' BY <1>1, <1>3, <1>4, EndedKeeps DEF Phases
  <2>3. McpTypeOK' BY <1>1, <1>4, McpTypes DEF McpInv
  <2> QED BY <1>1, <1>4, <2>1, <2>2, <2>3 DEF McpInv, ToolInv, KillInv
<1>5. CASE Dispatch(Disarmed) /\ sentBy' = sentBy
  <2>1. at' = "dispatch" /\ dispatched' = age BY <1>5 DEF Dispatch
  <2>2. LogInv' /\ (log' # <<>> \/ age <= SlowMs) BY <1>1, <1>5, <2>1, BodyOver
  <2>3. PICK slow, near, handler :
          /\ slow = [kind |-> "slow", of |-> 0, due |-> age + SlowMs]
          /\ near = [kind |-> "near", of |-> 0, due |-> age + NearKillMs]
          /\ handler = [kind |-> "handler", of |-> 0, due |-> age + HandlerTimeout]
    OBVIOUS
  <2>4. timers' = Disarmed \cup {slow, near, handler}
    BY <1>5, <2>3 DEF Dispatch, Armed, Timer
  <2>5. TimerInv'
    <3>1. \A t \in timers' : t \in timers \/ t \in {slow, near, handler} BY <1>3, <2>4
    <3>2. \A t \in timers : /\ t \in [kind : Watch \cup {"handler", "call"}, of : Nat, due : Nat]
                            /\ (t.kind = "call" <=> t.of # 0) /\ t.due >= age
                            /\ (t.kind = "call" => t.due <= age + DispatchTimeout)
      BY DEF McpInv, TimerInv
    <3>3. \A t \in {slow, near, handler} :
                            /\ t \in [kind : Watch \cup {"handler", "call"}, of : Nat, due : Nat]
                            /\ t.kind # "call" /\ t.of = 0 /\ t.due >= age
      BY <1>1, <1>2, <2>3 DEF Watch
    <3>4. slow \in timers' /\ handler \in timers' BY <2>4
    <3> QED BY <1>1, <2>1, <2>2, <2>3, <3>1, <3>2, <3>3, <3>4 DEF TimerInv, Armed10s
  <2> QED BY <1>1, <1>5, <2>1, <2>2, <2>5 DEF McpInv, McpTypeOK, ToolInv, KillInv
<1> QED BY <1>1, <1>4, <1>5 DEF BodyRead

LEMMA BodyBreaksKeeps == McpInv /\ BodyBreaks => McpInv'
<1> SUFFICES ASSUME McpInv, BodyBreaks PROVE McpInv' OBVIOUS
<1>1. /\ at = "body-read" /\ at' = "answered" /\ sentBy' = "broken" /\ timers' = Disarmed
      /\ log' = Told("body-read") /\ tripped' = FALSE
      /\ UNCHANGED <<body, age, calls, settled, badSlug, orphan, dispatched>>
  BY DEF BodyBreaks, toolVars
<1>2. \A t \in Disarmed : t \in timers /\ t.kind = "call"
  BY <1>1 DEF Disarmed, McpInv, TimerInv
<1>3. LogInv' BY <1>1, BodyOver
<1>4. TimerInv' BY <1>1, <1>2, EndedKeeps DEF Phases
<1>5. McpTypeOK' BY <1>1, McpTypes DEF McpInv
<1> QED BY <1>1, <1>3, <1>4, <1>5 DEF McpInv, ToolInv, KillInv

LEMMA CallToolKeeps ==
  ASSUME McpInv, NEW n \in 1..Fanout, NEW refused \in BOOLEAN, CallTool(n, refused)
  PROVE  McpInv'
<1>1. /\ at \in {"dispatch", "streaming"} /\ settled = "no"
      /\ badSlug' = refused /\ settled' = (IF refused THEN "error" ELSE "no")
      /\ calls' = [i \in 1..(IF refused THEN n - 1 ELSE n) |-> "pending"]
      /\ timers' = timers \cup {Waited(i) : i \in DOMAIN calls'}
      /\ UNCHANGED <<at, body, age, tripped, log, sentBy, orphan, dispatched>>
  BY DEF CallTool
<1>2. ~badSlug /\ ~orphan BY <1>1 DEF McpInv, ToolInv
<1>3. DispatchTimeout \in Nat /\ age \in Nat /\ n \in Nat /\ n # 0
  <2>1. Fanout \in Nat /\ DispatchTimeout \in Nat BY McpConstants
  <2>2. n \in Nat /\ n # 0 BY <2>1
  <2>3. age \in Nat BY DEF McpInv, McpTypeOK
  <2> QED BY <2>1, <2>2, <2>3
<1>4. DOMAIN calls' \subseteq Nat \ {0} BY <1>1, <1>3
<1>5. PICK new : new = {Waited(i) : i \in DOMAIN calls'} OBVIOUS
<1>6. \A t \in new : /\ t \in [kind : Watch \cup {"handler", "call"}, of : Nat, due : Nat]
                     /\ t.kind = "call" /\ t.of # 0 /\ t.due >= age
                     /\ t.due <= age + DispatchTimeout
  <2> SUFFICES ASSUME NEW i \in Nat \ {0}, NEW t, t = Waited(i)
               PROVE  /\ t \in [kind : Watch \cup {"handler", "call"}, of : Nat, due : Nat]
                      /\ t.kind = "call" /\ t.of # 0 /\ t.due >= age
                      /\ t.due <= age + DispatchTimeout
    BY <1>4, <1>5
  <2> QED BY <1>3 DEF Waited
<1>7. TimerInv'
  <2>1. timers' = timers \cup new BY <1>1, <1>5
  <2> QED BY <1>1, <1>6, <2>1 DEF McpInv, TimerInv, Armed10s
<1> QED BY <1>1, <1>2, <1>7 DEF McpInv, McpTypeOK, LogInv, ToolInv, KillInv

LEMMA CallEndsKeeps ==
  ASSUME McpInv, NEW i \in 1..Fanout, NEW how \in {"ok", "refused", "timeout"}, CallEnds(i, how)
  PROVE  McpInv'
<1>1. /\ at \in {"dispatch", "streaming", "answered"}
      /\ settled' = After(i, how) /\ timers' = {t \in timers : t.of # i}
      /\ orphan' = (orphan \/ (badSlug /\ how # "ok"))
      /\ UNCHANGED <<at, body, age, tripped, log, sentBy, badSlug, dispatched>>
  BY DEF CallEnds
<1>2. settled' \in {"no", "ok", "error"} /\ (settled = "error" => settled' = "error")
  BY <1>1 DEF After, McpInv, McpTypeOK
<1>3. TimerInv'
  <2>1. \A t \in timers : t.kind # "call" => t \in timers'
    BY <1>1, McpConstants DEF McpInv, TimerInv
  <2>2. timers' \subseteq timers BY <1>1
  <2> QED BY <1>1, <2>1, <2>2 DEF McpInv, TimerInv, Armed10s
<1>4. orphan' \in BOOLEAN BY <1>1 DEF McpInv, McpTypeOK
<1>5. ToolInv' BY <1>1, <1>2 DEF McpInv, ToolInv
<1> QED BY <1>1, <1>2, <1>3, <1>4, <1>5 DEF McpInv, McpTypeOK, LogInv, KillInv

LEMMA HandledKeeps == McpInv /\ Handled => McpInv'
<1> SUFFICES ASSUME McpInv, Handled PROVE McpInv' OBVIOUS
<1>1. /\ at = "dispatch" /\ at' \in {"answered", "streaming"} /\ sentBy' = "handled"
      /\ timers' = {t \in Disarmed : t.kind # "handler"}
      /\ log' = Told("dispatch") /\ tripped' = FALSE
      /\ UNCHANGED <<body, age, calls, settled, badSlug, orphan, dispatched>>
  BY DEF Handled, toolVars
<1>2. \A t \in timers' : t \in timers /\ t.kind = "call"
  BY <1>1 DEF Disarmed, McpInv, TimerInv, Watch
<1>3. PICK l : l = log' OBVIOUS
<1>4. /\ l \in Seq(LogLine)
      /\ \A i \in 1..Len(l) : IsWarning(l[i]) => Closed(l, i)
      /\ (\E i \in 1..Len(l) : l[i].line = "timeout")
              <=> (\E i \in 1..Len(log) : log[i].line = "timeout")
  BY <1>1, <1>3, ToldIsClosed DEF McpInv, Phases
<1>5. ~\E i \in 1..Len(log) : log[i].line = "timeout" BY <1>1 DEF McpInv, LogInv
<1>6. LogInv' BY <1>1, <1>3, <1>4, <1>5 DEF LogInv
<1>7. TimerInv' BY <1>1, <1>2, EndedKeeps DEF Phases
<1>8. McpTypeOK' BY <1>1, McpTypes DEF McpInv
<1> QED BY <1>1, <1>6, <1>7, <1>8 DEF McpInv, ToolInv, KillInv

LEMMA WarnKeeps ==
  ASSUME McpInv, NEW kind \in Watch, Warn(kind)
  PROVE  McpInv'
<1>1. /\ at \in Phases /\ tripped' = TRUE /\ timers' = {t \in timers : t.kind # kind}
      /\ UNCHANGED <<at, body, age, sentBy, calls, settled, badSlug, orphan, dispatched>>
  BY DEF Warn, toolVars, Phases
<1>2. PICK x : x = [phase |-> at, line |-> Warning(kind)] OBVIOUS
<1>3. x \in LogLine /\ x.phase = at /\ x.line # "timeout" BY <1>1, <1>2 DEF LogLine, Warning
<1>4. PICK l : l = log' OBVIOUS
<1>5. l = Append(log, x) BY <1>2, <1>4 DEF Warn
<1>6. /\ l \in Seq(LogLine) /\ l # <<>> /\ Len(l) = Len(log) + 1
      /\ \A i \in 1..Len(log) : l[i] = log[i]
      /\ l[Len(l)] = x
      /\ \A i \in 1..Len(l) : IsWarning(l[i]) => l[i].phase = at \/ Closed(l, i)
  BY <1>1, <1>3, <1>5, LineAdded DEF McpInv
<1>7. log \in Seq(LogLine) BY DEF McpInv, LogInv
<1>8. (\E i \in 1..Len(l) : l[i].line = "timeout") <=> (\E i \in 1..Len(log) : log[i].line = "timeout")
  <2>1. \A i \in 1..Len(l) : i \in 1..Len(log) \/ i = Len(l) BY <1>6, <1>7
  <2>2. 1..Len(log) \subseteq 1..Len(l) BY <1>6, <1>7
  <2> QED BY <1>3, <1>6, <2>1, <2>2
<1>9. LogInv'
  <2>1. sentBy' = "forced" <=> \E i \in 1..Len(l) : l[i].line = "timeout"
    BY <1>1, <1>8 DEF McpInv, LogInv
  <2> QED BY <1>1, <1>4, <1>6, <2>1 DEF McpInv, LogInv, Phases
<1>10. TimerInv'
  <2>1. \A t \in timers : t.kind = "handler" => t \in timers' BY <1>1 DEF Watch
  <2>2. timers' \subseteq timers BY <1>1
  <2> QED BY <1>1, <1>4, <1>6, <2>1, <2>2 DEF McpInv, TimerInv, Phases
<1> QED BY <1>1, <1>9, <1>10 DEF McpInv, McpTypeOK, ToolInv, KillInv, Phases

LEMMA ForcedKeeps == McpInv /\ Forced => McpInv'
<1> SUFFICES ASSUME McpInv, Forced PROVE McpInv' OBVIOUS
<1> DEFINE overrun == [phase |-> "dispatch", line |-> "timeout"]
           done == Completed("dispatch")
           first == Append(log, overrun)
<1>1. /\ at = "dispatch" /\ at' = "answered" /\ sentBy' = "forced" /\ sentBy = "none"
      /\ timers' = {t \in Disarmed : t.kind # "handler"}
      /\ log' = (IF tripped THEN Append(first, done) ELSE first) /\ tripped' = FALSE
      /\ UNCHANGED <<body, age, calls, settled, badSlug, orphan, dispatched>>
  BY DEF Forced, toolVars, McpInv, LogInv
<1>2. \A t \in timers' : t \in timers /\ t.kind = "call"
  BY <1>1 DEF Disarmed, McpInv, TimerInv, Watch
<1>3. overrun \in LogLine /\ done \in LogLine /\ ~IsWarning(overrun) /\ ~IsWarning(done)
  BY DEF LogLine, Phases, IsWarning, Completed
<1>4. PICK f : f = first OBVIOUS
<1>5. PICK x, y : x = overrun /\ y = done OBVIOUS
<1>6. /\ f \in Seq(LogLine) /\ Len(f) = Len(log) + 1 /\ f[Len(f)] = x
      /\ \A i \in 1..Len(f) : IsWarning(f[i]) => (f[i].phase = at /\ tripped) \/ Closed(f, i)
  <2>1. f = Append(log, x) BY <1>4, <1>5
  <2> HIDE DEF overrun, done, first
  <2> QED BY <1>1, <1>3, <1>5, <2>1, LineAdded DEF McpInv, Phases
<1>7. log \in Seq(LogLine) /\ Len(f) \in 1..Len(f) /\ f[Len(f)].line = "timeout"
  BY <1>5, <1>6 DEF McpInv, LogInv
<1>8. PICK l : l = log' OBVIOUS
<1>9. /\ l \in Seq(LogLine) /\ \E i \in 1..Len(l) : l[i].line = "timeout"
      /\ \A i \in 1..Len(l) : IsWarning(l[i]) => Closed(l, i)
  <2>1. CASE ~tripped BY <1>1, <1>4, <1>6, <1>7, <1>8, <2>1
  <2>2. CASE tripped
    <3>1. l = Append(f, y) BY <1>1, <1>4, <1>5, <1>8, <2>2
    <3>2. y = Completed("dispatch") /\ y \in LogLine /\ ~IsWarning(y) BY <1>3, <1>5
    <3> HIDE DEF overrun, done, first
    <3>3. /\ l \in Seq(LogLine) /\ Len(l) = Len(f) + 1 /\ l[Len(l)] = y
          /\ \A i \in 1..Len(f) : l[i] = f[i]
      BY <1>6, <3>1, <3>2
    <3>4. \A i \in 1..Len(f) : Closed(f, i) => Closed(l, i)
      BY <1>6, <3>1, <3>2, ClosedStays
    <3>5. ASSUME NEW i \in 1..Len(f), f[i].phase = "dispatch" PROVE Closed(l, i)
      BY <1>6, <3>1, <3>2, <3>5, CompletedCloses
    <3>6. \A i \in 1..Len(l) : i \in 1..Len(f) \/ i = Len(l) BY <1>6, <3>3
    <3>7. \A i \in 1..Len(l) : IsWarning(l[i]) => Closed(l, i)
      BY <1>1, <1>6, <3>2, <3>3, <3>4, <3>5, <3>6
    <3>8. Len(f) \in 1..Len(l) BY <1>6, <1>7, <3>3
    <3> QED BY <1>7, <3>3, <3>7, <3>8
  <2> QED BY <2>1, <2>2
<1>10. LogInv' BY <1>1, <1>8, <1>9 DEF LogInv
<1>11. TimerInv' BY <1>1, <1>2, EndedKeeps DEF Phases
<1>12. McpTypeOK' BY <1>1, McpTypes DEF McpInv
<1> QED BY <1>1, <1>10, <1>11, <1>12 DEF McpInv, ToolInv, KillInv

LEMMA KilledKeeps == McpInv /\ Killed => McpInv'
<1> SUFFICES ASSUME McpInv, Killed PROVE McpInv' OBVIOUS
<1>1. /\ at \in {"body-read", "dispatch", "streaming"} /\ age >= MaxDuration
      /\ at' = "killed" /\ timers' = {}
      /\ UNCHANGED <<body, age, tripped, log, sentBy, calls, settled, badSlug, orphan, dispatched>>
  BY DEF Killed, toolVars
<1>2. KillInv'
  <2> SUFFICES ASSUME sentBy = "none"
               PROVE  log # <<>> /\ (dispatched = 0 \/ dispatched + HandlerTimeout >= MaxDuration)
    BY <1>1 DEF KillInv
  <2>1. at \in {"body-read", "dispatch"} BY <1>1 DEF McpInv, LogInv
  <2>2. \A t \in timers : t.due >= MaxDuration
    <3> SUFFICES ASSUME NEW t \in timers PROVE t.due >= MaxDuration OBVIOUS
    <3>1. t.due \in Nat /\ t.due >= age /\ age \in Nat BY DEF McpInv, TimerInv, McpTypeOK
    <3> QED BY <1>1, <3>1, McpConstants
  <2>3. /\ SlowMs \in Nat /\ MaxDuration \in Nat /\ HandlerTimeout \in Nat /\ dispatched \in Nat
        /\ 2 * SlowMs < MaxDuration
    BY McpConstants DEF McpInv, McpTypeOK
  <2>4. CASE at = "body-read"
    BY <2>2, <2>3, <2>4 DEF McpInv, TimerInv, Armed10s
  <2>5. CASE at = "dispatch"
    BY <2>2, <2>3, <2>5 DEF McpInv, TimerInv, Armed10s
  <2> QED BY <2>1, <2>4, <2>5
<1>3. TimerInv' BY <1>1 DEF McpInv, TimerInv
<1> QED BY <1>1, <1>2, <1>3 DEF McpInv, McpTypeOK, LogInv, ToolInv

LEMMA PassKeeps == McpInv /\ Pass => McpInv'
<1> SUFFICES ASSUME McpInv, Pass PROVE McpInv' OBVIOUS
<1>1. /\ at \in {"body-read", "dispatch", "streaming", "answered"}
      /\ \A t \in timers : t.due > age
      /\ age \in Nat /\ age' = age + 1
      /\ UNCHANGED <<at, body, timers, tripped, log, sentBy, calls, settled, badSlug, orphan, dispatched>>
  BY DEF Pass, toolVars, McpInv, McpTypeOK
<1>2. DispatchTimeout \in Nat BY McpConstants
<1>3. \A t \in timers : t.due >= age' /\ (t.kind = "call" => t.due <= age' + DispatchTimeout)
  <2> SUFFICES ASSUME NEW t \in timers
               PROVE  t.due >= age' /\ (t.kind = "call" => t.due <= age' + DispatchTimeout)
    OBVIOUS
  <2>1. t.due \in Nat /\ (t.kind = "call" => t.due <= age + DispatchTimeout)
    BY DEF McpInv, TimerInv
  <2> QED BY <1>1, <1>2, <2>1
<1>4. TimerInv' BY <1>1, <1>3 DEF McpInv, TimerInv, Armed10s
<1>5. McpTypeOK'
  <2>1. age' \in Nat BY <1>1
  <2>2. UNCHANGED <<at, body, tripped, sentBy, settled, badSlug, orphan, dispatched>> BY <1>1
  <2> QED BY <2>1, <2>2 DEF McpInv, McpTypeOK
<1>6. LogInv' BY <1>1 DEF McpInv, LogInv
<1> QED BY <1>1, <1>4, <1>5, <1>6 DEF McpInv, ToolInv, KillInv

LEMMA McpStepKeeps == McpInv /\ [McpNext]_mcpVars => McpInv'
<1> SUFFICES ASSUME McpInv, [McpNext]_mcpVars PROVE McpInv' OBVIOUS
<1>1. CASE \E m \in {"POST", "GET"}, c \in BOOLEAN, b \in Bodies : Accept(m, c, b)
  BY <1>1, AcceptKeeps
<1>2. CASE BodyRead BY <1>2, BodyReadKeeps
<1>3. CASE BodyBreaks BY <1>3, BodyBreaksKeeps
<1>4. CASE \E n \in 1..Fanout, refused \in BOOLEAN : CallTool(n, refused) BY <1>4, CallToolKeeps
<1>5. CASE \E i \in 1..Fanout, how \in {"ok", "refused", "timeout"} : CallEnds(i, how)
  BY <1>5, CallEndsKeeps
<1>6. CASE Handled BY <1>6, HandledKeeps
<1>7. CASE StreamEnds
  <2>1. /\ at = "streaming" /\ at' = "answered"
        /\ UNCHANGED <<body, age, timers, tripped, log, sentBy, calls, settled, badSlug, orphan, dispatched>>
    BY <1>7 DEF StreamEnds, toolVars
  <2>2. McpTypeOK' BY <2>1 DEF McpInv, McpTypeOK
  <2>3. LogInv'
    <3>1. ASSUME NEW i \in 1..Len(log) PROVE log[i].phase # "streaming"
      <4>1. log[i] \in LogLine BY DEF McpInv, LogInv
      <4> QED BY <4>1 DEF LogLine, Phases
    <3> QED BY <2>1, <3>1 DEF McpInv, LogInv
  <2>4. TimerInv' BY <2>1 DEF McpInv, TimerInv
  <2> QED BY <2>1, <2>2, <2>3, <2>4 DEF McpInv, ToolInv, KillInv
<1>8. CASE \E kind \in Watch : Warn(kind) BY <1>8, WarnKeeps
<1>9. CASE Forced BY <1>9, ForcedKeeps
<1>10. CASE Killed BY <1>10, KilledKeeps
<1>11. CASE Pass BY <1>11, PassKeeps
<1>12. CASE UNCHANGED mcpVars
  BY <1>12 DEF mcpVars, toolVars, McpInv, McpTypeOK, LogInv, TimerInv, ToolInv, KillInv, Armed10s, Closed
<1> QED
  BY <1>1, <1>2, <1>3, <1>4, <1>5, <1>6, <1>7, <1>8, <1>9, <1>10, <1>11, <1>12 DEF McpNext

LEMMA McpInvHolds == McpSpec => []McpInv
<1>1. McpInit => McpInv
  <2> SUFFICES ASSUME McpInit PROVE McpInv OBVIOUS
  <2>1. McpTypeOK BY DEF McpInit, McpTypeOK, Bodies
  <2>2. LogInv BY DEF McpInit, LogInv
  <2>3. TimerInv BY DEF McpInit, TimerInv
  <2> QED BY <2>1, <2>2, <2>3 DEF McpInit, McpInv, ToolInv, KillInv
<1> QED BY <1>1, McpStepKeeps, PTL DEF McpSpec

\* Whatever stalls, for any timeouts in the order of the code's and any number of calls:
\* a request that is killed in one of its phases has left a warning, each warning has its
\* completion unless the phase never ended, who is answered too late began too late, and what
\* is answered is held open by calls alone, no longer than their timeout (mcpWatchdog.ts, route.ts).
THEOREM HangsAreAlwaysSeen == McpSpec => []HangsAreSeen
<1>1. McpInv => HangsAreSeen
  <2> SUFFICES ASSUME McpInv PROVE HangsAreSeen OBVIOUS
  <2>1. log \in Seq(LogLine) /\ DOMAIN log = 1..Len(log) BY DEF McpInv, LogInv
  <2>2. \A i \in DOMAIN log : log[i].line \in {"10s", "50s"} =>
       \/ log[i].phase = at \/ at = "killed"
       \/ Completed(log[i].phase) \in {log[j] : j \in (i + 1)..Len(log)}
    BY <2>1 DEF McpInv, LogInv, IsWarning, Closed
  <2>3. KilledIsLogged BY <2>1, <2>2 DEF KilledIsLogged, McpInv, KillInv, LogInv
  <2>4. AnsweredInTime BY DEF AnsweredInTime, McpInv, KillInv
  <2>5. NothingLingers BY DEF NothingLingers, McpInv, TimerInv, ToolInv, Watch
  <2> QED BY <2>3, <2>4, <2>5 DEF HangsAreSeen
<1> QED BY <1>1, McpInvHolds, PTL

(***************************************************************************)
(* Marks of active keys.  A bucket that a window may still be read from    *)
(* holds what was ever marked in it, since each landing renews it for      *)
(* longer than that; and what is marked comes from a task that began with  *)
(* a call the upstream let in.                                             *)
(***************************************************************************)
Landing == {"write", "landed", "late"}

\* A task on day d, with what was called (c), slipped (s) and marked (m) so far.
TaskInv(x, d, c, s, m) ==
  \/ x = Free
  \/ /\ x = [pc |-> "after", key |-> x.key, on |-> x.on, asked |-> x.asked]
     /\ x.on \in Instance /\ x.key \in Key /\ x.asked \in 0..d /\ <<x.asked, x.key>> \in c
  \/ /\ x = [pc |-> x.pc, key |-> x.key, on |-> x.on, asked |-> x.asked, stamp |-> x.stamp]
     /\ x.pc \in Landing /\ x.on \in Instance /\ x.key \in Key /\ x.stamp \in 0..d
     /\ <<x.stamp, x.key>> \in c \cup s
     /\ x.pc = "landed" => <<x.stamp, x.key>> \in m

MarksType ==
  /\ today \in Day /\ bucket \in [Day -> SUBSET Key] /\ expiry \in [Day -> Nat]
  /\ called \subseteq Day \X Key /\ marked \subseteq called \cup slipped
  /\ slipped \subseteq Day \X Key

MemoInv ==
  /\ seen = [i \in Instance |-> seen[i]]
  /\ \A i \in Instance : seen[i] \subseteq marked /\ IsFiniteSet(seen[i])
                         /\ Cardinality(seen[i]) <= SeenMax

BucketInv ==
  \A d \in Day :
    /\ expiry[d] # 0 => expiry[d] >= d + Retention
    /\ d + Retention > today => \A k \in Key : k \in bucket[d] <=> <<d, k>> \in marked

TasksInv ==
  /\ task = [t \in Task |-> task[t]]
  /\ \A t \in Task : TaskInv(task[t], today, called, slipped, marked)

MarksInv == MarksType /\ MemoInv /\ BucketInv /\ TasksInv

LEMMA Days == /\ LastDay \in Nat /\ Day = 0..LastDay /\ Retention \in Nat /\ Retention # 0
              /\ SeriesMax \in Nat /\ WindowDays \in Nat /\ SeriesMax + WindowDays <= Retention
              /\ SeenMax \in Nat /\ SeenMax # 0
BY ActiveConstants DEF Day

LEMMA AfterTask ==
  ASSUME NEW x, NEW d, NEW c, NEW s, NEW m, TaskInv(x, d, c, s, m), x.pc = "after"
  PROVE  /\ x = [pc |-> "after", key |-> x.key, on |-> x.on, asked |-> x.asked]
         /\ x.on \in Instance /\ x.key \in Key /\ x.asked \in 0..d /\ <<x.asked, x.key>> \in c
<1>1. Free.pc = "free" BY DEF Free
<1> QED BY <1>1 DEF TaskInv, Landing

LEMMA LandingTask ==
  ASSUME NEW x, NEW d, NEW c, NEW s, NEW m, TaskInv(x, d, c, s, m), x.pc \in Landing
  PROVE  /\ x = [pc |-> x.pc, key |-> x.key, on |-> x.on, asked |-> x.asked, stamp |-> x.stamp]
         /\ x.on \in Instance /\ x.key \in Key /\ x.stamp \in 0..d
         /\ <<x.stamp, x.key>> \in c \cup s
         /\ x.pc = "landed" => <<x.stamp, x.key>> \in m
<1>1. Free.pc = "free" BY DEF Free
<1>2. x # Free BY <1>1 DEF Landing
<1>3. x # [pc |-> "after", key |-> x.key, on |-> x.on, asked |-> x.asked] BY DEF Landing
<1> QED BY <1>2, <1>3 DEF TaskInv

\* Days go by and histories grow: a task stays what it was.
LEMMA TaskStays ==
  ASSUME NEW x, NEW d \in Nat, NEW e \in Nat, d <= e, NEW c, NEW cc, c \subseteq cc,
         NEW s, NEW ss, s \subseteq ss, NEW m, NEW mm, m \subseteq mm, TaskInv(x, d, c, s, m)
  PROVE  TaskInv(x, e, cc, ss, mm)
<1>1. CASE x = Free BY <1>1 DEF TaskInv
<1>2. CASE /\ x = [pc |-> "after", key |-> x.key, on |-> x.on, asked |-> x.asked]
           /\ x.on \in Instance /\ x.key \in Key /\ x.asked \in 0..d /\ <<x.asked, x.key>> \in c
  <2>1. x.asked \in 0..e BY <1>2
  <2> QED BY <1>2, <2>1 DEF TaskInv
<1>3. CASE /\ x = [pc |-> x.pc, key |-> x.key, on |-> x.on, asked |-> x.asked, stamp |-> x.stamp]
           /\ x.pc \in Landing /\ x.on \in Instance /\ x.key \in Key /\ x.stamp \in 0..d
           /\ <<x.stamp, x.key>> \in c \cup s
           /\ x.pc = "landed" => <<x.stamp, x.key>> \in m
  <2>1. x.stamp \in 0..e BY <1>3
  <2> QED BY <1>3, <2>1 DEF TaskInv
<1> QED BY <1>1, <1>2, <1>3 DEF TaskInv

\* A step of one task, to x.
LEMMA OneTask ==
  ASSUME MarksInv, NEW t \in Task, NEW x, task' = [task EXCEPT ![t] = x], today' = today,
         called \subseteq called', slipped \subseteq slipped', marked \subseteq marked',
         TaskInv(x, today, called', slipped', marked')
  PROVE  TasksInv'
<1>1. today \in Nat BY Days DEF MarksInv, MarksType
<1>2. PICK c, s, m, cc, ss, mm : /\ c = called /\ s = slipped /\ m = marked
                                 /\ cc = called' /\ ss = slipped' /\ mm = marked'
  OBVIOUS
<1>3. PICK d : d = today OBVIOUS
<1>4. ASSUME NEW u \in Task PROVE TaskInv(task'[u], d, cc, ss, mm)
  <2>1. CASE u = t BY <1>2, <1>3, <2>1 DEF MarksInv, TasksInv
  <2>2. CASE u # t
    <3>1. task'[u] = task[u] BY <2>2 DEF MarksInv, TasksInv
    <3>2. PICK y : y = task[u] OBVIOUS
    <3>3. TaskInv(y, d, c, s, m) BY <1>2, <1>3, <3>2 DEF MarksInv, TasksInv
    <3>4. d \in Nat /\ d <= d /\ c \subseteq cc /\ s \subseteq ss /\ m \subseteq mm BY <1>1, <1>2, <1>3
    <3>5. TaskInv(y, d, cc, ss, mm) BY <3>3, <3>4, TaskStays
    <3> QED BY <3>1, <3>2, <3>5
  <2> QED BY <2>1, <2>2
<1>5. task' = [u \in Task |-> task'[u]] BY DEF MarksInv, TasksInv
<1> QED BY <1>2, <1>3, <1>4, <1>5 DEF TasksInv

LEMMA CallKeeps ==
  ASSUME MarksInv, NEW k \in Key, NEW i \in Instance, NEW t \in Task, NEW valid \in BOOLEAN,
         NEW status \in Statuses(valid), Call(k, i, t, valid, status)
  PROVE  MarksInv'
<1>1. /\ called' = (IF valid THEN called \cup {<<today, k>>} ELSE called)
      /\ UNCHANGED <<today, bucket, expiry, seen, marked, slipped>>
  BY DEF Call
<1>2. today \in Day /\ today \in 0..today BY Days DEF MarksInv, MarksType
<1>3. TasksInv'
  <2>1. CASE upstreamAuthenticated(status)
    <3>1. PICK x : x = [pc |-> "after", key |-> k, on |-> i, asked |-> today] OBVIOUS
    <3>2. valid BY <2>1 DEF upstreamAuthenticated, Statuses
    <3>3. TaskInv(x, today, called', slipped', marked') BY <1>1, <1>2, <3>1, <3>2 DEF TaskInv
    <3>4. task' = [task EXCEPT ![t] = x] BY <2>1, <3>1 DEF Call
    <3> QED BY <1>1, <3>3, <3>4, OneTask
  <2>2. CASE ~upstreamAuthenticated(status)
    <3>1. task' = [task EXCEPT ![t] = task[t]] BY <2>2 DEF Call, MarksInv, TasksInv
    <3>2. PICK x : x = task[t] OBVIOUS
    <3>3. PICK d, c, s, m, cc : d = today /\ c = called /\ s = slipped /\ m = marked /\ cc = called'
      OBVIOUS
    <3>4. TaskInv(x, d, c, s, m) BY <3>2, <3>3 DEF MarksInv, TasksInv
    <3>5. d \in Nat /\ d <= d /\ c \subseteq cc BY <1>1, <1>2, <3>3, Days
    <3>6. TaskInv(x, d, cc, s, m) BY <3>4, <3>5, TaskStays
    <3> QED BY <1>1, <3>1, <3>2, <3>3, <3>6, OneTask
  <2> QED BY <2>1, <2>2
<1>4. MarksType' BY <1>1, <1>2 DEF MarksInv, MarksType
<1> QED BY <1>1, <1>3, <1>4 DEF MarksInv, MemoInv, BucketInv

LEMMA BeginKeeps ==
  ASSUME MarksInv, NEW t \in Task, Begin(t)
  PROVE  MarksInv'
<1> PICK x : x = task[t] OBVIOUS
<1>1. /\ x.pc = "after"
      /\ slipped' = (IF x.asked # today THEN slipped \cup {<<today, x.key>>} ELSE slipped)
      /\ UNCHANGED <<today, bucket, expiry, seen, called, marked>>
  BY DEF Begin
<1>2. /\ x = [pc |-> "after", key |-> x.key, on |-> x.on, asked |-> x.asked]
      /\ x.on \in Instance /\ x.key \in Key /\ x.asked \in 0..today /\ <<x.asked, x.key>> \in called
  <2>1. TaskInv(x, today, called, slipped, marked) BY DEF MarksInv, TasksInv
  <2> QED BY <1>1, <2>1, AfterTask
<1>3. today \in Day /\ today \in 0..today BY Days DEF MarksInv, MarksType
<1>4. PICK y : y = IF <<today, x.key>> \in seen[x.on] THEN Free
                   ELSE [pc |-> "write", key |-> x.key, on |-> x.on, asked |-> x.asked,
                         stamp |-> today]
  OBVIOUS
<1>5. task' = [task EXCEPT ![t] = y] BY <1>4 DEF Begin
<1>6. TaskInv(y, today, called', slipped', marked')
  <2>1. <<today, x.key>> \in called \cup slipped' BY <1>1, <1>2
  <2> QED BY <1>1, <1>2, <1>3, <1>4, <2>1 DEF TaskInv, Landing
<1>7. TasksInv' BY <1>1, <1>5, <1>6, OneTask
<1>8. MarksType' BY <1>1, <1>2, <1>3 DEF MarksInv, MarksType
<1> QED BY <1>1, <1>7, <1>8 DEF MarksInv, MemoInv, BucketInv

LEMMA LandKeeps ==
  ASSUME MarksInv, NEW t \in Task, Land(t)
  PROVE  MarksInv'
<1> PICK x : x = task[t] OBVIOUS
<1>1. /\ x.pc \in {"write", "late"}
      /\ bucket' = [bucket EXCEPT ![x.stamp] = bucket[x.stamp] \cup {x.key}]
      /\ expiry' = [expiry EXCEPT ![x.stamp] = today + Retention]
      /\ marked' = marked \cup {<<x.stamp, x.key>>}
      /\ UNCHANGED <<today, seen, called, slipped>>
  BY DEF Land
<1>2. /\ x = [pc |-> x.pc, key |-> x.key, on |-> x.on, asked |-> x.asked, stamp |-> x.stamp]
      /\ x.pc \in Landing /\ x.on \in Instance /\ x.key \in Key /\ x.stamp \in 0..today
      /\ <<x.stamp, x.key>> \in called \cup slipped
  <2>1. TaskInv(x, today, called, slipped, marked) BY DEF MarksInv, TasksInv
  <2>2. x.pc \in Landing BY <1>1 DEF Landing
  <2> QED BY <2>1, <2>2, LandingTask
<1>3. today \in Day /\ today \in Nat /\ x.stamp \in Day BY <1>2, Days DEF MarksInv, MarksType
<1>4. PICK y : y = IF x.pc = "write"
                   THEN [pc |-> "landed", key |-> x.key, on |-> x.on, asked |-> x.asked,
                         stamp |-> x.stamp]
                   ELSE Free
  OBVIOUS
<1>5. task' = [task EXCEPT ![t] = y]
  <2>1. task' = [task EXCEPT ![t] = IF x.pc = "write" THEN [x EXCEPT !.pc = "landed"] ELSE Free]
    BY DEF Land
  <2>2. [x EXCEPT !.pc = "landed"] = [pc |-> "landed", key |-> x.key, on |-> x.on,
                                      asked |-> x.asked, stamp |-> x.stamp]
    BY <1>2
  <2> QED BY <1>4, <2>1, <2>2
<1>6. TaskInv(y, today, called', slipped', marked') BY <1>1, <1>2, <1>4 DEF TaskInv, Landing
<1>7. TasksInv' BY <1>1, <1>5, <1>6, OneTask
<1>8. MarksType' BY <1>1, <1>2, <1>3, Days DEF MarksInv, MarksType
<1>9. MemoInv' BY <1>1 DEF MarksInv, MemoInv
<1>10. BucketInv'
  <2> SUFFICES ASSUME NEW d \in Day
               PROVE  /\ expiry'[d] # 0 => expiry'[d] >= d + Retention
                      /\ d + Retention > today =>
                           \A k \in Key : k \in bucket'[d] <=> <<d, k>> \in marked'
    BY <1>1 DEF BucketInv
  <2>1. bucket \in [Day -> SUBSET Key] /\ expiry \in [Day -> Nat] BY DEF MarksInv, MarksType
  <2>2. CASE d = x.stamp
    <3>1. expiry'[d] = today + Retention /\ bucket'[d] = bucket[d] \cup {x.key} BY <1>1, <1>3, <2>1, <2>2
    <3>2. today + Retention >= d + Retention BY <1>2, <1>3, <2>2, Days
    <3> QED BY <1>1, <2>2, <3>1, <3>2 DEF MarksInv, BucketInv
  <2>3. CASE d # x.stamp
    <3>1. expiry'[d] = expiry[d] /\ bucket'[d] = bucket[d] BY <1>1, <1>3, <2>1, <2>3
    <3> QED BY <1>1, <2>3, <3>1 DEF MarksInv, BucketInv
  <2> QED BY <2>2, <2>3
<1> QED BY <1>7, <1>8, <1>9, <1>10 DEF MarksInv

LEMMA RememberKeeps ==
  ASSUME MarksInv, NEW t \in Task, Remember(t)
  PROVE  MarksInv'
<1> PICK x : x = task[t] OBVIOUS
<1>1. /\ x.pc = "landed" /\ task' = [task EXCEPT ![t] = Free]
      /\ seen' = [seen EXCEPT ![x.on] = Room(seen[x.on]) \cup {<<x.stamp, x.key>>}]
      /\ UNCHANGED <<today, bucket, expiry, called, marked, slipped>>
  BY DEF Remember, Answered, marksHistory
<1>2. x.on \in Instance /\ <<x.stamp, x.key>> \in marked
  <2>1. TaskInv(x, today, called, slipped, marked) BY DEF MarksInv, TasksInv
  <2>2. x.pc \in Landing BY <1>1 DEF Landing
  <2> QED BY <1>1, <2>1, <2>2, LandingTask
<1>3. PICK old, new, p : old = seen[x.on] /\ p = <<x.stamp, x.key>> /\ new = Room(old) \cup {p} OBVIOUS
<1>4. /\ old \subseteq marked /\ IsFiniteSet(old) /\ Cardinality(old) <= SeenMax
  BY <1>2, <1>3 DEF MarksInv, MemoInv
<1>5. new \subseteq marked BY <1>2, <1>3, <1>4 DEF Room
<1>6. IsFiniteSet(new) /\ Cardinality(new) <= SeenMax
  <2>1. CASE Cardinality(old) >= SeenMax
    <3>1. new = {p} BY <1>3, <2>1 DEF Room
    <3>2. IsFiniteSet({p}) /\ Cardinality({p}) = 1 BY FS_Singleton
    <3> QED BY <3>1, <3>2, Days
  <2>2. CASE ~(Cardinality(old) >= SeenMax)
    <3>1. new = old \cup {p} BY <1>3, <2>2 DEF Room
    <3>2. Cardinality(old) \in Nat BY <1>4, FS_CardinalityType
    <3>3. IsFiniteSet(new) /\ (Cardinality(new) = Cardinality(old) \/ Cardinality(new) = Cardinality(old) + 1)
      BY <1>4, <3>1, FS_AddElement
    <3> QED BY <2>2, <3>2, <3>3, Days
  <2> QED BY <2>1, <2>2
<1>7. MemoInv'
  <2>1. seen' = [seen EXCEPT ![x.on] = new] BY <1>1, <1>3
  <2> QED BY <1>1, <1>2, <1>5, <1>6, <2>1 DEF MarksInv, MemoInv
<1>8. TasksInv'
  <2>1. TaskInv(Free, today, called', slipped', marked') BY DEF TaskInv
  <2>2. PICK y : y = Free OBVIOUS
  <2> QED BY <1>1, <2>1, <2>2, OneTask
<1> QED BY <1>1, <1>7, <1>8 DEF MarksInv, MarksType, BucketInv

LEMMA GiveUpKeeps ==
  ASSUME MarksInv, NEW t \in Task, GiveUp(t)
  PROVE  MarksInv'
<1> PICK x : x = task[t] OBVIOUS
<1>1. UNCHANGED <<today, bucket, expiry, seen, called, marked, slipped>> BY DEF GiveUp, marksHistory
<1>2. TasksInv'
  <2>1. CASE task' = [task EXCEPT ![t] = Free]
    <3>1. TaskInv(Free, today, called', slipped', marked') BY DEF TaskInv
    <3>2. PICK y : y = Free OBVIOUS
    <3> QED BY <1>1, <2>1, <3>1, <3>2, OneTask
  <2>2. CASE x.pc = "write" /\ task' = [task EXCEPT ![t].pc = "late"]
    <3>1. /\ x = [pc |-> x.pc, key |-> x.key, on |-> x.on, asked |-> x.asked, stamp |-> x.stamp]
          /\ x.on \in Instance /\ x.key \in Key /\ x.stamp \in 0..today
          /\ <<x.stamp, x.key>> \in called \cup slipped
      <4>1. TaskInv(x, today, called, slipped, marked) BY DEF MarksInv, TasksInv
      <4>2. x.pc \in Landing BY <2>2 DEF Landing
      <4> QED BY <4>1, <4>2, LandingTask
    <3>2. PICK y : y = [pc |-> "late", key |-> x.key, on |-> x.on, asked |-> x.asked,
                        stamp |-> x.stamp]
      OBVIOUS
    <3>3. task' = [task EXCEPT ![t] = y]
      <4>1. [x EXCEPT !.pc = "late"] = y BY <3>1, <3>2
      <4>2. task' = [task EXCEPT ![t] = [x EXCEPT !.pc = "late"]] BY <2>2
      <4> QED BY <4>1, <4>2
    <3>4. TaskInv(y, today, called', slipped', marked') BY <1>1, <3>1, <3>2 DEF TaskInv, Landing
    <3> QED BY <1>1, <3>3, <3>4, OneTask
  <2> QED BY <2>1, <2>2 DEF GiveUp
<1> QED BY <1>1, <1>2 DEF MarksInv, MarksType, MemoInv, BucketInv

LEMMA RecycleKeeps ==
  ASSUME MarksInv, NEW i \in Instance, Recycle(i)
  PROVE  MarksInv'
<1>1. /\ seen' = [seen EXCEPT ![i] = {}]
      /\ UNCHANGED <<today, bucket, expiry, task, called, marked, slipped>>
  BY DEF Recycle, marksHistory
<1>2. MemoInv'
  <2>1. IsFiniteSet({}) /\ Cardinality({}) <= SeenMax BY FS_EmptySet, Days
  <2> QED BY <1>1, <2>1 DEF MarksInv, MemoInv
<1> QED BY <1>1, <1>2 DEF MarksInv, MarksType, BucketInv, TasksInv

LEMMA MidnightKeeps == MarksInv /\ Midnight => MarksInv'
<1> SUFFICES ASSUME MarksInv, Midnight PROVE MarksInv' OBVIOUS
<1>1. /\ today < LastDay /\ today' = today + 1
      /\ UNCHANGED <<seen, task, called, marked, slipped>>
  BY DEF Midnight, marksHistory
<1> DEFINE over(d) == expiry[d] # 0 /\ expiry[d] <= today + 1
<1>2. /\ bucket' = [d \in Day |-> IF over(d) THEN {} ELSE bucket[d]]
      /\ expiry' = [d \in Day |-> IF over(d) THEN 0 ELSE expiry[d]]
  BY DEF Midnight
<1>3. today \in Nat /\ today \in Day /\ today + 1 \in Day BY <1>1, Days DEF MarksInv, MarksType
<1>4. MarksType' BY <1>1, <1>2, <1>3 DEF MarksInv, MarksType
<1>5. BucketInv'
  <2> SUFFICES ASSUME NEW d \in Day
               PROVE  /\ expiry'[d] # 0 => expiry'[d] >= d + Retention
                      /\ d + Retention > today + 1 =>
                           \A k \in Key : k \in bucket'[d] <=> <<d, k>> \in marked
    BY <1>1 DEF BucketInv
  <2>1. d \in Nat /\ expiry[d] \in Nat BY Days DEF MarksInv, MarksType
  <2>2. /\ expiry[d] # 0 => expiry[d] >= d + Retention
        /\ d + Retention > today => \A k \in Key : k \in bucket[d] <=> <<d, k>> \in marked
    BY DEF MarksInv, BucketInv
  <2>3. over(d) => ~(d + Retention > today + 1) BY <1>3, <2>1, <2>2, Days
  <2>4. d + Retention > today + 1 => d + Retention > today BY <1>3, <2>1, Days
  <2> QED BY <1>2, <2>2, <2>3, <2>4
<1>6. TasksInv'
  <2> SUFFICES ASSUME NEW t \in Task
               PROVE TaskInv(task[t], today + 1, called, slipped, marked)
    BY <1>1 DEF MarksInv, TasksInv
  <2>1. PICK x, d, c, s, m : x = task[t] /\ d = today /\ c = called /\ s = slipped /\ m = marked
    OBVIOUS
  <2>2. TaskInv(x, d, c, s, m) BY <2>1 DEF MarksInv, TasksInv
  <2>3. d \in Nat /\ d + 1 \in Nat /\ d <= d + 1 BY <1>3, <2>1
  <2>4. PICK e : e = d + 1 OBVIOUS
  <2>5. TaskInv(x, e, c, s, m) BY <2>2, <2>3, <2>4, TaskStays
  <2> QED BY <2>1, <2>4, <2>5
<1> QED BY <1>1, <1>4, <1>5, <1>6 DEF MarksInv, MemoInv

LEMMA MarksInvHolds == MarksSpec => []MarksInv
<1>1. MarksInit => MarksInv
  <2> SUFFICES ASSUME MarksInit PROVE MarksInv OBVIOUS
  <2>1. IsFiniteSet({}) /\ Cardinality({}) <= SeenMax BY FS_EmptySet, Days
  <2>2. MarksType BY Days DEF MarksInit, MarksType
  <2>3. MemoInv BY <2>1 DEF MarksInit, MemoInv
  <2>4. BucketInv BY DEF MarksInit, BucketInv
  <2>5. TasksInv BY DEF MarksInit, TasksInv, TaskInv
  <2> QED BY <2>2, <2>3, <2>4, <2>5 DEF MarksInv
<1>2. MarksInv /\ [MarksNext]_marksVars => MarksInv'
  <2> SUFFICES ASSUME MarksInv, [MarksNext]_marksVars PROVE MarksInv' OBVIOUS
  <2>1. CASE \E k \in Key, i \in Instance, t \in Task, valid \in BOOLEAN :
               \E status \in Statuses(valid) : Call(k, i, t, valid, status)
    BY <2>1, CallKeeps
  <2>2. CASE \E t \in Task : Begin(t) \/ Land(t) \/ Remember(t) \/ GiveUp(t)
    BY <2>2, BeginKeeps, LandKeeps, RememberKeeps, GiveUpKeeps
  <2>3. CASE \E i \in Instance : Recycle(i) BY <2>3, RecycleKeeps
  <2>4. CASE Midnight BY <2>4, MidnightKeeps
  <2>5. CASE UNCHANGED marksVars
    BY <2>5 DEF marksVars, marksHistory, MarksInv, MarksType, MemoInv, BucketInv, TasksInv
  <2> QED BY <2>1, <2>2, <2>3, <2>4, <2>5 DEF MarksNext
<1> QED BY <1>1, <1>2, PTL DEF MarksSpec

\* Whatever lands late, twice or never, on any number of instances and for any windows that
\* the retention covers: a series counts the keys marked on enough days of each window, a
\* counted key was let in on those days unless a mark slipped past midnight, and what an
\* instance skips is stored (activeKeys.ts).
THEOREM MarksAlwaysHold == MarksSpec => []MarksHold
<1>1. MarksInv => MarksHold
  <2> SUFFICES ASSUME MarksInv PROVE MarksHold OBVIOUS
  <2>1. ASSUME NEW e \in Series, NEW k \in Key
        PROVE  DaysIn(k, e, Stored) = DaysIn(k, e, marked)
    <3> SUFFICES ASSUME NEW d \in windowStamps(e) PROVE <<d, k>> \in Stored <=> <<d, k>> \in marked
      BY DEF DaysIn
    <3>1. d \in Day /\ d + WindowDays > e /\ e + SeriesMax > today /\ e \in Day
      BY DEF windowStamps, Series
    <3>2. d + Retention > today
      BY <3>1, Days DEF MarksInv, MarksType
    <3>3. k \in bucket[d] <=> <<d, k>> \in marked BY <3>1, <3>2 DEF MarksInv, BucketInv
    <3> QED BY <3>1, <3>3 DEF Stored
  <2>2. CountIsEarned
    <3> SUFFICES ASSUME NEW e \in Series
                 PROVE  /\ Active(e, Stored) = Active(e, marked)
                        /\ \A k \in Active(e, Stored) :
                             k \in Active(e, called) \/ DaysIn(k, e, slipped) # {}
      BY DEF CountIsEarned
    <3>1. Active(e, Stored) = Active(e, marked) BY <2>1 DEF Active
    <3>2. ASSUME NEW k \in Active(e, Stored), DaysIn(k, e, slipped) = {}
          PROVE  k \in Active(e, called)
      <4>1. k \in Key /\ Cardinality(DaysIn(k, e, marked)) >= MinDays BY <3>1 DEF Active
      <4>2. DaysIn(k, e, marked) \subseteq DaysIn(k, e, called)
        BY <3>2 DEF DaysIn, MarksInv, MarksType
      <4>3. PICK A, B : A = DaysIn(k, e, marked) /\ B = DaysIn(k, e, called) OBVIOUS
      <4>4. B \subseteq 0..LastDay BY <4>3, Days DEF DaysIn, windowStamps
      <4>5. IsFiniteSet(0..LastDay) BY FS_Interval, Days
      <4>6. IsFiniteSet(B) BY <4>4, <4>5, FS_Subset
      <4>7. IsFiniteSet(A) /\ Cardinality(A) <= Cardinality(B) BY <4>2, <4>3, <4>6, FS_Subset
      <4>8. Cardinality(A) \in Nat /\ Cardinality(B) \in Nat /\ MinDays \in Nat
        BY <4>6, <4>7, FS_CardinalityType, ActiveConstants
      <4>9. Cardinality(B) >= MinDays BY <4>1, <4>3, <4>7, <4>8
      <4> QED BY <4>1, <4>3, <4>9 DEF Active
    <3> QED BY <3>1, <3>2
  <2>3. MemoLosesNothing
    <3> SUFFICES ASSUME NEW i \in Instance, NEW p \in seen[i], p[1] + Retention > today
                 PROVE  p[2] \in bucket[p[1]]
      BY DEF MemoLosesNothing, MarksInv, MemoInv
    <3>1. p \in Day \X Key /\ p \in marked BY DEF MarksInv, MemoInv, MarksType
    <3>2. PICK d \in Day, k \in Key : p = <<d, k>> BY <3>1
    <3> QED BY <3>1, <3>2 DEF MarksInv, BucketInv
  <2> QED BY <2>2, <2>3 DEF MarksHold
<1> QED BY <1>1, MarksInvHolds, PTL

(***************************************************************************)
(* The leads.  A handler past its push has its lead stored or is about to  *)
(* log it; the list's length is paid for by the cap and by the handlers    *)
(* that pushed and did not see a trim.                                     *)
(***************************************************************************)
Deliveries == {"sent", "failed", "logged"}
LeadRecord == [at : {"new", "gate", "mailing", "push", "trim", "shout", "answer", "done"},
               source : {"contact", "waitlist"}, delivery : Deliveries,
               answer : Deliveries \cup {NoAnswer, "rate_limited"}]
LeadEntry == [of : Lead, delivery : Deliveries]

\* Where a lead is once it has been stored.
LeadKept == Of(leads) \cup cut \cup cleared

\* The lead r as its handler x leaves it, with its calls f, what was mailed (m), stored (s)
\* and logged (l).
LeadOk(r, x, f, m, s, l) ==
  /\ x.at \in {"new", "gate"} => x.delivery = "logged"
  /\ x.at # "done" => x.answer = NoAnswer
  /\ r \in l => x.at \in {"answer", "done"}
  /\ x.at = "trim" => r \in s
  /\ x.at = "answer" \/ x.answer \in Deliveries => r \in s \cup l
  /\ \A c \in BrevoCall : x.at = "mailing" /\ f[c] = "ok" => <<r, c>> \in m
  /\ x.delivery = "sent" => \E c \in BrevoCall : <<r, c>> \in m
  /\ x.delivery = "logged" /\ (x.at \notin {"mailing", "done"} \/ x.answer \in Deliveries) =>
       \A c \in BrevoCall : <<r, c>> \notin m
  /\ x.answer \in Deliveries => x.at = "done"

LeadTypes ==
  /\ lead \in [Lead -> LeadRecord]
  /\ call \in [Lead -> [BrevoCall -> Running \cup {"ok", "failed"}]]
  /\ mailed \subseteq Lead \X BrevoCall /\ leads \in Seq(LeadEntry)
  /\ logged \subseteq Lead /\ cut \subseteq Lead /\ cleared \subseteq Lead /\ operator \in Nat

EachLead == \A r \in Lead : LeadOk(r, lead[r], call[r], mailed, LeadKept, logged)

Agrees(x, e) == x.at \in {"trim", "shout", "answer", "done"} /\ e.delivery = x.delivery
EntriesAgree == \A i \in 1..Len(leads) : Agrees(lead[leads[i].of], leads[i])

LeadInv == LeadTypes /\ EachLead /\ EntriesAgree /\ ListIsBounded

\* The leads but r stay as they were when only r's handler moves.
LEMMA OneLead ==
  ASSUME LeadTypes, EachLead, NEW r \in Lead, NEW x \in LeadRecord,
         lead' = [lead EXCEPT ![r] = x],
         NEW f, NEW m, NEW s, NEW l, f = call', m = mailed', s = LeadKept', l = logged',
         LeadOk(r, x, f[r], m, s, l),
         \A q \in Lead \ {r} : f[q] = call[q],
         mailed \subseteq m, \A q \in Lead \ {r} : \A c \in BrevoCall : <<q, c>> \in m => <<q, c>> \in mailed,
         LeadKept \subseteq s, logged \subseteq l, l \subseteq logged \cup {r}
  PROVE  EachLead' /\ lead' \in [Lead -> LeadRecord]
<1> SUFFICES ASSUME NEW q \in Lead PROVE LeadOk(q, lead'[q], f[q], m, s, l)
  BY DEF EachLead, LeadTypes
<1>1. CASE q = r BY <1>1 DEF LeadTypes
<1>2. CASE q # r
  <2>1. PICK y : y = lead[q] OBVIOUS
  <2>2. LeadOk(q, y, call[q], mailed, LeadKept, logged) BY <2>1 DEF EachLead
  <2>3. LeadOk(q, y, f[q], m, s, l) BY <1>2, <2>2 DEF LeadOk
  <2> QED BY <1>2, <2>1, <2>3 DEF LeadTypes
<1> QED BY <1>1, <1>2

\* What is in the list stays there, and is settled: so does it for a handler that moves on.
LEMMA EntriesStay ==
  ASSUME LeadTypes, EntriesAgree, NEW r \in Lead, NEW x, lead' = [lead EXCEPT ![r] = x],
         UNCHANGED leads,
         lead[r].at \in {"trim", "shout", "answer", "done"} =>
           x.at \in {"trim", "shout", "answer", "done"} /\ x.delivery = lead[r].delivery
  PROVE  EntriesAgree'
<1> SUFFICES ASSUME NEW i \in 1..Len(leads) PROVE Agrees(lead'[leads[i].of], leads[i])
  BY DEF EntriesAgree
<1>1. leads[i] \in LeadEntry BY DEF LeadTypes
<1>2. leads[i].of \in Lead BY <1>1 DEF LeadEntry
<1>3. Agrees(lead[leads[i].of], leads[i]) BY DEF EntriesAgree
<1> QED BY <1>2, <1>3 DEF Agrees, LeadTypes

\* The list may grow by what Sends pays for a handler, and no handler stops being one that
\* did not see a trim.
Lagging == {r \in Lead : Untrimmed(r)}

LEMMA BoundStays ==
  ASSUME ListIsBounded, NEW r \in Lead, LeadTypes, NEW new, new = Lagging', Lagging \subseteq new,
         new \subseteq Lead, NEW k \in 0..Sends, Len(leads') \in Nat,
         Len(leads') <= Len(leads) + k,
         k # 0 => r \in new \ Lagging
  PROVE  ListIsBounded'
<1>1. PICK old : old = Lagging OBVIOUS
<1>2. IsFiniteSet(new) /\ IsFiniteSet(old) BY <1>1, LeadConstants, FS_Subset DEF Lagging
<1>3. Cardinality(old) <= Cardinality(new) /\ Cardinality(old) \in Nat /\ Cardinality(new) \in Nat
  BY <1>1, <1>2, FS_Subset, FS_CardinalityType
<1>4. Len(leads) <= Cap + Sends * Cardinality(old) BY <1>1 DEF ListIsBounded, Lagging
<1>5. Sends \in Nat /\ Cap \in Nat /\ Len(leads) \in Nat BY LeadConstants DEF LeadTypes
<1>6. Len(leads') <= Cap + Sends * Cardinality(new)
  <2>1. CASE k = 0
    <3>1. Sends * Cardinality(old) <= Sends * Cardinality(new) BY <1>3, <1>5
    <3>2. PICK a, b : a = Sends * Cardinality(old) /\ b = Sends * Cardinality(new) OBVIOUS
    <3>3. a \in Nat /\ b \in Nat BY <1>3, <1>5, <3>2
    <3> QED BY <1>4, <1>5, <2>1, <3>1, <3>2, <3>3
  <2>2. CASE k # 0
    <3>1. old \cup {r} \subseteq new /\ r \notin old BY <1>1, <2>2
    <3>2. IsFiniteSet(old \cup {r}) /\ Cardinality(old \cup {r}) = Cardinality(old) + 1
      BY <1>2, <3>1, FS_AddElement
    <3>3. Cardinality(old) + 1 <= Cardinality(new) BY <1>2, <3>1, <3>2, FS_Subset
    <3>4. PICK a, b : a = Cardinality(old) /\ b = Cardinality(new) OBVIOUS
    <3>5. Sends * (a + 1) <= Sends * b BY <1>3, <1>5, <3>3, <3>4
    <3>6. Sends * (a + 1) = Sends * a + Sends BY <1>3, <1>5, <3>4
    <3>7. Sends * a \in Nat /\ Sends * b \in Nat BY <1>3, <1>5, <3>4
    <3>8. PICK c, d : c = Sends * a /\ d = Sends * b OBVIOUS
    <3> QED BY <1>4, <1>5, <3>4, <3>5, <3>6, <3>7, <3>8
  <2> QED BY <2>1, <2>2
<1> QED BY <1>6 DEF ListIsBounded, Lagging

\* The calls f, what was mailed (m) and logged (l) differ from before for the lead r alone.
OnlyFor(r, f, m, l) ==
  /\ f \in [Lead -> [BrevoCall -> Running \cup {"ok", "failed"}]] /\ m \subseteq Lead \X BrevoCall
  /\ \A q \in Lead \ {r} : f[q] = call[q]
  /\ mailed \subseteq m
  /\ \A q \in Lead \ {r} : \A c \in BrevoCall : <<q, c>> \in m => <<q, c>> \in mailed
  /\ logged \subseteq l /\ l \subseteq logged \cup {r}

\* A handler that moves on and leaves the list alone.
LEMMA MovesOn ==
  ASSUME LeadInv, NEW r \in Lead, NEW x \in LeadRecord, lead' = [lead EXCEPT ![r] = x],
         UNCHANGED <<leads, cut, cleared, operator>>,
         NEW f, NEW m, NEW l, f = call', m = mailed', l = logged',
         OnlyFor(r, f, m, l), LeadOk(r, x, f[r], m, LeadKept, l),
         lead[r].at \in {"trim", "shout", "answer", "done"} =>
           x.at \in {"trim", "shout", "answer", "done"} /\ x.delivery = lead[r].delivery,
         Untrimmed(r) => x.at \in {"trim", "shout"} \/ r \in l \/ (x.at = "done" /\ x.answer = NoAnswer)
  PROVE  LeadInv'
<1>1. LeadTypes /\ EachLead /\ EntriesAgree /\ ListIsBounded BY DEF LeadInv
<1>2. PICK s : s = LeadKept OBVIOUS
<1>3. LeadKept' = s BY <1>2 DEF LeadKept
<1>4. EachLead' /\ lead' \in [Lead -> LeadRecord]
  <2>1. f = call' /\ m = mailed' /\ s = LeadKept' /\ l = logged' BY <1>3
  <2>2. LeadOk(r, x, f[r], m, s, l) /\ LeadKept \subseteq s BY <1>2
  <2> QED BY <1>1, <2>1, <2>2, OneLead DEF OnlyFor
<1>5. EntriesAgree' BY <1>1, EntriesStay
<1>6. LeadTypes' BY <1>1, <1>4 DEF LeadTypes, OnlyFor
<1>7. ListIsBounded'
  <2>1. PICK new : new = Lagging' OBVIOUS
  <2>2. Lagging \subseteq new
    <3> SUFFICES ASSUME NEW q \in Lead, Untrimmed(q) PROVE Untrimmed(q)' BY <2>1 DEF Lagging
    <3>1. lead'[r] = x /\ (q # r => lead'[q] = lead[q]) BY <1>1 DEF LeadTypes
    <3> QED BY <3>1 DEF Untrimmed, At, OnlyFor
  <2>3. new \subseteq Lead BY <2>1 DEF Lagging
  <2>4. 0 \in 0..Sends /\ Len(leads') \in Nat /\ Len(leads') <= Len(leads) + 0
    BY <1>1, LeadConstants DEF LeadTypes
  <2> QED BY <1>1, <2>1, <2>2, <2>3, <2>4, BoundStays
<1> QED BY <1>4, <1>5, <1>6, <1>7 DEF LeadInv

\* The same, when no call to Brevo ends and nothing is logged.
LEMMA HandlerMoves ==
  ASSUME LeadInv, NEW r \in Lead, NEW x \in LeadRecord, lead' = [lead EXCEPT ![r] = x],
         UNCHANGED <<call, mailed, leads, logged, cut, cleared, operator>>,
         LeadOk(r, x, call[r], mailed, LeadKept, logged),
         lead[r].at \in {"trim", "shout", "answer", "done"} =>
           x.at \in {"trim", "shout", "answer", "done"} /\ x.delivery = lead[r].delivery,
         Untrimmed(r) => x.at \in {"trim", "shout"} \/ r \in logged \/ (x.at = "done" /\ x.answer = NoAnswer)
  PROVE  LeadInv'
<1>1. PICK f, m, l : f = call /\ m = mailed /\ l = logged OBVIOUS
<1>2. f = call' /\ m = mailed' /\ l = logged' BY <1>1
<1>3. LeadOk(r, x, f[r], m, LeadKept, l) BY <1>1
<1>4. OnlyFor(r, f, m, l) BY <1>1 DEF OnlyFor, LeadInv, LeadTypes
<1>5. Untrimmed(r) => x.at \in {"trim", "shout"} \/ r \in l \/ (x.at = "done" /\ x.answer = NoAnswer)
  BY <1>1
<1> QED BY <1>2, <1>3, <1>4, <1>5, MovesOn

LEMMA SubmitKeeps ==
  ASSUME LeadInv, NEW r \in Lead, NEW s \in {"contact", "waitlist"}, Submit(r, s)
  PROVE  LeadInv'
<1>1. PICK x : x = [at |-> IF s = "contact" /\ BrevoConfigured THEN "gate" ELSE "push",
                    source |-> s, delivery |-> "logged", answer |-> NoAnswer]
  OBVIOUS
<1>2. lead' = [lead EXCEPT ![r] = x] /\ lead[r].at = "new"
      /\ UNCHANGED <<call, mailed, leads, logged, operator, cut, cleared>>
  BY <1>1 DEF Submit, At
<1>3. x \in LeadRecord /\ x.at \in {"gate", "push"} /\ x.delivery = "logged" /\ x.answer = NoAnswer
  BY <1>1 DEF LeadRecord, Deliveries
<1>4. LeadOk(r, lead[r], call[r], mailed, LeadKept, logged) BY DEF LeadInv, EachLead
<1>5. LeadOk(r, x, call[r], mailed, LeadKept, logged)
  BY <1>2, <1>3, <1>4, LeadConstants DEF LeadOk, Deliveries
<1>6. Untrimmed(r) => r \in logged BY <1>2 DEF Untrimmed, At
<1> QED BY <1>2, <1>3, <1>5, <1>6, HandlerMoves

LEMMA GateKeeps ==
  ASSUME LeadInv, NEW r \in Lead, NEW ok \in BOOLEAN, Gate(r, ok)
  PROVE  LeadInv'
<1>1. PICK x : x = [at |-> IF ok THEN "mailing" ELSE "done", source |-> lead[r].source,
                    delivery |-> lead[r].delivery,
                    answer |-> IF ok THEN lead[r].answer ELSE "rate_limited"]
  OBVIOUS
<1>2. lead[r] \in LeadRecord /\ LeadTypes /\ LeadOk(r, lead[r], call[r], mailed, LeadKept, logged)
  BY DEF LeadInv, LeadTypes, EachLead
<1>3. PICK y : y = lead[r] OBVIOUS
<1>4. /\ lead' = [lead EXCEPT ![r] = x] /\ y.at = "gate"
      /\ UNCHANGED <<mailed, leads, logged, operator, cut, cleared>>
  <2>1. x = IF ok THEN [lead[r] EXCEPT !.at = "mailing"]
            ELSE [lead[r] EXCEPT !.at = "done", !.answer = "rate_limited"]
    BY <1>1, <1>2 DEF LeadRecord
  <2> QED BY <1>3, <2>1 DEF Gate, At
<1>5. /\ x \in LeadRecord /\ x.at \in {"mailing", "done"} /\ x.delivery = "logged"
      /\ x.at = "mailing" => ok /\ x.answer = NoAnswer
      /\ x.at = "done" => x.answer = "rate_limited"
  BY <1>1, <1>2, <1>3, <1>4 DEF LeadRecord, Deliveries, LeadOk
<1>6. PICK f, m, l : f = call' /\ m = mailed /\ l = logged OBVIOUS
<1>7. /\ f \in [Lead -> [BrevoCall -> Running \cup {"ok", "failed"}]]
      /\ \A q \in Lead \ {r} : f[q] = call[q]
      /\ x.at = "mailing" => \A c \in BrevoCall : f[r][c] # "ok"
  <2>1. CASE ok
    <3>1. f = [call EXCEPT ![r] = [c \in BrevoCall |-> "open"]] BY <1>6, <2>1 DEF Gate
    <3> QED BY <1>2, <3>1 DEF LeadTypes, Running
  <2>2. CASE ~ok BY <1>1, <1>2, <1>6, <2>2 DEF LeadTypes, Gate
  <2> QED BY <2>1, <2>2
<1>8. LeadOk(r, x, f[r], m, LeadKept, l)
  BY <1>2, <1>3, <1>4, <1>5, <1>6, <1>7, LeadConstants DEF LeadOk, Deliveries
<1>9. f = call' /\ m = mailed' /\ l = logged' BY <1>4, <1>6
<1>10. OnlyFor(r, f, m, l) BY <1>2, <1>4, <1>6, <1>7 DEF OnlyFor, LeadTypes
<1>11. Untrimmed(r) => x.at \in {"trim", "shout"} \/ r \in l \/ (x.at = "done" /\ x.answer = NoAnswer)
  BY <1>3, <1>4, <1>6 DEF Untrimmed, At
<1>12. lead[r].at \in {"trim", "shout", "answer", "done"} =>
           x.at \in {"trim", "shout", "answer", "done"} /\ x.delivery = lead[r].delivery
  BY <1>3, <1>4
<1>13. UNCHANGED <<leads, cut, cleared, operator>> BY <1>4
<1> QED BY <1>4, <1>5, <1>7, <1>8, <1>9, <1>10, <1>11, <1>12, <1>13, MovesOn

LEMMA BrevoEndsKeeps ==
  ASSUME LeadInv, NEW r \in Lead, NEW c \in BrevoCall, NEW took \in BOOLEAN, NEW ok \in BOOLEAN,
         BrevoEnds(r, c, took, ok)
  PROVE  LeadInv'
<1>1. PICK x : x = lead[r] OBVIOUS
<1>2. x \in LeadRecord /\ LeadTypes /\ LeadOk(r, x, call[r], mailed, LeadKept, logged)
  BY <1>1 DEF LeadInv, LeadTypes, EachLead
<1>3. x.at = "mailing" /\ UNCHANGED <<leads, cut, cleared, operator, logged>>
  BY <1>1 DEF BrevoEnds, At
<1>4. lead' = [lead EXCEPT ![r] = x] BY <1>1, <1>2 DEF BrevoEnds, LeadTypes
<1>5. PICK f, m, l : f = call' /\ m = mailed' /\ l = logged' OBVIOUS
<1>6. PICK e : e = IF ok THEN "ok" ELSE IF c = "contact" /\ call[r][c] = "open" THEN "retry" ELSE "failed"
  OBVIOUS
<1>7. f = [call EXCEPT ![r] = [call[r] EXCEPT ![c] = e]] /\ e \in Running \cup {"ok", "failed"}
      /\ (e = "ok" => took)
  BY <1>5, <1>6 DEF BrevoEnds, Running
<1>8. m = IF took THEN mailed \cup {<<r, c>>} ELSE mailed BY <1>5 DEF BrevoEnds
<1>9. OnlyFor(r, f, m, l) BY <1>2, <1>3, <1>5, <1>7, <1>8 DEF OnlyFor, LeadTypes
<1>10. \A d \in BrevoCall : f[r][d] = IF d = c THEN e ELSE call[r][d]
  BY <1>2, <1>7 DEF LeadTypes
<1>11. \A d \in BrevoCall : f[r][d] = "ok" => <<r, d>> \in m
  BY <1>2, <1>3, <1>7, <1>8, <1>10 DEF LeadOk
<1>12. LeadOk(r, x, f[r], m, LeadKept, l)
  BY <1>2, <1>3, <1>5, <1>8, <1>11, LeadConstants DEF LeadOk, Deliveries
<1>13. Untrimmed(r) => x.at \in {"trim", "shout"} \/ r \in l \/ (x.at = "done" /\ x.answer = NoAnswer)
  BY <1>1, <1>3, <1>5 DEF Untrimmed, At
<1>14. lead[r].at \in {"trim", "shout", "answer", "done"} =>
           x.at \in {"trim", "shout", "answer", "done"} /\ x.delivery = lead[r].delivery
  BY <1>1
<1>15. UNCHANGED <<leads, cut, cleared, operator>> BY <1>3
<1> QED BY <1>2, <1>4, <1>5, <1>9, <1>12, <1>13, <1>14, <1>15, MovesOn

LEMMA DeliveredKeeps == ASSUME LeadInv, NEW r \in Lead, Delivered(r) PROVE LeadInv'
<1>1. PICK some : some = IF \E c \in BrevoCall : call[r][c] = "ok" THEN "sent" ELSE "failed" OBVIOUS
<1>2. PICK x : x = [at |-> "push", source |-> lead[r].source, delivery |-> some,
                    answer |-> lead[r].answer]
  OBVIOUS
<1>3. lead[r] \in LeadRecord /\ LeadOk(r, lead[r], call[r], mailed, LeadKept, logged)
  BY DEF LeadInv, LeadTypes, EachLead
<1>4. /\ lead' = [lead EXCEPT ![r] = x] /\ lead[r].at = "mailing"
      /\ UNCHANGED <<call, mailed, leads, logged, cut, cleared, operator>>
  <2>1. PICK y : y = lead[r] OBVIOUS
  <2>2. PICK u : u = [y EXCEPT !.at = "push"] OBVIOUS
  <2>3. PICK v : v = [u EXCEPT !.delivery = some] OBVIOUS
  <2>4. y \in LeadRecord BY <1>3, <2>1
  <2>5. v = [at |-> "push", source |-> y.source, delivery |-> some, answer |-> y.answer]
    BY <2>2, <2>3, <2>4 DEF LeadRecord
  <2>6. x = [y EXCEPT !.at = "push", !.delivery = some] BY <1>2, <2>1, <2>2, <2>3, <2>5
  <2> QED BY <1>1, <2>1, <2>6 DEF Delivered, At
<1>5. x \in LeadRecord /\ x.at = "push" /\ x.answer = NoAnswer
  BY <1>1, <1>2, <1>3, <1>4 DEF LeadRecord, Deliveries, LeadOk
<1>6. x.delivery # "logged" /\ (x.delivery = "sent" => \E c \in BrevoCall : <<r, c>> \in mailed)
  BY <1>1, <1>2, <1>3, <1>4 DEF LeadOk
<1>7. LeadOk(r, x, call[r], mailed, LeadKept, logged)
  BY <1>3, <1>4, <1>5, <1>6, LeadConstants DEF LeadOk, Deliveries
<1>8. Untrimmed(r) => r \in logged BY <1>4 DEF Untrimmed, At
<1> QED BY <1>4, <1>5, <1>7, <1>8, HandlerMoves

\* Go leaves all but the place.
LEMMA Goes ==
  ASSUME LeadTypes, NEW r \in Lead, NEW to \in {"trim", "shout", "answer", "done"}, Go(r, to),
         NEW x, x = [at |-> to, source |-> lead[r].source, delivery |-> lead[r].delivery,
                     answer |-> lead[r].answer]
  PROVE  lead' = [lead EXCEPT ![r] = x] /\ x \in LeadRecord
<1>1. lead[r] \in LeadRecord BY DEF LeadTypes
<1>2. x = [lead[r] EXCEPT !.at = to] /\ x \in LeadRecord BY <1>1 DEF LeadRecord
<1> QED BY <1>2 DEF Go

LEMMA ShoutKeeps == ASSUME LeadInv, NEW r \in Lead, Shout(r) PROVE LeadInv'
<1>1. PICK x : x = [at |-> "answer", source |-> lead[r].source, delivery |-> lead[r].delivery,
                    answer |-> lead[r].answer]
  OBVIOUS
<1>2. LeadTypes /\ LeadOk(r, lead[r], call[r], mailed, LeadKept, logged)
  BY DEF LeadInv, EachLead
<1>3. lead' = [lead EXCEPT ![r] = x] /\ x \in LeadRecord BY <1>1, <1>2, Goes DEF Shout
<1>4. PICK f, m, l : f = call /\ m = mailed /\ l = logged \cup {r} OBVIOUS
<1>5. /\ lead[r].at = "shout" /\ f = call' /\ m = mailed' /\ l = logged'
      /\ UNCHANGED <<leads, cut, cleared, operator>>
  BY <1>4 DEF Shout, At
<1>6. OnlyFor(r, f, m, l) BY <1>2, <1>4 DEF OnlyFor, LeadTypes
<1>7. LeadOk(r, x, f[r], m, LeadKept, l)
  BY <1>1, <1>2, <1>4, <1>5, LeadConstants DEF LeadOk, Deliveries
<1>8. x.at = "answer" /\ x.delivery = lead[r].delivery /\ r \in l BY <1>1, <1>4
<1> QED BY <1>3, <1>5, <1>6, <1>7, <1>8, MovesOn

LEMMA AnswerKeeps == ASSUME LeadInv, NEW r \in Lead, Answer(r) PROVE LeadInv'
<1>1. PICK x : x = [at |-> "done", source |-> lead[r].source, delivery |-> lead[r].delivery,
                    answer |-> lead[r].delivery]
  OBVIOUS
<1>2. lead[r] \in LeadRecord /\ LeadOk(r, lead[r], call[r], mailed, LeadKept, logged)
  BY DEF LeadInv, LeadTypes, EachLead
<1>3. /\ lead' = [lead EXCEPT ![r] = x] /\ lead[r].at = "answer"
      /\ UNCHANGED <<call, mailed, leads, logged, cut, cleared, operator>>
  <2>1. PICK y : y = lead[r] OBVIOUS
  <2>2. PICK u : u = [y EXCEPT !.at = "done"] OBVIOUS
  <2>3. PICK v : v = [u EXCEPT !.answer = y.delivery] OBVIOUS
  <2>4. y \in LeadRecord BY <1>2, <2>1
  <2>5. v = [at |-> "done", source |-> y.source, delivery |-> y.delivery, answer |-> y.delivery]
    BY <2>2, <2>3, <2>4 DEF LeadRecord
  <2>6. x = [y EXCEPT !.at = "done", !.answer = y.delivery] BY <1>1, <2>1, <2>2, <2>3, <2>5
  <2> QED BY <2>1, <2>6 DEF Answer, At
<1>4. x \in LeadRecord /\ x.at = "done" /\ x.delivery = lead[r].delivery
  BY <1>1, <1>2 DEF LeadRecord
<1>5. LeadOk(r, x, call[r], mailed, LeadKept, logged)
  BY <1>1, <1>2, <1>3, LeadConstants DEF LeadOk, Deliveries
<1>6. Untrimmed(r) => r \in logged BY <1>3 DEF Untrimmed, At
<1> QED BY <1>3, <1>4, <1>5, <1>6, HandlerMoves

LEMMA CutOffKeeps == ASSUME LeadInv, NEW r \in Lead, CutOff(r) PROVE LeadInv'
<1>1. PICK x : x = [at |-> "done", source |-> lead[r].source, delivery |-> lead[r].delivery,
                    answer |-> lead[r].answer]
  OBVIOUS
<1>2. LeadTypes /\ LeadOk(r, lead[r], call[r], mailed, LeadKept, logged)
  BY DEF LeadInv, EachLead
<1>3. lead' = [lead EXCEPT ![r] = x] /\ x \in LeadRecord BY <1>1, <1>2, Goes DEF CutOff
<1>4. /\ lead[r].at # "done" /\ UNCHANGED <<call, mailed, leads, logged, cut, cleared, operator>>
  BY DEF CutOff, At
<1>5. x.at = "done" /\ x.delivery = lead[r].delivery /\ x.answer = NoAnswer
  BY <1>1, <1>2, <1>4 DEF LeadOk
<1>6. LeadOk(r, x, call[r], mailed, LeadKept, logged)
  BY <1>2, <1>5, LeadConstants DEF LeadOk, Deliveries
<1> QED BY <1>3, <1>4, <1>5, <1>6, HandlerMoves

\* A push puts its copies before the list, and keeps what was there.
Copies(e, k) == [i \in 1..k |-> e]

\* The list new is leads with k entries e before it.
Longer(new, e, k) ==
  /\ new \in Seq(LeadEntry) /\ Len(new) = Len(leads) + k
  /\ \A i \in 1..Len(new) : new[i] = e \/ \E j \in 1..Len(leads) : new[i] = leads[j]
  /\ \A j \in 1..Len(leads) : new[j + k] = leads[j] /\ j + k \in 1..Len(new)
  /\ k > 0 => new[1] = e /\ 1 \in 1..Len(new)

LEMMA PushedList ==
  ASSUME LeadTypes, NEW e \in LeadEntry, NEW k \in Nat, NEW new, new = Copies(e, k) \o leads
  PROVE  Longer(new, e, k)
<1>1. PICK front : front = Copies(e, k) OBVIOUS
<1>2. front \in Seq(LeadEntry) /\ Len(front) = k /\ \A i \in 1..k : front[i] = e BY <1>1 DEF Copies
<1>3. leads \in Seq(LeadEntry) /\ Len(leads) \in Nat BY DEF LeadTypes
<1>4. new = front \o leads BY <1>1
<1>5. /\ new \in Seq(LeadEntry) /\ Len(new) = k + Len(leads)
      /\ \A i \in 1..k + Len(leads) : new[i] = IF i <= k THEN front[i] ELSE leads[i - k]
  <2>1. /\ front \o leads \in Seq(LeadEntry) /\ Len(front \o leads) = Len(front) + Len(leads)
        /\ \A i \in 1 .. Len(front) + Len(leads) : (front \o leads)[i] =
                     IF i <= Len(front) THEN front[i] ELSE leads[i - Len(front)]
    BY <1>2, <1>3, ConcatProperties
  <2> QED BY <1>2, <1>4, <2>1
<1>6. ASSUME NEW i \in 1..Len(new) PROVE new[i] = e \/ \E j \in 1..Len(leads) : new[i] = leads[j]
  <2>1. CASE i <= k BY <1>2, <1>3, <1>5, <2>1
  <2>2. CASE ~(i <= k)
    <3>1. i - k \in 1..Len(leads) BY <1>3, <1>5, <2>2
    <3> QED BY <1>3, <1>5, <2>2, <3>1
  <2> QED BY <2>1, <2>2
<1>7. ASSUME NEW j \in 1..Len(leads) PROVE new[j + k] = leads[j] /\ j + k \in 1..Len(new)
  BY <1>3, <1>5
<1>8. k > 0 => new[1] = e /\ 1 \in 1..Len(new) BY <1>2, <1>3, <1>5
<1> QED BY <1>3, <1>5, <1>6, <1>7, <1>8 DEF Longer

LEMMA PushLeadKeeps ==
  ASSUME LeadInv, NEW r \in Lead, NEW copies \in 0..Sends, NEW ok \in BOOLEAN,
         PushLead(r, copies, ok)
  PROVE  LeadInv'
<1>1. PICK to : to = IF ok THEN "trim" ELSE "shout" OBVIOUS
<1>2. PICK x : x = [at |-> to, source |-> lead[r].source, delivery |-> lead[r].delivery,
                    answer |-> lead[r].answer]
  OBVIOUS
<1>3. /\ LeadTypes /\ EachLead /\ EntriesAgree /\ ListIsBounded
      /\ LeadOk(r, lead[r], call[r], mailed, LeadKept, logged)
  BY DEF LeadInv, EachLead
<1>4. lead' = [lead EXCEPT ![r] = x] /\ x \in LeadRecord
  <2>1. to \in {"trim", "shout", "answer", "done"} /\ Go(r, to) BY <1>1 DEF PushLead
  <2> QED BY <1>2, <1>3, <2>1, Goes
<1>5. /\ lead[r].at = "push" /\ (ok => copies > 0)
      /\ UNCHANGED <<call, mailed, logged, operator, cut, cleared>>
  BY DEF PushLead, At
<1>6. PICK e, new : e = Entry(r) /\ new = leads' OBVIOUS
<1>7. e \in LeadEntry /\ e.of = r /\ e.delivery = x.delivery
  BY <1>2, <1>4, <1>6 DEF Entry, LeadEntry, LeadRecord
<1>8. copies \in Nat /\ new = Copies(e, copies) \o leads
  BY <1>6, LeadConstants DEF PushLead, Copies
<1>9. /\ new \in Seq(LeadEntry) /\ Len(new) = Len(leads) + copies
      /\ \A i \in 1..Len(new) : new[i] = e \/ \E j \in 1..Len(leads) : new[i] = leads[j]
      /\ \A j \in 1..Len(leads) : new[j + copies] = leads[j] /\ j + copies \in 1..Len(new)
      /\ copies > 0 => new[1] = e /\ 1 \in 1..Len(new)
  <2>1. Longer(new, e, copies) BY <1>3, <1>7, <1>8, PushedList
  <2> QED BY <2>1 DEF Longer
<1>10. DOMAIN new = 1..Len(new) /\ DOMAIN leads = 1..Len(leads) BY <1>3, <1>9 DEF LeadTypes
<1>11. Of(leads) \subseteq Of(new) /\ (copies > 0 => r \in Of(new))
  <2>1. ASSUME NEW q \in Of(leads) PROVE q \in Of(new)
    <3>1. PICK j \in 1..Len(leads) : q = leads[j].of BY <1>10 DEF Of
    <3>2. new[j + copies] = leads[j] /\ j + copies \in 1..Len(new) BY <1>9
    <3> QED BY <1>10, <3>1, <3>2 DEF Of
  <2>2. copies > 0 => r \in Of(new) BY <1>7, <1>9, <1>10 DEF Of
  <2> QED BY <2>1, <2>2
<1>12. PICK f, m, s, l : f = call' /\ m = mailed' /\ s = LeadKept' /\ l = logged' OBVIOUS
<1>13. LeadKept \subseteq s /\ (copies > 0 => r \in s) BY <1>5, <1>6, <1>11, <1>12 DEF LeadKept
<1>14. EachLead' /\ lead' \in [Lead -> LeadRecord]
  <2>1. f = call /\ m = mailed /\ l = logged BY <1>5, <1>12
  <2>2. LeadOk(r, x, f[r], m, s, l)
    BY <1>1, <1>2, <1>3, <1>5, <1>13, <2>1, LeadConstants DEF LeadOk, Deliveries
  <2>3. /\ \A q \in Lead \ {r} : f[q] = call[q]
        /\ mailed \subseteq m
        /\ \A q \in Lead \ {r} : \A c \in BrevoCall : <<q, c>> \in m => <<q, c>> \in mailed
        /\ logged \subseteq l /\ l \subseteq logged \cup {r}
    BY <2>1
  <2> QED BY <1>3, <1>4, <1>12, <1>13, <2>2, <2>3, OneLead
<1>15. LeadTypes' BY <1>3, <1>5, <1>6, <1>9, <1>14 DEF LeadTypes
<1>16. EntriesAgree'
  <2> SUFFICES ASSUME NEW i \in 1..Len(new) PROVE Agrees(lead'[new[i].of], new[i])
    BY <1>6 DEF EntriesAgree
  <2>1. x.at \in {"trim", "shout"} BY <1>1, <1>2
  <2>2. CASE new[i] = e BY <1>3, <1>4, <1>7, <2>1, <2>2 DEF Agrees, LeadTypes
  <2>3. ASSUME NEW j \in 1..Len(leads), new[i] = leads[j] PROVE Agrees(lead'[new[i].of], new[i])
    <3>1. Agrees(lead[leads[j].of], leads[j]) BY <1>3 DEF EntriesAgree
    <3>2. leads[j].of # r BY <1>5, <3>1 DEF Agrees
    <3>3. leads[j] \in LeadEntry BY <1>3 DEF LeadTypes
    <3>4. leads[j].of \in Lead BY <3>3 DEF LeadEntry
    <3> QED BY <1>3, <1>4, <2>3, <3>1, <3>2, <3>4 DEF LeadTypes
  <2> QED BY <1>9, <2>2, <2>3
<1>17. ListIsBounded'
  <2>1. PICK lag : lag = Lagging' OBVIOUS
  <2>2. lead'[r] = x /\ (\A q \in Lead \ {r} : lead'[q] = lead[q]) BY <1>3, <1>4 DEF LeadTypes
  <2>3. x.at \in {"trim", "shout"} BY <1>1, <1>2
  <2>4. r \in lag BY <2>1, <2>2, <2>3 DEF Lagging, Untrimmed, At
  <2>5. r \notin Lagging BY <1>3, <1>5 DEF Lagging, Untrimmed, At, LeadOk
  <2>6. \A q \in Lead \ {r} : Untrimmed(q)' <=> Untrimmed(q) BY <1>5, <2>2 DEF Untrimmed, At
  <2>7. Lagging \subseteq lag /\ lag \subseteq Lead BY <2>1, <2>4, <2>6 DEF Lagging
  <2>8. Len(leads') \in Nat /\ Len(leads') <= Len(leads) + copies
    BY <1>3, <1>6, <1>8, <1>9 DEF LeadTypes
  <2> QED BY <1>3, <2>1, <2>4, <2>5, <2>7, <2>8, BoundStays
<1> QED BY <1>14, <1>15, <1>16, <1>17 DEF LeadInv

\* A trim, by a handler or by the operator, leaves entries that were there.
PartOf(new) ==
  /\ new \in Seq(LeadEntry) /\ Len(new) \in Nat /\ Len(new) <= Len(leads)
  /\ \A i \in 1..Len(new) : \E j \in 1..Len(leads) : new[i] = leads[j]

LEMMA PartOfList ==
  ASSUME LeadTypes, NEW m \in Nat \ {0}, NEW n \in Nat, m <= n + 1, n <= Len(leads),
         NEW new, new = SubSeq(leads, m, n)
  PROVE  PartOf(new) /\ Len(new) = n - m + 1
<1>1. leads \in Seq(LeadEntry) /\ Len(leads) \in Nat BY DEF LeadTypes
<1>2. \A i \in m..n : leads[i] \in LeadEntry BY <1>1
<1>3. m \in Int /\ n \in Int OBVIOUS
<1>4. /\ SubSeq(leads, m, n) \in Seq(LeadEntry)
      /\ Len(SubSeq(leads, m, n)) = IF m <= n THEN n - m + 1 ELSE 0
      /\ \A i \in 1..n - m + 1 : SubSeq(leads, m, n)[i] = leads[m + i - 1]
  BY <1>2, <1>3, SubSeqProperties
<1>5. Len(new) = n - m + 1 BY <1>4
<1>6. ASSUME NEW i \in 1..Len(new) PROVE \E j \in 1..Len(leads) : new[i] = leads[j]
  <2>1. m + i - 1 \in 1..Len(leads) BY <1>1, <1>5
  <2>2. new[i] = leads[m + i - 1] BY <1>4, <1>5
  <2> QED BY <2>1, <2>2
<1> QED BY <1>1, <1>4, <1>5, <1>6 DEF PartOf

\* What was dropped is remembered.
LEMMA NothingForgotten ==
  ASSUME LeadTypes, NEW new, PartOf(new)
  PROVE  Of(new) \subseteq Of(leads) /\ Of(leads) \subseteq Lead
<1>1. DOMAIN new = 1..Len(new) /\ DOMAIN leads = 1..Len(leads) BY DEF LeadTypes, PartOf
<1>2. ASSUME NEW q \in Of(new) PROVE q \in Of(leads)
  <2>1. PICK i \in 1..Len(new) : q = new[i].of BY <1>1 DEF Of
  <2>2. PICK j \in 1..Len(leads) : new[i] = leads[j] BY DEF PartOf
  <2> QED BY <1>1, <2>1, <2>2 DEF Of
<1>3. ASSUME NEW q \in Of(leads) PROVE q \in Lead
  <2>1. PICK j \in 1..Len(leads) : q = leads[j].of BY <1>1 DEF Of
  <2>2. leads[j] \in LeadEntry BY DEF LeadTypes
  <2> QED BY <2>1, <2>2 DEF LeadEntry
<1> QED BY <1>2, <1>3

\* The entries that are left of a handler that is past its push.
LEMMA EntriesLeft ==
  ASSUME LeadTypes, EntriesAgree, NEW new, PartOf(new), new = leads', NEW r \in Lead, NEW x,
         lead' = [lead EXCEPT ![r] = x],
         lead[r].at \in {"trim", "shout", "answer", "done"} =>
           x.at \in {"trim", "shout", "answer", "done"} /\ x.delivery = lead[r].delivery
  PROVE  EntriesAgree'
<1> SUFFICES ASSUME NEW i \in 1..Len(new) PROVE Agrees(lead'[new[i].of], new[i])
  BY DEF EntriesAgree
<1>1. PICK j \in 1..Len(leads) : new[i] = leads[j] BY DEF PartOf
<1>2. Agrees(lead[leads[j].of], leads[j]) BY DEF EntriesAgree
<1>3. leads[j] \in LeadEntry BY DEF LeadTypes
<1>4. leads[j].of \in Lead BY <1>3 DEF LeadEntry
<1> QED BY <1>1, <1>2, <1>4 DEF Agrees, LeadTypes

LEMMA TrimLeadsKeeps ==
  ASSUME LeadInv, NEW r \in Lead, NEW took \in BOOLEAN, NEW ok \in BOOLEAN, TrimLeads(r, took, ok)
  PROVE  LeadInv'
<1>1. PICK to : to = IF ok THEN "answer" ELSE "shout" OBVIOUS
<1>2. PICK x : x = [at |-> to, source |-> lead[r].source, delivery |-> lead[r].delivery,
                    answer |-> lead[r].answer]
  OBVIOUS
<1>3. /\ LeadTypes /\ EachLead /\ EntriesAgree /\ ListIsBounded
      /\ LeadOk(r, lead[r], call[r], mailed, LeadKept, logged)
  BY DEF LeadInv, EachLead
<1>4. to \in {"trim", "shout", "answer", "done"} /\ Go(r, to) BY <1>1 DEF TrimLeads
<1>5. lead' = [lead EXCEPT ![r] = x] /\ x \in LeadRecord BY <1>2, <1>3, <1>4, Goes
<1>6. /\ lead[r].at = "trim" /\ (ok => took)
      /\ UNCHANGED <<call, mailed, logged, operator, cleared>>
  BY DEF TrimLeads, At
<1>7. x.at \in {"answer", "shout"} /\ x.delivery = lead[r].delivery /\ x.answer = lead[r].answer
  BY <1>1, <1>2
<1>8. LeadOk(r, x, call[r], mailed, LeadKept, logged)
  BY <1>2, <1>3, <1>6, <1>7, LeadConstants DEF LeadOk, Deliveries
<1>9. CASE ~took
  <2>1. UNCHANGED <<call, mailed, leads, logged, cut, cleared, operator>> BY <1>6, <1>9 DEF TrimLeads
  <2>2. Untrimmed(r) => x.at \in {"trim", "shout"} \/ r \in logged \/ (x.at = "done" /\ x.answer = NoAnswer)
    BY <1>1, <1>2, <1>6, <1>9
  <2> QED BY <1>5, <1>7, <1>8, <2>1, <2>2, HandlerMoves
<1>10. CASE took
  <2>1. PICK n, new : n = (IF Len(leads) < Cap THEN Len(leads) ELSE Cap) /\ new = SubSeq(leads, 1, n)
    OBVIOUS
  <2>2. new = leads' /\ cut' = cut \cup (Of(leads) \ Of(new)) BY <1>10, <2>1 DEF TrimLeads
  <2>3. n \in Nat /\ n <= Len(leads) /\ n <= Cap /\ 1 \in Nat \ {0} /\ 1 <= n + 1
    BY <1>3, <2>1, LeadConstants DEF LeadTypes
  <2>4. PartOf(new) /\ Len(new) = n - 1 + 1 BY <1>3, <2>1, <2>3, PartOfList
  <2>5. Of(new) \subseteq Of(leads) /\ Of(leads) \subseteq Lead BY <1>3, <2>4, NothingForgotten
  <2>6. PICK f, m, s, l : f = call' /\ m = mailed' /\ s = LeadKept' /\ l = logged' OBVIOUS
  <2>7. LeadKept \subseteq s BY <1>6, <2>2, <2>5, <2>6 DEF LeadKept
  <2>8. EachLead' /\ lead' \in [Lead -> LeadRecord]
    <3>1. f = call /\ m = mailed /\ l = logged BY <1>6, <2>6
    <3>2. LeadOk(r, x, f[r], m, s, l)
      BY <1>2, <1>3, <1>6, <1>7, <2>7, <3>1, LeadConstants DEF LeadOk, Deliveries
    <3>3. /\ \A q \in Lead \ {r} : f[q] = call[q]
          /\ mailed \subseteq m
          /\ \A q \in Lead \ {r} : \A c \in BrevoCall : <<q, c>> \in m => <<q, c>> \in mailed
          /\ logged \subseteq l /\ l \subseteq logged \cup {r}
      BY <3>1
    <3> QED BY <1>3, <1>5, <2>6, <2>7, <3>2, <3>3, OneLead
  <2>9. EntriesAgree' BY <1>3, <1>5, <1>7, <2>2, <2>4, EntriesLeft
  <2>10. LeadTypes' BY <1>3, <1>6, <2>2, <2>4, <2>5, <2>8 DEF LeadTypes, PartOf
  <2>11. ListIsBounded'
    <3>1. PICK new2 : new2 = Lagging' OBVIOUS
    <3>2. IsFiniteSet(new2) BY <3>1, LeadConstants, FS_Subset DEF Lagging
    <3>3. PICK c : c = Cardinality(new2) OBVIOUS
    <3>4. c \in Nat BY <3>2, <3>3, FS_CardinalityType
    <3>5. Sends * c \in Nat /\ Cap \in Nat BY <3>4, LeadConstants
    <3>6. PICK d : d = Sends * c OBVIOUS
    <3>7. Len(leads') <= Cap + Sends * c BY <2>2, <2>3, <2>4, <3>5, <3>6
    <3> QED BY <3>1, <3>3, <3>7 DEF ListIsBounded, Lagging
  <2> QED BY <2>8, <2>9, <2>10, <2>11 DEF LeadInv
<1> QED BY <1>9, <1>10

LEMMA ClearKeeps == ASSUME LeadInv, Clear PROVE LeadInv'
<1>1. LeadTypes /\ EachLead /\ EntriesAgree /\ ListIsBounded BY DEF LeadInv
<1>2. PICK n, new : /\ n = (IF operator < Len(leads) THEN operator ELSE Len(leads))
                    /\ new = SubSeq(leads, n + 1, Len(leads))
  OBVIOUS
<1>3. /\ new = leads' /\ cleared' = cleared \cup (Of(leads) \ Of(new)) /\ operator' = 0
      /\ UNCHANGED <<lead, call, mailed, logged, cut>>
  BY <1>2 DEF Clear
<1>4. /\ n + 1 \in Nat \ {0} /\ Len(leads) \in Nat /\ n + 1 <= Len(leads) + 1
      /\ Len(leads) <= Len(leads)
  BY <1>1, <1>2 DEF LeadTypes
<1>5. PartOf(new) BY <1>1, <1>2, <1>4, PartOfList
<1>6. Of(new) \subseteq Of(leads) /\ Of(leads) \subseteq Lead BY <1>1, <1>5, NothingForgotten
<1>7. LeadTypes' BY <1>1, <1>3, <1>5, <1>6 DEF LeadTypes, PartOf
<1>8. EachLead'
  <2>1. PICK s : s = LeadKept' OBVIOUS
  <2>2. LeadKept \subseteq s BY <1>3, <1>6, <2>1 DEF LeadKept
  <2> SUFFICES ASSUME NEW q \in Lead PROVE LeadOk(q, lead[q], call[q], mailed, s, logged)
    BY <1>3, <2>1 DEF EachLead
  <2>3. LeadOk(q, lead[q], call[q], mailed, LeadKept, logged) BY <1>1 DEF EachLead
  <2> QED BY <2>2, <2>3 DEF LeadOk
<1>9. EntriesAgree'
  <2> SUFFICES ASSUME NEW i \in 1..Len(new) PROVE Agrees(lead[new[i].of], new[i])
    BY <1>3 DEF EntriesAgree
  <2>1. PICK j \in 1..Len(leads) : new[i] = leads[j] BY <1>5 DEF PartOf
  <2> QED BY <1>1, <2>1 DEF EntriesAgree
<1>10. ListIsBounded'
  <2>1. PICK lag : lag = {r \in Lead : Untrimmed(r)} OBVIOUS
  <2>2. lag = {r \in Lead : Untrimmed(r)}' BY <1>3, <2>1 DEF Untrimmed, At
  <2>3. IsFiniteSet(lag) BY <2>1, LeadConstants, FS_Subset
  <2>4. PICK c : c = Cardinality(lag) OBVIOUS
  <2>5. c \in Nat BY <2>3, <2>4, FS_CardinalityType
  <2>6. Sends * c \in Nat /\ Cap \in Nat BY <2>5, LeadConstants
  <2>7. PICK d : d = Sends * c OBVIOUS
  <2>8. Len(leads) <= Cap + d BY <1>1, <2>1, <2>4, <2>7 DEF ListIsBounded
  <2>9. Len(leads') <= Cap + d BY <1>3, <1>4, <1>5, <2>6, <2>7, <2>8 DEF PartOf
  <2> QED BY <2>2, <2>4, <2>7, <2>9 DEF ListIsBounded
<1> QED BY <1>7, <1>8, <1>9, <1>10 DEF LeadInv

LEMMA DrainKeeps == ASSUME LeadInv, NEW undelivered \in BOOLEAN, Drain(undelivered) PROVE LeadInv'
<1>1. /\ operator' = Cardinality({i \in DOMAIN leads : undelivered => leads[i].delivery # "sent"})
      /\ UNCHANGED <<lead, call, mailed, leads, logged, cut, cleared>>
  BY DEF Drain
<1>2. operator' \in Nat
  <2>1. DOMAIN leads = 1..Len(leads) /\ Len(leads) \in Nat BY DEF LeadInv, LeadTypes
  <2>2. IsFiniteSet(1..Len(leads)) BY <2>1, FS_Interval
  <2>3. IsFiniteSet({i \in DOMAIN leads : undelivered => leads[i].delivery # "sent"})
    BY <2>1, <2>2, FS_Subset
  <2> QED BY <1>1, <2>3, FS_CardinalityType
<1>3. LeadTypes' /\ EachLead' /\ EntriesAgree'
  BY <1>1, <1>2 DEF LeadInv, LeadTypes, EachLead, EntriesAgree, LeadKept
<1>4. ListIsBounded' BY <1>1 DEF LeadInv, ListIsBounded, Untrimmed, At
<1> QED BY <1>3, <1>4 DEF LeadInv

LEMMA LeadInvHolds == LeadSpec => []LeadInv
<1>1. LeadInit => LeadInv
  <2> SUFFICES ASSUME LeadInit PROVE LeadInv OBVIOUS
  <2>1. leads = <<>> /\ Len(leads) = 0 /\ leads \in Seq(LeadEntry) BY DEF LeadInit
  <2>2. LeadTypes
    <3>1. lead \in [Lead -> LeadRecord]
      BY DEF LeadInit, LeadRecord, Deliveries
    <3>2. call \in [Lead -> [BrevoCall -> Running \cup {"ok", "failed"}]]
      BY DEF LeadInit, Running
    <3> QED BY <2>1, <3>1, <3>2 DEF LeadInit, LeadTypes
  <2>3. EachLead BY LeadConstants DEF LeadInit, EachLead, LeadOk, Deliveries
  <2>4. EntriesAgree BY <2>1 DEF EntriesAgree
  <2>5. ListIsBounded
    <3>1. PICK c : c = Cardinality({r \in Lead : Untrimmed(r)}) OBVIOUS
    <3>2. IsFiniteSet({r \in Lead : Untrimmed(r)}) BY LeadConstants, FS_Subset
    <3>3. c \in Nat BY <3>1, <3>2, FS_CardinalityType
    <3>4. Sends * c \in Nat /\ Cap \in Nat BY <3>3, LeadConstants
    <3>5. PICK d : d = Sends * c OBVIOUS
    <3> QED BY <2>1, <3>1, <3>4, <3>5 DEF ListIsBounded
  <2> QED BY <2>2, <2>3, <2>4, <2>5 DEF LeadInv
<1>2. LeadInv /\ [LeadNext]_leadVars => LeadInv'
  <2> SUFFICES ASSUME LeadInv, [LeadNext]_leadVars PROVE LeadInv' OBVIOUS
  <2>1. ASSUME NEW r \in Lead, NEW s \in {"contact", "waitlist"}, Submit(r, s) PROVE LeadInv'
    BY <2>1, SubmitKeeps
  <2>2. ASSUME NEW r \in Lead, NEW ok \in BOOLEAN, Gate(r, ok) PROVE LeadInv' BY <2>2, GateKeeps
  <2>3. ASSUME NEW r \in Lead, NEW c \in BrevoCall, NEW took \in BOOLEAN, NEW ok \in BOOLEAN,
               BrevoEnds(r, c, took, ok)
        PROVE  LeadInv'
    BY <2>3, BrevoEndsKeeps
  <2>4. ASSUME NEW r \in Lead, NEW copies \in 0..Sends, NEW ok \in BOOLEAN, PushLead(r, copies, ok)
        PROVE  LeadInv'
    BY <2>4, PushLeadKeeps
  <2>5. ASSUME NEW r \in Lead, NEW took \in BOOLEAN, NEW ok \in BOOLEAN, TrimLeads(r, took, ok)
        PROVE  LeadInv'
    BY <2>5, TrimLeadsKeeps
  <2>6. ASSUME NEW r \in Lead, Delivered(r) \/ Shout(r) \/ Answer(r) \/ CutOff(r) PROVE LeadInv'
    BY <2>6, DeliveredKeeps, ShoutKeeps, AnswerKeeps, CutOffKeeps
  <2>7. CASE \E undelivered \in BOOLEAN : Drain(undelivered) BY <2>7, DrainKeeps
  <2>8. CASE Clear BY <2>8, ClearKeeps
  <2>9. CASE UNCHANGED leadVars
    <3>1. LeadTypes' /\ EachLead' /\ EntriesAgree'
      BY <2>9 DEF leadVars, LeadInv, LeadTypes, EachLead, EntriesAgree, LeadKept
    <3>2. ListIsBounded' BY <2>9 DEF leadVars, LeadInv, ListIsBounded, Untrimmed, At
    <3> QED BY <3>1, <3>2 DEF LeadInv
  <2> QED BY <2>1, <2>2, <2>3, <2>4, <2>5, <2>6, <2>7, <2>8, <2>9 DEF LeadNext
<1> QED BY <1>1, <1>2, PTL DEF LeadSpec

\* However many submissions there are, and however often a command is sent again, fails or
\* takes effect without an answer: an accepted lead is in the list, in the log, or was removed
\* from the list by its cap or by the operator; what is said of its delivery is so; and the
\* list outgrows its cap only by handlers that saw no trim (leadCapture.ts, route.ts).
THEOREM LeadsAreAlwaysKept == LeadSpec => []LeadsAreKept
<1>1. LeadInv => LeadsAreKept
  <2> SUFFICES ASSUME LeadInv PROVE LeadsAreKept OBVIOUS
  <2>1. ASSUME NEW r \in Lead
        PROVE  LeadOk(r, lead[r], call[r], mailed, LeadKept, logged)
    BY DEF LeadInv, EachLead
  <2>2. NoLeadIsLost
    BY <2>1 DEF NoLeadIsLost, Accepted, LeadOk, LeadKept, Deliveries
  <2>3. DOMAIN leads = 1..Len(leads) BY DEF LeadInv, LeadTypes
  <2>4. DeliveryIsHonest
    <3>1. \A i \in DOMAIN leads : leads[i].delivery = lead[leads[i].of].delivery
      BY <2>3 DEF LeadInv, EntriesAgree, Agrees
    <3>2. ASSUME NEW r \in Lead
          PROVE  LET arrived == {c \in BrevoCall : <<r, c>> \in mailed}
                 IN /\ lead[r].delivery = "sent" => arrived # {}
                    /\ Accepted(r) /\ lead[r].delivery = "logged" => arrived = {}
      BY <2>1 DEF LeadOk, Accepted, Deliveries
    <3> QED BY <3>1, <3>2 DEF DeliveryIsHonest
  <2> QED BY <2>2, <2>4 DEF LeadsAreKept, LeadInv
<1> QED BY <1>1, LeadInvHolds, PTL

(***************************************************************************)
(* The ingest.  Of each install it verifies a post knows what a live       *)
(* bearer means for it.  An install's list agrees with the list no cap     *)
(* ever cut, as far as a reader is given it, and is over its cap only      *)
(* before a post's trim.  The hint set has a lifetime, or the post that    *)
(* made it is about to give it one and no time has passed.  What is in     *)
(* the stream was counted, and so was what is about to be.                 *)
(***************************************************************************)
InFlight(x) ==
  /\ x = [pc |-> x.pc, kind |-> x.kind, batch |-> x.batch, bearer |-> x.bearer, todo |-> x.todo,
          authed |-> x.authed, failed |-> x.failed, ever |-> x.ever, always |-> x.always,
          at |-> x.at, sent |-> x.sent]
  /\ x.pc \in {"verify", "run", "ran"}
  /\ \/ x.kind = "drift" /\ x.batch \in DriftBatch
     \/ x.kind = "receipts" /\ x.batch \in ReceiptBatch
  /\ x.at \in Nat

LEMMA ToMoves ==
  ASSUME NEW x, InFlight(x), NEW pc, NEW c, NEW y, y = To(x, pc, c)
  PROVE  y = [pc |-> pc, kind |-> x.kind, batch |-> x.batch, bearer |-> x.bearer, todo |-> x.todo,
              authed |-> x.authed, failed |-> x.failed, ever |-> x.ever, always |-> x.always,
              at |-> c, sent |-> x.sent]
<1>1. PICK u : u = [x EXCEPT !.pc = pc] OBVIOUS
<1>2. PICK v : v = [u EXCEPT !.at = c] OBVIOUS
<1>3. u = [pc |-> pc, kind |-> x.kind, batch |-> x.batch, bearer |-> x.bearer, todo |-> x.todo,
              authed |-> x.authed, failed |-> x.failed, ever |-> x.ever, always |-> x.always,
              at |-> x.at, sent |-> x.sent]
  BY <1>1 DEF InFlight
<1>4. v = [pc |-> pc, kind |-> x.kind, batch |-> x.batch, bearer |-> x.bearer, todo |-> x.todo,
              authed |-> x.authed, failed |-> x.failed, ever |-> x.ever, always |-> x.always,
              at |-> c, sent |-> x.sent]
  BY <1>2, <1>3
<1>5. y = v BY <1>1, <1>2 DEF To
<1> QED BY <1>4, <1>5

LiveTokens == [Install -> Token \cup {NoToken}]

\* A post in flight, with the tokens lv live: what it knows of each install it verifies.
PostOk(x, lv) ==
  x.pc \in {"idle", "done"} \/
    /\ InFlight(x) /\ x.todo \subseteq Install
    /\ x.authed \subseteq x.ever /\ x.always \subseteq x.todo \cup x.authed \cup x.failed
    /\ \A i \in x.todo : (lv[i] = x.bearer => i \in x.ever) /\ (i \in x.always => lv[i] = x.bearer)
    /\ x.pc # "verify" => x.todo = {}
    /\ x.pc = "run" => x.at \in 1..LastOf(x)

PostsOk ==
  /\ live \in LiveTokens /\ post = [p \in Post |-> post[p]]
  /\ \A p \in Post : PostOk(post[p], live)

GoodEntry ==
  {e \in [install : Install, auth : BOOLEAN, ever : BOOLEAN, due : BOOLEAN,
          kind : {"drift", "receipts"}] : (e.auth => e.ever) /\ (e.due => e.auth)}

\* The sequences agree up to n: in the range a reader gets.
Same(a, b, n) ==
  /\ Len(a) = Len(b) \/ (Len(a) >= n /\ Len(b) >= n)
  /\ \A j \in 1..n : j <= Len(a) => a[j] = b[j]

Trims(x, i) == x.pc = "run" /\ x.kind = "receipts" /\ x.at = 4 /\ x.batch.install = i
ListOk(i) ==
  /\ list[i] \in Seq(Receipt) /\ pushed[i] \in Seq(Receipt)
  /\ Same(list[i], pushed[i], ViewCap)
  /\ Len(list[i]) <= ListCap \/ \E p \in Post : Trims(post[p], i)
ListsOk ==
  /\ list = [i \in Install |-> list[i]] /\ pushed = [i \in Install |-> pushed[i]]
  /\ \A i \in Install : ListOk(i)

Expires(x) == x.pc = "run" /\ x.kind = "drift" /\ x.at = 4
HintsOk ==
  /\ now \in Nat /\ hintsUntil \in Nat /\ hintsSince \in Nat /\ hintsSince <= now
  /\ hints = {} => hintsUntil = 0
  /\ hintsUntil # 0 => hintsUntil <= hintsSince + HintTtl
  /\ hints # {} /\ hintsUntil = 0 => hintsSince = now /\ \E p \in Post : Expires(post[p])

\* The signals that were counted and are not in the stream yet.
Unqueued(x) == IF x.pc = "run" /\ x.kind = "drift" /\ x.at = 2 THEN 1..Len(x.batch) ELSE {}
Pending(f) == {m \in Post \X Nat : m[2] \in Unqueued(f[m[1]])}
CountOk ==
  /\ counted \in Nat /\ enqueued \in Nat /\ IsFiniteSet(Pending(post))
  /\ enqueued + Cardinality(Pending(post)) <= counted

IngestInv == PostsOk /\ stream \in Seq(GoodEntry) /\ ListsOk /\ HintsOk /\ CountOk

(***************************************************************************)
(* The steps of a post that leave the store alone.  Between two commands   *)
(* of its pipeline it takes none of them.                                  *)
(***************************************************************************)
Mid(x) == x.pc = "run" /\ x.at # 1
Calm(x, y) == Mid(x) \/ Mid(y) => y = x

LEMMA CalmKeeps ==
  ASSUME IngestInv, UNCHANGED <<redis, now, history>>, PostsOk',
         NEW f, f = post', \A p \in Post : Calm(post[p], f[p])
  PROVE  IngestInv'
<1>1. UNCHANGED <<stream, counted, installs, list, hints, hintsUntil, now, pushed, hintsSince, enqueued>>
  BY DEF redis, history
<1>2. \A p \in Post : /\ \A i \in Install : Trims(post[p], i) => Trims(f[p], i)
                      /\ Expires(post[p]) => Expires(f[p])
                      /\ Unqueued(f[p]) = Unqueued(post[p])
  <2> SUFFICES ASSUME NEW p \in Post
               PROVE  /\ \A i \in Install : Trims(post[p], i) => Trims(f[p], i)
                      /\ Expires(post[p]) => Expires(f[p])
                      /\ Unqueued(f[p]) = Unqueued(post[p])
    OBVIOUS
  <2>1. PICK x, y : x = post[p] /\ y = f[p] OBVIOUS
  <2>2. Calm(x, y) BY <2>1
  <2>3. CASE y = x BY <2>1, <2>3
  <2>4. CASE ~Mid(x) /\ ~Mid(y)
    <3>1. ~Expires(x) /\ \A i \in Install : ~Trims(x, i) BY <2>4 DEF Mid, Expires, Trims
    <3>2. Unqueued(x) = {} /\ Unqueued(y) = {} BY <2>4 DEF Mid, Unqueued
    <3> QED BY <2>1, <3>1, <3>2
  <2> QED BY <2>2, <2>3, <2>4 DEF Calm
<1>3. ListsOk' BY <1>1, <1>2 DEF IngestInv, ListsOk, ListOk
<1>4. HintsOk' BY <1>1, <1>2 DEF IngestInv, HintsOk
<1>5. Pending(f) = Pending(post) BY <1>2 DEF Pending
<1>6. CountOk'
  <2>1. PICK s : s = Pending(post) OBVIOUS
  <2>2. Pending(post)' = s BY <1>5, <2>1 DEF Pending
  <2> QED BY <1>1, <2>1, <2>2 DEF IngestInv, CountOk
<1> QED BY <1>1, <1>3, <1>4, <1>6 DEF IngestInv

\* One post moves, with the installs' tokens as they were.
LEMMA OnePost ==
  ASSUME PostsOk, NEW p \in Post, NEW y, post' = [post EXCEPT ![p] = y], UNCHANGED live,
         PostOk(y, live), NEW f, f = post'
  PROVE  PostsOk' /\ f[p] = y /\ \A q \in Post \ {p} : f[q] = post[q]
<1>1. f[p] = y /\ \A q \in Post \ {p} : f[q] = post[q] BY DEF PostsOk
<1>2. PICK lv : lv = live OBVIOUS
<1>3. \A q \in Post : PostOk(f[q], lv)
  <2> SUFFICES ASSUME NEW q \in Post PROVE PostOk(f[q], lv) OBVIOUS
  <2>1. CASE q = p BY <1>1, <1>2, <2>1
  <2>2. CASE q # p
    <3>1. PICK z : z = post[q] OBVIOUS
    <3>2. PostOk(z, lv) BY <1>2, <3>1 DEF PostsOk
    <3> QED BY <1>1, <2>2, <3>1, <3>2
  <2> QED BY <2>1, <2>2
<1>4. post' = [q \in Post |-> post'[q]] BY DEF PostsOk
<1> QED BY <1>1, <1>2, <1>3, <1>4 DEF PostsOk

\* So a post that moves calmly keeps all.
LEMMA CalmPost ==
  ASSUME IngestInv, NEW p \in Post, NEW y, post' = [post EXCEPT ![p] = y],
         UNCHANGED <<live, redis, now, changes, history>>,
         PostOk(y, live), ~Mid(post[p]), ~Mid(y)
  PROVE  IngestInv'
<1>1. PICK f : f = post' OBVIOUS
<1>2. PostsOk' /\ f[p] = y /\ \A q \in Post \ {p} : f[q] = post[q]
  <2>1. PostsOk BY DEF IngestInv
  <2> QED BY <1>1, <2>1, OnePost
<1>3. \A q \in Post : Calm(post[q], f[q]) BY <1>2 DEF Calm
<1> QED BY <1>1, <1>2, <1>3, CalmKeeps

LEMMA InstallsOfBatch ==
  ASSUME NEW kind \in {"drift", "receipts"}, NEW batch,
         kind = "drift" => batch \in DriftBatch, kind = "receipts" => batch \in ReceiptBatch,
         NEW s, s = InstallsOf(kind, batch)
  PROVE  s \in Seq(Install)
<1>1. CASE kind = "drift"
  <2>1. batch \in Seq(Signal) BY <1>1, IngestConstants
  <2>2. Len(batch) \in Nat /\ DOMAIN batch = 1..Len(batch) /\ \A n \in 1..Len(batch) : batch[n] \in Signal
    BY <2>1
  <2>3. \A n \in 1..Len(batch) : batch[n].install \in Install BY <2>2 DEF Signal
  <2>4. s = [n \in 1..Len(batch) |-> batch[n].install] BY <1>1, <2>2 DEF InstallsOf
  <2> QED BY <2>2, <2>3, <2>4
<1>2. CASE kind = "receipts"
  <2>1. batch.install \in Install BY <1>2, IngestConstants
  <2>2. s = <<batch.install>> BY <1>2 DEF InstallsOf
  <2> QED BY <2>1, <2>2
<1> QED BY <1>1, <1>2

LEMMA ArriveKeeps ==
  ASSUME IngestInv, NEW p \in Post, NEW kind \in {"drift", "receipts"}, NEW batch, NEW bearer,
         kind = "drift" => batch \in DriftBatch, kind = "receipts" => batch \in ReceiptBatch,
         Arrive(p, kind, batch, bearer)
  PROVE  IngestInv'
<1>1. PICK s : s = InstallsOf(kind, batch) OBVIOUS
<1>2. PICK todo : todo = IF bearer = NoToken THEN {} ELSE ToVerify(s) OBVIOUS
<1>3. PICK holding : holding = {i \in todo : live[i] = bearer} OBVIOUS
<1>4. PICK y : y = [pc |-> "verify", kind |-> kind, batch |-> batch, bearer |-> bearer,
           todo |-> todo, authed |-> {}, failed |-> {}, ever |-> holding, always |-> holding,
           at |-> 0, sent |-> 0]
  OBVIOUS
<1>5. post' = [post EXCEPT ![p] = y] BY <1>1, <1>2, <1>3, <1>4 DEF Arrive
<1>6. post[p].pc = "idle" /\ UNCHANGED <<live, redis, now, changes, history>> BY DEF Arrive
<1>7. todo \subseteq Install
  <2>1. s \in Seq(Install) BY <1>1, InstallsOfBatch
  <2>2. DOMAIN s = 1..Len(s) /\ \A n \in 1..Len(s) : s[n] \in Install BY <2>1
  <2> QED BY <1>2, <2>2 DEF ToVerify
<1>8. InFlight(y) BY <1>4 DEF InFlight
<1>9. PICK lv : lv = live OBVIOUS
<1>10. PostOk(y, lv) BY <1>3, <1>4, <1>7, <1>8, <1>9 DEF PostOk
<1>11. ~Mid(post[p]) /\ ~Mid(y) BY <1>4, <1>6 DEF Mid
<1> QED BY <1>5, <1>6, <1>9, <1>10, <1>11, CalmPost

LEMMA VerifyKeeps ==
  ASSUME IngestInv, NEW p \in Post, NEW i \in Install, Verify(p, i)
  PROVE  IngestInv'
<1>1. PICK x, lv : x = post[p] /\ lv = live OBVIOUS
<1>2. x.pc = "verify" /\ i \in x.todo /\ UNCHANGED <<live, redis, now, changes, history>>
  BY <1>1 DEF Verify
<1>3. PostOk(x, lv) BY <1>1 DEF IngestInv, PostsOk
<1>4. InFlight(x) BY <1>2, <1>3 DEF PostOk
<1>5. PICK todo : todo = x.todo \ {i} OBVIOUS
<1>6. PICK u : u = [x EXCEPT !.todo = x.todo \ {i}] OBVIOUS
<1>7. u = [pc |-> x.pc, kind |-> x.kind, batch |-> x.batch, bearer |-> x.bearer, todo |-> todo,
           authed |-> x.authed, failed |-> x.failed, ever |-> x.ever, always |-> x.always,
           at |-> x.at, sent |-> x.sent]
  BY <1>4, <1>5, <1>6 DEF InFlight
<1>8. PICK a, b : /\ a = [u EXCEPT !.authed = u.authed \cup {i}]
                  /\ b = [u EXCEPT !.failed = u.failed \cup {i}]
  OBVIOUS
<1>9. a = [pc |-> x.pc, kind |-> x.kind, batch |-> x.batch, bearer |-> x.bearer, todo |-> todo,
           authed |-> x.authed \cup {i}, failed |-> x.failed, ever |-> x.ever, always |-> x.always,
           at |-> x.at, sent |-> x.sent]
  BY <1>7, <1>8
<1>10. b = [pc |-> x.pc, kind |-> x.kind, batch |-> x.batch, bearer |-> x.bearer, todo |-> todo,
            authed |-> x.authed, failed |-> x.failed \cup {i}, ever |-> x.ever, always |-> x.always,
            at |-> x.at, sent |-> x.sent]
  BY <1>7, <1>8
<1>11. ASSUME NEW y, NEW authed, NEW failed, post' = [post EXCEPT ![p] = y],
              y = [pc |-> x.pc, kind |-> x.kind, batch |-> x.batch, bearer |-> x.bearer, todo |-> todo,
                   authed |-> authed, failed |-> failed, ever |-> x.ever, always |-> x.always,
                   at |-> x.at, sent |-> x.sent],
              authed \subseteq x.ever, x.always \subseteq todo \cup authed \cup failed
       PROVE  IngestInv'
  <2>1. InFlight(y) BY <1>4, <1>11 DEF InFlight
  <2>2. PostOk(y, lv) BY <1>2, <1>3, <1>5, <1>11, <2>1 DEF PostOk
  <2>3. ~Mid(post[p]) /\ ~Mid(y) BY <1>1, <1>2, <1>11 DEF Mid
  <2> QED BY <1>1, <1>2, <1>11, <2>2, <2>3, CalmPost
<1>12. CASE lv[i] = x.bearer /\ post' = [post EXCEPT ![p] = a]
  <2>1. x.authed \cup {i} \subseteq x.ever /\ x.always \subseteq todo \cup (x.authed \cup {i}) \cup x.failed
    BY <1>2, <1>3, <1>5, <1>12 DEF PostOk
  <2> QED BY <1>9, <1>11, <1>12, <2>1
<1>13. CASE lv[i] # x.bearer /\ post' = [post EXCEPT ![p] = u]
  <2>1. x.authed \subseteq x.ever /\ x.always \subseteq todo \cup x.authed \cup x.failed
    BY <1>2, <1>3, <1>5, <1>13 DEF PostOk
  <2> QED BY <1>7, <1>11, <1>13, <2>1
<1>14. CASE post' = [post EXCEPT ![p] = b]
  <2>1. x.authed \subseteq x.ever /\ x.always \subseteq todo \cup x.authed \cup (x.failed \cup {i})
    BY <1>2, <1>3, <1>5 DEF PostOk
  <2> QED BY <1>10, <1>11, <1>14, <2>1
<1> QED BY <1>1, <1>6, <1>8, <1>12, <1>13, <1>14 DEF Verify

LEMMA CommandsOf ==
  ASSUME NEW x, InFlight(x)
  PROVE  LastOf(x) \in {2, 4} /\ (x.kind = "receipts" => LastOf(x) = 4)
         /\ (x.kind = "drift" => (LastOf(x) = 2 <=> Drifted(x) = {}))
BY DEF InFlight, LastOf, Commands

LEMMA SendKeeps == ASSUME IngestInv, NEW p \in Post, Send(p) PROVE IngestInv'
<1>1. PICK x, lv : x = post[p] /\ lv = live OBVIOUS
<1>2. x.pc = "verify" /\ x.todo = {} /\ UNCHANGED <<live, redis, now, changes, history>>
  BY <1>1 DEF Send
<1>3. PostOk(x, lv) BY <1>1 DEF IngestInv, PostsOk
<1>4. InFlight(x) BY <1>2, <1>3 DEF PostOk
<1>5. PICK y : y = To(x, "run", 1) OBVIOUS
<1>6. y = [pc |-> "run", kind |-> x.kind, batch |-> x.batch, bearer |-> x.bearer, todo |-> x.todo,
           authed |-> x.authed, failed |-> x.failed, ever |-> x.ever, always |-> x.always,
           at |-> 1, sent |-> x.sent]
  BY <1>4, <1>5, ToMoves
<1>7. InFlight(y) BY <1>4, <1>6 DEF InFlight
<1>8. 1 \in 1..LastOf(y) BY <1>7, CommandsOf
<1>9. PostOk(y, lv) BY <1>2, <1>3, <1>6, <1>7, <1>8 DEF PostOk
<1>10. post' = [post EXCEPT ![p] = y] BY <1>1, <1>5 DEF Send
<1>11. ~Mid(post[p]) /\ ~Mid(y) BY <1>1, <1>2, <1>6 DEF Mid
<1> QED BY <1>1, <1>2, <1>9, <1>10, <1>11, CalmPost

LEMMA SettleKeeps == ASSUME IngestInv, NEW p \in Post, Settle(p) PROVE IngestInv'
<1>1. PICK x, y : x = post[p] /\ y = [pc |-> "done", kind |-> x.kind] OBVIOUS
<1>2. /\ x.pc = "ran" \/ (x.pc = "run" /\ x.at = 1)
      /\ post' = [post EXCEPT ![p] = y] /\ UNCHANGED <<live, redis, now, changes, history>>
  BY <1>1 DEF Settle
<1>3. PostOk(y, live) /\ ~Mid(y) BY <1>1 DEF PostOk, Mid
<1>4. ~Mid(post[p]) BY <1>1, <1>2 DEF Mid
<1> QED BY <1>2, <1>3, <1>4, CalmPost

LEMMA ResendKeeps == ASSUME IngestInv, NEW p \in Post, Resend(p) PROVE IngestInv'
<1>1. PICK x, lv : x = post[p] /\ lv = live OBVIOUS
<1>2. /\ x.pc = "ran" \/ (x.pc = "run" /\ x.at = 1)
      /\ UNCHANGED <<live, redis, now, changes, history>>
  BY <1>1 DEF Resend
<1>3. PostOk(x, lv) BY <1>1 DEF IngestInv, PostsOk
<1>4. InFlight(x) /\ x.todo = {} BY <1>2, <1>3 DEF PostOk
<1>5. PICK u : u = To(x, "run", 1) OBVIOUS
<1>6. u = [pc |-> "run", kind |-> x.kind, batch |-> x.batch, bearer |-> x.bearer, todo |-> x.todo,
           authed |-> x.authed, failed |-> x.failed, ever |-> x.ever, always |-> x.always,
           at |-> 1, sent |-> x.sent]
  BY <1>4, <1>5, ToMoves
<1>7. PICK y : y = [u EXCEPT !.sent = u.sent + 1] OBVIOUS
<1>8. y = [pc |-> "run", kind |-> x.kind, batch |-> x.batch, bearer |-> x.bearer, todo |-> x.todo,
           authed |-> x.authed, failed |-> x.failed, ever |-> x.ever, always |-> x.always,
           at |-> 1, sent |-> u.sent + 1]
  BY <1>6, <1>7
<1>9. InFlight(y) BY <1>4, <1>8 DEF InFlight
<1>10. 1 \in 1..LastOf(y) BY <1>9, CommandsOf
<1>11. PostOk(y, lv) BY <1>2, <1>3, <1>4, <1>8, <1>9, <1>10 DEF PostOk
<1>12. post' = [post EXCEPT ![p] = y] BY <1>1, <1>5, <1>7 DEF Resend
<1>13. ~Mid(post[p]) /\ ~Mid(y) BY <1>1, <1>2, <1>8 DEF Mid
<1> QED BY <1>1, <1>2, <1>11, <1>12, <1>13, CalmPost

LEMMA IdentityMovesKeeps ==
  ASSUME IngestInv, NEW i \in Install, NEW t \in Token \cup {NoToken}, IdentityMoves(i, t)
  PROVE  IngestInv'
<1>1. /\ live' = [live EXCEPT ![i] = t] /\ UNCHANGED <<redis, now, history>>
      /\ post' = [p \in Post |->
           IF post[p].pc # "verify" \/ i \notin post[p].todo THEN post[p]
           ELSE [post[p] EXCEPT !.ever = IF t = post[p].bearer THEN post[p].ever \cup {i} ELSE post[p].ever,
                                !.always = post[p].always \ {i}]]
  BY DEF IdentityMoves
<1>2. PICK lv, new : lv = live /\ new = live' OBVIOUS
<1>3. lv \in LiveTokens /\ new \in LiveTokens BY <1>1, <1>2 DEF IngestInv, PostsOk, LiveTokens
<1>4. new[i] = t /\ \A j \in Install \ {i} : new[j] = lv[j] BY <1>1, <1>2, <1>3 DEF LiveTokens
<1>5. PICK f : f = post' OBVIOUS
<1>6. ASSUME NEW p \in Post PROVE PostOk(f[p], new) /\ Calm(post[p], f[p])
  <2>1. PICK x : x = post[p] OBVIOUS
  <2>2. PostOk(x, lv) BY <1>2, <2>1 DEF IngestInv, PostsOk
  <2>3. CASE x.pc # "verify" \/ i \notin x.todo
    <3>1. f[p] = x BY <1>1, <1>5, <2>1, <2>3
    <3>2. x.pc \in {"idle", "done"} \/ \A j \in x.todo : new[j] = lv[j]
      BY <1>4, <2>2, <2>3 DEF PostOk
    <3>3. PostOk(x, new) BY <2>2, <3>2 DEF PostOk
    <3> QED BY <2>1, <3>1, <3>3 DEF Calm
  <2>4. CASE x.pc = "verify" /\ i \in x.todo
    <3>1. InFlight(x) BY <2>2, <2>4 DEF PostOk
    <3>2. PICK ever, always : /\ ever = IF t = x.bearer THEN x.ever \cup {i} ELSE x.ever
                              /\ always = x.always \ {i}
      OBVIOUS
    <3>3. PICK u : u = [x EXCEPT !.ever = ever] OBVIOUS
    <3>4. u = [pc |-> x.pc, kind |-> x.kind, batch |-> x.batch, bearer |-> x.bearer, todo |-> x.todo,
               authed |-> x.authed, failed |-> x.failed, ever |-> ever, always |-> x.always,
               at |-> x.at, sent |-> x.sent]
      BY <3>1, <3>3 DEF InFlight
    <3>5. PICK y : y = [u EXCEPT !.always = always] OBVIOUS
    <3>6. y = [pc |-> x.pc, kind |-> x.kind, batch |-> x.batch, bearer |-> x.bearer, todo |-> x.todo,
               authed |-> x.authed, failed |-> x.failed, ever |-> ever, always |-> always,
               at |-> x.at, sent |-> x.sent]
      BY <3>4, <3>5
    <3>7. y = [x EXCEPT !.ever = ever, !.always = always] BY <3>3, <3>5
    <3>8. f[p] = y BY <1>1, <1>5, <2>1, <2>4, <3>2, <3>7
    <3>9. InFlight(y) BY <3>1, <3>6 DEF InFlight
    <3>10. PostOk(y, new)
      <4>1. y.authed \subseteq y.ever /\ y.always \subseteq y.todo \cup y.authed \cup y.failed
        BY <2>2, <2>4, <3>2, <3>6 DEF PostOk
      <4>2. \A j \in x.todo : (new[j] = x.bearer => j \in ever) /\ (j \in always => new[j] = x.bearer)
        BY <1>4, <2>2, <2>4, <3>2 DEF PostOk
      <4> QED BY <2>2, <2>4, <3>6, <3>9, <4>1, <4>2 DEF PostOk
    <3>11. ~Mid(x) /\ ~Mid(y) BY <2>4, <3>6 DEF Mid
    <3> QED BY <2>1, <3>8, <3>10, <3>11 DEF Calm
  <2> QED BY <2>3, <2>4
<1>7. PostsOk' BY <1>1, <1>2, <1>3, <1>5, <1>6 DEF PostsOk
<1>8. \A p \in Post : Calm(post[p], f[p]) BY <1>6
<1> QED BY <1>1, <1>5, <1>7, <1>8, CalmKeeps

(***************************************************************************)
(* A command of a pipeline: x is the post before it and y after it.        *)
(***************************************************************************)
Executes(x, y) ==
  /\ InFlight(x) /\ x.pc = "run" /\ x.at \in 1..LastOf(x)
  /\ y.kind = x.kind /\ y.batch = x.batch /\ y.at = x.at + 1
  /\ y.pc = IF x.at = LastOf(x) THEN "ran" ELSE "run"

LEMMA ExecMoves ==
  ASSUME IngestInv, NEW p \in Post, Exec(p), NEW x, x = post[p]
  PROVE  \E y : post' = [post EXCEPT ![p] = y] /\ PostOk(y, live) /\ Executes(x, y)
<1>1. PICK lv : lv = live OBVIOUS
<1>2. x.pc = "run" BY DEF Exec
<1>3. PostOk(x, lv) BY <1>1 DEF IngestInv, PostsOk
<1>4. InFlight(x) /\ x.at \in 1..LastOf(x) /\ x.todo = {} BY <1>2, <1>3 DEF PostOk
<1>5. PICK pc, c : pc = (IF x.at = LastOf(x) THEN "ran" ELSE "run") /\ c = x.at + 1 OBVIOUS
<1>6. PICK y : y = To(x, pc, c) OBVIOUS
<1>7. y = [pc |-> pc, kind |-> x.kind, batch |-> x.batch, bearer |-> x.bearer, todo |-> x.todo,
           authed |-> x.authed, failed |-> x.failed, ever |-> x.ever, always |-> x.always,
           at |-> c, sent |-> x.sent]
  BY <1>4, <1>6, ToMoves
<1>8. InFlight(y) BY <1>4, <1>5, <1>7 DEF InFlight
<1>9. LastOf(y) = LastOf(x) BY <1>7 DEF LastOf, Drifted
<1>10. pc = "run" => c \in 1..LastOf(y)
  <2>1. LastOf(x) \in {2, 4} BY <1>4, CommandsOf
  <2> QED BY <1>4, <1>5, <1>9, <2>1
<1>11. PostOk(y, lv) BY <1>2, <1>3, <1>4, <1>5, <1>7, <1>8, <1>10 DEF PostOk
<1>12. post' = [post EXCEPT ![p] = y] BY <1>5, <1>6 DEF Exec
<1>13. Executes(x, y) BY <1>2, <1>4, <1>5, <1>7 DEF Executes
<1> QED BY <1>1, <1>11, <1>12, <1>13

LEMMA ExecRuns ==
  ASSUME NEW p \in Post, Exec(p), NEW x, x = post[p], InFlight(x), x.at \in 1..4
  PROVE  \/ x.kind = "drift" /\ x.at = 1 /\ Count(x)
         \/ x.kind = "drift" /\ x.at = 2 /\ Enqueue(x)
         \/ x.kind = "drift" /\ x.at = 3 /\ Hint(x)
         \/ x.kind = "drift" /\ x.at = 4 /\ ExpireHints
         \/ x.kind = "receipts" /\ x.at = 1 /\ FoldInstall(x)
         \/ x.kind = "receipts" /\ x.at = 2 /\ Enqueue(x)
         \/ x.kind = "receipts" /\ x.at = 3 /\ Push(x)
         \/ x.kind = "receipts" /\ x.at = 4 /\ Trim(x)
<1>1. Run(x, Commands(x.kind)[x.at]) BY DEF Exec
<1>2. x.kind \in {"drift", "receipts"} BY DEF InFlight
<1>3. PICK c : c = Commands(x.kind)[x.at] OBVIOUS
<1>4. CASE x.kind = "drift"
  <2>1. /\ x.at = 1 => c = "count"
        /\ x.at = 2 => c = "enqueue"
        /\ x.at = 3 => c = "hint"
        /\ x.at = 4 => c = "hintTtl"
    BY <1>3, <1>4 DEF Commands
  <2> QED BY <1>1, <1>3, <1>4, <2>1 DEF Run
<1>5. CASE x.kind = "receipts"
  <2>1. /\ x.at = 1 => c = "installs"
        /\ x.at = 2 => c = "enqueue"
        /\ x.at = 3 => c = "push"
        /\ x.at = 4 => c = "trim"
    BY <1>3, <1>5 DEF Commands
  <2> QED BY <1>1, <1>3, <1>5, <2>1 DEF Run
<1> QED BY <1>2, <1>4, <1>5

LEMMA EntriesAreGood ==
  ASSUME NEW x, NEW lv, PostOk(x, lv), x.pc = "run"
  PROVE  Entries(x) \in Seq(GoodEntry)
<1>1. /\ InFlight(x) /\ x.authed \subseteq x.ever /\ x.always \subseteq x.authed \cup x.failed
      /\ x.kind \in {"drift", "receipts"}
  BY DEF PostOk, InFlight
<1>2. ASSUME NEW i \in Install PROVE EntryOf(x, i) \in GoodEntry
  <2>1. PICK a, e, d : a = (i \in x.authed) /\ e = (i \in x.ever) /\ d = (i \in x.always \ x.failed)
    OBVIOUS
  <2>2. (i \in x.authed => i \in x.ever) /\ (i \in x.always \ x.failed => i \in x.authed) BY <1>1
  <2>3. a \in BOOLEAN BY <2>1
  <2>4. e \in BOOLEAN BY <2>1
  <2>5. d \in BOOLEAN BY <2>1
  <2>6. a => e BY <2>1, <2>2
  <2>7. d => a BY <2>1, <2>2
  <2>8. EntryOf(x, i) = [install |-> i, auth |-> a, ever |-> e, due |-> d, kind |-> x.kind]
    BY <2>1 DEF EntryOf, Stamp
  <2> QED BY <1>1, <2>3, <2>4, <2>5, <2>6, <2>7, <2>8 DEF GoodEntry
<1>3. CASE x.kind = "drift"
  <2>1. x.batch \in Seq(Signal) BY <1>1, <1>3, IngestConstants DEF InFlight
  <2>2. Len(x.batch) \in Nat /\ \A n \in 1..Len(x.batch) : x.batch[n] \in Signal BY <2>1
  <2>3. \A n \in 1..Len(x.batch) : EntryOf(x, x.batch[n].install) \in GoodEntry
    BY <1>2, <2>2 DEF Signal
  <2> QED BY <1>3, <2>2, <2>3 DEF Entries
<1>4. CASE x.kind = "receipts"
  <2>1. x.batch.install \in Install /\ x.batch.receipts \in Seq(Receipt)
    BY <1>1, <1>4, IngestConstants DEF InFlight
  <2>2. Len(x.batch.receipts) \in Nat /\ EntryOf(x, x.batch.install) \in GoodEntry BY <1>2, <2>1
  <2> QED BY <1>4, <2>2 DEF Entries
<1> QED BY <1>1, <1>3, <1>4

LEMMA NewestOf ==
  ASSUME NEW S, NEW s \in Seq(S), NEW n \in Nat
  PROVE  Newest(s, n) \in Seq(S)
<1>1. PICK m : m = IF n < Len(s) THEN Len(s) - n + 1 ELSE 1 OBVIOUS
<1>2. Len(s) \in Nat /\ m \in Int /\ m >= 1 BY <1>1
<1>3. \A i \in m..Len(s) : s[i] \in S BY <1>2
<1>4. SubSeq(s, m, Len(s)) \in Seq(S) BY <1>2, <1>3, SubSeqProperties
<1> QED BY <1>1, <1>4 DEF Newest

LEMMA StreamGrows ==
  ASSUME IngestInv, NEW x, NEW lv, PostOk(x, lv), x.pc = "run", Enqueue(x)
  PROVE  stream' \in Seq(GoodEntry)
<1>1. stream \in Seq(GoodEntry) /\ Entries(x) \in Seq(GoodEntry) BY EntriesAreGood DEF IngestInv
<1>2. PICK s, t, u : s = stream /\ t = Entries(x) /\ u = s \o t OBVIOUS
<1>3. u \in Seq(GoodEntry) BY <1>1, <1>2
<1>4. Newest(u, StreamCap) \in Seq(GoodEntry) BY <1>3, IngestConstants, NewestOf
<1> QED BY <1>2, <1>4 DEF Enqueue

\* What a push puts in front, and what a trim takes off past the reader's range, leaves the
\* two sequences alike.
LEMMA SamePushed ==
  ASSUME NEW S, NEW r \in Seq(S), NEW a \in Seq(S), NEW b \in Seq(S), NEW n \in Nat, Same(a, b, n),
         NEW c, NEW d, c = r \o a, d = r \o b
  PROVE  c \in Seq(S) /\ d \in Seq(S) /\ Same(c, d, n)
<1>1. /\ r \o a \in Seq(S) /\ Len(r \o a) = Len(r) + Len(a)
      /\ \A i \in 1 .. Len(r) + Len(a) : (r \o a)[i] = IF i <= Len(r) THEN r[i] ELSE a[i - Len(r)]
  BY ConcatProperties
<1>2. /\ r \o b \in Seq(S) /\ Len(r \o b) = Len(r) + Len(b)
      /\ \A i \in 1 .. Len(r) + Len(b) : (r \o b)[i] = IF i <= Len(r) THEN r[i] ELSE b[i - Len(r)]
  BY ConcatProperties
<1>3. Len(a) \in Nat /\ Len(b) \in Nat /\ Len(r) \in Nat OBVIOUS
<1>4. Len(c) = Len(d) \/ (Len(c) >= n /\ Len(d) >= n)
  <2>1. Len(c) = Len(r) + Len(a) /\ Len(d) = Len(r) + Len(b) BY <1>1, <1>2
  <2>2. Len(a) = Len(b) \/ (Len(a) >= n /\ Len(b) >= n) BY DEF Same
  <2>3. CASE Len(a) = Len(b) BY <2>1, <2>3
  <2>4. CASE Len(a) >= n /\ Len(b) >= n
    <3>1. ASSUME NEW k \in Nat, NEW l \in Nat, l >= n PROVE k + l >= n BY <3>1
    <3>2. Len(r) + Len(a) >= n /\ Len(r) + Len(b) >= n BY <1>3, <2>4, <3>1
    <3> QED BY <2>1, <3>2
  <2> QED BY <2>2, <2>3, <2>4
<1>5. ASSUME NEW j \in 1..n, j <= Len(c) PROVE c[j] = d[j]
  <2>1. CASE j <= Len(r) BY <1>1, <1>2, <1>3, <2>1
  <2>2. CASE ~(j <= Len(r))
    <3>1. PICK k : k = j - Len(r) OBVIOUS
    <3>2. k \in 1..n /\ k <= Len(a) BY <1>1, <1>3, <1>5, <2>2, <3>1
    <3>3. a[k] = b[k] /\ k <= Len(b) BY <1>3, <3>2 DEF Same
    <3>4. j \in 1..(Len(r) + Len(a)) /\ j \in 1..(Len(r) + Len(b)) BY <1>3, <2>2, <3>1, <3>2, <3>3
    <3>5. c[j] = a[k] BY <1>1, <2>2, <3>1, <3>4
    <3>6. d[j] = b[k] BY <1>2, <2>2, <3>1, <3>4
    <3> QED BY <3>3, <3>5, <3>6
  <2> QED BY <2>1, <2>2
<1> QED BY <1>1, <1>2, <1>4, <1>5 DEF Same

LEMMA SameTrimmed ==
  ASSUME NEW S, NEW a \in Seq(S), NEW b \in Seq(S), NEW n \in Nat, NEW m \in Nat, n <= m,
         Same(a, b, n), NEW c, c = Prefix(a, m)
  PROVE  c \in Seq(S) /\ Len(c) \in Nat /\ Len(c) <= m /\ Same(c, b, n)
<1>1. PICK k : k = IF m < Len(a) THEN m ELSE Len(a) OBVIOUS
<1>2. Len(a) \in Nat /\ Len(b) \in Nat /\ k \in Nat /\ k <= Len(a) /\ k <= m /\ 1 \in Int /\ k \in Int
  BY <1>1
<1>3. \A i \in 1..k : a[i] \in S BY <1>2
<1>4. /\ SubSeq(a, 1, k) \in Seq(S) /\ Len(SubSeq(a, 1, k)) = (IF 1 <= k THEN k - 1 + 1 ELSE 0)
      /\ \A i \in 1 .. k - 1 + 1 : SubSeq(a, 1, k)[i] = a[1 + i - 1]
  BY <1>2, <1>3, SubSeqProperties
<1>5. c = SubSeq(a, 1, k) BY <1>1 DEF Prefix
<1>6. Len(c) = k /\ \A i \in 1..k : c[i] = a[i] BY <1>2, <1>4, <1>5
<1>7. Len(c) = Len(b) \/ (Len(c) >= n /\ Len(b) >= n) BY <1>1, <1>2, <1>6 DEF Same
<1>8. \A j \in 1..n : j <= Len(c) => c[j] = b[j] BY <1>2, <1>6 DEF Same
<1> QED BY <1>2, <1>4, <1>5, <1>6, <1>7, <1>8 DEF Same

\* What a reader gets of two such sequences is the same.
LEMMA SameRead ==
  ASSUME NEW S, NEW a \in Seq(S), NEW b \in Seq(S), NEW n \in Nat, Same(a, b, n)
  PROVE  Prefix(a, n) = Prefix(b, n)
<1>1. PICK k, l : /\ k = (IF n < Len(a) THEN n ELSE Len(a))
                  /\ l = (IF n < Len(b) THEN n ELSE Len(b))
  OBVIOUS
<1>2. Len(a) \in Nat /\ Len(b) \in Nat OBVIOUS
<1>3. k = l /\ k \in Nat /\ k <= Len(a) /\ k <= Len(b) /\ k <= n /\ k \in Int /\ 1 \in Int
  BY <1>1, <1>2 DEF Same
<1>4. (\A i \in 1..k : a[i] \in S) /\ (\A i \in 1..k : b[i] \in S) BY <1>2, <1>3
<1>5. /\ SubSeq(a, 1, k) \in Seq(S) /\ Len(SubSeq(a, 1, k)) = (IF 1 <= k THEN k - 1 + 1 ELSE 0)
      /\ \A i \in 1 .. k - 1 + 1 : SubSeq(a, 1, k)[i] = a[1 + i - 1]
  BY <1>3, <1>4, SubSeqProperties
<1>6. /\ SubSeq(b, 1, k) \in Seq(S) /\ Len(SubSeq(b, 1, k)) = (IF 1 <= k THEN k - 1 + 1 ELSE 0)
      /\ \A i \in 1 .. k - 1 + 1 : SubSeq(b, 1, k)[i] = b[1 + i - 1]
  BY <1>3, <1>4, SubSeqProperties
<1>7. PICK s, t : s = SubSeq(a, 1, k) /\ t = SubSeq(b, 1, k) OBVIOUS
<1>8. s \in Seq(S) /\ t \in Seq(S) /\ Len(s) = Len(t) /\ Len(s) = k BY <1>3, <1>5, <1>6, <1>7
<1>9. \A i \in 1..Len(s) : s[i] = t[i]
  <2> SUFFICES ASSUME NEW i \in 1..k PROVE s[i] = t[i] BY <1>8
  <2>1. s[i] = a[i] /\ t[i] = b[i] BY <1>3, <1>5, <1>6, <1>7
  <2>2. a[i] = b[i] BY <1>2, <1>3 DEF Same
  <2> QED BY <2>1, <2>2
<1>10. s = t BY <1>8, <1>9, SeqEqual
<1> QED BY <1>1, <1>3, <1>7, <1>10 DEF Prefix

LEMMA ListsStay ==
  ASSUME IngestInv, UNCHANGED <<list, pushed>>, NEW p \in Post, NEW f, f = post',
         \A q \in Post \ {p} : f[q] = post[q], \A i \in Install : ~Trims(post[p], i)
  PROVE  ListsOk'
BY DEF IngestInv, ListsOk, ListOk

LEMMA PushKeepsLists ==
  ASSUME IngestInv, NEW p \in Post, NEW x, x = post[p], NEW f, f = post',
         \A q \in Post \ {p} : f[q] = post[q], Executes(x, f[p]),
         x.kind = "receipts", x.at = 3, Push(x)
  PROVE  ListsOk'
<1>1. PICK k : k = x.batch.install OBVIOUS
<1>2. x.batch \in ReceiptBatch BY DEF Executes, InFlight
<1>3. k \in Install /\ x.batch.receipts \in Seq(Receipt) BY <1>1, <1>2, IngestConstants
<1>4. PICK r : r = Reverse(x.batch.receipts) OBVIOUS
<1>5. r \in Seq(Receipt)
  <2>1. PICK s : s = x.batch.receipts OBVIOUS
  <2>2. Len(s) \in Nat /\ \A i \in 1..Len(s) : s[(Len(s) - i) + 1] \in Receipt BY <1>3, <2>1
  <2>3. r = [i \in 1..Len(s) |-> s[(Len(s) - i) + 1]] BY <1>4, <2>1 DEF Reverse
  <2> QED BY <2>2, <2>3
<1>6. ListsOk BY DEF IngestInv
<1>7. PICK a, b : a = list[k] /\ b = pushed[k] OBVIOUS
<1>8. a \in Seq(Receipt) /\ b \in Seq(Receipt) /\ Same(a, b, ViewCap) BY <1>3, <1>6, <1>7 DEF ListsOk, ListOk
<1>9. PICK c, d : c = r \o a /\ d = r \o b OBVIOUS
<1>10. c \in Seq(Receipt) /\ d \in Seq(Receipt) /\ Same(c, d, ViewCap)
  BY <1>5, <1>8, <1>9, IngestConstants, SamePushed
<1>11. list' = [list EXCEPT ![k] = c] /\ pushed' = [pushed EXCEPT ![k] = d]
  BY <1>1, <1>4, <1>7, <1>9 DEF Push, Pushed
<1>12. Trims(f[p], k)
  <2>1. LastOf(x) = 4 BY CommandsOf DEF Executes
  <2> QED BY <1>1, <2>1 DEF Trims, Executes
<1>13. ASSUME NEW i \in Install PROVE ListOk(i)'
  <2>1. CASE i = k
    <3>1. list'[i] = c /\ pushed'[i] = d BY <1>6, <1>11, <2>1 DEF ListsOk
    <3> QED BY <1>10, <1>12, <2>1, <3>1 DEF ListOk
  <2>2. CASE i # k
    <3>1. list'[i] = list[i] /\ pushed'[i] = pushed[i] BY <1>6, <1>11, <2>2 DEF ListsOk
    <3>2. ListOk(i) BY <1>6 DEF ListsOk
    <3>3. ~Trims(post[p], i) BY DEF Trims
    <3>4. (\E q \in Post : Trims(post[q], i)) => \E q \in Post : Trims(f[q], i) BY <3>3
    <3> QED BY <3>1, <3>2, <3>4 DEF ListOk
  <2> QED BY <2>1, <2>2
<1>14. list' = [i \in Install |-> list'[i]] /\ pushed' = [i \in Install |-> pushed'[i]]
  BY <1>6, <1>11 DEF ListsOk
<1> QED BY <1>13, <1>14 DEF ListsOk

LEMMA TrimKeepsLists ==
  ASSUME IngestInv, NEW p \in Post, NEW x, x = post[p], NEW f, f = post',
         \A q \in Post \ {p} : f[q] = post[q], Executes(x, f[p]),
         x.kind = "receipts", x.at = 4, Trim(x)
  PROVE  ListsOk'
<1>1. PICK k : k = x.batch.install OBVIOUS
<1>2. k \in Install BY <1>1, IngestConstants DEF Executes, InFlight
<1>3. ListsOk BY DEF IngestInv
<1>4. PICK a, b : a = list[k] /\ b = pushed[k] OBVIOUS
<1>5. a \in Seq(Receipt) /\ b \in Seq(Receipt) /\ Same(a, b, ViewCap) BY <1>2, <1>3, <1>4 DEF ListsOk, ListOk
<1>6. PICK c : c = Prefix(a, ListCap) OBVIOUS
<1>7. c \in Seq(Receipt) /\ Len(c) <= ListCap /\ Same(c, b, ViewCap)
  BY <1>5, <1>6, IngestConstants, SameTrimmed
<1>8. list' = [list EXCEPT ![k] = c] /\ pushed' = pushed BY <1>1, <1>4, <1>6 DEF Trim, history
<1>9. ASSUME NEW i \in Install PROVE ListOk(i)'
  <2>1. CASE i = k
    <3>1. list'[i] = c /\ pushed'[i] = b BY <1>3, <1>4, <1>8, <2>1 DEF ListsOk
    <3> QED BY <1>5, <1>7, <3>1 DEF ListOk
  <2>2. CASE i # k
    <3>1. list'[i] = list[i] /\ pushed'[i] = pushed[i] BY <1>3, <1>8, <2>2 DEF ListsOk
    <3>2. ListOk(i) BY <1>3 DEF ListsOk
    <3>3. ~Trims(post[p], i) BY <1>1, <2>2 DEF Trims
    <3>4. (\E q \in Post : Trims(post[q], i)) => \E q \in Post : Trims(f[q], i) BY <3>3
    <3> QED BY <3>1, <3>2, <3>4 DEF ListOk
  <2> QED BY <2>1, <2>2
<1>10. list' = [i \in Install |-> list'[i]] /\ pushed' = [i \in Install |-> pushed'[i]]
  BY <1>3, <1>8 DEF ListsOk
<1> QED BY <1>9, <1>10 DEF ListsOk

LEMMA HintsStay ==
  ASSUME IngestInv, UNCHANGED <<hints, hintsUntil, hintsSince, now>>, NEW p \in Post,
         NEW f, f = post', \A q \in Post \ {p} : f[q] = post[q], ~Expires(post[p])
  PROVE  HintsOk'
BY DEF IngestInv, HintsOk

\* The set comes to be with its first hint, or waits for the EXPIRE of another post.
LEMMA HintKeepsHints ==
  ASSUME IngestInv, NEW p \in Post, NEW x, x = post[p], NEW f, f = post', UNCHANGED now,
         \A q \in Post \ {p} : f[q] = post[q], Executes(x, f[p]),
         x.kind = "drift", x.at = 3, Hint(x)
  PROVE  HintsOk'
<1>1. LastOf(x) = 4 BY CommandsOf DEF Executes
<1>2. Expires(f[p]) BY <1>1 DEF Expires, Executes
<1>3. ~Expires(post[p]) BY DEF Expires
<1>4. /\ hints' = hints \cup Drifted(x) /\ UNCHANGED hintsUntil
      /\ hintsSince' = IF hints = {} THEN now ELSE hintsSince
  BY DEF Hint
<1>5. HintsOk BY DEF IngestInv
<1>6. CASE hints = {} BY <1>2, <1>4, <1>5, <1>6, IngestConstants DEF HintsOk
<1>7. CASE hints # {} BY <1>2, <1>4, <1>5, <1>7 DEF HintsOk
<1> QED BY <1>6, <1>7

LEMMA ExpireKeepsHints ==
  ASSUME IngestInv, UNCHANGED now, ExpireHints
  PROVE  HintsOk'
<1>1. /\ hintsUntil' = IF hints # {} /\ hintsUntil = 0 THEN now + HintTtl ELSE hintsUntil
      /\ UNCHANGED <<hints, hintsSince>>
  BY DEF ExpireHints, HintExpiry, history
<1>2. HintsOk BY DEF IngestInv
<1>3. CASE hints # {} /\ hintsUntil = 0
  <2>1. hintsUntil' = hintsSince + HintTtl /\ hintsUntil' \in Nat /\ hintsUntil' # 0
    BY <1>1, <1>2, <1>3, IngestConstants DEF HintsOk
  <2> QED BY <1>1, <1>2, <1>3, <2>1 DEF HintsOk
<1>4. CASE ~(hints # {} /\ hintsUntil = 0) BY <1>1, <1>2, <1>4 DEF HintsOk
<1> QED BY <1>3, <1>4

LEMMA CountStays ==
  ASSUME IngestInv, UNCHANGED <<counted, enqueued>>, NEW p \in Post,
         NEW f, f = post', \A q \in Post \ {p} : f[q] = post[q],
         Unqueued(post[p]) = {}, Unqueued(f[p]) = {}
  PROVE  CountOk'
<1>1. PICK s : s = Pending(post) OBVIOUS
<1>2. \A q \in Post : Unqueued(f[q]) = Unqueued(post[q]) OBVIOUS
<1>3. Pending(f) = s BY <1>1, <1>2 DEF Pending
<1>4. Pending(post)' = s BY <1>3 DEF Pending
<1> QED BY <1>1, <1>4 DEF IngestInv, CountOk

\* A post that has just counted its k signals owes them to the stream, all but the others'.
LEMMA PendingGrows ==
  ASSUME NEW p \in Post, NEW f, NEW g, \A q \in Post \ {p} : f[q] = g[q],
         NEW k \in Nat, Unqueued(g[p]) = {}, Unqueued(f[p]) = 1..k, IsFiniteSet(Pending(g))
  PROVE  /\ IsFiniteSet(Pending(f)) /\ Cardinality(Pending(f)) = Cardinality(Pending(g)) + k
         /\ Cardinality(Pending(g)) \in Nat
<1>1. PICK own, a, b : own = {p} \X (1..k) /\ a = Pending(f) /\ b = Pending(g) OBVIOUS
<1>2. a = b \cup own /\ b \cap own = {}
  <2>1. ASSUME NEW m \in a PROVE m \in b \cup own
    <3>1. m \in Post \X Nat /\ m[2] \in Unqueued(f[m[1]]) BY <1>1 DEF Pending
    <3>2. CASE m[1] = p BY <1>1, <3>1, <3>2
    <3>3. CASE m[1] # p BY <1>1, <3>1, <3>3 DEF Pending
    <3> QED BY <3>2, <3>3
  <2>2. ASSUME NEW m \in b PROVE m \in a /\ m \notin own
    <3>1. m \in Post \X Nat /\ m[2] \in Unqueued(g[m[1]]) BY <1>1 DEF Pending
    <3>2. m[1] # p BY <3>1
    <3> QED BY <1>1, <3>1, <3>2 DEF Pending
  <2>3. ASSUME NEW m \in own PROVE m \in a
    <3>1. m[1] = p /\ m[2] \in 1..k /\ m \in Post \X Nat BY <1>1
    <3> QED BY <1>1, <3>1 DEF Pending
  <2> QED BY <2>1, <2>2, <2>3
<1>3. IsFiniteSet({p}) /\ Cardinality({p}) = 1 BY FS_Singleton
<1>4. IsFiniteSet(1..k) /\ Cardinality(1..k) = k BY FS_Interval
<1>5. IsFiniteSet(own) /\ Cardinality(own) = Cardinality({p}) * Cardinality(1..k)
  BY <1>1, <1>3, <1>4, FS_Product
<1>6. Cardinality(own) = k BY <1>3, <1>4, <1>5
<1>7. IsFiniteSet(b) BY <1>1
<1>8. IsFiniteSet(a) /\ Cardinality(a) = Cardinality(b) + Cardinality(own) - Cardinality(b \cap own)
  BY <1>2, <1>5, <1>7, FS_Union
<1>9. Cardinality(b \cap own) = 0 /\ Cardinality(b) \in Nat
  BY <1>2, <1>7, FS_EmptySet, FS_CardinalityType
<1> QED BY <1>1, <1>6, <1>8, <1>9

LEMMA CountAddsUp ==
  ASSUME IngestInv, NEW p \in Post, NEW x, x = post[p], NEW f, f = post',
         \A q \in Post \ {p} : f[q] = post[q], Executes(x, f[p]),
         x.kind = "drift", x.at = 1, Count(x)
  PROVE  CountOk'
<1>1. PICK g, k : g = post /\ k = Len(x.batch) OBVIOUS
<1>2. k \in Nat
  <2>1. x.batch \in Seq(Signal) BY IngestConstants DEF Executes, InFlight
  <2> QED BY <1>1, <2>1
<1>3. Unqueued(g[p]) = {} BY <1>1 DEF Unqueued
<1>4. Unqueued(f[p]) = 1..k
  <2>1. LastOf(x) # 1 BY CommandsOf DEF Executes
  <2> QED BY <1>1, <2>1 DEF Unqueued, Executes
<1>5. IsFiniteSet(Pending(g)) /\ \A q \in Post \ {p} : f[q] = g[q] BY <1>1 DEF IngestInv, CountOk
<1>6. /\ IsFiniteSet(Pending(f)) /\ Cardinality(Pending(f)) = Cardinality(Pending(g)) + k
      /\ Cardinality(Pending(g)) \in Nat
  BY <1>2, <1>3, <1>4, <1>5, PendingGrows
<1>7. PICK c, d : c = Cardinality(Pending(f)) /\ d = Cardinality(Pending(g)) OBVIOUS
<1>8. c = d + k /\ d \in Nat /\ enqueued + d <= counted /\ counted \in Nat /\ enqueued \in Nat
  BY <1>1, <1>6, <1>7 DEF IngestInv, CountOk
<1>9. counted' = counted + k /\ enqueued' = enqueued BY <1>1 DEF Count, history
<1>10. Pending(post)' = Pending(f) BY DEF Pending
<1>11. enqueued' + c <= counted' /\ counted' \in Nat /\ enqueued' \in Nat BY <1>2, <1>8, <1>9
<1> QED BY <1>6, <1>7, <1>10, <1>11 DEF CountOk

LEMMA EnqueueAddsUp ==
  ASSUME IngestInv, NEW p \in Post, NEW x, x = post[p], NEW f, f = post',
         \A q \in Post \ {p} : f[q] = post[q], Executes(x, f[p]),
         x.kind = "drift", x.at = 2, Enqueue(x)
  PROVE  CountOk'
<1>1. PICK g, k : g = post /\ k = Len(x.batch) OBVIOUS
<1>2. k \in Nat
  <2>1. x.batch \in Seq(Signal) BY IngestConstants DEF Executes, InFlight
  <2> QED BY <1>1, <2>1
<1>3. Unqueued(g[p]) = 1..k BY <1>1 DEF Unqueued, Executes
<1>4. Unqueued(f[p]) = {} BY DEF Unqueued, Executes
<1>5. IsFiniteSet(Pending(f))
  <2>1. Pending(f) \subseteq Pending(g) BY <1>1, <1>4 DEF Pending
  <2> QED BY <1>1, <2>1, FS_Subset DEF IngestInv, CountOk
<1>6. \A q \in Post \ {p} : g[q] = f[q] BY <1>1
<1>7. /\ IsFiniteSet(Pending(g)) /\ Cardinality(Pending(g)) = Cardinality(Pending(f)) + k
      /\ Cardinality(Pending(f)) \in Nat
  BY <1>2, <1>3, <1>4, <1>5, <1>6, PendingGrows
<1>8. PICK c, d : c = Cardinality(Pending(f)) /\ d = Cardinality(Pending(g)) OBVIOUS
<1>9. d = c + k /\ c \in Nat /\ enqueued + d <= counted /\ counted \in Nat /\ enqueued \in Nat
  BY <1>1, <1>7, <1>8 DEF IngestInv, CountOk
<1>10. counted' = counted /\ enqueued' = enqueued + k BY <1>1 DEF Enqueue
<1>11. Pending(post)' = Pending(f) BY DEF Pending
<1>12. enqueued' + c <= counted' /\ counted' \in Nat /\ enqueued' \in Nat BY <1>2, <1>9, <1>10
<1> QED BY <1>5, <1>8, <1>11, <1>12 DEF CountOk

LEMMA ExecKeeps == ASSUME IngestInv, NEW p \in Post, Exec(p) PROVE IngestInv'
<1>1. PICK x, f : x = post[p] /\ f = post' OBVIOUS
<1>2. PICK y : post' = [post EXCEPT ![p] = y] /\ PostOk(y, live) /\ Executes(x, y)
  BY <1>1, ExecMoves
<1>3. UNCHANGED <<live, now>> BY DEF Exec
<1>4. PostsOk' /\ f[p] = y /\ \A q \in Post \ {p} : f[q] = post[q]
  <2>1. PostsOk BY DEF IngestInv
  <2> QED BY <1>1, <1>2, <1>3, <2>1, OnePost
<1>5. /\ Executes(x, f[p]) /\ InFlight(x) /\ x.pc = "run" /\ x.at \in 1..4
      /\ f[p].kind = x.kind /\ f[p].at = x.at + 1
  <2>1. InFlight(x) /\ x.at \in 1..LastOf(x) BY <1>2 DEF Executes
  <2>2. LastOf(x) \in {2, 4} BY <2>1, CommandsOf
  <2> QED BY <1>2, <1>4, <2>1, <2>2 DEF Executes
<1>6. PICK lv : lv = live OBVIOUS
<1>7. PostOk(x, lv) BY <1>1, <1>6 DEF IngestInv, PostsOk
<1>8. stream \in Seq(GoodEntry) BY DEF IngestInv
<1>9. \A i \in Install : x.at # 4 => ~Trims(post[p], i) BY <1>1 DEF Trims
<1>10. x.at # 4 => ~Expires(post[p]) BY <1>1 DEF Expires
<1>11. x.kind = "receipts" \/ x.at \in {3, 4} => Unqueued(post[p]) = {} /\ Unqueued(f[p]) = {}
  BY <1>1, <1>5 DEF Unqueued
<1>12. CASE x.kind = "drift" /\ x.at = 1 /\ Count(x)
  <2>1. UNCHANGED <<stream, list, pushed, hints, hintsUntil, hintsSince, now>>
    BY <1>3, <1>12 DEF Count, history
  <2>2. ListsOk' BY <1>1, <1>4, <1>9, <1>12, <2>1, ListsStay
  <2>3. HintsOk' BY <1>1, <1>4, <1>10, <1>12, <2>1, HintsStay
  <2>4. CountOk' BY <1>1, <1>4, <1>5, <1>12, CountAddsUp
  <2> QED BY <1>4, <1>8, <2>1, <2>2, <2>3, <2>4 DEF IngestInv
<1>13. CASE x.at = 2 /\ Enqueue(x)
  <2>1. UNCHANGED <<counted, list, pushed, hints, hintsUntil, hintsSince, now>>
    BY <1>3, <1>13 DEF Enqueue
  <2>2. ListsOk' BY <1>1, <1>4, <1>9, <1>13, <2>1, ListsStay
  <2>3. HintsOk' BY <1>1, <1>4, <1>10, <1>13, <2>1, HintsStay
  <2>4. CountOk'
    <3>1. CASE x.kind = "drift" BY <1>1, <1>4, <1>5, <1>13, <3>1, EnqueueAddsUp
    <3>2. CASE x.kind = "receipts"
      <4>1. UNCHANGED <<counted, enqueued>> BY <1>13, <2>1, <3>2 DEF Enqueue
      <4> QED BY <1>1, <1>4, <1>11, <3>2, <4>1, CountStays
    <3> QED BY <1>5, <3>1, <3>2 DEF InFlight
  <2>5. stream' \in Seq(GoodEntry) BY <1>5, <1>7, <1>13, StreamGrows
  <2> QED BY <1>4, <2>2, <2>3, <2>4, <2>5 DEF IngestInv
<1>14. CASE x.kind = "drift" /\ x.at = 3 /\ Hint(x)
  <2>1. UNCHANGED <<stream, list, pushed, counted, enqueued>> BY <1>14 DEF Hint
  <2>2. ListsOk' BY <1>1, <1>4, <1>9, <1>14, <2>1, ListsStay
  <2>3. HintsOk' BY <1>1, <1>3, <1>4, <1>5, <1>14, HintKeepsHints
  <2>4. CountOk' BY <1>1, <1>4, <1>11, <1>14, <2>1, CountStays
  <2> QED BY <1>4, <1>8, <2>1, <2>2, <2>3, <2>4 DEF IngestInv
<1>15. CASE x.kind = "drift" /\ x.at = 4 /\ ExpireHints
  <2>1. UNCHANGED <<stream, list, pushed, counted, enqueued>> BY <1>15 DEF ExpireHints, history
  <2>2. \A i \in Install : ~Trims(post[p], i) BY <1>1, <1>15 DEF Trims
  <2>3. ListsOk' BY <1>1, <1>4, <2>1, <2>2, ListsStay
  <2>4. HintsOk' BY <1>3, <1>15, ExpireKeepsHints
  <2>5. CountOk' BY <1>1, <1>4, <1>11, <1>15, <2>1, CountStays
  <2> QED BY <1>4, <1>8, <2>1, <2>3, <2>4, <2>5 DEF IngestInv
<1>16. CASE x.kind = "receipts" /\ x.at = 1 /\ FoldInstall(x)
  <2>1. UNCHANGED <<stream, list, pushed, counted, enqueued, hints, hintsUntil, hintsSince, now>>
    BY <1>3, <1>16 DEF FoldInstall, history
  <2>2. ListsOk' BY <1>1, <1>4, <1>9, <1>16, <2>1, ListsStay
  <2>3. HintsOk' BY <1>1, <1>4, <1>10, <1>16, <2>1, HintsStay
  <2>4. CountOk' BY <1>1, <1>4, <1>11, <1>16, <2>1, CountStays
  <2> QED BY <1>4, <1>8, <2>1, <2>2, <2>3, <2>4 DEF IngestInv
<1>17. CASE x.kind = "receipts" /\ x.at = 3 /\ Push(x)
  <2>1. UNCHANGED <<stream, counted, enqueued, hints, hintsUntil, hintsSince, now>>
    BY <1>3, <1>17 DEF Push
  <2>2. ListsOk' BY <1>1, <1>4, <1>5, <1>17, PushKeepsLists
  <2>3. HintsOk' BY <1>1, <1>4, <1>10, <1>17, <2>1, HintsStay
  <2>4. CountOk' BY <1>1, <1>4, <1>11, <1>17, <2>1, CountStays
  <2> QED BY <1>4, <1>8, <2>1, <2>2, <2>3, <2>4 DEF IngestInv
<1>18. CASE x.kind = "receipts" /\ x.at = 4 /\ Trim(x)
  <2>1. UNCHANGED <<stream, counted, enqueued, hints, hintsUntil, hintsSince, now>>
    BY <1>3, <1>18 DEF Trim, history
  <2>2. ListsOk' BY <1>1, <1>4, <1>5, <1>18, TrimKeepsLists
  <2>3. ~Expires(post[p]) BY <1>1, <1>18 DEF Expires
  <2>4. HintsOk' BY <1>1, <1>4, <2>1, <2>3, HintsStay
  <2>5. CountOk' BY <1>1, <1>4, <1>11, <1>18, <2>1, CountStays
  <2> QED BY <1>4, <1>8, <2>1, <2>2, <2>4, <2>5 DEF IngestInv
<1> QED BY <1>1, <1>5, <1>12, <1>13, <1>14, <1>15, <1>16, <1>17, <1>18, ExecRuns

(***************************************************************************)
(* The worker and the clock.                                               *)
(***************************************************************************)
LEMMA StoreStays ==
  ASSUME IngestInv, UNCHANGED <<live, stream, counted, list, post, changes, history>>, HintsOk'
  PROVE  IngestInv'
<1>1. UNCHANGED <<pushed, enqueued>> BY DEF history
<1>2. PostsOk' /\ stream' \in Seq(GoodEntry) BY DEF IngestInv, PostsOk
<1>3. ListsOk' BY <1>1 DEF IngestInv, ListsOk, ListOk
<1>4. CountOk' BY <1>1 DEF IngestInv, CountOk, Pending
<1> QED BY <1>2, <1>3, <1>4 DEF IngestInv

LEMMA WorkerTakesKeeps == ASSUME IngestInv, NEW t \in Tool, WorkerTakes(t) PROVE IngestInv'
<1>1. HintsOk BY DEF IngestInv
<1>2. /\ t \in hints /\ hints' = hints \ {t}
      /\ hintsUntil' = IF hints = {t} THEN 0 ELSE hintsUntil
      /\ UNCHANGED <<live, stream, counted, list, post, now, changes, history>>
  BY DEF WorkerTakes
<1>3. UNCHANGED hintsSince BY <1>2 DEF history
<1>4. CASE hints = {t} BY <1>1, <1>2, <1>3, <1>4, IngestConstants, StoreStays DEF HintsOk
<1>5. CASE hints # {t}
  <2>1. hints' # {} /\ hints # {} BY <1>2, <1>5
  <2>2. HintsOk' BY <1>1, <1>2, <1>3, <1>5, <2>1 DEF HintsOk
  <2> QED BY <1>2, <2>2, StoreStays
<1> QED BY <1>4, <1>5

LEMMA IngestTicks == ASSUME IngestInv, Tick PROVE IngestInv'
<1>1. HintsOk BY DEF IngestInv
<1>2. PICK over : over = (hintsUntil # 0 /\ hintsUntil <= now + 1) OBVIOUS
<1>3. /\ now' = now + 1 /\ \A p \in Post : post[p].pc = "run" => post[p].at = 1
      /\ hints' = IF over THEN {} ELSE hints
      /\ hintsUntil' = IF over THEN 0 ELSE hintsUntil
      /\ UNCHANGED <<live, stream, counted, list, post, changes, history>>
  BY <1>2 DEF Tick
<1>4. UNCHANGED hintsSince BY <1>3 DEF history
<1>5. \A p \in Post : ~Expires(post[p]) BY <1>3 DEF Expires
<1>6. hints = {} \/ hintsUntil # 0 BY <1>1, <1>5 DEF HintsOk
<1>7. now' \in Nat /\ hintsSince' <= now' BY <1>1, <1>3, <1>4 DEF HintsOk
<1>8. HintsOk'
  <2>1. CASE over BY <1>1, <1>3, <1>4, <1>7, <2>1, IngestConstants DEF HintsOk
  <2>2. CASE ~over BY <1>1, <1>3, <1>4, <1>6, <1>7, <2>2 DEF HintsOk
  <2> QED BY <2>1, <2>2
<1> QED BY <1>3, <1>8, StoreStays

LEMMA IngestInvHolds == IngestSpec => []IngestInv
<1>1. IngestInit => IngestInv
  <2> SUFFICES ASSUME IngestInit PROVE IngestInv OBVIOUS
  <2>1. PostsOk BY DEF IngestInit, PostsOk, PostOk, NotPosted, LiveTokens
  <2>2. stream \in Seq(GoodEntry) BY DEF IngestInit
  <2>3. ListsOk
    <3>1. \A i \in Install : list[i] = <<>> /\ pushed[i] = <<>> BY DEF IngestInit
    <3>2. <<>> \in Seq(Receipt) /\ Len(<<>>) = 0 BY EmptySeq
    <3>3. Same(<<>>, <<>>, ViewCap) BY DEF Same
    <3>4. 0 <= ListCap BY IngestConstants
    <3>5. ASSUME NEW i \in Install PROVE ListOk(i)
      <4>1. list[i] \in Seq(Receipt) /\ pushed[i] \in Seq(Receipt) BY <3>1, <3>2
      <4>2. Same(list[i], pushed[i], ViewCap) BY <3>1, <3>3
      <4>3. Len(list[i]) <= ListCap BY <3>1, <3>2, <3>4
      <4> QED BY <4>1, <4>2, <4>3 DEF ListOk
    <3>6. \A i \in Install : ListOk(i) BY <3>5
    <3> QED BY <3>6 DEF IngestInit, ListsOk
  <2>4. HintsOk BY DEF IngestInit, HintsOk
  <2>5. CountOk
    <3>1. Pending(post) = {} BY DEF IngestInit, Pending, Unqueued, NotPosted
    <3>2. IsFiniteSet({}) /\ Cardinality({}) = 0 BY FS_EmptySet
    <3>3. IsFiniteSet(Pending(post)) /\ Cardinality(Pending(post)) = 0 BY <3>1, <3>2
    <3>4. counted = 0 /\ enqueued = 0 BY DEF IngestInit
    <3> QED BY <3>3, <3>4 DEF CountOk
  <2> QED BY <2>1, <2>2, <2>3, <2>4, <2>5 DEF IngestInv
<1>2. IngestInv /\ [IngestNext]_ingestVars => IngestInv'
  <2> SUFFICES ASSUME IngestInv, [IngestNext]_ingestVars PROVE IngestInv' OBVIOUS
  <2>1. ASSUME NEW p \in Post, NEW b \in DriftBatch, NEW t \in Token \cup {NoToken},
               Arrive(p, "drift", b, t)
        PROVE  IngestInv'
    BY <2>1, ArriveKeeps
  <2>2. ASSUME NEW p \in Post, NEW b \in ReceiptBatch, NEW t \in Token \cup {NoToken},
               Arrive(p, "receipts", b, t)
        PROVE  IngestInv'
    BY <2>2, ArriveKeeps
  <2>3. ASSUME NEW p \in Post, NEW i \in Install, Verify(p, i) PROVE IngestInv' BY <2>3, VerifyKeeps
  <2>4. ASSUME NEW p \in Post, Send(p) \/ Exec(p) \/ Settle(p) \/ Resend(p) PROVE IngestInv'
    BY <2>4, SendKeeps, ExecKeeps, SettleKeeps, ResendKeeps
  <2>5. ASSUME NEW i \in Install, NEW t \in Token \cup {NoToken}, IdentityMoves(i, t)
        PROVE  IngestInv'
    BY <2>5, IdentityMovesKeeps
  <2>6. CASE \E t \in Tool : WorkerTakes(t) BY <2>6, WorkerTakesKeeps
  <2>7. CASE Tick BY <2>7, IngestTicks
  <2>8. CASE UNCHANGED ingestVars
    <3>1. UNCHANGED <<live, stream, counted, list, post, changes, history, hints, hintsUntil, now>>
      BY <2>8 DEF ingestVars, redis
    <3>2. HintsOk' BY <3>1 DEF IngestInv, HintsOk, history
    <3> QED BY <3>1, <3>2, StoreStays
  <2> QED BY <2>1, <2>2, <2>3, <2>4, <2>5, <2>6, <2>7, <2>8 DEF IngestNext, Posting, Outside
<1> QED BY <1>1, <1>2, PTL DEF IngestSpec

\* For any number of posts whose commands interleave, are sent again or settle late, and any
\* changes of identity meanwhile: an entry is stamped for its own install and never left bare
\* wrongly, a reader gets an install's newest receipts without a gap, lists keep their cap and
\* the hint set its lifetime, and the stream never holds a signal that was not counted
\* (driftIngest.ts, receiptIngest.ts).
THEOREM IngestAlwaysHolds == IngestSpec => []IngestHolds
<1>1. IngestInv => IngestHolds
  <2> SUFFICES ASSUME IngestInv PROVE IngestHolds OBVIOUS
  <2>1. StampIsTheInstalls
    <3> SUFFICES ASSUME NEW n \in DOMAIN stream
                 PROVE (stream[n].auth => stream[n].ever) /\ (stream[n].due => stream[n].auth)
      BY DEF StampIsTheInstalls
    <3>1. stream \in Seq(GoodEntry) BY DEF IngestInv
    <3>2. stream[n] \in GoodEntry BY <3>1
    <3> QED BY <3>2 DEF GoodEntry
  <2>2. ASSUME NEW i \in Install
        PROVE  /\ Prefix(list[i], ViewCap) = Prefix(pushed[i], ViewCap)
               /\ Len(list[i]) <= ListCap \/ Between("trim")
    <3>1. ListOk(i) BY DEF IngestInv, ListsOk
    <3>2. PICK a, b : a = list[i] /\ b = pushed[i] OBVIOUS
    <3>3. a \in Seq(Receipt) /\ b \in Seq(Receipt) /\ Same(a, b, ViewCap) BY <3>1, <3>2 DEF ListOk
    <3>4. Prefix(a, ViewCap) = Prefix(b, ViewCap) BY <3>3, IngestConstants, SameRead
    <3>5. ASSUME NEW p \in Post, Trims(post[p], i) PROVE Between("trim")
      <4>1. post[p].pc = "run" /\ post[p].kind = "receipts" /\ post[p].at = 4 BY <3>5 DEF Trims
      <4>2. Commands("receipts")[4] = "trim" BY DEF Commands
      <4> QED BY <4>1, <4>2 DEF Between
    <3> QED BY <3>1, <3>2, <3>4, <3>5 DEF ListOk
  <2>3. ASSUME NEW p \in Post, Expires(post[p]) PROVE Between("hintTtl")
    <3>1. post[p].pc = "run" /\ post[p].kind = "drift" /\ post[p].at = 4 BY <2>3 DEF Expires
    <3>2. Commands("drift")[4] = "hintTtl" BY DEF Commands
    <3> QED BY <3>1, <3>2 DEF Between
  <2>4. \/ Between("hintTtl") \/ hints = {}
        \/ hintsUntil # 0 /\ hintsUntil <= hintsSince + HintTtl
    BY <2>3 DEF IngestInv, HintsOk
  <2>5. enqueued <= counted
    <3>1. PICK c : c = Cardinality(Pending(post)) OBVIOUS
    <3>2. c \in Nat BY <3>1, FS_CardinalityType DEF IngestInv, CountOk
    <3> QED BY <3>1, <3>2 DEF IngestInv, CountOk
  <2> QED BY <2>1, <2>2, <2>4, <2>5 DEF IngestHolds, KeptWithinBounds
<1> QED BY <1>1, IngestInvHolds, PTL

(***************************************************************************)
(* The proxy.  A window of a client that was not cut short ends Window     *)
(* after it began, holds as many passes as the bucket counts, up to the    *)
(* limit, and follows on at most a limit's worth in the Window before it.  *)
(***************************************************************************)
PassRecord == [at : Nat, by : Nat]

\* When the window of the bucket b began, as time passes.
Began(b) == real - (clock - b.start)

From(s, t) == {x \in s : x.at >= t}
Between2(s, t, u) == {x \in s : t <= x.at /\ x.at < u}

\* A bucket b of a client with the passes s, whose limit is n.
WindowOk(s, b, n) ==
  /\ b.start <= clock
  /\ \A x \in s : x.at <= Began(b) + Window
  /\ Cardinality(Between2(s, Began(b) - Window - 1, Began(b))) <= n
  /\ Cardinality(From(s, Began(b))) <= n
  /\ Cardinality(From(s, Began(b))) <= b.count
  /\ Cardinality(From(s, Began(b))) >= b.count \/ Cardinality(From(s, Began(b))) = n

NoWindowOk(s, n) ==
  /\ \A x \in s : x.at < real
  /\ Cardinality(From(s, real - Window - 1)) <= n

ClientOk(k) ==
  IF k \in DOMAIN buckets THEN WindowOk(passes[k], buckets[k], LimitOf(k))
                          ELSE NoWindowOk(passes[k], LimitOf(k))

BucketRecord == [count : Nat \ {0}, start : Nat, born : Nat]

LimiterTypes ==
  /\ clock \in Nat /\ real \in Nat /\ requests \in Nat /\ steps \in {0, 1}
  /\ buckets \in [DOMAIN buckets -> BucketRecord] /\ IsFiniteSet(DOMAIN buckets)
  /\ passes \in [Account -> SUBSET PassRecord]
  /\ \A k \in Account : IsFiniteSet(passes[k])
                        /\ \A x \in passes[k] : x.at <= real /\ x.by < requests

AnswerOk ==
  answer.said = "429" =>
    /\ answer.of \in Account /\ answer.at \in Nat
    /\ \/ answer.of \in excused
       \/ Cardinality(From(passes[answer.of], answer.at - Window)) >= LimitOf(answer.of)

ProxyInv == LimiterTypes /\ (\A k \in Account \ excused : ClientOk(k)) /\ AnswerOk

LEMMA LimitsArePositive == \A k : LimitOf(k) \in Nat /\ LimitOf(k) >= 1
BY EdgeConstants DEF LimitOf

LEMMA FromIsFinite ==
  ASSUME NEW s, IsFiniteSet(s), NEW t, NEW u
  PROVE  /\ IsFiniteSet(From(s, t)) /\ Cardinality(From(s, t)) \in Nat
         /\ IsFiniteSet(Between2(s, t, u)) /\ Cardinality(Between2(s, t, u)) \in Nat
<1>1. From(s, t) \subseteq s /\ Between2(s, t, u) \subseteq s BY DEF From, Between2
<1> QED BY <1>1, FS_Subset, FS_CardinalityType

\* A window that is over, or of which nothing is known, leaves at most a limit's worth.
LEMMA WindowEnds ==
  ASSUME NEW s \in SUBSET PassRecord, IsFiniteSet(s), NEW n \in Nat, NEW b \in BucketRecord,
         clock \in Nat, real \in Nat, WindowOk(s, b, n), clock - b.start > Window
  PROVE  NoWindowOk(s, n)
<1>1. b.start \in Nat /\ b.start <= clock BY DEF WindowOk, BucketRecord
<1>2. PICK g : g = Began(b) OBVIOUS
<1>3. g \in Int /\ g <= real - Window - 1 BY <1>1, <1>2, EdgeConstants DEF Began
<1>4. \A x \in s : x.at \in Nat BY DEF PassRecord
<1>5. \A x \in s : x.at < real BY <1>2, <1>3, <1>4, EdgeConstants DEF WindowOk
<1>6. From(s, real - Window - 1) \subseteq From(s, g)
  BY <1>3, <1>4, EdgeConstants DEF From
<1>7. /\ IsFiniteSet(From(s, g)) /\ Cardinality(From(s, g)) \in Nat
      /\ Cardinality(From(s, real - Window - 1)) \in Nat
  BY FromIsFinite
<1>8. Cardinality(From(s, real - Window - 1)) <= Cardinality(From(s, g)) BY <1>6, <1>7, FS_Subset
<1>9. Cardinality(From(s, g)) <= n BY <1>2 DEF WindowOk
<1> QED BY <1>5, <1>7, <1>8, <1>9 DEF NoWindowOk

\* A client that has no window begins one with its first pass.
LEMMA WindowBegins ==
  ASSUME NEW s \in SUBSET PassRecord, IsFiniteSet(s), NEW n \in Nat, n >= 1,
         NEW b \in BucketRecord, b.start = clock, b.count = 1,
         clock \in Nat, real \in Nat, NoWindowOk(s, n),
         NEW x \in PassRecord, x.at = real
  PROVE  WindowOk(s \cup {x}, b, n)
<1>1. Began(b) = real BY DEF Began
<1>2. \A y \in s : y.at \in Nat BY DEF PassRecord
<1>3. From(s \cup {x}, real) = {x} BY <1>2 DEF From, NoWindowOk
<1>4. Cardinality({x}) = 1 BY FS_Singleton
<1>5. Between2(s \cup {x}, real - Window - 1, real) \subseteq From(s, real - Window - 1)
  BY <1>2, EdgeConstants DEF From, Between2
<1>6. PICK d : d = From(s, real - Window - 1) OBVIOUS
<1>7. PICK e : e = Between2(s \cup {x}, real - Window - 1, real) OBVIOUS
<1>8. IsFiniteSet(d) /\ Cardinality(d) \in Nat /\ Cardinality(d) <= n
  BY <1>6, FromIsFinite DEF NoWindowOk
<1>9. Cardinality(e) <= Cardinality(d) /\ Cardinality(e) \in Nat
  BY <1>5, <1>6, <1>7, <1>8, FS_Subset, FS_CardinalityType
<1>10. Cardinality(e) <= n BY <1>8, <1>9
<1>11. \A y \in s \cup {x} : y.at <= real + Window BY <1>2, EdgeConstants DEF NoWindowOk
<1>12. PICK w, g : w = s \cup {x} /\ g = Began(b) OBVIOUS
<1>13. Cardinality(From(w, g)) = 1 /\ Cardinality(Between2(w, g - Window - 1, g)) <= n
  BY <1>1, <1>3, <1>4, <1>7, <1>10, <1>12
<1>14. b.start <= clock BY SMT
<1>15. \A y \in w : y.at <= g + Window BY <1>1, <1>11, <1>12
<1>16. WindowOk(w, b, n)
  <2>1. /\ Cardinality(From(w, g)) <= n /\ Cardinality(From(w, g)) <= b.count
        /\ Cardinality(From(w, g)) >= b.count
    BY <1>13
  <2> QED BY <1>12, <1>13, <1>14, <1>15, <2>1 DEF WindowOk
<1> QED BY <1>12, <1>16

\* One more request within the window is let through if the bucket still has room for it.
LEMMA WindowGoesOn ==
  ASSUME NEW s \in SUBSET PassRecord, IsFiniteSet(s), NEW n \in Nat, n >= 1,
         NEW b \in BucketRecord, NEW c \in BucketRecord,
         c.start = b.start, c.count = b.count + 1,
         clock \in Nat, real \in Nat, WindowOk(s, b, n), clock - b.start <= Window,
         NEW x \in PassRecord, x \notin s, x.at = real
  PROVE  IF c.count > n THEN WindowOk(s, c, n) /\ Cardinality(From(s, real - Window)) >= n
                        ELSE WindowOk(s \cup {x}, c, n)
<1>1. b.start \in Nat /\ b.count \in Nat /\ b.start <= clock BY DEF BucketRecord, WindowOk
<1>2. PICK g : g = Began(b) OBVIOUS
<1>3. g \in Int /\ g = Began(c) /\ g <= real /\ real <= g + Window /\ real - Window <= g
  BY <1>1, <1>2, EdgeConstants DEF Began
<1>4. \A y \in s : y.at \in Nat BY DEF PassRecord
<1>5. PICK f, e : f = From(s, g) /\ e = Between2(s, g - Window - 1, g) OBVIOUS
<1>6. IsFiniteSet(f) /\ Cardinality(f) \in Nat /\ Cardinality(e) \in Nat BY <1>5, FromIsFinite
<1>7. PICK m : m = Cardinality(f) OBVIOUS
<1>8. m \in Nat /\ m <= n /\ m <= b.count /\ (m >= b.count \/ m = n) /\ Cardinality(e) <= n
      /\ \A y \in s : y.at <= g + Window
  BY <1>2, <1>5, <1>6, <1>7 DEF WindowOk
<1>9. CASE c.count > n
  <2>1. m = n BY <1>1, <1>8, <1>9
  <2>2. WindowOk(s, c, n) BY <1>1, <1>3, <1>5, <1>7, <1>8, <2>1 DEF WindowOk
  <2>3. f \subseteq From(s, real - Window) BY <1>3, <1>4, <1>5, EdgeConstants DEF From
  <2>4. IsFiniteSet(From(s, real - Window)) /\ Cardinality(From(s, real - Window)) \in Nat
    BY FromIsFinite
  <2>5. m <= Cardinality(From(s, real - Window)) BY <1>7, <2>3, <2>4, FS_Subset
  <2> QED BY <1>9, <2>1, <2>2, <2>5
<1>10. CASE ~(c.count > n)
  <2>1. m = b.count BY <1>1, <1>8, <1>10
  <2>2. From(s \cup {x}, g) = f \cup {x} BY <1>3, <1>5 DEF From
  <2>3. x \notin f BY <1>5 DEF From
  <2>4. Cardinality(f \cup {x}) = m + 1 BY <1>6, <1>7, <2>3, FS_AddElement
  <2>5. Between2(s \cup {x}, g - Window - 1, g) = e BY <1>3, <1>5 DEF Between2
  <2>6. \A y \in s \cup {x} : y.at <= g + Window BY <1>3, <1>8
  <2>7. WindowOk(s \cup {x}, c, n)
    <3>1. From(s \cup {x}, Began(c)) = f \cup {x} BY <1>3, <2>2
    <3>2. Between2(s \cup {x}, Began(c) - Window - 1, Began(c)) = e BY <1>3, <2>5
    <3>3. /\ Cardinality(f \cup {x}) <= n /\ Cardinality(f \cup {x}) <= c.count
          /\ Cardinality(f \cup {x}) >= c.count
      BY <1>1, <1>8, <1>10, <2>1, <2>4
    <3>4. c.start <= clock /\ \A y \in s \cup {x} : y.at <= Began(c) + Window BY <1>1, <1>3, <2>6
    <3> QED BY <1>8, <3>1, <3>2, <3>3, <3>4 DEF WindowOk
  <2> QED BY <1>10, <2>7
<1> QED BY <1>9, <1>10

\* A sweep gives up only windows that are long over, and those it makes room with.
LEMMA SweptKeeps ==
  ASSUME LimiterTypes, \A k \in Account \ excused : ClientOk(k)
  PROVE  /\ DOMAIN Swept \subseteq DOMAIN buckets /\ IsFiniteSet(DOMAIN Swept)
         /\ \A k \in DOMAIN Swept : Swept[k] = buckets[k]
         /\ Swept \in [DOMAIN Swept -> BucketRecord]
         /\ \A k \in Account \ (excused \cup Shortened) :
              IF k \in DOMAIN Swept THEN WindowOk(passes[k], Swept[k], LimitOf(k))
                                    ELSE NoWindowOk(passes[k], LimitOf(k))
<1>1. /\ DOMAIN Swept \subseteq DOMAIN buckets /\ \A k \in DOMAIN Swept : Swept[k] = buckets[k]
      /\ Swept = [k \in DOMAIN Swept |-> Swept[k]]
  <2>1. CASE SweepDue
    <3>1. Swept = [k \in Roomy(Fresh) |-> buckets[k]] BY <2>1 DEF Swept
    <3>2. Roomy(Fresh) \subseteq DOMAIN buckets BY DEF Roomy, Fresh
    <3> QED BY <3>1, <3>2
  <2>2. CASE ~SweepDue
    <3>1. Swept = buckets BY <2>2 DEF Swept
    <3> QED BY <3>1 DEF LimiterTypes
  <2> QED BY <2>1, <2>2
<1>2. IsFiniteSet(DOMAIN Swept) BY <1>1, FS_Subset DEF LimiterTypes
<1>3. \A k \in DOMAIN buckets : buckets[k] \in BucketRecord BY DEF LimiterTypes
<1>4. Swept \in [DOMAIN Swept -> BucketRecord] BY <1>1, <1>3
<1>5. ASSUME NEW k \in Account \ (excused \cup Shortened)
      PROVE  IF k \in DOMAIN Swept THEN WindowOk(passes[k], Swept[k], LimitOf(k))
                                   ELSE NoWindowOk(passes[k], LimitOf(k))
  <2>1. ClientOk(k) OBVIOUS
  <2>2. CASE k \in DOMAIN Swept BY <1>1, <2>1, <2>2 DEF ClientOk
  <2>3. CASE k \notin DOMAIN buckets BY <1>1, <2>1, <2>3 DEF ClientOk
  <2>4. CASE k \in DOMAIN buckets /\ k \notin DOMAIN Swept
    <3>1. SweepDue /\ k \notin Roomy(Fresh)
      <4>1. SweepDue BY <2>4 DEF Swept
      <4>2. Swept = [j \in Roomy(Fresh) |-> buckets[j]] BY <4>1 DEF Swept
      <4> QED BY <4>1, <4>2, <2>4
    <3>2. IsFiniteSet(Newer(Fresh, k))
      <4>1. Newer(Fresh, k) \subseteq DOMAIN buckets BY DEF Newer, Fresh
      <4> QED BY <4>1, FS_Subset DEF LimiterTypes
    <3>3. Cardinality(Newer(Fresh, k)) \in Nat BY <3>2, FS_CardinalityType
    <3>4. k \notin Fresh
      <4>1. SUFFICES ASSUME k \in Fresh PROVE k \in Shortened OBVIOUS
      <4>2. ~(Cardinality(Newer(Fresh, k)) < MaxBuckets) BY <3>1, <4>1 DEF Roomy
      <4> QED BY <3>1, <3>3, <4>1, <4>2, EdgeConstants DEF Shortened
    <3>5. buckets[k] \in BucketRecord BY <1>3, <2>4
    <3>6. clock - buckets[k].start > Window
      <4>1. buckets[k].start \in Nat BY <3>5 DEF BucketRecord
      <4>2. ~(buckets[k].start >= clock - Stale) BY <2>4, <3>4 DEF Fresh
      <4> QED BY <4>1, <4>2, EdgeConstants DEF Stale, LimiterTypes
    <3>7. passes[k] \in SUBSET PassRecord /\ IsFiniteSet(passes[k]) BY DEF LimiterTypes
    <3>8. WindowOk(passes[k], buckets[k], LimitOf(k)) BY <2>1, <2>4 DEF ClientOk
    <3> QED BY <2>4, <3>5, <3>6, <3>7, <3>8, WindowEnds, LimitsArePositive DEF LimiterTypes
  <2> QED BY <2>2, <2>3, <2>4
<1> QED BY <1>1, <1>2, <1>4, <1>5

\* A request is counted in its client's window, and let through if the limit allows.
LEMMA CountedKeeps ==
  ASSUME LimiterTypes, \A k \in Account \ excused : ClientOk(k), NEW own \in Account,
         NEW x, x = [at |-> real, by |-> requests],
         NEW m, m = Counted(Swept, own)
  PROVE  /\ m \in [DOMAIN m -> BucketRecord] /\ IsFiniteSet(DOMAIN m) /\ own \in DOMAIN m
         /\ \A k \in DOMAIN m \ {own} : k \in DOMAIN Swept /\ m[k] = Swept[k]
         /\ \A k \in DOMAIN Swept : k \in DOMAIN m
         /\ own \notin excused \cup Shortened =>
              IF m[own].count > LimitOf(own)
              THEN /\ WindowOk(passes[own], m[own], LimitOf(own))
                   /\ Cardinality(From(passes[own], real - Window)) >= LimitOf(own)
              ELSE WindowOk(passes[own] \cup {x}, m[own], LimitOf(own))
<1>1. PICK w : w = Swept OBVIOUS
<1>2. /\ IsFiniteSet(DOMAIN w) /\ w \in [DOMAIN w -> BucketRecord]
      /\ own \notin excused \cup Shortened =>
           IF own \in DOMAIN w THEN WindowOk(passes[own], w[own], LimitOf(own))
                               ELSE NoWindowOk(passes[own], LimitOf(own))
  BY <1>1, SweptKeeps
<1>3. PICK n : n = LimitOf(own) OBVIOUS
<1>4. n \in Nat /\ n >= 1 BY <1>3, LimitsArePositive
<1>5. clock \in Nat /\ real \in Nat /\ requests \in Nat BY DEF LimiterTypes
<1>6. /\ passes[own] \in SUBSET PassRecord /\ IsFiniteSet(passes[own])
      /\ x \in PassRecord /\ x.at = real /\ x \notin passes[own]
  BY <1>5 DEF LimiterTypes, PassRecord
<1>7. PICK b : b = (IF own \notin DOMAIN w THEN Opened(requests)
                    ELSE IF Over(w[own]) THEN Opened(w[own].born)
                    ELSE [w[own] EXCEPT !.count = @ + 1])
  OBVIOUS
<1>8. m = [j \in DOMAIN w \cup {own} |-> IF j = own THEN b ELSE w[j]]
  BY <1>1, <1>7 DEF Counted
<1>9. own \in DOMAIN w => w[own] \in BucketRecord BY <1>2
<1>10. b \in BucketRecord
  <2>1. CASE own \notin DOMAIN w BY <1>5, <1>7, <2>1 DEF Opened, BucketRecord
  <2>2. CASE own \in DOMAIN w /\ Over(w[own])
    <3>1. b = [count |-> 1, start |-> clock, born |-> w[own].born] BY <1>7, <2>2 DEF Opened
    <3>2. w[own].born \in Nat BY <1>9, <2>2 DEF BucketRecord
    <3> QED BY <1>5, <3>1, <3>2 DEF BucketRecord
  <2>3. CASE own \in DOMAIN w /\ ~Over(w[own])
    <3>1. PICK r \in BucketRecord : r = w[own] BY <1>9, <2>3
    <3>2. b = [r EXCEPT !.count = @ + 1] BY <1>7, <2>3, <3>1
    <3> QED BY <3>2 DEF BucketRecord
  <2> QED BY <2>1, <2>2, <2>3
<1>11. IsFiniteSet(DOMAIN m) /\ DOMAIN m = DOMAIN w \cup {own}
  BY <1>2, <1>8, FS_AddElement
<1>12. m \in [DOMAIN m -> BucketRecord] BY <1>2, <1>8, <1>10
<1>13. own \notin excused \cup Shortened =>
         IF b.count > n
         THEN WindowOk(passes[own], b, n) /\ Cardinality(From(passes[own], real - Window)) >= n
         ELSE WindowOk(passes[own] \cup {x}, b, n)
  <2> SUFFICES ASSUME own \notin excused \cup Shortened
               PROVE IF b.count > n
                     THEN /\ WindowOk(passes[own], b, n)
                          /\ Cardinality(From(passes[own], real - Window)) >= n
                     ELSE WindowOk(passes[own] \cup {x}, b, n)
    OBVIOUS
  <2>1. CASE own \notin DOMAIN w
    <3>1. b.count = 1 /\ b.start = clock BY <1>7, <2>1 DEF Opened
    <3>2. NoWindowOk(passes[own], n) BY <1>2, <1>3, <2>1
    <3>3. WindowOk(passes[own] \cup {x}, b, n)
      BY <1>4, <1>5, <1>6, <1>10, <3>1, <3>2, WindowBegins
    <3> QED BY <1>4, <3>1, <3>3
  <2>2. CASE own \in DOMAIN w /\ Over(w[own])
    <3>1. b.count = 1 /\ b.start = clock BY <1>7, <2>2 DEF Opened
    <3>2. WindowOk(passes[own], w[own], n) BY <1>2, <1>3, <2>2
    <3>3. w[own].start \in Nat /\ w[own].start <= clock BY <1>9, <2>2, <3>2 DEF BucketRecord, WindowOk
    <3>4. clock - w[own].start > Window BY <1>5, <2>2, <3>3 DEF Over
    <3>5. NoWindowOk(passes[own], n)
      BY <1>4, <1>5, <1>6, <1>9, <2>2, <3>2, <3>4, WindowEnds
    <3>6. WindowOk(passes[own] \cup {x}, b, n)
      BY <1>4, <1>5, <1>6, <1>10, <3>1, <3>5, WindowBegins
    <3> QED BY <1>4, <3>1, <3>6
  <2>3. CASE own \in DOMAIN w /\ ~Over(w[own])
    <3>1. PICK r \in BucketRecord : r = w[own] BY <1>9, <2>3
    <3>2. b.count = r.count + 1 /\ b.start = r.start
      <4>1. b = [r EXCEPT !.count = @ + 1] BY <1>7, <2>3, <3>1
      <4> QED BY <4>1 DEF BucketRecord
    <3>3. WindowOk(passes[own], r, n) BY <1>2, <1>3, <2>3, <3>1
    <3>4. r.start \in Nat BY DEF BucketRecord
    <3>5. clock - r.start <= Window BY <1>5, <2>3, <3>1, <3>4, EdgeConstants DEF Over
    <3> QED BY <1>4, <1>5, <1>6, <1>10, <3>2, <3>3, <3>5, WindowGoesOn
  <2> QED BY <2>1, <2>2, <2>3
<1>14. m[own] = b /\ own \in DOMAIN m BY <1>8
<1>15. /\ \A k \in DOMAIN m \ {own} : k \in DOMAIN w /\ m[k] = w[k]
       /\ \A k \in DOMAIN w : k \in DOMAIN m
  BY <1>8
<1> QED BY <1>1, <1>3, <1>11, <1>12, <1>13, <1>14, <1>15

LEMMA LimitedKeeps ==
  ASSUME ProxyInv, NEW own \in Account, NEW p \in Path, NEW get \in BOOLEAN, NEW query \in BOOLEAN,
         NEW f, Limited(own, own, p, get, query, f),
         requests' = requests + 1, UNCHANGED <<clock, real, steps>>
  PROVE  ProxyInv'
<1>1. LimiterTypes /\ \A k \in Account \ excused : ClientOk(k) BY DEF ProxyInv
<1>2. PICK m : m = Counted(Swept, own) OBVIOUS
<1>3. PICK x : x = [at |-> real, by |-> requests] OBVIOUS
<1>4. buckets' = m /\ excused' = excused \cup Shortened BY <1>2 DEF Limited
<1>5. \/ /\ m[own].count > LimitOf(own)
         /\ answer' = [of |-> own, said |-> "429", at |-> real] /\ passes' = passes
      \/ /\ ~(m[own].count > LimitOf(own)) /\ answer'.said # "429"
         /\ passes' = [passes EXCEPT ![own] = passes[own] \cup {x}]
  <2>1. CASE m[own].count > LimitOf(own) BY <1>2, <2>1 DEF Limited, Said
  <2>2. CASE ~(m[own].count > LimitOf(own))
    <3>1. Through(own, p, get, query, f) /\ passes' = Passed(own) BY <1>2, <2>2 DEF Limited
    <3>2. answer'.said # "429" BY <3>1 DEF Through, Said
    <3> QED BY <1>3, <2>2, <3>1, <3>2 DEF Passed
  <2> QED BY <2>1, <2>2
<1>6. clock \in Nat /\ real \in Nat /\ requests \in Nat /\ steps \in {0, 1} BY <1>1 DEF LimiterTypes
<1>7. /\ m \in [DOMAIN m -> BucketRecord] /\ IsFiniteSet(DOMAIN m) /\ own \in DOMAIN m
      /\ \A k \in DOMAIN m \ {own} : k \in DOMAIN Swept /\ m[k] = Swept[k]
      /\ \A k \in DOMAIN Swept : k \in DOMAIN m
      /\ own \notin excused \cup Shortened =>
           IF m[own].count > LimitOf(own)
           THEN /\ WindowOk(passes[own], m[own], LimitOf(own))
                /\ Cardinality(From(passes[own], real - Window)) >= LimitOf(own)
           ELSE WindowOk(passes[own] \cup {x}, m[own], LimitOf(own))
  BY <1>1, <1>2, <1>3, CountedKeeps
<1>8. /\ passes \in [Account -> SUBSET PassRecord]
      /\ \A k \in Account : IsFiniteSet(passes[k])
                            /\ \A y \in passes[k] : y.at <= real /\ y.by < requests
  BY <1>1 DEF LimiterTypes
<1>9. x \in PassRecord /\ x.at = real /\ x.by = requests BY <1>3, <1>6 DEF PassRecord
<1>10. LimiterTypes'
  <2>1. passes' \in [Account -> SUBSET PassRecord] BY <1>5, <1>8, <1>9
  <2>2. ASSUME NEW k \in Account
        PROVE  IsFiniteSet(passes'[k]) /\ \A y \in passes'[k] : y.at <= real' /\ y.by < requests'
    <3>1. passes'[k] = passes[k] \/ passes'[k] = passes[k] \cup {x} BY <1>5, <1>8
    <3>2. IsFiniteSet(passes'[k]) BY <1>8, <3>1, FS_AddElement
    <3>3. \A y \in passes[k] : y.at \in Nat /\ y.by \in Nat BY <1>8 DEF PassRecord
    <3> QED BY <1>6, <1>8, <1>9, <3>1, <3>2, <3>3
  <2> QED BY <1>4, <1>6, <1>7, <2>1, <2>2 DEF LimiterTypes
<1>11. ASSUME NEW k \in Account \ (excused \cup Shortened) PROVE ClientOk(k)'
  <2>1. CASE k = own
    <3>1. WindowOk(passes'[own], m[own], LimitOf(own)) BY <1>5, <1>7, <1>8, <2>1
    <3>2. WindowOk(passes[own], buckets[own], LimitOf(own))' BY <1>4, <3>1 DEF WindowOk, Began
    <3> QED BY <1>4, <1>7, <2>1, <3>2 DEF ClientOk
  <2>2. CASE k # own
    <3>1. passes'[k] = passes[k] BY <1>5, <1>8, <2>2
    <3>2. IF k \in DOMAIN Swept THEN WindowOk(passes[k], Swept[k], LimitOf(k))
                                ELSE NoWindowOk(passes[k], LimitOf(k))
      BY <1>1, SweptKeeps
    <3>3. CASE k \in DOMAIN Swept
      <4>1. k \in DOMAIN m /\ m[k] = Swept[k] BY <1>7, <2>2, <3>3
      <4>2. WindowOk(passes'[k], m[k], LimitOf(k)) BY <3>1, <3>2, <3>3, <4>1
      <4>3. WindowOk(passes[k], buckets[k], LimitOf(k))' BY <1>4, <4>2 DEF WindowOk, Began
      <4> QED BY <1>4, <4>1, <4>3 DEF ClientOk
    <3>4. CASE k \notin DOMAIN Swept
      <4>1. k \notin DOMAIN m BY <1>7, <2>2, <3>4
      <4>2. NoWindowOk(passes'[k], LimitOf(k)) BY <3>1, <3>2, <3>4
      <4>3. NoWindowOk(passes[k], LimitOf(k))' BY <4>2 DEF NoWindowOk
      <4> QED BY <1>4, <4>1, <4>3 DEF ClientOk
    <3> QED BY <3>3, <3>4
  <2> QED BY <2>1, <2>2
<1>12. AnswerOk'
  <2>1. CASE answer'.said # "429" BY <2>1 DEF AnswerOk
  <2>2. CASE answer'.said = "429"
    <3>1. /\ m[own].count > LimitOf(own) /\ passes' = passes
          /\ answer'.of = own /\ answer'.at = real
      BY <1>5, <2>2
    <3>2. own \in excused' \/ Cardinality(From(passes[own], real - Window)) >= LimitOf(own)
      BY <1>4, <1>7, <3>1
    <3> QED BY <1>6, <3>1, <3>2 DEF AnswerOk
  <2> QED BY <2>1, <2>2
<1> QED BY <1>4, <1>10, <1>11, <1>12 DEF ProxyInv

\* A request that is not limited, or none at all, changes nothing of a client's window.
LEMMA UnlimitedKeeps ==
  ASSUME ProxyInv, UNCHANGED <<limiter, passes, excused, clock, real, steps>>,
         requests' \in Nat, requests <= requests',
         answer' = answer \/ answer'.said # "429"
  PROVE  ProxyInv'
<1>1. UNCHANGED <<buckets, passes, excused, clock, real, steps>> BY DEF limiter
<1>2. LimiterTypes'
  <2>1. \A k \in Account : \A x \in passes[k] : x.by < requests'
    <3> SUFFICES ASSUME NEW k \in Account, NEW x \in passes[k] PROVE x.by < requests' OBVIOUS
    <3>1. x.by < requests /\ x \in PassRecord BY DEF ProxyInv, LimiterTypes
    <3> QED BY <3>1 DEF PassRecord, ProxyInv, LimiterTypes
  <2> QED BY <1>1, <2>1 DEF ProxyInv, LimiterTypes
<1>3. \A k \in Account \ excused' : ClientOk(k)'
  <2> SUFFICES ASSUME NEW k \in Account \ excused PROVE ClientOk(k)' BY <1>1
  <2>1. ClientOk(k) BY DEF ProxyInv
  <2> QED BY <1>1, <2>1 DEF ClientOk, WindowOk, NoWindowOk, Began
<1>4. AnswerOk' BY <1>1 DEF AnswerOk, ProxyInv
<1> QED BY <1>2, <1>3, <1>4 DEF ProxyInv

LEMMA TickKeeps == ASSUME ProxyInv, ClockTicks PROVE ProxyInv'
<1>1. /\ real' = real + 1 /\ clock' = clock + 1
      /\ UNCHANGED <<buckets, passes, excused, answer, steps, requests>>
  BY DEF ClockTicks, limiter, proxyHistory
<1>2. LimiterTypes BY DEF ProxyInv
<1>3. \A k \in Account : \A x \in passes[k] : x.at \in Nat /\ x.at <= real
  BY <1>2 DEF LimiterTypes, PassRecord
<1>4. LimiterTypes' BY <1>1, <1>2, <1>3 DEF LimiterTypes
<1>5. ASSUME NEW k \in Account \ excused PROVE ClientOk(k)'
  <2>1. ClientOk(k) BY DEF ProxyInv
  <2>2. CASE k \in DOMAIN buckets
    <3>1. WindowOk(passes[k], buckets[k], LimitOf(k)) /\ buckets[k].start \in Nat
      BY <1>2, <2>1, <2>2 DEF ClientOk, LimiterTypes, BucketRecord
    <3>2. Began(buckets[k])' = Began(buckets[k]) BY <1>1, <1>2, <3>1 DEF Began, LimiterTypes
    <3>3. buckets'[k].start <= clock' BY <1>1, <1>2, <3>1 DEF WindowOk, LimiterTypes
    <3>4. WindowOk(passes[k], buckets[k], LimitOf(k))' BY <1>1, <3>1, <3>2, <3>3 DEF WindowOk
    <3> QED BY <1>1, <2>2, <3>4 DEF ClientOk
  <2>3. CASE k \notin DOMAIN buckets
    <3>1. NoWindowOk(passes[k], LimitOf(k)) BY <2>1, <2>3 DEF ClientOk
    <3>2. PICK d, e : d = From(passes[k], real - Window - 1) /\ e = From(passes[k], real' - Window - 1)
      OBVIOUS
    <3>3. e \subseteq d BY <1>1, <1>2, <1>3, <3>2, EdgeConstants DEF From, LimiterTypes
    <3>4. IsFiniteSet(passes[k]) BY <1>2 DEF LimiterTypes
    <3>5. IsFiniteSet(d) /\ Cardinality(d) \in Nat /\ Cardinality(e) \in Nat BY <3>2, <3>4, FromIsFinite
    <3>6. Cardinality(e) <= Cardinality(d) BY <3>3, <3>5, FS_Subset
    <3>7. Cardinality(e) <= LimitOf(k) BY <3>1, <3>2, <3>5, <3>6, LimitsArePositive DEF NoWindowOk
    <3>8. \A x \in passes[k] : x.at < real' BY <1>1, <1>2, <1>3 DEF LimiterTypes
    <3>9. NoWindowOk(passes[k], LimitOf(k))' BY <1>1, <3>2, <3>7, <3>8 DEF NoWindowOk
    <3> QED BY <1>1, <2>3, <3>9 DEF ClientOk
  <2> QED BY <2>2, <2>3
<1>6. AnswerOk' BY <1>1 DEF ProxyInv, AnswerOk
<1> QED BY <1>1, <1>4, <1>5, <1>6 DEF ProxyInv

LEMMA StepBackKeeps == ASSUME ProxyInv, StepBack PROVE ProxyInv'
<1>1. /\ clock' \in Nat /\ steps' = 1 /\ excused' = excused \cup DOMAIN buckets
      /\ UNCHANGED <<buckets, passes, answer, real, requests>>
  BY DEF StepBack, limiter, ProxyInv, LimiterTypes
<1>2. LimiterTypes' BY <1>1 DEF ProxyInv, LimiterTypes
<1>3. \A k \in Account \ excused' : ClientOk(k)'
  <2> SUFFICES ASSUME NEW k \in Account \ (excused \cup DOMAIN buckets) PROVE ClientOk(k)' BY <1>1
  <2>1. ClientOk(k) BY DEF ProxyInv
  <2> QED BY <1>1, <2>1 DEF ClientOk, NoWindowOk
<1>4. AnswerOk' BY <1>1 DEF AnswerOk, ProxyInv
<1> QED BY <1>2, <1>3, <1>4 DEF ProxyInv

(***************************************************************************)
(* The crawler counters.  A write is of a minute the memo does not hold,   *)
(* so of a new time, or the clock was set back within that time.           *)
(***************************************************************************)
Served(c) == {s \in served : s.of = c}
Times(c) == {s.at : s \in Served(c)}
Minutes(c) == {s.minute : s \in Served(c)}
LostOf(c) == {l \in lost : l.of = c}
Memo(c) == \E r \in recent : r.of = c /\ r.minute = clock

CounterTypes ==
  /\ clock \in Nat /\ real \in Nat /\ steps \in {0, 1} /\ aeo \in [Counter -> Nat]
  /\ \A s \in served : s.at <= real /\ s.at \in Nat
  /\ \A c \in Counter : IsFiniteSet(Times(c)) /\ IsFiniteSet(Minutes(c)) /\ IsFiniteSet(LostOf(c))
  /\ \A l \in lost : l \in served
  /\ \A r \in recent : r.minute = r.at /\ \E s \in served : s.of = r.of /\ s.minute = r.minute

CounterOk(c) ==
  /\ aeo[c] <= Cardinality(Times(c)) + steps
  /\ aeo[c] + Cardinality(LostOf(c)) >= Cardinality(Minutes(c))
  /\ IF steps = 0 THEN real \in Times(c) => Memo(c)
     ELSE aeo[c] <= Cardinality(Times(c)) \/ Memo(c) \/ real \notin Times(c)

AeoInv == CounterTypes /\ \A c \in Counter : CounterOk(c)

\* The fetch of a counter that is let through: written once in its minute, or lost.
Fetched(c) ==
  /\ c \in Counter
  /\ served' = served \cup {[of |-> c, minute |-> clock, at |-> real]}
  /\ recordAeoFetch(c)

LEMMA ThroughCounts ==
  ASSUME NEW own, NEW p \in Path, NEW get \in BOOLEAN, NEW query \in BOOLEAN,
         NEW f \in Family \cup {NoFamily}, Through(own, p, get, query, f)
  PROVE  UNCHANGED <<counter, served>> \/ \E c \in Counter : Fetched(c)
<1>1. PICK c : c = <<countable(p), f>> OBVIOUS
<1>2. p \in DOMAIN Class BY EdgeConstants
<1>3. countable(p) # "none" => p \in {"llms", "index", "catalog"} /\ countable(p) \in {"llms", "llms-full"}
  BY DEF countable
<1>4. answer'.said = "next" <=> ~((isLlmsPath(p) /\ query) \/ p = "respelt")
  BY DEF Through, Said
<1>5. p \in {"llms", "index", "catalog"} => isLlmsPath(p) /\ p # "respelt"
  BY DEF isLlmsPath, Class
<1>6. CASE get /\ f # NoFamily /\ Reaches(p, query)
  <2>1. countable(p) # "none" /\ ~query BY <1>6 DEF Reaches
  <2>2. answer'.said = "next" BY <1>3, <1>4, <1>5, <2>1
  <2>3. c \in Counter BY <1>1, <1>3, <1>6, <2>1 DEF Counter
  <2>4. served' = served \cup {[of |-> c, minute |-> clock, at |-> real]}
    BY <1>1, <1>6, <2>1, <2>2 DEF Through
  <2>5. recordAeoFetch(c) BY <1>1, <1>6 DEF Through
  <2> QED BY <2>3, <2>4, <2>5 DEF Fetched
<1>7. CASE ~(get /\ f # NoFamily /\ Reaches(p, query))
  <2>1. served' = served
    <3>1. ~(get /\ f # NoFamily /\ countable(p) # "none" /\ answer'.said = "next")
      BY <1>3, <1>4, <1>5, <1>7 DEF Reaches
    <3> QED BY <3>1 DEF Through
  <2>2. UNCHANGED counter
    <3>1. CASE get /\ Reaches(p, query)
      <4>1. f = NoFamily BY <1>7, <3>1
      <4>2. recordAeoFetch(<<countable(p), f>>) BY <3>1 DEF Through
      <4> QED BY <4>1, <4>2 DEF recordAeoFetch, counter
    <3>2. CASE ~(get /\ Reaches(p, query)) BY <3>2 DEF Through
    <3> QED BY <3>1, <3>2
  <2> QED BY <2>1, <2>2
<1> QED BY <1>6, <1>7

LEMMA GrowsByOne ==
  ASSUME NEW s, IsFiniteSet(s), NEW x
  PROVE  /\ IsFiniteSet(s \cup {x}) /\ Cardinality(s) \in Nat /\ Cardinality(s \cup {x}) \in Nat
         /\ Cardinality(s) <= Cardinality(s \cup {x})
         /\ Cardinality(s \cup {x}) = IF x \in s THEN Cardinality(s) ELSE Cardinality(s) + 1
<1>1. Cardinality(s) \in Nat BY FS_CardinalityType
<1>2. /\ IsFiniteSet(s \cup {x})
      /\ x \in s => Cardinality(s \cup {x}) = Cardinality(s)
      /\ x \notin s => Cardinality(s \cup {x}) = Cardinality(s) + 1
  BY FS_AddElement
<1>3. CASE x \in s BY <1>1, <1>2, <1>3
<1>4. CASE x \notin s BY <1>1, <1>2, <1>4
<1> QED BY <1>3, <1>4

LEMMA FetchKeeps ==
  ASSUME AeoInv, NEW c, Fetched(c), UNCHANGED <<clock, real, steps>>
  PROVE  AeoInv'
<1>1. /\ clock \in Nat /\ real \in Nat /\ steps \in {0, 1} /\ aeo \in [Counter -> Nat]
      /\ \A s \in served : s.at <= real /\ s.at \in Nat
      /\ \A d \in Counter : IsFiniteSet(Times(d)) /\ IsFiniteSet(Minutes(d)) /\ IsFiniteSet(LostOf(d))
      /\ \A l \in lost : l \in served
      /\ \A r \in recent : r.minute = r.at /\ \E s \in served : s.of = r.of /\ s.minute = r.minute
  BY DEF AeoInv, CounterTypes
<1>2. PICK x : x = [of |-> c, minute |-> clock, at |-> real] OBVIOUS
<1>3. c \in Counter /\ served' = served \cup {x} /\ recordAeoFetch(c) BY <1>2 DEF Fetched
<1>4. x.of = c /\ x.minute = clock /\ x.at = real BY <1>2
<1>5. c[2] # NoFamily BY <1>3, EdgeConstants DEF Counter
<1>6. Times(c)' = Times(c) \cup {real} /\ Minutes(c)' = Minutes(c) \cup {clock}
  BY <1>3, <1>4 DEF Times, Minutes, Served
<1>7. \A d \in Counter \ {c} : Times(d)' = Times(d) /\ Minutes(d)' = Minutes(d)
  BY <1>3, <1>4 DEF Times, Minutes, Served
<1>8. PICK ts, ms, ls : ts = Times(c) /\ ms = Minutes(c) /\ ls = LostOf(c) OBVIOUS
<1>9. /\ IsFiniteSet(ts) /\ IsFiniteSet(ms) /\ IsFiniteSet(ls)
      /\ aeo[c] \in Nat /\ aeo[c] <= Cardinality(ts) + steps
      /\ aeo[c] + Cardinality(ls) >= Cardinality(ms)
      /\ IF steps = 0 THEN real \in ts => Memo(c)
         ELSE aeo[c] <= Cardinality(ts) \/ Memo(c) \/ real \notin ts
  BY <1>1, <1>3, <1>8 DEF AeoInv, CounterOk
<1>10. Memo(c) => clock \in ms BY <1>1, <1>8 DEF Memo, Minutes, Served
<1>11. CASE Memo(c)
  <2>1. UNCHANGED <<recent, aeo, lost>> BY <1>3, <1>11 DEF recordAeoFetch, Memo
  <2>2. Minutes(c)' = ms /\ LostOf(c)' = ls /\ Memo(c)'
    BY <1>6, <1>8, <1>10, <1>11, <2>1 DEF LostOf, Memo
  <2>3. /\ IsFiniteSet(ts \cup {real}) /\ Cardinality(ts) \in Nat /\ Cardinality(ts \cup {real}) \in Nat
        /\ Cardinality(ts) <= Cardinality(ts \cup {real})
    BY <1>9, GrowsByOne
  <2>4. Times(c)' = ts \cup {real} BY <1>6, <1>8
  <2>5. aeo[c] <= Cardinality(ts \cup {real}) + steps BY <1>1, <1>9, <2>3
  <2>6. CounterOk(c)' BY <1>9, <2>1, <2>2, <2>4, <2>5 DEF CounterOk
  <2>7. \A d \in Counter \ {c} : CounterOk(d)'
    BY <1>7, <2>1 DEF AeoInv, CounterOk, LostOf, Memo
  <2>8. CounterTypes'
    <3>1. \A d \in Counter : (IsFiniteSet(Times(d)) /\ IsFiniteSet(Minutes(d)) /\ IsFiniteSet(LostOf(d)))'
      <4> SUFFICES ASSUME NEW d \in Counter
                   PROVE (IsFiniteSet(Times(d)) /\ IsFiniteSet(Minutes(d)) /\ IsFiniteSet(LostOf(d)))'
        OBVIOUS
      <4>1. CASE d = c BY <1>9, <2>2, <2>3, <2>4, <4>1
      <4>2. CASE d # c
        <5>1. LostOf(d)' = LostOf(d) BY <2>1 DEF LostOf
        <5> QED BY <1>1, <1>7, <4>2, <5>1
      <4> QED BY <4>1, <4>2
    <3>2. \A s \in served' : s.at <= real' /\ s.at \in Nat BY <1>1, <1>3, <1>4
    <3> QED BY <1>1, <1>3, <2>1, <3>1, <3>2 DEF CounterTypes
  <2> QED BY <2>6, <2>7, <2>8 DEF AeoInv
<1>12. CASE ~Memo(c)
  <2>1. /\ recent' = Remembered(c)
        /\ \/ aeo' = [aeo EXCEPT ![c] = aeo[c] + 1] /\ UNCHANGED lost
           \/ lost' = lost \cup {x} /\ UNCHANGED aeo
    BY <1>2, <1>3, <1>5, <1>12 DEF recordAeoFetch, Memo
  <2>2. PICK y : y = [of |-> c, minute |-> clock, at |-> clock] OBVIOUS
  <2>3. /\ recent' \subseteq recent \cup {y}
        /\ \A r \in recent \cup {y} : r.at = clock => r \in recent'
    <3>1. clock - clock <= RecentFor BY <1>1, EdgeConstants
    <3> QED BY <2>1, <2>2, <3>1 DEF Remembered
  <2>4. y.of = c /\ y.minute = clock /\ y.at = clock BY <2>2
  <2>5. Memo(c)' /\ \A d \in Counter : Memo(d) => Memo(d)'
    <3>1. Memo(c)' BY <2>3, <2>4 DEF Memo
    <3>2. \A d \in Counter : Memo(d) => Memo(d)' BY <1>1, <2>3 DEF Memo
    <3> QED BY <3>1, <3>2
  <2>6. /\ IsFiniteSet(ts \cup {real}) /\ Cardinality(ts) \in Nat /\ Cardinality(ts \cup {real}) \in Nat
        /\ Cardinality(ts) <= Cardinality(ts \cup {real})
        /\ Cardinality(ts \cup {real}) = IF real \in ts THEN Cardinality(ts) ELSE Cardinality(ts) + 1
    BY <1>9, GrowsByOne
  <2>7. /\ IsFiniteSet(ms \cup {clock}) /\ Cardinality(ms) \in Nat /\ Cardinality(ms \cup {clock}) \in Nat
        /\ Cardinality(ms \cup {clock}) = IF clock \in ms THEN Cardinality(ms) ELSE Cardinality(ms) + 1
    BY <1>9, GrowsByOne
  <2>8. /\ IsFiniteSet(ls \cup {x}) /\ Cardinality(ls) \in Nat /\ Cardinality(ls \cup {x}) \in Nat
        /\ Cardinality(ls) <= Cardinality(ls \cup {x})
        /\ Cardinality(ls \cup {x}) = IF x \in ls THEN Cardinality(ls) ELSE Cardinality(ls) + 1
    BY <1>9, GrowsByOne
  <2>9. x \in ls => clock \in ms BY <1>1, <1>4, <1>8 DEF LostOf, Minutes, Served
  <2>10. PICK a, l2 : a = aeo'[c] /\ l2 = LostOf(c)' OBVIOUS
  <2>11. \/ a = aeo[c] + 1 /\ l2 = ls
         \/ a = aeo[c] /\ l2 = ls \cup {x}
    <3>1. CASE aeo' = [aeo EXCEPT ![c] = aeo[c] + 1] /\ UNCHANGED lost
      BY <1>1, <1>3, <1>8, <2>10, <3>1 DEF LostOf
    <3>2. CASE lost' = lost \cup {x} /\ UNCHANGED aeo
      BY <1>4, <1>8, <2>10, <3>2 DEF LostOf
    <3> QED BY <2>1, <3>1, <3>2
  <2>12. PICK tn : tn = Cardinality(ts \cup {real}) OBVIOUS
  <2>13. a <= tn + steps /\ a \in Nat
    <3>1. CASE steps = 0 BY <1>9, <1>12, <2>6, <2>11, <2>12, <3>1
    <3>2. CASE steps = 1 BY <1>9, <1>12, <2>6, <2>11, <2>12, <3>2
    <3> QED BY <1>1, <3>1, <3>2
  <2>14. a + Cardinality(l2) >= Cardinality(ms \cup {clock})
    <3>1. CASE a = aeo[c] + 1 /\ l2 = ls BY <1>9, <2>7, <2>8, <3>1
    <3>2. CASE a = aeo[c] /\ l2 = ls \cup {x} BY <1>9, <2>7, <2>8, <2>9, <3>2
    <3> QED BY <2>11, <3>1, <3>2
  <2>15. CounterOk(c)'
    <3>1. Times(c)' = ts \cup {real} /\ Minutes(c)' = ms \cup {clock} BY <1>6, <1>8
    <3> QED BY <2>5, <2>10, <2>12, <2>13, <2>14, <3>1 DEF CounterOk
  <2>16. \A d \in Counter \ {c} : aeo'[d] = aeo[d] /\ LostOf(d)' = LostOf(d)
    BY <1>1, <1>4, <2>1 DEF LostOf
  <2>17. \A d \in Counter \ {c} : CounterOk(d)'
    <3> SUFFICES ASSUME NEW d \in Counter \ {c} PROVE CounterOk(d)' OBVIOUS
    <3>1. CounterOk(d) BY DEF AeoInv
    <3> QED BY <1>7, <2>5, <2>16, <3>1 DEF CounterOk
  <2>18. CounterTypes'
    <3>1. \A d \in Counter : (IsFiniteSet(Times(d)) /\ IsFiniteSet(Minutes(d)) /\ IsFiniteSet(LostOf(d)))'
      <4> SUFFICES ASSUME NEW d \in Counter
                   PROVE (IsFiniteSet(Times(d)) /\ IsFiniteSet(Minutes(d)) /\ IsFiniteSet(LostOf(d)))'
        OBVIOUS
      <4>1. CASE d = c BY <1>6, <1>8, <1>9, <2>6, <2>7, <2>8, <2>10, <2>11, <4>1
      <4>2. CASE d # c BY <1>1, <1>7, <2>16, <4>2
      <4> QED BY <4>1, <4>2
    <3>2. \A s \in served' : s.at <= real' /\ s.at \in Nat BY <1>1, <1>3, <1>4
    <3>3. \A l \in lost' : l \in served' BY <1>1, <1>3, <2>1
    <3>4. \A r \in recent' : r.minute = r.at /\ \E s \in served' : s.of = r.of /\ s.minute = r.minute
      BY <1>1, <1>3, <1>4, <2>3, <2>4
    <3>5. aeo' \in [Counter -> Nat] BY <1>1, <1>3, <2>1
    <3> QED BY <1>1, <3>1, <3>2, <3>3, <3>4, <3>5 DEF CounterTypes
  <2> QED BY <2>15, <2>17, <2>18 DEF AeoInv
<1> QED BY <1>11, <1>12

LEMMA CountersStay == ASSUME AeoInv, UNCHANGED <<counter, served, clock, real, steps>> PROVE AeoInv'
BY DEF AeoInv, CounterTypes, CounterOk, Times, Minutes, Served, LostOf, Memo, counter

LEMMA TickCounts == ASSUME AeoInv, ClockTicks PROVE AeoInv'
<1>1. /\ real' = real + 1 /\ clock' = clock + 1
      /\ UNCHANGED <<recent, aeo, lost, served, steps>>
  BY DEF ClockTicks, counter, proxyHistory
<1>2. \A c \in Counter : Times(c)' = Times(c) /\ Minutes(c)' = Minutes(c) /\ LostOf(c)' = LostOf(c)
  BY <1>1 DEF Times, Minutes, Served, LostOf
<1>3. \A c \in Counter : real' \notin Times(c) BY <1>1 DEF AeoInv, CounterTypes, Times, Served
<1>4. CounterTypes'
  <2>1. \A s \in served : s.at <= real' BY <1>1 DEF AeoInv, CounterTypes
  <2> QED BY <1>1, <1>2, <2>1 DEF AeoInv, CounterTypes
<1>5. \A c \in Counter : CounterOk(c)' BY <1>1, <1>2, <1>3 DEF AeoInv, CounterOk
<1> QED BY <1>4, <1>5 DEF AeoInv

LEMMA StepBackCounts == ASSUME AeoInv, StepBack PROVE AeoInv'
<1>1. /\ steps = 0 /\ steps' = 1 /\ clock' \in Nat
      /\ UNCHANGED <<real, recent, aeo, lost, served>>
  BY DEF StepBack, counter, AeoInv, CounterTypes
<1>2. \A c \in Counter : Times(c)' = Times(c) /\ Minutes(c)' = Minutes(c) /\ LostOf(c)' = LostOf(c)
  BY <1>1 DEF Times, Minutes, Served, LostOf
<1>3. CounterTypes' BY <1>1, <1>2 DEF AeoInv, CounterTypes
<1>4. ASSUME NEW c \in Counter PROVE CounterOk(c)'
  <2>1. CounterOk(c) /\ aeo[c] \in Nat /\ IsFiniteSet(Times(c)) BY DEF AeoInv, CounterTypes
  <2>2. Cardinality(Times(c)) \in Nat BY <2>1, FS_CardinalityType
  <2>3. aeo[c] <= Cardinality(Times(c)) /\ aeo[c] <= Cardinality(Times(c)) + 1
    BY <1>1, <2>1, <2>2 DEF CounterOk
  <2> QED BY <1>1, <1>2, <2>1, <2>3 DEF CounterOk
<1> QED BY <1>3, <1>4 DEF AeoInv

(***************************************************************************)
(* Both together, over every step of the proxy.                            *)
(***************************************************************************)
LEMMA ProxyBegins == Init => ProxyInv /\ AeoInv
<1> SUFFICES ASSUME Init PROVE ProxyInv /\ AeoInv OBVIOUS
<1>1. /\ clock = Start /\ clock \in Nat /\ buckets = [k \in {} |-> 0] /\ recent = {}
      /\ aeo = [c \in Counter |-> 0] /\ answer = Unasked /\ real = 0 /\ steps = 0 /\ requests = 0
      /\ passes = [k \in Account |-> {}] /\ served = {} /\ lost = {}
  BY EdgeConstants DEF Init
<1>2. IsFiniteSet({}) /\ Cardinality({}) = 0 BY FS_EmptySet
<1>3. LimiterTypes
  <2>1. DOMAIN buckets = {} BY <1>1
  <2>2. buckets \in [DOMAIN buckets -> BucketRecord] BY <1>1
  <2>3. \A k \in Account : passes[k] = {} BY <1>1
  <2> QED BY <1>1, <1>2, <2>1, <2>2, <2>3 DEF LimiterTypes
<1>4. \A k \in Account \ excused : ClientOk(k)
  <2> SUFFICES ASSUME NEW k \in Account PROVE ClientOk(k) OBVIOUS
  <2>1. k \notin DOMAIN buckets /\ passes[k] = {} BY <1>1
  <2>2. From({}, real - Window - 1) = {} BY DEF From
  <2>3. NoWindowOk({}, LimitOf(k)) BY <1>2, <2>2, LimitsArePositive DEF NoWindowOk
  <2> QED BY <2>1, <2>3 DEF ClientOk
<1>5. AnswerOk BY <1>1 DEF AnswerOk, Unasked
<1>6. \A c \in Counter : Times(c) = {} /\ Minutes(c) = {} /\ LostOf(c) = {}
  BY <1>1 DEF Times, Minutes, LostOf, Served
<1>7. CounterTypes
  <2>1. aeo \in [Counter -> Nat] BY <1>1
  <2>2. \A c \in Counter : IsFiniteSet(Times(c)) /\ IsFiniteSet(Minutes(c)) /\ IsFiniteSet(LostOf(c))
    BY <1>2, <1>6
  <2>3. /\ \A s \in served : s.at <= real /\ s.at \in Nat
        /\ \A l \in lost : l \in served
        /\ \A r \in recent : r.minute = r.at /\ \E s \in served : s.of = r.of /\ s.minute = r.minute
    BY <1>1
  <2> QED BY <1>1, <2>1, <2>2, <2>3 DEF CounterTypes
<1>8. \A c \in Counter : CounterOk(c)
  <2> SUFFICES ASSUME NEW c \in Counter PROVE CounterOk(c) OBVIOUS
  <2>1. /\ aeo[c] = 0 /\ steps = 0 /\ real \notin Times(c) /\ Cardinality(Times(c)) = 0
        /\ Cardinality(Minutes(c)) = 0 /\ Cardinality(LostOf(c)) = 0
    BY <1>1, <1>2, <1>6
  <2> QED BY <2>1 DEF CounterOk
<1> QED BY <1>3, <1>4, <1>5, <1>7, <1>8 DEF ProxyInv, AeoInv

LEMMA RequestKeeps ==
  ASSUME ProxyInv, AeoInv, NEW p \in Path, NEW ip \in Ip, NEW get \in BOOLEAN, NEW query \in BOOLEAN,
         NEW f \in Family \cup {NoFamily}, Request(p, ip, get, query, f)
  PROVE  ProxyInv' /\ AeoInv'
<1>1. requests' = requests + 1 /\ UNCHANGED <<clock, real, steps>> BY DEF Request
<1>2. requests \in Nat BY DEF ProxyInv, LimiterTypes
<1>3. CASE Class[p] = "none"
  <2>1. /\ answer' = [of |-> <<"none", ip>>,
                      said |-> CASE p = "moved" -> "308" [] p = "gone" -> "410" [] OTHER -> "next",
                      at |-> real]
        /\ UNCHANGED <<limiter, counter, proxyHistory>>
    BY <1>3 DEF Request, Said
  <2>2. answer'.said # "429" BY <2>1
  <2>3. ProxyInv' BY <1>1, <1>2, <2>1, <2>2, UnlimitedKeeps DEF proxyHistory
  <2>4. AeoInv' BY <1>1, <2>1, CountersStay DEF proxyHistory
  <2> QED BY <2>3, <2>4
<1>4. CASE Class[p] # "none"
  <2>1. PICK own : own = <<Class[p], ip>> OBVIOUS
  <2>2. own \in Account BY <2>1 DEF Account
  <2>3. Limited(own, own, p, get, query, f) BY <1>4, <2>1 DEF Request, BucketKey
  <2>4. ProxyInv' BY <1>1, <2>2, <2>3, LimitedKeeps
  <2>5. UNCHANGED <<counter, served>> \/ Through(own, p, get, query, f)
    BY <2>3 DEF Limited
  <2>6. AeoInv'
    <3>1. CASE UNCHANGED <<counter, served>> BY <1>1, <3>1, CountersStay
    <3>2. CASE \E c \in Counter : Fetched(c) BY <1>1, <3>2, FetchKeeps
    <3> QED BY <2>5, <3>1, <3>2, ThroughCounts
  <2> QED BY <2>4, <2>6
<1> QED BY <1>3, <1>4

LEMMA ProxyInvHolds == Spec => [](ProxyInv /\ AeoInv)
<1>1. ProxyInv /\ AeoInv /\ [Next]_vars => (ProxyInv /\ AeoInv)'
  <2> SUFFICES ASSUME ProxyInv, AeoInv, [Next]_vars PROVE ProxyInv' /\ AeoInv' OBVIOUS
  <2>1. CASE \E p \in Path, ip \in Ip, get, query \in BOOLEAN, f \in Family \cup {NoFamily} :
               Request(p, ip, get, query, f)
    BY <2>1, RequestKeeps
  <2>2. CASE ClockTicks BY <2>2, TickKeeps, TickCounts
  <2>3. CASE StepBack BY <2>3, StepBackKeeps, StepBackCounts
  <2>4. CASE UNCHANGED vars
    <3>1. /\ UNCHANGED <<limiter, passes, excused, clock, real, steps>> /\ requests' = requests
          /\ answer' = answer /\ UNCHANGED <<counter, served>>
      BY <2>4 DEF vars, proxyHistory
    <3>2. requests \in Nat BY DEF ProxyInv, LimiterTypes
    <3>3. ProxyInv' BY <3>1, <3>2, UnlimitedKeeps
    <3>4. AeoInv' BY <3>1, CountersStay
    <3> QED BY <3>3, <3>4
  <2> QED BY <2>1, <2>2, <2>3, <2>4 DEF Next
<1> QED BY <1>1, ProxyBegins, PTL DEF Spec

\* The passes of a Window and the tick after it: those of the client's window and those
\* of the Window before it began.
LEMMA TwoWindows ==
  ASSUME ProxyInv, NEW k \in Account \ excused
  PROVE  Cardinality(PassedSince(k, real - Window - 1)) <= 2 * LimitOf(k)
<1>1. LimiterTypes /\ ClientOk(k) BY DEF ProxyInv
<1>2. PICK s, n : s = passes[k] /\ n = LimitOf(k) OBVIOUS
<1>3. s \in SUBSET PassRecord /\ IsFiniteSet(s) /\ n \in Nat
  BY <1>1, <1>2, LimitsArePositive DEF LimiterTypes
<1>4. PassedSince(k, real - Window - 1) = From(s, real - Window - 1) BY <1>2 DEF PassedSince, From
<1>5. CASE k \notin DOMAIN buckets
  <2>1. Cardinality(From(s, real - Window - 1)) <= n BY <1>1, <1>2, <1>5 DEF ClientOk, NoWindowOk
  <2>2. Cardinality(From(s, real - Window - 1)) \in Nat BY <1>3, FromIsFinite
  <2> QED BY <1>2, <1>3, <1>4, <2>1, <2>2
<1>6. CASE k \in DOMAIN buckets
  <2>1. PICK b : b = buckets[k] OBVIOUS
  <2>2. b \in BucketRecord /\ WindowOk(s, b, n)
    BY <1>1, <1>2, <1>6, <2>1 DEF ClientOk, LimiterTypes
  <2>3. PICK g : g = Began(b) OBVIOUS
  <2>4. PICK e, h, d : /\ e = Between2(s, g - Window - 1, g) /\ h = From(s, g)
                       /\ d = From(s, real - Window - 1)
    OBVIOUS
  <2>5. clock \in Nat /\ real \in Nat /\ b.start \in Nat /\ b.start <= clock
    BY <1>1, <2>2 DEF LimiterTypes, BucketRecord, WindowOk
  <2>6. g \in Int /\ g <= real BY <2>3, <2>5 DEF Began
  <2>7. d \subseteq e \cup h
    <3> SUFFICES ASSUME NEW x \in d PROVE x \in e \cup h OBVIOUS
    <3>1. x \in s /\ x.at \in Nat /\ x.at >= real - Window - 1 BY <1>3, <2>4 DEF From, PassRecord
    <3>2. x.at >= g - Window - 1 BY <2>5, <2>6, <3>1, EdgeConstants
    <3>3. x.at >= g \/ x.at < g BY <2>6, <3>1
    <3> QED BY <2>4, <3>1, <3>2, <3>3 DEF From, Between2
  <2>8. /\ IsFiniteSet(e) /\ Cardinality(e) \in Nat /\ IsFiniteSet(h) /\ Cardinality(h) \in Nat
    BY <1>3, <2>4, FromIsFinite
  <2>9. Cardinality(e) <= n /\ Cardinality(h) <= n BY <2>2, <2>3, <2>4 DEF WindowOk
  <2>10. PICK w : w = e \cup h OBVIOUS
  <2>11. IsFiniteSet(w) /\ Cardinality(w) \in Nat /\ Cardinality(w) <= Cardinality(e) + Cardinality(h)
    <3>1. PICK v : v = e \cap h OBVIOUS
    <3>2. v \subseteq e BY <3>1
    <3>3. IsFiniteSet(v) /\ Cardinality(v) \in Nat BY <2>8, <3>2, FS_Subset, FS_CardinalityType
    <3>4. IsFiniteSet(w) /\ Cardinality(w) = Cardinality(e) + Cardinality(h) - Cardinality(v)
      BY <2>8, <2>10, <3>1, FS_Union
    <3> QED BY <2>8, <3>3, <3>4, FS_CardinalityType
  <2>12. Cardinality(d) <= Cardinality(w) /\ Cardinality(d) \in Nat
    BY <2>7, <2>10, <2>11, FS_Subset, FS_CardinalityType
  <2> QED BY <1>2, <1>3, <1>4, <2>4, <2>8, <2>9, <2>11, <2>12
<1> QED BY <1>5, <1>6

\* No client gets more than two windows' worth past the limiter, or is refused but for what
\* it was let through itself, unless its window was cut short; and the crawler counters say
\* what was served, but for a failed write.  (proxy.ts:29-120, aeoCounter.ts:140-180)
THEOREM ProxyIsAlwaysFair == Spec => []ProxyIsFair
<1>1. ProxyInv /\ AeoInv => ProxyIsFair
  <2> SUFFICES ASSUME ProxyInv, AeoInv PROVE ProxyIsFair OBVIOUS
  <2>1. answer.said = "429" =>
          \/ answer.of \in excused
          \/ Cardinality(PassedSince(answer.of, answer.at - Window)) >= LimitOf(answer.of)
    BY DEF ProxyInv, AnswerOk, PassedSince, From
  <2>2. CountsAreHonest
    <3> SUFFICES ASSUME NEW c \in Counter
                 PROVE /\ aeo[c] <= Cardinality(Times(c)) + steps
                       /\ aeo[c] + Cardinality(LostOf(c)) >= Cardinality(Minutes(c))
      BY DEF CountsAreHonest, Times, Minutes, LostOf, Served
    <3> QED BY DEF AeoInv, CounterOk
  <2> QED BY <2>1, <2>2, TwoWindows DEF ProxyIsFair, LimitIsTheClients
<1> QED BY <1>1, ProxyInvHolds, PTL

(***************************************************************************)
(* The scan page.  An entry's line is a sequence of words of any length;   *)
(* what masks it and what takes it apart recur over it, and are reasoned   *)
(* about by a least counterexample.                                        *)
(***************************************************************************)
LEMMA LeastNat == ASSUME NEW T, T \subseteq Nat, T # {} PROVE \E n \in T : \A m \in T : n <= m
<1>0. PICK R : R = OpToRel(<, Nat) OBVIOUS
<1>1. IsWellFoundedOn(R, Nat) BY <1>0, NatLessThanWellFounded
<1>2. PICK n \in T : \A m \in T : ~(<<m, n>> \in R) BY <1>1, WFMin
<1>3. ASSUME NEW m \in T PROVE n <= m
  <2>1. m \in Nat /\ n \in Nat OBVIOUS
  <2>2. m < n => <<m, n>> \in R BY <1>0, <2>1 DEF OpToRel
  <2> QED BY <1>2, <2>1, <2>2
<1> QED BY <1>3

\* Which words are the value of the flag before them, among the first n.
Values(ws, f, n) ==
  f = [i \in 0..n |-> i > 1 /\ ~f[i - 1] /\ ws[i - 1] \in LikeFlag /\ ws[i] \notin Dashed]

LEMMA ValuesExist == ASSUME NEW ws, NEW n \in Nat PROVE \E f : Values(ws, f, n)
<1> DEFINE None == {m \in Nat : ~ \E f : Values(ws, f, m)}
<1>1. SUFFICES ASSUME None # {} PROVE FALSE OBVIOUS
<1>2. PICK m \in None : \A k \in None : m <= k BY <1>1, LeastNat
<1>3. m \in Nat /\ ~ \E f : Values(ws, f, m) BY <1>2
<1>4. CASE m = 0
  <2>1. Values(ws, [i \in 0..0 |-> FALSE], 0)
    <3>1. ASSUME NEW i \in 0..0 PROVE ~(i > 1) OBVIOUS
    <3> QED BY <3>1 DEF Values
  <2> QED BY <1>3, <1>4, <2>1
<1>5. CASE m # 0
  <2>1. m - 1 \in Nat /\ ~(m <= m - 1) BY <1>3, <1>5
  <2>2. m - 1 \notin None BY <1>2, <2>1
  <2>3. PICK f : Values(ws, f, m - 1) BY <2>1, <2>2
  <2>4. PICK last : last = (m > 1 /\ ~f[m - 1] /\ ws[m - 1] \in LikeFlag /\ ws[m] \notin Dashed) OBVIOUS
  <2>5. PICK g : g = [i \in 0..m |-> IF i = m THEN last ELSE f[i]] OBVIOUS
  <2>6. ASSUME NEW i \in 0..m
        PROVE  g[i] = (i > 1 /\ ~g[i - 1] /\ ws[i - 1] \in LikeFlag /\ ws[i] \notin Dashed)
    <3>1. CASE i = m
      <4>1. g[i] = last BY <2>5, <3>1
      <4>2. i > 1 => g[i - 1] = f[i - 1] BY <2>5, <3>1, <1>3
      <4> QED BY <2>4, <3>1, <4>1, <4>2
    <3>2. CASE i # m
      <4>1. i \in 0..(m - 1) BY <1>3, <3>2
      <4>2. g[i] = f[i] BY <2>5, <3>2
      <4>3. i > 1 => g[i - 1] = f[i - 1] BY <2>5, <1>3, <4>1
      <4>4. f[i] = (i > 1 /\ ~f[i - 1] /\ ws[i - 1] \in LikeFlag /\ ws[i] \notin Dashed)
        BY <2>3, <4>1 DEF Values
      <4> QED BY <4>2, <4>3, <4>4
    <3> QED BY <3>1, <3>2
  <2>7. g = [i \in 0..m |-> g[i]] BY <2>5
  <2>8. Values(ws, g, m) BY <2>6, <2>7 DEF Values
  <2> QED BY <1>3, <2>8
<1> QED BY <1>4, <1>5

\* What redactArgs makes of a line: the value of a flag is a mask, as is a token.
LEMMA Redacted ==
  ASSUME NEW S, NEW ws \in Seq(S), NEW out, out = redactArgs(ws)
  PROVE  /\ DOMAIN out = 1..Len(ws)
         /\ \E f : /\ Values(ws, f, Len(ws))
                   /\ out = [j \in DOMAIN ws |->
                               IF f[j] \/ ws[j] \in TokenShaped THEN Mask
                               ELSE IF ws[j] \in DOMAIN Joined THEN Joined[ws[j]] ELSE ws[j]]
<1> DEFINE value[j \in 0..Len(ws)] ==
      j > 1 /\ ~value[j - 1] /\ ws[j - 1] \in LikeFlag /\ ws[j] \notin Dashed
<1>0. Len(ws) \in Nat OBVIOUS
<1>1. \E f : Values(ws, f, Len(ws)) BY <1>0, ValuesExist
<1>2. Values(ws, value, Len(ws)) BY <1>1 DEF Values
<1>3. out = [j \in DOMAIN ws |->
               IF value[j] \/ ws[j] \in TokenShaped THEN Mask
               ELSE IF ws[j] \in DOMAIN Joined THEN Joined[ws[j]] ELSE ws[j]]
  BY DEF redactArgs
<1> QED BY <1>2, <1>3

\* The words up to each are the words up to the one before, and it.
WordsUpTo(x, f) ==
  f = [i \in 1..Len(x) |-> IF i = 1 THEN <<x[i]>> ELSE f[i - 1] \o <<x[i]>>]

LEMMA FirstPrefix ==
  ASSUME NEW S, NEW x \in Seq(S), 1 <= Len(x)
  PROVE  SubSeq(x, 1, 1) = <<x[1]>>
<1>1. Len(x) \in Nat /\ 1 \in 1..Len(x) OBVIOUS
<1>2. PICK y : y = SubSeq(x, 1, 1) OBVIOUS
<1>3. y \in Seq(S) /\ Len(y) = 1 /\ y[1] = x[1] BY <1>1, <1>2
<1>4. y = <<y[1]>> BY <1>3
<1> QED BY <1>2, <1>3, <1>4

\* What each is the flattening of a row up to.
Flattens(seqs, f) ==
  f = [i \in 1..Len(seqs) |-> IF i = 1 THEN seqs[i] ELSE f[i - 1] \o seqs[i]]

LEMMA PrefixGrows ==
  ASSUME NEW S, NEW x \in Seq(S), NEW i \in 2..Len(x)
  PROVE  SubSeq(x, 1, i) = SubSeq(x, 1, i - 1) \o <<x[i]>>
<1>1. Len(x) \in Nat /\ i \in Nat /\ i - 1 \in 1..Len(x) /\ i \in 1..Len(x) OBVIOUS
<1>2. SubSeq(x, 1, i) = [j \in 1..i |-> x[j]] BY <1>1
<1>3. SubSeq(x, 1, i - 1) = [j \in 1..(i - 1) |-> x[j]] BY <1>1
<1>4. SubSeq(x, 1, i - 1) \in Seq(S) /\ Len(SubSeq(x, 1, i - 1)) = i - 1 BY <1>1
<1> QED BY <1>1, <1>2, <1>3, <1>4

LEMMA PrefixesAre ==
  ASSUME NEW S, NEW x \in Seq(S), x # <<>>, NEW f, WordsUpTo(x, f)
  PROVE  f[Len(x)] = x
<1>1. Len(x) \in Nat /\ Len(x) # 0 OBVIOUS
<1> DEFINE Wrong == {k \in 1..Len(x) : f[k] # SubSeq(x, 1, k)}
<1>2. Wrong = {}
  <2>1. SUFFICES ASSUME Wrong # {} PROVE FALSE OBVIOUS
  <2>0. Wrong \subseteq Nat BY <1>1
  <2>2. PICK m \in Wrong : \A k \in Wrong : m <= k BY <2>0, <2>1, LeastNat
  <2>3. m \in 1..Len(x) /\ f[m] # SubSeq(x, 1, m) BY <2>2
  <2>4. f[m] = IF m = 1 THEN <<x[m]>> ELSE f[m - 1] \o <<x[m]>> BY <2>3 DEF WordsUpTo
  <2>5. CASE m = 1
    <3>1. SubSeq(x, 1, 1) = <<x[1]>> BY <1>1, FirstPrefix
    <3> QED BY <2>3, <2>4, <2>5, <3>1
  <2>6. CASE m # 1
    <3>1. m \in 2..Len(x) /\ m - 1 \in 1..Len(x) /\ ~(m <= m - 1) BY <1>1, <2>3, <2>6
    <3>2. f[m - 1] = SubSeq(x, 1, m - 1) BY <2>2, <3>1
    <3>3. SubSeq(x, 1, m) = SubSeq(x, 1, m - 1) \o <<x[m]>> BY <3>1, PrefixGrows
    <3> QED BY <2>3, <2>4, <2>6, <3>2, <3>3
  <2> QED BY <2>5, <2>6
<1>3. f[Len(x)] = SubSeq(x, 1, Len(x)) BY <1>1, <1>2
<1>4. SubSeq(x, 1, Len(x)) = x BY <1>1
<1> QED BY <1>3, <1>4

\* A line none of whose words comes apart is what splitting it leaves.
LEMMA SplitWhole ==
  ASSUME NEW S, NEW x \in Seq(S), x # <<>>, NEW seqs, seqs = [i \in DOMAIN x |-> <<x[i]>>]
  PROVE  FlattenSeq(seqs) = x
<1>0. Len(x) \in Nat /\ Len(x) # 0 /\ DOMAIN x = 1..Len(x) OBVIOUS
<1>1. Len(seqs) = Len(x) BY <1>0
<1>2. \A i \in 1..Len(x) : seqs[i] = <<x[i]>> BY <1>0
<1> DEFINE flatten[i \in 1..Len(seqs)] == IF i = 1 THEN seqs[i] ELSE flatten[i - 1] \o seqs[i]
<1>3. FlattenSeq(seqs) = flatten[Len(seqs)] BY <1>0, <1>1 DEF FlattenSeq
<1>4. \E f : Flattens(seqs, f)
  <2>1. PICK f : f = [i \in 1..Len(x) |-> SubSeq(x, 1, i)] OBVIOUS
  <2>2. ASSUME NEW i \in 1..Len(seqs)
        PROVE  f[i] = IF i = 1 THEN seqs[i] ELSE f[i - 1] \o seqs[i]
    <3>1. CASE i = 1
      <4>1. SubSeq(x, 1, 1) = <<x[1]>> BY <1>0, FirstPrefix
      <4> QED BY <1>1, <1>2, <2>1, <3>1, <4>1
    <3>2. CASE i # 1
      <4>1. i \in 2..Len(x) /\ i - 1 \in 1..Len(x) BY <1>0, <1>1, <3>2
      <4>2. SubSeq(x, 1, i) = SubSeq(x, 1, i - 1) \o <<x[i]>> BY <4>1, PrefixGrows
      <4> QED BY <1>1, <1>2, <2>1, <3>2, <4>1, <4>2
    <3> QED BY <3>1, <3>2
  <2>3. Flattens(seqs, f) BY <1>1, <2>1, <2>2 DEF Flattens
  <2> QED BY <2>3
<1>5. Flattens(seqs, flatten) BY <1>4 DEF Flattens
<1>6. PICK f : f = flatten OBVIOUS
<1>7. f = [i \in 1..Len(x) |-> IF i = 1 THEN <<x[i]>> ELSE f[i - 1] \o <<x[i]>>]
  BY <1>1, <1>2, <1>5, <1>6 DEF Flattens
<1>8. f[Len(x)] = x BY <1>7, PrefixesAre DEF WordsUpTo
<1> QED BY <1>1, <1>3, <1>6, <1>8

\* No credential a pattern knows is shown, nor the value of a flag that is.
LEMMA MasksHide ==
  ASSUME NEW S, NEW ws \in Seq(S), NEW out, out = redactArgs(ws), NEW i \in DOMAIN out
  PROVE  /\ i \in 1..Len(ws) /\ out[i] \notin {"sk", "--api-key=v"}
         /\ i > 1 /\ out[i] = "v" => out[i - 1] # "--api-key"
<1>1. PICK f : /\ Values(ws, f, Len(ws))
               /\ out = [j \in DOMAIN ws |->
                            IF f[j] \/ ws[j] \in TokenShaped THEN Mask
                            ELSE IF ws[j] \in DOMAIN Joined THEN Joined[ws[j]] ELSE ws[j]]
  BY Redacted
<1>2. i \in 1..Len(ws) /\ DOMAIN out = 1..Len(ws) /\ Len(ws) \in Nat BY <1>1
<1>3. ASSUME NEW j \in 1..Len(ws)
      PROVE  \/ out[j] \in {Mask, "--api-key=***", "auth-server=***"}
             \/ out[j] = ws[j] /\ ~f[j] /\ ws[j] \notin {"sk", "--api-key=v"}
  <2>1. out[j] = IF f[j] \/ ws[j] \in TokenShaped THEN Mask
                 ELSE IF ws[j] \in DOMAIN Joined THEN Joined[ws[j]] ELSE ws[j] BY <1>1, <1>2
  <2>2. DOMAIN Joined = {"--api-key=v", "auth-server==1"} BY DEF Joined
  <2>3. \A w \in DOMAIN Joined : Joined[w] \in {"--api-key=***", "auth-server=***"} BY DEF Joined
  <2> QED BY <2>1, <2>2, <2>3 DEF TokenShaped
<1>4. out[i] \notin {"sk", "--api-key=v"} BY <1>2, <1>3 DEF Mask
<1>5. ASSUME i > 1, out[i] = "v", out[i - 1] = "--api-key" PROVE FALSE
  <2>1. i - 1 \in 1..Len(ws) /\ i \in 0..Len(ws) BY <1>2, <1>5
  <2>2. ws[i] = "v" /\ ~f[i] BY <1>2, <1>3, <1>5 DEF Mask
  <2>3. ws[i - 1] = "--api-key" /\ ~f[i - 1] BY <1>3, <1>5, <2>1 DEF Mask
  <2>4. f[i] = (i > 1 /\ ~f[i - 1] /\ ws[i - 1] \in LikeFlag /\ ws[i] \notin Dashed)
    BY <1>1, <2>1 DEF Values
  <2>5. ws[i - 1] \in LikeFlag /\ ws[i] \notin Dashed BY <2>2, <2>3 DEF LikeFlag, Dashed
  <2> QED BY <1>5, <2>2, <2>3, <2>4, <2>5
<1> QED BY <1>2, <1>4, <1>5

\* A line of which nothing is counted holds no credential.
LEMMA UncountedIsClean ==
  ASSUME NEW S, NEW ws \in Seq(S), foundInArgs(ws) = {}, NEW i \in DOMAIN ws
  PROVE  /\ ws[i] \notin {"sk", "--api-key=v"}
         /\ ~(i > 1 /\ ws[i] = "v" /\ ws[i - 1] = "--api-key")
<1>1. PICK out : out = redactArgs(ws) OBVIOUS
<1>2. \A j \in DOMAIN ws : out[j] = ws[j] BY <1>1 DEF foundInArgs
<1>3. Len(ws) \in Nat /\ DOMAIN ws = 1..Len(ws) /\ i \in 1..Len(ws) OBVIOUS
<1>4. DOMAIN out = 1..Len(ws) BY <1>1, <1>3, Redacted
<1>5. /\ out[i] \notin {"sk", "--api-key=v"}
      /\ i > 1 /\ out[i] = "v" => out[i - 1] # "--api-key" BY <1>1, <1>3, <1>4, MasksHide
<1>6. i > 1 => i - 1 \in DOMAIN ws BY <1>3
<1> QED BY <1>2, <1>5, <1>6

(***************************************************************************)
(* What an entry can be.                                                   *)
(***************************************************************************)
SomeEntries ==
  [type: {"none", "stdio", "http"}, command: Spawned \cup {NoCommand}, args: Seq(Arguments),
   url: Urls \cup {NoUrl}, spots: SUBSET Spots]

ConfigShape == entry \in SomeEntries /\ wiring \in Wirings \cup {"none"}

\* An entry keeps its shape however it is edited, wired and unwired.
LEMMA ShapeKept == ConfigSpec => []ConfigShape
<1>1. ConfigInit => ConfigShape BY DEF ConfigInit, ConfigShape, SomeEntries
<1>2. ConfigShape /\ [ConfigNext]_configVars => ConfigShape'
  <2> SUFFICES ASSUME ConfigShape, [ConfigNext]_configVars PROVE ConfigShape' OBVIOUS
  <2> USE DEF ConfigShape
  <2>1. CASE Rewrite
    <3>1. CASE \E c \in Spawned : entry' = [entry EXCEPT !.command = c]
      BY <2>1, <3>1 DEF Rewrite, SomeEntries
    <3>2. CASE \E w \in Arguments : entry' = [entry EXCEPT !.args = Append(@, w)]
      <4>1. PICK w \in Arguments : entry' = [entry EXCEPT !.args = Append(@, w)] BY <3>2
      <4>2. Append(entry.args, w) \in Seq(Arguments) BY DEF SomeEntries
      <4> QED BY <2>1, <4>1, <4>2 DEF Rewrite, SomeEntries
    <3>3. CASE \E u \in Urls : entry.url = NoUrl /\ entry' = [entry EXCEPT !.url = u]
      BY <2>1, <3>3 DEF Rewrite, SomeEntries
    <3>4. CASE \E s \in Spots : entry' = [entry EXCEPT !.spots = @ \cup {s}]
      BY <2>1, <3>4 DEF Rewrite, SomeEntries
    <3>5. CASE \E ty \in {"stdio", "http"} : entry' = [entry EXCEPT !.type = ty]
      BY <2>1, <3>5 DEF Rewrite, SomeEntries
    <3> QED BY <2>1, <3>1, <3>2, <3>3, <3>4, <3>5 DEF Rewrite
  <2>2. CASE Wire BY <2>2 DEF Wire
  <2>3. CASE Unwire BY <2>3 DEF Unwire
  <2>4. CASE UNCHANGED configVars BY <2>4 DEF configVars
  <2> QED BY <2>1, <2>2, <2>3, <2>4 DEF ConfigNext
<1> QED BY <1>1, <1>2, PTL DEF ConfigSpec

\* The line of an entry is a sequence of words, the command first.
LEMMA LineIs ==
  ASSUME ConfigShape
  PROVE  /\ Line \in Seq(Arguments \cup {entry.command}) /\ Line # <<>>
         /\ Tail(Line) = entry.args /\ Whole(Bare) = Line
<1>1. entry.args \in Seq(Arguments) BY DEF ConfigShape, SomeEntries
<1>2. PICK c, xs : c = entry.command /\ xs = entry.args OBVIOUS
<1>3. PICK S : S = Arguments \cup {c} OBVIOUS
<1>4. xs \in Seq(S) /\ <<c>> \in Seq(S) BY <1>1, <1>2, <1>3
<1>5. <<c>> \o xs \in Seq(S) /\ <<c>> \o xs # <<>> BY <1>4
<1>6. Tail(<<c>> \o xs) = xs BY <1>4
<1>7. Line = <<c>> \o xs BY <1>2 DEF Line
<1>8. Whole(Bare) = Line BY DEF Whole, Bare, Line
<1> QED BY <1>2, <1>3, <1>5, <1>6, <1>7, <1>8

\* Behind the gate, by the marker or by the joined words, it is the entry's line that is
\* judged, where every word of it is kept.
LEMMA GateIsLookedThrough ==
  ASSUME ConfigShape, wiring \in {"marker", "joined"}, PlainLine, entry.args # <<>>
  PROVE  Judged(Wired(wiring)) = Judged(Bare)
<1>1. PICK def : def = Wired(wiring) OBVIOUS
<1>2. PICK bare : bare = Bare OBVIOUS
<1>3. PICK line : line = Line OBVIOUS
<1>4. line # <<>> /\ Tail(line) = entry.args /\ Whole(bare) = line BY <1>2, <1>3, LineIs
<1>5. unwrapGate(def) = line
  <2>1. CASE wiring = "marker"
    BY <1>1, <1>3, <1>4, <2>1 DEF Wired, Launched, Bare, unwrapGate
  <2>2. CASE wiring = "joined"
    BY <1>1, <1>3, <1>4, <2>2 DEF Wired, Launched, Bare, unwrapGate
  <2> QED BY <2>1, <2>2
<1>6. unwrapGate(bare) = <<>> BY <1>2 DEF Bare, unwrapGate
<1>7. \A i \in DOMAIN line : Pieces(redactArgs(line)[i]) = <<line[i]>> BY <1>3 DEF PlainLine
<1>8. PICK S : line \in Seq(S) BY <1>3, LineIs
<1>9. FlattenSeq([i \in DOMAIN line |-> Pieces(redactArgs(line)[i])]) = line
  <2>1. PICK seqs : seqs = [i \in DOMAIN line |-> Pieces(redactArgs(line)[i])] OBVIOUS
  <2>2. seqs = [i \in DOMAIN line |-> <<line[i]>>] BY <1>7, <2>1
  <2> QED BY <1>4, <1>8, <2>1, <2>2, SplitWhole
<1>10. Effective(def) = line BY <1>4, <1>5, <1>9 DEF Effective
<1>11. Effective(bare) = line BY <1>4, <1>6 DEF Effective
<1>12. Tail(line) # <<>> BY <1>4
<1>13. Judged(def) = [runs |-> redactArgs(line),
                      fetchesAtLaunch |-> fetchesAtLaunchFrom(Head(line), Tail(line)),
                      pathScope |-> pathScopeOf(Tail(line))]
  BY <1>4, <1>5, <1>10, <1>12 DEF Judged
<1>14. Judged(bare) = [runs |-> redactArgs(line),
                       fetchesAtLaunch |-> fetchesAtLaunchFrom(Head(line), Tail(line)),
                       pathScope |-> pathScopeOf(Tail(line))]
  BY <1>4, <1>6, <1>11, <1>12 DEF Judged
<1> QED BY <1>1, <1>2, <1>13, <1>14

\* What an entry runs is a line of words, whatever it is wired by.
LEMMA RunsAreWords ==
  ASSUME ConfigShape
  PROVE  \E ws, S : ws \in Seq(S) /\ Judged(Wired(wiring)).runs = redactArgs(ws)
<1>1. PICK c, xs : c = entry.command /\ xs = entry.args OBVIOUS
<1>2. xs \in Seq(Arguments) BY <1>1 DEF ConfigShape, SomeEntries
<1>3. PICK S : Line \in Seq(S) BY LineIs
<1>4. PICK def : def = Wired(wiring) OBVIOUS
<1>5. Judged(def).runs = redactArgs(IF unwrapGate(def) = <<>> THEN Whole(def) ELSE unwrapGate(def))
  BY DEF Judged
<1>6. CASE wiring \in {"marker", "joined"}
  <2>1. unwrapGate(def) = Line
    BY <1>4, <1>6, LineIs DEF Wired, Launched, Bare, unwrapGate
  <2>2. Judged(def).runs = redactArgs(Line) BY <1>5, <2>1, LineIs
  <2> QED BY <1>3, <1>4, <2>2
<1>7. CASE wiring = "none"
  <2>1. unwrapGate(def) = <<>> BY <1>4, <1>7 DEF Wired, Bare, unwrapGate
  <2>2. Whole(def) = Line BY <1>4, <1>7, LineIs DEF Wired
  <2> QED BY <1>3, <1>4, <1>5, <2>1, <2>2
<1>8. CASE wiring = "docs"
  <2>1. unwrapGate(def) = xs BY <1>1, <1>4, <1>8 DEF Wired, Launched, Bare, unwrapGate
  <2>2. CASE xs # <<>>
    <3>1. Judged(def).runs = redactArgs(xs) BY <1>5, <2>1, <2>2
    <3> QED BY <1>2, <1>4, <3>1
  <2>3. CASE xs = <<>>
    <3>1. PICK gate : gate = DocsGate OBVIOUS
    <3>2. Whole(def) = <<"uvx">> \o gate
      BY <1>4, <1>8, <3>1 DEF Wired, Launched, Bare, Whole
    <3>3. PICK ws, W : ws = <<"uvx">> \o gate /\ ws \in Seq(W)
      <4>1. PICK W : W = {"uvx", "--from", "mcpindex-gate", "mcpindex-proxy", "--mcpindex-stdio",
                          "--upstream-command", c} OBVIOUS
      <4>2. gate = <<"--from", "mcpindex-gate", "mcpindex-proxy", "--mcpindex-stdio",
                     "--upstream-command", c>> BY <1>1, <3>1 DEF DocsGate
      <4>3. gate \in Seq(W) /\ <<"uvx">> \in Seq(W) BY <4>1, <4>2
      <4>4. <<"uvx">> \o gate \in Seq(W) BY <4>3
      <4> QED BY <4>4
    <3>4. Judged(def).runs = redactArgs(ws) BY <1>5, <2>1, <2>3, <3>2, <3>3
    <3> QED BY <1>4, <3>3, <3>4
  <2> QED BY <2>2, <2>3
<1> QED BY <1>6, <1>7, <1>8, ConfigConstants DEF ConfigShape

\* What the scan page says of an entry.
LEMMA ShapeIsHonest == ConfigShape => ScanIsHonest
<1> SUFFICES ASSUME ConfigShape PROVE ScanIsHonest OBVIOUS
<1>1. PICK def : def = Wired(wiring) OBVIOUS
<1>2. ASSUME wiring \in {"marker", "joined"}, PlainLine PROVE WiringKeepsFindings
  BY <1>2, GateIsLookedThrough DEF WiringKeepsFindings
<1>3. ASSUME NEW i \in DOMAIN Judged(def).runs
      PROVE  /\ Judged(def).runs[i] \notin {"sk", "--api-key=v"}
             /\ i > 1 /\ Judged(def).runs[i] = "v" => Judged(def).runs[i - 1] # "--api-key"
  <2>1. PICK out : out = Judged(def).runs OBVIOUS
  <2>2. PICK ws, S : ws \in Seq(S) /\ out = redactArgs(ws) BY <1>1, <2>1, RunsAreWords
  <2>3. i \in DOMAIN out BY <2>1
  <2>4. /\ out[i] \notin {"sk", "--api-key=v"}
        /\ i > 1 /\ out[i] = "v" => out[i - 1] # "--api-key"
    BY <2>2, <2>3, MasksHide
  <2> QED BY <2>1, <2>4
<1>4. ASSUME secretsInFile(def) = {}, NEW s \in entry.spots, s.value \in {"plain", "scheme"}
      PROVE  s \notin secretSpots(entry.spots)
  <2>1. spotted(literalSpots(entry.spots)) = {} BY <1>4 DEF secretsInFile
  <2>2. literalSpots(entry.spots) = {} BY <2>1 DEF spotted
  <2> QED BY <1>4, <2>2 DEF literalSpots
<1>5. ASSUME secretsInFile(def) = {}, wiring = "none", entry.command # NoCommand
      PROVE  CredentialWords = {}
  <2>1. def = Bare BY <1>1, <1>5 DEF Wired
  <2>2. InCommand(def) = foundInArgs(Line) BY <1>5, <2>1, LineIs DEF InCommand, Bare
  <2>3. foundInArgs(Line) = {} BY <1>5, <2>2 DEF secretsInFile
  <2>4. PICK line : line = Line OBVIOUS
  <2>5. PICK S : line \in Seq(S) BY <2>4, LineIs
  <2>6. ASSUME NEW i \in DOMAIN line
        PROVE  /\ line[i] \notin {"sk", "--api-key=v"}
               /\ ~(i > 1 /\ line[i] = "v" /\ line[i - 1] = "--api-key")
    BY <2>3, <2>4, <2>5, UncountedIsClean
  <2> QED BY <2>4, <2>6 DEF CredentialWords
<1>6. isInsecureTransport => reachOf = "internet" BY DEF isInsecureTransport, reachOf
<1> QED BY <1>1, <1>2, <1>3, <1>4, <1>5, <1>6 DEF ScanIsHonest

\* What the scan page says of an entry is true of it: behind the gate it is judged as it was
\* before where its line survives being masked and split, no credential of a command line is
\* shown, one that is said to keep its credentials in an environment variable holds none in
\* the file, and plaintext http is said only of what reaches the internet (parse.ts:244-271,
\* 312-352, 401-435).
THEOREM ScanIsAlwaysHonest == ConfigSpec => []ScanIsHonest
BY ShapeKept, ShapeIsHonest, PTL
=============================================================================
