----------------------------- MODULE LedgerPaging -----------------------------
(***************************************************************************)
(* The paged drift ledger, schema /4: the route that serves one page per   *)
(* request (app/api/v1/ledger/route.ts over lib/ledgerServer.ts and        *)
(* lib/ledgerV4.ts), the client that walks a section to its last page      *)
(* (lib/ledgerV4Client.ts) and the job that keeps what two walks agree on  *)
(* (scripts/build-indexable-servers.ts).                                   *)
(*                                                                         *)
(* The drain that publishes is not in this repository: it writes the pages *)
(* of a generation, then the index, and lets the pages of the generation   *)
(* it replaced expire.  It runs while the reader walks, and between the    *)
(* two Redis reads of one request.  A page stands for its rows.            *)
(***************************************************************************)
EXTENDS Integers, Sequences

CONSTANTS
  Gens,        \* generations are 1..Gens in order of publication; a bound
  Pages,       \* Pages[g][s]: the pages of section s in generation g
  PageTtl,     \* how long a superseded generation's pages live, in ticks
  MaxAge,      \* the age at which the index is stale, in ticks
  Horizon,     \* the last tick; a bound
  MaxRetries,  \* MAX_RATE_LIMIT_RETRIES
  MaxPages,    \* MAX_WALK_PAGES
  Faults,      \* what may go wrong with a request, in a bad stretch
  Nothing

Sections == <<"events", "context_events">>
Section == {Sections[i] : i \in DOMAIN Sections}

\* limited: 429; failed: a Redis read throws, or the request is lost; dropped: a
\* malformed row is dropped from a page; refused: the job's other checks fail.
AllFaults == {"limited", "failed", "dropped", "refused"}

ASSUME LedgerConstants ==
  /\ Gens \in Nat \ {0} /\ Pages \in [1..Gens -> [Section -> Nat]]
  /\ PageTtl \in Nat \ {0} /\ MaxAge \in Nat /\ Horizon \in Nat
  /\ MaxRetries \in Nat /\ MaxPages \in Nat
  /\ Faults \subseteq AllFaults

VARIABLES
  now,
  written,   \* the generation whose pages were written last
  index,     \* drift:ledger:v4:index: its generation and when it was SET
  until,     \* when each generation's pages go, Never while it is the latest
  w,         \* the walk under way
  got,       \* the job's finished walks, one per section
  kept,      \* data/indexable-servers.json, as the ledger it was computed from
  since,     \* history: the latest generation when the job started
  faults     \* what may go wrong in this behaviour: Faults, or nothing

vars == <<now, written, index, until, w, got, kept, since, faults>>
drain == <<written, index, until>>
-----------------------------------------------------------------------------
NoGen == 0
Never == 0
NoCursor == [gen |-> NoGen, n |-> 0, pages |-> 0]

\* drift:ledger:v4:<gen>:<section>:<n> is there.
Present(p, s) == /\ p.gen <= written /\ p.n < Pages[p.gen][s]
                 /\ until[p.gen] = Never \/ now < until[p.gen]

\* What a whole section of a generation is.
Whole(g, s) == [n \in 1..Pages[g][s] |-> [gen |-> g, section |-> s, page |-> n - 1]]
Content == [g \in 1..Gens |-> [s \in Section |-> Whole(g, s)]]

Row == [gen: 1..Gens, section: Section, page: Nat]

Idle == [pc |-> "idle", k |-> 1, n |-> 0, cursor |-> NoCursor, tries |-> 0,
         gen |-> NoGen, counts |-> 0, items |-> <<>>, at |-> 0,
         plan |-> NoCursor]

Walk == [pc: {"idle", "ask", "page", "decide"},
         k: 1..Len(Sections),    \* which section it walks
         n: Nat,                 \* the page it asks for
         cursor: [gen: 0..Gens, n: Nat, pages: Nat],
         tries: 0..MaxRetries,   \* 429s of this page so far
         gen: 0..Gens,           \* `first.generation`
         counts: Nat,            \* `first.counts` of this section
         items: Seq(Row),
         at: 0..Horizon,         \* history: when page 0's index was read
         plan: [gen: 0..Gens, n: Nat, pages: Nat]]  \* `gen`, `n`, `pages` of
                                                    \* the request
At(pc) == w.pc = pc
Sec == Sections[w.k]

\* LedgerWalkError, or a check of the job: it keeps its last file.
Keep == w' = Idle
-----------------------------------------------------------------------------
(* The drain (external).                                                   *)

WritePages ==
  /\ written < Gens /\ written = index.gen
  /\ written' = written + 1
  /\ UNCHANGED <<now, index, until, w, got, kept, since, faults>>

SetIndex ==
  /\ written > index.gen
  /\ index' = [gen |-> written, at |-> now]
  /\ until' = [g \in 1..Gens |-> IF g = index.gen THEN now + PageTtl ELSE until[g]]
  /\ UNCHANGED <<now, written, w, got, kept, since, faults>>

\* Rows that did not change: the same generation under a new generated_at.
Refresh ==
  /\ index.gen # NoGen /\ index.at < now
  /\ index' = [index EXCEPT !.at = now]
  /\ UNCHANGED <<now, written, until, w, got, kept, since, faults>>

Tick ==
  /\ now < Horizon
  /\ now' = now + 1
  /\ UNCHANGED <<written, index, until, w, got, kept, since, faults>>
-----------------------------------------------------------------------------
(* The job and its walks.                                                  *)

Fresh == index.gen # NoGen /\ now - index.at <= MaxAge

Start ==
  /\ At("idle")
  /\ w' = [Idle EXCEPT !.pc = "ask"]
  /\ got' = [s \in Section |-> Nothing]
  /\ since' = index.gen
  /\ UNCHANGED <<now, kept, faults, drain>>

\* Mutant: retries are never used up.
RetryAgain == w' = [w EXCEPT !.tries = IF @ < MaxRetries THEN @ + 1 ELSE 0]

\* getPage on a 429: a bounded number of retries of the same page.
Retry ==
  \/ w.tries < MaxRetries /\ w' = [w EXCEPT !.tries = @ + 1]
  \/ w.tries = MaxRetries /\ Keep

Limited ==
  /\ At("ask") /\ "limited" \in faults
  /\ Retry
  /\ UNCHANGED <<now, got, kept, since, faults, drain>>

\* Mutant: a cursor is bounded by the live index, whatever its generation.
PlanInLive ==
  [gen |-> index.gen, n |-> w.cursor.n, pages |-> Pages[index.gen][Sec]]

\* Which page of which generation the request is for.
Plan ==
  IF w.cursor.gen \in {NoGen, index.gen}
  THEN [gen |-> index.gen, n |-> w.cursor.n, pages |-> Pages[index.gen][Sec]]
  ELSE w.cursor

\* A cursor into the live generation past its last page is a 400.
Invalid(p) == w.cursor.gen = index.gen /\ p.n >= p.pages

\* The next page, while there is one.
NextCursor(p) ==
  IF p.n + 1 < p.pages THEN [p EXCEPT !.n = @ + 1] ELSE NoCursor

\* walk() of the job: the row total must be the published count.
SectionDone(v, rows) ==
  IF Len(rows) # v.counts THEN Keep /\ UNCHANGED got
  ELSE /\ got' = [got EXCEPT ![Sec] = [gen |-> v.gen, rows |-> rows]]
       /\ w' = IF w.k = Len(Sections) THEN [Idle EXCEPT !.pc = "decide"]
               ELSE [Idle EXCEPT !.pc = "ask", !.k = w.k + 1]

\* walkLedgerSection with one answered page: v is the walk after `first ??= body`.
Receive(v, p, rows) ==
  LET all == v.items \o rows
      next == NextCursor(p)
  IN  IF p.n # v.n \/ p.gen # v.gen THEN Keep /\ UNCHANGED got
      ELSE IF next # NoCursor
      THEN /\ w' = IF v.n + 1 < MaxPages
                   THEN [v EXCEPT !.pc = "ask", !.n = @ + 1, !.cursor = next,
                                  !.items = all, !.tries = 0, !.plan = NoCursor]
                   ELSE Idle
           /\ UNCHANGED got
      ELSE IF v.n + 1 # p.pages /\ ~(p.pages = 0 /\ v.n = 0)
      THEN Keep /\ UNCHANGED got
      ELSE SectionDone(v, all)

\* `first ??= body`: page 0 fixes the walk's generation and counts.
First(p) ==
  IF w.n > 0 THEN w
  ELSE [w EXCEPT !.gen = p.gen, !.counts = Pages[index.gen][Sec], !.at = now]

\* The route reads the index: 503 without a fresh one, 400 for a bad cursor, an
\* empty page at once for an empty section.
ReadIndex ==
  /\ At("ask")
  /\ \/ /\ \/ "failed" \in faults \/ ~Fresh
           \/ Fresh /\ Invalid(Plan)
        /\ Keep /\ UNCHANGED got
     \/ /\ Fresh /\ ~Invalid(Plan) /\ Plan.pages = 0
        /\ Receive(First(Plan), Plan, <<>>)
     \/ /\ Fresh /\ ~Invalid(Plan) /\ Plan.pages > 0
        /\ w' = [First(Plan) EXCEPT !.pc = "page", !.plan = Plan]
        /\ UNCHANGED got
  /\ UNCHANGED <<now, kept, since, faults, drain>>

\* The route reads the page: 503 or 410 when it is missing, 503 on an error.
ReadPage ==
  /\ At("page")
  /\ \/ /\ ~Present(w.plan, Sec) \/ "failed" \in faults
        /\ Keep /\ UNCHANGED got
     \/ /\ Present(w.plan, Sec)
        /\ LET row == [gen |-> w.plan.gen, section |-> Sec, page |-> w.plan.n]
           IN  \E rows \in IF "dropped" \in faults THEN {<<row>>, <<>>} ELSE {<<row>>} :
                 Receive(w, w.plan, rows)
  /\ UNCHANGED <<now, kept, since, faults, drain>>

\* Mutant: the two walks are not compared.
AgreeAlways == TRUE

\* Both sections come from one generation.
Agree == got[Sections[1]].gen = got[Sections[2]].gen

Decide ==
  /\ At("decide")
  /\ Keep
  /\ \/ Agree /\ kept' = [s \in Section |-> got[s].rows]
     \/ (~Agree \/ "refused" \in faults) /\ UNCHANGED kept
  /\ UNCHANGED <<now, got, since, faults, drain>>
-----------------------------------------------------------------------------
Init ==
  /\ now = 0 /\ written = NoGen
  /\ index = [gen |-> NoGen, at |-> 0]
  /\ until = [g \in 1..Gens |-> Never]
  /\ w = Idle /\ got = [s \in Section |-> Nothing] /\ kept = Nothing
  /\ since = NoGen /\ faults \in {{}, Faults}

Walking == Limited \/ ReadIndex \/ ReadPage \/ Decide

Next == WritePages \/ SetIndex \/ Refresh \/ Tick \/ Start \/ Walking

\* The client keeps asking until its walk ends; nothing else has to happen.
Spec == Init /\ [][Next]_vars /\ WF_vars(Walking)
-----------------------------------------------------------------------------
TypeOK ==
  /\ now \in 0..Horizon /\ written \in 0..Gens
  /\ index \in [gen: 0..Gens, at: 0..Horizon]
  /\ until \in [1..Gens -> 0..(Horizon + PageTtl)]
  /\ w \in Walk /\ since \in 0..Gens /\ faults \in {{}, Faults}
  /\ \A s \in Section : got[s] \in {Nothing} \cup [gen: 1..Gens, rows: Seq(Row)]
  /\ kept \in {Nothing} \cup [Section -> Seq(Row)]

Promise == INSTANCE LedgerPromise WITH published <- index.gen, taken <- kept

\* The job only ever keeps one whole generation, both sections of it, and one that
\* was the published one at some time while the job ran.
PromiseKept == Promise!Spec

\* "A superseded generation's pages expire 7,200s after the next one is published":
\* a page a walk asks for is missing only when the walk is older than that.
MissingOnlyWhenOld ==
  At("page") /\ ~Present(w.plan, Sec) => now - w.at >= PageTtl

\* The index is not fresh any more, or the walk outlived the pages it may read.
TooOld == ~Fresh \/ (w.gen # NoGen /\ now - w.at >= PageTtl)

\* A walk that runs always ends, be it in an error; and when no request fails, a job that
\* finds a published generation walks a section to its end, however often the ledger is
\* published meanwhile, unless the drain stops for MaxAge or the walk takes longer than
\* superseded pages live.
WalkEnds ==
  /\ w.pc # "idle" ~> w.pc = "idle"
  /\ \A k \in 1..Len(Sections) :
       (At("ask") /\ w.k = k /\ faults = {}) ~> (got[Sections[k]] # Nothing \/ TooOld)
=============================================================================
