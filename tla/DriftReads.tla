----------------------------- MODULE DriftReads -----------------------------
(***************************************************************************)
(* What one warm instance answers of a server's drift: serverDriftServer   *)
(* over ledgerServer and ledgerSplit, on top of RegistryLoad, which tells  *)
(* it the names it knows.                                                  *)
(*                                                                         *)
(* The drain (outside this repository) writes a hash with a field per      *)
(* server that drifted, then a summary that says how many fields there     *)
(* are.  An absent field means "no drift", so everything here guards       *)
(* against a hash that is not all there: a summary that is old, a hash     *)
(* that is short, a read that failed all answer "unavailable".  Requests   *)
(* share the summary and the count for Ttl.                                *)
(*                                                                         *)
(* Time is counted in ticks far longer than a request takes.               *)
(***************************************************************************)
EXTENDS RegistryLoad

CONSTANTS
  Names,           \* the caller of loadServers that is the registryNames promise
  Reader, Server,  \* requests, each asking once; servers
  Ttl, MaxAge,     \* memo (5 min) and SUMMARY_MAX_AGE_MS (90 min), in ticks
  Horizon, MaxRuns, Asked,     \* bounds: ticks, drain runs, kinds of page requests
  NoSummary

ASSUME DriftConstants ==
  /\ Names \in Caller /\ Ttl \in Nat \ {0} /\ MaxAge \in Nat /\ Horizon \in Nat
  /\ Asked \subseteq Kind /\ IsFiniteSet(Server) /\ Server # {}

\* `of` is history: the servers that had drifted when the summary was written.
Summary == [at : 0..Horizon, servers : 0..Cardinality(Server), of : SUBSET Server]

VARIABLES
  drifted,    \* the servers the drain has seen drift
  fields,     \* drift:ledger:servers
  summary,    \* drift:ledger:summary
  halfway,    \* the drain has written the hash and not the summary
  runs,       \* bound: runs of the drain, losses of the hash
  memo,       \* __mcpiSplitMemo
  asking,     \* __mcpiSplitInflight: at the summary, or at the count with what it read
  read,       \* each request
  now,
  trouble     \* history: when a read last failed or the published pair was last broken
published == <<drifted, fields, summary, halfway, runs>>
driftVars == <<published, memo, asking, read, now, trouble>>
vars == <<loadVars, driftVars>>

NotAsking == [step |-> "none", split |-> NoSummary]
NoMemo == [at |-> 0, summary |-> NoSummary, usable |-> FALSE, set |-> FALSE]
Idle == [at |-> "idle", server |-> CHOOSE s \in Server : TRUE,
         split |-> NoSummary, said |-> "none", when |-> 0, short |-> FALSE]

parseLedgerSummary(s) == IF s # NoSummary /\ now - s.at <= MaxAge THEN s ELSE NoSummary

\* The published pair as a reader needs it.
Sound == /\ parseLedgerSummary(summary) # NoSummary
         /\ Cardinality(fields) >= summary.servers

Noted(failed) == trouble' = IF failed \/ ~Sound \/ ~Sound' THEN now' ELSE trouble
-----------------------------------------------------------------------------
(* The drain, Redis and the clock.                                         *)

DrainWritesHash ==
  /\ runs < MaxRuns /\ ~halfway
  /\ \E more \in SUBSET Server : drifted' = drifted \cup more
  /\ fields' = drifted' /\ halfway' = TRUE /\ runs' = runs + 1
  /\ UNCHANGED <<loadVars, summary, memo, asking, read, now>>
  /\ Noted(FALSE)

DrainWritesSummary ==
  /\ halfway
  /\ summary' = [at |-> now, servers |-> Cardinality(drifted), of |-> drifted]
  /\ halfway' = FALSE
  /\ UNCHANGED <<loadVars, drifted, fields, runs, memo, asking, read, now>>
  /\ Noted(FALSE)

\* A run that does not write, or did not get to the summary.
DrainSkips ==
  /\ summary # NoSummary
  /\ summary' = NoSummary /\ halfway' = FALSE
  /\ UNCHANGED <<loadVars, drifted, fields, runs, memo, asking, read, now>>
  /\ Noted(FALSE)

HashLost ==
  /\ runs < MaxRuns /\ fields # {}
  /\ fields' = {} /\ runs' = runs + 1
  /\ UNCHANGED <<loadVars, drifted, summary, halfway, memo, asking, read, now>>
  /\ Noted(FALSE)

Tick ==
  /\ now < Horizon
  /\ asking = NotAsking /\ \A d \in Reader : read[d].at \notin {"field", "count"}
  /\ now' = now + 1
  /\ UNCHANGED <<loadVars, published, memo, asking, read>>
  /\ Noted(FALSE)
-----------------------------------------------------------------------------
(* A request.                                                              *)

Answer(d, said) == [read[d] EXCEPT !.at = "done", !.said = said, !.when = now]

\* serverDriftFromSplit, once it has the split.
Use(d, m) == IF m.usable THEN [read[d] EXCEPT !.at = "field", !.split = m.summary]
                         ELSE Answer(d, "unavailable")

\* loadServerDrift: the names are asked for once in the life of the instance.
DriftAsk(d, s) ==
  /\ read[d].at = "idle"
  /\ read' = [read EXCEPT ![d] = [Idle EXCEPT !.at = "names", !.server = s]]
  /\ IF call[Names].at = "idle" THEN Ask(Names, "servers") ELSE UNCHANGED loadVars
  /\ UNCHANGED <<published, memo, asking, now, trouble>>

\* Mutant: an unusable result is kept for good.
KeptWhenUnusable == memo.set /\ (~memo.usable \/ now - memo.at < Ttl)

Memoised == memo.set /\ now - memo.at < Ttl

\* cachedSplit: the memo, the read under way, or a new one.  The names settle once and for
\* all, to an empty set when the load failed.
GotNames(d) ==
  /\ read[d].at = "names" /\ call[Names].at \in {"done", "failed"}
  /\ IF Memoised
     THEN read' = [read EXCEPT ![d] = Use(d, memo)] /\ UNCHANGED asking
     ELSE /\ read' = [read EXCEPT ![d].at = "split"]
          /\ asking' = IF asking = NotAsking THEN [asking EXCEPT !.step = "summary"] ELSE asking
  /\ UNCHANGED <<loadVars, published, memo, now, trouble>>

\* The read's end: everyone who waits for it goes on.
Settle(s, usable) ==
  /\ memo' = [at |-> now, summary |-> s, usable |-> usable, set |-> TRUE]
  /\ asking' = NotAsking
  /\ read' = [d \in Reader |-> IF read[d].at = "split" THEN Use(d, memo') ELSE read[d]]

\* The summary comes first, as the drain writes it last.
SplitSummary(failed) ==
  /\ asking.step = "summary"
  /\ LET s == IF failed THEN NoSummary ELSE parseLedgerSummary(summary)
     IN  IF s = NoSummary THEN Settle(NoSummary, FALSE)
                          ELSE asking' = [step |-> "count", split |-> s] /\ UNCHANGED <<memo, read>>
  /\ UNCHANGED <<loadVars, published, now>>
  /\ Noted(failed)

SplitCount(failed) ==
  /\ asking.step = "count"
  /\ Settle(asking.split, ~failed /\ Cardinality(fields) >= asking.split.servers)
  /\ UNCHANGED <<loadVars, published, now>>
  /\ Noted(failed)

\* Mutant: no field is believed without another look at the hash.
NoFieldIsClean(d) == [Answer(d, "clean") EXCEPT !.short = FALSE]

\* No field: the hash is counted again.
NoField(d) ==
  [read[d] EXCEPT !.at = "count", !.short = Cardinality(fields) < read[d].split.servers]

\* The server's own field.  A malformed one, or one that contradicts itself
\* (aggregateServerDrift), is a failed read.
Field(d, failed) ==
  /\ read[d].at = "field"
  /\ read' = [read EXCEPT ![d] =
                IF failed THEN Answer(d, "unavailable")
                ELSE IF read[d].server \in fields THEN Answer(d, "drifted") ELSE NoField(d)]
  /\ UNCHANGED <<loadVars, published, memo, asking, now>>
  /\ Noted(failed)

Recount(d, failed) ==
  /\ read[d].at = "count"
  /\ read' = [read EXCEPT ![d] =
                IF failed \/ Cardinality(fields) < read[d].split.servers
                THEN Answer(d, "unavailable")
                ELSE Answer(d, "clean")]
  /\ UNCHANGED <<loadVars, published, memo, asking, now>>
  /\ Noted(failed)
-----------------------------------------------------------------------------
Init ==
  /\ LoadInit
  /\ drifted = {} /\ fields = {} /\ summary = NoSummary /\ halfway = FALSE /\ runs = 0
  /\ memo = NoMemo /\ asking = NotAsking /\ now = 0 /\ trouble = 0
  /\ read = [d \in Reader |-> Idle]

Split == \E failed \in BOOLEAN : SplitSummary(failed) \/ SplitCount(failed)
Reads(d) == GotNames(d) \/ \E failed \in BOOLEAN : Field(d, failed) \/ Recount(d, failed)

\* The names promise asks once and never again.
LoadSteps ==
  \/ \E c \in Caller \ {Names}, kind \in Asked : Ask(c, kind)
  \/ \E c \in Caller : Proceeds(c)
  \/ IndexRead \/ SnapshotEnds \/ Loads

Next ==
  \/ LoadSteps /\ UNCHANGED driftVars
  \/ DrainWritesHash \/ DrainWritesSummary \/ DrainSkips \/ HashLost \/ Tick
  \/ \E d \in Reader, s \in Server : DriftAsk(d, s)
  \/ Split
  \/ \E d \in Reader : Reads(d)

Fairness ==
  /\ LoadFairness
  /\ WF_vars(Split) /\ \A d \in Reader : WF_vars(Reads(d))

Spec == Init /\ [][Next]_vars /\ Fairness
-----------------------------------------------------------------------------
TypeOK ==
  /\ LoadTypeOK
  /\ fields \subseteq drifted /\ drifted \subseteq Server
  /\ summary \in Summary \cup {NoSummary}
  /\ asking \in [step : {"none", "summary", "count"}, split : Summary \cup {NoSummary}]
  /\ \A d \in Reader :
       /\ read[d].at \in {"idle", "names", "split", "field", "count", "done"}
       /\ read[d].said \in {"none", "unavailable", "drifted", "clean"}

\* "Clean" is never said of a server that had drifted when the summary it is dated by was
\* written: not when the hash is lost inside the memo's window, and not when a newer hash
\* meets an older summary.  The one gap: a hash lost when the field is read and written
\* anew when it is counted.
CleanNeverInvented ==
  \A d \in Reader : read[d].said = "clean" =>
    read[d].server \notin read[d].split.of \/ read[d].short

\* An answer is dated by a summary younger than its bound and the memo's together ...
AnswerIsFresh ==
  \A d \in Reader : read[d].said \in {"clean", "drifted"} =>
    read[d].when - read[d].split.at < MaxAge + Ttl

\* ... and "unavailable" is said only within a memo's life of something that went wrong.
UnavailableIsRecent ==
  \A d \in Reader : read[d].said = "unavailable" => read[d].when < trouble + Ttl

\* What a server page says of its drift: true of the summary it is dated by, and current.
\* (serverDriftServer.ts:79)
AnswersHold == CleanNeverInvented /\ AnswerIsFresh /\ UnavailableIsRecent

\* What an instance reads, it reads once; and what it says of a server's drift is true of the
\* summary it is dated by, and current.  (registry.ts:120-200; serverDriftServer.ts:79)
ReadsHold == ReadOnce /\ AnswersHold

\* Every request ends, for the pages and for the drift of a server, whatever fails.
EveryRequestEnds ==
  /\ EveryCallEnds
  /\ \A d \in Reader : read[d].at # "idle" ~> read[d].at = "done"
=============================================================================
