---------------------------- MODULE DriftIngest ----------------------------
(***************************************************************************)
(* The telemetry boundary: POST v1/drift and v1/receipts (driftIngest.ts,  *)
(* receiptIngest.ts), the stamp they take from driftIdentity.ts, and the   *)
(* read of an install's receipts.                                          *)
(*                                                                         *)
(* A post verifies its bearer against the installs of the batch, one read  *)
(* each, and then sends one pipeline: Redis runs its commands in order but *)
(* lets other clients in between, and the REST client sends it again when  *)
(* the answer is lost, whether or not the route still waits for it.  The   *)
(* drain and the recrawl worker are not in this repository.                *)
(***************************************************************************)
EXTENDS Naturals, Sequences, FiniteSets, SequencesExt

CONSTANTS
  Install, Token, Tool,
  NoToken,            \* no active row; as a bearer, none was sent
  Post,               \* bound: the posts of a behaviour
  DriftBatch,         \* sequences of [event, tool, install]
  ReceiptBatch,       \* [install, receipts], the receipts a sequence
  VerifyCap,          \* MAX_AUTHED_VERIFY_PER_BATCH
  ListCap, ViewCap,   \* RI_MAX_ENTRIES, the range of the read
  StreamCap,          \* STREAM_MAXLEN, of either stream
  HintTtl,            \* RECRAWL_HINTS_TTL_S
  Resends,            \* how often the client re-sends
  Horizon, MaxChanges   \* bounds: the clock, the changes of identities

Signal == [event : {"pin", "drift"}, tool : Tool, install : Install]
Receipt == UNION {ToSet(b.receipts) : b \in ReceiptBatch}

ASSUME IngestConstants ==
  /\ NoToken \notin Token /\ ViewCap \in Nat /\ ListCap \in Nat /\ ViewCap <= ListCap
  /\ HintTtl \in Nat \ {0} /\ VerifyCap \in Nat /\ StreamCap \in Nat
  /\ DriftBatch \subseteq Seq(Signal)
  /\ \A b \in ReceiptBatch : b.install \in Install /\ b.receipts \in Seq(Receipt)

VARIABLES
  live,        \* the token of each install's active row
  stream,      \* what awaits the drain: install, stamp, and what the stamp should be
  counted,     \* drift:signals:total
  installs,    \* the HyperLogLogs of installs
  list,        \* ri:<install>, newest first
  hints, hintsUntil,      \* the hint set and its expiry, 0 for none
  post,                   \* the requests
  now, changes,
  pushed,      \* history: all an install's receipts in the order of LPUSH, newest first
  hintsSince,  \* history: when the hint set came to be
  enqueued     \* history: entries of drift signals ever added to the stream
redis == <<stream, counted, installs, list, hints, hintsUntil>>
history == <<pushed, hintsSince, enqueued>>
ingestVars == <<live, redis, post, now, changes, history>>

NotPosted == [pc |-> "idle"]
-----------------------------------------------------------------------------
(* The stamp.                                                              *)

InstallsOf(kind, batch) == IF kind = "drift" THEN [n \in DOMAIN batch |-> batch[n].install]
                           ELSE <<batch.install>>

\* distinct.slice(0, MAX_AUTHED_VERIFY_PER_BATCH), in order of first appearance.
ToVerify(seq) ==
  {seq[n] : n \in {m \in DOMAIN seq :
     /\ \A k \in 1..(m - 1) : seq[k] # seq[m]
     /\ Cardinality({seq[k] : k \in 1..(m - 1)}) < VerifyCap}}

Arrive(p, kind, batch, bearer) ==
  /\ post[p].pc = "idle"
  /\ LET seq == InstallsOf(kind, batch)
         todo == IF bearer = NoToken THEN {} ELSE ToVerify(seq)
         holding == {i \in todo : live[i] = bearer}
     IN post' = [post EXCEPT ![p] =
          [pc |-> "verify", kind |-> kind, batch |-> batch, bearer |-> bearer,
           todo |-> todo, authed |-> {}, failed |-> {},
           ever |-> holding, always |-> holding,      \* history: held it, until its read
           at |-> 0, sent |-> 0]]
  /\ UNCHANGED <<live, redis, now, changes, history>>

\* One HGETALL of authedInstallSet: they run together and end in any order.
Verify(p, i) ==
  /\ post[p].pc = "verify" /\ i \in post[p].todo
  /\ LET read == [post[p] EXCEPT !.todo = @ \ {i}]
     IN \/ live[i] = post[p].bearer
           /\ post' = [post EXCEPT ![p] = [read EXCEPT !.authed = @ \union {i}]]
        \/ live[i] # post[p].bearer /\ post' = [post EXCEPT ![p] = read]
        \/ post' = [post EXCEPT ![p] = [read EXCEPT !.failed = @ \union {i}]]
  /\ UNCHANGED <<live, redis, now, changes, history>>

\* A claim, a rotation or a revocation elsewhere.
IdentityMoves(i, t) ==
  /\ changes < MaxChanges /\ live[i] # t
  /\ changes' = changes + 1
  /\ live' = [live EXCEPT ![i] = t]
  /\ post' = [p \in Post |->
       IF post[p].pc # "verify" \/ i \notin post[p].todo THEN post[p]
       ELSE [post[p] EXCEPT !.ever = IF t = post[p].bearer THEN @ \union {i} ELSE @,
                            !.always = @ \ {i}]]
  /\ UNCHANGED <<redis, now, history>>
-----------------------------------------------------------------------------
(* The pipeline.  Counters nobody reads together are one command.          *)

Commands(kind) == IF kind = "drift" THEN <<"count", "enqueue", "hint", "hintTtl">>
                  ELSE <<"installs", "enqueue", "push", "trim">>

Drifted(p) == {p.batch[n].tool : n \in {m \in DOMAIN p.batch : p.batch[m].event = "drift"}}

\* Mutant: the stamp of the batch is put on every signal of it.
StampedTogether(p, i) == p.authed # {}

Stamp(p, i) == i \in p.authed

EntryOf(p, i) == [install |-> i, auth |-> Stamp(p, i), ever |-> i \in p.ever,
                  due |-> i \in p.always \ p.failed, kind |-> p.kind]

Entries(p) ==
  IF p.kind = "drift" THEN [n \in 1..Len(p.batch) |-> EntryOf(p, p.batch[n].install)]
  ELSE [n \in 1..Len(p.batch.receipts) |-> EntryOf(p, p.batch.install)]

Prefix(s, n) == SubSeq(s, 1, IF n < Len(s) THEN n ELSE Len(s))
Newest(s, n) == SubSeq(s, IF n < Len(s) THEN Len(s) - n + 1 ELSE 1, Len(s))

\* LPUSH takes the receipts one by one: the last of the batch comes first.
Pushed(p, s) == Reverse(p.batch.receipts) \o s

\* Mutant: a bare EXPIRE, which slides the window with every batch.
SlidingTtl == IF hints = {} THEN 0 ELSE now + HintTtl

\* EXPIRE ... NX on a missing key does nothing, nor on one that has a TTL.
HintExpiry == IF hints # {} /\ hintsUntil = 0 THEN now + HintTtl ELSE hintsUntil

Count(p) ==
  /\ counted' = counted + Len(p.batch)
  /\ installs' = installs \union ToSet(InstallsOf(p.kind, p.batch))
  /\ UNCHANGED <<stream, list, hints, hintsUntil, history>>

FoldInstall(p) ==
  /\ installs' = installs \union {p.batch.install}
  /\ UNCHANGED <<stream, counted, list, hints, hintsUntil, history>>

\* MAXLEN ~: it may leave a few more.
Enqueue(p) ==
  /\ stream' = Newest(stream \o Entries(p), StreamCap)
  /\ enqueued' = IF p.kind = "drift" THEN enqueued + Len(p.batch) ELSE enqueued
  /\ UNCHANGED <<counted, installs, list, hints, hintsUntil, pushed, hintsSince>>

\* Only a batch with drifts in it has the two hint commands.
Hint(p) ==
  /\ hints' = hints \union Drifted(p)
  /\ hintsSince' = IF hints = {} THEN now ELSE hintsSince
  /\ UNCHANGED <<stream, counted, installs, list, hintsUntil, pushed, enqueued>>

ExpireHints ==
  /\ hintsUntil' = HintExpiry
  /\ UNCHANGED <<stream, counted, installs, list, hints, history>>

Push(p) ==
  /\ list' = [list EXCEPT ![p.batch.install] = Pushed(p, list[p.batch.install])]
  /\ pushed' = [pushed EXCEPT ![p.batch.install] = Pushed(p, pushed[p.batch.install])]
  /\ UNCHANGED <<stream, counted, installs, hints, hintsUntil, hintsSince, enqueued>>

Trim(p) ==
  /\ list' = [list EXCEPT ![p.batch.install] = Prefix(list[p.batch.install], ListCap)]
  /\ UNCHANGED <<stream, counted, installs, hints, hintsUntil, history>>

Run(p, c) ==
  \/ c = "count" /\ Count(p)
  \/ c = "installs" /\ FoldInstall(p)
  \/ c = "enqueue" /\ Enqueue(p)
  \/ c = "hint" /\ Hint(p)
  \/ c = "hintTtl" /\ ExpireHints
  \/ c = "push" /\ Push(p)
  \/ c = "trim" /\ Trim(p)

\* The request p is at the command c of its pipeline, or past the last.
To(p, pc, c) == [p EXCEPT !.pc = pc, !.at = c]

LastOf(p) == IF p.kind = "drift" /\ Drifted(p) = {} THEN 2 ELSE Len(Commands(p.kind))

Send(p) ==
  /\ post[p].pc = "verify" /\ post[p].todo = {}
  /\ post' = [post EXCEPT ![p] = To(post[p], "run", 1)]
  /\ UNCHANGED <<live, redis, now, changes, history>>

Exec(p) ==
  /\ post[p].pc = "run"
  /\ Run(post[p], Commands(post[p].kind)[post[p].at])
  /\ post' = [post EXCEPT ![p] =
       To(post[p], IF post[p].at = LastOf(post[p]) THEN "ran" ELSE "run", post[p].at + 1)]
  /\ UNCHANGED <<live, now, changes>>

\* exec() settles, either way.  The route has answered by then, or does now: the timer that
\* races it only frees the response.
Settle(p) ==
  /\ \/ post[p].pc = "ran"
     \/ post[p].pc = "run" /\ post[p].at = 1 /\ post[p].sent = Resends   \* never reached Redis
  /\ post' = [post EXCEPT ![p] = [pc |-> "done", kind |-> post[p].kind]]
  /\ UNCHANGED <<live, redis, now, changes, history>>

\* The answer was lost on the way: the client sends the whole pipeline again.
Resend(p) ==
  /\ post[p].pc = "ran" \/ (post[p].pc = "run" /\ post[p].at = 1)
  /\ post[p].sent < Resends
  /\ post' = [post EXCEPT ![p] = [To(post[p], "run", 1) EXCEPT !.sent = @ + 1]]
  /\ UNCHANGED <<live, redis, now, changes, history>>
-----------------------------------------------------------------------------
(* External: the recrawl worker (the drain only takes entries away), time. *)

WorkerTakes(t) ==
  /\ t \in hints
  /\ hints' = hints \ {t}
  /\ hintsUntil' = IF hints = {t} THEN 0 ELSE hintsUntil
  /\ UNCHANGED <<live, stream, counted, installs, list, post, now, changes, history>>

\* Time stands still while a pipeline is between two of its commands.
Tick ==
  /\ now < Horizon /\ \A p \in Post : post[p].pc = "run" => post[p].at = 1
  /\ now' = now + 1
  /\ LET over == hintsUntil # 0 /\ hintsUntil <= now + 1
     IN /\ hints' = IF over THEN {} ELSE hints
        /\ hintsUntil' = IF over THEN 0 ELSE hintsUntil
  /\ UNCHANGED <<live, stream, counted, installs, list, post, changes, history>>
-----------------------------------------------------------------------------
IngestInit ==
  /\ live \in [Install -> Token \union {NoToken}]
  /\ stream = <<>> /\ counted = 0 /\ installs = {} /\ list = [i \in Install |-> <<>>]
  /\ hints = {} /\ hintsUntil = 0 /\ hintsSince = 0
  /\ post = [p \in Post |-> NotPosted]
  /\ now = 0 /\ changes = 0 /\ enqueued = 0 /\ pushed = [i \in Install |-> <<>>]

Posting(p) ==
  \/ \E b \in DriftBatch, t \in Token \union {NoToken} : Arrive(p, "drift", b, t)
  \/ \E b \in ReceiptBatch, t \in Token \union {NoToken} : Arrive(p, "receipts", b, t)
  \/ \E i \in Install : Verify(p, i)
  \/ Send(p) \/ Exec(p) \/ Settle(p) \/ Resend(p)

Outside ==
  \/ \E i \in Install, t \in Token \union {NoToken} : IdentityMoves(i, t)
  \/ \E t \in Tool : WorkerTakes(t)
  \/ Tick

IngestNext == (\E p \in Post : Posting(p)) \/ Outside

IngestSpec == IngestInit /\ [][IngestNext]_ingestVars
-----------------------------------------------------------------------------
IngestTypeOK ==
  /\ live \in [Install -> Token \union {NoToken}]
  /\ counted \in Nat /\ enqueued \in Nat /\ installs \subseteq Install
  /\ hints \subseteq Tool
  /\ {hintsUntil, hintsSince, now, changes} \subseteq Nat
  /\ \A p \in Post : post[p].pc \in {"idle", "verify", "run", "ran", "done"}

\* An entry of the streams is stamped for its own install: stamped only if the bearer was
\* its live token at some moment between the post and the read that verified it, and never
\* left bare if it was its token all that while, the install was among those verified and
\* the read went through - whatever other installs the batch names and whoever claims,
\* rotates or revokes meanwhile.  (driftIngest.ts:117, driftIdentity.ts:183)
StampIsTheInstalls ==
  \A n \in DOMAIN stream : /\ stream[n].auth => stream[n].ever
                           /\ stream[n].due => stream[n].auth

Between(c) == \E p \in Post : post[p].pc = "run" /\ Commands(post[p].kind)[post[p].at] = c

\* Whatever pipelines interleave, are re-sent or end after their answer: a reader of an
\* install's receipts gets its newest pushes and nothing is missing among them; a list no
\* pipeline is about to trim is within its cap; the hint set, but for the moment before its
\* EXPIRE, lives no longer than HintTtl from its first hint, however steady the drift; and
\* every signal in the stream was counted.  (receiptIngest.ts:288, driftIngest.ts:127)
KeptWithinBounds ==
  /\ \A i \in Install : Prefix(list[i], ViewCap) = Prefix(pushed[i], ViewCap)
  /\ Between("trim") \/ \A i \in Install : Len(list[i]) <= ListCap
  /\ \/ Between("hintTtl") \/ hints = {}
     \/ hintsUntil # 0 /\ hintsUntil <= hintsSince + HintTtl
  /\ enqueued <= counted

\* What the ingest leaves in the store: true stamps, whole lists, bounded keys.
IngestHolds == StampIsTheInstalls /\ KeptWithinBounds
=============================================================================
