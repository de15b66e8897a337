# mcpindex-web: TLA+ models, checks and proofs

mcpindex-web is a Next.js application on serverless functions. Its state lives
outside the process: an Upstash Redis store, a Supabase function that issues API
keys, a registry snapshot committed to the repository by a GitHub Actions
workflow, and cookies. This directory specifies the parts whose correctness depends
on the order in which those pieces are read and written, model-checks them with TLC
on small instances, and proves what matters most of eight of them with TLAPS for
every instance.

Source paths below are relative to `src/`. `PROJECT.json` maps every definition to
the lines it stands for.

## 1. Inventory

### What runs where

Every API handler is a short-lived function instance. Two instances share nothing
but Redis and Supabase; one instance shares module-level memos between its requests.
The Redis client re-sends a command whose answer it did not get, so a command can
take effect twice, and an instance can be killed between any two awaits. Data under
`data/` is part of the deployment: it changes only with a commit and a build. Some
writers are not in this repository: the drain that turns the drift stream into the
ledger, the crawler, the owner service.

### Components

| component | state it keeps | operations | talks to | what is hard | what makes it correct |
|---|---|---|---|---|---|
| Drift install identity and GitHub upgrade (`lib/driftIdentity.ts`, `lib/driftOAuth.ts`, routes `v1/drift/register`, `v1/drift/oauth/*`) | Redis: row per install, set of identities, reservation per GitHub account, OAuth states | claim, rotate, revoke, start upgrade, callback | GitHub, ingest (verifies tokens) | HGETALL then HSET, EVALs in between, commands lost or re-sent | rows and reservations agree; a revocation is final; the live token is with its client |
| Self-serve login and key issue (`lib/loginOAuth.ts`, `lib/loginStore.ts`, `lib/issueKey.ts`, routes `auth/login/*`) | Redis: one-time state; a cookie per login; Supabase: the active key per account | start, callback (consume, exchange, issue, show) | GitHub/Google, Supabase, the wizard | one state opened twice or in another browser, RPC without an answer | a key is shown to its owner only, one key per login, the active key reaches somebody |
| Shared rate limiters (`lib/ratelimit.ts`) | Redis: counter per client and minute, counter per day, their TTLs | eleven `check*Limit` functions | every API route | INCR and EXPIRE apart, minute and day ends, errors, stacked limiters | no budget is exceeded, no client spends another's share, a closed limiter stays closed |
| Drift ledger /4 (`app/api/v1/ledger/route.ts`, `lib/ledgerServer.ts`, `lib/ledgerV4.ts`, `lib/ledgerV4Client.ts`, `scripts/build-indexable-servers.ts`) | Redis: pages of a generation, index; the walk; `data/indexable-servers.json` | serve a page, walk a section, keep the result | the drain | publication and expiry under a walk | what is kept is one whole generation; every walk ends |
| Registry sync (`.github/workflows/sync-registry.yml`, `scripts/sync-registry.mjs`, `scripts/check-data-bindings.mjs`, ...) | `data/` on main, the runner's clone, what production serves | fetch, derive, commit, push/rebase, ship-pending | upstream registry, other committers, the host's build | main moves under the run, conflicts, lost windows, skipped builds | files of one run stay together, nobody's work is reverted, waiting data ships, gone slugs are right |
| Drift and receipt ingest (`lib/driftIngest.ts`, `lib/receiptIngest.ts`) | Redis: counters, HLLs, two streams, recrawl hints, a list per install | verify the bearer, one pipeline, answer after 2 s at the latest | SDKs, the drain | pipelines interleave command by command, are re-sent, land after the answer | stamps are true, lists whole, every key bounded |
| Drift query (`lib/driftQuery.ts`) | none (reads the sets the drain writes) | two-plane lookup | SDK gate check | four reads around the writes of the drain | clean only if seen nowhere; an error is unknown |
| Server drift summary (`lib/serverDriftServer.ts`, `lib/ledgerSplit.ts`, `lib/serverDrift.ts`) | per instance: a memo of summary and count, the names known | field read with a second count; parse and aggregate a field | the drain | memo and hash of different generations, a lost hash, a damaged field | what cannot be read whole is "unavailable", never clean |
| Edge proxy (`proxy.ts`) | per-isolate buckets | window count, sweep, eviction, 410 and redirects | every request, `server-removals.json`, the crawler counter | eviction, a clock set back | a client is held to its own limit, and not to less |
| Registry loaders (`lib/registry.ts`, `lib/snapshotStore.ts`) | single-flight memos | load index or snapshot, fall back, merge admitted servers, give out slugs | all pages | a failed load memoised, two sources of one list, names that collide | one load per instance, one server per slug |
| Registry diff API (`lib/registryDiff.ts`, `scripts/first-seen.mjs`) | snapshot and first-seen dates of a deployment | fetch by cursor, fold, backfill, classify since a date | pollers | the registry changes behind the cursor; dates that come late or are unreadable | every change is told, new means new |
| Active keys, usage and crawler counters (`lib/activeKeys.ts`, `lib/apiUsage.ts`, `lib/aeoCounter.ts`) | Redis per-day sets and counters, per-instance memos | record after the response, count a window | routes, metrics page | fire and forget, timeouts, midnight, memo limits | a key counts only if it was let in, and no memo loses a mark |
| Owner proxy and wizard (`app/api/owner/[action]/route.ts`, `components/OwnerVerifyWizard.tsx`) | the wizard's steps in the page, the key in sessionStorage | sign in, pick, six calls, clear, reload | owner service, login popup | answers that come after the page has moved on, popup messages out of order | what is shown, attested and published is about the picked server |
| MCP endpoint (`app/api/[transport]/route.ts`, `lib/mcpWatchdog.ts`, `lib/mcpBodyGuard.ts`, `lib/v1Dispatch.ts`) | five kinds of timer | read the body, dispatch to a tool, answer | MCP clients, the platform | timers against the platform's kill | whatever hangs is answered in time or logged before the kill |
| Leads and waitlist (`app/api/waitlist/route.ts`, `lib/leadCapture.ts`, `lib/brevo.ts`) | a capped list | Brevo calls with a retry, push, trim, drain | email service, the operator | calls that fail after taking effect, two commands that fail apart | an accepted lead can be recovered |
| Trust verdicts (`lib/verdicts.ts`, `lib/badge.ts`, `app/api/v1/trust/*`) | the verdict store of a deployment | overlays at every read: expiry, confirmation, drift of the text, rulings | pages, badge, API, leaderboard, the seed pipeline | slugs that move, screens of another's text, time | a verdict is its server's, a clean one is fresh, an accusation stays |
| Search box and scan box (`components/ServerSearch.tsx`, `components/ScanTool.tsx`) | page state, a fetch, a clipboard prompt | type, press, choose a file | search API | answers that come late | the visitor's input wins |
| npm client (`mcp-server-mcpindex/`) | none: one process per host | verdict calls raced with an abort, catalog tools, an update check at start | the API | late, broken or unknown answers | fails closed |
| Ledger /3 and digest, ranking, catalog text, scanner's analysis | none | pure functions of committed or fetched data | pages, API | edge values | (pure; the coercers a server's field takes are modelled) |
| Operator scripts, CI guards, workforce, pings, statistics, pages | - | batch or presentation | - | - | - |

`PROJECT.json` lists all of them under `components`, with the reason where one is not
modelled, and under `hazards` each hard-to-test point of the code at its line, with the
properties that would catch it.

## 2. What is modelled

| module | models | extends or uses |
|---|---|---|
| `DriftIdentity` | the five identity handlers, one action per Redis round trip | |
| `DriftIdentityProofs` | its theorems | `DriftIdentity`, `TLAPS` |
| `LoginOAuth` | login start and callback, the browser's cookies, the RPC | `LoginPromise` through `INSTANCE` |
| `LoginPromise` | what login promises, without requests or stores | |
| `LoginProofs` | theorems of both, and that the one implements the other | `LoginOAuth`, `TLAPS` |
| `RateLimit` | the limiter function over keys and limits, and routes that stack limiters | |
| `RateLimitProofs` | its theorems | `RateLimit`, `FiniteSetTheorems`, `TLAPS` |
| `LedgerPaging` | page route, walking client, the job that keeps the walks; the drain as environment | `LedgerPromise` through `INSTANCE` |
| `LedgerPromise` | a reader takes one whole published generation | |
| `LedgerProofs` | theorems of both, and that the one implements the other | `LedgerPaging`, `TLAPS` |
| `RegistrySync` | both jobs of the sync workflow against commits of others | |
| `RegistryProofs` | theorems of it, of `RegistryFeed`, `LedgerSlice`, `LedgerGuard` and of `DriftReads` with `RegistryLoad` | the five, `FiniteSetTheorems`, `WellFoundedInduction`, `TLAPS` |
| `OwnerWizard` | the wizard page: key, server, the six calls and their late answers; the owner service as environment | |
| `OwnerWizardProofs` | its theorems | `OwnerWizard`, `TLAPS` |
| `SlugSpace` | from registry entries to page slugs, as functions | |
| `TrustStore` | verdict store, its overlays and selectors, page, badge, API; sync, admission, screening, ruling | `SlugSpace` |
| `TrustStoreProofs` | theorems of it and of `ServerPage` | `ServerPage`, `TLAPS` |
| `ServerPage` | what answers under `/server/<slug>`, who is offered to search, what the page says; functions of the files, no state | `TrustStore` |
| `RegistryLoad` | the loaders of one instance, their memos and shared promises | |
| `DriftReads` | a server's drift answered by one instance; the drain as environment | `RegistryLoad` |
| `DriftIngest` | both telemetry posts and the receipts read, against identity changes | |
| `DriftQuery` | the two-plane lookup while the drain writes | |
| `ActiveKeys` | marks of active keys, the memo, the windows read from them | |
| `RegistryFeed` | page-by-page sync, first-seen dates, `/api/v1/diff` | |
| `LedgerSlice` | a server's ledger field: coerce, parse, aggregate | |
| `LedgerGuard` | the guard of the two append-only ledgers of decisions: pull requests, landings by hand, the push-back job | |
| `EdgeProxy` | route classes, limiter with sweep and eviction, redirects, crawler counter | |
| `McpEndpoint` | one request to `/api/mcp` and its timers | |
| `LeadCapture` | form, Brevo calls, durable list, operator | |
| `TrustClient` | a verdict call of the npm client | |
| `PageInputs` | the search box and the scan box | |
| `ConfigScan` | what the scan page says of a config entry, before and behind the gate | |
| `ToolGrade` | the grade of a tool's blast radius as it declares more of itself | |
| `VisitorProofs` | theorems of `DriftQuery`, `TrustClient`, `PageInputs`, `ToolGrade`, `McpEndpoint`, `ActiveKeys`, `LeadCapture`, `DriftIngest`, `EdgeProxy` and `ConfigScan` | the ten, `FiniteSetTheorems`, `SequenceTheorems`, `WellFoundedInduction`, `TLAPS` |
| `MC*` | values and symmetry for TLC; `MCRegistry` (`RegistrySync`, `RegistryFeed`, `LedgerSlice`, `LedgerGuard`) and `MCVisitors` (`EdgeProxy` to `ToolGrade`, `DriftIngest`, `DriftQuery`, `ActiveKeys`) put modules that share no state side by side in one run: a behaviour is one of any of them; so does `MCIdentities` (`DriftIdentity`, `LoginOAuth`) | |

### DriftIdentity

State: `row` is the Redis hash `drift:identity:<install>`, `ghRes` the reservations
`oauth:gh:<hash>`, `oauthState` the states, `identities` the set. A request in
flight is a record: where it is, what it has read (`snap` is `existing` of
`issueIdentity`), what it generated. `IssueRead`, `IssueVerify`, `ClaimWrite`,
`ClaimIndex`, `RotateWrite` are the awaits of `issueIdentity`; `RevokeVerify`,
`RevokeEval` those of `revokeIdentity`; `StartVerify`, `StartWrite` the upgrade's
start; `BindGet`, `BindDel`, `BindExchange`, `BindEval` the callback. An EVAL is
atomic, as in Redis; everything else interleaves. `Continue` says what becomes of a
command: answered, re-sent by the client (bounded by `Retries`), refused, or applied
without an answer, after which the handler's catch ends the request. `ReadFails` is a
read that throws. A token stands for its hash, a GitHub id for its peppered hash.

### LoginOAuth

The browser is part of the model: it holds a cookie per login it started, opens any
link the provider redirected to (its own or another browser's, again and again), and
is signed in to an account chosen at the start. `Outcomes` applies to the Redis
commands, `RpcOutcomes` to the key-issuing RPC, `Replies` to the callback's response:
`dropped` remembers the keys whose response was lost.

### RateLimit

The eleven limiters are one procedure over a prefix, two limits and whether it fails
open. `Plan[route]` is the sequence of limiters a route asks. A request reads the
clock once (`Arrive`) and makes up to four round trips per limiter. `Tick` moves the
clock and removes keys whose TTL is over; it waits for requests that would lag by
more than `MaxDelay`, the time a function instance may live. `faulty` is chosen once:
either Redis answers every command, or any of `Outcomes` may become of each.

### LedgerPaging

The drain is an environment action set: it writes the pages of a generation, sets
the index, lets the superseded pages expire, refreshes the index time. The client's
walk asks for a page with a cursor; the route reads the index and then the page, two
actions, so a publication fits in between. `faults` is chosen once per behaviour:
either nothing fails, or any of `Faults` may at any request.

### RegistrySync

A commit is the tree of data files it leaves. The derived files carry the versions of
the inputs they were built from (`[at, adm]`: fetch time and admitted edit), which is
what `check-data-bindings.mjs` compares as digests. `Refresh` (fetch, derive, commit)
is one step because only the runner's clone changes before the push; its inputs are every listing
the upstream can return. A push succeeds when main has not moved, else the rebase is
git's three-way merge by file; `server-removals.json` merges by line, or conflicts
when both sides changed neighbouring lines. Others push verdict data (which skips its
own build), product commits, an admitted edit with or without rebuilt files, a hand
reading of the era census, a seeded redirect. `shipped` is what the last built commit
contained.

### OwnerWizard

`page` is the component's state, one field per `useState` that matters. A call is a
record with the key and the server of the render that made it, as the closure of
`callOwner` has them; `Answer` applies it to the page of the moment (`Landed`) and then
frees the buttons (`BusyAfter`, the `finally`). A verified ownership asks for the tools
with the same closure (`Follow`). `Offers` says which button is on the page and enabled.
`service` is what the owner service has recorded, taken from what the page relies on.
`crossed` remembers that an answer changed a page it was not asked for, that the popup
replaced another key, or that a deep link's lookup replaced a server already used.
A person confirms at the boxes of step 3 (`TickTools`): `confirmed` is what stood ticked when
the box "I confirm the checked tools are read-only" was last set or stood through another tick.
A list that lands ticks tools by itself and keeps that box; `relisted` remembers it until the
person touches a box again.

### SlugSpace, TrustStore and ServerPage

A slug is a sequence: `<<base>>` as `slugify` leaves the name, and a hash joined on is
the name it was taken of, appended. So hashes differ and no bare slug contains `--` by
construction; the former joint (`-`, twelve digits) can coincide with a bare slug, and
`FormerOf` says where. `mergeAdmitted`, `disambiguateSlugs` and the deprecated twins are
functions from the listings to rows.

`TrustStore` has the files of a deployment as variables: the snapshot (`listed`, `text`),
the admitted list, `gone`, the store, the time of the last sync. Every read passes the stored
record through the overlays in the order of the code; `selectVerdictForSubject` and
`VerdictsFor` are what badge, leaderboard, page and API do with the result. A screen may
be filed late, under a former slug or for a text that is no longer published.

`ServerPage` adds no state. `Answer` is the request through `proxy.ts` (seeded redirect, 410)
to the page (the server, the chooser of a colliding base, a guessed redirect, 404); `sitemap`,
`DriftObserved` and `robots` are who is offered to search. `Doc` holds the artifacts the ledger
walk may have left, and `NoDoc` an instance that could not read its own. Which bare slug begins
which other one, and which ends in `-mcp`, are constants (`Longer`, `WithoutMcp`).

### RegistryLoad and DriftReads

A memo is a variable of its own, and a promise handed to all who ask is its state
`reading`. Waiting callers move when what they wait for does; the names known to
`DriftReads` are one more caller, the `registryNames` promise, which keeps its result for
the life of the instance. The reads of a request are actions apart from those of the
drain, which writes the hash and then its summary, and may lose the hash. `trouble`
remembers the last time anything failed.

### DriftIngest, DriftQuery, ActiveKeys

A pipeline runs command by command and other clients come in between; the REST client
may send the whole of it again, and the 2 s timer only frees the response, so it is no
action: a pipeline may finish at any time after. Every event carries what its stamp should
have been. The TTL of `ri:` lists is left out. The stream is shortened by its cap only; the drain
takes from it. In `ActiveKeys` the day of a mark is the day on which the work after the
response begins.

### RegistryFeed, LedgerSlice and LedgerGuard

A page of the registry is one name, so everything can change behind and ahead of the cursor.
The snapshot is stamped when the walk ENDS, as in the code, and a walk takes time. Every
deployment stays in `builds`, so that a poll of one can be compared with a poll of any other.

`LedgerSlice` starts from what happened (`facts`), writes a server's field in either form
the drain uses, damages it in at most one place, and reads it back through the coercers.
Ceilings of a whole blob and `sources` are left out.

A line of `LedgerGuard` is what the checks ask of it. A pull request is checked against the base
of the moment and lands checked, or overruled by hand; the push-back job (external) checks a floor
of lines and their form only. Main may move under an open pull request, and `.gitattributes` gives
`data/adjudications.jsonl` `merge=union`: a branch that only adds lines then lands on the main of
the moment, its lines behind main's (`MainFirst`, as `git merge-file --union` writes them), with no
new check; `preview_badges.jsonl` has no such rule and conflicts. A branch that was brought up to
date by hand or by a rebase (`Update`) may have them the other way round (`BranchFirst`), and is
checked anew. A branch that takes lines away or changes them lands on its own base only. Whether
the hosting service honours the attribute in its merge button is not in the repository; the model
combines, as the comment there says. Two sides never write the same line (`Unwritten`: a line
carries its author and its instant). The job pulls, by the same union, then checks, then pushes, and
a push is refused when main moved in between: one step.

### EdgeProxy

`now` is `Date.now()`, which may be set back; `real` is time as it passes and only properties
see it. A bucket has the number of its birth, since the sweep evicts in order of insertion.

### McpEndpoint, LeadCapture, TrustClient, PageInputs

Timers of `McpEndpoint` are records `[kind, of, due]`; time passes only when none is due,
since nothing holds the event loop longer than a tick. The library between route and tool is external: it
may send headers before, after or without the tool. In `LeadCapture` each Brevo call takes
effect or not and answers or not, independently; LPUSH may be sent twice. A path
segment of `TrustClient` is a number of percent encodings about a core. A query of
`PageInputs` is a number and a text is the way it came.

### ConfigScan and ToolGrade

Both are pure analyses, made into state machines by whoever writes their input: the author who
edits an entry a piece at a time and wires it behind the gate, the server that declares more of
a tool. A word is one of a set that the patterns tell apart (a flag that takes a secret, a word
shaped like a token, a package whose name reads like a flag, a path with a space; one word for
each of the 34 combinations of lists that a word of the lexicon, with its -s and -es forms, can be
in). Regular expressions are modelled by which of those words they match. The lexicon reads a
name in two ways. `nameTokens` takes camelCase apart, for the verbs, the domain and the
credentials; `hasSideEffectIntent` puts the text in lower case first and sees a camelCase word as
one. So a written word of `ToolGrade` is a set of plain words, and intent sees those of one
element only.

## 3. What the runs check

| run | instance | shows |
|---|---|---|
| `identities` | two parts. Installs: 2 installs, 3 tokens, 2 accounts, 2 states, 2 requests, all four outcomes, 1 re-send. Logins: 2 browsers, 2 accounts (or one shared), 2 logins, 3 keys, 2 requests, all faults | rows and reservations agree until a stale whole-row HSET lands (`BindingsAgree`); a revoked row does not change again once no HSET for it is under way (`RevocationSettles`); the token a row carries was handed to a client (`LiveTokenDelivered`); keys are shown only to their owner's browser, one per login and persisted, and the active key was shown unless a response was lost (`ShownKeysAreRight`); logins do not disturb each other (`LoginsDoNotInterfere`); `LoginPromise` is implemented (`PromiseKept`) |
| `rate_limits` | 3 limiters on 3 routes (one stacked, one closed), 1 client, 3 requests, 2 minutes in 1 day and the next; Redis without faults, or one whose commands may also throw after taking effect | budgets per minute and day (`WithinBudgets`); one client's share of the day (`OneClientSpendsItsShare`); while Redis answers, a bulk route leaves the rest of a shared budget and no counter lacks a TTL (`HoldsWhileRedisAnswers`); the closed limiter holds through errors (`ClosedLimiterHolds`) |
| `ledger_walk` | 3 generations (growing, shrinking, with an empty section), 5 instants, 1 retry, with and without faults | `LedgerPromise` is implemented (`PromiseKept`); a page is missing only under a walk older than the page TTL (`MissingOnlyWhenOld`); every walk ends, and without failures one young enough completes (`WalkEnds`) |
| `registry` | four parts. Sync: 2 slugs, 2 windows, 2 commits of others, 2 attempts per push loop. Feed: 2 names, a page limit of 1, 3 ticks, 3 events, 3 deployments. Slice: 2 tools, 2 publisher-wide changes, 2 kinds and one of the context. Guard: up to 3 lines, 3 pushes | derived files stay together and bindings break only by hand, an active server is never gone and a vanished one always answered, a green window shipped what was waiting and a lost window has a reason (`SyncHolds`: `FilesAgree`, `GoneIsHonest`, `WindowShips`); nobody's commit is reverted (`KeepsOthersWork`); each poll tells all that changed since the last, and calls new what is new (`FeedIsHonest`); a field says the same in both forms, and a damaged one is never cleaner (`SliceIsAnswered`); no decision is lost or altered, on a main that moved under a pull request either, unless the guard was overruled (`RulingsStay`) |
| `registry_relisted` (violation) | sync alone, 1 slug | a slug listed again as deprecated keeps answering 410 |
| `wizard_flow` | 1 key, 2 servers, 1 tool, 2 overlapping calls (one at a time once an answer has crossed) | unless an answer, a key or a prefill meets a page that has moved on: a step shows results of the picked server, no step is reached without the service's grant; and whatever crosses: an attestation names only tools that stood ticked when a person last acknowledged them, until a list lands that ticks them anew (`AttestsWhatWasConfirmed`), and disabled buttons have a call under way that frees them, but for a list whose fetch threw |
| `wizard_stale` (violation) | same, no deep link | the observation of one server is shown for another after clear key |
| `wizard_relisted` (violation) | same | a second list ticks a tool that the person had unticked, under an acknowledgement that stands, and it is attested |
| `trust_store` | 3 names, two on one base slug and one on the former hashed slug of another; 2 texts, 2 changes, 1 screen, 2 ticks; 2 artifacts or none, a seeded redirect | every slug is one server's, an admission moves none, and a page is its server's (`AddressesHold`); a verdict too (`RightSubject`); badge, API and leaderboard agree (`SurfacesAgree`); a clean badge is fresh and about the text of now (`Freshness`); the pages offered to search are served and the only ones to ask for it, no redirect leads astray, the page says what the badge says (`PagesHold`); a confirmed flag stays (`AccusationStays`) |
| `retired_pages` (violation) | same module, 3 names on one base, one of them deprecated | the base is answered with the deprecated server's page, not with the chooser |
| `instance_reads` | one warm instance: 1 page request, the names promise, 2 drift requests for 1 server; 2 drain runs or losses, 2 ticks, any read may fail | the registry is read once and from one source, a usable index means no page fails, a clean answer is never for want of the field, answers are fresh, "unavailable" has a recent cause (`ReadsHold`); every request ends (`EveryRequestEnds`) |
| `visitors` | eleven parts. Proxy: 2 clients, 1 bucket kept, 3 requests, a clock that may step back. MCP: a fan-out of 3, one order of the timers. Leads: 2 submissions, a list of 1. Client: 3 rounds of decoding. Inputs: 2 edits, 2 reads. Config: 2 arguments of 11 words, urls and spots. Tool: 2 written words of name, 1 of description, of 14, two of them in camelCase. Ingest (drift and receipts, a part each): 2 installs, 2 tools, 2 posts, 1 re-send, caps of 1 and 2. Query: 2 fingerprints, 2 moves of the drain. Keys: 1 key, 2 tasks, 4 days | each client has its limit and each crawler its count (`ProxyIsFair`); hangs are answered or logged, nothing lingers (`HangsAreSeen`); an accepted lead can be recovered (`LeadsAreKept`); a verdict that allows was sent, whole and in time (`FailsClosed`); an input shows what its visitor put there, but for a box cleared with a search in flight and a file that loads late (`LateAnswersYield`); an entry is judged behind the gate as before, no credential of a command line is shown, "via an environment variable" is true (`ScanIsHonest`); a tool that says more of itself is not trusted with more, but in four named ways, and one let loose has no verb that writes (`GradesOnlyRise`); stamps are the install's, lists whole, keys bounded, every streamed signal counted (`IngestHolds`); clean means seen nowhere (`CleanMeansSeenNowhere`); counted keys earned it and the memo loses none (`MarksHold`) |

Why these bounds are enough. A race in `DriftIdentity` takes two requests on one
install, or three in a row where the first is slow: two slots refilled without limit
give both, and the third token is the one a rotation needs after two claims. In
`LoginOAuth` every interference is between two logins, and a third key is needed only
for a re-issue after a lost one. `RateLimit` needs one request more than the largest
limit, and clock values on both sides of a minute end and of a day end. `LedgerPaging`
needs a walk that spans two publications and the expiry of the first. `RegistrySync`
needs a slug that vanishes in one window and returns in the next, a push rejected
twice, and one foreign commit before and one after a rebase; two slugs cover a file
with a conflicting and a non-conflicting change. `RegistryFeed` needs one page behind the
cursor and one ahead, three deployments (seen, missed, told) and one item more than the page
limit; `LedgerSlice` a tool counted in a wide change and one that is not. The wizard's races are
between one run and the next, or between two lists: two servers and two calls give both.
`TrustStore` needs two names that collide, a third that meets a former slug, and both TTLs to run
out. `DriftReads` needs two requests that share a memo and a tick more than the memo lives.
`DriftIngest` needs two pipelines on one list longer than its cap; `DriftQuery` a tool that
enters one plane, then the other, under a lookup; `ActiveKeys` a window inside the
retention and the day after it. `EdgeProxy` needs one bucket more than the map keeps and a
request on both sides of a window end; `McpEndpoint` keeps the order of the code's
timeouts (call < 10 s < 50 s < handler < kill), not their lengths; `LeadCapture` one lead more
than its list. `LedgerGuard` needs a line to lose, one for each of two sides to add, and a landing on each path with one more under an open pull request;
`ServerPage` a base that two names share and one that ends in `-mcp`; `ConfigScan` a flag and its
value; `ToolGrade` two words that pull a grade both ways, and a word of intent both alone and inside another. The named bounds are `Retries`, `Horizon`, `MaxWindows`, `MaxOthers`, `SyncTries`,
`ShipTries`, `MaxRetries`, `MaxPages`, `Size`, `LastTick`, `MaxEvents`, `MaxBuilds`, `Evidence`,
`MaxChanges`, `MaxScreens`, `FirstListed`, `MaxRuns`, `Asked`, `Resends`, `MaxMoves`, `LastDay`,
`MaxRequests`, `Sends`, `MaxEdits`, `MaxReads`, `MaxLines`, `MaxPushes`, `MaxArgs`, `MaxName`,
`MaxDescribed` and the sizes of the sets, all of them constants;
the only other ones are in `Ask` of `OwnerWizard` (once an answer has crossed, calls no longer
overlap) and in `Facts` of `LedgerSlice` (at most one change of its own per tool). Limits the code
has itself are constants too, small ones (`StreamCap`, `ListCap`, `HintTtl`, `Retention`,
`SeriesMax`, `MaxBuckets`, ...).

Symmetry is used where every element of a set is interchangeable and no liveness
property is checked in the run. The configuration of `identities` names browsers, keys and
logins as it names installs, tokens and states, so that one permutation renames both parts.
`CHECK_DEADLOCK FALSE` is set where requests, states, clock or
windows are used up by design and the instance then stops: `identities` (its logins), `rate_limits`,
`registry`, `registry_relisted`, `instance_reads` and `visitors`. The others check
deadlock.

Fairness. `LedgerPaging` assumes `WF_vars(Walking)`, the client's own loop, which is a
sequential program that runs until it returns or throws. `DriftReads` assumes weak fairness of
each step of a request that only waits for its own await (`Reads`, `Proceeds`, `Split`, `Loads`,
`IndexRead`, `SnapshotEnds`): a read ends, well or badly, and its continuation runs. Nothing is
assumed of the drain, the clock or the arrival of requests, so `WalkCompletes` is stated with the
escape the code has: the index went stale, or the walk outlived the pages it may read. The other
modules state safety only.

Every property of a passing run is broken by a plausible change of a definition that
models code (`mutants` in `PROJECT.json`); the changed form stands before the
definition it replaces, marked "Mutant". The type invariants of the modules
that section 5 proves something about are proved; the others document the state and are not in
the list of a run.

## 4. Where code and comments disagree

Shown by a run:

1. `scripts/sync-registry.mjs:267` says a deprecated server stays addressable. One that
   was gone before does not (`registry_relisted`); the committed data holds an example.
2. `components/OwnerVerifyWizard.tsx:230` says results must not carry over clear key.
   A call under way is not aborted, and its answer lands on the next run
   (`wizard_stale`).
3. `components/OwnerVerifyWizard.tsx:1104` says that each attestation records a human
   confirmation. Retry (`:980`) stays enabled while a list is under way; the second list ticks the
   tools anew (`:500`) and keeps the acknowledgement (`wizard_relisted`).
4. `app/server/[slug]/page.tsx:203` and `lib/registry.ts:933` say that a retired base on which
   several names collide gets a chooser, since picking one hands a reader another's verdict. When
   the active servers on it are two or more they are all hashed, and a deprecated one alone keeps
   the bare slug (`registry.ts:861`): its page answers (`retired_pages`). No base of the committed
   index is in this case yet.

Met while modelling, and part of what the passing runs allow:

- `lib/driftIdentity.ts:122` says the loser of a claim race gets 409. Two claims that
  both read the missing row are both answered 200.
- `lib/driftOAuth.ts:47` calls one-per-GitHub atomic. The EVAL is; a rotation in flight
  then writes its old snapshot over it (`clobbered`, the escape of
  `OneInstallPerGithubUntilClobbered`).
- `lib/issueKey.ts:10` says a transport error means "could not issue". A timed-out RPC
  may have rotated the account's key (`dropped`).
- `sync-registry.yml:112` says the bindings check runs again after each rebase. It does
  not after a clean one.
- The snapshot is stamped at the end of the cursor walk (`sync-registry.mjs`). A poller of
  `/api/v1/diff` that asks `since` the last `snapshotAt` misses what changed behind the
  cursor meanwhile: the escape in `ChangesAreTold`. Removals are in no diff, and beyond the page
  limit the answer is only flagged as truncated.
- `lib/verdicts.ts:59` and `:400`: a verdict of a replaced text is to read as stale. One with a
  FAIL keeps its status (`:419`), so a flag that was cleared still shows clean over the new
  text: "unless cleared" in `ScreenedIsCurrent`.
- `lib/driftQuery.ts:109`: a tool the crawl takes over from the installs between the two
  reads is answered "not drifted". A mark of `ActiveKeys` can slip past midnight.
- `lib/driftIngest.ts:147`: the 2 s timer covers the pipeline; the limiter and the reads that
  verify the bearer come before it.
- `proxy.ts:12` speaks of a sliding window; windows are fixed. `proxy.ts:189` says
  `/api/mcp` fetches itself; `v1Dispatch` calls the handlers in process.
- `lib/mcpWatchdog.ts` reads a 10 s line followed by "completed" as merely slow. A forced 504
  completes too. The 55 s limit of the handler does not beat the 60 s kill when the body took
  more than five. `route.ts:282`: `safeSeg` throws inside the map of `compare_servers`, and
  the calls made before it are then nobody's.
- `scripts/drain-leads.mjs:13` proposes `LTRIM <n> -1` after printing n leads; the list is
  newest first, so that drops the n newest. `app/api/waitlist/route.ts:113` says a
  failed lead is still in the log above; that line is redacted.
- `mcp-server-mcpindex/src/trust.mjs` says no legitimate name is rejected; one with a bare
  `%` is. The client's other tools fetch without a timeout.
- `components/ServerSearch.tsx`: clearing the box does not abort the fetch in flight, whose
  answer then lands (`overtaken`); an error leaves the old results below it.
  `components/ScanTool.tsx`: a file that loads late replaces what was typed since, which the
  clipboard takes care not to do.
- `lib/scan/parse.ts:423`: credentials masked in the command line of an entry behind the gate are
  not counted, so "via an environment variable" may be said of one that holds a credential in the
  file; a path with a space comes apart there ("/Users/jo Smith/proj" reads as a home directory)
  and a pin of a package named like a flag is masked. A url without a scheme is masked and
  nothing found in it; `${ENV}` in an argument counts as stored in the file; a `file:` url is
  said to reach the internet. The escapes are in `ScanIsHonest`.
- `app/docs/page.tsx:138` tells readers to write the original command as a word of its own.
  `lib/scan/parse.ts:349` reads it only after `--upstream-command=`, so such an entry is judged
  without its command: `ScanIsHonest` asks for the same judgement only of the other wirings.
- `lib/scan/vendor/lexicon.ts:68` says a text has side-effecting intent iff it carries such a
  token. Inside a camelCase word it does not count: `getAndResetStats` has no write signal and is
  graded discovery with no egress, `get_and_reset_stats` is not. `GradesOnlyRise` promises only the
  words that stand alone, and the verbs of `VERB_TO_TYPE` and `MUTATING_VERBS` however written.
- `lib/scan/vendor/actionClass.ts` says annotations only ever raise a class. A destructive hint on a
  tool that executes lowers never-unattended to needs-approval, and so does a word of
  infrastructure on a tool that sends messages: two of the four ways in `Lowers`.
- `proxy.ts` applies a seeded redirect also while its slug is listed again, and nothing clears
  one or checks where it goes. The OG card says REVIEW of a record that holds only a preview, of
  which the page says NOT YET SCREENED, and has no chooser for a base that collides.

## 5. What is proved

TLAPS checks every leaf; there is no unproved step. The theorems hold for every value
of the constants that the named assumptions allow.

**DriftIdentityProofs** (assumes `DriftConstants`: the null values lie outside their
sets and `Retries` is a natural number). `IInv` strengthens `TypeOK` with what a
request has established by the time it runs a command (`ReqInv`: a rotation holds an
active row it really read, an EVAL that revokes addresses an existing row) and with the
shape of rows (`RowInv`: cost class and hash go together, a revoked row has neither),
because a snapshot that is written back must itself be a row. `BindingsAgree` is in the
invariant as well: it is inductive once snapshots have the shape. From `Invariance`:

- `TypeCorrect`: `Spec => []TypeOK`.
- `BindingsAlwaysAgree`: `Spec => []BindingsAgree`, the property `identities` checks.
- `OneInstallPerGithubUntilClobbered`: two installs share an account only after a stale
  HSET landed, so that write is the only way there.
- `RevocationIsFinal`: `Spec => RevocationSettles`, an action property: a step from a
  settled revoked row leaves the row alone, action by action (`SettledStep`).
- `LiveTokensAreDelivered`: under `IssueIsAnswered` (the two writes of `issueIdentity` are
  answered in the end; without it the last write's lost answer loses the token, which is why the
  run assumes it as well), `Spec => []LiveTokenDelivered`. What makes it inductive is `TokenInv`: the
  token of a live row is with a client, or a request is about to answer with it or to replace
  the row.

**LoginProofs** (assumes `LoginConstants`). The invariant follows a login from its state to its
key: `BrowserInv` (cookies, links and callbacks of a state are the browser's its 302 went to),
`OnceInv` (a callback past its GETDEL, or a persisted key, leaves nothing of the state to
consume), `KeyInv` (a key is one request's or one login's), `LiveInv` (the active key is on a
page, dropped, or on its way). From it:

- `ShownKeysAreRightAlways`, `LoginsKeepApart` (an action property), and
- `LoginImplementsPromise`: `Spec => PromiseKept`. `CallbackIssue` is the promise's issue,
  `CallbackAnswer` its show; every other step stutters. `OnceInv` is what lets the issue step
  meet the promise's guard that the login has no key yet.
- `TypeCorrect`.

**LedgerProofs** (assumes `LedgerConstants`). A walk's generation was the published one when
it read page 0, so its pages live at least `PageTtl` longer (`Fixed`); its rows are at most as many
as its pages and, if as many, all of them in order (`Counted`): that is what the published
count is compared for. A finished section is a whole one (`Finished`).

- `MissingIsOld`: `Spec => []MissingOnlyWhenOld`.
- `LedgerImplementsPromise`: `Spec => PromiseKept`. Only `Decide` writes, both sections of one
  generation between the one at the start of the job and the present one.
- `TypeCorrect`.

**RegistryProofs** holds the theorems of five modules that share no state: the registry's sync,
the guard of the decision ledgers, the reads of one instance, the feed of what changed, and a
server's slice of the ledger.

*Sync* (assumes `SyncBounds`: the bounds are numbers). There are four trees at a time: main, the
window's checkout, the commit its own stands on, and its own. Each is one the site can be
served from (`Good`); what others push in a window leaves the snapshot and all derived from it
(`Since`); the window's commit has its own snapshot and derived files and, beside them, what
others wrote (`Synced`). The lemma the rest leans on is `SyncReplay`: a rebase, file by file with its
three-way merges and the sides the script takes, turns a `Synced` commit into a `Synced` one on the
new base.

- `SyncAlwaysHolds`: `SyncSpec => []SyncHolds`, with `WindowShips` in the invariant.
- `OthersWorkIsKept`: `SyncSpec => KeepsOthersWork`, from the same facts about the clone.
- `SyncTypeCorrect`.

*Guard* (assumes `LedgerGuardConstants` and `FirstLinesInForm`: the files it starts from parse, and no
ledger is the missing one). A green pull request has the main it was compared with as a prefix, and
only adds lines in form behind it. It lands on that main, or on a later one, which it then keeps
whole: what lands is main's lines with the branch's own behind them (`LandingKeepsMain`), and a
branch brought up to date is a new one (`UpdateKeeps`). The push-back job goes on only from a main it saw.
`EveryRulingStays` is about the lines main had by additions alone (`grown`): they stay, in order, at
the start of the file, until a push of the job changed one, which its own arm does not see.

- `RulingsAlwaysStay`: `LedgerGuardSpec => []RulingsStay`.

*Reads* (assumes `DriftConstants` of `DriftReads`: servers are finite and not none, so
that a summary's count can be compared with the set it counts). `LoadInv`: the one read of the
index decides which of two files everything is made from, so each answer, load and failure
agrees with it. `DriftInv`: the hash is whole or gone, and each summary held anywhere counts a
subset of the published one; with a second count equal to the split's, the field was whole.

- `ReadsAlwaysHold`: `Spec => []ReadsHold`; `ReadsAreOne` is its part about the loaders alone,
  `TypeCorrect` the types of both.

*Feed* (assumes `FeedConstants`: the bounds are numbers, a page is not empty). A snapshot says of
every name what the registry said at some moment of its walk. `Told` is the escape that leaves: the
rows agree, or the change is younger than the walk's start. Each deployment `FollowsOn` every
one before it: it tells what differs (`SameOrTold`), its first-seen dates keep those there were
(`Keeps`) and cover every snapshot that was folded in (`Covers`).

- `FeedIsAlwaysHonest`: `FeedSpec => []FeedIsHonest`.

*Slice* (assumes `SliceConstants` and `JunkIsNoValue`: a damaged value is none of those the drain
publishes). The state is one field, so the proof is about the functions between the drain's facts
and the answer: what is published is read back as it was (`ReadsBack`); the counts of a row are
sums over its tools, which parts that share none of them add up to (`SumOfParts`, `ShareSums`); the
rows of either form say what the facts do (`RowsSay`, `TrueAnswer`). Of a field with one
value damaged: what is read again of it has no better a count (`RereadNoBetter`), so the
answer is refused or reads no cleaner (`NoCleaner`).

- `SliceIsAlwaysAnswered`: `SliceSpec => []SliceIsAnswered`, for any tools, changes and hours.
- `SliceTypeCorrect`.

**VisitorProofs** holds the theorems of ten modules that share no state with one another.

- `CleanIsSeenNowhere`: `QuerySpec => []CleanMeansSeenNowhere`. `QueryInv` ties what each of the
  lookup's reads returned to what the served planes held when it was made, so that an answer put
  together from two reads speaks of a moment between them.
- `AlwaysFailsClosed`: `TrustClientSpec => []FailsClosed` (assumes `TrustClientConstants`, and
  `AbsentIsNoReply`: no reply is the value for none). `ClientInv` says of each step what the client can
  have, and `Safe` is unfolded over its rounds: a segment that stops changing before they run out is
  one whose every form was looked at.
- `LateAnswersAlwaysYield`: `InputSpec => []LateAnswersYield`. `BoxInv`: once the
  debounce has fired, at most one fetch is live and it asks for what the box holds, or the box was
  cleared meanwhile. `TextInv`: no clipboard has replaced a text, and a button that is busy has a read
  to wait for.
- `GradesAlwaysRise`: `ToolSpec => GradesOnlyRise` (assumes `ToolConstants`), from lemmas about the
  grading functions: the effective type is the first of what matched (`EffectiveIsFirst`) and moves
  only towards the front of the order (`MoreTypes`), a domain is left only for a graver one
  (`MoreDomains`), and the ceiling is monotone in both but in the four ways (`CeilingRises`).
- `HangsAreAlwaysSeen`: `McpSpec => []HangsAreSeen` (assumes `McpConstants`: the order of the code's
  timeouts). `McpInv`: until a phase has left a line in the log its 10 s timer is armed, and no armed
  timer is overdue; so a request that is killed in a phase past that time was seen, and a dispatch
  still under way has the handler's timer running.
- `MarksAlwaysHold`: `MarksSpec => []MarksHold` (assumes `ActiveConstants`: the retention covers a
  series and its window). A write may land after its day is over. `MarksInv`: a bucket that a window may
  still read holds all that was ever marked in it, because each landing renews its lifetime; a memo
  holds marks that landed only, and a mark under way is of a call that was let in, or has slipped.
- `LeadsAreAlwaysKept`: `LeadSpec => []LeadsAreKept` (assumes `LeadConstants`: a cap, finitely many
  submissions). `LeadInv`: a handler past its push has its lead stored or is about to log it, and an
  entry says of its delivery what its handler does. The list's length is paid for by the
  cap and by the handlers that pushed and saw no trim; a trim that lands pays for all of them.
- `IngestAlwaysHolds`: `IngestSpec => []IngestHolds` (assumes `IngestConstants`). `IngestInv`: of each
  install a post has still to verify it knows whether its bearer ever was, and always was, the live
  one. A list agrees with the one no cap ever cut, in the range a reader gets, whatever the order
  of other posts' commands. A hint set without expiry has a post about to set it, with no time passed
  since. Signals that were counted and not yet enqueued pay for those the stream gets.
- `ProxyIsAlwaysFair`: the proxy's `Spec => []ProxyIsFair` (assumes `EdgeConstants`). In
  `ProxyInv` a bucket counts its client's passes since its window began, up to the limit, and in the
  `Window` before that there were at most a limit's worth, so no stretch of that length meets more
  than two limits; a client whose bucket was given up for room, or met a clock set back, is excused. `AeoInv` is about the
  crawler counter: a write is of a minute that the memo does not hold, or the clock was
  set back since.
- `ScanIsAlwaysHonest`: `ConfigSpec => []ScanIsHonest` (assumes `ConfigConstants`), for arguments
  of any number. `MasksHide`: of a masked line no credential that a pattern knows is
  shown, nor the value of a flag; `SplitWhole`: a line none of whose words comes apart is what
  splitting leaves of it. With both, the entry behind the gate has the words it had
  before, and is judged alike.

**RateLimitProofs** (assumes `RateLimitConstants` and `KeysOutliveRequests`: a TTL is at
least its window plus `MaxDelay`. The code asks for 70 s on a minute and 25 h on a day,
so a request may lag by 10 s in the first case). The value INCR returns is a ticket.
`IpTickets` and `DayTickets` say a ticket is covered by its counter while the key may
live, `LateExpiry` and `Prompt` that no request under way can meet a second life of its
key, hence `IpDistinct` and `DayDistinct`: no two requests hold one ticket. A request let
through holds a ticket within the limit, so the pigeonhole lemmas bound their number:

- `BudgetsHold` (from `MinuteBudgetHolds` and `DayBudgetHolds`), `ClientSpendsItsShare`,
  `ClosedHolds`: the properties of `rate_limits`, there with one fault and here with all
  of them, and for any number of clients.
- `HoldsWhileAnswered`: `Spec => []HoldsWhileRedisAnswers`, for finitely many requests. `AnswerInv`
  says that each ticket below one's own is held by somebody, so a request is refused only
  after as many were let through as the limit allows.
- `TypeCorrect`.

**OwnerWizardProofs** (assumes `WizardConstants`: null values lie outside their sets,
probe-safe tools are tools). What is shown and which steps are earned is said of the current
step only, and not once an answer has crossed. That is not inductive: that the behaviour shown at
step 6 is the picked server's rests on the server not having changed since, and on no
result of an earlier one being left at steps 1 to 4. `Steady` states what a page relies
on at each step. An answer that has not crossed changes nothing, or finds the page at
the step, key and server it was asked from; `LandedSteady` shows for each of the six
calls that this is enough. `Loading` and `Busy` need no such escape: they relate the
page to the calls under way through every crossing. From `Invariance`:

- `ShownHolds`, `StepsEarnedHolds`, `DisabledPendingHolds`: the invariants of
  `wizard_flow`, for any number of overlapping calls, keys and servers. The run lets
  calls overlap only until one crosses; the theorems keep that bound, which is in `Ask`.
- `AttestsConfirmedHolds`: `Spec => AttestsWhatWasConfirmed`, crossings included. Only `Ask`
  makes an attest call, at step 4, which has the acknowledgement ticked; while that is ticked and no
  list has landed since, what is ticked is among what a person confirmed (`Acknowledged`).
- `TypeCorrect`.

**TrustStoreProofs** (assumes `SlugConstants`, `TrustConstants`, `PageConstants` and `NamesAreNoSlugs`: a
registry name is never a slug, since it has a `/`). That slugs are one server's is no matter of
history: it follows from the functions alone, by cases on where two rows of one slug come from
(`SlugsAreUnique`, `AdmissionMovesNoSlug`, for any names and base slugs). What is served under a
slug is a matter of history, and needs `Owned` (a record that says whose it is has that
server's screen) and `NotGone` (the bare slug of a server the registry lists as active is not in
the gone list). From these and `TypeOK`:

- `SlugsAlwaysHold`, `PagesAreServed`, `VerdictsAreTheSubjects`, `SurfacesDoAgree`,
  `FreshnessHolds`: the invariants of `trust_store`, for any number of servers, texts, screens
  and ticks.
- `AccusationsStay`: `Spec => AccusationStays`, action by action.
- `PagesAlwaysHold`: `Spec => []PagesHold`, for any artifacts and redirects as well. Who is offered to
  search and where a redirect leads follows from `SlugsAreUnique`; that page and badge say the same of a
  screen needs `Ruled` (only a flagged screen has been ruled on). That a reader is never sent
  astray could not be proved as first stated, and the case in its way is item 4 of section 4.
- `TypeCorrect`.

### Recursion over data

The induction theorems of the library take an operator, which no backend can instantiate. Where a
proof needs an induction all the same (sums over sets, the words of a line)
it takes the set of counterexamples and its least element (`WFMin` of
`WellFoundedInduction`, on numbers or on sizes) and shows that a smaller one exists. No module
has a RECURSIVE operator; recursion is by functions and folds.

### Only model-checked

The liveness properties `WalkEnds` and `EveryRequestEnds`: the prover does not reason about
fairness and ENABLED. Every other property of a passing run is stated by a theorem.

## 6. What is not modelled, and why

- Outside the repository: the drain, the crawler, the owner service, GitHub, Google, Brevo,
  Supabase's SQL, the MCP library, the seed pipeline. Where a module needs them they are
  environment actions taken from how the code uses them, marked external in the map.
- Cryptography: tokens, states and hashes are distinct values.
- HTTP shapes, validation messages, headers, layout, logging that no property is about.
- Most of the repository's lines are pages, components, prose and pure formatting. They keep no
  state beyond what a render shows, and the map's share of all lines is low for that reason.
- `LoginOAuth` has no action for what the page does with the key (loopback or
  postMessage); `OwnerWizard` takes any key the popup may deliver. Two popups of one
  account are unordered (`auth/login/callback/route.ts:133`): the wizard may keep the key the
  later one rotated out. No property covers that.
- `RegistrySync` returns any listing from a fetch; the walk behind it is `RegistryFeed`'s, where
  nothing is committed by others. A renamed server is one slug that vanishes and another
  that appears. A version that the registry moves back is not in `RegistryFeed`, nor are admitted
  servers, which have no first-seen date.
- `RateLimit` counts a request as a client; how an address is cut to a bucket
  (`ipBucket`) is left out.
- `TrustStore` lets a few things be, and its properties say where: an admitted server's bare slug
  passes to a registry twin listed later; an admitted server that regains a gone bare slug is
  answered 410; a record without a `server_id` rests on its slug alone. Left out are
  page caching at the edge, the label of a drifted listing, kill switches, an external anchor's
  own freshness. `ServerPage` has names for three servers at most in its run, so a deprecated server whose slug is
  the bare one of two active servers does not occur there.
- `RegistryLoad`: an unreadable admitted list is memoised with the rest (`pipeline-`), and a failed
  `registryNames` leaves an empty set for life; both are in the model, as what the code does.
- `DriftReads`: a hash lost after the field was read and written again before the second count
  escapes the guard (`short`); five minutes of clock skew allowed to a summary are left out.
- `LedgerPaging`: a published count that is no number makes the job skip its comparison of rows
  (`build-indexable-servers.ts:47`); in the model every count is a number, and is compared.
- `LedgerSlice`: a damaged kind, time or safety flag reads as absent; only counts are protected. The
  headline statistics, the list of publisher-wide changes and the digest are left out.
- `EdgeProxy`: one isolate; a write of the crawler counter that failed is not retried that
  minute. `lib/apiUsage.ts` counts each call with one unconditional pipeline and is left out.
- `scripts/remove-drift-identity.mjs` makes three deletes after one read, by hand; it is not yet an
  action of `DriftIdentity`.
- `LedgerGuard` is one of the CI guards; the others read a checkout and report. Ranking has
  floating-point weights; workforce, pings and statistics are batch passes without state.

## 7. Plan

1. **The operator's removal** as an action of `DriftIdentity`, with the escape its invariants
   then need; `OwnerWizard` with the popups of `LoginOAuth`.
2. **The npm client's other tools** and its update notice.
3. Pure algorithms over bounded inputs: `coerceIndependent`, `ipBucket`, the digest's grouping,
   ranking's order, the catalog texts, the guard of graduations, a workforce batch.
