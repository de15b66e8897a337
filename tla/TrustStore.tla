----------------------------- MODULE TrustStore -----------------------------
(***************************************************************************)
(* What the site says of a server's description screen, and for how long:  *)
(* lib/verdicts.ts and lib/badge.ts over the slugs of SlugSpace.           *)
(*                                                                         *)
(* The verdict store, the snapshot, the admitted list and the gone list    *)
(* are files of a deployment.  A sync replaces the snapshot, the seed      *)
(* pipeline (outside this repository) writes screens and rulings, and      *)
(* every read passes the stored record through the same overlays.  Time    *)
(* is a bounded count of ticks; a description stands for its hash.         *)
(***************************************************************************)
EXTENDS SlugSpace, Integers

CONSTANTS
  Text,                \* descriptions a server may publish
  KeysOf,              \* identities each server declares
  Outcomes,            \* what a screen may find: [status, screen, schema]
  OwnTtl, ConfirmTtl,  \* SEED_VERDICT_TTL (30 d) and CONFIRM_TTL_MS (7 d), in ticks
  PolicyEpoch,         \* POLICY_EPOCH: earlier screens are never confirmed
  Horizon, MaxChanges, MaxScreens,    \* bounds
  FirstListed,         \* bound: the names listed at first
  Admittable,          \* the names an editor may admit
  NoName, NoText, NoVerdict

NoTime == -1

Outcome == [status: {"EVALUATED", "PARTIAL", "STALE", "ERROR"},
            screen: {"PASS", "FAIL", "UNVERIFIED", "ERROR"}, schema: BOOLEAN]

\* A record as normalize leaves it.  `by` is history: whose description was screened.
Verdict == [by: Name, server_id: Name \cup {NoName}, content_hash: Text \cup {NoText},
            evaluated_at: Int, expires_at: Int,
            status: {"EVALUATED", "PARTIAL", "STALE", "ERROR"},
            screen: {"PASS", "FAIL", "UNVERIFIED", "ERROR", "none"}, schema: BOOLEAN,
            adjudication: {"none", "confirmed", "cleared"}, unscreened: BOOLEAN,
            limits: SUBSET {"freshness_confirmed", "expired_verdict", "content_drift"}]

ASSUME TrustConstants ==
  /\ Outcomes \subseteq Outcome /\ Admittable \subseteq Name /\ FirstListed \subseteq Name
  /\ OwnTtl \in Nat /\ ConfirmTtl \in Nat /\ PolicyEpoch \in Int /\ Horizon \in Nat
  /\ NoName \notin Name /\ NoText \notin Text /\ NoVerdict \notin Verdict
  /\ KeysOf \in [Name -> SUBSET Key] /\ Text # {}

VARIABLES
  listed,     \* the snapshot: [Name -> {"absent", "active", "deprecated"}]
  admitted,   \* data/admitted.json
  text,       \* the description each server publishes
  fetched,    \* the snapshot's fetchedAt
  gone,       \* data/server-removals.json: slugs answered 410
  store,      \* data/verdicts.json: a record per slug
  now,
  changes, screens    \* bounds: changes of the listings, records written
catalog == <<listed, admitted, text, fetched, gone, changes>>
vars == <<catalog, store, now, screens>>
-----------------------------------------------------------------------------
Times == 0..Horizon

\* The slugs a server can have, and the ids an API caller may send.
StoreSlug == {slugify(n) : n \in Name} \cup
             {withDisambiguator(slugify(n), n) : n \in Name}
FormerSlug == {<<FormerOf[n]>> : n \in Name}
Ids == Name \cup StoreSlug \cup FormerSlug

\* A registry name has a `/`, a slug never.
ASSUME NamesAreNoSlugs == Name \cap (StoreSlug \cup FormerSlug) = {}

Entries(names, status, at) ==
  {[name |-> n, status |-> status, keys |-> KeysOf[n], usable |-> TRUE, at |-> at] :
     n \in names}

SnapshotOf(l) == Entries({n \in Name : l[n] = "active"}, "active", 1) \cup
                 Entries({n \in Name : l[n] = "deprecated"}, "deprecated", 1)

ServersOf(l, a) == loadServersFromSnapshot(SnapshotOf(l), Entries(a, "active", 2))
Servers == ServersOf(listed, admitted)
Deprecated == resolveDeprecatedServers(SnapshotOf(listed), Slugs(Servers))

\* What the pipeline writes of a screen.
Record(n, sid, t, outcome, adj) ==
  [by |-> n, server_id |-> sid, content_hash |-> t, evaluated_at |-> now,
   expires_at |-> now + OwnTtl, status |-> outcome.status, screen |-> outcome.screen,
   schema |-> outcome.schema, adjudication |-> adj, unscreened |-> FALSE, limits |-> {}]

\* An owner's preview badge on a server never screened: normalize makes its absent
\* status ERROR and marks it.
Preview(n) ==
  [by |-> n, server_id |-> n, content_hash |-> NoText, evaluated_at |-> NoTime,
   expires_at |-> NoTime, status |-> "ERROR", screen |-> "none", schema |-> FALSE,
   adjudication |-> "none", unscreened |-> TRUE, limits |-> {}]
-----------------------------------------------------------------------------
(* The overlays of a read.                                                 *)

hasFailAxis(v) == v.screen = "FAIL" \/ v.schema

isVerdictExpired(v) == v.expires_at # NoTime /\ now >= v.expires_at

\* Mutant: the window counts from the read, not from the snapshot.
ConfirmedFromNow(v, description, anchor) ==
  IF v.content_hash = description /\ v.evaluated_at >= PolicyEpoch
  THEN [v EXCEPT !.expires_at = now + ConfirmTtl,
                 !.limits = @ \cup {"freshness_confirmed"}] ELSE v

\* Unchanged text under the current policy is good for ConfirmTtl after the snapshot
\* that showed it; no window is ever shortened.
applyConfirmationOverlay(v, description, anchor) ==
  IF /\ v.content_hash = description /\ anchor # NoTime
     /\ v.evaluated_at >= PolicyEpoch
     /\ (v.expires_at = NoTime \/ v.expires_at < anchor + ConfirmTtl)
  THEN [v EXCEPT !.expires_at = anchor + ConfirmTtl,
                 !.limits = @ \cup {"freshness_confirmed"}]
  ELSE v

\* Mutant: an expired accusation goes stale like anything else.
StaleWhateverItSays(v, limit) ==
  [v EXCEPT !.limits = @ \cup {limit}, !.status = "STALE", !.screen = "none"]

\* Only a clean record goes STALE; an accusation keeps its status.
Demoted(v, limit) ==
  [v EXCEPT !.limits = @ \cup {limit},
            !.status = IF hasFailAxis(v) THEN @ ELSE "STALE"]

applyExpiryOverlay(v) ==
  IF isVerdictExpired(v) THEN Demoted(v, "expired_verdict") ELSE v

applyContentDriftOverlay(v, description) ==
  IF v.content_hash = NoText \/ v.content_hash = description THEN v
                                             ELSE Demoted(v, "content_drift")

\* Mutant: the slug alone ties a record to a server.
BindsAnySubject(v, name) == TRUE

verdictBindsSubject(v, name) == v.server_id \in {NoName, name}

\* The verdict a server is entitled to; anchor is the snapshot's fetchedAt, or NoTime
\* when it cannot be read.
selectVerdictForSubject(s, anchor) ==
  LET v == store[s.slug]
  IN  IF v = NoVerdict THEN NoVerdict
      ELSE IF ~verdictBindsSubject(v, s.name) THEN NoVerdict
      ELSE applyContentDriftOverlay(applyExpiryOverlay(
             applyConfirmationOverlay(v, text[s.name], anchor)), text[s.name])

\* Mutant: the leaderboard takes preview records too.
ScreenedWithPreviews(anchor) ==
  {[slug |-> s.slug, verdict |-> selectVerdictForSubject(s, anchor)] :
     s \in {x \in Servers : store[x.slug] # NoVerdict /\
                            verdictBindsSubject(store[x.slug], x.name)}}

\* listScreened: the leaderboard, from the store's side.
selectScreened(anchor) ==
  {[slug |-> s.slug, verdict |-> selectVerdictForSubject(s, anchor)] :
     s \in {x \in Servers : /\ store[x.slug] # NoVerdict
                            /\ ~store[x.slug].unscreened
                            /\ verdictBindsSubject(store[x.slug], x.name)}}

\* The badge, its accusation gate first: only a confirmed flag accuses, and only a
\* clean presentation goes stale.
computeBadgeState(v) ==
  IF v = NoVerdict THEN "not-screened"
  ELSE LET fresh(state) == IF v.status = "STALE" \/ isVerdictExpired(v)
                           THEN "stale" ELSE state
       IN  IF v.screen = "FAIL" /\ v.adjudication = "confirmed" THEN "flagged"
           ELSE IF v.screen = "FAIL" /\ v.adjudication = "none" THEN "review"
           ELSE IF v.schema THEN "review"
           ELSE IF v.screen = "FAIL" THEN fresh("screened")
           ELSE IF v.status = "ERROR" THEN "not-screened"
           ELSE fresh(IF v.screen = "PASS" THEN "screened" ELSE "review")
-----------------------------------------------------------------------------
(* The routes.                                                             *)

\* resolveVerdictSlug: the slug an id is answered under, if any.
resolveVerdictSlugIn(id, servers) ==
  LET named == {s \in servers : s.name = id}
  IN  IF id \in Slugs(servers) THEN {id}
      ELSE IF named # {} THEN IF Cardinality(named) = 1 THEN Slugs(named) ELSE {}
      ELSE IF id \in gone THEN {}
      ELSE Slugs(FormerOwners(servers, id))

\* The verdicts answered under an id: of /api/v1/badge, and (screened only) of
\* /api/v1/trust/server, .../tool and /api/v1/preflight.
VerdictsFor(id, anchor) ==
  LET servers == Servers
      slug == resolveVerdictSlugIn(id, servers)
  IN  {selectVerdictForSubject(s, anchor) : s \in {x \in servers : x.slug \in slug}}
      \ {NoVerdict}

TrustFor(id, anchor) == {v \in VerdictsFor(id, anchor) : ~v.unscreened}

Badge(s, anchor) == computeBadgeState(selectVerdictForSubject(s, anchor))

\* /server/<slug>: the proxy's 410, the server, the chooser, the redirect of a slug
\* that moved, or not found.
Page(slug) ==
  LET here == {s \in Servers \cup Deprecated : s.slug = slug}
  IN  IF slug \in gone THEN {"gone"}
      ELSE IF here # {} THEN {s.name : s \in here}
      ELSE IF getCollidingBase(Servers, slug) # {} THEN {"choose"}
      ELSE IF FormerOwners(Servers, slug) # {} THEN {"moved"}
      ELSE {"notFound"}
-----------------------------------------------------------------------------
(* What changes the files.                                                 *)

\* Mutant: a slug stays gone when it is listed again.
NeverCleared(next) ==
  gone \cup ({slugify(n) : n \in {m \in Name : listed[m] # "absent"}}
             \ {slugify(n) : n \in {m \in Name : next[m] # "absent"}})

\* scripts/sync-registry.mjs: the bare slugs that left the registry's listing.
GoneAfter(next) ==
  (gone \cup ({slugify(n) : n \in {m \in Name : listed[m] # "absent"}}
              \ {slugify(n) : n \in {m \in Name : next[m] # "absent"}}))
  \ {slugify(n) : n \in {m \in Name : next[m] = "active"}}

\* A sync: the snapshot of this instant, with at most one listing changed.
Sync(n, status, t) ==
  /\ (status # "active" => t = text[n])
  /\ changes' = changes + (IF status = listed[n] /\ t = text[n] THEN 0 ELSE 1)
  /\ changes' <= MaxChanges
  /\ listed' = [listed EXCEPT ![n] = status]
  /\ text' = [text EXCEPT ![n] = t]
  /\ fetched' = now
  /\ gone' = GoneAfter(listed')
  /\ UNCHANGED <<admitted, store, now, screens>>

\* An edit of admitted.json, with the files derived from it.
Admit(n) ==
  /\ changes < MaxChanges
  /\ changes' = changes + 1
  /\ admitted' = IF n \in admitted THEN admitted \ {n} ELSE admitted \cup {n}
  /\ UNCHANGED <<listed, text, fetched, gone, store, now, screens>>

Write(slug, record) ==
  /\ screens < MaxScreens
  /\ screens' = screens + 1
  /\ store' = [store EXCEPT ![slug] = record]
  /\ UNCHANGED <<catalog, now>>

\* The seed pipeline screens a server: perhaps an older text, perhaps under the slug it
\* had before.  A ruling stays with the text it was made on.
Screen(n, slug, t, outcome) ==
  /\ screens < MaxScreens
  /\ slug \in {slugify(n), withDisambiguator(slugify(n), n)}
  /\ n \in {s.name : s \in Servers}
  /\ LET old == store[slug]
         adj == IF outcome.screen # "FAIL" \/ old = NoVerdict THEN "none"
                ELSE IF old.content_hash = t /\ verdictBindsSubject(old, n)
                     THEN old.adjudication ELSE "none"
     IN  Write(slug, Record(n, n, t, outcome, adj))

\* A human rules on a flagged record.
Adjudicate(slug, decision) ==
  /\ store[slug] # NoVerdict
  /\ store[slug].screen = "FAIL"
  /\ Write(slug, [store[slug] EXCEPT !.adjudication = decision])

MintPreview(s) ==
  /\ s \in Servers
  /\ store[s.slug] = NoVerdict
  /\ Write(s.slug, Preview(s.name))

Tick ==
  /\ now < Horizon
  /\ now' = now + 1
  /\ UNCHANGED <<catalog, store, screens>>

\* Some records predate `server_id` (and the policy); they were written for the
\* server that then had their slug.
Init ==
  /\ \E on \in {{}, FirstListed} :
       listed = [n \in Name |-> IF n \in on THEN "active" ELSE "absent"]
  /\ admitted \in {{}, Admittable}
  /\ text \in [Name -> {CHOOSE t \in Text : TRUE}]
  /\ fetched = 0 /\ gone = {} /\ now = 0 /\ changes = 0 /\ screens = 0
  /\ \E s \in ServersOf(listed, admitted), outcome \in Outcomes :
       store = [x \in StoreSlug |->
                  IF x = s.slug THEN Record(s.name, NoName, text[s.name], outcome, "none")
                                ELSE NoVerdict]

Next ==
  \/ \E n \in Name, st \in {"absent", "active", "deprecated"}, t \in Text : Sync(n, st, t)
  \/ \E n \in Admittable : Admit(n)
  \/ \E n \in Name, slug \in StoreSlug, t \in Text, o \in Outcomes : Screen(n, slug, t, o)
  \/ \E slug \in StoreSlug, d \in {"confirmed", "cleared"} : Adjudicate(slug, d)
  \/ \E s \in Servers : MintPreview(s)
  \/ Tick

Spec == Init /\ [][Next]_vars
-----------------------------------------------------------------------------
Anchors == {fetched, NoTime}

CatalogOK ==
  /\ listed \in [Name -> {"absent", "active", "deprecated"}]
  /\ admitted \subseteq Admittable

TypeOK ==
  /\ CatalogOK
  /\ text \in [Name -> Text] /\ fetched \in Times /\ now \in Times
  /\ gone \subseteq {slugify(n) : n \in Name}
  /\ store \in [StoreSlug -> Verdict \cup {NoVerdict}]

\* A slug addresses one server, whatever is listed, deprecated or admitted: two
\* subjects on one slug would show one's verdict over the other's install commands.
OneSubjectPerSlug ==
  \A s, t \in Servers \cup Deprecated : s.slug = t.slug => s.name = t.name

\* Admitting a server moves no listed server's slug.
AdmittedMovesNobody ==
  \A s \in ServersOf(listed, {}) : s \in Servers

\* Every slug is one server's, and an admission takes none away.
SlugsHold == OneSubjectPerSlug /\ AdmittedMovesNobody

\* The page of a listed active server is its own: not a 410, not the chooser, not
\* another's.  An admitted server is as well, unless the registry's last row on its
\* base slug left: the slug is then gone and, bare again, the admitted server's.
OwnPageServed ==
  \A s \in Servers : Page(s.slug) = {s.name} \/ (s.source = "admitted" /\ s.slug \in gone)

\* A slug is one server's, and leads to its page.
AddressesHold == SlugsHold /\ OwnPageServed

\* A verdict answered under an id is a screen of the server the id names, through
\* every change of the listings and every late or misfiled screen; the records that
\* do not say whose they are (server_id) rest on their slug alone.
RightSubject ==
  \A id \in Ids, anchor \in Anchors : \A v \in VerdictsFor(id, anchor) :
    \/ v.server_id = NoName
    \/ IF id \in Name THEN v.by = id
       ELSE IF id \in Slugs(Servers) THEN \E s \in Servers : s.slug = id /\ s.name = v.by
       ELSE <<FormerOf[v.by]>> = id

\* The leaderboard, the trust API and the badge say the same of every server.
SurfacesAgree ==
  \A anchor \in Anchors :
    /\ \A s \in Servers :
         LET row == {r.verdict : r \in {x \in selectScreened(anchor) : x.slug = s.slug}}
         IN  row = TrustFor(s.slug, anchor)
    /\ \A s \in Servers :
         Badge(s, anchor) # "not-screened" => TrustFor(s.slug, anchor) # {}

\* The dead-man's switch: no badge is clean once its record's own window is over and
\* the snapshot is older than the confirmation window, whoever stopped.
NothingFreshWithoutSync ==
  \A s \in Servers, anchor \in Anchors :
    Badge(s, anchor) = "screened" =>
      \/ now < store[s.slug].expires_at
      \/ now < fetched + ConfirmTtl

\* A clean badge is about the text now published, unless a human cleared the record;
\* and any verdict on a replaced text says so.
ScreenedIsCurrent ==
  \A s \in Servers, anchor \in Anchors :
    LET v == selectVerdictForSubject(s, anchor)
    IN  v # NoVerdict /\ ~v.unscreened /\ v.content_hash # text[s.name] =>
          /\ "content_drift" \in v.limits
          /\ Badge(s, anchor) = "screened" => v.adjudication = "cleared"

\* A record screened under the current policy does not go stale while its text stands
\* and the syncs run.
ConfirmedStaysFresh ==
  \A s \in Servers :
    LET v == selectVerdictForSubject(s, fetched)
    IN  v # NoVerdict /\ v.evaluated_at >= PolicyEpoch /\ v.content_hash = text[s.name]
          /\ now < fetched + ConfirmTtl /\ store[s.slug].status # "STALE"
        => Badge(s, fetched) # "stale"

\* A clean badge is fresh, is about the text published now, and stays while both hold.
Freshness == NothingFreshWithoutSync /\ ScreenedIsCurrent /\ ConfirmedStaysFresh

\* Nothing but a new record takes a confirmed flag off a server whose slug stays:
\* neither time, nor a sync, nor another description, nor a dead pipeline.
AccusationStays ==
  [][\A s \in Servers, anchor \in Anchors :
       (/\ Badge(s, anchor) = "flagged"
        /\ \E t \in Servers' : t.slug = s.slug /\ t.name = s.name
        /\ store'[s.slug] = store[s.slug])
       => \A t \in Servers' : t.slug = s.slug =>
            \A a \in Anchors' : Badge(t, a)' = "flagged"]_vars
=============================================================================
