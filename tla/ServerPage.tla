----------------------------- MODULE ServerPage -----------------------------
(***************************************************************************)
(* What a reader and a crawler get under /server/<slug>, over the files of *)
(* TrustStore: proxy.ts, app/server/[slug]/page.tsx with its metadata, and *)
(* the two lists that offer such pages to a search engine, app/sitemap.ts  *)
(* and app/servers/drift-observed/page.tsx (lib/indexable.ts).  Everything *)
(* here is a function of the files, so the module adds no state: the       *)
(* properties are about every state TrustStore reaches.                    *)
(*                                                                         *)
(* A page offered to search is one whose server the indexable artifact     *)
(* lists (LedgerPaging has how it is built).  Each instance reads the      *)
(* artifact once: two instances may differ, when one failed to read it.    *)
(***************************************************************************)
EXTENDS TrustStore

CONSTANTS
  Doc,        \* names an artifact may list: sets of names
  NoDoc,      \* a missing or malformed artifact, or one that could not be read
  Seeded,     \* [slug -> slug]: data/server-removals.json redirects, written by hand
  Longer,     \* <<short, long>>: bare slugs, one the other with `-` and more appended
  WithoutMcp  \* [base -> base]: those that end in `-mcp`

ASSUME PageConstants ==
  Doc \subseteq (SUBSET Name) \ {{}} /\ NoDoc \notin Doc
-----------------------------------------------------------------------------
(* Who is offered to search.                                               *)

\* Without an artifact every page is; never none.
indexable(doc, name) == doc = NoDoc \/ name \in doc

sitemap(servers, doc) == {s.slug : s \in {x \in servers : indexable(doc, x.name)}}

DriftObserved(servers, doc) ==
  {s.slug : s \in {x \in servers : x.status # "deprecated" /\ indexable(doc, x.name)}}

\* getServer: the active server of a slug, else the deprecated one.
getServer(slug, servers, deprecated) ==
  LET active == {s \in servers : s.slug = slug}
  IN  IF active # {} THEN active ELSE {s \in deprecated : s.slug = slug}

\* Mutant: a deprecated server with drift of its own is offered too.
RobotsOfAny(here, doc) ==
  IF \E s \in here : indexable(doc, s.name) THEN "index" ELSE "noindex"

\* The robots of a page's metadata, `here` being the server of its slug, if any: the
\* chooser, a gone slug and an unknown one are never offered.
robots(here, doc) ==
  IF \E s \in here : s.status # "deprecated" /\ indexable(doc, s.name)
  THEN "index" ELSE "noindex"
-----------------------------------------------------------------------------
(* Who answers under a slug.                                               *)

Begins(slug, long) ==
  Len(slug) = 1 /\
    (<<slug[1], long[1]>> \in Longer \/ (Len(long) = 2 /\ long[1] = slug[1]))

\* A guess is made only when one active slug begins so.
PrefixRename(slug, active) ==
  LET longs == {x \in active : Begins(slug, x)}
  IN  IF Cardinality(longs) = 1 THEN longs ELSE {}

\* Mutant: a slug without `-mcp` is taken for somebody's.
StrippedWhoever(slug, active) ==
  IF Len(slug) = 1 /\ slug[1] \in DOMAIN WithoutMcp THEN {<<WithoutMcp[slug[1]]>>} ELSE {}

StrippedMcp(slug, active) ==
  IF Len(slug) = 1 /\ slug[1] \in DOMAIN WithoutMcp
  THEN {<<WithoutMcp[slug[1]]>>} \cap active ELSE {}

\* The live successor of a slug nobody has: a seeded one, the server whose hashed slug it
\* was, the slug without `-mcp`, or the only longer one.
resolveServerRedirect(slug, servers) ==
  LET active == Slugs(servers)
      seeded == IF slug \in DOMAIN Seeded THEN {Seeded[slug]} \cap active ELSE {}
      legacy == Slugs(FormerOwners(servers, slug))
      stripped == StrippedMcp(slug, active)
  IN  IF slug \in active THEN {}
      ELSE IF seeded # {} THEN seeded
      ELSE IF legacy # {} THEN legacy
      ELSE IF stripped # {} THEN stripped
      ELSE PrefixRename(slug, active)

\* ServerPage: the server's page; the chooser of the names that shorten to the slug; a
\* permanent redirect; or not found.
ServerPage(slug, servers, deprecated) ==
  LET here == getServer(slug, servers, deprecated)
      colliding == getCollidingBase(servers, slug)
      dest == resolveServerRedirect(slug, servers)
  IN  IF here # {} THEN [kind |-> "page", of |-> {s.name : s \in here}]
      ELSE IF colliding # {} THEN [kind |-> "choose", of |-> Slugs(colliding)]
      ELSE IF dest # {} THEN [kind |-> "moved", of |-> dest]
      ELSE [kind |-> "notFound", of |-> {}]

\* In front of the page, proxy.ts: a seeded redirect whoever has the slug, then 410.
Answer(slug, servers, deprecated) ==
  IF slug \in DOMAIN Seeded THEN [kind |-> "seeded", of |-> {Seeded[slug]}]
  ELSE IF slug \in gone THEN [kind |-> "gone", of |-> {}]
  ELSE ServerPage(slug, servers, deprecated)
-----------------------------------------------------------------------------
(* What the page says.                                                     *)

\* loadVerdictForServer: a record that holds only an owner's preview is no verdict.
loadVerdictForServer(s, anchor) ==
  LET v == selectVerdictForSubject(s, anchor)
  IN  IF v = NoVerdict \/ v.unscreened THEN {} ELSE {v}

\* Mutant: a ruling on the screen clears the schema's flag from the page.
ClearedClearsAll(v) ==
  IF v.adjudication # "none" THEN {v.adjudication}
  ELSE (IF v.screen = "FAIL" THEN {"held"} ELSE {})
       \cup (IF v.schema THEN {"schema held"} ELSE {})

\* The ruling, or that the flag is held; the schema's flag whatever was ruled.
Notices(v) ==
  (IF v.adjudication # "none" THEN {v.adjudication}
   ELSE IF v.screen = "FAIL" THEN {"held"} ELSE {})
  \cup (IF v.schema THEN {"schema held"} ELSE {})

\* And beside each accusation, that the text it was made of is published no more.
TrustVerdictPanel(state) ==
  IF state = {} THEN {"not yet screened"}
  ELSE LET v == CHOOSE x \in state : TRUE
       IN  Notices(v) \cup
           (IF hasFailAxis(v) /\ "content_drift" \in v.limits
            THEN {"text replaced"} ELSE {})
-----------------------------------------------------------------------------
PageSlugs == StoreSlug \cup FormerSlug \cup {<<d>> : d \in DOMAIN WithoutMcp}
Docs == Doc \cup {NoDoc}

\* Every page a list offers is that server's own and asks to be indexed, in an instance
\* that read the artifact or one that did not; unless a redirect was seeded for its slug
\* by hand, or it is an admitted server's that regained a gone slug.
OfferedPagesAreServed(servers, deprecated) ==
  \A s \in servers :
    LET answer == Answer(s.slug, servers, deprecated)
        here == getServer(s.slug, servers, deprecated)
    IN  \A doc \in Doc :
          s.slug \in sitemap(servers, doc) \cup DriftObserved(servers, doc) =>
            /\ \/ answer = [kind |-> "page", of |-> {s.name}]
               \/ s.slug \in DOMAIN Seeded
               \/ s.source = "admitted" /\ s.slug \in gone
            /\ \A own \in {doc, NoDoc} : robots(here, own) = "index"

\* And nothing else asks to be: no deprecated server, chooser, gone or unknown slug.
OnlyOfferedAreIndexed(servers, deprecated) ==
  \A slug \in PageSlugs :
    LET here == getServer(slug, servers, deprecated)
    IN  \A doc \in Docs :
          robots(here, doc) = "index" =>
            slug \in sitemap(servers, doc) \cap DriftObserved(servers, doc)

\* On a slug that two listed servers shorten to the reader is never moved to one of them
\* nor told there is nothing: they are asked, unless one server has that very slug, and
\* then it is its page.  And a redirect the page makes ends at once, at an active
\* server's page.
NobodyIsSentAstray(servers, deprecated) ==
  \A slug \in PageSlugs :
    LET answer == Answer(slug, servers, deprecated)
        here == {s \in servers \cup deprecated : s.slug = slug}
    IN  /\ getCollidingBase(servers, slug) # {} =>
             \/ answer.kind \in {"gone", "seeded"}
             \/ answer.kind = "choose" /\ here = {}
             \/ answer.kind = "page" /\ \E s \in here : answer.of = {s.name}
        /\ answer.kind = "choose" => answer.of \subseteq Slugs(servers)
        /\ answer.kind = "moved" => \A dest \in answer.of :
             /\ dest \in Slugs(servers)
             /\ \/ dest \in gone \cup DOMAIN Seeded
                \/ Answer(dest, servers, deprecated).kind = "page"

\* The page and the badge tell one story: the page reports a confirmed flag exactly when
\* the badge accuses; what it holds for review is no clean badge; and an accusation made of
\* a text that was replaced says so.
PanelMatchesBadge(servers) ==
  \A s \in servers, anchor \in Anchors :
    LET v == selectVerdictForSubject(s, anchor)
        panel == TrustVerdictPanel(loadVerdictForServer(s, anchor))
        badge == Badge(s, anchor)
    IN  /\ badge = "flagged" <=> "confirmed" \in panel
        /\ panel \cap {"held", "schema held"} # {} => badge \in {"review", "flagged"}
        /\ "not yet screened" \in panel => badge = "not-screened"
        /\ (v # NoVerdict /\ v.schema) => "schema held" \in panel
        /\ (badge = "flagged" /\ v.content_hash # text[s.name]) => "text replaced" \in panel

\* What the page says of a base that several listed servers shorten to and none of them
\* has (page.tsx: "picking one would hand a reader the other subject's verdict"; "Name
\* both instead"): the reader is asked.
RetiredBasesAsk ==
  LET servers == Servers
      deprecated == Deprecated
  IN  \A slug \in PageSlugs \ (Slugs(servers) \cup gone \cup DOMAIN Seeded) :
        getCollidingBase(servers, slug) # {} =>
          Answer(slug, servers, deprecated).kind = "choose"

\* What is found under a server's address is its own, whole and nobody else's.
PagesHold ==
  LET servers == Servers
      deprecated == Deprecated
  IN  /\ OfferedPagesAreServed(servers, deprecated)
      /\ OnlyOfferedAreIndexed(servers, deprecated)
      /\ NobodyIsSentAstray(servers, deprecated)
      /\ PanelMatchesBadge(servers)
=============================================================================
