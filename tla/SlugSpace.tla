------------------------------ MODULE SlugSpace ------------------------------
(***************************************************************************)
(* Which page address names which server: lib/registry.ts.  slugify is     *)
(* lossy, so distinct names can fall on one base slug; every member of     *)
(* such a group then gets a slug that carries a hash of its name.  Trust   *)
(* verdicts, pages and badges are keyed by slug.                           *)
(*                                                                         *)
(* A slug is a sequence: <<base>> as slugify leaves it, and a hash joined  *)
(* on (`base--16hex`) is the name it was taken of, appended.  That two     *)
(* hashes differ, and that no bare slug contains `--`, is thereby assumed. *)
(* Rows carry their place in the snapshot (`at`), the admitted ones after  *)
(* the registry's.                                                         *)
(***************************************************************************)
EXTENDS Naturals, Sequences, FiniteSets

CONSTANTS
  Name,       \* registry names
  BaseOf,     \* what slugify makes of each name
  FormerOf,   \* `base-12hex`: the form a hashed slug had before `--`
  Key         \* package, repository and remote identities of a server

ASSUME SlugConstants == DOMAIN BaseOf = Name /\ DOMAIN FormerOf = Name

\* `usable`: it has a description, and a name that is well-formed UTF-16.
Entry == [name: Name, status: {"active", "deprecated"}, keys: SUBSET Key,
          usable: BOOLEAN, at: Nat]

slugify(name) == <<BaseOf[name]>>

withDisambiguator(slug, name) == Append(slug, name)

\* A snapshot or admitted entry as it is indexed.
Normalized(e, source) ==
  [name |-> e.name, keys |-> e.keys, at |-> e.at, source |-> source,
   status |-> e.status, slug |-> slugify(e.name)]

Rows(entries, status, source) ==
  {Normalized(e, source) : e \in {x \in entries : x.status = status /\ x.usable}}

\* Mutant: an admitted row takes its bare slug whatever the registry lists.
MergedAsIs(registry, admitted) == registry \cup admitted

\* An admitted row goes when the registry lists one of its identities; its slug is
\* hashed at once when a registry row has it, so that the registry's does not move.
mergeAdmitted(registry, admitted) ==
  LET kept == {s \in admitted : \A r \in registry : r.keys \cap s.keys = {}}
  IN  registry \cup
      {IF \E r \in registry : r.slug = s.slug
       THEN [s EXCEPT !.slug = withDisambiguator(s.slug, s.name)] ELSE s : s \in kept}

FirstPerName(rows) ==
  {s \in rows : \A t \in rows : t.name = s.name => s.at <= t.at}

\* Every member of a group that shares a slug gets its own.
disambiguateSlugs(rows) ==
  {IF \E t \in rows : t # s /\ t.slug = s.slug
   THEN [s EXCEPT !.slug = withDisambiguator(s.slug, s.name)] ELSE s : s \in rows}

FirstPerSlug(rows) ==
  {s \in rows : \A t \in rows : t.slug = s.slug => s.at <= t.at}

loadServersFromSnapshot(snapshot, admitted) ==
  FirstPerSlug(disambiguateSlugs(FirstPerName(
    mergeAdmitted(Rows(snapshot, "active", "registry"),
                  Rows(admitted, "active", "admitted")))))

Slugs(servers) == {s.slug : s \in servers}

\* A deprecated row is hashed when it shares its slug with another or an active row
\* owns it.
resolveDeprecatedServers(snapshot, activeSlugs) ==
  LET rows == FirstPerName(Rows(snapshot, "deprecated", "registry"))
  IN  {IF s.slug \in activeSlugs \/ \E t \in rows : t # s /\ t.slug = s.slug
       THEN [s EXCEPT !.slug = withDisambiguator(s.slug, s.name)] ELSE s : s \in rows}

\* The names a bare slug stood for, when there are several.
getCollidingBase(servers, slug) ==
  LET members == {s \in servers : <<BaseOf[s.name]>> = slug}
  IN  IF Cardinality(members) < 2 THEN {} ELSE members

\* The servers whose slug used to be `slug` before the separator changed.
FormerOwners(servers, slug) ==
  {s \in servers : Len(s.slug) > 1 /\ <<FormerOf[s.name]>> = slug}
=============================================================================
