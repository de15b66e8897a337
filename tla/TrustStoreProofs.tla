-------------------------- MODULE TrustStoreProofs --------------------------
(***************************************************************************)
(* TLAPS theorems about SlugSpace, TrustStore and ServerPage: slugs are    *)
(* unique for every snapshot and admitted list; admission moves no slug; a *)
(* verdict is shown for the server it screened; an accusation stays; and   *)
(* what is offered, answered and said under a slug is its server's own.    *)
(***************************************************************************)
EXTENDS ServerPage, TLAPS

Bare(s) == s.slug = slugify(s.name)
Hashed(s) == s.slug = withDisambiguator(slugify(s.name), s.name)

\* Every row has its bare slug or the one hashed from it.
Formed(rows) == \A s \in rows : Bare(s) \/ Hashed(s)

\* What disambiguateSlugs makes of a row, and resolveDeprecatedServers.
Rehashed(s) == [s EXCEPT !.slug = withDisambiguator(s.slug, s.name)]

Row == [name: Name, keys: SUBSET Key, at: Nat, source: {"registry", "admitted"},
        status: {"active", "deprecated"}, slug: Seq(Name \cup {BaseOf[n] : n \in Name})]

NamesApart(rows) == \A s, t \in rows : s.name = t.name => s = t

\* The bare slugs and the hashed ones do not meet, and a hashed one tells its name.
LEMMA SlugForms ==
  ASSUME NEW n \in Name, NEW m \in Name
  PROVE  /\ slugify(n) # withDisambiguator(slugify(m), m)
         /\ withDisambiguator(slugify(n), n) = withDisambiguator(slugify(m), m) => n = m
         /\ slugify(n) # withDisambiguator(withDisambiguator(slugify(m), m), m)
BY DEF slugify, withDisambiguator

LEMMA RehashedRow ==
  ASSUME NEW s \in Row
  PROVE  /\ Rehashed(s) \in Row
         /\ Rehashed(s).slug = withDisambiguator(s.slug, s.name)
         /\ Rehashed(s).name = s.name /\ Rehashed(s).at = s.at
         /\ Rehashed(s).source = s.source
<1> DEFINE w == withDisambiguator(s.slug, s.name)
<1>1. w \in Seq(Name \cup {BaseOf[n] : n \in Name})
  BY DEF Row, withDisambiguator
<1> HIDE DEF w
<1>2. Rehashed(s) = [s EXCEPT !.slug = w]
  BY DEF Rehashed, w
<1>3. /\ [s EXCEPT !.slug = w] \in Row /\ [s EXCEPT !.slug = w].slug = w
      /\ [s EXCEPT !.slug = w].name = s.name /\ [s EXCEPT !.slug = w].at = s.at
      /\ [s EXCEPT !.slug = w].source = s.source
  BY <1>1 DEF Row
<1> QED
  BY <1>2, <1>3 DEF w

\* A group that shares a slug shares it bare: with distinct names, a hashed row is alone.
LEMMA GroupsAreBare ==
  ASSUME NEW rows, Formed(rows), NamesApart(rows), \A r \in rows : r \in Row,
         NEW s \in rows, NEW t \in rows, t # s, t.slug = s.slug
  PROVE  Bare(s)
<1>1. s.name # t.name /\ s.name \in Name /\ t.name \in Name
  BY DEF NamesApart, Row
<1>2. (Bare(s) \/ Hashed(s)) /\ (Bare(t) \/ Hashed(t))
  BY DEF Formed
<1> QED
  BY <1>1, <1>2, SlugForms DEF Bare, Hashed

\* disambiguateSlugs leaves every row bare or hashed, and no two on one slug.
LEMMA Disambiguated ==
  ASSUME NEW rows, Formed(rows), NamesApart(rows), \A r \in rows : r \in Row
  PROVE  /\ Formed(disambiguateSlugs(rows))
         /\ \A s \in disambiguateSlugs(rows) : s \in Row
         /\ \A s, t \in disambiguateSlugs(rows) : s.slug = t.slug => s.name = t.name
<1> DEFINE Clash(s) == \E t \in rows : t # s /\ t.slug = s.slug
           Out(s) == IF Clash(s) THEN Rehashed(s) ELSE s
<1>1. disambiguateSlugs(rows) = {Out(s) : s \in rows}
  BY DEF disambiguateSlugs, Rehashed
<1>2. \A s \in rows : Clash(s) => Bare(s)
  BY GroupsAreBare
<1>3. \A s \in rows : Out(s) \in Row /\ Out(s).name = s.name
  BY RehashedRow
<1>4. \A s \in rows : Clash(s) => Hashed(Out(s))
  BY <1>2, RehashedRow DEF Hashed, Bare
<1>5. \A s \in rows : ~Clash(s) => Out(s) = s
  OBVIOUS
<1>6. \A s \in rows : Bare(Out(s)) \/ Hashed(Out(s))
  BY <1>4, <1>5 DEF Formed
<1>7. ASSUME NEW s \in rows, NEW t \in rows, Out(s).slug = Out(t).slug
      PROVE  s.name = t.name
  <2>1. s.name \in Name /\ t.name \in Name
    BY DEF Row
  <2>2. CASE ~Clash(s) /\ ~Clash(t)
    BY <1>5, <1>7, <2>2
  <2>3. CASE Clash(s) /\ Clash(t)
    BY <1>3, <1>4, <1>7, <2>1, <2>3, SlugForms DEF Hashed
  <2>4. CASE Clash(s) /\ ~Clash(t)
    <3>1. Hashed(Out(s)) /\ (Bare(Out(t)) \/ Hashed(Out(t)))
      BY <1>4, <1>6, <2>4
    <3> QED
      BY <1>3, <1>7, <2>1, <3>1, SlugForms DEF Hashed, Bare
  <2>5. CASE ~Clash(s) /\ Clash(t)
    <3>1. Hashed(Out(t)) /\ (Bare(Out(s)) \/ Hashed(Out(s)))
      BY <1>4, <1>6, <2>5
    <3> QED
      BY <1>3, <1>7, <2>1, <3>1, SlugForms DEF Hashed, Bare
  <2> QED
    BY <2>2, <2>3, <2>4, <2>5
<1> HIDE DEF Out
<1> QED
  BY <1>1, <1>3, <1>6, <1>7 DEF Formed
-----------------------------------------------------------------------------
(* The rows of a catalog of TrustStore.                                    *)

RowOf(n, status, at, source) ==
  [name |-> n, keys |-> KeysOf[n], at |-> at, source |-> source, status |-> status,
   slug |-> slugify(n)]

Listing == [Name -> {"absent", "active", "deprecated"}]

Registry(l) == {RowOf(n, "active", 1, "registry") : n \in {m \in Name : l[m] = "active"}}
Retired(l) ==
  {RowOf(n, "deprecated", 1, "registry") : n \in {m \in Name : l[m] = "deprecated"}}
Chosen(a) == {RowOf(n, "active", 2, "admitted") : n \in a}

LEMMA RowOfRow ==
  ASSUME NEW n \in Name, NEW status \in {"active", "deprecated"}, NEW at \in Nat,
         NEW source \in {"registry", "admitted"}
  PROVE  /\ RowOf(n, status, at, source) \in Row
         /\ Bare(RowOf(n, status, at, source))
         /\ RowOf(n, status, at, source).name = n
         /\ RowOf(n, status, at, source).at = at
         /\ RowOf(n, status, at, source).source = source
<1>1. slugify(n) \in Seq(Name \cup {BaseOf[m] : m \in Name})
  BY DEF slugify
<1>2. KeysOf[n] \in SUBSET Key
  BY TrustConstants
<1> QED
  BY <1>1, <1>2 DEF RowOf, Row, Bare

LEMMA RowsOfEntries ==
  ASSUME NEW names \in SUBSET Name, NEW status, NEW at, NEW source
  PROVE  Rows(Entries(names, status, at), status, source) =
           {RowOf(n, status, at, source) : n \in names}
<1> DEFINE E(n) == [name |-> n, status |-> status, keys |-> KeysOf[n], usable |-> TRUE,
                    at |-> at]
<1>1. \A n \in names : /\ E(n).status = status /\ E(n).usable
                       /\ Normalized(E(n), source) = RowOf(n, status, at, source)
  BY DEF Normalized, RowOf
<1>2. Entries(names, status, at) = {E(n) : n \in names}
  BY DEF Entries
<1> HIDE DEF E
<1>3. {e \in Entries(names, status, at) : e.status = status /\ e.usable}
        = {E(n) : n \in names}
  BY <1>1, <1>2
<1>4. Rows(Entries(names, status, at), status, source)
        = {Normalized(e, source) : e \in {E(n) : n \in names}}
  BY <1>3 DEF Rows
<1>5. {Normalized(e, source) : e \in {E(n) : n \in names}}
        = {Normalized(E(n), source) : n \in names}
  OBVIOUS
<1> QED
  BY <1>1, <1>4, <1>5

LEMMA SnapshotRows ==
  ASSUME NEW l \in Listing
  PROVE  /\ Rows(SnapshotOf(l), "active", "registry") = Registry(l)
         /\ Rows(SnapshotOf(l), "deprecated", "registry") = Retired(l)
<1> DEFINE On == {n \in Name : l[n] = "active"}
           Off == {n \in Name : l[n] = "deprecated"}
           E(names, status) == Entries(names, status, 1)
<1>1. SnapshotOf(l) = E(On, "active") \cup E(Off, "deprecated")
  BY DEF SnapshotOf
<1>2. \A e \in E(On, "active") : e.status = "active"
  BY DEF Entries
<1>3. \A e \in E(Off, "deprecated") : e.status = "deprecated"
  BY DEF Entries
<1> HIDE DEF E
<1>4. Rows(SnapshotOf(l), "active", "registry") = Rows(E(On, "active"), "active", "registry")
  BY <1>1, <1>2, <1>3 DEF Rows
<1>5. Rows(SnapshotOf(l), "deprecated", "registry")
        = Rows(E(Off, "deprecated"), "deprecated", "registry")
  BY <1>1, <1>2, <1>3 DEF Rows
<1>6. On \in SUBSET Name /\ Off \in SUBSET Name
  OBVIOUS
<1> HIDE DEF On, Off
<1>7. /\ Rows(E(On, "active"), "active", "registry")
           = {RowOf(n, "active", 1, "registry") : n \in On}
      /\ Rows(E(Off, "deprecated"), "deprecated", "registry")
           = {RowOf(n, "deprecated", 1, "registry") : n \in Off}
  BY <1>6, RowsOfEntries DEF E
<1> QED
  BY <1>4, <1>5, <1>7 DEF Registry, Retired, On, Off

\* What mergeAdmitted makes of the registry and an admitted list.
Merged(l, a) == mergeAdmitted(Registry(l), Chosen(a))

LEMMA MergedRows ==
  ASSUME NEW l \in Listing, NEW a \in SUBSET Name
  PROVE  /\ Registry(l) \subseteq Merged(l, a)
         /\ \A s \in Merged(l, a) : s \in Row
         /\ \A s \in Registry(l) : /\ s.at = 1 /\ Bare(s) /\ s.source = "registry"
                                   /\ l[s.name] = "active"
         /\ \A s \in Merged(l, a) : s.at = 2 => s.source = "admitted"
         /\ \A s \in Merged(l, a) : s.at = 1 => s \in Registry(l)
         /\ \A s \in Merged(l, a) : s.at = 1 \/ s.at = 2
         /\ \A s \in Merged(l, a) : s.at = 2 =>
              \/ Bare(s) /\ \A r \in Registry(l) : r.slug # s.slug
              \/ Hashed(s)
         /\ \A s, t \in Merged(l, a) : s.name = t.name /\ s.at = t.at => s = t
<1> DEFINE R == Registry(l)
           Taken(s) == \E r \in R : r.slug = s.slug
           Put(s) == IF Taken(s) THEN Rehashed(s) ELSE s
           Kept == {s \in Chosen(a) : \A r \in R : r.keys \cap s.keys = {}}
<1>1. Merged(l, a) = R \cup {Put(s) : s \in Kept}
  BY DEF Merged, mergeAdmitted, Rehashed
<1>2. \A s \in R : /\ s \in Row /\ s.at = 1 /\ Bare(s) /\ s.source = "registry"
                   /\ s = RowOf(s.name, "active", 1, "registry")
                   /\ l[s.name] = "active"
  BY RowOfRow DEF Registry
<1>3. \A s \in Kept : /\ s \in Row /\ s.at = 2 /\ Bare(s)
                      /\ s = RowOf(s.name, "active", 2, "admitted")
                      /\ s.source = "admitted"
  BY RowOfRow DEF Chosen
<1>4. \A s \in Kept : /\ Put(s) \in Row /\ Put(s).at = 2 /\ Put(s).name = s.name
                      /\ Put(s).source = "admitted"
  BY <1>3, RehashedRow
<1>5. \A s \in Kept : Taken(s) => Hashed(Put(s))
  BY <1>3, RehashedRow DEF Hashed, Bare
<1>6. \A s \in Kept : ~Taken(s) => Bare(Put(s)) /\ \A r \in R : r.slug # Put(s).slug
  BY <1>3
<1>7. \A s, t \in Kept : s.name = t.name => s = t
  BY <1>3
<1> HIDE DEF R, Put, Taken, Kept
<1>8. \A s, t \in Merged(l, a) : s.name = t.name /\ s.at = t.at => s = t
  BY <1>1, <1>2, <1>4, <1>7
<1>9. R = Registry(l)
  BY DEF R
<1> QED
  BY <1>1, <1>2, <1>4, <1>5, <1>6, <1>8, <1>9
-----------------------------------------------------------------------------
(* Slugs are unique.                                                       *)

First(l, a) == FirstPerName(Merged(l, a))

LEMMA FirstRows ==
  ASSUME NEW l \in Listing, NEW a \in SUBSET Name
  PROVE  /\ First(l, a) \subseteq Merged(l, a)
         /\ \A s \in First(l, a) : s \in Row
         /\ Formed(First(l, a))
         /\ NamesApart(First(l, a))
<1>1. First(l, a) \subseteq Merged(l, a)
  BY DEF First, FirstPerName
<1>2. \A s \in First(l, a) : s \in Row
  BY <1>1, MergedRows
<1>3. Formed(First(l, a))
  BY <1>1, MergedRows DEF Formed
<1>4. ASSUME NEW s \in First(l, a), NEW t \in First(l, a), s.name = t.name
      PROVE  s = t
  <2>1. s.at <= t.at /\ t.at <= s.at
    BY <1>4 DEF First, FirstPerName
  <2>2. s.at \in Nat /\ t.at \in Nat
    BY <1>2 DEF Row
  <2>3. s.at = t.at
    BY <2>1, <2>2
  <2> QED
    BY <1>1, <1>4, <2>3, MergedRows
<1> QED
  BY <1>1, <1>2, <1>3, <1>4 DEF NamesApart

LEMMA ServersFrom ==
  ASSUME NEW l \in Listing, NEW a \in SUBSET Admittable
  PROVE  ServersOf(l, a) = FirstPerSlug(disambiguateSlugs(First(l, a)))
<1>1. a \in SUBSET Name
  BY TrustConstants
<1>2. Rows(Entries(a, "active", 2), "active", "admitted") = Chosen(a)
  BY <1>1, RowsOfEntries DEF Chosen
<1> QED
  BY <1>2, SnapshotRows DEF ServersOf, loadServersFromSnapshot, First, Merged

LEMMA ServersUnique ==
  ASSUME NEW l \in Listing, NEW a \in SUBSET Admittable
  PROVE  /\ Formed(ServersOf(l, a))
         /\ \A s \in ServersOf(l, a) : s \in Row
         /\ \A s, t \in ServersOf(l, a) : s.slug = t.slug => s.name = t.name
<1>1. a \in SUBSET Name
  BY TrustConstants
<1>2. ServersOf(l, a) \subseteq disambiguateSlugs(First(l, a))
  BY ServersFrom DEF FirstPerSlug
<1>3. /\ Formed(disambiguateSlugs(First(l, a)))
      /\ \A s \in disambiguateSlugs(First(l, a)) : s \in Row
      /\ \A s, t \in disambiguateSlugs(First(l, a)) : s.slug = t.slug => s.name = t.name
  BY <1>1, FirstRows, Disambiguated
<1> QED
  BY <1>2, <1>3 DEF Formed

\* A deprecated row is bare only where no active row is.
LEMMA RetiredRows ==
  ASSUME NEW l \in Listing, NEW slugs
  PROVE  LET D == resolveDeprecatedServers(SnapshotOf(l), slugs)
         IN  /\ \A s \in D : s \in Row
             /\ \A s \in D : (Bare(s) /\ s.slug \notin slugs) \/ Hashed(s)
             /\ \A s, t \in D : s.slug = t.slug => s.name = t.name
<1> DEFINE rows == FirstPerName(Retired(l))
           Clash(s) == s.slug \in slugs \/ \E t \in rows : t # s /\ t.slug = s.slug
           Out(s) == IF Clash(s) THEN Rehashed(s) ELSE s
           D == resolveDeprecatedServers(SnapshotOf(l), slugs)
<1>1. D = {Out(s) : s \in rows}
  BY SnapshotRows DEF resolveDeprecatedServers, Rehashed
<1>2. \A s \in rows : s \in Row /\ Bare(s)
  BY RowOfRow DEF FirstPerName, Retired
<1>3. \A s \in rows : Out(s) \in Row /\ Out(s).name = s.name
  BY <1>2, RehashedRow
<1>4. \A s \in rows : Clash(s) => Hashed(Out(s))
  BY <1>2, RehashedRow DEF Hashed, Bare
<1>5. \A s \in rows : ~Clash(s) => Out(s) = s /\ Bare(Out(s)) /\ Out(s).slug \notin slugs
  BY <1>2
<1>6. ASSUME NEW s \in rows, NEW t \in rows, Out(s).slug = Out(t).slug
      PROVE  s.name = t.name
  <2>1. s.name \in Name /\ t.name \in Name
    BY <1>2 DEF Row
  <2>2. CASE ~Clash(s) /\ ~Clash(t)
    BY <1>5, <1>6, <2>2
  <2>3. CASE Clash(s) /\ Clash(t)
    BY <1>3, <1>4, <1>6, <2>1, <2>3, SlugForms DEF Hashed
  <2>4. CASE Clash(s) /\ ~Clash(t)
    <3>1. Hashed(Out(s)) /\ Bare(Out(t))
      BY <1>4, <1>5, <2>4
    <3> QED
      BY <1>3, <1>6, <2>1, <3>1, SlugForms DEF Hashed, Bare
  <2>5. CASE ~Clash(s) /\ Clash(t)
    <3>1. Hashed(Out(t)) /\ Bare(Out(s))
      BY <1>4, <1>5, <2>5
    <3> QED
      BY <1>3, <1>6, <2>1, <3>1, SlugForms DEF Hashed, Bare
  <2> QED
    BY <2>2, <2>3, <2>4, <2>5
<1> HIDE DEF Out, D
<1>7. /\ \A s \in D : s \in Row
      /\ \A s \in D : (Bare(s) /\ s.slug \notin slugs) \/ Hashed(s)
      /\ \A s, t \in D : s.slug = t.slug => s.name = t.name
  BY <1>1, <1>3, <1>4, <1>5, <1>6
<1> QED
  BY <1>7 DEF D

\* For every snapshot and admitted list, a slug addresses one server.
LEMMA UniqueSlugs ==
  ASSUME CatalogOK
  PROVE  OneSubjectPerSlug
<1>1. listed \in Listing /\ admitted \in SUBSET Admittable
  BY DEF CatalogOK, Listing
<1>2. /\ Formed(Servers) /\ \A s \in Servers : s \in Row
      /\ \A s, t \in Servers : s.slug = t.slug => s.name = t.name
  BY <1>1, ServersUnique DEF Servers
<1>3. /\ \A s \in Deprecated : s \in Row
      /\ \A s \in Deprecated : (Bare(s) /\ s.slug \notin Slugs(Servers)) \/ Hashed(s)
      /\ \A s, t \in Deprecated : s.slug = t.slug => s.name = t.name
  BY <1>1, RetiredRows DEF Deprecated
<1>4. ASSUME NEW s \in Servers, NEW t \in Deprecated, s.slug = t.slug
      PROVE  s.name = t.name
  <2>1. s.name \in Name /\ t.name \in Name
    BY <1>2, <1>3 DEF Row
  <2>2. s.slug \in Slugs(Servers)
    BY DEF Slugs
  <2>3. Hashed(t)
    BY <1>3, <1>4, <2>2
  <2>4. Bare(s) \/ Hashed(s)
    BY <1>2 DEF Formed
  <2> QED
    BY <1>4, <2>1, <2>3, <2>4, SlugForms DEF Hashed, Bare
<1> QED
  BY <1>2, <1>3, <1>4 DEF OneSubjectPerSlug

\* For every snapshot and admitted list, the listed servers have the slugs they would
\* have had alone.
LEMMA NobodyMoves ==
  ASSUME CatalogOK
  PROVE  AdmittedMovesNobody
<1>1. listed \in Listing /\ admitted \in SUBSET Admittable /\ {} \in SUBSET Admittable
      /\ admitted \in SUBSET Name /\ {} \in SUBSET Name
  BY TrustConstants DEF CatalogOK, Listing
<1> DEFINE R == Registry(listed)
           M == Merged(listed, admitted)
           F == First(listed, admitted)
           F0 == First(listed, {})
           Clash(rows, s) == \E t \in rows : t # s /\ t.slug = s.slug
           Out(rows, s) == IF Clash(rows, s) THEN Rehashed(s) ELSE s
<1>2. Merged(listed, {}) = R
  BY DEF Merged, mergeAdmitted, Chosen
<1>3. F0 = FirstPerName(R)
  BY <1>2 DEF First
<1>4. \A s \in F0 : s \in R /\ s \in Row /\ s.at = 1 /\ Bare(s)
  BY <1>1, <1>2, <1>3, MergedRows DEF FirstPerName
<1>5. ASSUME NEW s \in F0
      PROVE  s \in F
  <2>1. s \in M
    BY <1>1, <1>4, MergedRows
  <2>2. \A t \in M : t.name = s.name => s.at <= t.at
    BY <1>1, <1>4, MergedRows
  <2> QED
    BY <2>1, <2>2 DEF First, FirstPerName
<1>6. \A t \in F : t.at = 1 => t \in F0
  <2>1. \A t \in F : t \in M /\ \A u \in M : u.name = t.name => t.at <= u.at
    BY DEF First, FirstPerName
  <2> QED
    BY <1>1, <1>3, <2>1, MergedRows DEF FirstPerName
<1>7. ASSUME NEW s \in F0, NEW t \in F, t.slug = s.slug
      PROVE  t \in F0
  <2>1. t \in M /\ t \in Row /\ s \in Row
    BY <1>1, <1>4, FirstRows
  <2>2. t.at # 2
    <3>1. SUFFICES ASSUME t.at = 2 PROVE FALSE
      OBVIOUS
    <3>2. Hashed(t)
      BY <1>1, <1>4, <1>7, <2>1, <3>1, MergedRows
    <3>3. s.name \in Name /\ t.name \in Name
      BY <2>1 DEF Row
    <3>4. s.slug = slugify(s.name)
      BY <1>4 DEF Bare
    <3>5. t.slug = withDisambiguator(slugify(t.name), t.name)
      BY <3>2 DEF Hashed
    <3> QED
      BY <1>7, <3>3, <3>4, <3>5, SlugForms
  <2> QED
    BY <1>1, <1>6, <2>1, <2>2, MergedRows
<1>8. \A s \in F0 : Clash(F, s) <=> Clash(F0, s)
  BY <1>5, <1>7
<1>9. disambiguateSlugs(F) = {Out(F, s) : s \in F}
      /\ disambiguateSlugs(F0) = {Out(F0, s) : s \in F0}
  BY DEF disambiguateSlugs, Rehashed
<1>10. \A s \in F0 : Out(F, s) = Out(F0, s)
  BY <1>8
<1>11. \A s \in F0 : Out(F0, s).at = 1
  BY <1>4, RehashedRow
<1>12. \A s \in disambiguateSlugs(F) : s.at \in {1, 2}
  <2>1. \A s \in F : s \in Row /\ s.at \in {1, 2}
    BY <1>1, FirstRows, MergedRows
  <2>2. \A s \in F : Out(F, s).at \in {1, 2}
    BY <2>1, RehashedRow
  <2> QED
    BY <1>9, <2>2
<1> HIDE DEF Out
<1>13. ASSUME NEW s \in disambiguateSlugs(F0)
       PROVE  s \in disambiguateSlugs(F) /\ s.at = 1
  BY <1>5, <1>9, <1>10, <1>11
<1>14. ASSUME NEW s \in ServersOf(listed, {})
       PROVE  s \in Servers
  <2>1. s \in disambiguateSlugs(F0)
    BY <1>1, ServersFrom DEF FirstPerSlug
  <2>2. \A t \in disambiguateSlugs(F) : s.at <= t.at
    BY <1>12, <1>13, <2>1
  <2> QED
    BY <1>1, <1>13, <2>1, <2>2, ServersFrom DEF FirstPerSlug, Servers
<1> QED
  BY <1>14 DEF AdmittedMovesNobody
-----------------------------------------------------------------------------
(* The inductive invariant.                                                *)

\* A record that says whose it is says so truly; a screen has its text and its window,
\* a preview record has neither and finds nothing.
Truthful(r) ==
  /\ r.server_id \in {NoName, r.by}
  /\ ~r.unscreened => r.content_hash # NoText /\ r.expires_at # NoTime
  /\ r.unscreened => /\ r.content_hash = NoText /\ r.expires_at = NoTime
                     /\ r.status = "ERROR" /\ r.screen = "none" /\ ~r.schema

Owned == \A x \in StoreSlug : store[x] # NoVerdict => Truthful(store[x])

\* A slug the registry lists an active server on is not gone.
NotGone == \A n \in Name : listed[n] = "active" => slugify(n) \notin gone

IInv == TypeOK /\ Owned /\ NotGone

LEMMA InitInv == Init => IInv
<1> SUFFICES ASSUME Init PROVE IInv
  OBVIOUS
<1> USE TrustConstants
<1>1. listed \in [Name -> {"absent", "active", "deprecated"}]
  <2>1. PICK on \in {{}, FirstListed} :
          listed = [n \in Name |-> IF n \in on THEN "active" ELSE "absent"]
    BY DEF Init
  <2> QED
    BY <2>1
<1>2. CatalogOK
  BY <1>1 DEF Init, CatalogOK
<1>3. text \in [Name -> Text] /\ fetched = 0 /\ now = 0 /\ gone = {} /\ 0 \in Times
  BY DEF Init, Times
<1>4. PICK s \in ServersOf(listed, admitted), outcome \in Outcomes :
        store = [x \in StoreSlug |->
                   IF x = s.slug THEN Record(s.name, NoName, text[s.name], outcome, "none")
                                 ELSE NoVerdict]
  BY DEF Init
<1>5. s.name \in Name
  BY <1>2, ServersUnique DEF CatalogOK, Listing, Row
<1> DEFINE r == Record(s.name, NoName, text[s.name], outcome, "none")
<1>6. r \in Verdict /\ Truthful(r)
  <2>1. r \in Verdict /\ r.server_id = NoName /\ ~r.unscreened
        /\ r.content_hash = text[s.name] /\ r.expires_at = now + OwnTtl
    BY <1>3, <1>5 DEF Record, Verdict, Outcome
  <2>2. text[s.name] # NoText /\ now + OwnTtl # NoTime
    BY <1>3, <1>5 DEF NoTime
  <2> QED
    BY <2>1, <2>2 DEF Truthful
<1> HIDE DEF r
<1>7. store = [x \in StoreSlug |-> IF x = s.slug THEN r ELSE NoVerdict]
  BY <1>4 DEF r
<1>8. Owned
  BY <1>6, <1>7 DEF Owned
<1>9. NotGone
  BY <1>3 DEF NotGone
<1> QED
  BY <1>2, <1>3, <1>6, <1>7, <1>8, <1>9 DEF IInv, TypeOK

LEMMA RecordVerdict ==
  ASSUME TypeOK, NEW n \in Name, NEW sid \in {n, NoName}, NEW t \in Text,
         NEW outcome \in Outcomes, NEW adj \in {"none", "confirmed", "cleared"}
  PROVE  Record(n, sid, t, outcome, adj) \in Verdict /\ Truthful(Record(n, sid, t, outcome, adj))
<1> DEFINE r == Record(n, sid, t, outcome, adj)
<1>1. outcome \in Outcome /\ now \in Nat /\ now + OwnTtl \in Nat
  BY TrustConstants DEF TypeOK, Times
<1>2. r \in Verdict /\ r.server_id \in {NoName, r.by} /\ ~r.unscreened
      /\ r.content_hash = t /\ r.expires_at = now + OwnTtl
  BY <1>1 DEF Record, Verdict, Outcome
<1>3. t # NoText /\ now + OwnTtl # NoTime
  BY <1>1, TrustConstants DEF NoTime
<1> QED
  BY <1>2, <1>3 DEF Truthful

LEMMA WriteInv ==
  ASSUME IInv, NEW slug \in StoreSlug, NEW r \in Verdict, Truthful(r), Write(slug, r)
  PROVE  IInv'
<1>1. store' = [store EXCEPT ![slug] = r] /\ UNCHANGED <<catalog, now>>
  BY DEF Write
<1>2. store' \in [StoreSlug -> Verdict \cup {NoVerdict}]
  BY <1>1 DEF IInv, TypeOK
<1>3. Owned'
  <2>1. \A x \in StoreSlug : store'[x] = IF x = slug THEN r ELSE store[x]
    BY <1>1 DEF IInv, TypeOK
  <2>2. \A x \in StoreSlug : store'[x] # NoVerdict => Truthful(store'[x])
    BY <2>1 DEF IInv, Owned
  <2> QED
    BY <2>2 DEF Owned, Truthful
<1> QED
  BY <1>1, <1>2, <1>3 DEF IInv, TypeOK, CatalogOK, catalog, NotGone

LEMMA StepInv == IInv /\ [Next]_vars => IInv'
<1> SUFFICES ASSUME IInv, [Next]_vars PROVE IInv'
  OBVIOUS
<1> USE TrustConstants
<1>1. ASSUME NEW n \in Name, NEW st \in {"absent", "active", "deprecated"},
             NEW t \in Text, Sync(n, st, t)
      PROVE  IInv'
  <2>1. /\ listed' = [listed EXCEPT ![n] = st] /\ text' = [text EXCEPT ![n] = t]
        /\ fetched' = now /\ gone' = GoneAfter(listed')
        /\ UNCHANGED <<admitted, store, now>>
    BY <1>1 DEF Sync
  <2>2. listed' \in [Name -> {"absent", "active", "deprecated"}]
    BY <2>1 DEF IInv, TypeOK, CatalogOK
  <2>3. text' \in [Name -> Text]
    BY <2>1 DEF IInv, TypeOK
  <2>4. gone' \subseteq {slugify(m) : m \in Name}
    BY <2>1 DEF IInv, TypeOK, GoneAfter
  <2>5. CatalogOK'
    BY <2>1, <2>2 DEF IInv, TypeOK, CatalogOK
  <2>6. Owned' /\ store' \in [StoreSlug -> Verdict \cup {NoVerdict}]
        /\ fetched' \in Times /\ now' \in Times
    BY <2>1 DEF IInv, TypeOK, Owned, Truthful
  <2>7. NotGone'
    BY <2>1 DEF GoneAfter, NotGone
  <2> QED
    BY <2>3, <2>4, <2>5, <2>6, <2>7 DEF IInv, TypeOK
<1>2. ASSUME NEW n \in Admittable, Admit(n)
      PROVE  IInv'
  BY <1>2 DEF IInv, TypeOK, CatalogOK, Owned, Truthful, NotGone, Admit
<1>3. ASSUME NEW n \in Name, NEW slug \in StoreSlug, NEW t \in Text,
             NEW o \in Outcomes, Screen(n, slug, t, o)
      PROVE  IInv'
  <2> DEFINE old == store[slug]
             adj == IF o.screen # "FAIL" \/ old = NoVerdict THEN "none"
                    ELSE IF old.content_hash = t /\ verdictBindsSubject(old, n)
                         THEN old.adjudication ELSE "none"
  <2>1. Write(slug, Record(n, n, t, o, adj))
    BY <1>3 DEF Screen
  <2>2. adj \in {"none", "confirmed", "cleared"}
    <3>1. old \in Verdict \cup {NoVerdict}
      BY DEF IInv, TypeOK
    <3> QED
      BY <3>1 DEF Verdict
  <2> HIDE DEF adj
  <2>3. Record(n, n, t, o, adj) \in Verdict /\ Truthful(Record(n, n, t, o, adj))
    BY <2>2, RecordVerdict DEF IInv
  <2> QED
    BY <2>1, <2>3, WriteInv
<1>4. ASSUME NEW slug \in StoreSlug, NEW d \in {"confirmed", "cleared"},
             Adjudicate(slug, d)
      PROVE  IInv'
  <2> DEFINE r == [store[slug] EXCEPT !.adjudication = d]
  <2>1. Write(slug, r) /\ store[slug] # NoVerdict
    BY <1>4 DEF Adjudicate
  <2>2. store[slug] \in Verdict
    BY <2>1 DEF IInv, TypeOK
  <2>3. /\ r \in Verdict
        /\ r.server_id = store[slug].server_id /\ r.by = store[slug].by
        /\ r.unscreened = store[slug].unscreened /\ r.status = store[slug].status
        /\ r.content_hash = store[slug].content_hash
        /\ r.expires_at = store[slug].expires_at
        /\ r.screen = store[slug].screen /\ r.schema = store[slug].schema
    BY <2>2 DEF Verdict
  <2> HIDE DEF r
  <2>4. Truthful(store[slug])
    BY <2>1 DEF IInv, Owned
  <2>5. Truthful(r)
    BY <2>3, <2>4 DEF Truthful
  <2> QED
    BY <2>1, <2>3, <2>5, WriteInv
<1>5. ASSUME NEW s \in Servers, MintPreview(s)
      PROVE  IInv'
  <2>1. s.name \in Name /\ s.slug \in StoreSlug
    <3>1. listed \in Listing /\ admitted \in SUBSET Admittable
      BY DEF IInv, TypeOK, CatalogOK, Listing
    <3>2. s \in Row /\ (Bare(s) \/ Hashed(s))
      BY <3>1, ServersUnique DEF Servers, Formed
    <3> QED
      BY <3>2 DEF Row, Bare, Hashed, StoreSlug
  <2>2. Preview(s.name) \in Verdict /\ Truthful(Preview(s.name))
    BY <2>1 DEF Preview, Verdict, NoTime, Truthful
  <2>3. Write(s.slug, Preview(s.name))
    BY <1>5 DEF MintPreview
  <2> QED
    BY <2>1, <2>2, <2>3, WriteInv
<1>6. ASSUME Tick
      PROVE  IInv'
  BY <1>6 DEF IInv, TypeOK, CatalogOK, Owned, Truthful, NotGone, Tick, catalog, Times
<1>7. ASSUME UNCHANGED vars
      PROVE  IInv'
  BY <1>7 DEF IInv, TypeOK, CatalogOK, Owned, Truthful, NotGone, vars, catalog
<1> QED
  BY <1>1, <1>2, <1>3, <1>4, <1>5, <1>6, <1>7 DEF Next

LEMMA Invariance == Spec => []IInv
<1>1. Init => IInv
  BY InitInv
<1>2. IInv /\ [Next]_vars => IInv'
  BY StepInv
<1> QED
  BY <1>1, <1>2, PTL DEF Spec

\* The store holds verdicts, times stay in range, only admittable names are admitted.
THEOREM TypeCorrect == Spec => []TypeOK
<1>1. IInv => TypeOK
  BY DEF IInv
<1> QED
  BY <1>1, Invariance, PTL

\* No two servers share a slug, whatever the registry lists and whoever is admitted.
THEOREM SlugsAreUnique == Spec => []OneSubjectPerSlug
<1>1. IInv => OneSubjectPerSlug
  BY UniqueSlugs DEF IInv, TypeOK
<1> QED
  BY <1>1, Invariance, PTL

\* An editor who admits a server never moves the page of a listed one.
THEOREM AdmissionMovesNoSlug == Spec => []AdmittedMovesNobody
<1>1. IInv => AdmittedMovesNobody
  BY NobodyMoves DEF IInv, TypeOK
<1> QED
  BY <1>1, Invariance, PTL
-----------------------------------------------------------------------------
(* What a read makes of a stored record.                                   *)

\* What no overlay touches.
Same(v, w) ==
  /\ v.by = w.by /\ v.server_id = w.server_id /\ v.content_hash = w.content_hash
  /\ v.evaluated_at = w.evaluated_at /\ v.screen = w.screen /\ v.schema = w.schema
  /\ v.adjudication = w.adjudication /\ v.unscreened = w.unscreened

LEMMA ConfirmKeeps ==
  ASSUME NEW v \in Verdict, NEW description \in Text, NEW anchor \in Int
  PROVE  LET w == applyConfirmationOverlay(v, description, anchor)
         IN  /\ w \in Verdict /\ Same(w, v) /\ w.status = v.status
             /\ \/ w = v
                \/ /\ w.expires_at = anchor + ConfirmTtl
                   /\ anchor # NoTime /\ v.content_hash = description
<1> DEFINE w == applyConfirmationOverlay(v, description, anchor)
           e == anchor + ConfirmTtl
           ls == v.limits \cup {"freshness_confirmed"}
           u == [v EXCEPT !.expires_at = e, !.limits = ls]
<1>1. e \in Int /\ ls \in SUBSET {"freshness_confirmed", "expired_verdict", "content_drift"}
  BY TrustConstants DEF Verdict
<1>2. \/ w = v
      \/ w = u /\ anchor # NoTime /\ v.content_hash = description
  BY DEF applyConfirmationOverlay
<1> HIDE DEF w, e, ls
<1>3. u \in Verdict /\ Same(u, v) /\ u.status = v.status /\ u.expires_at = e
  BY <1>1 DEF Verdict, Same
<1>4. Same(v, v)
  BY DEF Same
<1> QED
  BY <1>2, <1>3, <1>4 DEF w, e

LEMMA DemotedKeeps ==
  ASSUME NEW v \in Verdict, NEW limit \in {"expired_verdict", "content_drift"}
  PROVE  LET w == Demoted(v, limit)
         IN  /\ w \in Verdict /\ Same(w, v) /\ w.expires_at = v.expires_at
             /\ limit \in w.limits
             /\ w.status = IF hasFailAxis(v) THEN v.status ELSE "STALE"
<1> DEFINE st == IF hasFailAxis(v) THEN v.status ELSE "STALE"
           ls == v.limits \cup {limit}
           u == [v EXCEPT !.limits = ls, !.status = st]
<1>1. /\ st \in {"EVALUATED", "PARTIAL", "STALE", "ERROR"} /\ limit \in ls
      /\ ls \in SUBSET {"freshness_confirmed", "expired_verdict", "content_drift"}
  BY DEF Verdict
<1>2. Demoted(v, limit) = u
  BY DEF Demoted
<1> HIDE DEF st, ls
<1>3. /\ u \in Verdict /\ Same(u, v) /\ u.status = st /\ u.expires_at = v.expires_at
      /\ u.limits = ls
  BY <1>1 DEF Verdict, Same
<1> QED
  BY <1>1, <1>2, <1>3 DEF st

\* The verdict a server is entitled to is its stored record, with the same finding.
LEMMA Selected ==
  ASSUME TypeOK, NEW s, s.slug \in StoreSlug, s.name \in Name, NEW anchor \in Int,
         NEW r, r = store[s.slug], NEW v, v = selectVerdictForSubject(s, anchor)
  PROVE  /\ v # NoVerdict <=> (r # NoVerdict /\ verdictBindsSubject(r, s.name))
         /\ v # NoVerdict =>
              /\ r \in Verdict /\ v \in Verdict /\ Same(v, r)
              /\ \/ v.expires_at = r.expires_at
                 \/ /\ v.expires_at = anchor + ConfirmTtl /\ anchor # NoTime
                    /\ r.content_hash = text[s.name]
              /\ v.status # r.status => v.status = "STALE" /\ ~hasFailAxis(r)
              /\ r.content_hash # NoText /\ r.content_hash # text[s.name] =>
                   /\ "content_drift" \in v.limits
                   /\ ~hasFailAxis(r) => v.status = "STALE"
<1>1. CASE r = NoVerdict \/ ~verdictBindsSubject(r, s.name)
  BY <1>1 DEF selectVerdictForSubject
<1>2. CASE r # NoVerdict /\ verdictBindsSubject(r, s.name)
  <2> DEFINE d == text[s.name]
             w1 == applyConfirmationOverlay(r, d, anchor)
             w2 == applyExpiryOverlay(w1)
             w3 == applyContentDriftOverlay(w2, d)
  <2>1. r \in Verdict /\ d \in Text
    BY <1>2 DEF TypeOK
  <2>2. v = w3
    BY <1>2 DEF selectVerdictForSubject
  <2>3. /\ w1 \in Verdict /\ Same(w1, r) /\ w1.status = r.status
        /\ \/ w1.expires_at = r.expires_at
           \/ w1.expires_at = anchor + ConfirmTtl /\ anchor # NoTime /\ r.content_hash = d
    BY <2>1, ConfirmKeeps
  <2> HIDE DEF w1
  <2>4. /\ w2 \in Verdict /\ Same(w2, w1) /\ w2.expires_at = w1.expires_at
        /\ w2.status # w1.status => w2.status = "STALE" /\ ~hasFailAxis(w1)
    <3>1. w2 = w1 \/ w2 = Demoted(w1, "expired_verdict")
      BY DEF applyExpiryOverlay
    <3>2. Same(w1, w1)
      BY DEF Same
    <3> QED
      BY <2>3, <3>1, <3>2, DemotedKeeps
  <2> HIDE DEF w2
  <2>5. /\ w3 \in Verdict /\ Same(w3, w2) /\ w3.expires_at = w2.expires_at
        /\ w3.status # w2.status => w3.status = "STALE" /\ ~hasFailAxis(w2)
        /\ w2.content_hash # NoText /\ w2.content_hash # d =>
             "content_drift" \in w3.limits /\ (~hasFailAxis(w2) => w3.status = "STALE")
    <3>1. w3 = IF w2.content_hash = NoText \/ w2.content_hash = d THEN w2
               ELSE Demoted(w2, "content_drift")
      BY DEF applyContentDriftOverlay
    <3>2. Same(w2, w2)
      BY DEF Same
    <3> QED
      BY <2>4, <3>1, <3>2, DemotedKeeps
  <2> HIDE DEF w3
  <2>6. Same(w3, r) /\ w2.content_hash = r.content_hash
        /\ (hasFailAxis(w1) <=> hasFailAxis(r)) /\ (hasFailAxis(w2) <=> hasFailAxis(r))
    BY <2>3, <2>4, <2>5 DEF Same, hasFailAxis
  <2>7. w3 # NoVerdict
    BY <2>5, TrustConstants
  <2>8. w3.status # r.status => w3.status = "STALE" /\ ~hasFailAxis(r)
    BY <2>3, <2>4, <2>5, <2>6
  <2> QED
    BY <1>2, <2>1, <2>2, <2>3, <2>4, <2>5, <2>6, <2>7, <2>8
<1> QED
  BY <1>1, <1>2

\* What a listed server gives the lemma above.
LEMMA Listed ==
  ASSUME TypeOK, NEW s \in Servers
  PROVE  s \in Row /\ s.name \in Name /\ s.slug \in StoreSlug /\ (Bare(s) \/ Hashed(s))
<1>1. listed \in Listing /\ admitted \in SUBSET Admittable
  BY DEF TypeOK, CatalogOK, Listing
<1>2. s \in Row /\ (Bare(s) \/ Hashed(s))
  BY <1>1, ServersUnique DEF Servers, Formed
<1> QED
  BY <1>2 DEF Row, Bare, Hashed, StoreSlug

LEMMA AnchorsAreTimes == TypeOK => \A a \in Anchors : a \in Int
BY DEF TypeOK, Anchors, Times, NoTime
-----------------------------------------------------------------------------
(* Whose verdict is shown.                                                 *)

LEMMA RightSubjectHolds == IInv => RightSubject
<1> SUFFICES ASSUME IInv, NEW id \in Ids, NEW anchor \in Anchors,
                    NEW v \in VerdictsFor(id, anchor), v.server_id # NoName
             PROVE  IF id \in Name THEN v.by = id
                    ELSE IF id \in Slugs(Servers)
                         THEN \E s \in Servers : s.slug = id /\ s.name = v.by
                    ELSE <<FormerOf[v.by]>> = id
  BY DEF RightSubject
<1>1. TypeOK /\ anchor \in Int /\ OneSubjectPerSlug
  BY AnchorsAreTimes, UniqueSlugs DEF IInv, TypeOK
<1>2. PICK s \in Servers : /\ s.slug \in resolveVerdictSlugIn(id, Servers)
                           /\ v = selectVerdictForSubject(s, anchor) /\ v # NoVerdict
  BY DEF VerdictsFor
<1>3. s.name \in Name /\ s.slug \in StoreSlug
  BY <1>1, Listed
<1>4. v.by = s.name
  <2> DEFINE r == store[s.slug]
  <2>1. /\ r # NoVerdict /\ verdictBindsSubject(r, s.name)
        /\ v.server_id = r.server_id /\ v.by = r.by
    BY <1>1, <1>2, <1>3, Selected DEF Same
  <2>2. r.server_id \in {NoName, r.by}
    BY <1>3, <2>1 DEF IInv, Owned, Truthful
  <2> QED
    BY <2>1, <2>2 DEF verdictBindsSubject
<1>5. \A t \in Servers : t.slug = s.slug => t.name = s.name
  BY <1>1, <1>2 DEF OneSubjectPerSlug
<1>6. \A t \in Servers : t.name \in Name /\ t.slug \in StoreSlug
  BY <1>1, Listed
<1>7. CASE id \in Slugs(Servers)
  <2>1. s.slug = id
    BY <1>2, <1>7 DEF resolveVerdictSlugIn
  <2>2. id \notin Name
    BY <1>3, <2>1, NamesAreNoSlugs
  <2> QED
    BY <1>2, <1>4, <1>7, <2>1, <2>2
<1>8. CASE id \notin Slugs(Servers) /\ \E t \in Servers : t.name = id
  <2>1. s.slug \in Slugs({t \in Servers : t.name = id})
    BY <1>2, <1>8 DEF resolveVerdictSlugIn
  <2>2. s.name = id
    BY <1>5, <2>1 DEF Slugs
  <2> QED
    BY <1>3, <1>4, <2>2
<1>9. CASE id \notin Slugs(Servers) /\ ~\E t \in Servers : t.name = id
  <2>1. s.slug \in Slugs(FormerOwners(Servers, id))
    <3>1. {t \in Servers : t.name = id} = {}
      BY <1>9
    <3> QED
      BY <1>2, <1>9, <3>1 DEF resolveVerdictSlugIn
  <2>2. PICK t \in Servers : t.slug = s.slug /\ <<FormerOf[t.name]>> = id
    BY <2>1 DEF FormerOwners, Slugs
  <2>3. t.name = s.name
    BY <1>5, <2>2
  <2>4. id \notin Name
    BY <1>3, <2>2, <2>3, NamesAreNoSlugs DEF FormerSlug
  <2> QED
    BY <1>4, <1>9, <2>2, <2>3, <2>4
<1> QED
  BY <1>7, <1>8, <1>9

\* A verdict answered under an id is a screen of the server the id names, for every
\* history of listings, screens and rulings.
THEOREM VerdictsAreTheSubjects == Spec => []RightSubject
BY RightSubjectHolds, Invariance, PTL
-----------------------------------------------------------------------------
(* What the badge says, and for how long.                                  *)

\* The badge of a verdict, read off its record.
LEMMA Flagged ==
  ASSUME NEW v
  PROVE  computeBadgeState(v) = "flagged" <=>
           v # NoVerdict /\ v.screen = "FAIL" /\ v.adjudication = "confirmed"
BY DEF computeBadgeState

LEMMA CleanBadge ==
  ASSUME NEW v, computeBadgeState(v) = "screened"
  PROVE  /\ v # NoVerdict /\ v.status # "STALE" /\ ~isVerdictExpired(v)
         /\ ~v.schema
         /\ v.screen = "PASS" \/ (v.screen = "FAIL" /\ v.adjudication # "none"
                                /\ v.adjudication # "confirmed")
BY DEF computeBadgeState

\* A server is flagged when its record is its own, a flag, and confirmed.
FlagOn(s) ==
  /\ store[s.slug] # NoVerdict /\ verdictBindsSubject(store[s.slug], s.name)
  /\ store[s.slug].screen = "FAIL" /\ store[s.slug].adjudication = "confirmed"

FlagsAreOn ==
  /\ \A s \in Servers, anchor \in Anchors : Badge(s, anchor) = "flagged" <=> FlagOn(s)
  /\ OneSubjectPerSlug

LEMMA FlagsRead == IInv => FlagsAreOn
<1> SUFFICES ASSUME IInv PROVE FlagsAreOn
  OBVIOUS
<1>1. ASSUME NEW s \in Servers, NEW anchor \in Anchors
      PROVE  Badge(s, anchor) = "flagged" <=> FlagOn(s)
  <2> DEFINE r == store[s.slug]
             v == selectVerdictForSubject(s, anchor)
  <2>1. TypeOK /\ anchor \in Int /\ s.name \in Name /\ s.slug \in StoreSlug
    BY AnchorsAreTimes, Listed DEF IInv
  <2>2. /\ v # NoVerdict <=> (r # NoVerdict /\ verdictBindsSubject(r, s.name))
        /\ v # NoVerdict => Same(v, r)
    BY <2>1, Selected
  <2> QED
    BY <2>2, Flagged DEF Badge, FlagOn, Same
<1> QED
  BY <1>1, UniqueSlugs DEF FlagsAreOn, IInv, TypeOK

LEMMA FlagsReadNext == IInv' => FlagsAreOn'
BY FlagsRead, PTL

LEMMA AccusationStep ==
  ASSUME IInv, [Next]_vars,
         NEW s \in Servers, NEW anchor \in Anchors, Badge(s, anchor) = "flagged",
         NEW u \in Servers', u.slug = s.slug, u.name = s.name,
         store'[s.slug] = store[s.slug],
         NEW t \in Servers', t.slug = s.slug, NEW a \in Anchors'
  PROVE  Badge(t, a)' = "flagged"
<1>1. FlagsAreOn /\ FlagsAreOn'
  BY FlagsRead, FlagsReadNext, StepInv
<1>2. FlagOn(s)
  BY <1>1 DEF FlagsAreOn
<1>3. t.name = s.name
  BY <1>1 DEF FlagsAreOn, OneSubjectPerSlug
<1>4. FlagOn(t)'
  BY <1>2, <1>3 DEF FlagOn, verdictBindsSubject
<1> QED
  BY <1>1, <1>4 DEF FlagsAreOn

\* A confirmed flag outlives its window, every sync, another description and a pipeline
\* that stopped: it goes when its record is replaced, or the server's slug moves.
THEOREM AccusationsStay == Spec => AccusationStays
<1>1. IInv /\ [Next]_vars =>
        [\A s \in Servers, anchor \in Anchors :
           (/\ Badge(s, anchor) = "flagged"
            /\ \E t \in Servers' : t.slug = s.slug /\ t.name = s.name
            /\ store'[s.slug] = store[s.slug])
           => \A t \in Servers' : t.slug = s.slug =>
                \A a \in Anchors' : Badge(t, a)' = "flagged"]_vars
  BY AccusationStep
<1> QED
  BY <1>1, Invariance, PTL DEF Spec, AccusationStays

\* No badge stays clean when the syncs stop: past its own window and the last
\* snapshot's it is stale.
THEOREM CleanNeedsSyncs == Spec => []NothingFreshWithoutSync
<1>1. IInv => NothingFreshWithoutSync
  <2> SUFFICES ASSUME IInv, NEW s \in Servers, NEW anchor \in Anchors,
                      Badge(s, anchor) = "screened"
               PROVE  now < store[s.slug].expires_at \/ now < fetched + ConfirmTtl
    BY DEF NothingFreshWithoutSync
  <2> DEFINE r == store[s.slug]
             v == selectVerdictForSubject(s, anchor)
  <2>1. TypeOK /\ anchor \in Int /\ s.name \in Name /\ s.slug \in StoreSlug
    BY AnchorsAreTimes, Listed DEF IInv
  <2>2. v # NoVerdict /\ ~isVerdictExpired(v) /\ (v.screen = "PASS" \/ v.screen = "FAIL")
    BY CleanBadge DEF Badge
  <2>3. /\ r \in Verdict /\ v \in Verdict /\ r # NoVerdict /\ v.screen = r.screen
        /\ \/ v.expires_at = r.expires_at
           \/ v.expires_at = anchor + ConfirmTtl /\ anchor # NoTime
    BY <2>1, <2>2, Selected DEF Same
  <2>4. r.expires_at # NoTime
    BY <2>1, <2>2, <2>3 DEF IInv, Owned, Truthful
  <2>5. r.expires_at \in Int /\ now \in Int /\ fetched \in Nat /\ ConfirmTtl \in Nat
    BY <2>1, <2>3, TrustConstants DEF Verdict, TypeOK, Times
  <2>6. CASE v.expires_at = r.expires_at
    BY <2>2, <2>4, <2>5, <2>6 DEF isVerdictExpired
  <2>7. CASE v.expires_at = anchor + ConfirmTtl /\ anchor # NoTime
    <3>1. anchor = fetched
      BY <2>7 DEF Anchors
    <3> QED
      BY <2>2, <2>5, <2>7, <3>1 DEF isVerdictExpired, NoTime
  <2> QED
    BY <2>3, <2>6, <2>7
<1> QED
  BY <1>1, Invariance, PTL

\* A clean badge is about the text now published, unless a human cleared the record.
THEOREM CleanIsCurrent == Spec => []ScreenedIsCurrent
<1>1. IInv => ScreenedIsCurrent
  <2> SUFFICES ASSUME IInv, NEW s \in Servers, NEW anchor \in Anchors,
                      NEW v, v = selectVerdictForSubject(s, anchor),
                      v # NoVerdict, ~v.unscreened, v.content_hash # text[s.name]
               PROVE  /\ "content_drift" \in v.limits
                      /\ Badge(s, anchor) = "screened" => v.adjudication = "cleared"
    BY DEF ScreenedIsCurrent
  <2> DEFINE r == store[s.slug]
  <2>1. TypeOK /\ anchor \in Int /\ s.name \in Name /\ s.slug \in StoreSlug
    BY AnchorsAreTimes, Listed DEF IInv
  <2>2. /\ r \in Verdict /\ v \in Verdict /\ r # NoVerdict /\ Same(v, r)
        /\ r.content_hash # NoText /\ r.content_hash # text[s.name] =>
             /\ "content_drift" \in v.limits
             /\ ~hasFailAxis(r) => v.status = "STALE"
    BY <2>1, Selected
  <2>3. r.content_hash # NoText
    BY <2>1, <2>2 DEF IInv, Owned, Truthful, Same
  <2>4. "content_drift" \in v.limits /\ (~hasFailAxis(v) => v.status = "STALE")
    BY <2>2, <2>3 DEF Same, hasFailAxis
  <2>5. ASSUME Badge(s, anchor) = "screened" PROVE v.adjudication = "cleared"
    <3>1. /\ v.status # "STALE" /\ ~v.schema
          /\ v.screen = "PASS" \/ (v.screen = "FAIL" /\ v.adjudication # "none"
                                 /\ v.adjudication # "confirmed")
      BY <2>5, CleanBadge DEF Badge
    <3>2. v.screen = "FAIL"
      BY <2>4, <3>1 DEF hasFailAxis
    <3> QED
      BY <2>2, <3>1, <3>2 DEF Verdict
  <2> QED
    BY <2>4, <2>5
<1> QED
  BY <1>1, Invariance, PTL

\* A record screened under the current policy stays fresh while its text stands and the
\* syncs run, however old the screen.
THEOREM ConfirmationHolds == Spec => []ConfirmedStaysFresh
<1>1. IInv => ConfirmedStaysFresh
  <2> SUFFICES ASSUME IInv, NEW s \in Servers,
                      NEW v, v = selectVerdictForSubject(s, fetched),
                      v # NoVerdict, v.evaluated_at >= PolicyEpoch,
                      v.content_hash = text[s.name],
                      now < fetched + ConfirmTtl, store[s.slug].status # "STALE"
               PROVE  computeBadgeState(v) # "stale"
    BY DEF ConfirmedStaysFresh, Badge
  <2> DEFINE r == store[s.slug]
             d == text[s.name]
             w == applyConfirmationOverlay(r, d, fetched)
  <2>1. TypeOK /\ fetched \in Int /\ fetched # NoTime /\ s.name \in Name /\ s.slug \in StoreSlug
    BY Listed DEF IInv, TypeOK, Times, NoTime
  <2>2. r \in Verdict /\ r # NoVerdict /\ verdictBindsSubject(r, s.name) /\ Same(v, r)
    BY <2>1, Selected
  <2>3. r.content_hash = d /\ r.evaluated_at >= PolicyEpoch /\ d \in Text
    BY <2>1, <2>2 DEF Same, TypeOK
  <2>4. /\ w \in Verdict /\ Same(w, r) /\ w.status = r.status
        /\ w = r \/ w.expires_at = fetched + ConfirmTtl
    BY <2>1, <2>2, <2>3, ConfirmKeeps
  <2>5. ~isVerdictExpired(w)
    <3>1. CASE w.expires_at = fetched + ConfirmTtl
      BY <2>1, <3>1, TrustConstants DEF isVerdictExpired, TypeOK, Times
    <3>2. CASE w = r /\ w.expires_at # fetched + ConfirmTtl
      <4> DEFINE e == fetched + ConfirmTtl
                 u == [r EXCEPT !.expires_at = e, !.limits = @ \cup {"freshness_confirmed"}]
      <4>1. u.expires_at = e
        BY <2>2 DEF Verdict
      <4>2. ~(r.expires_at = NoTime \/ r.expires_at < e)
        <5>1. SUFFICES ASSUME r.expires_at = NoTime \/ r.expires_at < e PROVE FALSE
          OBVIOUS
        <5>2. w = u
          BY <2>1, <2>3, <5>1 DEF applyConfirmationOverlay
        <5> QED
          BY <3>2, <4>1, <5>2
      <4>3. r.expires_at \in Int /\ e \in Int /\ now \in Int
        BY <2>1, <2>2, TrustConstants DEF Verdict, TypeOK, Times
      <4> QED
        BY <3>2, <4>2, <4>3 DEF isVerdictExpired
    <3> QED
      BY <2>4, <3>1, <3>2
  <2>6. v = w
    <3>1. applyExpiryOverlay(w) = w
      BY <2>5 DEF applyExpiryOverlay
    <3>2. applyContentDriftOverlay(w, d) = w
      BY <2>3, <2>4 DEF applyContentDriftOverlay, Same
    <3> QED
      BY <2>2, <3>1, <3>2 DEF selectVerdictForSubject
  <2> HIDE DEF w
  <2>7. v.status # "STALE" /\ ~isVerdictExpired(v)
    BY <2>4, <2>5, <2>6
  <2> QED
    BY <2>7 DEF computeBadgeState
<1> QED
  BY <1>1, Invariance, PTL

\* The leaderboard, the trust API and the badge never disagree on a server.
THEOREM SurfacesDoAgree == Spec => []SurfacesAgree
<1>1. IInv => SurfacesAgree
  <2> SUFFICES ASSUME IInv, NEW anchor \in Anchors, NEW s \in Servers
               PROVE  /\ {r.verdict : r \in {x \in selectScreened(anchor) : x.slug = s.slug}}
                           = TrustFor(s.slug, anchor)
                      /\ Badge(s, anchor) # "not-screened" => TrustFor(s.slug, anchor) # {}
    BY DEF SurfacesAgree
  <2> DEFINE V(x) == selectVerdictForSubject(x, anchor)
             Shown(x) == [slug |-> x.slug, verdict |-> V(x)]
             Has(x) == /\ store[x.slug] # NoVerdict /\ ~store[x.slug].unscreened
                       /\ verdictBindsSubject(store[x.slug], x.name)
             On == {x \in Servers : Has(x)}
  <2>1. TypeOK /\ anchor \in Int
    BY AnchorsAreTimes DEF IInv
  <2>2. \A x \in Servers : x.slug \in StoreSlug /\ x.name \in Name
    BY <2>1, Listed
  <2>3. \A x \in Servers : Has(x) <=> (V(x) # NoVerdict /\ ~V(x).unscreened)
    BY <2>1, <2>2, Selected DEF Same
  <2>4. resolveVerdictSlugIn(s.slug, Servers) = {s.slug}
    BY DEF resolveVerdictSlugIn, Slugs
  <2>5. VerdictsFor(s.slug, anchor)
          = {V(x) : x \in {y \in Servers : y.slug \in {s.slug}}} \ {NoVerdict}
    BY <2>4 DEF VerdictsFor
  <2>6. selectScreened(anchor) = {Shown(x) : x \in On}
    BY DEF selectScreened
  <2>7. \A x \in On : Shown(x).slug = x.slug /\ Shown(x).verdict = V(x)
    OBVIOUS
  <2> HIDE DEF V, Shown, Has
  <2>8. {r.verdict : r \in {x \in selectScreened(anchor) : x.slug = s.slug}}
          = {V(x) : x \in {y \in On : y.slug = s.slug}}
    BY <2>6, <2>7
  <2>9. TrustFor(s.slug, anchor) = {V(x) : x \in {y \in On : y.slug = s.slug}}
    BY <2>3, <2>5 DEF TrustFor
  <2>10. ASSUME Badge(s, anchor) # "not-screened"
         PROVE  s \in On
    <3>1. V(s) # NoVerdict /\ (V(s).screen = "FAIL" \/ V(s).schema \/ V(s).status # "ERROR")
      BY <2>10 DEF Badge, computeBadgeState, V
    <3>2. SUFFICES ASSUME V(s).unscreened PROVE FALSE
      BY <2>3, <3>1
    <3> DEFINE r == store[s.slug]
    <3>3. r \in Verdict /\ r # NoVerdict /\ Same(V(s), r) /\ verdictBindsSubject(r, s.name)
      BY <2>1, <2>2, <3>1, Selected DEF V
    <3>4. /\ r.content_hash = NoText /\ r.expires_at = NoTime /\ r.status = "ERROR"
          /\ r.screen = "none" /\ ~r.schema
      BY <2>2, <3>2, <3>3 DEF IInv, Owned, Truthful, Same
    <3>5. text[s.name] # NoText
      BY <2>1, <2>2, TrustConstants DEF TypeOK
    <3>6. applyConfirmationOverlay(r, text[s.name], anchor) = r
      BY <3>4, <3>5 DEF applyConfirmationOverlay
    <3>7. applyExpiryOverlay(r) = r /\ applyContentDriftOverlay(r, text[s.name]) = r
      BY <3>4 DEF applyExpiryOverlay, isVerdictExpired, applyContentDriftOverlay
    <3>8. V(s) = r
      BY <3>3, <3>6, <3>7 DEF V, selectVerdictForSubject
    <3> QED
      BY <3>1, <3>4, <3>8
  <2> QED
    BY <2>8, <2>9, <2>10
<1> QED
  BY <1>1, Invariance, PTL

LEMMA RegistryServersAreActive ==
  ASSUME TypeOK, NEW s \in Servers, s.source # "admitted"
  PROVE  s.name \in Name /\ listed[s.name] = "active"
<1>1. listed \in Listing /\ admitted \in SUBSET Admittable /\ admitted \in SUBSET Name
  BY TrustConstants DEF TypeOK, CatalogOK, Listing
<1> DEFINE F == First(listed, admitted)
           Clash(t) == \E u \in F : u # t /\ u.slug = t.slug
           Out(t) == IF Clash(t) THEN Rehashed(t) ELSE t
<1>2. Servers \subseteq {Out(t) : t \in F}
  BY <1>1, ServersFrom DEF Servers, FirstPerSlug, disambiguateSlugs, Rehashed
<1>3. \A t \in F : t \in Row /\ t \in Merged(listed, admitted)
  BY <1>1, FirstRows
<1>4. \A t \in F : Out(t).name = t.name /\ Out(t).source = t.source
  BY <1>3, RehashedRow
<1> HIDE DEF Out
<1>5. PICK t \in F : s = Out(t)
  BY <1>2
<1>6. t.source # "admitted" /\ t \in Merged(listed, admitted) /\ s.name = t.name
  BY <1>3, <1>4, <1>5
<1>7. t.at = 1
  BY <1>1, <1>6, MergedRows
<1> QED
  BY <1>1, <1>3, <1>6, <1>7, MergedRows DEF Row

\* Whoever asks for the page of a listed server gets that server's.
THEOREM PagesAreServed == Spec => []OwnPageServed
<1>1. IInv => OwnPageServed
  <2> SUFFICES ASSUME IInv, NEW s \in Servers, ~(s.source = "admitted" /\ s.slug \in gone)
               PROVE  Page(s.slug) = {s.name}
    BY DEF OwnPageServed
  <2>1. TypeOK /\ OneSubjectPerSlug
    BY UniqueSlugs DEF IInv, TypeOK
  <2>2. s.name \in Name /\ (Bare(s) \/ Hashed(s))
    BY <2>1, Listed
  <2>3. s.slug \notin gone
    <3>1. SUFFICES ASSUME s.slug \in gone, s.source # "admitted" PROVE FALSE
      OBVIOUS
    <3>2. PICK n \in Name : s.slug = slugify(n)
      BY <2>1, <3>1 DEF TypeOK
    <3>3. Bare(s)
      BY <2>2, <3>2, SlugForms DEF Hashed
    <3>4. listed[s.name] = "active"
      BY <2>1, <3>1, RegistryServersAreActive
    <3> QED
      BY <2>2, <3>1, <3>3, <3>4 DEF IInv, NotGone, Bare
  <2> DEFINE here == {t \in Servers \cup Deprecated : t.slug = s.slug}
  <2>4. s \in here /\ \A t \in here : t.name = s.name
    BY <2>1 DEF OneSubjectPerSlug
  <2>5. here # {} /\ {t.name : t \in here} = {s.name}
    BY <2>4
  <2> QED
    BY <2>3, <2>5 DEF Page
<1> QED
  BY <1>1, Invariance, PTL

\* For any names, slugs and verdicts: every slug is one server's, in every catalog that
\* listings and admissions can make.
THEOREM SlugsAlwaysHold == Spec => []SlugsHold
BY SlugsAreUnique, AdmissionMovesNoSlug, PTL DEF SlugsHold

\* For any catalog and any windows, a slug is one server's and leads to its page.
THEOREM AddressesAlwaysHold == Spec => []AddressesHold
BY SlugsAlwaysHold, PagesAreServed, PTL DEF AddressesHold

\* For any windows and any number of syncs, screens and rulings: clean means fresh and
\* about the published text, and what is confirmed does not go stale.
THEOREM FreshnessHolds == Spec => []Freshness
BY CleanNeedsSyncs, CleanIsCurrent, ConfirmationHolds, PTL DEF Freshness
-----------------------------------------------------------------------------
(* The pages: ServerPage.                                                  *)

\* A listed server is active and a retired one is not.
LEMMA ServersAreActive ==
  ASSUME TypeOK
  PROVE  \A s \in Servers : s.status = "active"
<1>1. listed \in Listing /\ admitted \in SUBSET Admittable /\ admitted \in SUBSET Name
  BY TrustConstants DEF TypeOK, CatalogOK, Listing
<1> DEFINE R == Registry(listed)
           M == Merged(listed, admitted)
           F == First(listed, admitted)
           Kept == {s \in Chosen(admitted) : \A r \in R : r.keys \cap s.keys = {}}
           Put(s) == IF \E r \in R : r.slug = s.slug THEN Rehashed(s) ELSE s
           Out(s) == IF \E u \in F : u # s /\ u.slug = s.slug THEN Rehashed(s) ELSE s
<1>2. \A s \in Row : Rehashed(s).status = s.status
  BY DEF Rehashed, Row
<1>3. \A s \in R \cup Chosen(admitted) : s \in Row /\ s.status = "active"
  <2>1. ASSUME NEW n \in Name, NEW at \in {1, 2}, NEW source \in {"registry", "admitted"}
        PROVE  /\ RowOf(n, "active", at, source) \in Row
               /\ RowOf(n, "active", at, source).status = "active"
    <3>1. RowOf(n, "active", at, source) \in Row
      BY RowOfRow
    <3> QED
      BY <3>1 DEF RowOf
  <2> QED
    BY <1>1, <2>1 DEF Registry, Chosen
<1>4. M = R \cup {Put(s) : s \in Kept}
  BY DEF Merged, mergeAdmitted, Rehashed
<1>5. \A s \in M : s.status = "active"
  BY <1>2, <1>3, <1>4
<1>6. \A s \in F : s \in Row /\ s.status = "active"
  BY <1>1, <1>5, FirstRows
<1>7. Servers \subseteq {Out(s) : s \in F}
  BY <1>1, ServersFrom DEF Servers, FirstPerSlug, disambiguateSlugs, Rehashed
<1>8. \A s \in F : Out(s).status = "active"
  BY <1>2, <1>6
<1> QED
  BY <1>7, <1>8

LEMMA RetiredAreDeprecated ==
  ASSUME TypeOK
  PROVE  \A s \in Deprecated : s.status = "deprecated"
<1>1. listed \in Listing
  BY DEF TypeOK, CatalogOK, Listing
<1> DEFINE rows == FirstPerName(Retired(listed))
           Out(s) == IF s.slug \in Slugs(Servers) \/ \E t \in rows : t # s /\ t.slug = s.slug
                     THEN Rehashed(s) ELSE s
<1>2. Deprecated = {Out(s) : s \in rows}
  BY <1>1, SnapshotRows DEF Deprecated, resolveDeprecatedServers, Rehashed
<1>3. \A s \in rows : s \in Row /\ s.status = "deprecated"
  <2>1. \A n \in Name : /\ RowOf(n, "deprecated", 1, "registry") \in Row
                         /\ RowOf(n, "deprecated", 1, "registry").status = "deprecated"
    BY RowOfRow DEF RowOf
  <2> QED
    BY <2>1 DEF FirstPerName, Retired
<1>4. \A s \in Row : Rehashed(s).status = s.status
  BY DEF Rehashed, Row
<1>5. \A s \in rows : Out(s).status = "deprecated"
  BY <1>3, <1>4
<1> QED
  BY <1>2, <1>5

\* Only an admitted server can have a slug that is gone.
LEMMA GoneIsAdmitted ==
  ASSUME IInv, NEW s \in Servers, s.slug \in gone
  PROVE  s.source = "admitted"
<1>1. SUFFICES ASSUME s.source # "admitted" PROVE FALSE
  OBVIOUS
<1>2. s.name \in Name /\ (Bare(s) \/ Hashed(s)) /\ TypeOK
  BY Listed DEF IInv
<1>3. PICK n \in Name : s.slug = slugify(n)
  BY DEF IInv, TypeOK
<1>4. Bare(s)
  BY <1>2, <1>3, SlugForms DEF Hashed
<1>5. listed[s.name] = "active"
  BY <1>1, <1>2, RegistryServersAreActive
<1> QED
  BY <1>2, <1>4, <1>5 DEF IInv, NotGone, Bare

\* Whom the page's index finds under a slug: all of one name, and a listed server before
\* a retired one.
LEMMA FoundUnder ==
  ASSUME IInv, NEW slug
  PROVE  LET here == getServer(slug, Servers, Deprecated)
             all == {s \in Servers \cup Deprecated : s.slug = slug}
         IN  /\ here \subseteq all /\ (here = {} <=> all = {})
             /\ \A s, t \in all : s.name = t.name
             /\ \A s \in Servers : s.slug = slug => s \in here
             /\ \A s \in here : s.status # "deprecated" => s \in Servers
<1>1. OneSubjectPerSlug /\ TypeOK
  BY UniqueSlugs DEF IInv, TypeOK
<1>2. \A s \in Deprecated : s.status = "deprecated"
  BY <1>1, RetiredAreDeprecated
<1> DEFINE here == getServer(slug, Servers, Deprecated)
           all == {s \in Servers \cup Deprecated : s.slug = slug}
           active == {s \in Servers : s.slug = slug}
<1>3. here = IF active # {} THEN active ELSE {s \in Deprecated : s.slug = slug}
  BY DEF getServer
<1>4. here \subseteq all /\ (here = {} <=> all = {})
  BY <1>3
<1>5. \A s, t \in all : s.name = t.name
  BY <1>1 DEF OneSubjectPerSlug
<1>6. \A s \in Servers : s.slug = slug => s \in here
  BY <1>3
<1>7. \A s \in here : s.status # "deprecated" => s \in Servers
  BY <1>2, <1>3
<1> QED
  BY <1>4, <1>5, <1>6, <1>7

\* The page of a listed server is its own.
LEMMA PageOfServer ==
  ASSUME IInv, NEW s \in Servers, s.slug \notin gone, s.slug \notin DOMAIN Seeded
  PROVE  Answer(s.slug, Servers, Deprecated) = [kind |-> "page", of |-> {s.name}]
<1> DEFINE here == getServer(s.slug, Servers, Deprecated)
<1>1. s \in here /\ \A t \in here : t.name = s.name
  BY FoundUnder
<1> HIDE DEF here
<1>2. here # {} /\ {t.name : t \in here} = {s.name}
  BY <1>1
<1> QED
  BY <1>2 DEF Answer, ServerPage, here

LEMMA OffersAreServed == IInv => OfferedPagesAreServed(Servers, Deprecated)
<1> SUFFICES ASSUME IInv, NEW s \in Servers, NEW doc \in Doc,
                    s.slug \in sitemap(Servers, doc) \cup DriftObserved(Servers, doc)
             PROVE  /\ \/ Answer(s.slug, Servers, Deprecated)
                            = [kind |-> "page", of |-> {s.name}]
                       \/ s.slug \in DOMAIN Seeded
                       \/ s.source = "admitted" /\ s.slug \in gone
                    /\ \A own \in {doc, NoDoc} :
                         robots(getServer(s.slug, Servers, Deprecated), own) = "index"
  BY DEF OfferedPagesAreServed
<1> DEFINE here == getServer(s.slug, Servers, Deprecated)
<1>1. \/ Answer(s.slug, Servers, Deprecated) = [kind |-> "page", of |-> {s.name}]
      \/ s.slug \in DOMAIN Seeded
      \/ s.source = "admitted" /\ s.slug \in gone
  BY PageOfServer, GoneIsAdmitted
<1>2. s \in here /\ s.status = "active" /\ OneSubjectPerSlug
  BY FoundUnder, ServersAreActive, UniqueSlugs DEF IInv, TypeOK
<1>3. indexable(doc, s.name)
  <2>1. PICK x \in Servers : x.slug = s.slug /\ indexable(doc, x.name)
    BY DEF sitemap, DriftObserved
  <2> QED
    BY <1>2, <2>1 DEF OneSubjectPerSlug
<1>4. indexable(NoDoc, s.name)
  BY DEF indexable
<1> HIDE DEF here
<1>5. \A own \in {doc, NoDoc} : robots(here, own) = "index"
  BY <1>2, <1>3, <1>4 DEF robots
<1> QED
  BY <1>1, <1>5 DEF here

LEMMA IndexedAreOffered == IInv => OnlyOfferedAreIndexed(Servers, Deprecated)
<1> SUFFICES ASSUME IInv, NEW slug \in PageSlugs, NEW doc \in Docs,
                    robots(getServer(slug, Servers, Deprecated), doc) = "index"
             PROVE  slug \in sitemap(Servers, doc) \cap DriftObserved(Servers, doc)
  BY DEF OnlyOfferedAreIndexed
<1> DEFINE here == getServer(slug, Servers, Deprecated)
<1>1. /\ \A s \in here : s.status # "deprecated" => s \in Servers
      /\ \A s \in here : s.slug = slug
  BY FoundUnder
<1>2. \E s \in here : s.status # "deprecated" /\ indexable(doc, s.name)
  BY DEF robots
<1> QED
  BY <1>1, <1>2 DEF sitemap, DriftObserved

\* A redirect of the page leads to slugs that listed servers have.
LEMMA RedirectsAreLive ==
  ASSUME NEW slug
  PROVE  resolveServerRedirect(slug, Servers) \subseteq Slugs(Servers)
BY DEF resolveServerRedirect, Slugs, FormerOwners, StrippedMcp, PrefixRename

LEMMA NobodyAstray == IInv => NobodyIsSentAstray(Servers, Deprecated)
<1> SUFFICES ASSUME IInv, NEW slug \in PageSlugs
             PROVE  LET answer == Answer(slug, Servers, Deprecated)
                        here == {s \in Servers \cup Deprecated : s.slug = slug}
                    IN  /\ getCollidingBase(Servers, slug) # {} =>
                             \/ answer.kind \in {"gone", "seeded"}
                             \/ answer.kind = "choose" /\ here = {}
                             \/ answer.kind = "page" /\ \E s \in here : answer.of = {s.name}
                        /\ answer.kind = "choose" => answer.of \subseteq Slugs(Servers)
                        /\ answer.kind = "moved" => \A dest \in answer.of :
                             /\ dest \in Slugs(Servers)
                             /\ \/ dest \in gone \cup DOMAIN Seeded
                                \/ Answer(dest, Servers, Deprecated).kind = "page"
  BY DEF NobodyIsSentAstray
<1> DEFINE answer == Answer(slug, Servers, Deprecated)
           all == {s \in Servers \cup Deprecated : s.slug = slug}
           here == getServer(slug, Servers, Deprecated)
           colliding == getCollidingBase(Servers, slug)
           dest == resolveServerRedirect(slug, Servers)
<1>1. /\ here \subseteq all /\ (here = {} <=> all = {})
      /\ \A s, t \in all : s.name = t.name
  BY FoundUnder
<1>2. CASE slug \in DOMAIN Seeded
  <2>1. answer.kind = "seeded"
    BY <1>2 DEF Answer
  <2> QED
    BY <2>1
<1>3. CASE slug \notin DOMAIN Seeded /\ slug \in gone
  <2>1. answer.kind = "gone"
    BY <1>3 DEF Answer
  <2> QED
    BY <2>1
<1>4. CASE slug \notin DOMAIN Seeded /\ slug \notin gone /\ here # {}
  <2>1. answer = [kind |-> "page", of |-> {s.name : s \in here}]
    BY <1>4 DEF Answer, ServerPage
  <2>2. PICK s \in here : TRUE
    BY <1>4
  <2>3. {t.name : t \in here} = {s.name} /\ s \in all
    BY <1>1, <2>2
  <2> HIDE DEF here
  <2>4. answer.kind = "page" /\ answer.of = {s.name}
    BY <2>1, <2>3
  <2> QED
    BY <2>3, <2>4
<1>5. CASE slug \notin DOMAIN Seeded /\ slug \notin gone /\ here = {} /\ colliding # {}
  <2>1. answer = [kind |-> "choose", of |-> Slugs(colliding)]
    BY <1>5 DEF Answer, ServerPage
  <2>2. colliding \subseteq Servers
    BY DEF getCollidingBase
  <2>3. Slugs(colliding) \subseteq Slugs(Servers)
    BY <2>2 DEF Slugs
  <2>4. all = {}
    BY <1>1, <1>5
  <2> HIDE DEF colliding, here
  <2> QED
    BY <2>1, <2>3, <2>4
<1>6. CASE slug \notin DOMAIN Seeded /\ slug \notin gone /\ here = {} /\ colliding = {}
  <2>1. answer = IF dest # {} THEN [kind |-> "moved", of |-> dest]
                 ELSE [kind |-> "notFound", of |-> {}]
    BY <1>6 DEF Answer, ServerPage
  <2>2. ASSUME NEW d \in dest
        PROVE  /\ d \in Slugs(Servers)
               /\ \/ d \in gone \cup DOMAIN Seeded
                  \/ Answer(d, Servers, Deprecated).kind = "page"
    <3>1. PICK s \in Servers : s.slug = d
      BY RedirectsAreLive DEF Slugs
    <3>2. d \in Slugs(Servers)
      BY <3>1 DEF Slugs
    <3>3. \/ d \in gone \cup DOMAIN Seeded
          \/ Answer(d, Servers, Deprecated) = [kind |-> "page", of |-> {s.name}]
      BY <3>1, PageOfServer
    <3> QED
      BY <3>2, <3>3
  <2> HIDE DEF dest
  <2>3. answer.kind # "choose" /\ (answer.kind = "moved" => answer.of = dest)
    BY <2>1
  <2> QED
    BY <1>6, <2>2, <2>3
<1> QED
  BY <1>2, <1>3, <1>4, <1>5, <1>6
-----------------------------------------------------------------------------
(* What the page says of the screen.                                       *)

\* Only a flagged screen has been ruled on.
Ruled == \A x \in StoreSlug : store[x] # NoVerdict /\ store[x].adjudication # "none" =>
                               store[x].screen = "FAIL"

LEMMA WriteRuled ==
  ASSUME TypeOK, Ruled, NEW slug \in StoreSlug, NEW r, Write(slug, r),
         r.adjudication # "none" => r.screen = "FAIL"
  PROVE  Ruled'
<1>1. store' = [store EXCEPT ![slug] = r]
  BY DEF Write
<1>2. \A x \in StoreSlug : store'[x] = IF x = slug THEN r ELSE store[x]
  BY <1>1 DEF TypeOK
<1>3. \A x \in StoreSlug : store'[x] # NoVerdict /\ store'[x].adjudication # "none" =>
                            store'[x].screen = "FAIL"
  BY <1>2 DEF Ruled
<1> QED
  BY <1>3 DEF Ruled

LEMMA RuledAlways == Spec => []Ruled
<1>1. Init => Ruled
  <2> SUFFICES ASSUME Init PROVE Ruled
    OBVIOUS
  <2>1. PICK s \in ServersOf(listed, admitted), outcome \in Outcomes :
          store = [x \in StoreSlug |->
                     IF x = s.slug THEN Record(s.name, NoName, text[s.name], outcome, "none")
                                   ELSE NoVerdict]
    BY DEF Init
  <2> DEFINE r == Record(s.name, NoName, text[s.name], outcome, "none")
  <2>2. r.adjudication = "none"
    BY DEF Record
  <2> HIDE DEF r
  <2>3. \A x \in StoreSlug : store[x] = IF x = s.slug THEN r ELSE NoVerdict
    BY <2>1 DEF r
  <2> QED
    BY <2>2, <2>3 DEF Ruled
<1>2. IInv /\ Ruled /\ [Next]_vars => Ruled'
  <2> SUFFICES ASSUME IInv, Ruled, [Next]_vars PROVE Ruled'
    OBVIOUS
  <2>1. ASSUME NEW n \in Name, NEW slug \in StoreSlug, NEW t \in Text,
               NEW o \in Outcomes, Screen(n, slug, t, o)
        PROVE  Ruled'
    <3> DEFINE old == store[slug]
               adj == IF o.screen # "FAIL" \/ old = NoVerdict THEN "none"
                      ELSE IF old.content_hash = t /\ verdictBindsSubject(old, n)
                           THEN old.adjudication ELSE "none"
    <3>1. Write(slug, Record(n, n, t, o, adj))
      BY <2>1 DEF Screen
    <3>2. adj # "none" => o.screen = "FAIL"
      OBVIOUS
    <3> HIDE DEF adj
    <3>3. /\ Record(n, n, t, o, adj).adjudication = adj
          /\ Record(n, n, t, o, adj).screen = o.screen
      BY DEF Record
    <3> QED
      BY <3>1, <3>2, <3>3, WriteRuled DEF IInv
  <2>2. ASSUME NEW slug \in StoreSlug, NEW d \in {"confirmed", "cleared"},
               Adjudicate(slug, d)
        PROVE  Ruled'
    <3>1. /\ Write(slug, [store[slug] EXCEPT !.adjudication = d])
          /\ store[slug] # NoVerdict /\ store[slug].screen = "FAIL"
      BY <2>2 DEF Adjudicate
    <3>2. store[slug] \in Verdict
      BY <3>1 DEF IInv, TypeOK
    <3>3. [store[slug] EXCEPT !.adjudication = d].screen = "FAIL"
      BY <3>1, <3>2 DEF Verdict
    <3> QED
      BY <3>1, <3>3, WriteRuled DEF IInv
  <2>3. ASSUME NEW s \in Servers, MintPreview(s)
        PROVE  Ruled'
    <3>1. Write(s.slug, Preview(s.name)) /\ Preview(s.name).adjudication = "none"
      BY <2>3 DEF MintPreview, Preview
    <3>2. s.slug \in StoreSlug
      BY Listed DEF IInv
    <3> QED
      BY <3>1, <3>2, WriteRuled DEF IInv
  <2>4. CASE UNCHANGED store
    BY <2>4 DEF Ruled
  <2>5. ASSUME NEW n \in Name, NEW st \in {"absent", "active", "deprecated"},
               NEW t \in Text, Sync(n, st, t)
        PROVE  UNCHANGED store
    BY <2>5 DEF Sync
  <2>6. ASSUME NEW n \in Admittable, Admit(n)
        PROVE  UNCHANGED store
    BY <2>6 DEF Admit
  <2>7. Tick \/ UNCHANGED vars => UNCHANGED store
    BY DEF Tick, vars
  <2> QED
    BY <2>1, <2>2, <2>3, <2>4, <2>5, <2>6, <2>7 DEF Next
<1> QED
  BY <1>1, <1>2, Invariance, PTL DEF Spec

\* A preview record is read as it is stored.
LEMMA PreviewsRead ==
  ASSUME IInv, NEW s \in Servers, NEW anchor \in Anchors,
         NEW v, v = selectVerdictForSubject(s, anchor), v # NoVerdict, v.unscreened
  PROVE  v.status = "ERROR" /\ v.screen = "none" /\ ~v.schema
<1> DEFINE r == store[s.slug]
<1>1. TypeOK /\ anchor \in Int /\ s.name \in Name /\ s.slug \in StoreSlug
  BY AnchorsAreTimes, Listed DEF IInv
<1>2. r \in Verdict /\ r # NoVerdict /\ Same(v, r) /\ verdictBindsSubject(r, s.name)
  BY <1>1, Selected
<1>3. /\ r.content_hash = NoText /\ r.expires_at = NoTime /\ r.status = "ERROR"
      /\ r.screen = "none" /\ ~r.schema
  BY <1>1, <1>2 DEF IInv, Owned, Truthful, Same
<1>4. text[s.name] # NoText
  BY <1>1, TrustConstants DEF TypeOK
<1>5. applyConfirmationOverlay(r, text[s.name], anchor) = r
  BY <1>3, <1>4 DEF applyConfirmationOverlay
<1>6. applyExpiryOverlay(r) = r /\ applyContentDriftOverlay(r, text[s.name]) = r
  BY <1>3 DEF applyExpiryOverlay, isVerdictExpired, applyContentDriftOverlay
<1>7. v = r
  BY <1>2, <1>5, <1>6 DEF selectVerdictForSubject
<1> QED
  BY <1>3, <1>7

\* The panel of a record and its badge, read off its finding.
LEMMA PanelOf ==
  ASSUME NEW v, v \in Verdict, v # NoVerdict, ~v.unscreened,
         v.adjudication # "none" => v.screen = "FAIL"
  PROVE  LET panel == TrustVerdictPanel({v})
             badge == computeBadgeState(v)
         IN  /\ badge = "flagged" <=> "confirmed" \in panel
             /\ panel \cap {"held", "schema held"} # {} => badge \in {"review", "flagged"}
             /\ "not yet screened" \notin panel
             /\ v.schema => "schema held" \in panel
             /\ badge = "flagged" /\ "content_drift" \in v.limits => "text replaced" \in panel
<1> DEFINE said == IF hasFailAxis(v) /\ "content_drift" \in v.limits
                   THEN {"text replaced"} ELSE {}
           panel == TrustVerdictPanel({v})
           badge == computeBadgeState(v)
<1>1. panel = Notices(v) \cup said
  <2>1. (CHOOSE x \in {v} : TRUE) = v
    OBVIOUS
  <2> QED
    BY <2>1 DEF TrustVerdictPanel
<1>2. v.adjudication \in {"none", "confirmed", "cleared"} /\ v.schema \in BOOLEAN
  BY DEF Verdict
<1>3. badge = "flagged" <=> v.screen = "FAIL" /\ v.adjudication = "confirmed"
  BY Flagged
<1>4. /\ "confirmed" \in panel <=> v.adjudication = "confirmed"
      /\ "held" \in panel <=> v.adjudication = "none" /\ v.screen = "FAIL"
      /\ "schema held" \in panel <=> v.schema
      /\ "not yet screened" \notin panel
  BY <1>1, <1>2 DEF Notices
<1>5. v.schema \/ (v.adjudication = "none" /\ v.screen = "FAIL")
        => badge \in {"review", "flagged"}
  BY <1>2 DEF computeBadgeState
<1>6. badge = "flagged" /\ "content_drift" \in v.limits => "text replaced" \in panel
  BY <1>1, <1>3 DEF hasFailAxis
<1> HIDE DEF panel, badge
<1>7. panel \cap {"held", "schema held"} # {} => badge \in {"review", "flagged"}
  BY <1>4, <1>5
<1> QED
  BY <1>3, <1>4, <1>6, <1>7 DEF panel, badge

LEMMA PanelsMatch == IInv /\ Ruled => PanelMatchesBadge(Servers)
<1> SUFFICES ASSUME IInv, Ruled, NEW s \in Servers, NEW anchor \in Anchors,
                    NEW v, v = selectVerdictForSubject(s, anchor),
                    NEW panel, panel = TrustVerdictPanel(loadVerdictForServer(s, anchor)),
                    NEW badge, badge = Badge(s, anchor)
             PROVE  /\ badge = "flagged" <=> "confirmed" \in panel
                    /\ panel \cap {"held", "schema held"} # {} => badge \in {"review", "flagged"}
                    /\ "not yet screened" \in panel => badge = "not-screened"
                    /\ (v # NoVerdict /\ v.schema) => "schema held" \in panel
                    /\ (badge = "flagged" /\ v.content_hash # text[s.name])
                         => "text replaced" \in panel
  BY DEF PanelMatchesBadge
<1> DEFINE r == store[s.slug]
<1>1. TypeOK /\ anchor \in Int /\ s.name \in Name /\ s.slug \in StoreSlug
  BY AnchorsAreTimes, Listed DEF IInv
<1>2. badge = computeBadgeState(v)
  BY DEF Badge
<1>3. CASE v = NoVerdict \/ v.unscreened
  <2>1. panel = {"not yet screened"}
    BY <1>3 DEF TrustVerdictPanel, loadVerdictForServer
  <2>2. badge = "not-screened" /\ (v # NoVerdict => ~v.schema)
    <3>1. CASE v = NoVerdict
      BY <1>2, <3>1 DEF computeBadgeState
    <3>2. CASE v # NoVerdict /\ v.unscreened
      <4>1. v.status = "ERROR" /\ v.screen = "none" /\ ~v.schema
        BY <3>2, PreviewsRead
      <4> QED
        BY <1>2, <4>1 DEF computeBadgeState
    <3> QED
      BY <1>3, <3>1, <3>2
  <2> QED
    BY <2>1, <2>2
<1>4. CASE v # NoVerdict /\ ~v.unscreened
  <2>1. /\ r \in Verdict /\ v \in Verdict /\ r # NoVerdict /\ Same(v, r)
        /\ r.content_hash # NoText /\ r.content_hash # text[s.name] =>
             "content_drift" \in v.limits
    BY <1>1, <1>4, Selected
  <2>2. r.content_hash # NoText /\ v.content_hash = r.content_hash
    BY <1>1, <1>4, <2>1 DEF IInv, Owned, Truthful, Same
  <2>3. v.adjudication # "none" => v.screen = "FAIL"
    BY <1>1, <2>1 DEF Ruled, Same
  <2>4. panel = TrustVerdictPanel({v})
    BY <1>4 DEF loadVerdictForServer
  <2> QED
    BY <1>2, <1>4, <2>1, <2>2, <2>3, <2>4, PanelOf
<1> QED
  BY <1>3, <1>4

\* For any names, slugs, artifacts and redirects, and every history of listings, screens
\* and rulings: an offered page is its server's own and asks to be indexed, nothing else
\* asks to be, nobody is redirected to one of several servers, and the page says what the
\* badge says.
THEOREM PagesAlwaysHold == Spec => []PagesHold
<1>1. IInv /\ Ruled => PagesHold
  BY OffersAreServed, IndexedAreOffered, NobodyAstray, PanelsMatch DEF PagesHold
<1> QED
  BY <1>1, Invariance, RuledAlways, PTL
=============================================================================
