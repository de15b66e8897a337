---------------------------- MODULE RegistryProofs ----------------------------
(***************************************************************************)
(* Theorems about what becomes of the registry on the site: RegistrySync   *)
(* for any number of slugs, windows, commits and attempts; LedgerGuard for *)
(* any lines, pull requests and pushes; DriftReads, with RegistryLoad      *)
(* below it, for any number of requests, servers and runs of the drain,    *)
(* and any ages; RegistryFeed for any names, pages and deployments; and    *)
(* LedgerSlice for any tools, publisher-wide changes and hours.            *)
(***************************************************************************)
EXTENDS RegistrySync, LedgerGuard, DriftReads, RegistryFeed, LedgerSlice, TLAPS,
        FiniteSetTheorems, WellFoundedInduction

(***************************************************************************)
(* The inductive invariant is about the four trees there are at a time:    *)
(* main, what the window checked out (`from`), what its commit stands on   *)
(* (`base`) and that commit (`tree`).                                      *)
(*   Good       each of them is one the site can be served from;           *)
(*   Since      what others do to main in a window: the snapshot and what  *)
(*              is derived from it stay, the rest only grows;              *)
(*   SyncInv    the run's commit has its own snapshot and derived files,   *)
(*              and beside them what others wrote, but for the files of    *)
(*              which it takes its own side;                               *)
(*   ShipInv    the stamp is all that ship-pending changes.                *)
(***************************************************************************)
Formed(tree, w, o) ==
  /\ tree = [f \in Files |-> tree[f]]
  /\ tree["snapshot"] \in [at : 0..w, listed : [Slug -> Status]]
  /\ tree["slugmap"] \in [at : 0..w, adm : 0..o]
  /\ tree["index"] \in [at : 0..w, adm : 0..o]
  /\ tree["removals"] \in [redirects : SUBSET Slug, gone : SUBSET Slug]
  /\ tree["firstSeen"] \in SUBSET Slug
  /\ tree["indexable"] \in 0..w /\ tree["stamp"] \in 0..w
  /\ tree["era"] \in 0..(MaxWindows + o)
  /\ tree["admitted"] \in 0..o /\ tree["data"] \in 0..o

\* What the site can be served from, `alone` if admitted.json may have been pushed alone.
Good(tree, alone) ==
  /\ tree["slugmap"] = tree["index"] /\ tree["index"].at = tree["snapshot"].at
  /\ alone \/ Bound(tree)
  /\ Active(tree) \cap tree["removals"].gone = {}
  /\ tree["firstSeen"] \subseteq
       Listed(tree) \cup tree["removals"].gone \cup tree["removals"].redirects

Fine(tree, w, o, alone) == Formed(tree, w, o) /\ Good(tree, alone)

Since(old, new) ==
  /\ new["snapshot"] = old["snapshot"] /\ new["firstSeen"] = old["firstSeen"]
  /\ new["indexable"] = old["indexable"] /\ new["stamp"] = old["stamp"]
  /\ new["removals"].gone = old["removals"].gone
  /\ old["removals"].redirects \subseteq new["removals"].redirects

\* The commit of the sync job of window w, by file.
Synced(from, base, tree, w) ==
  /\ tree["snapshot"].at = w /\ tree["stamp"] = base["stamp"]
  /\ tree["slugmap"] = [at |-> w, adm |-> from["admitted"]]
  /\ tree["removals"].redirects \subseteq base["removals"].redirects
  /\ tree["era"] = base["era"] \/ base["era"] = from["era"]
  /\ \/ base["removals"].redirects \subseteq tree["removals"].redirects
     \/ tree["removals"].gone # from["removals"].gone

OnlyStamped(base, tree) == \A f \in Files \ {"stamp"} : tree[f] = base[f]

Types ==
  /\ main = [files |-> main.files, length |-> main.length, skips |-> main.skips]
  /\ main.length \in Nat /\ main.skips \in BOOLEAN
  /\ run = [job |-> run.job, step |-> run.step, from |-> run.from, base |-> run.base,
            onto |-> run.onto, tree |-> run.tree, try |-> run.try, lost |-> run.lost]
  /\ run.job \in {"none", "sync", "ship"}
  /\ run.step \in {"checkout", "push", "rejected", "green", "red"}
  /\ run.onto \in 0..main.length
  /\ run.try \in 1..SyncTries \/ run.try \in 1..ShipTries
  /\ run.lost \in {"no", "window", "binding", "conflict", "tries"}
  /\ window \in 0..MaxWindows /\ others \in 0..MaxOthers
  /\ shipped \in 0..others /\ bare \in BOOLEAN

Trees ==
  /\ Fine(main.files, window, others, bare) /\ Fine(run.from, window, others, bare)
  /\ Fine(run.base, window, others, bare) /\ Fine(run.tree, window, others, bare)

Working == run.step \in {"push", "rejected"}
Syncing == run.job = "sync" /\ run.step \in {"checkout", "push", "rejected"}

CloneInv ==
  Working \/ Syncing =>
    /\ Since(run.base, main.files)
    /\ main.length = run.onto => main.files = run.base
    /\ run.tree["admitted"] = run.base["admitted"] /\ run.tree["data"] = run.base["data"]
    /\ run.from["data"] <= run.base["data"]
    /\ run.from["admitted"] <= run.base["admitted"]

SyncInv ==
  Syncing =>
    /\ Since(run.from, main.files) /\ main.files["snapshot"].at < window
    /\ run.lost = "no"
    /\ run.step = "checkout" => run.tree = run.from /\ run.base = run.from
    /\ run.step # "checkout" => Synced(run.from, run.base, run.tree, window)

ShipInv ==
  /\ run.job = "ship" /\ Working => OnlyStamped(run.base, run.tree)
  /\ run.step \in {"green", "red"} \/ run.job \in {"sync", "ship"}

ShippedInv ==
  /\ shipped <= main.files["data"]
  /\ main.skips \/ shipped = main.files["data"]
  /\ run.from["data"] <= main.files["data"]
  /\ run.from["admitted"] <= main.files["admitted"]

SyncIInv == Types /\ Trees /\ CloneInv /\ SyncInv /\ ShipInv /\ ShippedInv /\ WindowShips
-----------------------------------------------------------------------------
(* Trees.                                                                  *)

LEMMA FormedGrows ==
  ASSUME NEW t, NEW w \in Nat, NEW o \in Nat, NEW w2 \in Nat, NEW o2 \in Nat,
         Formed(t, w, o), w <= w2, o <= o2
  PROVE  Formed(t, w2, o2)
<1>1. /\ 0..w \subseteq 0..w2 /\ 0..o \subseteq 0..o2
      /\ 0..(MaxWindows + o) \subseteq 0..(MaxWindows + o2)
  BY SyncBounds
<1>2. t = [f \in Files |-> t[f]] BY DEF Formed
<1>3. t["snapshot"] \in [at : 0..w2, listed : [Slug -> Status]] BY <1>1 DEF Formed
<1>4. t["slugmap"] \in [at : 0..w2, adm : 0..o2] BY <1>1 DEF Formed
<1>5. t["index"] \in [at : 0..w2, adm : 0..o2] BY <1>1 DEF Formed
<1>6. t["indexable"] \in 0..w2 /\ t["stamp"] \in 0..w2 BY <1>1 DEF Formed
<1>7. /\ t["era"] \in 0..(MaxWindows + o2)
      /\ t["admitted"] \in 0..o2 /\ t["data"] \in 0..o2
  BY <1>1 DEF Formed
<1> QED BY <1>2, <1>3, <1>4, <1>5, <1>6, <1>7 DEF Formed

LEMMA FineGrows ==
  ASSUME NEW t, NEW w \in Nat, NEW o \in Nat, NEW w2 \in Nat, NEW o2 \in Nat,
         NEW b \in BOOLEAN, NEW b2 \in BOOLEAN,
         Fine(t, w, o, b), w <= w2, o <= o2, b => b2
  PROVE  Fine(t, w2, o2, b2)
<1>1. Formed(t, w2, o2) BY FormedGrows DEF Fine
<1>2. Good(t, b2) BY DEF Fine, Good
<1> QED BY <1>1, <1>2 DEF Fine

LEMMA FirstTreeIs ==
  /\ FirstTree = [f \in Files |-> FirstTree[f]]
  /\ FirstTree["snapshot"] = [at |-> 0, listed |-> [s \in Slug |-> "active"]]
  /\ FirstTree["slugmap"] = [at |-> 0, adm |-> 0] /\ FirstTree["index"] = [at |-> 0, adm |-> 0]
  /\ FirstTree["removals"] = [redirects |-> {}, gone |-> {}]
  /\ FirstTree["firstSeen"] = Slug
  /\ FirstTree["indexable"] = 0 /\ FirstTree["stamp"] = 0 /\ FirstTree["era"] = 0
  /\ FirstTree["admitted"] = 0 /\ FirstTree["data"] = 0
BY DEF FirstTree, Files

LEMMA FirstTreeFine ==
  ASSUME NEW w \in Nat, NEW o \in Nat, NEW b \in BOOLEAN
  PROVE  Fine(FirstTree, w, o, b)
<1>1. 0 \in 0..w /\ 0 \in 0..o /\ 0 \in 0..(MaxWindows + o) BY SyncBounds
<1>2. FirstTree["snapshot"].listed \in [Slug -> Status] BY FirstTreeIs DEF Status
<1>3. Formed(FirstTree, w, o) BY <1>1, <1>2, FirstTreeIs DEF Formed
<1>4. FirstTree["slugmap"] = FirstTree["index"] BY FirstTreeIs
<1>5. FirstTree["index"].at = FirstTree["snapshot"].at BY FirstTreeIs
<1>6. Bound(FirstTree) BY FirstTreeIs DEF Bound, Binding
<1>7. Active(FirstTree) \cap FirstTree["removals"].gone = {} BY FirstTreeIs
<1>8. Listed(FirstTree) = Slug BY FirstTreeIs DEF Listed
<1>9. FirstTree["firstSeen"] \subseteq Listed(FirstTree) BY <1>8, FirstTreeIs
<1>10. Good(FirstTree, b) BY <1>4, <1>5, <1>6, <1>7, <1>9 DEF Good
<1> QED BY <1>3, <1>10 DEF Fine

\* Since holds along any number of pushes by others.
LEMMA SinceIsOrder ==
  ASSUME NEW a, NEW b, NEW c
  PROVE  Since(a, a) /\ (Since(a, b) /\ Since(b, c) => Since(a, c))
BY DEF Since

-----------------------------------------------------------------------------
(* The commit of a window, and the rebase, file by file.                   *)

LEMMA CommitIs ==
  ASSUME NEW tree, NEW w, NEW listed, NEW era, NEW indexable, NEW new,
         tree = [f \in Files |-> tree[f]],
         tree["removals"] \in [redirects : SUBSET Slug, gone : SUBSET Slug],
         new = Committed(tree, Refreshed(tree, w, listed, era, indexable))
  PROVE  /\ new = [f \in Files |-> new[f]]
         /\ new["snapshot"] = [at |-> w, listed |-> listed]
         /\ new["slugmap"] = [at |-> w, adm |-> tree["admitted"]]
         /\ new["index"] = [at |-> w, adm |-> tree["admitted"]]
         /\ new["removals"] = [redirects |-> tree["removals"].redirects,
                               gone |-> GoneAfter(tree, listed)]
         /\ new["firstSeen"] = tree["firstSeen"] \cup {s \in Slug : listed[s] # "absent"}
         /\ new["era"] = era /\ new["indexable"] = indexable
         /\ new["stamp"] = tree["stamp"] /\ new["admitted"] = tree["admitted"]
         /\ new["data"] = tree["data"]
<1> DEFINE r == Refreshed(tree, w, listed, era, indexable)
<1>1. /\ r["snapshot"] = [at |-> w, listed |-> listed]
      /\ r["slugmap"] = [at |-> w, adm |-> tree["admitted"]]
      /\ r["index"] = [at |-> w, adm |-> tree["admitted"]]
      /\ r["era"] = era /\ r["indexable"] = indexable
  BY DEF Refreshed, Files
<1>2. r["firstSeen"] = tree["firstSeen"] \cup {s \in Slug : listed[s] # "absent"}
  BY DEF Refreshed, Files
<1>3. r["removals"] = [redirects |-> tree["removals"].redirects,
                       gone |-> GoneAfter(tree, listed)]
  BY DEF Refreshed, Files
<1> HIDE DEF r
<1>4. new = [f \in Files |-> IF f \in Staged THEN r[f] ELSE tree[f]] BY DEF Committed, r
<1>5. new = [f \in Files |-> new[f]] BY <1>4
<1>6. /\ new["snapshot"] = r["snapshot"] /\ new["slugmap"] = r["slugmap"]
      /\ new["index"] = r["index"] /\ new["removals"] = r["removals"]
      /\ new["firstSeen"] = r["firstSeen"] /\ new["era"] = r["era"]
      /\ new["indexable"] = r["indexable"] /\ new["stamp"] = tree["stamp"]
      /\ new["admitted"] = tree["admitted"] /\ new["data"] = tree["data"]
  BY <1>4 DEF Files, Staged
<1> QED BY <1>1, <1>2, <1>3, <1>5, <1>6

\* The commit `new` that the window's fetch of the registry makes of a servable tree.
Refreshing(tree, w, o, b, listed, era, indexable, new) ==
  /\ w \in 0..MaxWindows /\ o \in Nat /\ b \in BOOLEAN /\ listed \in [Slug -> Status]
  /\ era \in {tree["era"], w} /\ indexable \in {tree["indexable"], w}
  /\ Fine(tree, w, o, b)
  /\ new = Committed(tree, Refreshed(tree, w, listed, era, indexable))

\* A fetch of the registry makes a servable tree of a servable one: no active server is
\* gone, and one that leaves the listing is gone or redirected.
LEMMA CommitIsFine ==
  ASSUME NEW tree, NEW w, NEW o, NEW b, NEW listed, NEW era, NEW indexable, NEW new,
         Refreshing(tree, w, o, b, listed, era, indexable, new)
  PROVE  Fine(new, w, o, b) /\ Synced(tree, tree, new, w)
<1> /\ w \in 0..MaxWindows /\ o \in Nat /\ b \in BOOLEAN /\ listed \in [Slug -> Status]
    /\ era \in {tree["era"], w} /\ indexable \in {tree["indexable"], w}
    /\ Fine(tree, w, o, b)
    /\ new = Committed(tree, Refreshed(tree, w, listed, era, indexable))
  BY DEF Refreshing
<1>0. w \in Nat /\ w \in 0..w /\ w \in 0..(MaxWindows + o) BY SyncBounds
<1>1. /\ tree = [f \in Files |-> tree[f]]
      /\ tree["removals"] \in [redirects : SUBSET Slug, gone : SUBSET Slug]
      /\ tree["firstSeen"] \in SUBSET Slug /\ tree["admitted"] \in 0..o
  BY DEF Fine, Formed
<1>2. /\ new = [f \in Files |-> new[f]]
      /\ new["snapshot"] = [at |-> w, listed |-> listed]
      /\ new["slugmap"] = [at |-> w, adm |-> tree["admitted"]]
      /\ new["index"] = [at |-> w, adm |-> tree["admitted"]]
      /\ new["removals"] = [redirects |-> tree["removals"].redirects,
                            gone |-> GoneAfter(tree, listed)]
      /\ new["firstSeen"] = tree["firstSeen"] \cup {s \in Slug : listed[s] # "absent"}
      /\ new["era"] = era /\ new["indexable"] = indexable
      /\ new["stamp"] = tree["stamp"] /\ new["admitted"] = tree["admitted"]
      /\ new["data"] = tree["data"]
  BY <1>1, CommitIs
<1>3. GoneAfter(tree, listed) \in SUBSET Slug BY <1>1 DEF GoneAfter, Listed
<1>4. Formed(new, w, o)
  <2>1. new["snapshot"] \in [at : 0..w, listed : [Slug -> Status]] BY <1>0, <1>2
  <2>2. /\ new["slugmap"] \in [at : 0..w, adm : 0..o]
        /\ new["index"] \in [at : 0..w, adm : 0..o]
    BY <1>0, <1>1, <1>2
  <2>3. new["removals"] \in [redirects : SUBSET Slug, gone : SUBSET Slug]
    BY <1>1, <1>2, <1>3
  <2>4. new["firstSeen"] \in SUBSET Slug BY <1>1, <1>2
  <2>5. /\ new["indexable"] \in 0..w /\ new["stamp"] \in 0..w
        /\ new["era"] \in 0..(MaxWindows + o)
        /\ new["admitted"] \in 0..o /\ new["data"] \in 0..o
    BY <1>0, <1>2 DEF Fine, Formed
  <2> QED BY <1>2, <2>1, <2>2, <2>3, <2>4, <2>5 DEF Formed
<1>5. Listed(new) = {s \in Slug : listed[s] # "absent"} BY <1>2 DEF Listed
<1>6. Active(new) = {s \in Slug : listed[s] = "active"} BY <1>2 DEF Active
<1>7. Good(new, b)
  <2>1. new["slugmap"] = new["index"] /\ new["index"].at = new["snapshot"].at BY <1>2
  <2>2. Bound(new) BY <1>2 DEF Bound, Binding
  <2>3. Active(new) \cap new["removals"].gone = {} BY <1>2, <1>6 DEF GoneAfter
  <2>4. ASSUME NEW s \in new["firstSeen"]
        PROVE  s \in Listed(new) \cup new["removals"].gone \cup new["removals"].redirects
    <3>1. CASE listed[s] # "absent" BY <1>1, <1>2, <1>5, <2>4, <3>1
    <3>2. CASE listed[s] = "absent"
      <4>1. s \in tree["firstSeen"] BY <1>2, <2>4, <3>2
      <4>2. s \in Listed(tree) \cup tree["removals"].gone \cup tree["removals"].redirects
        BY <4>1 DEF Fine, Good
      <4>3. s \in GoneAfter(tree, listed) \cup tree["removals"].redirects
        BY <3>2, <4>2 DEF GoneAfter
      <4> QED BY <1>2, <4>3
    <3> QED BY <3>1, <3>2
  <2> QED BY <2>1, <2>2, <2>3, <2>4 DEF Good
<1>8. Synced(tree, tree, new, w) BY <1>2 DEF Synced
<1> QED BY <1>4, <1>7, <1>8 DEF Fine

\* The files git leaves unmerged: each changed on both sides, server-removals.json perhaps
\* merged by line.
Clash(base, ours, theirs) ==
  {Overlap(base, ours, theirs), Overlap(base, ours, theirs) \ {"removals"}}

LEMMA ReplayIs ==
  ASSUME NEW base, NEW ours, NEW theirs, NEW clash \in Clash(base, ours, theirs), NEW new,
         new = Replayed(base, ours, theirs, clash)
  PROVE  /\ new = [f \in Files |-> new[f]]
         /\ \A f \in Files \ {"removals"} :
              /\ ours[f] # base[f] => new[f] = ours[f]
              /\ ours[f] = base[f] => new[f] = theirs[f]
         /\ \/ new["removals"] = ours["removals"]
            \/ new["removals"] = theirs["removals"] /\ ours["removals"] = base["removals"]
            \/ new["removals"] = [redirects |-> theirs["removals"].redirects,
                                  gone |-> ours["removals"].gone]
         /\ ours["removals"] = base["removals"] => new["removals"] = theirs["removals"]
<1>1. \A f \in clash : f \in Files /\ ours[f] # base[f] /\ theirs[f] # base[f]
  BY DEF Clash, Overlap
<1>2. new = [f \in Files |-> new[f]] BY DEF Replayed
<1>3. ASSUME NEW f \in Files
      PROVE  new[f] = IF f \in clash \/ theirs[f] = base[f] THEN ours[f]
                      ELSE IF f = "removals" /\ ours[f] # base[f]
                           THEN [redirects |-> theirs[f].redirects, gone |-> ours[f].gone]
                           ELSE IF ours[f] = base[f] THEN theirs[f] ELSE ours[f]
  BY DEF Replayed
<1>4. ASSUME NEW f \in Files \ {"removals"}
      PROVE  /\ ours[f] # base[f] => new[f] = ours[f]
             /\ ours[f] = base[f] => new[f] = theirs[f]
  BY <1>1, <1>3
<1>5. "removals" \in Files BY DEF Files
<1> QED BY <1>1, <1>2, <1>3, <1>4, <1>5

\* The commit of the sync job on what others pushed: every file it wrote stays its own,
\* every file it did not write is theirs.  If the derived files were built from another
\* admitted.json, or git refuses a file outside the list, somebody moved that file.
LEMMA SyncReplay ==
  ASSUME NEW from, NEW base, NEW ours, NEW theirs, NEW w \in Nat, NEW o \in Nat,
         NEW b \in BOOLEAN, NEW clash \in Clash(base, ours, theirs), NEW new,
         Fine(base, w, o, b), Fine(ours, w, o, b), Fine(theirs, w, o, b),
         Since(from, theirs), Since(base, theirs), theirs["snapshot"].at < w,
         Synced(from, base, ours, w),
         ours["admitted"] = base["admitted"], ours["data"] = base["data"],
         new = Replayed(base, ours, theirs, clash)
  PROVE  /\ Formed(new, w, o)
         /\ new["admitted"] = theirs["admitted"] /\ new["data"] = theirs["data"]
         /\ clash \subseteq Resolved => Synced(from, theirs, new, w)
         /\ clash = {} \/ Bound(new) => Good(new, b)
         /\ ~Bound(new) => theirs["admitted"] # from["admitted"]
         /\ ~(clash \subseteq Resolved) => theirs["era"] # from["era"]
<1>1. /\ new = [f \in Files |-> new[f]]
      /\ \A f \in Files \ {"removals"} :
           /\ ours[f] # base[f] => new[f] = ours[f]
           /\ ours[f] = base[f] => new[f] = theirs[f]
      /\ \/ new["removals"] = ours["removals"]
         \/ new["removals"] = theirs["removals"] /\ ours["removals"] = base["removals"]
         \/ new["removals"] = [redirects |-> theirs["removals"].redirects,
                               gone |-> ours["removals"].gone]
      /\ ours["removals"] = base["removals"] => new["removals"] = theirs["removals"]
  BY ReplayIs
<1>2. Formed(base, w, o) /\ Formed(ours, w, o) /\ Formed(theirs, w, o) BY DEF Fine
<1>3. \A f \in Files \ {"removals"} : new[f] = ours[f] \/ new[f] = theirs[f] BY <1>1
<1>4. /\ new["admitted"] = theirs["admitted"] /\ new["data"] = theirs["data"]
      /\ new["stamp"] = theirs["stamp"]
  BY <1>1 DEF Files, Synced
<1>5. /\ base["snapshot"].at # w /\ base["index"].at # w /\ base["slugmap"].at # w
      /\ theirs["index"].at # w /\ theirs["slugmap"].at # w
  <2>1. theirs["snapshot"].at # w BY <1>2 DEF Formed
  <2>2. base["snapshot"].at # w BY <2>1 DEF Since
  <2> QED BY <2>1, <2>2 DEF Fine, Good
<1>6. /\ ours["snapshot"].at = w /\ ours["index"].at = w
      /\ ours["slugmap"] = [at |-> w, adm |-> from["admitted"]]
      /\ ours["slugmap"] = ours["index"]
  BY DEF Fine, Good, Synced
<1>7. /\ new["snapshot"] = ours["snapshot"] /\ new["slugmap"] = ours["slugmap"]
      /\ new["index"] = ours["index"]
  <2>1. /\ ours["snapshot"] # base["snapshot"] /\ ours["slugmap"] # base["slugmap"]
        /\ ours["index"] # base["index"]
    BY <1>5, <1>6
  <2> QED BY <1>1, <2>1 DEF Files
<1>8. new["firstSeen"] = ours["firstSeen"] BY <1>1 DEF Files, Since
<1>9. /\ new["removals"].gone = ours["removals"].gone
      /\ new["removals"].redirects \in {ours["removals"].redirects,
                                        theirs["removals"].redirects}
      /\ ours["removals"].redirects \subseteq new["removals"].redirects
      /\ new["removals"].redirects \subseteq theirs["removals"].redirects
      /\ new["removals"] \in [redirects : SUBSET Slug, gone : SUBSET Slug]
  <2>1. /\ ours["removals"].redirects \subseteq base["removals"].redirects
        /\ base["removals"].redirects \subseteq theirs["removals"].redirects
        /\ theirs["removals"].gone = base["removals"].gone
    BY DEF Since, Synced
  <2>2. /\ ours["removals"] \in [redirects : SUBSET Slug, gone : SUBSET Slug]
        /\ theirs["removals"] \in [redirects : SUBSET Slug, gone : SUBSET Slug]
    BY <1>2 DEF Formed
  <2>3. CASE new["removals"] = ours["removals"] BY <2>1, <2>2, <2>3
  <2>4. CASE new["removals"] = theirs["removals"] /\ ours["removals"] = base["removals"]
    BY <2>1, <2>2, <2>4
  <2>5. CASE new["removals"] = [redirects |-> theirs["removals"].redirects,
                                gone |-> ours["removals"].gone]
    BY <2>1, <2>2, <2>5
  <2> QED BY <1>1, <2>3, <2>4, <2>5
<1>10. Formed(new, w, o)
  <2>1. /\ new["snapshot"] \in [at : 0..w, listed : [Slug -> Status]]
        /\ new["slugmap"] \in [at : 0..w, adm : 0..o]
        /\ new["index"] \in [at : 0..w, adm : 0..o]
        /\ new["firstSeen"] \in SUBSET Slug
    BY <1>2, <1>7, <1>8 DEF Formed
  <2>2. /\ new["indexable"] \in 0..w /\ new["stamp"] \in 0..w
        /\ new["era"] \in 0..(MaxWindows + o)
        /\ new["admitted"] \in 0..o /\ new["data"] \in 0..o
    BY <1>2, <1>3 DEF Formed, Files
  <2> QED BY <1>1, <1>9, <2>1, <2>2 DEF Formed
<1>11. /\ Listed(new) = Listed(ours) /\ Active(new) = Active(ours) BY <1>7 DEF Listed, Active
<1>12. ASSUME clash = {} \/ Bound(new)
       PROVE  Good(new, b)
  <2>1. new["slugmap"] = new["index"] /\ new["index"].at = new["snapshot"].at
    BY <1>6, <1>7
  <2>2. b \/ Bound(new)
    <3>1. CASE Bound(new) BY <3>1
    <3>2. CASE clash = {} /\ ~b
      <4>1. "slugmap" \notin Overlap(base, ours, theirs) BY <3>2 DEF Clash
      <4>2. theirs["slugmap"] = base["slugmap"]
        BY <1>5, <1>6, <4>1 DEF Overlap, Files
      <4>3. Bound(base) /\ Bound(ours) /\ Bound(theirs) BY <3>2 DEF Fine, Good
      <4>4. /\ theirs["slugmap"].adm = theirs["admitted"]
            /\ base["slugmap"].adm = base["admitted"]
        BY <4>3 DEF Bound, Binding
      <4>5. new["admitted"] = ours["admitted"] BY <1>4, <4>2, <4>4
      <4> QED BY <1>7, <4>3, <4>5 DEF Bound, Binding
    <3> QED BY <1>12, <3>1, <3>2
  <2>3. Active(new) \cap new["removals"].gone = {} BY <1>9, <1>11 DEF Fine, Good
  <2>4. new["firstSeen"] \subseteq
          Listed(new) \cup new["removals"].gone \cup new["removals"].redirects
    BY <1>8, <1>9, <1>11 DEF Fine, Good
  <2> QED BY <2>1, <2>2, <2>3, <2>4 DEF Good
<1>13. ASSUME ~Bound(new) PROVE theirs["admitted"] # from["admitted"]
  BY <1>4, <1>6, <1>7, <1>13 DEF Bound, Binding
<1>14. ASSUME ours["era"] # base["era"], theirs["era"] # base["era"],
              ours["era"] # theirs["era"]
       PROVE  ~(clash \subseteq Resolved)
  BY <1>14 DEF Clash, Overlap, Files, Resolved
<1>15. ASSUME ~(clash \subseteq Resolved) PROVE theirs["era"] # from["era"]
  <2>1. PICK f \in clash : f \notin Resolved BY <1>15
  <2>2. f \in Files /\ ours[f] # base[f] /\ theirs[f] # base[f] BY DEF Clash, Overlap
  <2>3. f \in {"era", "admitted", "data"} BY <2>1, <2>2 DEF Files, Resolved
  <2>4. f = "era" BY <2>2, <2>3
  <2> QED BY <2>2, <2>4 DEF Synced
<1>16. ASSUME clash \subseteq Resolved PROVE Synced(from, theirs, new, w)
  <2>1. new["snapshot"].at = w /\ new["stamp"] = theirs["stamp"] BY <1>4, <1>6, <1>7
  <2>2. new["slugmap"] = [at |-> w, adm |-> from["admitted"]] BY <1>6, <1>7
  <2>3. new["era"] = theirs["era"] \/ theirs["era"] = from["era"]
    BY <1>1, <1>14, <1>16 DEF Synced, Files
  <2>4. \/ theirs["removals"].redirects \subseteq new["removals"].redirects
        \/ new["removals"].gone # from["removals"].gone
    <3>1. CASE ours["removals"].gone # from["removals"].gone BY <1>9, <3>1
    <3>2. CASE ours["removals"].gone = from["removals"].gone
      <4>1. ours["removals"].redirects = base["removals"].redirects BY <3>2 DEF Synced
      <4>2. ours["removals"].gone = base["removals"].gone BY <3>2 DEF Since
      <4>3. ours["removals"] = base["removals"] BY <1>2, <4>1, <4>2 DEF Formed
      <4> QED BY <1>1, <4>3
    <3> QED BY <3>1, <3>2
  <2> QED BY <1>9, <2>1, <2>2, <2>3, <2>4 DEF Synced
<1> QED BY <1>4, <1>10, <1>12, <1>13, <1>15, <1>16

Shaped(t) == t = [f \in Files |-> t[f]]

\* A tree that differs by its stamp is as good.
LEMMA StampedIsFine ==
  ASSUME NEW base, NEW t, NEW w \in Nat, NEW o \in Nat, NEW b \in BOOLEAN,
         Fine(base, w, o, b), Shaped(t), OnlyStamped(base, t),
         t["stamp"] \in 0..w
  PROVE  Fine(t, w, o, b)
<1>1. /\ t["snapshot"] = base["snapshot"] /\ t["slugmap"] = base["slugmap"]
      /\ t["index"] = base["index"] /\ t["removals"] = base["removals"]
      /\ t["firstSeen"] = base["firstSeen"] /\ t["indexable"] = base["indexable"]
      /\ t["era"] = base["era"] /\ t["admitted"] = base["admitted"]
      /\ t["data"] = base["data"]
  BY DEF OnlyStamped, Files
<1>2. Formed(t, w, o) BY <1>1 DEF Fine, Formed, Shaped
<1>3. Listed(t) = Listed(base) /\ Active(t) = Active(base) /\ (Bound(t) <=> Bound(base))
  BY <1>1 DEF Listed, Active, Bound, Binding
<1>4. Good(t, b) BY <1>1, <1>3 DEF Fine, Good
<1> QED BY <1>2, <1>4 DEF Fine

\* The stamp of ship-pending rebased on what others pushed is still only a stamp.
LEMMA ShipReplay ==
  ASSUME NEW base, NEW ours, NEW theirs, NEW w \in Nat, NEW o \in Nat,
         NEW b \in BOOLEAN, NEW clash \in Clash(base, ours, theirs), NEW new,
         Formed(ours, w, o), Fine(theirs, w, o, b), OnlyStamped(base, ours),
         new = Replayed(base, ours, theirs, clash)
  PROVE  Fine(new, w, o, b) /\ OnlyStamped(theirs, new)
<1>1. /\ new = [f \in Files |-> new[f]]
      /\ \A f \in Files \ {"removals"} :
           /\ ours[f] # base[f] => new[f] = ours[f]
           /\ ours[f] = base[f] => new[f] = theirs[f]
      /\ \/ new["removals"] = ours["removals"]
         \/ new["removals"] = theirs["removals"] /\ ours["removals"] = base["removals"]
         \/ new["removals"] = [redirects |-> theirs["removals"].redirects,
                               gone |-> ours["removals"].gone]
      /\ ours["removals"] = base["removals"] => new["removals"] = theirs["removals"]
  BY ReplayIs
<1>2. OnlyStamped(theirs, new) BY <1>1 DEF OnlyStamped, Files
<1>3. new["stamp"] = ours["stamp"] \/ new["stamp"] = theirs["stamp"] BY <1>1 DEF Files
<1>4. new["stamp"] \in 0..w BY <1>3 DEF Fine, Formed
<1>5. Shaped(new) BY <1>1 DEF Shaped
<1>6. ASSUME NEW t, Shaped(t), OnlyStamped(theirs, t), t["stamp"] \in 0..w
      PROVE  Fine(t, w, o, b)
  BY <1>6, StampedIsFine
<1>7. Fine(new, w, o, b) BY <1>2, <1>4, <1>5, <1>6
<1> QED BY <1>2, <1>7

-----------------------------------------------------------------------------
(* What others push.                                                       *)

\* A commit pushed by others when they have pushed o.
Grew(old, new, o) ==
  /\ Since(old, new)
  /\ old["data"] <= new["data"] /\ old["admitted"] <= new["admitted"]
  /\ new["era"] = old["era"] \/ new["era"] > MaxWindows + o

LEMMA EditIsFormed ==
  ASSUME NEW old, NEW new, NEW w \in Nat, NEW o \in Nat,
         Formed(old, w, o), Grew(old, new, o), Shaped(new),
         new["slugmap"] \in [at : 0..w, adm : 0..(o + 1)], new["slugmap"] = new["index"],
         new["removals"] \in [redirects : SUBSET Slug, gone : SUBSET Slug],
         new["era"] \in 0..(MaxWindows + (o + 1)),
         new["admitted"] \in 0..(o + 1), new["data"] \in 0..(o + 1)
  PROVE  Formed(new, w, o + 1)
<1>1. /\ new["snapshot"] = old["snapshot"] /\ new["firstSeen"] = old["firstSeen"]
      /\ new["indexable"] = old["indexable"] /\ new["stamp"] = old["stamp"]
  BY DEF Grew, Since
<1> QED BY <1>1 DEF Formed, Shaped

LEMMA EditIsGood ==
  ASSUME NEW old, NEW new, NEW o \in Nat,
         Good(old, TRUE), Grew(old, new, o), new["slugmap"] = new["index"],
         new["index"].at = old["index"].at
  PROVE  Good(new, TRUE)
<1>1. Listed(new) = Listed(old) /\ Active(new) = Active(old)
  BY DEF Grew, Since, Listed, Active
<1> QED BY <1>1 DEF Good, Grew, Since

LEMMA SameIsGrown ==
  ASSUME NEW old, NEW w \in Nat, NEW o \in Nat, Formed(old, w, o)
  PROVE  Grew(old, old, o)
BY DEF Grew, Since, Formed

LEMMA OneMorePush ==
  ASSUME NEW w \in Nat, NEW o \in Nat
  PROVE  /\ o + 1 \in Nat /\ o <= o + 1 /\ w <= w /\ 0..o \subseteq 0..(o + 1)
         /\ 0..(MaxWindows + o) \subseteq 0..(MaxWindows + (o + 1))
         /\ \A i \in 0..o : i <= i + 1 /\ i + 1 \in 0..(o + 1)
         /\ MaxWindows + o + 1 \in 0..(MaxWindows + (o + 1))
         /\ MaxWindows + o + 1 > MaxWindows + o
BY SyncBounds

\* Product code touches no data file.
LEMMA ProductIsFine ==
  ASSUME NEW old, NEW new, NEW w \in Nat, NEW o \in Nat, NEW b \in BOOLEAN,
         Fine(old, w, o, b),
         new = old
  PROVE Fine(new, w, o + 1, b) /\ Grew(old, new, o)
<1>0. /\ old = [f \in Files |-> old[f]]
      /\ old["removals"] \in [redirects : SUBSET Slug, gone : SUBSET Slug]
      /\ old["slugmap"] \in [at : 0..w, adm : 0..o] /\ old["slugmap"] = old["index"]
      /\ old["index"].at = old["snapshot"].at
      /\ old["admitted"] \in 0..o /\ old["data"] \in 0..o
      /\ old["era"] \in 0..(MaxWindows + o)
      /\ b \/ Bound(old)
  BY DEF Fine, Formed, Good
<1>1. /\ o + 1 \in Nat /\ o <= o + 1 /\ w <= w /\ 0..o \subseteq 0..(o + 1)
      /\ 0..(MaxWindows + o) \subseteq 0..(MaxWindows + (o + 1))
      /\ \A i \in 0..o : i <= i + 1 /\ i + 1 \in 0..(o + 1)
      /\ MaxWindows + o + 1 \in 0..(MaxWindows + (o + 1))
      /\ MaxWindows + o + 1 > MaxWindows + o
  BY OneMorePush
<1>2. Fine(new, w, o + 1, b) BY <1>1, FineGrows
<1>3. Formed(old, w, o) BY DEF Fine
<1> QED BY <1>2, <1>3, SameIsGrown

\* Verdict, adjudication, liveness and anchor commits.
LEMMA DataIsFine ==
  ASSUME NEW old, NEW new, NEW w \in Nat, NEW o \in Nat, NEW b \in BOOLEAN,
         Fine(old, w, o, b),
         new = [old EXCEPT !["data"] = @ + 1]
  PROVE  Fine(new, w, o + 1, b) /\ Grew(old, new, o)
<1>0. /\ old = [f \in Files |-> old[f]]
      /\ old["removals"] \in [redirects : SUBSET Slug, gone : SUBSET Slug]
      /\ old["slugmap"] \in [at : 0..w, adm : 0..o] /\ old["slugmap"] = old["index"]
      /\ old["index"].at = old["snapshot"].at
      /\ old["admitted"] \in 0..o /\ old["data"] \in 0..o
      /\ old["era"] \in 0..(MaxWindows + o)
      /\ b \/ Bound(old)
  BY DEF Fine, Formed, Good
<1>1. /\ o + 1 \in Nat /\ o <= o + 1 /\ w <= w /\ 0..o \subseteq 0..(o + 1)
      /\ 0..(MaxWindows + o) \subseteq 0..(MaxWindows + (o + 1))
      /\ \A i \in 0..o : i <= i + 1 /\ i + 1 \in 0..(o + 1)
      /\ MaxWindows + o + 1 \in 0..(MaxWindows + (o + 1))
      /\ MaxWindows + o + 1 > MaxWindows + o
  BY OneMorePush
<1>2. /\ new = [f \in Files |-> new[f]] /\ new["data"] = old["data"] + 1
      /\ \A f \in Files \ {"data"} : new[f] = old[f]
  BY <1>0 DEF Files
<1>3. Grew(old, new, o) BY <1>0, <1>1, <1>2 DEF Grew, Since, Files
<1>4. Bound(old) => Bound(new) BY <1>2 DEF Bound, Binding, Files
<1>5. /\ new["slugmap"] = old["slugmap"] /\ new["index"] = old["index"]
      /\ new["removals"] = old["removals"] /\ new["era"] = old["era"]
      /\ new["admitted"] = old["admitted"]
  BY <1>2 DEF Files
<1>6. new["slugmap"] \in [at : 0..w, adm : 0..(o + 1)] BY <1>0, <1>1, <1>5
<1>7. /\ Shaped(new) /\ new["slugmap"] = new["index"] /\ new["index"].at = old["index"].at
      /\ new["removals"] \in [redirects : SUBSET Slug, gone : SUBSET Slug]
      /\ new["era"] \in 0..(MaxWindows + (o + 1))
      /\ new["admitted"] \in 0..(o + 1) /\ new["data"] \in 0..(o + 1)
      /\ b \/ Bound(new)
  BY <1>0, <1>1, <1>2, <1>4, <1>5, <1>6 DEF Shaped
<1>8. Formed(new, w, o + 1) BY <1>3, <1>6, <1>7, EditIsFormed DEF Fine
<1>9. Good(new, b)
  <2>1. Good(old, TRUE) BY DEF Fine, Good
  <2>2. Good(new, TRUE) BY <2>1, <1>3, <1>7, EditIsGood
  <2> QED BY <2>2, <1>3, <1>7 DEF Good
<1> QED BY <1>3, <1>8, <1>9 DEF Fine

\* admitted.json alone: the one edit that breaks the bindings.
LEMMA AloneIsFine ==
  ASSUME NEW old, NEW new, NEW w \in Nat, NEW o \in Nat, NEW b \in BOOLEAN,
         Fine(old, w, o, b),
         new = [old EXCEPT !["admitted"] = @ + 1]
  PROVE  Fine(new, w, o + 1, TRUE) /\ Grew(old, new, o)
<1>0. /\ old = [f \in Files |-> old[f]]
      /\ old["removals"] \in [redirects : SUBSET Slug, gone : SUBSET Slug]
      /\ old["slugmap"] \in [at : 0..w, adm : 0..o] /\ old["slugmap"] = old["index"]
      /\ old["index"].at = old["snapshot"].at
      /\ old["admitted"] \in 0..o /\ old["data"] \in 0..o
      /\ old["era"] \in 0..(MaxWindows + o)
      /\ b \/ Bound(old)
  BY DEF Fine, Formed, Good
<1>1. /\ o + 1 \in Nat /\ o <= o + 1 /\ w <= w /\ 0..o \subseteq 0..(o + 1)
      /\ 0..(MaxWindows + o) \subseteq 0..(MaxWindows + (o + 1))
      /\ \A i \in 0..o : i <= i + 1 /\ i + 1 \in 0..(o + 1)
      /\ MaxWindows + o + 1 \in 0..(MaxWindows + (o + 1))
      /\ MaxWindows + o + 1 > MaxWindows + o
  BY OneMorePush
<1>2. /\ new = [f \in Files |-> new[f]] /\ new["admitted"] = old["admitted"] + 1
      /\ \A f \in Files \ {"admitted"} : new[f] = old[f]
  BY <1>0 DEF Files
<1>3. Grew(old, new, o) BY <1>0, <1>1, <1>2 DEF Grew, Since, Files
<1>5. /\ new["slugmap"] = old["slugmap"] /\ new["index"] = old["index"]
      /\ new["removals"] = old["removals"] /\ new["era"] = old["era"]
      /\ new["data"] = old["data"]
  BY <1>2 DEF Files
<1>6. new["slugmap"] \in [at : 0..w, adm : 0..(o + 1)] BY <1>0, <1>1, <1>5
<1>7. /\ Shaped(new) /\ new["slugmap"] = new["index"] /\ new["index"].at = old["index"].at
      /\ new["removals"] \in [redirects : SUBSET Slug, gone : SUBSET Slug]
      /\ new["era"] \in 0..(MaxWindows + (o + 1))
      /\ new["admitted"] \in 0..(o + 1) /\ new["data"] \in 0..(o + 1)
  BY <1>0, <1>1, <1>2, <1>5, <1>6 DEF Shaped
<1>8. Formed(new, w, o + 1) BY <1>3, <1>6, <1>7, EditIsFormed DEF Fine
<1>9. Good(new, TRUE)
  <2>1. Good(old, TRUE) BY DEF Fine, Good
  <2>2. Good(new, TRUE) BY <2>1, <1>3, <1>7, EditIsGood
  <2> QED BY <2>2, <1>3, <1>7 DEF Good
<1> QED BY <1>3, <1>8, <1>9 DEF Fine

\* The era panel, by hand.
LEMMA EraIsFine ==
  ASSUME NEW old, NEW new, NEW w \in Nat, NEW o \in Nat, NEW b \in BOOLEAN,
         Fine(old, w, o, b),
         new = [old EXCEPT !["era"] = MaxWindows + o + 1]
  PROVE  Fine(new, w, o + 1, b) /\ Grew(old, new, o)
<1>0. /\ old = [f \in Files |-> old[f]]
      /\ old["removals"] \in [redirects : SUBSET Slug, gone : SUBSET Slug]
      /\ old["slugmap"] \in [at : 0..w, adm : 0..o] /\ old["slugmap"] = old["index"]
      /\ old["index"].at = old["snapshot"].at
      /\ old["admitted"] \in 0..o /\ old["data"] \in 0..o
      /\ old["era"] \in 0..(MaxWindows + o)
      /\ b \/ Bound(old)
  BY DEF Fine, Formed, Good
<1>1. /\ o + 1 \in Nat /\ o <= o + 1 /\ w <= w /\ 0..o \subseteq 0..(o + 1)
      /\ 0..(MaxWindows + o) \subseteq 0..(MaxWindows + (o + 1))
      /\ \A i \in 0..o : i <= i + 1 /\ i + 1 \in 0..(o + 1)
      /\ MaxWindows + o + 1 \in 0..(MaxWindows + (o + 1))
      /\ MaxWindows + o + 1 > MaxWindows + o
  BY OneMorePush
<1>2. /\ new = [f \in Files |-> new[f]] /\ new["era"] = MaxWindows + o + 1
      /\ \A f \in Files \ {"era"} : new[f] = old[f]
  BY <1>0 DEF Files
<1>3. Grew(old, new, o) BY <1>0, <1>1, <1>2 DEF Grew, Since, Files
<1>4. Bound(old) => Bound(new) BY <1>2 DEF Bound, Binding, Files
<1>5. /\ new["slugmap"] = old["slugmap"] /\ new["index"] = old["index"]
      /\ new["removals"] = old["removals"]
      /\ new["admitted"] = old["admitted"] /\ new["data"] = old["data"]
  BY <1>2 DEF Files
<1>6. new["slugmap"] \in [at : 0..w, adm : 0..(o + 1)] BY <1>0, <1>1, <1>5
<1>7. /\ Shaped(new) /\ new["slugmap"] = new["index"] /\ new["index"].at = old["index"].at
      /\ new["removals"] \in [redirects : SUBSET Slug, gone : SUBSET Slug]
      /\ new["era"] \in 0..(MaxWindows + (o + 1))
      /\ new["admitted"] \in 0..(o + 1) /\ new["data"] \in 0..(o + 1)
      /\ b \/ Bound(new)
  BY <1>0, <1>1, <1>2, <1>4, <1>5, <1>6 DEF Shaped
<1>8. Formed(new, w, o + 1) BY <1>3, <1>6, <1>7, EditIsFormed DEF Fine
<1>9. Good(new, b)
  <2>1. Good(old, TRUE) BY DEF Fine, Good
  <2>2. Good(new, TRUE) BY <2>1, <1>3, <1>7, EditIsGood
  <2> QED BY <2>2, <1>3, <1>7 DEF Good
<1> QED BY <1>3, <1>8, <1>9 DEF Fine

\* A redirect, by hand.
LEMMA SeedIsFine ==
  ASSUME NEW old, NEW new, NEW w \in Nat, NEW o \in Nat, NEW b \in BOOLEAN,
         Fine(old, w, o, b),
         NEW s \in Slug, new = [old EXCEPT !["removals"].redirects = @ \cup {s}]
  PROVE  Fine(new, w, o + 1, b) /\ Grew(old, new, o)
<1>0. /\ old = [f \in Files |-> old[f]]
      /\ old["removals"] \in [redirects : SUBSET Slug, gone : SUBSET Slug]
      /\ old["slugmap"] \in [at : 0..w, adm : 0..o] /\ old["slugmap"] = old["index"]
      /\ old["index"].at = old["snapshot"].at
      /\ old["admitted"] \in 0..o /\ old["data"] \in 0..o
      /\ old["era"] \in 0..(MaxWindows + o)
      /\ b \/ Bound(old)
  BY DEF Fine, Formed, Good
<1>1. /\ o + 1 \in Nat /\ o <= o + 1 /\ w <= w /\ 0..o \subseteq 0..(o + 1)
      /\ 0..(MaxWindows + o) \subseteq 0..(MaxWindows + (o + 1))
      /\ \A i \in 0..o : i <= i + 1 /\ i + 1 \in 0..(o + 1)
      /\ MaxWindows + o + 1 \in 0..(MaxWindows + (o + 1))
      /\ MaxWindows + o + 1 > MaxWindows + o
  BY OneMorePush
<1>2. /\ new = [f \in Files |-> new[f]]
      /\ new["removals"] = [redirects |-> old["removals"].redirects \cup {s},
                            gone |-> old["removals"].gone]
      /\ \A f \in Files \ {"removals"} : new[f] = old[f]
  BY <1>0 DEF Files
<1>3. Grew(old, new, o) BY <1>0, <1>1, <1>2 DEF Grew, Since, Files
<1>4. Bound(old) => Bound(new) BY <1>2 DEF Bound, Binding, Files
<1>5. /\ new["slugmap"] = old["slugmap"] /\ new["index"] = old["index"]
      /\ new["era"] = old["era"]
      /\ new["admitted"] = old["admitted"] /\ new["data"] = old["data"]
  BY <1>2 DEF Files
<1>6. /\ new["slugmap"] \in [at : 0..w, adm : 0..(o + 1)]
      /\ new["removals"] \in [redirects : SUBSET Slug, gone : SUBSET Slug]
  BY <1>0, <1>1, <1>2, <1>5
<1>7. /\ Shaped(new) /\ new["slugmap"] = new["index"] /\ new["index"].at = old["index"].at
      /\ new["removals"] \in [redirects : SUBSET Slug, gone : SUBSET Slug]
      /\ new["era"] \in 0..(MaxWindows + (o + 1))
      /\ new["admitted"] \in 0..(o + 1) /\ new["data"] \in 0..(o + 1)
      /\ b \/ Bound(new)
  BY <1>0, <1>1, <1>2, <1>4, <1>5, <1>6 DEF Shaped
<1>8. Formed(new, w, o + 1) BY <1>3, <1>6, <1>7, EditIsFormed DEF Fine
<1>9. Good(new, b)
  <2>1. Good(old, TRUE) BY DEF Fine, Good
  <2>2. Good(new, TRUE) BY <2>1, <1>3, <1>7, EditIsGood
  <2> QED BY <2>2, <1>3, <1>7 DEF Good
<1> QED BY <1>3, <1>8, <1>9 DEF Fine

\* An admission with its derived files.
Admitting(tree) ==
  LET adm == tree["admitted"] + 1
      binding == [at |-> tree["snapshot"].at, adm |-> adm]
  IN [tree EXCEPT !["admitted"] = adm, !["slugmap"] = binding, !["index"] = binding]

LEMMA AdmitIsFine ==
  ASSUME NEW old, NEW new, NEW w \in Nat, NEW o \in Nat, NEW b \in BOOLEAN,
         Fine(old, w, o, b),
         new = Admitting(old)
  PROVE  Fine(new, w, o + 1, b) /\ Grew(old, new, o)
<1>0. /\ old = [f \in Files |-> old[f]]
      /\ old["removals"] \in [redirects : SUBSET Slug, gone : SUBSET Slug]
      /\ old["slugmap"] \in [at : 0..w, adm : 0..o] /\ old["slugmap"] = old["index"]
      /\ old["index"].at = old["snapshot"].at
      /\ old["admitted"] \in 0..o /\ old["data"] \in 0..o
      /\ old["era"] \in 0..(MaxWindows + o)
      /\ b \/ Bound(old)
  BY DEF Fine, Formed, Good
<1>1. /\ o + 1 \in Nat /\ o <= o + 1 /\ w <= w /\ 0..o \subseteq 0..(o + 1)
      /\ 0..(MaxWindows + o) \subseteq 0..(MaxWindows + (o + 1))
      /\ \A i \in 0..o : i <= i + 1 /\ i + 1 \in 0..(o + 1)
      /\ MaxWindows + o + 1 \in 0..(MaxWindows + (o + 1))
      /\ MaxWindows + o + 1 > MaxWindows + o
  BY OneMorePush
<1> DEFINE adm == old["admitted"] + 1
           bound == [at |-> old["snapshot"].at, adm |-> adm]
<1>2. /\ new = [f \in Files |-> new[f]] /\ new["admitted"] = adm
      /\ new["slugmap"] = bound /\ new["index"] = bound
      /\ \A f \in Files \ {"admitted", "slugmap", "index"} : new[f] = old[f]
  BY <1>0 DEF Files, Admitting
<1>3. Grew(old, new, o) BY <1>0, <1>1, <1>2 DEF Grew, Since, Files
<1>4. Bound(new) BY <1>2 DEF Bound, Binding, Files
<1>5. /\ new["removals"] = old["removals"] /\ new["era"] = old["era"]
      /\ new["data"] = old["data"]
  BY <1>2 DEF Files
<1>6. /\ new["slugmap"] \in [at : 0..w, adm : 0..(o + 1)]
      /\ new["index"].at = old["index"].at
  BY <1>0, <1>1, <1>2
<1>7. /\ new["slugmap"] = new["index"] /\ new["data"] \in 0..(o + 1)
      /\ new["removals"] \in [redirects : SUBSET Slug, gone : SUBSET Slug]
      /\ new["era"] \in 0..(MaxWindows + (o + 1)) /\ new["admitted"] \in 0..(o + 1)
  BY <1>0, <1>1, <1>2, <1>5
<1>8. Shaped(new) BY <1>2 DEF Shaped
<1>9. Formed(new, w, o + 1) BY <1>3, <1>6, <1>7, <1>8, EditIsFormed DEF Fine
<1>10. Good(new, b)
  <2>1. Good(old, TRUE) BY DEF Fine, Good
  <2>2. Good(new, TRUE) BY <2>1, <1>3, <1>4, <1>6, <1>7, EditIsGood
  <2> QED BY <2>2, <1>3, <1>4, <1>6, <1>7 DEF Good
<1> QED BY <1>3, <1>9, <1>10 DEF Fine

-----------------------------------------------------------------------------
(* Steps.                                                                  *)

LEMMA Bounds ==
  SyncIInv => /\ window \in Nat /\ others \in Nat /\ bare \in BOOLEAN
          /\ window \in 0..MaxWindows /\ main.length \in Nat
BY SyncBounds DEF SyncIInv, Types

LEMMA SyncInitHolds == SyncInit => SyncIInv
<1> SUFFICES ASSUME SyncInit PROVE SyncIInv OBVIOUS
<1>1. Fine(FirstTree, 0, 0, FALSE) BY FirstTreeFine
<1>2. /\ window = 0 /\ others = 0 /\ shipped = 0 /\ bare = FALSE
      /\ main.files = FirstTree /\ main.length = 0 /\ main.skips = FALSE
      /\ run.job = "none" /\ run.step = "green" /\ run.from = FirstTree
      /\ run.base = FirstTree /\ run.onto = 0 /\ run.tree = FirstTree
      /\ run.try = 1 /\ run.lost = "no"
  BY DEF SyncInit
<1>3. Types
  <2>1. /\ main = [files |-> main.files, length |-> main.length, skips |-> main.skips]
        /\ run = [job |-> run.job, step |-> run.step, from |-> run.from, base |-> run.base,
                  onto |-> run.onto, tree |-> run.tree, try |-> run.try, lost |-> run.lost]
    BY DEF SyncInit
  <2>2. 0 \in 0..0 /\ 0 \in 0..MaxWindows /\ 0 \in 0..MaxOthers /\ 1 \in 1..SyncTries
    BY SyncBounds
  <2>3. main.length \in Nat /\ run.onto \in 0..main.length BY <1>2
  <2>6. main.skips \in BOOLEAN BY <1>2, Zenon
  <2>4. /\ run.job \in {"none", "sync", "ship"}
        /\ run.step \in {"checkout", "push", "rejected", "green", "red"}
        /\ run.lost \in {"no", "window", "binding", "conflict", "tries"}
        /\ run.try \in 1..SyncTries
    BY <1>2, <2>2
  <2>5. /\ window \in 0..MaxWindows /\ others \in 0..MaxOthers
        /\ shipped \in 0..others /\ bare \in BOOLEAN
    BY <1>2, <2>2
  <2> QED BY <2>1, <2>3, <2>4, <2>5, <2>6 DEF Types
<1>4. Trees BY <1>1, <1>2 DEF Trees
<1>5. CloneInv /\ SyncInv /\ ShipInv BY <1>2 DEF CloneInv, SyncInv, ShipInv, Working, Syncing
<1>6. ShippedInv /\ WindowShips BY <1>2, FirstTreeIs DEF ShippedInv, WindowShips
<1> QED BY <1>3, <1>4, <1>5, <1>6 DEF SyncIInv

\* What every push by others keeps.
LEMMA OthersStep ==
  ASSUME SyncIInv, NEW new, NEW skips \in BOOLEAN, OthersPush(new, skips),
         Grew(main.files, new, others), Fine(new, window, others + 1, bare'),
         bare' \in BOOLEAN, bare => bare'
  PROVE  SyncIInv'
<1>0. /\ main'.files = new /\ main'.length = main.length + 1 /\ main'.skips = skips
      /\ main' = [files |-> new, length |-> main.length + 1, skips |-> skips]
      /\ others' = others + 1 /\ run' = run /\ window' = window
      /\ shipped' = IF skips THEN shipped ELSE new["data"]
      /\ others < MaxOthers
  BY DEF OthersPush, Land
<1>1. /\ window \in Nat /\ others \in Nat /\ bare \in BOOLEAN /\ main.length \in Nat
      /\ others + 1 \in Nat /\ others <= others + 1 /\ window <= window
  BY Bounds
<1>2. Grew(main.files, new, others) /\ Since(main.files, new) BY DEF Grew
<1>3. Types'
  <2>1. new["data"] \in 0..(others + 1) BY DEF Fine, Formed
  <2>2. shipped' \in 0..(others + 1) BY <1>0, <1>1, <2>1 DEF SyncIInv, Types
  <2>3. others + 1 \in 0..MaxOthers BY <1>0, <1>1, SyncBounds
  <2>4. run.onto \in 0..(main.length + 1) BY <1>1 DEF SyncIInv, Types
  <2> QED BY <1>0, <1>1, <2>2, <2>3, <2>4 DEF SyncIInv, Types
<1>4. Trees'
  <2>1. ASSUME NEW t, Fine(t, window, others, bare)
        PROVE  Fine(t, window, others + 1, bare')
    BY <1>1, <2>1, FineGrows
  <2> QED BY <1>0, <2>1 DEF SyncIInv, Trees
<1>5. CloneInv'
  <2>1. main.length + 1 # run.onto BY <1>1 DEF SyncIInv, Types
  <2> QED BY <1>0, <1>2, <2>1, SinceIsOrder DEF SyncIInv, CloneInv, Working, Syncing
<1>6. SyncInv'
  <2>1. new["snapshot"].at = main.files["snapshot"].at BY <1>2 DEF Since
  <2> QED BY <1>0, <1>2, <2>1, SinceIsOrder DEF SyncIInv, SyncInv, Syncing
<1>7. ShipInv' BY <1>0 DEF SyncIInv, ShipInv, Working
<1>8. /\ main.files["data"] \in Nat /\ new["data"] \in Nat /\ run.from["data"] \in Nat
      /\ main.files["admitted"] \in Nat /\ new["admitted"] \in Nat
      /\ run.from["admitted"] \in Nat /\ run.from["era"] \in 0..(MaxWindows + others)
      /\ new["era"] \in Nat /\ shipped \in Nat
  BY <1>1, SyncBounds DEF SyncIInv, Trees, Types, Fine, Formed
<1>9. main.files["data"] <= new["data"] /\ main.files["admitted"] <= new["admitted"]
  BY DEF Grew
<1>10. ShippedInv' BY <1>0, <1>8, <1>9 DEF SyncIInv, ShippedInv
<1>11. WindowShips'
  <2>1. run.step = "green" => shipped' >= run.from["data"]
    BY <1>0, <1>8, <1>9 DEF SyncIInv, WindowShips, ShippedInv
  <2>2. run.lost = "binding" => new["admitted"] # run.from["admitted"]
    BY <1>8, <1>9 DEF SyncIInv, WindowShips, ShippedInv
  <2>3. run.lost = "conflict" => new["era"] # run.from["era"]
    BY <1>1, <1>8, SyncBounds DEF SyncIInv, WindowShips, Grew
  <2> QED BY <1>0, <2>1, <2>2, <2>3 DEF WindowShips
<1> QED BY <1>3, <1>4, <1>5, <1>6, <1>7, <1>10, <1>11 DEF SyncIInv

LEMMA OthersSteps ==
  ASSUME SyncIInv,
         PublishData \/ PushProduct \/ Admit \/ AdmitAlone \/ StampEra
           \/ (\E s \in Slug : SeedRedirect(s))
  PROVE  SyncIInv'
<1>1. /\ window \in Nat /\ others \in Nat /\ bare \in BOOLEAN
      /\ Fine(main.files, window, others, bare)
  BY Bounds DEF SyncIInv, Trees
<1>2. CASE PublishData
  <2>1. PICK new : new = [main.files EXCEPT !["data"] = @ + 1] OBVIOUS
  <2>2. OthersPush(new, TRUE) /\ bare' = bare BY <1>2, <2>1 DEF PublishData
  <2>3. Fine(new, window, others + 1, bare) /\ Grew(main.files, new, others)
    BY <1>1, <2>1, DataIsFine
  <2> QED BY <1>1, <2>2, <2>3, OthersStep
<1>3. CASE PushProduct
  <2>1. PICK new : new = main.files OBVIOUS
  <2>2. OthersPush(new, FALSE) /\ bare' = bare BY <1>3, <2>1 DEF PushProduct
  <2>3. Fine(new, window, others + 1, bare) /\ Grew(main.files, new, others)
    BY <1>1, <2>1, ProductIsFine
  <2> QED BY <1>1, <2>2, <2>3, OthersStep
<1>4. CASE Admit
  <2>1. PICK new : new = Admitting(main.files) OBVIOUS
  <2>2. OthersPush(new, FALSE) /\ bare' = bare BY <1>4, <2>1 DEF Admit, Admitting
  <2>3. Fine(new, window, others + 1, bare) /\ Grew(main.files, new, others)
    BY <1>1, <2>1, AdmitIsFine
  <2> QED BY <1>1, <2>2, <2>3, OthersStep
<1>5. CASE AdmitAlone
  <2>1. PICK new : new = [main.files EXCEPT !["admitted"] = @ + 1] OBVIOUS
  <2>2. OthersPush(new, FALSE) /\ bare' = TRUE BY <1>5, <2>1 DEF AdmitAlone
  <2>3. Fine(new, window, others + 1, TRUE) /\ Grew(main.files, new, others)
    BY <1>1, <2>1, AloneIsFine
  <2> QED BY <1>1, <2>2, <2>3, OthersStep
<1>6. CASE StampEra
  <2>1. PICK new : new = [main.files EXCEPT !["era"] = MaxWindows + others + 1] OBVIOUS
  <2>2. OthersPush(new, FALSE) /\ bare' = bare BY <1>6, <2>1 DEF StampEra
  <2>3. Fine(new, window, others + 1, bare) /\ Grew(main.files, new, others)
    BY <1>1, <2>1, EraIsFine
  <2> QED BY <1>1, <2>2, <2>3, OthersStep
<1>7. ASSUME NEW s \in Slug, SeedRedirect(s) PROVE SyncIInv'
  <2>1. PICK new : new = [main.files EXCEPT !["removals"].redirects = @ \cup {s}] OBVIOUS
  <2>2. OthersPush(new, FALSE) /\ bare' = bare BY <1>7, <2>1 DEF SeedRedirect
  <2>3. Fine(new, window, others + 1, bare) /\ Grew(main.files, new, others)
    BY <1>1, <2>1, SeedIsFine
  <2> QED BY <1>1, <2>2, <2>3, OthersStep
<1> QED BY <1>2, <1>3, <1>4, <1>5, <1>6, <1>7

\* A step of the run that leaves main alone: what is left to show is the run's own part.
Quiet == UNCHANGED <<main, window, shipped, others, bare>>

LEMMA RunIs ==
  SyncIInv => /\ DOMAIN run = {"job", "step", "from", "base", "onto", "tree", "try", "lost"}
          /\ run = [job |-> run.job, step |-> run.step, from |-> run.from,
                    base |-> run.base, onto |-> run.onto, tree |-> run.tree,
                    try |-> run.try, lost |-> run.lost]
<1> SUFFICES ASSUME SyncIInv
             PROVE  /\ DOMAIN run = {"job", "step", "from", "base", "onto", "tree",
                                     "try", "lost"}
                    /\ run = [job |-> run.job, step |-> run.step, from |-> run.from,
                              base |-> run.base, onto |-> run.onto, tree |-> run.tree,
                              try |-> run.try, lost |-> run.lost]
  OBVIOUS
<1>1. run = [job |-> run.job, step |-> run.step, from |-> run.from,
             base |-> run.base, onto |-> run.onto, tree |-> run.tree,
             try |-> run.try, lost |-> run.lost]
  BY DEF SyncIInv, Types
<1> QED BY <1>1

\* The runner is gone: an ended or a handed-over run stands on nothing.
LEMMA EndedStep ==
  ASSUME SyncIInv, Quiet,
         NEW job \in {"sync", "ship"}, NEW step \in {"checkout", "red"},
         NEW lost \in {"no", "window", "binding", "conflict", "tries"},
         run' = [job |-> job, step |-> step, from |-> run.from, base |-> FirstTree,
                 onto |-> 0, tree |-> FirstTree, try |-> 1, lost |-> lost],
         step = "checkout" => job = "ship",
         lost = "binding" => main.files["admitted"] # run.from["admitted"],
         lost = "conflict" => main.files["era"] # run.from["era"]
  PROVE  SyncIInv'
<1>1. /\ run'.job = job /\ run'.step = step /\ run'.from = run.from
      /\ run'.base = FirstTree /\ run'.tree = FirstTree /\ run'.onto = 0
      /\ run'.try = 1 /\ run'.lost = lost
  OBVIOUS
<1>2. /\ window \in Nat /\ others \in Nat /\ bare \in BOOLEAN /\ main.length \in Nat BY Bounds
<1>3. Types'
  <2>1. 0 \in 0..main.length /\ 1 \in 1..SyncTries BY <1>2, SyncBounds
  <2> QED BY <1>1, <2>1 DEF SyncIInv, Types, Quiet
<1>4. Trees'
  <2>1. Fine(FirstTree, window, others, bare) BY <1>2, FirstTreeFine
  <2> QED BY <1>1, <2>1 DEF SyncIInv, Trees, Quiet
<1>5. CloneInv' /\ SyncInv' /\ ShipInv'
  BY <1>1 DEF CloneInv, SyncInv, ShipInv, Working, Syncing
<1>6. ShippedInv' BY <1>1 DEF SyncIInv, ShippedInv, Quiet
<1>7. WindowShips' BY <1>1 DEF WindowShips, Quiet
<1> QED BY <1>3, <1>4, <1>5, <1>6, <1>7 DEF SyncIInv

\* What Ended leaves of the run.
LEMMA EndedIs ==
  ASSUME SyncIInv, NEW job, NEW step, NEW lost
  PROVE  /\ [Ended(job, step) EXCEPT !.lost = lost]
              = [job |-> job, step |-> step, from |-> run.from, base |-> FirstTree,
                 onto |-> 0, tree |-> FirstTree, try |-> 1, lost |-> lost]
         /\ Ended(job, step)
              = [job |-> job, step |-> step, from |-> run.from, base |-> FirstTree,
                 onto |-> 0, tree |-> FirstTree, try |-> 1, lost |-> run.lost]
<1> DEFINE e == Ended(job, step)
<1>1. /\ DOMAIN e = {"job", "step", "from", "base", "onto", "tree", "try", "lost"}
      /\ e = [x \in DOMAIN e |-> e[x]]
  BY RunIs DEF Ended
<1>2. /\ e.job = job /\ e.step = step /\ e.from = run.from /\ e.base = FirstTree
      /\ e.onto = 0 /\ e.tree = FirstTree /\ e.try = 1 /\ e.lost = run.lost
  BY RunIs DEF Ended
<1> HIDE DEF e
<1>3. e = [job |-> job, step |-> step, from |-> run.from, base |-> FirstTree,
           onto |-> 0, tree |-> FirstTree, try |-> 1, lost |-> run.lost]
  BY <1>1, <1>2
<1>4. [e EXCEPT !.lost = lost]
        = [job |-> job, step |-> step, from |-> run.from, base |-> FirstTree,
           onto |-> 0, tree |-> FirstTree, try |-> 1, lost |-> lost]
  BY <1>3
<1> QED BY <1>3, <1>4 DEF e

\* The sync job gives up, for a reason that is the reason.
LEMMA SyncFailsStep ==
  ASSUME SyncIInv, NEW why \in {"window", "binding", "conflict", "tries"}, SyncFails(why),
         why = "binding" => main.files["admitted"] # run.from["admitted"],
         why = "conflict" => main.files["era"] # run.from["era"]
  PROVE  SyncIInv'
<1>1. Quiet BY DEF SyncFails, Elsewhere, Quiet
<1>2. run' = [job |-> "ship", step |-> "checkout", from |-> run.from, base |-> FirstTree,
              onto |-> 0, tree |-> FirstTree, try |-> 1, lost |-> why]
  BY EndedIs DEF SyncFails
<1> QED BY <1>1, <1>2, EndedStep

\* ship-pending ends red.
LEMMA ShipRedStep ==
  ASSUME SyncIInv, run' = Ended("ship", "red"), Quiet
  PROVE  SyncIInv'
<1>1. PICK lost \in {"no", "window", "binding", "conflict", "tries"} : lost = run.lost
  BY DEF SyncIInv, Types
<1>2. run' = [job |-> "ship", step |-> "red", from |-> run.from, base |-> FirstTree,
              onto |-> 0, tree |-> FirstTree, try |-> 1, lost |-> lost]
  BY <1>1, EndedIs
<1>3. /\ lost = "binding" => main.files["admitted"] # run.from["admitted"]
      /\ lost = "conflict" => main.files["era"] # run.from["era"]
  BY <1>1 DEF SyncIInv, WindowShips
<1> QED BY <1>2, <1>3, EndedStep

LEMMA StartStep == SyncIInv /\ StartWindow => SyncIInv'
<1> SUFFICES ASSUME SyncIInv, StartWindow PROVE SyncIInv' OBVIOUS
<1>1. /\ window' = window + 1 /\ main' = main /\ shipped' = shipped
      /\ others' = others /\ bare' = bare /\ window < MaxWindows
      /\ run' = [job |-> "sync", step |-> "checkout", from |-> main.files,
                 base |-> main.files, onto |-> main.length, tree |-> main.files,
                 try |-> 1, lost |-> "no"]
  BY DEF StartWindow, Elsewhere
<1>2. /\ window \in Nat /\ others \in Nat /\ bare \in BOOLEAN /\ main.length \in Nat
      /\ window + 1 \in Nat /\ window <= window + 1 /\ others <= others
      /\ window + 1 \in 0..MaxWindows
  BY <1>1, Bounds, SyncBounds
<1>3. Types'
  <2>1. main.length \in 0..main.length /\ 1 \in 1..SyncTries BY <1>2, SyncBounds
  <2> QED BY <1>1, <1>2, <2>1 DEF SyncIInv, Types
<1>4. Trees'
  <2>1. Fine(main.files, window, others, bare) BY DEF SyncIInv, Trees
  <2>2. Fine(main.files, window + 1, others, bare) BY <1>2, <2>1, FineGrows
  <2> QED BY <1>1, <2>2 DEF Trees
<1>5. /\ main.files["data"] \in Nat /\ main.files["admitted"] \in Nat
      /\ main.files["snapshot"].at \in 0..window
  BY <1>2 DEF SyncIInv, Trees, Fine, Formed
<1>6. CloneInv' BY <1>1, <1>5, SinceIsOrder DEF CloneInv
<1>7. SyncInv'
  <2>1. main.files["snapshot"].at < window + 1 BY <1>2, <1>5
  <2> QED BY <1>1, <2>1, SinceIsOrder DEF SyncInv
<1>8. ShipInv' BY <1>1 DEF ShipInv, Working
<1>9. ShippedInv' /\ WindowShips' BY <1>1, <1>5 DEF SyncIInv, ShippedInv, WindowShips
<1> QED BY <1>3, <1>4, <1>6, <1>7, <1>8, <1>9 DEF SyncIInv

LEMMA RefreshStep == SyncIInv /\ Refresh => SyncIInv'
<1> SUFFICES ASSUME SyncIInv, Refresh PROVE SyncIInv' OBVIOUS
<1>1. run.job = "sync" /\ run.step = "checkout" /\ Quiet BY DEF Refresh, Elsewhere, Quiet
<1>2. PICK listed \in [Slug -> Status],
           era \in {run.tree["era"], window}, indexable \in {run.tree["indexable"], window} :
        run' = [run EXCEPT !.step = "push",
                           !.tree = Committed(run.tree, Refreshed(run.tree, window, listed,
                                                                  era, indexable))]
  BY DEF Refresh
<1> PICK new : new = Committed(run.tree, Refreshed(run.tree, window, listed, era, indexable))
  OBVIOUS
<1>3. /\ run.tree = run.from /\ run.base = run.from /\ run.lost = "no"
      /\ Since(run.from, main.files) /\ main.files["snapshot"].at < window
  BY <1>1 DEF SyncIInv, SyncInv, Syncing
<1>4. /\ run'.job = "sync" /\ run'.step = "push" /\ run'.from = run.from
      /\ run'.base = run.base /\ run'.onto = run.onto /\ run'.tree = new
      /\ run'.try = run.try /\ run'.lost = run.lost
      /\ run' = [job |-> "sync", step |-> "push", from |-> run.from, base |-> run.base,
                 onto |-> run.onto, tree |-> new, try |-> run.try, lost |-> run.lost]
  BY <1>1, <1>2, RunIs
<1>5. /\ window \in 0..MaxWindows /\ others \in Nat /\ bare \in BOOLEAN
      /\ Fine(run.tree, window, others, bare)
  BY Bounds DEF SyncIInv, Trees
<1>6. Fine(new, window, others, bare) /\ Synced(run.tree, run.tree, new, window)
  <2>1. Refreshing(run.tree, window, others, bare, listed, era, indexable, new)
    BY <1>2, <1>5 DEF Refreshing
  <2> QED BY <2>1, CommitIsFine
<1>7. new["admitted"] = run.tree["admitted"] /\ new["data"] = run.tree["data"]
  BY <1>2 DEF Committed, Files, Staged
<1>8. Types' BY <1>1, <1>4 DEF SyncIInv, Types, Quiet
<1>9. Trees' BY <1>1, <1>4, <1>6 DEF SyncIInv, Trees, Quiet
<1>10. CloneInv' BY <1>1, <1>3, <1>4, <1>7 DEF SyncIInv, CloneInv, Working, Syncing, Quiet
<1>11. SyncInv' BY <1>1, <1>3, <1>4, <1>6 DEF SyncInv, Syncing, Quiet
<1>12. ShipInv' BY <1>4 DEF ShipInv
<1>13. ShippedInv' /\ WindowShips' BY <1>1, <1>3, <1>4 DEF SyncIInv, ShippedInv, WindowShips, Quiet
<1> QED BY <1>8, <1>9, <1>10, <1>11, <1>12, <1>13 DEF SyncIInv

LEMMA PushStep == SyncIInv /\ Push => SyncIInv'
<1> SUFFICES ASSUME SyncIInv, Push PROVE SyncIInv' OBVIOUS
<1>1. /\ run.step = "push" /\ main.length = run.onto
      /\ main' = [files |-> run.tree, length |-> main.length + 1, skips |-> FALSE]
      /\ shipped' = run.tree["data"]
      /\ run' = Ended(run.job, "green")
      /\ UNCHANGED <<window, others, bare>>
  BY DEF Push, Land, Elsewhere
<1>2. /\ run' = [job |-> run.job, step |-> "green", from |-> run.from, base |-> FirstTree,
                 onto |-> 0, tree |-> FirstTree, try |-> 1, lost |-> run.lost]
      /\ run'.job = run.job /\ run'.step = "green" /\ run'.from = run.from
      /\ run'.base = FirstTree /\ run'.tree = FirstTree /\ run'.onto = 0
      /\ run'.try = 1 /\ run'.lost = run.lost
      /\ main'.files = run.tree /\ main'.length = main.length + 1 /\ main'.skips = FALSE
  <2>1. run' = [job |-> run.job, step |-> "green", from |-> run.from, base |-> FirstTree,
                onto |-> 0, tree |-> FirstTree, try |-> 1, lost |-> run.lost]
    BY <1>1, EndedIs
  <2> QED BY <1>1, <2>1
<1>3. /\ window \in Nat /\ others \in Nat /\ bare \in BOOLEAN /\ main.length \in Nat BY Bounds
<1>4. /\ main.files = run.base
      /\ run.tree["admitted"] = run.base["admitted"] /\ run.tree["data"] = run.base["data"]
      /\ run.from["data"] <= run.base["data"] /\ run.from["admitted"] <= run.base["admitted"]
  BY <1>1 DEF SyncIInv, CloneInv, Working
<1>5. run.tree["data"] \in 0..others /\ run.from["data"] \in Nat
  BY <1>3 DEF SyncIInv, Trees, Fine, Formed
<1>6. Types'
  <2>1. 0 \in 0..(main.length + 1) /\ 1 \in 1..SyncTries /\ main.length + 1 \in Nat
    BY <1>3, SyncBounds
  <2> QED BY <1>1, <1>2, <1>5, <2>1 DEF SyncIInv, Types
<1>7. Trees'
  <2>1. Fine(FirstTree, window, others, bare) BY <1>3, FirstTreeFine
  <2> QED BY <1>1, <1>2, <2>1 DEF SyncIInv, Trees
<1>8. CloneInv' /\ SyncInv' /\ ShipInv'
  BY <1>2 DEF CloneInv, SyncInv, ShipInv, Working, Syncing
<1>9. ShippedInv' BY <1>1, <1>2, <1>4, <1>5, <1>3 DEF ShippedInv
<1>10. WindowShips'
  <2>1. shipped' >= run.from["data"] BY <1>1, <1>3, <1>4, <1>5
  <2>2. CASE run.job = "sync"
    <3>1. run.lost = "no" BY <1>1, <2>2 DEF SyncIInv, SyncInv, Syncing
    <3> QED BY <1>2, <2>1, <3>1 DEF WindowShips
  <2>3. CASE run.job = "ship"
    <3>1. run.tree["era"] = run.base["era"]
      BY <1>1, <2>3 DEF SyncIInv, ShipInv, Working, OnlyStamped, Files
    <3> QED BY <1>2, <1>4, <2>1, <3>1 DEF SyncIInv, WindowShips
  <2> QED BY <1>1, <2>2, <2>3 DEF SyncIInv, ShipInv
<1> QED BY <1>6, <1>7, <1>8, <1>9, <1>10 DEF SyncIInv

LEMMA PushRejectedStep == SyncIInv /\ PushRejected => SyncIInv'
<1> SUFFICES ASSUME SyncIInv, PushRejected PROVE SyncIInv' OBVIOUS
<1>1. run.step = "push" /\ Quiet BY DEF PushRejected, Elsewhere, Quiet
<1>2. /\ run' = [job |-> run.job, step |-> "rejected", from |-> run.from, base |-> run.base,
                 onto |-> run.onto, tree |-> run.tree, try |-> run.try, lost |-> run.lost]
      /\ run'.job = run.job /\ run'.step = "rejected" /\ run'.from = run.from
      /\ run'.base = run.base /\ run'.tree = run.tree /\ run'.onto = run.onto
      /\ run'.try = run.try /\ run'.lost = run.lost
  BY RunIs DEF PushRejected
<1>3. Types' BY <1>1, <1>2 DEF SyncIInv, Types, Quiet
<1>4. Trees' BY <1>1, <1>2 DEF SyncIInv, Trees, Quiet
<1>5. CloneInv' BY <1>1, <1>2 DEF SyncIInv, CloneInv, Working, Syncing, Quiet
<1>6. SyncInv' BY <1>1, <1>2 DEF SyncIInv, SyncInv, Syncing, Quiet
<1>7. ShipInv' BY <1>1, <1>2 DEF SyncIInv, ShipInv, Working
<1>8. ShippedInv' /\ WindowShips' BY <1>1, <1>2 DEF SyncIInv, ShippedInv, WindowShips, Quiet
<1> QED BY <1>3, <1>4, <1>5, <1>6, <1>7, <1>8 DEF SyncIInv

\* What TryAgain makes of the run.
LEMMA AgainIs ==
  ASSUME SyncIInv, NEW clash, TryAgain(clash)
  PROVE  \E new :
           /\ new = Replayed(run.base, run.tree, main.files, clash)
           /\ run' = [job |-> run.job, step |-> "push", from |-> run.from,
                      base |-> main.files, onto |-> main.length, tree |-> new,
                      try |-> run.try + 1, lost |-> run.lost]
<1>1. PICK new : new = Replayed(run.base, run.tree, main.files, clash) OBVIOUS
<1>2. run' = [run EXCEPT !.step = "push", !.try = run.try + 1, !.onto = main.length,
                         !.base = main.files, !.tree = new]
  BY <1>1 DEF TryAgain
<1>3. run' = [job |-> run.job, step |-> "push", from |-> run.from,
              base |-> main.files, onto |-> main.length, tree |-> new,
              try |-> run.try + 1, lost |-> run.lost]
  BY <1>2, RunIs
<1> QED BY <1>1, <1>3

\* git finished the rebase alone, or the sync job took its side and the bindings hold.
Finished(clash) ==
  /\ clash \subseteq Resolved
  /\ \/ clash = {}
     \/ run.job = "sync" /\ Bound(Replayed(run.base, run.tree, main.files, clash))

\* The loop goes on with a commit that is as good as the one before.
LEMMA AgainStep ==
  ASSUME SyncIInv, NEW clash \in Clashes, TryAgain(clash), run.step = "rejected",
         Finished(clash)
  PROVE  SyncIInv'
<1>1. /\ Quiet /\ run.try < Tries /\ run.job \in {"sync", "ship"}
  BY DEF TryAgain, Elsewhere, Quiet, SyncIInv, ShipInv
<1>2. PICK new :
        /\ new = Replayed(run.base, run.tree, main.files, clash)
        /\ run' = [job |-> run.job, step |-> "push", from |-> run.from,
                   base |-> main.files, onto |-> main.length, tree |-> new,
                   try |-> run.try + 1, lost |-> run.lost]
  BY AgainIs
<1>3. /\ run'.job = run.job /\ run'.step = "push" /\ run'.from = run.from
      /\ run'.base = main.files /\ run'.tree = new /\ run'.onto = main.length
      /\ run'.try = run.try + 1 /\ run'.lost = run.lost
  BY <1>2
<1>4. /\ window \in Nat /\ others \in Nat /\ bare \in BOOLEAN /\ main.length \in Nat BY Bounds
<1>5. /\ Fine(main.files, window, others, bare) /\ Fine(run.base, window, others, bare)
      /\ Fine(run.tree, window, others, bare)
  BY DEF SyncIInv, Trees
<1>6. clash \in Clash(run.base, run.tree, main.files) BY DEF Clashes, Clash
<1>7. /\ Fine(new, window, others, bare)
      /\ new["admitted"] = main.files["admitted"] /\ new["data"] = main.files["data"]
      /\ run.job = "sync" => Synced(run.from, main.files, new, window)
      /\ run.job = "ship" => OnlyStamped(main.files, new)
  <2>1. CASE run.job = "sync"
    <3>1. /\ Since(run.from, main.files) /\ Since(run.base, main.files)
          /\ main.files["snapshot"].at < window
          /\ Synced(run.from, run.base, run.tree, window)
          /\ run.tree["admitted"] = run.base["admitted"]
          /\ run.tree["data"] = run.base["data"]
      BY <2>1 DEF SyncIInv, SyncInv, CloneInv, Syncing
    <3>2. /\ Formed(new, window, others)
          /\ new["admitted"] = main.files["admitted"] /\ new["data"] = main.files["data"]
          /\ clash \subseteq Resolved => Synced(run.from, main.files, new, window)
          /\ clash = {} \/ Bound(new) => Good(new, bare)
          /\ ~Bound(new) => main.files["admitted"] # run.from["admitted"]
          /\ ~(clash \subseteq Resolved) => main.files["era"] # run.from["era"]
      BY <1>2, <1>4, <1>5, <1>6, <3>1, SyncReplay
    <3>3. clash \subseteq Resolved /\ (clash = {} \/ Bound(new)) BY <1>2 DEF Finished
    <3>4. Fine(new, window, others, bare) BY <3>2, <3>3 DEF Fine
    <3>5. /\ new["admitted"] = main.files["admitted"] /\ new["data"] = main.files["data"]
          /\ Synced(run.from, main.files, new, window)
      BY <3>2, <3>3
    <3> QED BY <2>1, <3>4, <3>5
  <2>2. CASE run.job = "ship"
    <3>1. OnlyStamped(run.base, run.tree) BY <2>2 DEF SyncIInv, ShipInv, Working
    <3>2. Formed(run.tree, window, others) BY <1>5 DEF Fine
    <3>3. Fine(new, window, others, bare) /\ OnlyStamped(main.files, new)
      BY <1>2, <1>4, <1>5, <1>6, <3>1, <3>2, ShipReplay
    <3> QED BY <2>2, <3>3 DEF OnlyStamped, Files
  <2> QED BY <1>1, <2>1, <2>2
<1>8. Types'
  <2>1. run.try + 1 \in 1..SyncTries \/ run.try + 1 \in 1..ShipTries
    BY <1>1, SyncBounds DEF SyncIInv, Types, Tries
  <2>2. main.length \in 0..main.length BY <1>4
  <2> QED BY <1>1, <1>2, <1>3, <2>1, <2>2 DEF SyncIInv, Types, Quiet
<1>9. Trees' BY <1>1, <1>3, <1>5, <1>7 DEF SyncIInv, Trees, Quiet
<1>10. CloneInv' BY <1>1, <1>3, <1>7, SinceIsOrder DEF SyncIInv, CloneInv, ShippedInv, Quiet
<1>11. SyncInv'
  <2>1. CASE run.job = "sync"
    <3>1. Since(run.from, main.files) /\ main.files["snapshot"].at < window /\ run.lost = "no"
      BY <2>1 DEF SyncIInv, SyncInv, Syncing
    <3> QED BY <1>1, <1>3, <1>7, <2>1, <3>1 DEF SyncInv, Syncing, Quiet
  <2>2. CASE run.job = "ship" BY <1>3, <2>2 DEF SyncInv, Syncing
  <2> QED BY <1>1, <2>1, <2>2
<1>12. ShipInv' BY <1>1, <1>3, <1>7 DEF ShipInv
<1>13. ShippedInv' /\ WindowShips' BY <1>1, <1>3 DEF SyncIInv, ShippedInv, WindowShips, Quiet
<1> QED BY <1>8, <1>9, <1>10, <1>11, <1>12, <1>13 DEF SyncIInv

LEMMA RebaseStep == SyncIInv /\ (CleanRebase \/ ResolvedRebase) => SyncIInv'
<1>1. ASSUME SyncIInv, CleanRebase PROVE SyncIInv'
  <2>1. {} \in Clashes /\ TryAgain({}) /\ run.step = "rejected" BY <1>1 DEF CleanRebase
  <2>2. PICK clash \in Clashes : clash = {} /\ TryAgain(clash) BY <2>1
  <2>3. Finished(clash) BY <2>2 DEF Finished
  <2>4. TryAgain(clash) BY <2>2
  <2> QED BY <1>1, <2>1, <2>3, <2>4, AgainStep
<1>2. ASSUME SyncIInv, ResolvedRebase PROVE SyncIInv'
  <2>1. PICK clash \in Clashes :
          /\ clash \subseteq Resolved
          /\ Bound(Replayed(run.base, run.tree, main.files, clash))
          /\ TryAgain(clash)
    BY <1>2 DEF ResolvedRebase
  <2>2. run.job = "sync" /\ run.step = "rejected" BY <1>2 DEF ResolvedRebase
  <2>3. Finished(clash) BY <2>1, <2>2 DEF Finished
  <2> QED BY <1>2, <2>1, <2>2, <2>3, AgainStep
<1> QED BY <1>1, <1>2

\* A snapshot is thrown away only when somebody moved admitted.json or the era.
LEMMA ThrownAway ==
  ASSUME SyncIInv, run.job = "sync", run.step = "rejected", NEW clash \in Clashes
  PROVE  /\ ~Bound(Replayed(run.base, run.tree, main.files, clash))
              => main.files["admitted"] # run.from["admitted"]
         /\ ~(clash \subseteq Resolved) => main.files["era"] # run.from["era"]
<1>1. PICK new : new = Replayed(run.base, run.tree, main.files, clash) OBVIOUS
<1>2. /\ window \in Nat /\ others \in Nat /\ bare \in BOOLEAN
      /\ Fine(main.files, window, others, bare) /\ Fine(run.base, window, others, bare)
      /\ Fine(run.tree, window, others, bare)
  BY Bounds DEF SyncIInv, Trees
<1>3. clash \in Clash(run.base, run.tree, main.files) BY DEF Clashes, Clash
<1>4. /\ Since(run.from, main.files) /\ Since(run.base, main.files)
      /\ main.files["snapshot"].at < window
      /\ Synced(run.from, run.base, run.tree, window)
      /\ run.tree["admitted"] = run.base["admitted"]
      /\ run.tree["data"] = run.base["data"]
  BY DEF SyncIInv, SyncInv, CloneInv, Syncing
<1>5. /\ Formed(new, window, others)
      /\ new["admitted"] = main.files["admitted"] /\ new["data"] = main.files["data"]
      /\ clash \subseteq Resolved => Synced(run.from, main.files, new, window)
      /\ clash = {} \/ Bound(new) => Good(new, bare)
      /\ ~Bound(new) => main.files["admitted"] # run.from["admitted"]
      /\ ~(clash \subseteq Resolved) => main.files["era"] # run.from["era"]
  BY <1>1, <1>2, <1>3, <1>4, SyncReplay
<1> QED BY <1>1, <1>5

LEMMA LostSteps ==
  SyncIInv /\ (WindowLost \/ BindingsBroke \/ RebaseAborts \/ OutOfTries \/ ShipLost) => SyncIInv'
<1>1. ASSUME SyncIInv, WindowLost PROVE SyncIInv'
  BY <1>1, SyncFailsStep DEF WindowLost
<1>2. ASSUME SyncIInv, BindingsBroke PROVE SyncIInv'
  <2>1. main.files["admitted"] # run.from["admitted"]
    BY <1>2, ThrownAway DEF BindingsBroke
  <2> QED BY <1>2, <2>1, SyncFailsStep DEF BindingsBroke
<1>3. ASSUME SyncIInv, RebaseAborts PROVE SyncIInv'
  <2>1. main.files["era"] # run.from["era"] BY <1>3, ThrownAway DEF RebaseAborts
  <2> QED BY <1>3, <2>1, SyncFailsStep DEF RebaseAborts
<1>4. ASSUME SyncIInv, OutOfTries PROVE SyncIInv'
  <2>1. CASE SyncFails("tries") BY <1>4, <2>1, SyncFailsStep
  <2>2. CASE run' = Ended("ship", "red") /\ Quiet BY <1>4, <2>2, ShipRedStep
  <2> QED BY <1>4, <2>1, <2>2 DEF OutOfTries, Elsewhere, Quiet
<1>5. ASSUME SyncIInv, ShipLost PROVE SyncIInv'
  BY <1>5, ShipRedStep DEF ShipLost, Elsewhere, Quiet
<1> QED BY <1>1, <1>2, <1>3, <1>4, <1>5

LEMMA NothingStep == SyncIInv /\ NothingPending => SyncIInv'
<1> SUFFICES ASSUME SyncIInv, NothingPending PROVE SyncIInv' OBVIOUS
<1>1. run.job = "ship" /\ run.step = "checkout" /\ ~main.skips /\ Quiet
  BY DEF NothingPending, Elsewhere, Quiet
<1>2. /\ run' = [job |-> "ship", step |-> "green", from |-> run.from, base |-> run.base,
                 onto |-> run.onto, tree |-> run.tree, try |-> run.try, lost |-> run.lost]
      /\ run'.job = "ship" /\ run'.step = "green" /\ run'.from = run.from
      /\ run'.base = run.base /\ run'.tree = run.tree /\ run'.onto = run.onto
      /\ run'.try = run.try /\ run'.lost = run.lost
  BY <1>1, RunIs DEF NothingPending
<1>3. Types' BY <1>1, <1>2 DEF SyncIInv, Types, Quiet
<1>4. Trees' BY <1>1, <1>2 DEF SyncIInv, Trees, Quiet
<1>5. CloneInv' /\ SyncInv' /\ ShipInv'
  BY <1>2 DEF CloneInv, SyncInv, ShipInv, Working, Syncing
<1>6. ShippedInv' BY <1>1, <1>2 DEF SyncIInv, ShippedInv, Quiet
<1>7. main.files["data"] \in Nat /\ run.from["data"] \in Nat
  BY Bounds DEF SyncIInv, Trees, Fine, Formed
<1>8. WindowShips' BY <1>1, <1>2, <1>7 DEF SyncIInv, WindowShips, ShippedInv, Quiet
<1> QED BY <1>3, <1>4, <1>5, <1>6, <1>8 DEF SyncIInv

LEMMA StampStep == SyncIInv /\ StampPending => SyncIInv'
<1> SUFFICES ASSUME SyncIInv, StampPending PROVE SyncIInv' OBVIOUS
<1>1. run.job = "ship" /\ run.step = "checkout" /\ Quiet
  BY DEF StampPending, Elsewhere, Quiet
<1>2. PICK new : new = [main.files EXCEPT !["stamp"] = window] OBVIOUS
<1>3. /\ window \in Nat /\ others \in Nat /\ bare \in BOOLEAN /\ main.length \in Nat
      /\ Fine(main.files, window, others, bare)
  BY Bounds DEF SyncIInv, Trees
<1>4. run' = [run EXCEPT !.step = "push", !.try = 1, !.onto = main.length,
                         !.base = main.files, !.tree = new]
  BY <1>2 DEF StampPending
<1>5. run' = [job |-> "ship", step |-> "push", from |-> run.from, base |-> main.files,
              onto |-> main.length, tree |-> new, try |-> 1, lost |-> run.lost]
  BY <1>1, <1>4, RunIs
<1>6. /\ run'.job = "ship" /\ run'.step = "push" /\ run'.from = run.from
      /\ run'.base = main.files /\ run'.tree = new /\ run'.onto = main.length
      /\ run'.try = 1 /\ run'.lost = run.lost
  BY <1>5
<1>7. /\ Shaped(new) /\ OnlyStamped(main.files, new) /\ new["stamp"] = window
  <2>1. main.files = [f \in Files |-> main.files[f]] BY <1>3 DEF Fine, Formed
  <2>2. new = [f \in Files |-> IF f = "stamp" THEN window ELSE main.files[f]]
    BY <1>2, <2>1
  <2>3. Shaped(new) BY <2>2 DEF Shaped
  <2> QED BY <2>2, <2>3 DEF OnlyStamped, Files
<1>8. Fine(new, window, others, bare)
  <2>1. new["stamp"] \in 0..window BY <1>3, <1>7
  <2> QED BY <1>3, <1>7, <2>1, StampedIsFine
<1>9. Types'
  <2>1. main.length \in 0..main.length /\ 1 \in 1..SyncTries BY <1>3, SyncBounds
  <2> QED BY <1>1, <1>5, <1>6, <2>1 DEF SyncIInv, Types, Quiet
<1>10. Trees' BY <1>1, <1>3, <1>6, <1>8 DEF SyncIInv, Trees, Quiet
<1>11. new["admitted"] = main.files["admitted"] /\ new["data"] = main.files["data"]
  BY <1>7 DEF OnlyStamped, Files
<1>12. CloneInv' BY <1>1, <1>6, <1>11, SinceIsOrder DEF SyncIInv, CloneInv, ShippedInv, Quiet
<1>13. SyncInv' BY <1>6 DEF SyncInv, Syncing
<1>14. ShipInv' BY <1>6, <1>7 DEF ShipInv
<1>15. ShippedInv' /\ WindowShips' BY <1>1, <1>6 DEF SyncIInv, ShippedInv, WindowShips, Quiet
<1> QED BY <1>9, <1>10, <1>12, <1>13, <1>14, <1>15 DEF SyncIInv

LEMMA StutterStep == SyncIInv /\ UNCHANGED syncVars => SyncIInv'
<1> SUFFICES ASSUME SyncIInv, UNCHANGED syncVars PROVE SyncIInv' OBVIOUS
<1>1. /\ main' = main /\ run' = run /\ window' = window /\ others' = others
      /\ shipped' = shipped /\ bare' = bare
  BY DEF syncVars
<1>2. Types' BY <1>1 DEF SyncIInv, Types
<1>3. Trees' BY <1>1 DEF SyncIInv, Trees
<1>4. CloneInv' BY <1>1 DEF SyncIInv, CloneInv, Working, Syncing
<1>5. SyncInv' BY <1>1 DEF SyncIInv, SyncInv, Syncing
<1>6. ShipInv' BY <1>1 DEF SyncIInv, ShipInv, Working
<1>7. ShippedInv' /\ WindowShips' BY <1>1 DEF SyncIInv, ShippedInv, WindowShips
<1> QED BY <1>2, <1>3, <1>4, <1>5, <1>6, <1>7 DEF SyncIInv
-----------------------------------------------------------------------------
LEMMA IInvInductive == SyncIInv /\ [SyncNext]_syncVars => SyncIInv'
<1> SUFFICES ASSUME SyncIInv, [SyncNext]_syncVars PROVE SyncIInv' OBVIOUS
<1>1. CASE PublishData \/ PushProduct \/ Admit \/ AdmitAlone \/ StampEra
             \/ (\E s \in Slug : SeedRedirect(s))
  BY <1>1, OthersSteps
<1>2. CASE StartWindow BY <1>2, StartStep
<1>3. CASE Refresh BY <1>3, RefreshStep
<1>4. CASE Push BY <1>4, PushStep
<1>5. CASE PushRejected BY <1>5, PushRejectedStep
<1>6. CASE CleanRebase \/ ResolvedRebase BY <1>6, RebaseStep
<1>7. CASE WindowLost \/ BindingsBroke \/ RebaseAborts \/ OutOfTries \/ ShipLost
  BY <1>7, LostSteps
<1>8. CASE NothingPending BY <1>8, NothingStep
<1>9. CASE StampPending BY <1>9, StampStep
<1>10. CASE UNCHANGED syncVars BY <1>10, StutterStep
<1> QED BY <1>1, <1>2, <1>3, <1>4, <1>5, <1>6, <1>7, <1>8, <1>9, <1>10 DEF SyncNext

LEMMA SyncIInvHolds == SyncSpec => []SyncIInv
BY SyncInitHolds, IInvInductive, PTL DEF SyncSpec

LEMMA FormedIsWellFormed ==
  ASSUME NEW t, NEW w \in 0..MaxWindows, NEW o \in 0..MaxOthers, Formed(t, w, o)
  PROVE  DOMAIN t = Files /\ WellFormed(t)
<1>1. /\ w \in Nat /\ o \in Nat /\ w <= MaxWindows /\ o <= MaxOthers
      /\ MaxWindows \in Nat /\ MaxOthers \in Nat
  BY SyncBounds
<1>2. Formed(t, MaxWindows, MaxOthers) BY <1>1, FormedGrows
<1> QED BY <1>2 DEF Formed, WellFormed

\* Type correctness: every clone is a whole tree of data files whose versions are among
\* those written so far, and a run never stands on a commit main does not have.
THEOREM SyncTypeCorrect == SyncSpec => []SyncTypeOK
<1>1. SyncIInv => SyncTypeOK
  <2> SUFFICES ASSUME SyncIInv PROVE SyncTypeOK OBVIOUS
  <2>1. /\ window \in 0..MaxWindows /\ others \in 0..MaxOthers
        /\ Formed(main.files, window, others) /\ Formed(run.from, window, others)
        /\ Formed(run.base, window, others) /\ Formed(run.tree, window, others)
    BY DEF SyncIInv, Types, Trees, Fine
  <2>2. \A tree \in {main.files, run.from, run.base, run.tree} :
          DOMAIN tree = Files /\ WellFormed(tree)
    BY <2>1, FormedIsWellFormed
  <2>3. /\ main.skips \in BOOLEAN /\ run.onto <= main.length
        /\ run.job \in {"none", "sync", "ship"}
        /\ run.step \in {"checkout", "push", "rejected", "green", "red"}
        /\ run.try \in 1..SyncTries \/ run.try \in 1..ShipTries
        /\ run.lost \in {"no", "window", "binding", "conflict", "tries"}
        /\ window \in 0..MaxWindows /\ others \in 0..MaxOthers /\ bare \in BOOLEAN
    BY DEF SyncIInv, Types
  <2>4. shipped \in 0..MaxOthers BY SyncBounds DEF SyncIInv, Types
  <2> QED BY <2>2, <2>3, <2>4 DEF SyncTypeOK
<1> QED BY <1>1, SyncIInvHolds, PTL

\* Whatever is pushed while a window runs, and however often its push is rejected and
\* rebased: the slug map and the index on main were built together from the snapshot
\* beside them (and from the admitted.json beside them, until somebody pushes that alone);
\* no active server is answered 410 and none that left is a soft 404; a green window has
\* shipped the data that waited for it, and a fetched snapshot is thrown away only when
\* somebody moved admitted.json or the era reading (sync-registry.yml, sync-registry.mjs).
THEOREM SyncAlwaysHolds == SyncSpec => []SyncHolds
<1>1. SyncIInv => SyncHolds
  <2> SUFFICES ASSUME SyncIInv PROVE SyncHolds OBVIOUS
  <2>1. Good(main.files, bare) /\ WindowShips BY DEF SyncIInv, Trees, Fine
  <2>2. FilesAgree BY <2>1 DEF Good, FilesAgree
  <2>3. GoneIsHonest BY <2>1 DEF Good, GoneIsHonest, ActiveNeverGone, VanishedIsAnswered
  <2> QED BY <2>1, <2>2, <2>3 DEF SyncHolds
<1> QED BY <1>1, SyncIInvHolds, PTL

\* The push of a window never reverts what others pushed while it ran: admitted.json and
\* the skipped data are theirs, the era reading is theirs or had not moved, and a seeded
\* redirect is lost only together with a change of the gone slugs.
THEOREM OthersWorkIsKept == SyncSpec => KeepsOthersWork
<1> DEFINE Kept ==
      SyncPush =>
        /\ main'.files["admitted"] = main.files["admitted"]
        /\ main'.files["data"] = main.files["data"]
        /\ \/ main'.files["era"] = main.files["era"]
           \/ main.files["era"] = run.from["era"]
        /\ \/ main.files["removals"].redirects \subseteq main'.files["removals"].redirects
           \/ run.tree["removals"].gone # run.from["removals"].gone
<1>1. SyncIInv /\ [SyncNext]_syncVars => [Kept]_syncVars
  <2> SUFFICES ASSUME SyncIInv, SyncNext, SyncPush PROVE Kept OBVIOUS
  <2>1. run.job = "sync" /\ run.step = "push" /\ run'.step = "green" BY DEF SyncPush
  <2>2. CASE Push
    <3>1. main.length = run.onto /\ main'.files = run.tree BY <2>2 DEF Push, Land
    <3>2. /\ main.files = run.base
          /\ run.tree["admitted"] = run.base["admitted"]
          /\ run.tree["data"] = run.base["data"]
          /\ Synced(run.from, run.base, run.tree, window)
      BY <2>1, <3>1 DEF SyncIInv, CloneInv, SyncInv, Working, Syncing
    <3> QED BY <3>1, <3>2 DEF Synced
  <2>3. CASE \/ PublishData \/ PushProduct \/ Admit \/ AdmitAlone \/ StampEra
             \/ \E s \in Slug : SeedRedirect(s)
    <3>1. run' = run
      BY <2>3 DEF PublishData, PushProduct, Admit, AdmitAlone, StampEra, SeedRedirect, OthersPush
    <3> QED BY <2>1, <3>1
  <2>4. CASE \/ StartWindow \/ Refresh \/ CleanRebase \/ ResolvedRebase \/ BindingsBroke
             \/ RebaseAborts \/ OutOfTries \/ NothingPending \/ StampPending \/ ShipLost
    BY <2>1, <2>4 DEF StartWindow, Refresh, CleanRebase, ResolvedRebase, BindingsBroke,
                      RebaseAborts, OutOfTries, NothingPending, StampPending, ShipLost
  <2>5. CASE WindowLost
    <3>1. run' = [job |-> "ship", step |-> "checkout", from |-> run.from,
                  base |-> FirstTree, onto |-> 0, tree |-> FirstTree, try |-> 1,
                  lost |-> "window"]
      BY <2>5, EndedIs DEF WindowLost, SyncFails
    <3> QED BY <2>1, <3>1
  <2>6. CASE PushRejected
    <3>1. run'.step = "rejected" BY <2>6, RunIs DEF PushRejected
    <3> QED BY <2>1, <3>1
  <2> QED BY <2>2, <2>3, <2>4, <2>5, <2>6 DEF SyncNext
<1> QED BY <1>1, SyncIInvHolds, PTL DEF SyncSpec, KeepsOthersWork
-----------------------------------------------------------------------------
(***************************************************************************)
(* The ledgers of decisions.  A guard that passed says something of the    *)
(* lines main had then; what lands is combined with the lines main has     *)
(* now.  Two things bridge the gap: main never gets shorter, and while no  *)
(* push replaced a line, main begins with the lines the branch was made    *)
(* of, so a branch that passed only adds, and the union puts what it adds  *)
(* behind everything main has.                                             *)
(***************************************************************************)
LineOf(k) == IF k = "adjudications" THEN Ruling ELSE BadgeLine
InForm(k, e) == IF k = "adjudications" THEN ~badEntry(e) ELSE ~badPreviewEntry(e)
AllInForm(k, s) == \A i \in 1..Len(s) : InForm(k, s[i])

PullInv ==
  /\ pull = [head |-> pull.head, base |-> pull.base, check |-> pull.check]
  /\ pull.head \in Seq(LineOf(ledger)) /\ pull.base \in Seq(LineOf(ledger))
  /\ Len(pull.base) <= longest
  /\ ~overruled /\ ~replaced => IsPrefixOf(pull.base, mainLines)
  /\ ~overruled /\ pull.check = "green" =>
       /\ Len(pull.head) >= Len(pull.base) /\ AllInForm(ledger, pull.head)
       /\ ~replaced => IsPrefixOf(pull.base, pull.head)

MainInv ==
  /\ mainLines \in Seq(LineOf(ledger)) /\ Len(mainLines) <= longest
  /\ grown \in Seq(LineOf(ledger))
  /\ ~overruled =>
       /\ Len(mainLines) = longest /\ AllInForm(ledger, mainLines)
       /\ ~replaced => grown = mainLines

GuardInv == ledger \in Ledger /\ longest \in Nat \ {0} /\ PullInv /\ MainInv

LEMMA FirstLineIs ==
  ASSUME NEW k \in Ledger
  PROVE  FirstLine[k] \in LineOf(k) /\ InForm(k, FirstLine[k])
BY LedgerGuardConstants, FirstLinesInForm DEF Ledger, LineOf, InForm

LEMMA BadIs == \A e : Bad(e) <=> ~InForm(ledger, e)
BY DEF Bad, InForm

LEMMA EditsAreSequences ==
  ASSUME NEW s \in Seq(Line), NEW t \in Edits(s)
  PROVE  t \in Seq(Line)
<1>1. Unwritten \subseteq Line BY DEF Unwritten
<1>2. CASE \E e \in Unwritten : t = Append(s, e) BY <1>1, <1>2
<1>3. CASE \E i \in 0..(Len(s) - 1) : t = SubSeq(s, 1, i)
  <2>1. PICK i \in 0..(Len(s) - 1) : t = SubSeq(s, 1, i) BY <1>3
  <2> QED BY <2>1
<1>4. CASE \E i \in DOMAIN s, e \in Unwritten : t = [s EXCEPT ![i] = e] BY <1>1, <1>4
<1> QED BY <1>2, <1>3, <1>4 DEF Edits

LEMMA SameLines ==
  ASSUME NEW S, NEW s \in Seq(S), NEW t \in Seq(S),
         Len(s) = Len(t), \A i \in 1..Len(s) : s[i] = t[i]
  PROVE  s = t
OBVIOUS

\* A prefix, line by line.
LEMMA PrefixIs ==
  ASSUME NEW S, NEW s \in Seq(S), NEW t \in Seq(S)
  PROVE  IsPrefixOf(s, t) <=> Len(s) <= Len(t) /\ \A i \in 1..Len(s) : t[i] = s[i]
<1>1. Len(s) \in Nat /\ Len(t) \in Nat OBVIOUS
<1>2. ASSUME Len(s) <= Len(t)
      PROVE  /\ SubSeq(t, 1, Len(s)) \in Seq(S) /\ Len(SubSeq(t, 1, Len(s))) = Len(s)
             /\ \A i \in 1..Len(s) : SubSeq(t, 1, Len(s))[i] = t[i]
  BY <1>1, <1>2
<1>3. ASSUME Len(s) <= Len(t), \A i \in 1..Len(s) : t[i] = s[i]
      PROVE  SubSeq(t, 1, Len(s)) = s
  BY <1>2, <1>3, SameLines
<1> QED BY <1>2, <1>3 DEF IsPrefixOf

LEMMA PrefixesChain ==
  ASSUME NEW S, NEW r \in Seq(S), NEW s \in Seq(S), NEW t \in Seq(S),
         IsPrefixOf(r, s), IsPrefixOf(s, t)
  PROVE  IsPrefixOf(r, t)
<1>1. Len(r) \in Nat /\ Len(s) \in Nat /\ Len(t) \in Nat OBVIOUS
<1>2. Len(r) <= Len(s) /\ \A i \in 1..Len(r) : s[i] = r[i] BY PrefixIs
<1>3. Len(s) <= Len(t) /\ \A i \in 1..Len(s) : t[i] = s[i] BY PrefixIs
<1>4. Len(r) <= Len(t) /\ \A i \in 1..Len(r) : t[i] = r[i] BY <1>1, <1>2, <1>3
<1> QED BY <1>4, PrefixIs

LEMMA PrefixOfItself == ASSUME NEW S, NEW s \in Seq(S) PROVE IsPrefixOf(s, s)
<1>1. Len(s) \in Nat OBVIOUS
<1> QED BY <1>1, PrefixIs

LEMMA PrefixOfMore ==
  ASSUME NEW S, NEW s \in Seq(S), NEW t \in Seq(S)
  PROVE  IsPrefixOf(s, s \o t) /\ Len(s) <= Len(s \o t)
<1>1. PICK u \in Seq(S) : u = s \o t
  <2>1. s \o t \in Seq(S) OBVIOUS
  <2> QED BY <2>1
<1>2. /\ Len(s) \in Nat /\ Len(t) \in Nat /\ Len(u) = Len(s) + Len(t)
      /\ \A i \in 1..Len(s) : u[i] = s[i]
  BY <1>1
<1>3. IsPrefixOf(s, u) /\ Len(s) <= Len(u) BY <1>2, PrefixIs
<1> QED BY <1>1, <1>3

LEMMA NoneIsPrefix == ASSUME NEW S, NEW s \in Seq(S) PROVE IsPrefixOf(<<>>, s)
<1>1. Len(<<>>) = 0 /\ Len(s) \in Nat /\ SubSeq(s, 1, 0) = <<>> OBVIOUS
<1> QED BY <1>1 DEF IsPrefixOf

\* What passes the pull request's arm has the lines of its base, and more that are in form.
LEMMA AppendOnlyIs ==
  ASSUME NEW old, NEW new, old \in Seq(Line), new \in Seq(Line), checkAppendOnly(old, new),
         AllInForm(ledger, old)
  PROVE  Len(new) >= Len(old) /\ AllInForm(ledger, new)
<1>1. /\ Len(old) \in Nat /\ Len(new) \in Nat
      /\ Len(old) <= Len(new) /\ \A i \in 1..Len(old) : new[i] = old[i]
  BY PrefixIs DEF checkAppendOnly
<1>2. ASSUME NEW i \in 1..Len(new) PROVE InForm(ledger, new[i])
  <2>1. CASE i \in 1..Len(old) BY <1>1, <2>1 DEF AllInForm
  <2>2. CASE i \in (Len(old) + 1)..Len(new) BY <2>2, BadIs DEF checkAppendOnly
  <2> QED BY <1>1, <2>1, <2>2
<1> QED BY <1>1, <1>2 DEF AllInForm

LEMMA AfterIs ==
  ASSUME NEW S, NEW s \in Seq(S), NEW k \in Nat
  PROVE  /\ After(s, k) \in Seq(S)
         /\ \A i \in 1..Len(After(s, k)) : k + i \in 1..Len(s) /\ After(s, k)[i] = s[k + i]
<1>1. Len(s) \in Nat OBVIOUS
<1>2. CASE k + 1 > Len(s)
  <2>1. After(s, k) = <<>> BY <1>1, <1>2 DEF After
  <2> QED BY <2>1
<1>3. CASE k + 1 <= Len(s) BY <1>1, <1>3 DEF After
<1> QED BY <1>1, <1>2, <1>3

\* The union keeps main's lines first, and what it adds is the branch's.
LEMMA MainFirstIs ==
  ASSUME GuardInv, NEW k \in Nat
  PROVE  /\ MainFirst(k) \in Seq(LineOf(ledger))
         /\ IsPrefixOf(mainLines, MainFirst(k)) /\ Len(mainLines) <= Len(MainFirst(k))
         /\ AllInForm(ledger, mainLines) /\ AllInForm(ledger, pull.head) =>
              AllInForm(ledger, MainFirst(k))
<1> DEFINE more == After(pull.head, k)
<1>1. mainLines \in Seq(LineOf(ledger)) /\ pull.head \in Seq(LineOf(ledger))
  BY DEF GuardInv, MainInv, PullInv
<1>2. /\ more \in Seq(LineOf(ledger))
      /\ \A i \in 1..Len(more) : k + i \in 1..Len(pull.head) /\ more[i] = pull.head[k + i]
  BY <1>1, AfterIs
<1>3. /\ MainFirst(k) = mainLines \o more
      /\ IsPrefixOf(mainLines, MainFirst(k)) /\ Len(mainLines) <= Len(MainFirst(k))
      /\ MainFirst(k) \in Seq(LineOf(ledger))
  BY <1>1, <1>2, PrefixOfMore DEF MainFirst
<1> HIDE DEF more
<1>4. ASSUME AllInForm(ledger, mainLines), AllInForm(ledger, pull.head),
             NEW i \in 1..Len(mainLines \o more)
      PROVE  InForm(ledger, (mainLines \o more)[i])
  <2>1. /\ Len(mainLines) \in Nat /\ Len(more) \in Nat
        /\ Len(mainLines \o more) = Len(mainLines) + Len(more)
    BY <1>1, <1>2
  <2>2. CASE i <= Len(mainLines)
    <3>1. i \in 1..Len(mainLines) /\ (mainLines \o more)[i] = mainLines[i] BY <1>1, <1>2, <2>1, <2>2
    <3> QED BY <1>4, <3>1 DEF AllInForm
  <2>3. CASE i > Len(mainLines)
    <3>1. PICK j \in 1..Len(more) : j = i - Len(mainLines) BY <2>1, <2>3
    <3>2. (mainLines \o more)[i] = more[j] BY <1>1, <1>2, <2>1, <2>3, <3>1
    <3>3. k + j \in 1..Len(pull.head) /\ more[j] = pull.head[k + j] BY <1>2
    <3> QED BY <1>4, <3>2, <3>3 DEF AllInForm
  <2> QED BY <2>1, <2>2, <2>3
<1> QED BY <1>3, <1>4 DEF AllInForm

LEMMA BranchFirstIs ==
  ASSUME GuardInv, NEW k \in Nat, LastShared(k) PROVE BranchFirst(k) \in Seq(LineOf(ledger))
<1>1. /\ mainLines \in Seq(LineOf(ledger)) /\ pull.head \in Seq(LineOf(ledger))
      /\ Len(mainLines) \in Nat
  BY DEF GuardInv, MainInv, PullInv
<1>2. After(pull.head, k) \in Seq(LineOf(ledger)) /\ After(mainLines, k) \in Seq(LineOf(ledger))
  BY <1>1, AfterIs
<1>3. k <= Len(mainLines) BY <1>1 DEF LastShared
<1>4. SubSeq(mainLines, 1, k) \in Seq(LineOf(ledger)) BY <1>1, <1>3
<1> QED BY <1>2, <1>4 DEF BranchFirst

\* Lines that land, in form and no fewer, and behind those main has unless a push replaced
\* one, keep what is known of main.
LEMMA LandingKeepsMain ==
  ASSUME GuardInv, NEW s \in Seq(LineOf(ledger)), LandOnMain(s), ledger' = ledger,
         ~overruled' => ~overruled /\ Len(s) >= Len(mainLines) /\ AllInForm(ledger, s),
         ~overruled' /\ ~replaced' => ~replaced /\ IsPrefixOf(mainLines, s)
  PROVE  MainInv' /\ longest' \in Nat \ {0} /\ longest <= longest'
<1>1. /\ mainLines' = s /\ grown' = IF IsPrefixOf(grown, s) THEN s ELSE grown
      /\ longest' = IF Len(s) > longest THEN Len(s) ELSE longest
  BY DEF LandOnMain
<1>2. Len(s) \in Nat /\ longest \in Nat \ {0} /\ Len(mainLines) \in Nat BY DEF GuardInv, MainInv
<1>3. longest' \in Nat \ {0} /\ Len(s) <= longest' /\ longest <= longest' BY <1>1, <1>2
<1>4. grown' \in Seq(LineOf(ledger)) BY <1>1 DEF GuardInv, MainInv
<1>5. ASSUME ~overruled' PROVE Len(s) = longest' /\ AllInForm(ledger, s)
  <2>1. Len(mainLines) = longest /\ Len(s) >= Len(mainLines) BY <1>5 DEF GuardInv, MainInv
  <2> QED BY <1>1, <1>2, <1>5, <2>1
<1>6. ASSUME ~overruled', ~replaced' PROVE grown' = s
  <2>1. grown = mainLines BY <1>6 DEF GuardInv, MainInv
  <2> QED BY <1>1, <1>6, <2>1
<1>7. MainInv' BY <1>1, <1>3, <1>4, <1>5, <1>6 DEF MainInv, AllInForm
<1> QED BY <1>3, <1>7

LEMMA GuardStarts == LedgerGuardInit => GuardInv
<1> SUFFICES ASSUME LedgerGuardInit PROVE GuardInv OBVIOUS
<1>1. PICK k \in Ledger : ledger = k BY DEF LedgerGuardInit
<1>2. FirstLine[k] \in LineOf(k) /\ InForm(k, FirstLine[k]) BY FirstLineIs
<1>3. /\ mainLines = <<FirstLine[k]>> /\ pull = NoPull /\ longest = 1 /\ grown = mainLines
      /\ ~overruled /\ ~replaced
  BY <1>1 DEF LedgerGuardInit
<1>4. Len(mainLines) = 1 /\ mainLines[1] = FirstLine[k] /\ mainLines \in Seq(LineOf(k))
  BY <1>2, <1>3
<1>5. MainInv BY <1>1, <1>2, <1>3, <1>4 DEF MainInv, AllInForm
<1>6. PullInv
  <2>1. <<>> \in Seq(LineOf(k)) /\ Len(<<>>) = 0 OBVIOUS
  <2>2. IsPrefixOf(<<>>, mainLines) BY <1>4, NoneIsPrefix
  <2> QED BY <1>1, <1>3, <2>1, <2>2 DEF PullInv, NoPull
<1> QED BY <1>1, <1>3, <1>5, <1>6 DEF GuardInv

LEMMA ProposeKeeps == ASSUME GuardInv, Propose PROVE GuardInv'
<1>1. PICK s \in Edits(mainLines) : pull' = [head |-> s, base |-> mainLines, check |-> "pending"]
  BY DEF Propose
<1>2. UNCHANGED <<ledger, mainLines, longest, grown, replaced, overruled>> BY DEF Propose
<1>3. s \in Seq(LineOf(ledger))
  <2>1. Line = LineOf(ledger) BY DEF Line, LineOf
  <2> QED BY <2>1, EditsAreSequences DEF GuardInv, MainInv
<1>4. MainInv' BY <1>2 DEF GuardInv, MainInv, AllInForm
<1>5. IsPrefixOf(mainLines, mainLines) BY PrefixOfItself DEF GuardInv, MainInv
<1>6. PullInv' BY <1>1, <1>2, <1>3, <1>5 DEF GuardInv, MainInv, PullInv
<1> QED BY <1>2, <1>4, <1>6 DEF GuardInv

LEMMA GuardKeeps ==
  ASSUME GuardInv, NEW resolves \in BOOLEAN, NEW parity \in BOOLEAN, Guard(resolves, parity)
  PROVE  GuardInv'
<1>1. /\ UNCHANGED <<ledger, mainLines, longest, grown, replaced, overruled>>
      /\ pull'.head = pull.head /\ pull'.base = pull.base
      /\ pull' = [head |-> pull'.head, base |-> pull'.base, check |-> pull'.check]
      /\ pull'.check = "green" => baseDiff(resolves, mainLines, pull.head)
  BY DEF GuardInv, PullInv, Guard
<1>2. ASSUME ~overruled, pull'.check = "green"
      PROVE  /\ Len(pull.head) >= Len(pull.base) /\ AllInForm(ledger, pull.head)
             /\ ~replaced => IsPrefixOf(pull.base, pull.head)
  <2>1. Line = LineOf(ledger) BY DEF Line, LineOf
  <2>2. pull.head # NoFile BY LedgerGuardConstants DEF GuardInv, PullInv, LineOf, Ledger
  <2>3. checkAppendOnly(mainLines, pull.head) BY <1>1, <1>2, <2>2 DEF baseDiff, Lines
  <2>4. Len(pull.head) >= Len(mainLines) /\ AllInForm(ledger, pull.head)
    BY <1>2, <2>1, <2>3, AppendOnlyIs DEF GuardInv, PullInv, MainInv
  <2>5. ASSUME ~replaced PROVE IsPrefixOf(pull.base, pull.head)
    <3>1. IsPrefixOf(pull.base, mainLines) BY <1>2, <2>5 DEF GuardInv, PullInv
    <3>2. IsPrefixOf(mainLines, pull.head) BY <2>3 DEF checkAppendOnly
    <3> QED BY <3>1, <3>2, PrefixesChain DEF GuardInv, PullInv, MainInv
  <2> QED BY <1>2, <2>4, <2>5 DEF GuardInv, PullInv, MainInv
<1>3. PullInv' BY <1>1, <1>2 DEF GuardInv, PullInv, AllInForm
<1>4. MainInv' BY <1>1 DEF GuardInv, MainInv, AllInForm
<1> QED BY <1>1, <1>3, <1>4 DEF GuardInv

LEMMA UpdateKeeps == ASSUME GuardInv, Update PROVE GuardInv'
<1>1. PICK k \in 0..Len(pull.base) :
        /\ LastShared(k)
        /\ \E s \in {MainFirst(k), BranchFirst(k)} :
             pull' = [head |-> s, base |-> mainLines, check |-> "pending"]
  BY DEF Update
<1>2. UNCHANGED <<ledger, mainLines, longest, grown, replaced, overruled>> BY DEF Update
<1>3. k \in Nat BY DEF GuardInv, PullInv
<1>4. MainFirst(k) \in Seq(LineOf(ledger)) /\ BranchFirst(k) \in Seq(LineOf(ledger))
  BY <1>1, <1>3, MainFirstIs, BranchFirstIs
<1>5. PICK s \in Seq(LineOf(ledger)) :
        pull' = [head |-> s, base |-> mainLines, check |-> "pending"]
  BY <1>1, <1>4
<1>6. MainInv' BY <1>2 DEF GuardInv, MainInv, AllInForm
<1>7. IsPrefixOf(mainLines, mainLines) BY PrefixOfItself DEF GuardInv, MainInv
<1>8. PullInv' BY <1>2, <1>5, <1>7 DEF GuardInv, MainInv, PullInv
<1> QED BY <1>2, <1>6, <1>8 DEF GuardInv

LEMMA MergeKeeps == ASSUME GuardInv, Merge PROVE GuardInv'
<1>1. /\ UNCHANGED <<ledger, replaced>> /\ pull' = NoPull /\ pull.check \in {"green", "red"}
      /\ overruled' = (overruled \/ pull.check = "red")
  BY DEF Merge
<1>2. ~overruled' => ~overruled /\ pull.check = "green" BY <1>1
<1>3. PICK s \in Seq(LineOf(ledger)) :
        /\ LandOnMain(s)
        /\ ~overruled' => Len(s) >= Len(mainLines) /\ AllInForm(ledger, s)
        /\ ~overruled' /\ ~replaced => IsPrefixOf(mainLines, s)
  <2>1. CASE mainLines = pull.base /\ LandOnMain(pull.head)
    BY <1>2, <2>1 DEF GuardInv, PullInv
  <2>2. CASE \E k \in 0..Len(pull.base) : LandOnMain(MainFirst(k))
    <3>1. PICK k \in 0..Len(pull.base) : LandOnMain(MainFirst(k)) BY <2>2
    <3>2. k \in Nat BY DEF GuardInv, PullInv
    <3>3. /\ MainFirst(k) \in Seq(LineOf(ledger)) /\ IsPrefixOf(mainLines, MainFirst(k))
          /\ Len(mainLines) <= Len(MainFirst(k))
          /\ AllInForm(ledger, mainLines) /\ AllInForm(ledger, pull.head) =>
               AllInForm(ledger, MainFirst(k))
      BY <3>2, MainFirstIs
    <3>4. ~overruled' => AllInForm(ledger, MainFirst(k)) /\ Len(MainFirst(k)) >= Len(mainLines)
      BY <1>2, <3>3 DEF GuardInv, PullInv, MainInv
    <3> QED BY <3>1, <3>3, <3>4
  <2> QED BY <2>1, <2>2 DEF Merge
<1>4. MainInv' /\ longest' \in Nat \ {0} BY <1>1, <1>2, <1>3, LandingKeepsMain
<1>5. PullInv'
  <2>1. <<>> \in Seq(LineOf(ledger)) /\ Len(<<>>) = 0 OBVIOUS
  <2>2. mainLines' \in Seq(LineOf(ledger)) BY <1>3 DEF LandOnMain
  <2>3. IsPrefixOf(<<>>, mainLines') BY <2>2, NoneIsPrefix
  <2> QED BY <1>1, <1>4, <2>1, <2>3 DEF PullInv, NoPull
<1> QED BY <1>1, <1>4, <1>5 DEF GuardInv

LEMMA CloseKeeps == ASSUME GuardInv, Close PROVE GuardInv'
<1>1. pull' = NoPull /\ UNCHANGED <<ledger, mainLines, longest, grown, replaced, overruled>>
  BY DEF Close
<1>2. <<>> \in Seq(LineOf(ledger)) /\ Len(<<>>) = 0 OBVIOUS
<1>3. IsPrefixOf(<<>>, mainLines) BY NoneIsPrefix DEF GuardInv, MainInv
<1>4. PullInv' BY <1>1, <1>2, <1>3 DEF GuardInv, PullInv, NoPull
<1>5. MainInv' BY <1>1 DEF GuardInv, MainInv, AllInForm
<1> QED BY <1>1, <1>4, <1>5 DEF GuardInv

LEMMA PushBackKeeps == ASSUME GuardInv, PushBack PROVE GuardInv'
<1>1. PICK work \in Edits(mainLines) \cup {NoFile} :
        wellformedOnly(Len(mainLines), work) /\ LandOnMain(Lines(work))
  BY DEF PushBack
<1>2. /\ UNCHANGED <<ledger, pull, overruled>> /\ mainLines' = Lines(work)
      /\ replaced' = (replaced \/ ~IsPrefixOf(mainLines, mainLines'))
  BY <1>1 DEF PushBack, LandOnMain
<1>3. Lines(work) \in Seq(LineOf(ledger))
  <2>1. Line = LineOf(ledger) BY DEF Line, LineOf
  <2>2. <<>> \in Seq(LineOf(ledger)) OBVIOUS
  <2> QED BY <1>1, <2>1, <2>2, EditsAreSequences DEF GuardInv, MainInv, Lines
<1>4. Len(Lines(work)) >= Len(mainLines) /\ AllInForm(ledger, Lines(work))
  BY <1>1, <1>3, BadIs DEF wellformedOnly, AllInForm
<1>5. ~replaced' => ~replaced /\ IsPrefixOf(mainLines, Lines(work)) BY <1>2
<1>6. MainInv' /\ longest' \in Nat \ {0} /\ longest <= longest'
  BY <1>1, <1>2, <1>3, <1>4, <1>5, LandingKeepsMain
<1>7. ASSUME ~overruled, ~replaced' PROVE IsPrefixOf(pull.base, mainLines')
  <2>1. IsPrefixOf(pull.base, mainLines) /\ IsPrefixOf(mainLines, Lines(work))
    BY <1>5, <1>7 DEF GuardInv, PullInv
  <2> QED BY <1>2, <1>3, <2>1, PrefixesChain DEF GuardInv, PullInv, MainInv
<1>8. PullInv'
  <2>1. Len(pull.base) \in Nat /\ longest \in Nat BY DEF GuardInv, PullInv
  <2>2. Len(pull.base) <= longest' BY <1>6, <2>1 DEF GuardInv, PullInv
  <2> QED BY <1>2, <1>5, <1>7, <2>2 DEF GuardInv, PullInv, AllInForm
<1> QED BY <1>2, <1>6, <1>8 DEF GuardInv

LEMMA GuardInvHolds == LedgerGuardSpec => []GuardInv
<1>1. GuardInv /\ [LedgerGuardNext]_ledgerGuardVars => GuardInv'
  <2> SUFFICES ASSUME GuardInv, [LedgerGuardNext]_ledgerGuardVars PROVE GuardInv' OBVIOUS
  <2>1. CASE UNCHANGED ledgerGuardVars
    BY <2>1 DEF ledgerGuardVars, GuardInv, PullInv, MainInv, AllInForm
  <2> QED BY <2>1, ProposeKeeps, GuardKeeps, UpdateKeeps, MergeKeeps, CloseKeeps, PushBackKeeps
          DEF LedgerGuardNext
<1> QED BY <1>1, GuardStarts, PTL DEF LedgerGuardSpec

\* Until somebody lands what the guard refused, and however many pull requests and pushes
\* there were, with main moving under a branch as often as it will: no line is ever lost and
\* each says only what a ledger may say; main begins with all it ever had, in order, unless a
\* push of the job replaced a line; and the two arms accept each other's work
\* (scripts/check-adjudication-diff.mjs, adjudication-guard.yml, .gitattributes).
THEOREM RulingsAlwaysStay == LedgerGuardSpec => []RulingsStay
<1>1. GuardInv => RulingsStay
  <2> SUFFICES ASSUME GuardInv PROVE RulingsStay OBVIOUS
  <2>1. /\ mainLines \in Seq(LineOf(ledger)) /\ DOMAIN mainLines = 1..Len(mainLines)
        /\ Len(mainLines) \in Nat /\ mainLines # NoFile
    BY LedgerGuardConstants DEF GuardInv, MainInv, LineOf
  <2>2. ASSUME NEW e \in LineOf(ledger), InForm(ledger, e) PROVE Honest(e)
    BY <2>2, LedgerGuardConstants
       DEF GuardInv, Ledger, LineOf, InForm, Honest, badEntry, badPreviewEntry, CONFIRMED_MIN_WORDS
  <2>3. NoRulingIsLost BY <2>1, <2>2 DEF GuardInv, MainInv, AllInForm, NoRulingIsLost
  <2>4. EveryRulingStays BY PrefixOfItself DEF GuardInv, MainInv, EveryRulingStays
  <2>5. GuardsAgree
    BY <2>1, BadIs DEF GuardInv, MainInv, AllInForm, GuardsAgree, wellformedOnly, Lines
  <2> QED BY <2>3, <2>4, <2>5 DEF RulingsStay
<1> QED BY <1>1, GuardInvHolds, PTL
-----------------------------------------------------------------------------
(***************************************************************************)
(* The loaders: which of the two files everything is made from is decided  *)
(* by the one read of the index, so every answer, every load under way and *)
(* every failure agrees with it.                                           *)
(***************************************************************************)
Pipeline == {"pipeline", "pipeline-", "snapshot"}

\* A caller's sources, where it waits and how it failed agree with the index.
CallerInv(c) ==
  call[c].kind # "snapshot" =>
    /\ "index" \in call[c].from => index = "read"
    /\ call[c].from \cap Pipeline # {} => index = "unusable"
    /\ call[c].at \in {"snapshot", "failed"} => index = "unusable"

ParsingInv == parsing = IF snapshot = "reading" THEN 1 ELSE 0

SourceInv ==
  /\ servers = "index" => index = "read"
  /\ servers \in Pipeline => index = "unusable"
  /\ flight \in {"snapshot", "admitted"} => index = "unusable"

LoadInv == /\ LoadTypeOK /\ ParsingInv /\ SourceInv
           /\ \A c \in Caller : CallerInv(c)

(***************************************************************************)
(* The drift: a hash is whole or gone, and every summary anyone holds      *)
(* counts servers that the drain saw drift, no more than the latest does.  *)
(***************************************************************************)
Held == Summary \cup {NoSummary}
Request == [at : {"idle", "names", "split", "field", "count", "done"},
            server : Server, split : Held,
            said : {"none", "unavailable", "drifted", "clean"},
            when : 0..Horizon, short : BOOLEAN]
Memo == [at : 0..Horizon, summary : Held, usable : BOOLEAN, set : BOOLEAN]

\* A summary the drain wrote, not above the one that is published.
Written(s) == /\ s \in Summary /\ s.servers = Cardinality(s.of)
              /\ s.of \subseteq drifted /\ s.at <= now
              /\ summary # NoSummary => s.of \subseteq summary.of

DriftTypes ==
  /\ drifted \subseteq Server /\ fields \in {{}, drifted} /\ summary \in Held
  /\ memo \in Memo /\ read \in [Reader -> Request] /\ now \in 0..Horizon
  /\ asking \in [step : {"none", "summary", "count"}, split : Held]
  /\ trouble \in 0..now

SummaryInv == summary # NoSummary => Written(summary)

MemoInv ==
  /\ memo.at <= now
  /\ memo.usable => /\ Written(memo.summary)
                    /\ memo.at - memo.summary.at <= MaxAge
  /\ memo.set /\ ~memo.usable => memo.at <= trouble

AskingInv == asking.step = "count" => /\ Written(asking.split)
                                      /\ now - asking.split.at <= MaxAge

ReadInv(d) ==
  LET r == read[d]
  IN  /\ r.at \in {"field", "count"} => /\ Written(r.split)
                                        /\ now - r.split.at < MaxAge + Ttl
      /\ r.at # "done" => r.said = "none"
      /\ r.at = "count" \/ r.said = "clean" => r.server \notin r.split.of \/ r.short
      /\ r.said \in {"drifted", "clean"} => r.when - r.split.at < MaxAge + Ttl
      /\ r.said = "unavailable" => r.when < trouble + Ttl

DriftInv == /\ DriftTypes /\ SummaryInv /\ MemoInv /\ AskingInv
            /\ \A d \in Reader : ReadInv(d)

IInv == LoadInv /\ DriftInv
-----------------------------------------------------------------------------
Source == {"index", "pipeline", "pipeline-", "snapshot"}
Call == [kind : Kind \cup {"none"}, at : Waiting \cup {"idle", "done", "failed"},
         from : SUBSET Source]

\* The files, apart from the callers: what their types and the sources need.
FileTypes == /\ index \in {"unread", "reading", "unusable", "read"}
             /\ snapshot \in {"unread", "reading", "read"}
             /\ servers \in {"none", "index", "pipeline", "pipeline-"}
             /\ flight \in {"none", "index", "snapshot", "admitted"}

LEMMA LoadTypes == LoadTypeOK <=> FileTypes /\ parsing \in Nat /\ call \in [Caller -> Call]
BY DEF LoadTypeOK, FileTypes, Call, Source

\* What the index turned out to be, it stays.
Settled == /\ index = "read" => index' = "read"
           /\ index = "unusable" => index' = "unusable"

LEMMA StartsKeep ==
  ASSUME LoadInv, NEW at, Starts(at)
  PROVE  /\ index' \in {"unread", "reading", "unusable", "read"}
         /\ snapshot' \in {"unread", "reading", "read"}
         /\ parsing' \in Nat /\ ParsingInv' /\ Settled
BY DEF LoadInv, LoadTypeOK, ParsingInv, Starts, Settled

\* The callers a step leaves alone keep what they had.
LEMMA CallersKeep ==
  ASSUME LoadInv, Settled, NEW c \in Caller, call'[c] = call[c]
  PROVE  CallerInv(c)'
BY DEF LoadInv, CallerInv, Settled

LEMMA Gather ==
  ASSUME FileTypes', parsing' \in Nat, call' \in [Caller -> Call], ParsingInv', SourceInv',
         \A c \in Caller : CallerInv(c)'
  PROVE  LoadInv'
BY DEF LoadInv, LoadTypeOK, FileTypes, Call, Source

LEMMA AskKeeps ==
  ASSUME LoadInv, NEW c \in Caller, NEW kind \in Kind, Ask(c, kind)
  PROVE  LoadInv'
<1> DEFINE at == FirstWait(kind)
           one == [kind |-> kind, at |-> at, from |-> {}]
<1>1. /\ at \in Waiting
      /\ kind # "snapshot" => at # "snapshot"
  BY DEF Kind, FirstWait, Waiting
<1>2. /\ index' \in {"unread", "reading", "unusable", "read"}
      /\ snapshot' \in {"unread", "reading", "read"}
      /\ parsing' \in Nat /\ ParsingInv' /\ Settled
  BY StartsKeep DEF Ask, StartsAt
<1>3. FileTypes' /\ SourceInv'
  <2>1. servers' = servers /\ (flight' = flight \/ flight' = "index") BY DEF Ask, StartsAt
  <2> QED BY <1>2, <2>1 DEF LoadInv, LoadTypeOK, FileTypes, SourceInv, Settled
<1>4. call' = [call EXCEPT ![c] = one] /\ call \in [Caller -> Call]
  BY LoadTypes DEF Ask, LoadInv
<1>5. one \in Call /\ one.kind = kind /\ one.at = at /\ one.from = {}
  BY <1>1 DEF Call
<1> HIDE DEF one, at
<1>6. call' \in [Caller -> Call] BY <1>4, <1>5
<1>7. ASSUME NEW d \in Caller PROVE CallerInv(d)'
  <2>1. CASE d = c
    <3>1. call'[d] = one BY <1>4, <2>1
    <3>2. one.kind # "snapshot" => one.at \notin {"snapshot", "failed"}
      BY <1>1, <1>5 DEF Waiting
    <3> QED BY <1>5, <3>1, <3>2 DEF CallerInv
  <2>2. CASE d # c BY <1>2, <1>4, <2>2, CallersKeep
  <2> QED BY <2>1, <2>2
<1> QED BY <1>2, <1>3, <1>6, <1>7, Gather

\* A caller that goes on has taken what it took from the side of the index.
LEMMA OneCallerKeeps ==
  ASSUME LoadInv, NEW c \in Caller, NEW one \in Call, call' = [call EXCEPT ![c] = one],
         UNCHANGED <<servers, flight>>, Settled, ParsingInv', parsing' \in Nat,
         index' \in {"unread", "reading", "unusable", "read"},
         snapshot' \in {"unread", "reading", "read"},
         one.kind = call[c].kind,
         one.kind # "snapshot" =>
           /\ "index" \in one.from => index' = "read"
           /\ one.from \cap Pipeline # {} => index' = "unusable"
           /\ one.at \in {"snapshot", "failed"} => index' = "unusable"
  PROVE  LoadInv'
<1>1. FileTypes' /\ SourceInv' BY DEF LoadInv, LoadTypeOK, FileTypes, SourceInv, Settled
<1>2. call \in [Caller -> Call] BY LoadTypes DEF LoadInv
<1>3. ASSUME NEW d \in Caller PROVE CallerInv(d)'
  <2>1. CASE d = c BY <1>2, <2>1 DEF CallerInv
  <2>2. CASE d # c BY <1>2, <2>2, CallersKeep
  <2> QED BY <2>1, <2>2
<1> QED BY <1>1, <1>2, <1>3, Gather

LEMMA GotServersKeeps == ASSUME LoadInv, NEW c \in Caller, GotServers(c) PROVE LoadInv'
<1>1. /\ call \in [Caller -> Call] /\ call[c] \in Call /\ CallerInv(c)
      /\ servers \in {"index", "pipeline", "pipeline-"} /\ UNCHANGED <<servers, flight>>
  BY LoadTypes DEF LoadInv, GotServers, LoadTypeOK
<1>2. /\ "index" \in call[c].from \cup {servers} /\ call[c].kind # "snapshot" => index = "read"
      /\ (call[c].from \cup {servers}) \cap Pipeline # {} /\ call[c].kind # "snapshot"
           => index = "unusable"
  BY <1>1 DEF LoadInv, CallerInv, SourceInv, Pipeline
<1>3. CASE call' = Answered(c, servers) /\ UNCHANGED <<index, snapshot, parsing>>
  <2> DEFINE one == [call[c] EXCEPT !.at = "done", !.from = @ \cup {servers}]
  <2>1. /\ one \in Call /\ one.kind = call[c].kind /\ one.at = "done"
        /\ one.from = call[c].from \cup {servers}
    BY <1>1 DEF Call, Source
  <2>2. call' = [call EXCEPT ![c] = one] BY <1>3 DEF Answered
  <2>3. Settled /\ ParsingInv' /\ parsing' \in Nat
        /\ index' \in {"unread", "reading", "unusable", "read"}
        /\ snapshot' \in {"unread", "reading", "read"}
    BY <1>3 DEF Settled, LoadInv, LoadTypeOK, ParsingInv
  <2> HIDE DEF one
  <2> QED BY <1>1, <1>2, <1>3, <2>1, <2>2, <2>3, OneCallerKeeps
<1>4. CASE /\ call[c].kind = "page" /\ Starts("index")
           /\ call' = [call EXCEPT ![c] =
                         [call[c] EXCEPT !.at = "index", !.from = @ \cup {servers}]]
  <2> DEFINE one == [call[c] EXCEPT !.at = "index", !.from = @ \cup {servers}]
  <2>1. /\ one \in Call /\ one.kind = call[c].kind /\ one.at = "index"
        /\ one.from = call[c].from \cup {servers}
    BY <1>1 DEF Call, Source, Waiting
  <2>2. call' = [call EXCEPT ![c] = one] BY <1>1, <1>4 DEF Call
  <2>3. Settled /\ ParsingInv' /\ parsing' \in Nat
        /\ index' \in {"unread", "reading", "unusable", "read"}
        /\ snapshot' \in {"unread", "reading", "read"}
    BY <1>4, StartsKeep
  <2> HIDE DEF one
  <2> QED BY <1>1, <1>2, <2>1, <2>2, <2>3, OneCallerKeeps DEF Settled
<1> QED BY <1>3, <1>4 DEF GotServers

LEMMA GotIndexKeeps == ASSUME LoadInv, NEW c \in Caller, GotIndex(c) PROVE LoadInv'
<1>1. /\ call \in [Caller -> Call] /\ call[c] \in Call /\ CallerInv(c)
      /\ index \in {"read", "unusable"} /\ UNCHANGED <<servers, flight>>
  BY LoadTypes DEF LoadInv, GotIndex
<1>2. CASE index = "read" /\ call' = Answered(c, "index") /\ UNCHANGED <<index, snapshot, parsing>>
  <2> DEFINE one == [call[c] EXCEPT !.at = "done", !.from = @ \cup {"index"}]
  <2>1. /\ one \in Call /\ one.kind = call[c].kind /\ one.at = "done"
        /\ one.from = call[c].from \cup {"index"}
    BY <1>1 DEF Call, Source
  <2>2. call' = [call EXCEPT ![c] = one] BY <1>2 DEF Answered
  <2>3. Settled /\ ParsingInv' /\ parsing' \in Nat
        /\ index' \in {"unread", "reading", "unusable", "read"}
        /\ snapshot' \in {"unread", "reading", "read"}
    BY <1>2 DEF Settled, LoadInv, LoadTypeOK, ParsingInv
  <2>4. one.kind # "snapshot" => one.from \cap Pipeline = {}
    BY <1>1, <1>2, <2>1 DEF CallerInv, Pipeline
  <2> HIDE DEF one
  <2> QED BY <1>1, <1>2, <2>1, <2>2, <2>3, <2>4, OneCallerKeeps
<1>3. CASE index = "unusable" /\ call' = [call EXCEPT ![c].at = "snapshot"] /\ Starts("snapshot")
  <2> DEFINE one == [call[c] EXCEPT !.at = "snapshot"]
  <2>1. /\ one \in Call /\ one.kind = call[c].kind /\ one.at = "snapshot"
        /\ one.from = call[c].from
    BY <1>1 DEF Call, Waiting
  <2>2. call' = [call EXCEPT ![c] = one] BY <1>3
  <2>3. Settled /\ ParsingInv' /\ parsing' \in Nat
        /\ index' \in {"unread", "reading", "unusable", "read"}
        /\ snapshot' \in {"unread", "reading", "read"}
    BY <1>3, StartsKeep
  <2> HIDE DEF one
  <2> QED BY <1>1, <1>3, <2>1, <2>2, <2>3, OneCallerKeeps DEF Settled, CallerInv
<1> QED BY <1>1, <1>2, <1>3 DEF GotIndex

\* What comes from the snapshot beside the index comes after the index was unusable:
\* whoever waits there and did not ask for the snapshot itself was sent on by it.
LEMMA GotSnapshotKeeps == ASSUME LoadInv, NEW c \in Caller, GotSnapshot(c) PROVE LoadInv'
<1>1. /\ call \in [Caller -> Call] /\ call[c] \in Call /\ CallerInv(c)
      /\ UNCHANGED <<index, snapshot, parsing, servers, flight>>
      /\ call[c].kind # "snapshot" => index = "unusable"
  BY LoadTypes DEF LoadInv, GotSnapshot, CallerInv
<1> DEFINE one == [call[c] EXCEPT !.at = "done", !.from = @ \cup {"snapshot"}]
<1>2. /\ one \in Call /\ one.kind = call[c].kind /\ one.at = "done"
      /\ one.from = call[c].from \cup {"snapshot"}
  BY <1>1 DEF Call, Source
<1>3. call' = [call EXCEPT ![c] = one] BY DEF GotSnapshot, Answered
<1>4. Settled /\ ParsingInv' /\ parsing' \in Nat
      /\ index' \in {"unread", "reading", "unusable", "read"}
      /\ snapshot' \in {"unread", "reading", "read"}
  BY <1>1 DEF Settled, LoadInv, LoadTypeOK, ParsingInv
<1>5. "index" \in one.from /\ one.kind # "snapshot" => index = "read"
  BY <1>1, <1>2 DEF CallerInv
<1> HIDE DEF one
<1> QED BY <1>1, <1>2, <1>3, <1>4, <1>5, OneCallerKeeps

LEMMA FilesKeep ==
  ASSUME LoadInv, IndexRead \/ SnapshotRead \/ Loads
  PROVE  LoadInv'
<1>1. CASE IndexRead
  <2>1. FileTypes' /\ SourceInv' /\ ParsingInv' /\ parsing' \in Nat
    BY <1>1 DEF IndexRead, LoadInv, LoadTypeOK, FileTypes, SourceInv, ParsingInv
  <2>2. Settled /\ call' = call BY <1>1 DEF IndexRead, Settled
  <2> QED BY <2>1, <2>2, LoadTypes, CallersKeep, Gather DEF LoadInv
<1>2. CASE SnapshotRead
  <2>1. FileTypes' /\ SourceInv' /\ ParsingInv' /\ parsing' \in Nat
    BY <1>2 DEF SnapshotRead, LoadInv, LoadTypeOK, FileTypes, SourceInv, ParsingInv
  <2>2. Settled /\ call' = call BY <1>2 DEF SnapshotRead, Settled
  <2> QED BY <2>1, <2>2, LoadTypes, CallersKeep, Gather DEF LoadInv
<1>3. CASE LoadFromSnapshot
  <2>1. Settled /\ ParsingInv' /\ parsing' \in Nat
        /\ index' \in {"unread", "reading", "unusable", "read"}
        /\ snapshot' \in {"unread", "reading", "read"}
    BY <1>3, StartsKeep DEF LoadFromSnapshot
  <2>2. FileTypes' /\ SourceInv'
    BY <1>3, <2>1 DEF LoadFromSnapshot, LoadInv, LoadTypeOK, FileTypes, SourceInv, Settled
  <2>3. call' = call BY <1>3 DEF LoadFromSnapshot
  <2> QED BY <2>1, <2>2, <2>3, LoadTypes, CallersKeep, Gather DEF LoadInv
<1>4. CASE LoadFromIndex \/ LoadAdmitted \/ LoadMerged
  <2>1. FileTypes' /\ SourceInv' /\ ParsingInv' /\ parsing' \in Nat
    BY <1>4 DEF LoadFromIndex, LoadAdmitted, LoadMerged, LoadInv, LoadTypeOK, FileTypes,
                SourceInv, ParsingInv, Pipeline
  <2>2. Settled /\ call' = call
    BY <1>4 DEF LoadFromIndex, LoadAdmitted, LoadMerged, Settled
  <2> QED BY <2>1, <2>2, LoadTypes, CallersKeep, Gather DEF LoadInv
<1> QED BY <1>1, <1>2, <1>3, <1>4 DEF Loads

LEMMA SnapshotFailsKeeps == ASSUME LoadInv, SnapshotFails PROVE LoadInv'
<1>1. /\ parsing' = 0 /\ snapshot' = "unread" /\ UNCHANGED <<index, servers>>
      /\ flight' \in {flight, "none"}
  BY DEF SnapshotFails, LoadInv, LoadTypeOK, ParsingInv, FlightAfterFailure
<1>2. FileTypes' /\ SourceInv' /\ ParsingInv' /\ parsing' \in Nat /\ Settled
  BY <1>1 DEF LoadInv, LoadTypeOK, FileTypes, SourceInv, ParsingInv, Settled
<1>3. ASSUME NEW c \in Caller PROVE call'[c] \in Call /\ CallerInv(c)'
  <2>1. call[c] \in Call /\ CallerInv(c) BY LoadTypes DEF LoadInv
  <2>2. CASE call'[c] = call[c] BY <1>2, <2>1, <2>2, CallersKeep
  <2>3. CASE /\ call'[c] = [call[c] EXCEPT !.at = "failed"]
             /\ \/ call[c].at = "snapshot"
                \/ call[c].at = "servers" /\ servers = "none" /\ flight = "snapshot"
    <3>1. /\ call'[c] \in Call /\ call'[c].from = call[c].from
          /\ call'[c].kind = call[c].kind
      BY <2>1, <2>3 DEF Call
    <3>2. call[c].kind # "snapshot" => index = "unusable"
      BY <2>1, <2>3 DEF CallerInv, LoadInv, SourceInv
    <3> QED BY <1>1, <2>1, <3>1, <3>2 DEF CallerInv
  <2> QED BY <2>2, <2>3 DEF SnapshotFails
<1>4. call' \in [Caller -> Call] BY <1>3 DEF SnapshotFails
<1> QED BY <1>2, <1>3, <1>4, Gather

LEMMA LoadKeeps == ASSUME LoadInv, LoadSteps PROVE LoadInv'
<1>1. Asked \subseteq Kind BY DriftConstants
<1> QED BY <1>1, AskKeeps, GotServersKeeps, GotIndexKeeps, GotSnapshotKeeps, FilesKeep,
           SnapshotFailsKeeps DEF LoadSteps, Proceeds, SnapshotEnds

LEMMA LoadStutters == ASSUME LoadInv, UNCHANGED loadVars PROVE LoadInv'
<1>1. /\ UNCHANGED <<index, snapshot, servers, flight, parsing, call>> BY DEF loadVars
<1>2. ParsingInv' /\ SourceInv' /\ LoadTypeOK'
  BY <1>1 DEF LoadInv, ParsingInv, SourceInv, LoadTypeOK
<1>3. \A c \in Caller : CallerInv(c)' BY <1>1 DEF LoadInv, CallerInv
<1> QED BY <1>2, <1>3 DEF LoadInv
-----------------------------------------------------------------------------
(* The drift of a server.                                                  *)

LEMMA Counting ==
  ASSUME NEW S \in SUBSET Server, NEW T \in SUBSET S
  PROVE  /\ Cardinality(S) \in Nat /\ Cardinality(T) <= Cardinality(S)
         /\ Cardinality(S) <= Cardinality(Server)
         /\ Cardinality(S) <= 0 => S = {}
<1>1. IsFiniteSet(S) BY DriftConstants, FS_Subset
<1>2. Cardinality(S) \in Nat /\ Cardinality(T) <= Cardinality(S)
  BY <1>1, FS_CardinalityType, FS_Subset
<1>3. Cardinality(S) <= Cardinality(Server) BY DriftConstants, FS_Subset
<1>4. Cardinality(S) = 0 => S = {} BY <1>1, FS_EmptySet
<1> QED BY <1>2, <1>3, <1>4

LEMMA WrittenNumbers ==
  ASSUME NEW s, Written(s), drifted \in SUBSET Server
  PROVE  /\ s.servers \in Nat /\ s.servers = Cardinality(s.of) /\ s.of \in SUBSET Server
         /\ s.at \in 0..Horizon
         /\ s.servers <= Cardinality(drifted) /\ Cardinality(drifted) \in Nat
<1>1. s \in Summary /\ s.servers = Cardinality(s.of) /\ s.of \subseteq drifted BY DEF Written
<1>2. s.of \in SUBSET Server /\ s.at \in 0..Horizon BY <1>1 DEF Summary
<1> QED BY <1>1, <1>2, Counting

\* A hash too short for a summary someone holds is one the published pair shows too.
LEMMA ShortIsUnsound ==
  ASSUME DriftInv, NEW s, Written(s), Cardinality(fields) < s.servers
  PROVE  ~Sound
<1> SUFFICES ASSUME Sound PROVE FALSE OBVIOUS
<1>1. /\ summary # NoSummary /\ Cardinality(fields) >= summary.servers
  BY DEF Sound, parseLedgerSummary
<1>2. Written(summary) /\ s.of \subseteq summary.of
  BY <1>1 DEF DriftInv, SummaryInv, Written
<1>3. drifted \in SUBSET Server /\ fields \in SUBSET Server
  BY DEF DriftInv, DriftTypes
<1>4. /\ s.servers = Cardinality(s.of) /\ summary.servers = Cardinality(summary.of)
      /\ s.servers \in Nat /\ summary.servers \in Nat
      /\ summary.of \in SUBSET Server
  BY <1>2, <1>3, WrittenNumbers
<1>5. s.servers <= summary.servers BY <1>2, <1>4, Counting
<1>6. Cardinality(fields) \in Nat BY <1>3, Counting
<1> QED BY <1>1, <1>4, <1>5, <1>6

\* A server without a field in a whole hash is not one the summary counts.
LEMMA AbsentMeansNotCounted ==
  ASSUME DriftInv, NEW s, Written(s), NEW v \in Server, v \notin fields,
         Cardinality(fields) >= s.servers
  PROVE  v \notin s.of
<1>1. drifted \in SUBSET Server /\ fields \in {{}, drifted} /\ s.of \subseteq drifted
  BY DEF DriftInv, DriftTypes, Written
<1>2. s.servers = Cardinality(s.of) /\ s.of \in SUBSET Server BY <1>1, WrittenNumbers
<1>3. CASE fields = drifted BY <1>1, <1>3
<1>4. CASE fields = {}
  <2>1. Cardinality(fields) = 0 BY <1>4, FS_EmptySet
  <2>2. Cardinality(s.of) \in Nat BY <1>2, Counting
  <2>3. Cardinality(s.of) <= 0 BY <1>2, <2>1, <2>2
  <2> QED BY <1>2, <2>3, Counting
<1> QED BY <1>1, <1>3, <1>4

\* What `trouble` notes.
LEMMA TroubleNoted ==
  ASSUME DriftInv, NEW failed, Noted(failed), now' \in {now, now + 1}
  PROVE  /\ trouble' \in 0..now' /\ trouble <= trouble'
         /\ failed \/ ~Sound => trouble' = now'
BY DriftConstants DEF DriftInv, DriftTypes, Noted

\* What is written stays written while the drain does not touch the pair.
LEMMA WrittenStays ==
  ASSUME NEW s, Written(s), now \in 0..Horizon, now' \in {now, now + 1}, UNCHANGED drifted,
         UNCHANGED summary
  PROVE  Written(s)'
<1>1. s.at \in 0..Horizon BY DEF Written, Summary
<1> QED BY <1>1, DriftConstants DEF Written, Summary

\* A request that a step leaves alone keeps its part, as trouble only grows.
LEMMA RequestKeeps ==
  ASSUME DriftInv, NEW d \in Reader, read'[d] = read[d], trouble <= trouble',
         trouble' \in 0..Horizon, now' = now,
         read[d].at \in {"field", "count"} => Written(read[d].split)'
  PROVE  ReadInv(d)'
<1>1. read[d] \in Request /\ ReadInv(d) /\ trouble \in 0..now /\ now \in 0..Horizon
  BY DEF DriftInv, DriftTypes
<1>2. read[d].when \in 0..Horizon BY <1>1 DEF Request
<1>3. read[d].said = "unavailable" => read[d].when < trouble' + Ttl
  BY <1>1, <1>2, DriftConstants DEF ReadInv
<1> QED BY <1>1, <1>3 DEF ReadInv

\* The drain writes, or loses what it wrote, under readers that stand still.
LEMMA PairKeeps ==
  ASSUME DriftInv, UNCHANGED <<memo, asking, read, now>>, Noted(FALSE),
         drifted' \subseteq Server, fields' \in {{}, drifted'}, summary' \in Held,
         SummaryInv', \A s \in Summary : Written(s) => Written(s)'
  PROVE  DriftInv'
<1>1. trouble' \in 0..now' /\ trouble <= trouble' BY TroubleNoted
<1>2. DriftTypes' BY <1>1 DEF DriftInv, DriftTypes
<1>3. MemoInv'
  <2>1. memo \in Memo /\ now \in 0..Horizon /\ trouble \in 0..now
    BY DEF DriftInv, DriftTypes
  <2>2. memo.usable => Written(memo.summary)' BY DEF DriftInv, MemoInv, Written
  <2>3. memo.at \in Nat /\ trouble \in Nat /\ trouble' \in Nat
    BY <1>1, <2>1, DriftConstants DEF Memo
  <2>4. memo.set /\ ~memo.usable => memo.at <= trouble' BY <1>1, <2>3 DEF DriftInv, MemoInv
  <2> QED BY <2>2, <2>4 DEF DriftInv, MemoInv
<1>4. AskingInv' BY DEF DriftInv, AskingInv, Written
<1>5. ASSUME NEW d \in Reader PROVE ReadInv(d)'
  <2>1. read[d].at \in {"field", "count"} => Written(read[d].split)'
    BY DEF DriftInv, ReadInv, Written
  <2>2. trouble' \in 0..Horizon BY <1>1, DriftConstants DEF DriftInv, DriftTypes
  <2> QED BY <1>1, <2>1, <2>2, RequestKeeps
<1> QED BY <1>2, <1>3, <1>4, <1>5 DEF DriftInv

LEMMA DrainKeeps ==
  ASSUME DriftInv, DrainWritesHash \/ DrainWritesSummary \/ DrainSkips \/ HashLost
  PROVE  DriftInv'
<1>1. /\ drifted \subseteq Server /\ fields \in {{}, drifted} /\ summary \in Held
      /\ now \in 0..Horizon /\ Horizon \in Nat
  BY DriftConstants DEF DriftInv, DriftTypes
<1>2. CASE DrainWritesHash
  <2>1. /\ drifted' \subseteq Server /\ drifted \subseteq drifted' /\ fields' = drifted'
        /\ UNCHANGED <<summary, memo, asking, read, now>> /\ Noted(FALSE)
    BY <1>1, <1>2 DEF DrainWritesHash
  <2>2. \A s \in Summary : Written(s) => Written(s)' BY <2>1 DEF Written
  <2>3. SummaryInv' BY <2>1 DEF DriftInv, SummaryInv, Written
  <2> QED BY <1>1, <2>1, <2>2, <2>3, PairKeeps
<1>3. CASE DrainWritesSummary
  <2> DEFINE new == [at |-> now, servers |-> Cardinality(drifted), of |-> drifted]
  <2>1. /\ summary' = new /\ UNCHANGED <<drifted, fields, memo, asking, read, now>>
        /\ Noted(FALSE)
    BY <1>3 DEF DrainWritesSummary
  <2>2. new \in Summary
    <3>1. Cardinality(drifted) \in Nat /\ Cardinality(drifted) <= Cardinality(Server)
      BY <1>1, Counting
    <3>2. Cardinality(Server) \in Nat BY DriftConstants, FS_CardinalityType
    <3> QED BY <1>1, <3>1, <3>2 DEF Summary
  <2>3. new.at = now /\ new.servers = Cardinality(drifted) /\ new.of = drifted OBVIOUS
  <2> HIDE DEF new
  <2>4. \A s \in Summary : Written(s) => Written(s)' BY <2>1, <2>3 DEF Written
  <2>5. SummaryInv' BY <1>1, <2>1, <2>2, <2>3 DEF SummaryInv, Written
  <2>6. summary' \in Held BY <2>1, <2>2 DEF Held
  <2> QED BY <1>1, <2>1, <2>4, <2>5, <2>6, PairKeeps
<1>4. CASE DrainSkips
  <2>1. /\ summary' = NoSummary /\ UNCHANGED <<drifted, fields, memo, asking, read, now>>
        /\ Noted(FALSE)
    BY <1>4 DEF DrainSkips
  <2>2. \A s \in Summary : Written(s) => Written(s)' BY <2>1 DEF Written
  <2> QED BY <1>1, <2>1, <2>2, PairKeeps DEF SummaryInv, Held
<1>5. CASE HashLost
  <2>1. /\ fields' = {} /\ UNCHANGED <<drifted, summary, memo, asking, read, now>>
        /\ Noted(FALSE)
    BY <1>5 DEF HashLost
  <2>2. \A s \in Summary : Written(s) => Written(s)' BY <2>1 DEF Written
  <2>3. SummaryInv' BY <2>1 DEF DriftInv, SummaryInv, Written
  <2> QED BY <1>1, <2>1, <2>2, <2>3, PairKeeps
<1> QED BY <1>2, <1>3, <1>4, <1>5

\* Time passes only between the reads of a request, which are far shorter than a tick.
LEMMA TickKeeps == ASSUME DriftInv, Tick PROVE DriftInv'
<1>1. /\ now' = now + 1 /\ now' \in 0..Horizon /\ asking.step = "none"
      /\ UNCHANGED <<drifted, fields, summary, memo, asking, read>>
      /\ \A d \in Reader : read[d].at \notin {"field", "count"}
      /\ now \in 0..Horizon /\ Horizon \in Nat
  BY DriftConstants DEF Tick, published, NotAsking, DriftInv, DriftTypes
<1>2. trouble' \in 0..now' /\ trouble <= trouble' /\ trouble \in 0..now
  BY <1>1, TroubleNoted DEF Tick, DriftInv, DriftTypes
<1>3. DriftTypes' BY <1>1, <1>2 DEF DriftInv, DriftTypes
<1>4. \A s \in Summary : Written(s) => Written(s)'
  BY <1>1 DEF Written, Summary
<1>5. SummaryInv'
  <2>1. summary # NoSummary => Written(summary) /\ summary \in Summary
    BY DEF DriftInv, SummaryInv, Written
  <2> QED BY <1>1, <1>4, <2>1 DEF SummaryInv, Written
<1>6. MemoInv'
  <2>1. memo \in Memo BY DEF DriftInv, DriftTypes
  <2>2. memo.at \in Nat /\ memo.at <= now' BY <1>1, <2>1 DEF Memo, DriftInv, MemoInv
  <2>3. memo.usable => Written(memo.summary)' BY <1>1, <1>4 DEF DriftInv, MemoInv, Written
  <2>4. memo.set /\ ~memo.usable => memo.at <= trouble'
    BY <1>1, <1>2, <2>2 DEF DriftInv, MemoInv
  <2> QED BY <1>1, <2>2, <2>3, <2>4 DEF DriftInv, MemoInv
<1>7. AskingInv' BY <1>1 DEF AskingInv
<1>8. ASSUME NEW d \in Reader PROVE ReadInv(d)'
  <2>1. read[d] \in Request /\ ReadInv(d) BY DEF DriftInv, DriftTypes
  <2>2. read[d].when \in Nat BY <1>1, <2>1 DEF Request
  <2>3. read[d].said = "unavailable" => read[d].when < trouble' + Ttl
    BY <1>1, <1>2, <2>1, <2>2, DriftConstants DEF ReadInv
  <2> QED BY <1>1, <2>1, <2>3 DEF ReadInv
<1> QED BY <1>3, <1>5, <1>6, <1>7, <1>8 DEF DriftInv

\* Readers move while the pair stands still; `trouble` may grow.
Still == /\ UNCHANGED <<drifted, fields, summary, now>>
         /\ trouble <= trouble' /\ trouble' \in 0..now

LEMMA StillKeeps ==
  ASSUME DriftInv, Still
  PROVE  /\ SummaryInv' /\ \A s \in Summary : Written(s) => Written(s)'
         /\ trouble' \in 0..Horizon
         /\ \A d \in Reader : read'[d] = read[d] => ReadInv(d)'
<1>1. now \in 0..Horizon /\ Horizon \in Nat BY DriftConstants DEF DriftInv, DriftTypes
<1>2. trouble' \in 0..Horizon BY <1>1 DEF Still
<1>3. SummaryInv' BY DEF Still, DriftInv, SummaryInv, Written
<1>4. \A s \in Summary : Written(s) => Written(s)' BY DEF Still, Written
<1>5. ASSUME NEW d \in Reader, read'[d] = read[d] PROVE ReadInv(d)'
  <2>1. read[d].at \in {"field", "count"} => Written(read[d].split)'
    BY <1>5 DEF Still, DriftInv, ReadInv, Written
  <2> QED BY <1>2, <1>5, <2>1, RequestKeeps DEF Still
<1> QED BY <1>2, <1>3, <1>4, <1>5

LEMMA MemoStays == ASSUME DriftInv, Still, memo' = memo PROVE MemoInv'
<1>1. memo \in Memo /\ now \in 0..Horizon /\ trouble \in 0..now
  BY DEF DriftInv, DriftTypes
<1>2. memo.at \in Nat /\ trouble \in Nat /\ trouble' \in Nat
  BY <1>1, DriftConstants DEF Memo, Still
<1>3. memo.usable => Written(memo.summary)' BY DEF DriftInv, MemoInv, Written, Still
<1>4. memo.set /\ ~memo.usable => memo.at <= trouble'
  BY <1>2 DEF DriftInv, MemoInv, Still
<1> QED BY <1>3, <1>4 DEF DriftInv, MemoInv, Still

\* One request moves.
LEMMA OneRequest ==
  ASSUME DriftInv, Still, NEW d \in Reader, NEW new \in Request,
         read' = [read EXCEPT ![d] = new], ReadInv(d)', UNCHANGED <<memo, asking>>
  PROVE  DriftInv'
<1>1. DriftTypes' BY DEF DriftInv, DriftTypes, Still
<1>2. read \in [Reader -> Request] BY DEF DriftInv, DriftTypes
<1>3. \A e \in Reader : ReadInv(e)'
  <2> TAKE e \in Reader
  <2>1. CASE e # d BY <1>2, <2>1, StillKeeps
  <2> QED BY <2>1
<1>4. AskingInv' BY DEF DriftInv, AskingInv, Written, Still
<1> QED BY <1>1, <1>3, <1>4, StillKeeps, MemoStays DEF DriftInv

LEMMA IdleIs ==
  \E v : Idle = [at |-> "idle", server |-> v, split |-> NoSummary, said |-> "none",
                 when |-> 0, short |-> FALSE]
<1> DEFINE v == CHOOSE s \in Server : TRUE
<1>1. Idle = [at |-> "idle", server |-> v, split |-> NoSummary, said |-> "none",
              when |-> 0, short |-> FALSE]
  BY Zenon DEF Idle
<1> HIDE DEF v
<1> QED BY <1>1

LEMMA DriftAskKeeps ==
  ASSUME DriftInv, NEW d \in Reader, NEW s \in Server, DriftAsk(d, s)
  PROVE  DriftInv'
<1> DEFINE new == [Idle EXCEPT !.at = "names", !.server = s]
<1>1. read' = [read EXCEPT ![d] = new] /\ Still /\ UNCHANGED <<memo, asking>>
  BY DEF DriftAsk, published, Still, DriftInv, DriftTypes
<1>2. new = [at |-> "names", server |-> s, split |-> NoSummary, said |-> "none",
             when |-> 0, short |-> FALSE]
  <2>1. PICK v : Idle = [at |-> "idle", server |-> v, split |-> NoSummary, said |-> "none",
                         when |-> 0, short |-> FALSE]
    BY IdleIs
  <2>2. new = [[at |-> "idle", server |-> v, split |-> NoSummary, said |-> "none",
                when |-> 0, short |-> FALSE] EXCEPT !.at = "names", !.server = s]
    BY <2>1
  <2> HIDE DEF new
  <2> QED BY <2>2
<1> HIDE DEF new
<1>3. /\ new \in Request /\ new.at = "names" /\ new.said = "none"
  <2>1. 0 \in 0..Horizon /\ NoSummary \in Held BY DriftConstants DEF Held
  <2> QED BY <1>2, <2>1 DEF Request
<1>4. read'[d] = new BY <1>1 DEF DriftInv, DriftTypes
<1>5. ReadInv(d)' BY <1>3, <1>4 DEF ReadInv
<1> QED BY <1>1, <1>3, <1>5, OneRequest

\* A memo as a request may use it.
Usable(m) ==
  /\ m \in Memo /\ m.at <= now /\ now - m.at < Ttl
  /\ m.usable => Written(m.summary) /\ m.at - m.summary.at <= MaxAge
  /\ ~m.usable => m.at <= trouble'

LEMMA UseKeeps ==
  ASSUME DriftInv, Still, NEW d \in Reader, read[d].at \in {"names", "split"},
         NEW m, Usable(m), read'[d] = Use(d, m)
  PROVE  Use(d, m) \in Request /\ ReadInv(d)'
<1>1. /\ read[d] \in Request /\ read[d].said = "none" /\ now \in 0..Horizon
      /\ Horizon \in Nat /\ Ttl \in Nat /\ MaxAge \in Nat
  BY DriftConstants DEF DriftInv, DriftTypes, ReadInv
<1>2. m \in Memo /\ m.at \in Nat /\ m.at <= now /\ now - m.at < Ttl
  BY <1>1 DEF Usable, Memo
<1>3. CASE m.usable
  <2>1. /\ Use(d, m) \in Request /\ Use(d, m).at = "field" /\ Use(d, m).split = m.summary
        /\ Use(d, m).said = "none"
    BY <1>1, <1>2, <1>3 DEF Use, Request, Memo
  <2>2. Written(m.summary) /\ m.at - m.summary.at <= MaxAge /\ m.summary.at \in Nat
    BY <1>1, <1>3 DEF Usable, Written, Summary
  <2>3. now - m.summary.at < MaxAge + Ttl BY <1>1, <1>2, <2>2
  <2> QED BY <2>1, <2>2, <2>3 DEF ReadInv, Written, Still
<1>4. CASE ~m.usable
  <2>1. /\ Use(d, m) \in Request /\ Use(d, m).at = "done" /\ Use(d, m).when = now
        /\ Use(d, m).said = "unavailable"
    BY <1>1, <1>4 DEF Use, Answer, Request
  <2>2. m.at <= trouble' /\ trouble' \in Nat BY <1>1, <1>4 DEF Usable, Still
  <2>3. now < trouble' + Ttl
    <3>1. now \in Nat /\ Ttl \in Nat BY <1>1
    <3>2. \A a, b, c, e \in Nat : a - b < e /\ b <= c => a < c + e OBVIOUS
    <3> QED BY <1>2, <2>2, <3>1, <3>2
  <2> QED BY <2>1, <2>3 DEF ReadInv
<1> QED BY <1>3, <1>4

LEMMA GotNamesKeeps ==
  ASSUME DriftInv, NEW d \in Reader, GotNames(d)
  PROVE  DriftInv'
<1>1. /\ Still /\ read[d].at = "names" /\ memo' = memo /\ trouble' = trouble
      /\ read \in [Reader -> Request] /\ read[d] \in Request /\ now \in 0..Horizon
  BY DEF GotNames, published, Still, DriftInv, DriftTypes
<1>2. CASE Memoised /\ read' = [read EXCEPT ![d] = Use(d, memo)] /\ asking' = asking
  <2>1. read'[d] = Use(d, memo) BY <1>1, <1>2
  <2>2. Usable(memo)
    BY <1>1, <1>2 DEF Usable, Memoised, DriftInv, DriftTypes, MemoInv
  <2>3. Use(d, memo) \in Request /\ ReadInv(d)' BY <1>1, <2>1, <2>2, UseKeeps
  <2>4. PICK new \in Request : new = Use(d, memo) BY <2>3
  <2>5. read' = [read EXCEPT ![d] = new] BY <1>2, <2>4
  <2> QED BY <1>1, <1>2, <2>3, <2>5, OneRequest
<1>3. CASE /\ read' = [read EXCEPT ![d].at = "split"]
           /\ asking' = IF asking = NotAsking THEN [asking EXCEPT !.step = "summary"] ELSE asking
  <2> DEFINE new == [read[d] EXCEPT !.at = "split"]
  <2>1. new \in Request /\ new.at = "split" /\ new.said = "none"
    BY <1>1 DEF Request, DriftInv, ReadInv
  <2>2. read' = [read EXCEPT ![d] = new] BY <1>3
  <2> HIDE DEF new
  <2>3. read'[d] = new BY <1>1, <2>2
  <2>4. ReadInv(d)' BY <2>1, <2>3 DEF ReadInv
  <2>5. asking' \in [step : {"none", "summary", "count"}, split : Held]
        /\ (asking'.step = "count" => asking' = asking)
    BY <1>3 DEF DriftInv, DriftTypes
  <2>6. DriftTypes'
    <3>1. read' \in [Reader -> Request] BY <1>1, <2>1, <2>2
    <3> QED BY <1>1, <2>5, <3>1 DEF DriftInv, DriftTypes, Still
  <2>7. AskingInv' BY <1>1, <2>5 DEF DriftInv, AskingInv, Written, Still
  <2>8. \A e \in Reader : ReadInv(e)'
    <3> TAKE e \in Reader
    <3>1. CASE e # d BY <1>1, <2>2, <3>1, StillKeeps
    <3> QED BY <2>4, <3>1
  <2> QED BY <1>1, <2>6, <2>7, <2>8, StillKeeps, MemoStays DEF DriftInv
<1> QED BY <1>2, <1>3 DEF GotNames

\* The read of the summary and the count ends, and everyone who waits for it goes on.
LEMMA SettleKeeps ==
  ASSUME DriftInv, Still, NEW s \in Held, NEW usable \in BOOLEAN, Settle(s, usable),
         usable => Written(s) /\ now - s.at <= MaxAge,
         ~usable => trouble' = now
  PROVE  DriftInv'
<1> DEFINE m == [at |-> now, summary |-> s, usable |-> usable, set |-> TRUE]
<1>1. /\ now \in 0..Horizon /\ Horizon \in Nat /\ Ttl \in Nat \ {0}
      /\ read \in [Reader -> Request]
  BY DriftConstants DEF DriftInv, DriftTypes
<1>2. /\ memo' = m /\ asking' = NotAsking
      /\ read' = [d \in Reader |-> IF read[d].at = "split" THEN Use(d, m) ELSE read[d]]
  BY DEF Settle
<1>3. /\ m \in Memo /\ m.at = now /\ m.summary = s /\ m.usable = usable
  BY <1>1 DEF Memo
<1> HIDE DEF m
<1>4. Usable(m) BY <1>1, <1>3 DEF Usable
<1>5. ASSUME NEW d \in Reader PROVE read'[d] \in Request /\ ReadInv(d)'
  <2>1. CASE read[d].at = "split"
    <3>1. read'[d] = Use(d, m) BY <1>2, <2>1
    <3> QED BY <1>4, <2>1, <3>1, UseKeeps
  <2>2. CASE read[d].at # "split"
    <3>1. read'[d] = read[d] BY <1>2, <2>2
    <3> QED BY <1>1, <3>1, StillKeeps
  <2> QED BY <2>1, <2>2
<1>6. asking' \in [step : {"none", "summary", "count"}, split : Held]
      /\ asking'.step = "none"
  BY <1>2 DEF NotAsking, Held
<1>7. DriftTypes'
  <2>1. read' \in [Reader -> Request] BY <1>2, <1>5
  <2> QED BY <1>2, <1>3, <1>6, <2>1 DEF DriftInv, DriftTypes, Still
<1>8. AskingInv' BY <1>6 DEF AskingInv
<1>9. MemoInv'
  <2>1. usable => Written(s)' BY StillKeeps DEF Written, Still
  <2>2. memo'.usable => Written(memo.summary)' BY <1>2, <1>3, <2>1 DEF Written
  <2> QED BY <1>1, <1>2, <1>3, <2>2 DEF MemoInv, Still
<1> QED BY <1>5, <1>7, <1>8, <1>9, StillKeeps DEF DriftInv

LEMMA NotedStill ==
  ASSUME DriftInv, NEW failed, Noted(failed), UNCHANGED <<published, now>>
  PROVE  Still /\ (failed \/ ~Sound => trouble' = now)
BY TroubleNoted DEF Still, published

LEMMA SplitSummaryKeeps ==
  ASSUME DriftInv, NEW failed \in BOOLEAN, SplitSummary(failed)
  PROVE  DriftInv'
<1> DEFINE s == IF failed THEN NoSummary ELSE parseLedgerSummary(summary)
<1>2. Still /\ (failed \/ ~Sound => trouble' = now) BY NotedStill DEF SplitSummary
<1>3. CASE s = NoSummary /\ Settle(NoSummary, FALSE)
  <2>1. failed \/ ~Sound BY <1>3 DEF Sound
  <2>2. NoSummary \in Held BY DEF Held
  <2> QED BY <1>2, <1>3, <2>1, <2>2, SettleKeeps
<1>4. CASE s # NoSummary /\ asking' = [step |-> "count", split |-> s] /\ UNCHANGED <<memo, read>>
  <2>1. s = summary /\ summary # NoSummary /\ now - summary.at <= MaxAge
    BY <1>4 DEF parseLedgerSummary
  <2>2. Written(summary) /\ summary \in Held
    BY <2>1 DEF DriftInv, SummaryInv, DriftTypes
  <2>3. asking' = [step |-> "count", split |-> summary] BY <1>4, <2>1
  <2>4. DriftTypes' BY <1>2, <1>4, <2>2, <2>3 DEF DriftInv, DriftTypes, Still
  <2>5. AskingInv' BY <1>2, <2>1, <2>2, <2>3 DEF AskingInv, Written, Still
  <2>6. \A e \in Reader : ReadInv(e)' BY <1>2, <1>4, StillKeeps
  <2> QED BY <1>2, <1>4, <2>4, <2>5, <2>6, StillKeeps, MemoStays DEF DriftInv
<1> QED BY <1>3, <1>4 DEF SplitSummary

LEMMA SplitCountKeeps ==
  ASSUME DriftInv, NEW failed \in BOOLEAN, SplitCount(failed)
  PROVE  DriftInv'
<1> DEFINE s == asking.split
           usable == ~failed /\ Cardinality(fields) >= s.servers
<1>1. Still /\ (failed \/ ~Sound => trouble' = now) BY NotedStill DEF SplitCount
<1>2. Written(s) /\ now - s.at <= MaxAge /\ s \in Held /\ Settle(s, usable)
  BY DEF SplitCount, DriftInv, AskingInv, DriftTypes
<1>3. usable \in BOOLEAN OBVIOUS
<1>4. ~usable => trouble' = now
  <2>1. CASE failed BY <1>1, <2>1
  <2>2. CASE ~failed /\ ~usable
    <3>1. drifted \in SUBSET Server /\ fields \in SUBSET Server
      BY DEF DriftInv, DriftTypes
    <3>2. s.servers \in Nat /\ Cardinality(fields) \in Nat
      BY <1>2, <3>1, WrittenNumbers, Counting
    <3>3. Cardinality(fields) < s.servers BY <2>2, <3>2
    <3> QED BY <1>1, <1>2, <3>3, ShortIsUnsound
  <2> QED BY <2>1, <2>2
<1> HIDE DEF s, usable
<1> QED BY <1>1, <1>2, <1>3, <1>4, SettleKeeps

\* What a request may answer, now that it has looked.
LEMMA AnswerIs ==
  ASSUME NEW d, read[d] \in Request, now \in 0..Horizon,
         NEW said \in {"none", "unavailable", "drifted", "clean"}
  PROVE  /\ Answer(d, said) \in Request
         /\ Answer(d, said).at = "done" /\ Answer(d, said).said = said
         /\ Answer(d, said).when = now /\ Answer(d, said).split = read[d].split
         /\ Answer(d, said).server = read[d].server /\ Answer(d, said).short = read[d].short
BY DEF Answer, Request

LEMMA UnavailableNow ==
  ASSUME DriftInv, Still, NEW d \in Reader, trouble' = now, UNCHANGED <<memo, asking>>,
         read' = [read EXCEPT ![d] = Answer(d, "unavailable")]
  PROVE  DriftInv'
<1>1. /\ read \in [Reader -> Request] /\ read[d] \in Request /\ now \in 0..Horizon
      /\ Horizon \in Nat /\ Ttl \in Nat \ {0}
  BY DriftConstants DEF DriftInv, DriftTypes
<1>2. PICK new \in Request :
        new = Answer(d, "unavailable") /\ new.at = "done" /\ new.said = "unavailable"
        /\ new.when = now
  BY <1>1, AnswerIs
<1>3. read'[d] = new /\ read' = [read EXCEPT ![d] = new] BY <1>1, <1>2
<1>4. new.when < trouble' + Ttl BY <1>1, <1>2
<1>5. ReadInv(d)' BY <1>2, <1>3, <1>4 DEF ReadInv
<1> QED BY <1>3, <1>5, OneRequest

LEMMA FieldKeeps ==
  ASSUME DriftInv, NEW d \in Reader, NEW failed \in BOOLEAN, Field(d, failed)
  PROVE  DriftInv'
<1>1. Still /\ (failed \/ ~Sound => trouble' = now) /\ UNCHANGED <<memo, asking>>
  BY NotedStill DEF Field
<1>2. /\ read \in [Reader -> Request] /\ read[d] \in Request /\ now \in 0..Horizon
      /\ read[d].at = "field" /\ read[d].said = "none" /\ Written(read[d].split)
      /\ now - read[d].split.at < MaxAge + Ttl
  BY DEF Field, DriftInv, DriftTypes, ReadInv
<1>3. CASE failed BY <1>1, <1>3, UnavailableNow DEF Field
<1>4. CASE ~failed /\ read[d].server \in fields
  <2>1. PICK new \in Request :
          /\ new = Answer(d, "drifted") /\ new.at = "done" /\ new.said = "drifted"
          /\ new.when = now /\ new.split = read[d].split
    BY <1>2, AnswerIs
  <2>2. read'[d] = new /\ read' = [read EXCEPT ![d] = new] BY <1>2, <1>4, <2>1 DEF Field
  <2>3. ReadInv(d)' BY <1>2, <2>1, <2>2 DEF ReadInv
  <2> QED BY <1>1, <2>2, <2>3, OneRequest
<1>5. CASE ~failed /\ read[d].server \notin fields
  <2> DEFINE short == Cardinality(fields) < read[d].split.servers
  <2>1. NoField(d) = [read[d] EXCEPT !.at = "count", !.short = short] BY DEF NoField
  <2>2. short \in BOOLEAN OBVIOUS
  <2>3. read[d].server \notin read[d].split.of \/ short
    <3>1. drifted \in SUBSET Server /\ fields \in SUBSET Server
      BY DEF DriftInv, DriftTypes
    <3>2. read[d].split.servers \in Nat /\ Cardinality(fields) \in Nat
      BY <1>2, <3>1, WrittenNumbers, Counting
    <3>3. read[d].server \in Server BY <1>2 DEF Request
    <3> QED BY <1>2, <1>5, <3>2, <3>3, AbsentMeansNotCounted
  <2> HIDE DEF short
  <2>4. PICK new \in Request :
          /\ new = NoField(d) /\ new.at = "count" /\ new.said = "none"
          /\ new.split = read[d].split /\ new.server = read[d].server /\ new.short = short
    BY <1>2, <2>1, <2>2 DEF Request
  <2>5. read'[d] = new /\ read' = [read EXCEPT ![d] = new] BY <1>2, <1>5, <2>4 DEF Field
  <2>6. ReadInv(d)' BY <1>1, <1>2, <2>3, <2>4, <2>5 DEF ReadInv, Written, Still
  <2> QED BY <1>1, <2>5, <2>6, OneRequest
<1> QED BY <1>3, <1>4, <1>5

LEMMA RecountKeeps ==
  ASSUME DriftInv, NEW d \in Reader, NEW failed \in BOOLEAN, Recount(d, failed)
  PROVE  DriftInv'
<1>1. Still /\ (failed \/ ~Sound => trouble' = now) /\ UNCHANGED <<memo, asking>>
  BY NotedStill DEF Recount
<1>2. /\ read \in [Reader -> Request] /\ read[d] \in Request /\ now \in 0..Horizon
      /\ read[d].at = "count" /\ read[d].said = "none" /\ Written(read[d].split)
      /\ now - read[d].split.at < MaxAge + Ttl
      /\ read[d].server \notin read[d].split.of \/ read[d].short
  BY DEF Recount, DriftInv, DriftTypes, ReadInv
<1>3. CASE failed \/ Cardinality(fields) < read[d].split.servers
  <2>1. trouble' = now BY <1>1, <1>2, <1>3, ShortIsUnsound
  <2> QED BY <1>1, <1>3, <2>1, UnavailableNow DEF Recount
<1>4. CASE ~(failed \/ Cardinality(fields) < read[d].split.servers)
  <2>1. PICK new \in Request :
          /\ new = Answer(d, "clean") /\ new.at = "done" /\ new.said = "clean"
          /\ new.when = now /\ new.split = read[d].split /\ new.server = read[d].server
          /\ new.short = read[d].short
    BY <1>2, AnswerIs
  <2>2. read'[d] = new /\ read' = [read EXCEPT ![d] = new] BY <1>2, <1>4, <2>1 DEF Recount
  <2>3. ReadInv(d)' BY <1>2, <2>1, <2>2 DEF ReadInv
  <2> QED BY <1>1, <2>2, <2>3, OneRequest
<1> QED BY <1>3, <1>4

LEMMA DriftStutters == ASSUME DriftInv, UNCHANGED driftVars PROVE DriftInv'
<1>1. Still /\ UNCHANGED <<memo, asking, read>>
  BY DEF driftVars, published, Still, DriftInv, DriftTypes
<1>2. DriftTypes' BY <1>1 DEF Still, DriftInv, DriftTypes, driftVars
<1>3. AskingInv' BY <1>1 DEF DriftInv, AskingInv, Written, Still
<1>4. \A d \in Reader : ReadInv(d)' BY <1>1, StillKeeps
<1> QED BY <1>1, <1>2, <1>3, <1>4, StillKeeps, MemoStays DEF DriftInv
-----------------------------------------------------------------------------
LEMMA InitIInv == Init => IInv
<1> SUFFICES ASSUME Init PROVE IInv OBVIOUS
<1>1. LoadInv
  <2>1. LoadTypeOK
    <3>1. NotAsked \in Call BY DEF NotAsked, Call, Source
    <3>2. call \in [Caller -> Call] BY <3>1 DEF Init, LoadInit
    <3> QED BY <3>2, LoadTypes DEF Init, LoadInit, FileTypes
  <2>2. ParsingInv /\ SourceInv BY DEF Init, LoadInit, ParsingInv, SourceInv, Pipeline
  <2>3. \A c \in Caller : CallerInv(c) BY DEF Init, LoadInit, CallerInv, NotAsked
  <2> QED BY <2>1, <2>2, <2>3 DEF LoadInv
<1>2. DriftTypes
  <2>1. Idle \in Request
    <3>1. (CHOOSE s \in Server : TRUE) \in Server BY Zenon, DriftConstants
    <3>2. Idle.server \in Server BY <3>1 DEF Idle
    <3>3. PICK v : Idle = [at |-> "idle", server |-> v, split |-> NoSummary,
                           said |-> "none", when |-> 0, short |-> FALSE]
      BY IdleIs
    <3>4. v \in Server /\ 0 \in 0..Horizon /\ NoSummary \in Held
      BY <3>2, <3>3, DriftConstants DEF Held
    <3> QED BY <3>3, <3>4 DEF Request
  <2>2. NoMemo \in Memo BY DriftConstants DEF NoMemo, Memo, Held
  <2> QED BY <2>1, <2>2, DriftConstants DEF Init, DriftTypes, NotAsking, Held
<1>3. SummaryInv /\ MemoInv /\ AskingInv
  BY DEF Init, SummaryInv, MemoInv, AskingInv, NoMemo, NotAsking
<1>4. \A d \in Reader : ReadInv(d)
  <2>1. Idle.at = "idle" /\ Idle.said = "none" BY IdleIs
  <2> QED BY <2>1 DEF Init, ReadInv
<1> QED BY <1>1, <1>2, <1>3, <1>4 DEF IInv, DriftInv

LEMMA NextKeeps == IInv /\ [Next]_vars => IInv'
<1> SUFFICES ASSUME IInv, [Next]_vars PROVE IInv' OBVIOUS
<1>1. CASE LoadSteps /\ UNCHANGED driftVars
  BY <1>1, LoadKeeps, DriftStutters DEF IInv
<1>2. CASE DrainWritesHash \/ DrainWritesSummary \/ DrainSkips \/ HashLost
  <2>1. UNCHANGED loadVars
    BY <1>2 DEF DrainWritesHash, DrainWritesSummary, DrainSkips, HashLost
  <2> QED BY <1>2, <2>1, DrainKeeps, LoadStutters DEF IInv
<1>3. CASE Tick BY <1>3, TickKeeps, LoadStutters DEF IInv, Tick
<1>4. ASSUME NEW d \in Reader, NEW s \in Server, DriftAsk(d, s) PROVE IInv'
  <2>1. Ask(Names, "servers") \/ UNCHANGED loadVars BY <1>4 DEF DriftAsk
  <2>2. Names \in Caller /\ "servers" \in Kind BY DriftConstants DEF Kind
  <2>3. LoadInv' BY <2>1, <2>2, AskKeeps, LoadStutters DEF IInv
  <2> QED BY <1>4, <2>3, DriftAskKeeps DEF IInv
<1>5. ASSUME NEW failed \in BOOLEAN, SplitSummary(failed) \/ SplitCount(failed) PROVE IInv'
  <2>1. UNCHANGED loadVars BY <1>5 DEF SplitSummary, SplitCount
  <2> QED BY <1>5, <2>1, SplitSummaryKeeps, SplitCountKeeps, LoadStutters DEF IInv
<1>6. ASSUME NEW d \in Reader, Reads(d) PROVE IInv'
  <2>1. UNCHANGED loadVars BY <1>6 DEF Reads, GotNames, Field, Recount
  <2>2. DriftInv' BY <1>6, GotNamesKeeps, FieldKeeps, RecountKeeps DEF Reads, IInv
  <2> QED BY <2>1, <2>2, LoadStutters DEF IInv
<1>7. CASE UNCHANGED vars BY <1>7, LoadStutters, DriftStutters DEF IInv, vars
<1> QED BY <1>1, <1>2, <1>3, <1>4, <1>5, <1>6, <1>7 DEF Next, Split

LEMMA IInvHolds == Spec => []IInv
BY InitIInv, NextKeeps, PTL DEF Spec
-----------------------------------------------------------------------------
\* Every variable stays in its domain, whatever fails.
THEOREM TypeCorrect == Spec => []TypeOK
<1>1. IInv => TypeOK
  <2> SUFFICES ASSUME IInv PROVE TypeOK OBVIOUS
  <2>1. LoadTypeOK /\ DriftTypes BY DEF IInv, LoadInv, DriftInv
  <2>2. \A d \in Reader : read[d] \in Request BY <2>1 DEF DriftTypes
  <2> QED BY <2>1, <2>2 DEF TypeOK, DriftTypes, Held, Request
<1> QED BY <1>1, IInvHolds, PTL

\* registry.ts: one instance answers everything from one of its two files, reads the
\* snapshot once at a time, and fails nobody a usable index can serve.
THEOREM ReadsAreOne == Spec => []ReadOnce
<1>1. IInv => ReadOnce
  <2> SUFFICES ASSUME IInv PROVE ReadOnce OBVIOUS
  <2>1. /\ parsing = IF snapshot = "reading" THEN 1 ELSE 0
        /\ \A c \in Caller : CallerInv(c) /\ call[c] \in Call
    BY LoadTypes DEF IInv, LoadInv, ParsingInv
  <2>2. \A c \in Caller : call[c].from \subseteq {"index"} \cup Pipeline
    BY <2>1 DEF Call, Source, Pipeline
  <2>3. OneSource BY <2>1, <2>2 DEF OneSource, CallerInv
  <2> QED BY <2>1, <2>3 DEF ReadOnce, OneParseAtATime, IndexMeansNoFailure, CallerInv
<1> QED BY <1>1, IInvHolds, PTL

\* And serverDriftServer.ts: "clean" is true of the summary it is dated by, an answer is
\* young, and "unavailable" is not repeated beyond the memo's life.
THEOREM ReadsAlwaysHold == Spec => []ReadsHold
<1>1. IInv => AnswersHold
  BY DEF IInv, DriftInv, ReadInv, AnswersHold, CleanNeverInvented, AnswerIsFresh,
         UnavailableIsRecent
<1> QED BY <1>1, ReadsAreOne, IInvHolds, PTL DEF ReadsHold

(***************************************************************************)
(* The feed.  What a snapshot has of a name is what the registry had when  *)
(* the name's page was fetched, so whatever differs since was changed no   *)
(* earlier than the snapshot's walk began; and a first-seen file knows     *)
(* every name of each snapshot from its `from` on, at its date or before.  *)
(***************************************************************************)
SnapRow == [pub : Nat, upd : Nat, status : {"active", "deprecated"}]
SnapRows == UNION {[names -> SnapRow] : names \in SUBSET Feed}
Build == [at : Nat, began : Nat, rows : SnapRows, doc : FirstSeen \cup {NoDoc}]
Upstream == [pub : Nat, upd : Nat, status : {"unlisted", "active", "deprecated"}]

\* Rows as they may be at a time t.
RowsBy(rows, t) == \A n \in DOMAIN rows : rows[n].pub <= rows[n].upd /\ rows[n].upd <= t

\* The rows agree with r, or r is of a change since t.
Told(rows, n, r, t) == At(rows, n) = {r} \/ r.upd >= t \/ r.status = "unlisted"

SameOrTold(b, rows) == \A n \in DOMAIN rows : Told(b.rows, n, rows[n], b.began)

Covers(doc, rows) == \A n \in DOMAIN rows : n \in DOMAIN doc.seen /\ doc.seen[n] <= rows[n].pub

\* The doc of a later deployment knows all that this one knew.
Keeps(doc, old) ==
  old # NoDoc =>
    /\ doc # NoDoc /\ doc.from <= old.from
    /\ \A n \in DOMAIN old.seen : n \in DOMAIN doc.seen /\ doc.seen[n] <= old.seen[n]

Folded(b, doc) == doc # NoDoc /\ b.at >= doc.from => Covers(doc, b.rows)

FollowsOn(b, c) == SameOrTold(b, c.rows) /\ Keeps(c.doc, b.doc) /\ Folded(b, c.doc)

BuildOk(b) ==
  /\ b.began <= b.at /\ b.at <= clock /\ RowsBy(b.rows, b.at)
  /\ b.doc # NoDoc => b.doc.from <= b.at /\ Covers(b.doc, b.rows)
  /\ \A n \in Feed : Told(b.rows, n, upstream[n], b.began)
  /\ SameOrTold(b, walk.rows)
  /\ walk.next # 0 => b.at <= walk.began

UpstreamOk(r) ==
  IF r.pub = Never THEN r.status = "unlisted" ELSE r.pub <= r.upd /\ r.upd <= clock

FeedTypes ==
  /\ clock \in 0..LastTick
  /\ upstream \in [Feed -> Upstream]
  /\ walk \in [next : 0..Size + 1, rows : SnapRows, began : Nat]
  /\ builds \in Seq(Build)

WalkOk ==
  /\ walk.began <= clock /\ RowsBy(walk.rows, clock)
  /\ \A n \in DOMAIN walk.rows : n < walk.next
  /\ \A n \in Feed : n < walk.next => Told(walk.rows, n, upstream[n], walk.began)

BuildsOk ==
  /\ \A i \in DOMAIN builds : BuildOk(builds[i])
  /\ \A i, j \in DOMAIN builds : i < j => FollowsOn(builds[i], builds[j])

FeedInv == FeedTypes /\ (\A n \in Feed : UpstreamOk(upstream[n])) /\ WalkOk /\ BuildsOk

LEMMA LeastNat == ASSUME NEW T, T \subseteq Nat, T # {} PROVE \E n \in T : \A m \in T : n <= m
<1>0. PICK R : R = OpToRel(<, Nat) OBVIOUS
<1>1. IsWellFoundedOn(R, Nat) BY <1>0, NatLessThanWellFounded
<1>2. PICK n \in T : \A m \in T : ~(<<m, n>> \in R) BY <1>1, WFMin
<1>3. ASSUME NEW m \in T PROVE n <= m
  <2>1. m \in Nat /\ n \in Nat OBVIOUS
  <2>2. m < n => <<m, n>> \in R BY <1>0, <2>1 DEF OpToRel
  <2> QED BY <1>2, <2>1, <2>2
<1> QED BY <1>3

LEMMA MinIsLeast ==
  ASSUME NEW T, T \subseteq Nat, T # {}
  PROVE  Min(T) \in T /\ Min(T) \in Nat /\ \A m \in T : Min(T) <= m
<1>1. \E n \in T : \A m \in T : n <= m BY LeastNat
<1>2. Min(T) \in T /\ \A m \in T : Min(T) <= m BY <1>1 DEF Min
<1> QED BY <1>2

\* What a merge makes of the file there was and the snapshots.
LEMMA MergeFolds ==
  ASSUME NEW doc \in FirstSeen \cup {NoDoc}, NEW S, S # {},
         \A s \in S : s.rows \in SnapRows /\ s.at \in Nat,
         NEW d, d = mergeFirstSeen(doc, S)
  PROVE  /\ d \in FirstSeen /\ d # NoDoc /\ Keeps(d, doc)
         /\ \A s \in S : d.from <= s.at /\ Covers(d, s.rows)
         /\ d.from \in (IF doc = NoDoc THEN {} ELSE {doc.from}) \cup {s.at : s \in S}
<1>1. PICK seen : seen = IF doc = NoDoc THEN <<>> ELSE doc.seen OBVIOUS
<1>2. PICK names : names = DOMAIN seen \cup UNION {DOMAIN s.rows : s \in S} OBVIOUS
<1>3. PICK dates : dates = [n \in names |-> At(seen, n) \cup {r.pub : r \in UNION {At(s.rows, n) : s \in S}}]
  OBVIOUS
<1>4. PICK ats : ats = (IF doc = NoDoc THEN {} ELSE {doc.from}) \cup {s.at : s \in S} OBVIOUS
<1>5. d = [seen |-> [n \in names |-> Min(dates[n])], from |-> Min(ats)]
  <2>1. \A n \in names : dates[n] = At(seen, n) \cup {r.pub : r \in UNION {At(s.rows, n) : s \in S}}
    BY <1>3
  <2>2. [n \in names |-> Min(dates[n])]
          = [n \in names |-> Min(At(seen, n) \cup {r.pub : r \in UNION {At(s.rows, n) : s \in S}})]
    BY <2>1
  <2> QED BY <1>1, <1>2, <1>4, <2>2 DEF mergeFirstSeen
<1>6. \A n \in DOMAIN seen : n \in Feed /\ seen[n] \in Nat BY <1>1 DEF FirstSeen
<1>7. \A s \in S : \A n \in DOMAIN s.rows : n \in Feed /\ s.rows[n].pub \in Nat
  BY DEF SnapRows, SnapRow
<1>8. ats \subseteq Nat /\ ats # {} BY <1>4 DEF FirstSeen
<1>9. Min(ats) \in ats /\ Min(ats) \in Nat /\ \A t \in ats : Min(ats) <= t BY <1>8, MinIsLeast
<1>10. ASSUME NEW n \in names
       PROVE  Min(dates[n]) \in Nat /\ \A t \in dates[n] : Min(dates[n]) <= t
  <2>1. dates[n] = At(seen, n) \cup {r.pub : r \in UNION {At(s.rows, n) : s \in S}} BY <1>3
  <2>2. dates[n] \subseteq Nat BY <1>6, <1>7, <2>1 DEF At
  <2>3. dates[n] # {}
    <3>1. CASE n \in DOMAIN seen BY <2>1, <3>1 DEF At
    <3>2. CASE \E s \in S : n \in DOMAIN s.rows
      <4>1. PICK s \in S : n \in DOMAIN s.rows BY <3>2
      <4>2. s.rows[n] \in UNION {At(z.rows, n) : z \in S} BY <4>1 DEF At
      <4> QED BY <2>1, <4>2
    <3> QED BY <1>2, <3>1, <3>2
  <2> QED BY <2>2, <2>3, MinIsLeast
<1>11. names \subseteq Feed BY <1>2, <1>6, <1>7
<1>12. d \in FirstSeen
  <2>1. [n \in names |-> Min(dates[n])] \in [names -> Nat] BY <1>10
  <2> QED BY <1>5, <1>9, <1>11, <2>1 DEF FirstSeen
<1>13. d # NoDoc BY <1>12, FeedConstants
<1>14. d.from = Min(ats) /\ DOMAIN d.seen = names /\ \A n \in names : d.seen[n] = Min(dates[n]) BY <1>5
<1>15. Keeps(d, doc)
  <2> SUFFICES ASSUME doc # NoDoc
               PROVE d.from <= doc.from
                     /\ \A n \in DOMAIN doc.seen : n \in DOMAIN d.seen /\ d.seen[n] <= doc.seen[n]
    BY <1>13 DEF Keeps
  <2>1. doc.from \in ats BY <1>4
  <2>2. ASSUME NEW n \in DOMAIN doc.seen PROVE n \in DOMAIN d.seen /\ d.seen[n] <= doc.seen[n]
    <3>1. seen = doc.seen /\ n \in names BY <1>1, <1>2
    <3>2. doc.seen[n] \in dates[n] BY <1>3, <3>1 DEF At
    <3> QED BY <1>10, <1>14, <3>1, <3>2
  <2> QED BY <1>9, <1>14, <2>1, <2>2
<1>16. ASSUME NEW s \in S PROVE d.from <= s.at /\ Covers(d, s.rows)
  <2>1. s.at \in ats BY <1>4
  <2>2. ASSUME NEW n \in DOMAIN s.rows PROVE n \in DOMAIN d.seen /\ d.seen[n] <= s.rows[n].pub
    <3>1. n \in names BY <1>2
    <3>2. s.rows[n] \in UNION {At(z.rows, n) : z \in S} BY DEF At
    <3>3. s.rows[n].pub \in dates[n] BY <1>3, <3>1, <3>2
    <3> QED BY <1>10, <1>14, <3>1, <3>3
  <2> QED BY <1>9, <1>14, <2>1, <2>2 DEF Covers
<1> QED BY <1>4, <1>9, <1>12, <1>13, <1>14, <1>15, <1>16

LEMMA FeedBegins == FeedInit => FeedInv
<1> SUFFICES ASSUME FeedInit PROVE FeedInv OBVIOUS
<1>1. /\ upstream = [n \in Feed |-> [pub |-> Never, upd |-> Never, status |-> "unlisted"]]
      /\ walk = [next |-> 0, rows |-> <<>>, began |-> 0] /\ builds = <<>> /\ clock = 0
  BY DEF FeedInit, NoWalk
<1>2. Never \in Nat BY FeedConstants DEF Never
<1>3. <<>> \in SnapRows
  <2>1. <<>> \in [{} -> SnapRow] OBVIOUS
  <2> QED BY <2>1 DEF SnapRows
<1>4. walk \in [next : 0..Size + 1, rows : SnapRows, began : Nat] BY <1>1, <1>3, FeedConstants
<1>5. upstream \in [Feed -> Upstream] BY <1>1, <1>2 DEF Upstream
<1>6. FeedTypes BY <1>1, <1>4, <1>5, FeedConstants DEF FeedTypes
<1>7. \A n \in Feed : UpstreamOk(upstream[n]) BY <1>1 DEF UpstreamOk
<1>8. WalkOk BY <1>1 DEF WalkOk, RowsBy, Feed
<1>9. BuildsOk BY <1>1 DEF BuildsOk
<1> QED BY <1>6, <1>7, <1>8, <1>9 DEF FeedInv

\* A name the registry changes now differs from what was fetched, but by a change of now.
LEMMA TouchKeeps ==
  ASSUME FeedInv, NEW n \in Feed, NEW row \in Upstream, row.upd = clock, UpstreamOk(row), Touch(n, row)
  PROVE  FeedInv'
<1>1. upstream' = [upstream EXCEPT ![n] = row] /\ UNCHANGED <<walk, builds, clock>> BY DEF Touch
<1>2. FeedTypes /\ WalkOk /\ BuildsOk BY DEF FeedInv
<1>3. \A m \in Feed : upstream'[m] = IF m = n THEN row ELSE upstream[m] BY <1>1, <1>2 DEF FeedTypes
<1>4. FeedTypes' BY <1>1, <1>2 DEF FeedTypes
<1>5. \A m \in Feed : UpstreamOk(upstream[m])' BY <1>1, <1>3 DEF FeedInv, UpstreamOk
<1>6. WalkOk'
  <2>1. walk.began <= clock /\ RowsBy(walk.rows, clock) /\ \A m \in DOMAIN walk.rows : m < walk.next
    BY <1>2 DEF WalkOk
  <2>2. ASSUME NEW m \in Feed, m < walk.next PROVE Told(walk.rows, m, upstream'[m], walk.began)
    <3>1. CASE m = n BY <1>3, <2>1, <3>1 DEF Told
    <3>2. CASE m # n BY <1>2, <1>3, <2>2, <3>2 DEF WalkOk
    <3> QED BY <3>1, <3>2
  <2> QED BY <1>1, <2>1, <2>2 DEF WalkOk
<1>7. BuildsOk'
  <2>1. ASSUME NEW i \in DOMAIN builds PROVE BuildOk(builds[i])'
    <3>1. BuildOk(builds[i]) /\ builds[i] \in Build BY <1>2 DEF BuildsOk, FeedTypes
    <3>2. builds[i].began <= clock BY <1>2, <3>1 DEF BuildOk, Build, FeedTypes
    <3>3. ASSUME NEW m \in Feed PROVE Told(builds[i].rows, m, upstream'[m], builds[i].began)
      <4>1. CASE m = n BY <1>3, <3>2, <4>1 DEF Told
      <4>2. CASE m # n BY <1>3, <3>1, <4>2 DEF BuildOk
      <4> QED BY <4>1, <4>2
    <3> QED BY <1>1, <3>1, <3>3 DEF BuildOk
  <2> QED BY <1>1, <1>2, <2>1 DEF BuildsOk
<1> QED BY <1>4, <1>5, <1>6, <1>7 DEF FeedInv

LEMMA RegistryKeeps ==
  ASSUME FeedInv, NEW n \in Feed,
         Release(n) \/ \E s \in {"unlisted", "active", "deprecated"} : SetStatus(n, s)
  PROVE  FeedInv'
<1>1. clock \in 0..LastTick /\ upstream[n] \in Upstream /\ UpstreamOk(upstream[n])
  BY DEF FeedInv, FeedTypes
<1>2. clock \in Nat /\ clock # Never BY <1>1, FeedConstants DEF Never
<1>3. CASE Release(n)
  <2>1. PICK row : row = [pub |-> clock, upd |-> clock, status |-> "active"] OBVIOUS
  <2>2. row \in Upstream /\ row.upd = clock /\ UpstreamOk(row) BY <1>2, <2>1 DEF Upstream, UpstreamOk
  <2>3. Touch(n, row) BY <1>3, <2>1 DEF Release
  <2> QED BY <2>2, <2>3, TouchKeeps
<1>4. CASE \E s \in {"unlisted", "active", "deprecated"} : SetStatus(n, s)
  <2>1. PICK s \in {"unlisted", "active", "deprecated"} : SetStatus(n, s) BY <1>4
  <2>2. PICK row : row = [upstream[n] EXCEPT !.upd = clock, !.status = s] OBVIOUS
  <2>3. row = [pub |-> upstream[n].pub, upd |-> clock, status |-> s] BY <1>1, <2>2 DEF Upstream
  <2>4. upstream[n].pub # Never /\ Touch(n, row) BY <2>1, <2>2 DEF SetStatus
  <2>5. upstream[n].pub \in Nat /\ upstream[n].upd \in Nat BY <1>1 DEF Upstream
  <2>6. upstream[n].pub <= clock BY <1>1, <1>2, <2>4, <2>5 DEF UpstreamOk
  <2>7. row \in Upstream /\ row.upd = clock /\ UpstreamOk(row)
    <3>1. row.pub = upstream[n].pub /\ row.upd = clock BY <2>3
    <3>2. row \in Upstream BY <1>2, <2>3, <2>5 DEF Upstream
    <3>3. UpstreamOk(row) BY <1>2, <2>4, <2>6, <3>1 DEF UpstreamOk
    <3> QED BY <3>1, <3>2, <3>3
  <2> QED BY <2>4, <2>7, TouchKeeps
<1> QED BY <1>3, <1>4

LEMMA FeedTicks == ASSUME FeedInv, ClockTicks PROVE FeedInv'
<1>1. clock' = clock + 1 /\ clock' \in 0..LastTick /\ UNCHANGED <<upstream, walk, builds>>
  BY FeedConstants DEF ClockTicks, FeedInv, FeedTypes
<1>2. clock \in Nat /\ clock' \in Nat BY <1>1, FeedConstants DEF FeedInv, FeedTypes
<1>3. FeedTypes' BY <1>1 DEF FeedInv, FeedTypes
<1>4. \A n \in Feed : UpstreamOk(upstream[n])'
  <2> SUFFICES ASSUME NEW n \in Feed PROVE UpstreamOk(upstream[n])' OBVIOUS
  <2>1. UpstreamOk(upstream[n]) /\ upstream[n] \in Upstream BY DEF FeedInv, FeedTypes
  <2> QED BY <1>1, <1>2, <2>1 DEF UpstreamOk, Upstream
<1>5. \A n \in DOMAIN walk.rows : walk.rows[n] \in SnapRow BY DEF FeedInv, FeedTypes, SnapRows
<1>6. WalkOk'
  <2>1. walk.began \in Nat /\ walk.began <= clock' /\ \A n \in DOMAIN walk.rows : n < walk.next
    BY <1>1, <1>2 DEF FeedInv, FeedTypes, WalkOk
  <2>2. RowsBy(walk.rows, clock') BY <1>1, <1>2, <1>5 DEF FeedInv, WalkOk, RowsBy, SnapRow
  <2> QED BY <1>1, <1>2, <2>1, <2>2 DEF FeedInv, WalkOk
<1>7. ASSUME NEW i \in DOMAIN builds PROVE BuildOk(builds[i])'
  <2>1. BuildOk(builds[i]) /\ builds[i] \in Build BY DEF FeedInv, BuildsOk, FeedTypes
  <2>2. builds[i].at <= clock' BY <1>1, <1>2, <2>1 DEF BuildOk, Build
  <2> QED BY <1>1, <2>1, <2>2 DEF BuildOk
<1>8. BuildsOk' BY <1>1, <1>7 DEF FeedInv, BuildsOk
<1> QED BY <1>3, <1>4, <1>6, <1>8 DEF FeedInv

\* A page brings of one name what the registry has of it.
LEMMA RowComes ==
  ASSUME FeedInv, NEW rows \in SnapRows, RowsBy(rows, clock), NEW n \in Feed, n \notin DOMAIN rows,
         NEW w, w = WithRow(rows, n)
  PROVE  /\ w \in SnapRows /\ RowsBy(w, clock) /\ DOMAIN w \subseteq DOMAIN rows \cup {n}
         /\ \A t : Told(w, n, upstream[n], t)
         /\ \A m \in Feed \ {n} : At(w, m) = At(rows, m)
         /\ \A b : SameOrTold(b, rows) /\ Told(b.rows, n, upstream[n], b.began) => SameOrTold(b, w)
<1>1. PICK here : here = IF upstream[n].status = "unlisted" THEN {} ELSE {n} OBVIOUS
<1>2. w = [m \in DOMAIN rows \cup here |-> IF m = n THEN upstream[n] ELSE rows[m]]
  BY <1>1 DEF WithRow
<1>3. upstream[n] \in Upstream /\ UpstreamOk(upstream[n]) BY DEF FeedInv, FeedTypes
<1>4. PICK names \in SUBSET Feed : rows \in [names -> SnapRow] BY DEF SnapRows
<1>5. n \in DOMAIN w => w[n] = upstream[n] /\ upstream[n].status # "unlisted" BY <1>1, <1>2
<1>6. \A m \in DOMAIN w \ {n} : m \in DOMAIN rows /\ w[m] = rows[m] BY <1>1, <1>2
<1>7. n \in DOMAIN w => w[n] \in SnapRow /\ w[n].pub <= w[n].upd /\ w[n].upd <= clock
  <2> SUFFICES ASSUME n \in DOMAIN w
               PROVE upstream[n] \in SnapRow /\ upstream[n].pub <= upstream[n].upd /\ upstream[n].upd <= clock
    BY <1>5
  <2>1. upstream[n].status # "unlisted" BY <1>5
  <2>2. upstream[n] \in SnapRow BY <1>3, <2>1 DEF Upstream, SnapRow
  <2> QED BY <1>3, <2>1, <2>2 DEF UpstreamOk
<1>8. w \in SnapRows
  <2>1. \A m \in DOMAIN w : m \in Feed /\ w[m] \in SnapRow BY <1>4, <1>6, <1>7
  <2>2. w \in [DOMAIN w -> SnapRow] BY <1>2, <2>1
  <2> QED BY <2>1, <2>2 DEF SnapRows
<1>9. RowsBy(w, clock) BY <1>6, <1>7 DEF RowsBy
<1>10. DOMAIN w \subseteq DOMAIN rows \cup {n} BY <1>1, <1>2
<1>11. \A t : Told(w, n, upstream[n], t)
  <2>1. CASE upstream[n].status = "unlisted" BY <2>1 DEF Told
  <2>2. CASE upstream[n].status # "unlisted"
    <3>1. n \in DOMAIN w BY <1>1, <1>2, <2>2
    <3> QED BY <1>5, <3>1 DEF Told, At
  <2> QED BY <2>1, <2>2
<1>12. ASSUME NEW m \in Feed \ {n} PROVE At(w, m) = At(rows, m)
  <2>1. m \in DOMAIN rows => m \in DOMAIN w BY <1>2
  <2> QED BY <1>6, <2>1 DEF At
<1>13. \A b : SameOrTold(b, rows) /\ Told(b.rows, n, upstream[n], b.began) => SameOrTold(b, w)
  BY <1>5, <1>6 DEF SameOrTold
<1> QED BY <1>8, <1>9, <1>10, <1>11, <1>12, <1>13

LEMMA WalkKeeps == ASSUME FeedInv, WalkBegins \/ WalkPage \/ WalkFails PROVE FeedInv'
<1>1. FeedTypes /\ WalkOk /\ BuildsOk BY DEF FeedInv
<1>2. UNCHANGED <<upstream, builds, clock>> BY DEF WalkBegins, WalkPage, WalkFails
<1>3. <<>> \in SnapRows /\ DOMAIN <<>> = {}
  <2>1. <<>> \in [{} -> SnapRow] OBVIOUS
  <2> QED BY <2>1 DEF SnapRows
<1>4. clock \in Nat /\ Size \in Nat /\ Size >= 1 BY <1>1, FeedConstants DEF FeedTypes
<1>5. \A b : SameOrTold(b, <<>>) BY <1>3 DEF SameOrTold
<1>6. \A n \in Feed : UpstreamOk(upstream[n])' BY <1>2 DEF FeedInv, UpstreamOk
<1>7. SUFFICES /\ walk' \in [next : 0..Size + 1, rows : SnapRows, began : Nat]
               /\ WalkOk'
               /\ \A i \in DOMAIN builds :
                    SameOrTold(builds[i], walk'.rows) /\ (walk'.next # 0 => builds[i].at <= walk'.began)
  <2>1. ASSUME NEW i \in DOMAIN builds,
               SameOrTold(builds[i], walk'.rows) /\ (walk'.next # 0 => builds[i].at <= walk'.began)
        PROVE  BuildOk(builds[i])'
    <3>1. BuildOk(builds[i]) BY <1>1 DEF BuildsOk
    <3> QED BY <1>2, <2>1, <3>1 DEF BuildOk
  <2> QED BY <1>1, <1>2, <1>6, <2>1 DEF FeedInv, FeedTypes, BuildsOk
<1>8. CASE WalkBegins
  <2>1. PICK w : w = WithRow(<<>>, 1) OBVIOUS
  <2>2. walk' = [next |-> 2, rows |-> w, began |-> clock] BY <1>8, <2>1 DEF WalkBegins
  <2>3. 1 \in Feed BY <1>4 DEF Feed
  <2>4. RowsBy(<<>>, clock) BY <1>3 DEF RowsBy
  <2>5. /\ w \in SnapRows /\ RowsBy(w, clock) /\ DOMAIN w \subseteq {1}
        /\ \A t : Told(w, 1, upstream[1], t)
        /\ \A b : Told(b.rows, 1, upstream[1], b.began) => SameOrTold(b, w)
    BY <1>3, <1>5, <2>1, <2>3, <2>4, RowComes
  <2>6. walk' \in [next : 0..Size + 1, rows : SnapRows, began : Nat] BY <1>4, <2>2, <2>5
  <2>7. WalkOk' BY <1>2, <1>4, <2>2, <2>5 DEF WalkOk, Feed
  <2>8. ASSUME NEW i \in DOMAIN builds
        PROVE  SameOrTold(builds[i], w) /\ builds[i].at <= clock
    BY <1>1, <2>3, <2>5 DEF BuildsOk, BuildOk
  <2> QED BY <2>2, <2>6, <2>7, <2>8
<1>9. CASE WalkPage
  <2>1. PICK n, w : n = walk.next /\ w = WithRow(walk.rows, walk.next) OBVIOUS
  <2>2. n \in Feed BY <1>9, <2>1 DEF WalkPage
  <2>3. walk' = [next |-> n + 1, rows |-> w, began |-> walk.began]
    BY <1>1, <1>9, <2>1 DEF WalkPage, FeedTypes
  <2>4. n \notin DOMAIN walk.rows /\ n \in Nat BY <1>1, <2>1, <2>2 DEF WalkOk, Feed
  <2>5. /\ w \in SnapRows /\ RowsBy(w, clock) /\ DOMAIN w \subseteq DOMAIN walk.rows \cup {n}
        /\ \A t : Told(w, n, upstream[n], t)
        /\ \A m \in Feed \ {n} : At(w, m) = At(walk.rows, m)
        /\ \A b : SameOrTold(b, walk.rows) /\ Told(b.rows, n, upstream[n], b.began) => SameOrTold(b, w)
    BY <1>1, <2>1, <2>2, <2>4, RowComes DEF FeedTypes, WalkOk
  <2>6. walk' \in [next : 0..Size + 1, rows : SnapRows, began : Nat]
    BY <1>1, <1>4, <2>2, <2>3, <2>5 DEF FeedTypes, Feed
  <2>7. WalkOk'
    <3>1. DOMAIN walk.rows \subseteq Feed BY <1>1 DEF FeedTypes, SnapRows
    <3>2. \A m \in DOMAIN w : m < n + 1
      <4> SUFFICES ASSUME NEW m \in DOMAIN w PROVE m < n + 1 OBVIOUS
      <4>1. m = n \/ (m \in Nat /\ m < n) BY <1>1, <2>1, <2>5, <3>1 DEF WalkOk, Feed
      <4> QED BY <2>4, <4>1
    <3>3. ASSUME NEW m \in Feed, m < n + 1 PROVE Told(w, m, upstream[m], walk.began)
      <4>1. CASE m = n BY <2>5, <4>1
      <4>2. CASE m # n
        <5>1. m < n BY <2>4, <3>3, <4>2 DEF Feed
        <5>2. Told(walk.rows, m, upstream[m], walk.began) BY <1>1, <2>1, <5>1 DEF WalkOk
        <5> QED BY <2>5, <4>2, <5>2 DEF Told
      <4> QED BY <4>1, <4>2
    <3>4. walk.began <= clock BY <1>1 DEF WalkOk
    <3> QED BY <1>2, <2>3, <2>5, <3>2, <3>3, <3>4 DEF WalkOk
  <2>8. ASSUME NEW i \in DOMAIN builds
        PROVE  SameOrTold(builds[i], w) /\ builds[i].at <= walk.began
    <3>1. walk.next # 0 BY <2>1, <2>2 DEF Feed
    <3> QED BY <1>1, <2>2, <2>5, <3>1 DEF BuildsOk, BuildOk
  <2> QED BY <2>3, <2>6, <2>7, <2>8
<1>10. CASE WalkFails
  <2>1. walk' = [next |-> 0, rows |-> <<>>, began |-> 0] BY <1>10 DEF WalkFails, NoWalk
  <2>2. walk' \in [next : 0..Size + 1, rows : SnapRows, began : Nat] BY <1>3, <1>4, <2>1
  <2>3. WalkOk' BY <1>2, <1>3, <1>4, <2>1 DEF WalkOk, RowsBy, Feed
  <2> QED BY <1>5, <2>1, <2>2, <2>3
<1> QED BY <1>8, <1>9, <1>10

\* A deployment of a snapshot that agrees with what is upstream, and a file that knows all
\* the earlier one did and the snapshots since its `from`.
LEMMA DeployKeeps ==
  ASSUME FeedInv, NEW b \in Build, builds' = Append(builds, b), UNCHANGED <<upstream, clock>>,
         \A i \in DOMAIN builds : FollowsOn(builds[i], b),
         b.began <= b.at, b.at <= clock, RowsBy(b.rows, b.at),
         b.doc # NoDoc => b.doc.from <= b.at /\ Covers(b.doc, b.rows),
         \A n \in Feed : Told(b.rows, n, upstream[n], b.began),
         \/ walk' = NoWalk
         \/ walk' = walk /\ SameOrTold(b, walk.rows) /\ (walk.next # 0 => b.at <= walk.began)
  PROVE  FeedInv'
<1>1. FeedTypes /\ WalkOk /\ BuildsOk BY DEF FeedInv
<1>2. <<>> \in SnapRows /\ DOMAIN <<>> = {}
  <2>1. <<>> \in [{} -> SnapRow] OBVIOUS
  <2> QED BY <2>1 DEF SnapRows
<1>3. clock \in Nat /\ Size \in Nat BY <1>1, FeedConstants DEF FeedTypes
<1>4. \A n \in Feed : UpstreamOk(upstream[n])' BY DEF FeedInv, UpstreamOk
<1>5. walk' = [next |-> 0, rows |-> <<>>, began |-> 0] \/ walk' = walk BY DEF NoWalk
<1>6. walk' \in [next : 0..Size + 1, rows : SnapRows, began : Nat]
  BY <1>1, <1>2, <1>3, <1>5 DEF FeedTypes
<1>7. WalkOk'
  <2>1. CASE walk' = [next |-> 0, rows |-> <<>>, began |-> 0]
    BY <1>2, <1>3, <2>1 DEF WalkOk, RowsBy, Feed
  <2>2. CASE walk' = walk BY <1>1, <2>2 DEF WalkOk
  <2> QED BY <1>5, <2>1, <2>2
<1>8. FeedTypes' BY <1>1, <1>6 DEF FeedTypes
<1>9. PICK k : k = Len(builds) + 1 OBVIOUS
<1>10. /\ k \in Nat /\ builds \in Seq(Build) /\ DOMAIN builds = 1..(k - 1) /\ DOMAIN builds' = 1..k
       /\ builds'[k] = b /\ \A i \in DOMAIN builds : builds'[i] = builds[i]
  BY <1>1, <1>9 DEF FeedTypes
<1>11. \A c : SameOrTold(c, <<>>) BY <1>2 DEF SameOrTold
<1>12. ASSUME NEW i \in DOMAIN builds' PROVE BuildOk(builds[i])'
  <2>1. CASE i = k
    <3>1. SameOrTold(b, walk'.rows) /\ (walk'.next # 0 => b.at <= walk'.began) BY <1>5, <1>11 DEF NoWalk
    <3> QED BY <1>10, <2>1, <3>1 DEF BuildOk
  <2>2. CASE i \in DOMAIN builds
    <3>1. BuildOk(builds[i]) BY <1>1, <2>2 DEF BuildsOk
    <3>2. SameOrTold(builds[i], walk'.rows) /\ (walk'.next # 0 => builds[i].at <= walk'.began)
      BY <1>5, <1>11, <3>1 DEF BuildOk
    <3> QED BY <1>10, <2>2, <3>1, <3>2 DEF BuildOk
  <2> QED BY <1>10, <2>1, <2>2
<1>13. ASSUME NEW i \in DOMAIN builds', NEW j \in DOMAIN builds', i < j
       PROVE  FollowsOn(builds'[i], builds'[j])
  <2>1. i \in DOMAIN builds /\ builds'[i] = builds[i] BY <1>10, <1>13
  <2>2. CASE j = k BY <1>10, <2>1, <2>2
  <2>3. CASE j \in DOMAIN builds BY <1>1, <1>10, <1>13, <2>1, <2>3 DEF BuildsOk
  <2> QED BY <1>10, <2>2, <2>3
<1> QED BY <1>4, <1>7, <1>8, <1>12, <1>13 DEF FeedInv, BuildsOk

LEMMA KeepsOn ==
  ASSUME NEW c \in FirstSeen \cup {NoDoc}, NEW d \in FirstSeen \cup {NoDoc},
         NEW e \in FirstSeen \cup {NoDoc}, NEW rows \in SnapRows
  PROVE  /\ Keeps(c, c)
         /\ Keeps(d, c) /\ Keeps(e, d) => Keeps(e, c)
         /\ c # NoDoc /\ Keeps(d, c) /\ Covers(c, rows) => Covers(d, rows)
<1>1. \A x \in {c, d, e} : x # NoDoc => x.from \in Nat /\ \A n \in DOMAIN x.seen : x.seen[n] \in Nat
  BY DEF FirstSeen
<1>2. \A n \in DOMAIN rows : rows[n].pub \in Nat BY DEF SnapRows, SnapRow
<1>3. Keeps(c, c) BY <1>1 DEF Keeps
<1>4. ASSUME Keeps(d, c), Keeps(e, d), c # NoDoc
      PROVE  /\ e # NoDoc /\ e.from <= c.from
             /\ \A n \in DOMAIN c.seen : n \in DOMAIN e.seen /\ e.seen[n] <= c.seen[n]
  <2>1. /\ d # NoDoc /\ d.from <= c.from
        /\ \A n \in DOMAIN c.seen : n \in DOMAIN d.seen /\ d.seen[n] <= c.seen[n]
    BY <1>4 DEF Keeps
  <2>2. /\ e # NoDoc /\ e.from <= d.from
        /\ \A n \in DOMAIN d.seen : n \in DOMAIN e.seen /\ e.seen[n] <= d.seen[n]
    BY <1>4, <2>1 DEF Keeps
  <2>3. e.from <= c.from BY <1>1, <1>4, <2>1, <2>2
  <2>4. ASSUME NEW n \in DOMAIN c.seen PROVE n \in DOMAIN e.seen /\ e.seen[n] <= c.seen[n]
    <3>1. n \in DOMAIN d.seen /\ n \in DOMAIN e.seen /\ d.seen[n] <= c.seen[n] /\ e.seen[n] <= d.seen[n]
      BY <2>1, <2>2
    <3> QED BY <1>1, <1>4, <2>1, <2>2, <3>1
  <2> QED BY <2>2, <2>3, <2>4
<1>5. ASSUME c # NoDoc, Keeps(d, c), Covers(c, rows) PROVE Covers(d, rows)
  <2> SUFFICES ASSUME NEW n \in DOMAIN rows PROVE n \in DOMAIN d.seen /\ d.seen[n] <= rows[n].pub
    BY DEF Covers
  <2>1. n \in DOMAIN c.seen /\ c.seen[n] <= rows[n].pub BY <1>5 DEF Covers
  <2>2. d # NoDoc /\ n \in DOMAIN d.seen /\ d.seen[n] <= c.seen[n] BY <1>5, <2>1 DEF Keeps
  <2> QED BY <1>1, <1>2, <1>5, <2>1, <2>2
<1> QED BY <1>3, <1>4, <1>5 DEF Keeps

\* The last deployment follows on every one there is, itself too.
LEMMA LastFollows ==
  ASSUME FeedInv, builds # <<>>
  PROVE  /\ Len(builds) \in DOMAIN builds /\ builds[Len(builds)] \in Build
         /\ BuildOk(builds[Len(builds)])
         /\ \A i \in DOMAIN builds : builds[i] \in Build /\ FollowsOn(builds[i], builds[Len(builds)])
<1>1. builds \in Seq(Build) /\ BuildsOk BY DEF FeedInv, FeedTypes
<1>2. PICK k : k = Len(builds) OBVIOUS
<1>3. k \in DOMAIN builds /\ DOMAIN builds = 1..k /\ k \in Nat BY <1>1, <1>2
<1>4. BuildOk(builds[k]) /\ builds[k] \in Build BY <1>1, <1>3 DEF BuildsOk
<1>5. ASSUME NEW i \in DOMAIN builds PROVE FollowsOn(builds[i], builds[k])
  <2>1. CASE i = k
    <3>1. PICK b : b = builds[k] OBVIOUS
    <3>2. b \in Build /\ BuildOk(b) BY <1>4, <3>1
    <3>3. SameOrTold(b, b.rows) BY DEF SameOrTold, Told, At
    <3>4. Keeps(b.doc, b.doc)
      <4>1. b.doc \in FirstSeen \cup {NoDoc} /\ b.rows \in SnapRows BY <3>2 DEF Build
      <4> QED BY <4>1, KeepsOn
    <3>5. Folded(b, b.doc) BY <3>2 DEF Folded, BuildOk
    <3> QED BY <2>1, <3>1, <3>3, <3>4, <3>5 DEF FollowsOn
  <2>2. CASE i # k
    <3>1. i < k BY <1>3, <2>2
    <3> QED BY <1>1, <1>3, <3>1 DEF BuildsOk
  <2> QED BY <2>1, <2>2
<1> QED BY <1>1, <1>2, <1>3, <1>4, <1>5

LEMMA SyncKeeps == ASSUME FeedInv, NEW withDoc \in BOOLEAN, SyncWrites(withDoc) PROVE FeedInv'
<1>1. FeedTypes /\ WalkOk /\ BuildsOk BY DEF FeedInv
<1>2. PICK s : s = [at |-> clock, began |-> walk.began, rows |-> walk.rows] OBVIOUS
<1>3. PICK d : d = IF withDoc THEN mergeFirstSeen(LastDoc, {s}) ELSE NoDoc OBVIOUS
<1>4. PICK b : b = [at |-> clock, began |-> walk.began, rows |-> walk.rows, doc |-> d] OBVIOUS
<1>5. /\ walk.next = Size + 1 /\ walk.began < clock /\ (withDoc \/ LastDoc = NoDoc)
      /\ builds' = Append(builds, b) /\ walk' = NoWalk /\ UNCHANGED <<upstream, clock>>
  BY <1>2, <1>3, <1>4 DEF SyncWrites
<1>6. /\ clock \in Nat /\ walk.began \in Nat /\ walk.rows \in SnapRows /\ RowsBy(walk.rows, clock)
      /\ \A n \in Feed : n < walk.next => Told(walk.rows, n, upstream[n], walk.began)
  BY <1>1, FeedConstants DEF FeedTypes, WalkOk
<1>7. \A n \in Feed : Told(walk.rows, n, upstream[n], walk.began)
  <2>1. \A n \in Feed : n < Size + 1 BY FeedConstants DEF Feed
  <2> QED BY <1>5, <1>6, <2>1
<1>8. LastDoc \in FirstSeen \cup {NoDoc}
  <2>1. CASE builds = <<>> BY <2>1 DEF LastDoc
  <2>2. CASE builds # <<>> BY <2>2, LastFollows DEF LastDoc, Build
  <2> QED BY <2>1, <2>2
<1>9. /\ d \in FirstSeen \cup {NoDoc} /\ Keeps(d, LastDoc)
      /\ d # NoDoc => /\ d.from <= clock /\ Covers(d, walk.rows)
                      /\ d.from = clock \/ (LastDoc # NoDoc /\ d.from = LastDoc.from)
  <2>1. CASE withDoc
    <3>1. PICK S : S = {s} OBVIOUS
    <3>2. S # {} /\ \A x \in S : x.rows \in SnapRows /\ x.at \in Nat BY <1>2, <1>6, <3>1
    <3>3. d = mergeFirstSeen(LastDoc, S) BY <1>3, <2>1, <3>1
    <3>4. /\ d \in FirstSeen /\ d # NoDoc /\ Keeps(d, LastDoc)
          /\ \A x \in S : d.from <= x.at /\ Covers(d, x.rows)
          /\ d.from \in (IF LastDoc = NoDoc THEN {} ELSE {LastDoc.from}) \cup {x.at : x \in S}
      BY <1>8, <3>2, <3>3, MergeFolds
    <3>5. s \in S /\ s.at = clock /\ s.rows = walk.rows /\ {x.at : x \in S} = {clock} BY <1>2, <3>1
    <3> QED BY <3>4, <3>5
  <2>2. CASE ~withDoc BY <1>3, <1>5, <2>2 DEF Keeps
  <2> QED BY <2>1, <2>2
<1>10. b \in Build BY <1>4, <1>6, <1>9 DEF Build
<1>11. /\ b.at = clock /\ b.began = walk.began /\ b.rows = walk.rows /\ b.doc = d BY <1>4
<1>12. ASSUME NEW i \in DOMAIN builds PROVE FollowsOn(builds[i], b)
  <2>1. builds # <<>> BY <1>12
  <2>2. PICK c, l : c = builds[i] /\ l = builds[Len(builds)] OBVIOUS
  <2>3. c \in Build /\ l \in Build /\ FollowsOn(c, l) /\ BuildOk(c) /\ LastDoc = l.doc
    BY <1>1, <2>1, <2>2, LastFollows DEF LastDoc, BuildsOk
  <2>4. /\ c.doc \in FirstSeen \cup {NoDoc} /\ c.rows \in SnapRows /\ c.at \in Nat
        /\ c.at <= walk.began
    <3>1. walk.next # 0 BY <1>5, FeedConstants
    <3> QED BY <2>3, <3>1 DEF Build, BuildOk
  <2>5. SameOrTold(c, b.rows) BY <1>11, <2>3 DEF BuildOk
  <2>6. Keeps(d, c.doc) BY <1>8, <1>9, <2>3, <2>4, KeepsOn DEF FollowsOn
  <2>7. Folded(c, d)
    <3> SUFFICES ASSUME d # NoDoc, c.at >= d.from PROVE Covers(d, c.rows) BY DEF Folded
    <3>1. c.at < clock BY <1>5, <1>6, <2>4
    <3>2. LastDoc # NoDoc /\ d.from = LastDoc.from BY <1>6, <1>9, <2>4, <3>1
    <3>3. Covers(LastDoc, c.rows) BY <2>3, <3>2 DEF FollowsOn, Folded
    <3> QED BY <1>8, <1>9, <2>4, <3>2, <3>3, KeepsOn
  <2> QED BY <1>11, <2>2, <2>5, <2>6, <2>7 DEF FollowsOn
<1>13. b.began <= b.at /\ b.at <= clock /\ RowsBy(b.rows, b.at) BY <1>5, <1>6, <1>11
<1>14. b.doc # NoDoc => b.doc.from <= b.at /\ Covers(b.doc, b.rows) BY <1>9, <1>11
<1>15. \A n \in Feed : Told(b.rows, n, upstream[n], b.began) BY <1>7, <1>11
<1> QED BY <1>5, <1>10, <1>12, <1>13, <1>14, <1>15, DeployKeeps

LEMMA BackfillKeeps == ASSUME FeedInv, Backfill PROVE FeedInv'
<1>1. FeedTypes /\ WalkOk /\ BuildsOk BY DEF FeedInv
<1>2. PICK l : l = builds[Len(builds)] OBVIOUS
<1>3. PICK S : S = {builds[i] : i \in DOMAIN builds} OBVIOUS
<1>4. PICK d : d = mergeFirstSeen(l.doc, S) OBVIOUS
<1>5. PICK b : b = [l EXCEPT !.doc = d] OBVIOUS
<1>6. builds # <<>> /\ builds' = Append(builds, b) /\ UNCHANGED <<upstream, walk, clock>>
  BY <1>2, <1>3, <1>4, <1>5 DEF Backfill
<1>7. /\ Len(builds) \in DOMAIN builds /\ l \in Build /\ BuildOk(l)
      /\ \A i \in DOMAIN builds : builds[i] \in Build /\ FollowsOn(builds[i], l)
  BY <1>2, <1>6, LastFollows
<1>8. S # {} /\ \A x \in S : x.rows \in SnapRows /\ x.at \in Nat BY <1>3, <1>7 DEF Build
<1>9. l.doc \in FirstSeen \cup {NoDoc} BY <1>7 DEF Build
<1>10. /\ d \in FirstSeen /\ d # NoDoc /\ Keeps(d, l.doc)
       /\ \A x \in S : d.from <= x.at /\ Covers(d, x.rows)
  BY <1>4, <1>8, <1>9, MergeFolds
<1>11. b \in Build /\ b.at = l.at /\ b.began = l.began /\ b.rows = l.rows /\ b.doc = d
  BY <1>5, <1>7, <1>10 DEF Build
<1>12. ASSUME NEW i \in DOMAIN builds PROVE FollowsOn(builds[i], b)
  <2>1. PICK c : c = builds[i] OBVIOUS
  <2>2. c \in S /\ c \in Build /\ FollowsOn(c, l) BY <1>3, <1>7, <2>1
  <2>3. c.doc \in FirstSeen \cup {NoDoc} /\ c.rows \in SnapRows BY <2>2 DEF Build
  <2>4. Keeps(d, c.doc) BY <1>9, <1>10, <2>2, <2>3, KeepsOn DEF FollowsOn
  <2>5. Folded(c, d) BY <1>10, <2>2 DEF Folded
  <2> QED BY <1>11, <2>1, <2>2, <2>4, <2>5 DEF FollowsOn
<1>13. l \in S BY <1>2, <1>3, <1>7
<1>14. b.doc # NoDoc => b.doc.from <= b.at /\ Covers(b.doc, b.rows) BY <1>10, <1>11, <1>13
<1>15. /\ b.began <= b.at /\ b.at <= clock /\ RowsBy(b.rows, b.at)
       /\ \A n \in Feed : Told(b.rows, n, upstream[n], b.began)
  BY <1>7, <1>11 DEF BuildOk
<1>16. SameOrTold(b, walk.rows) /\ (walk.next # 0 => b.at <= walk.began)
  BY <1>7, <1>11 DEF BuildOk, SameOrTold
<1> QED BY <1>6, <1>11, <1>12, <1>14, <1>15, <1>16, DeployKeeps

LEMMA FeedInvHolds == FeedSpec => []FeedInv
<1>1. FeedInv /\ [FeedNext]_feedVars => FeedInv'
  <2> SUFFICES ASSUME FeedInv, [FeedNext]_feedVars PROVE FeedInv' OBVIOUS
  <2>1. CASE \E n \in Feed : Release(n) \/ \E s \in {"unlisted", "active", "deprecated"} : SetStatus(n, s)
    BY <2>1, RegistryKeeps
  <2>2. CASE ClockTicks BY <2>2, FeedTicks
  <2>3. CASE WalkBegins \/ WalkPage \/ WalkFails BY <2>3, WalkKeeps
  <2>4. CASE Backfill BY <2>4, BackfillKeeps
  <2>5. CASE \E withDoc \in BOOLEAN : SyncWrites(withDoc) BY <2>5, SyncKeeps
  <2>6. CASE UNCHANGED feedVars
    <3>1. UNCHANGED <<upstream, walk, builds, clock>> BY <2>6 DEF feedVars
    <3> QED BY <3>1 DEF FeedInv, FeedTypes, UpstreamOk, WalkOk, BuildsOk, BuildOk
  <2> QED BY <2>1, <2>2, <2>3, <2>4, <2>5, <2>6 DEF FeedNext
<1> QED BY <1>1, FeedBegins, PTL DEF FeedSpec

\* What the first page of a list leaves out it leaves out for its length.
LEMMA PageIsCut ==
  ASSUME NEW names \in SUBSET Feed, NEW n \in names
  PROVE  n \in FirstPage(names) \/ Cardinality(names) > PageLimit
<1>1. IsFiniteSet(Feed) BY FeedConstants, FS_Interval DEF Feed
<1>2. IsFiniteSet(names) BY <1>1, FS_Subset
<1>3. PICK up : up = {m \in names : m <= n} OBVIOUS
<1>4. up \subseteq names BY <1>3
<1>5. Cardinality(up) <= Cardinality(names) /\ IsFiniteSet(up) BY <1>2, <1>4, FS_Subset
<1>6. Cardinality(up) \in Nat /\ Cardinality(names) \in Nat BY <1>2, <1>5, FS_CardinalityType
<1> QED BY <1>3, <1>5, <1>6, FeedConstants DEF FirstPage

\* When a list names n first: its row's date, and that of the file if the file knows it.
FirstOf(rows, doc, n) == Min({rows[n].pub} \cup (IF doc = NoDoc THEN {} ELSE At(doc.seen, n)))

LEMMA FirstIsLeast ==
  ASSUME NEW rows \in SnapRows, NEW doc \in FirstSeen \cup {NoDoc}, NEW n \in DOMAIN rows,
         NEW f, f = FirstOf(rows, doc, n)
  PROVE  /\ f \in Nat /\ f <= rows[n].pub
         /\ doc # NoDoc /\ n \in DOMAIN doc.seen => f <= doc.seen[n]
         /\ f = rows[n].pub \/ (doc # NoDoc /\ n \in DOMAIN doc.seen /\ f = doc.seen[n])
<1>1. PICK T : T = {rows[n].pub} \cup (IF doc = NoDoc THEN {} ELSE At(doc.seen, n)) OBVIOUS
<1>2. rows[n].pub \in Nat BY DEF SnapRows, SnapRow
<1>3. T \subseteq Nat /\ T # {} BY <1>1, <1>2 DEF At, FirstSeen
<1>4. f \in T /\ f \in Nat /\ \A m \in T : f <= m BY <1>1, <1>3, MinIsLeast DEF FirstOf
<1> QED BY <1>1, <1>4 DEF At

LEMMA AllChangesAreTold == FeedInv => ChangesAreTold
<1> SUFFICES ASSUME FeedInv, NEW i \in DOMAIN builds, NEW j \in DOMAIN builds, i < j,
                    NEW doc \in Docs(builds[j]), NEW told, NEW n \in DOMAIN builds[j].rows,
                    told = classifyDiff(builds[j].rows, doc, builds[i].at),
                    builds[j].rows[n].status = "active",
                    At(builds[i].rows, n) # {builds[j].rows[n]}
             PROVE  \/ n \in FirstPage(told.added) \cup FirstPage(told.updated)
                    \/ n \in told.added /\ Cardinality(told.added) > PageLimit
                    \/ n \in told.updated /\ Cardinality(told.updated) > PageLimit
                    \/ /\ builds[i].began <= Max({builds[j].rows[n].pub, builds[j].rows[n].upd})
                       /\ Max({builds[j].rows[n].pub, builds[j].rows[n].upd}) < builds[i].at
  BY DEF ChangesAreTold
<1>1. PICK b, c, r : b = builds[i] /\ c = builds[j] /\ r = builds[j].rows[n] OBVIOUS
<1>2. b \in Build /\ c \in Build /\ FollowsOn(b, c) /\ BuildOk(c)
  BY <1>1 DEF FeedInv, FeedTypes, BuildsOk
<1>3. r \in SnapRow /\ n \in Feed /\ b.at \in Nat /\ r.pub <= r.upd /\ c.rows \in SnapRows
  BY <1>1, <1>2 DEF Build, SnapRows, BuildOk, RowsBy
<1>4. r.upd >= b.began
  <2>1. Told(b.rows, n, r, b.began) BY <1>1, <1>2 DEF FollowsOn, SameOrTold
  <2>2. r.status # "unlisted" BY <1>1
  <2> QED BY <1>1, <2>1, <2>2 DEF Told
<1>5. Max({r.pub, r.upd}) = r.upd
  <2>1. r.pub \in Nat /\ r.upd \in Nat BY <1>3 DEF SnapRow
  <2>2. \E x \in {r.pub, r.upd} : \A y \in {r.pub, r.upd} : x >= y BY <1>3, <2>1
  <2>3. /\ Max({r.pub, r.upd}) \in {r.pub, r.upd}
        /\ \A y \in {r.pub, r.upd} : Max({r.pub, r.upd}) >= y
    BY <2>2 DEF Max
  <2> QED BY <1>3, <2>1, <2>3
<1>6. CASE r.upd < b.at
  <2>1. b.began \in Nat /\ r.upd \in Nat BY <1>2, <1>3 DEF Build, SnapRow
  <2> QED BY <1>1, <1>4, <1>5, <1>6, <2>1
<1>7. CASE r.upd >= b.at
  <2>1. PICK active : active = {m \in DOMAIN c.rows : c.rows[m].status = "active"} OBVIOUS
  <2>2. /\ told.added = {m \in active : FirstOf(c.rows, doc, m) >= b.at}
        /\ told.updated = {m \in active \ told.added : c.rows[m].pub >= b.at \/ c.rows[m].upd >= b.at}
    BY <1>1, <2>1 DEF classifyDiff, FirstOf
  <2>3. n \in active BY <1>1, <2>1
  <2>4. active \subseteq Feed BY <1>3, <2>1 DEF SnapRows
  <2>5. n \in told.added \/ n \in told.updated BY <1>1, <1>7, <2>2, <2>3
  <2>6. told.added \in SUBSET Feed /\ told.updated \in SUBSET Feed BY <2>2, <2>4
  <2>7. CASE n \in told.added BY <2>6, <2>7, PageIsCut
  <2>8. CASE n \in told.updated BY <2>6, <2>8, PageIsCut
  <2> QED BY <2>5, <2>7, <2>8
<1>8. r.upd \in Nat BY <1>3 DEF SnapRow
<1> QED BY <1>3, <1>6, <1>7, <1>8

LEMMA AddedIsAlwaysNew == FeedInv => AddedIsNew
<1> SUFFICES ASSUME FeedInv, NEW j \in DOMAIN builds, NEW since \in 0..LastTick,
                    NEW doc \in Docs(builds[j]), NEW told,
                    told = classifyDiff(builds[j].rows, doc, since), told.limits = {},
                    NEW k \in 1..j, NEW n \in told.added,
                    builds[k].at >= doc.from, builds[k].at < since, n \in DOMAIN builds[k].rows
             PROVE  FALSE
  BY DEF AddedIsNew
<1>1. builds \in Seq(Build) /\ BuildsOk BY DEF FeedInv, FeedTypes
<1>2. k \in DOMAIN builds /\ j \in Nat /\ k \in Nat BY <1>1
<1>3. PICK b, c : b = builds[k] /\ c = builds[j] OBVIOUS
<1>4. b \in Build /\ c \in Build /\ BuildOk(b) /\ BuildOk(c)
  BY <1>1, <1>2, <1>3 DEF BuildsOk
<1>5. doc # NoDoc /\ doc = c.doc
  <2>1. told.limits = IF doc = NoDoc THEN {"first_seen_unavailable"}
                      ELSE IF since < doc.from THEN {"since_precedes_history"} ELSE {}
    BY DEF classifyDiff
  <2> QED BY <1>3, <2>1 DEF Docs
<1>6. Covers(doc, b.rows)
  <2>1. CASE k = j BY <1>3, <1>4, <1>5, <2>1 DEF BuildOk
  <2>2. CASE k # j
    <3>1. k < j BY <1>2, <2>2
    <3>2. FollowsOn(b, c) BY <1>1, <1>2, <1>3, <3>1 DEF BuildsOk
    <3> QED BY <1>3, <1>5, <3>2 DEF FollowsOn, Folded
  <2> QED BY <2>1, <2>2
<1>7. n \in DOMAIN doc.seen /\ doc.seen[n] <= b.rows[n].pub BY <1>3, <1>6 DEF Covers
<1>8. b.rows[n] \in SnapRow /\ b.rows[n].pub <= b.rows[n].upd /\ b.rows[n].upd <= b.at
  BY <1>3, <1>4 DEF Build, SnapRows, BuildOk, RowsBy
<1>9. n \in DOMAIN c.rows /\ FirstOf(c.rows, doc, n) >= since
  BY <1>3 DEF classifyDiff, FirstOf
<1>10. doc \in FirstSeen /\ c.rows \in SnapRows BY <1>4, <1>5 DEF Build
<1>11. FirstOf(c.rows, doc, n) \in Nat /\ FirstOf(c.rows, doc, n) <= doc.seen[n]
  BY <1>5, <1>7, <1>9, <1>10, FirstIsLeast
<1>12. b.at \in Nat /\ doc.seen[n] \in Nat /\ since \in Nat BY <1>4, <1>7, <1>10 DEF Build, FirstSeen
<1> QED BY <1>3, <1>7, <1>8, <1>9, <1>11, <1>12 DEF SnapRow

LEMMA UpdatedAlwaysStaysKnown == FeedInv => UpdatedStaysKnown
<1> SUFFICES ASSUME FeedInv, NEW i \in DOMAIN builds, NEW j \in DOMAIN builds, i < j,
                    NEW since \in 0..LastTick, NEW was, NEW is, NEW n,
                    was = classifyDiff(builds[i].rows, builds[i].doc, since),
                    is = classifyDiff(builds[j].rows, builds[j].doc, since),
                    was.limits = {}, is.limits = {}, n \in was.updated, n \in is.added
             PROVE  FALSE
  BY DEF UpdatedStaysKnown
<1>1. PICK b, c : b = builds[i] /\ c = builds[j] OBVIOUS
<1>2. b \in Build /\ c \in Build /\ BuildOk(b) /\ FollowsOn(b, c)
  BY <1>1 DEF FeedInv, FeedTypes, BuildsOk
<1>3. b.doc # NoDoc /\ c.doc # NoDoc
  <2>1. b.doc = NoDoc => was.limits = {"first_seen_unavailable"} BY <1>1 DEF classifyDiff
  <2>2. c.doc = NoDoc => is.limits = {"first_seen_unavailable"} BY <1>1 DEF classifyDiff
  <2> QED BY <2>1, <2>2
<1>4. n \in DOMAIN b.rows /\ ~(FirstOf(b.rows, b.doc, n) >= since)
  BY <1>1 DEF classifyDiff, FirstOf
<1>5. n \in DOMAIN c.rows /\ FirstOf(c.rows, c.doc, n) >= since
  BY <1>1 DEF classifyDiff, FirstOf
<1>6. n \in DOMAIN b.doc.seen /\ b.doc.seen[n] <= b.rows[n].pub
  BY <1>2, <1>3, <1>4 DEF BuildOk, Covers
<1>7. n \in DOMAIN c.doc.seen /\ c.doc.seen[n] <= b.doc.seen[n]
  BY <1>2, <1>3, <1>6 DEF FollowsOn, Keeps
<1>8. /\ b.rows \in SnapRows /\ c.rows \in SnapRows /\ b.doc \in FirstSeen /\ c.doc \in FirstSeen
  BY <1>2, <1>3 DEF Build
<1>9. PICK f, g : f = FirstOf(b.rows, b.doc, n) /\ g = FirstOf(c.rows, c.doc, n) OBVIOUS
<1>10. /\ f \in Nat /\ (f = b.rows[n].pub \/ f = b.doc.seen[n])
  BY <1>4, <1>8, <1>9, FirstIsLeast
<1>11. g \in Nat /\ g <= c.doc.seen[n] BY <1>3, <1>5, <1>7, <1>8, <1>9, FirstIsLeast
<1>12. b.doc.seen[n] \in Nat /\ c.doc.seen[n] \in Nat /\ b.rows[n].pub \in Nat /\ since \in Nat
  BY <1>4, <1>6, <1>7, <1>8 DEF FirstSeen, SnapRows, SnapRow
<1> QED BY <1>4, <1>5, <1>6, <1>7, <1>9, <1>10, <1>11, <1>12

\* A poller is told of every change but those of a snapshot's own walk, what it is told is
\* added no earlier snapshot of the file's time had, and what was once told as updated is
\* never told as added.  (registryDiff.ts:70-99, sync-registry.mjs:88-163, first-seen.mjs:41-56)
THEOREM FeedIsAlwaysHonest == FeedSpec => []FeedIsHonest
<1>1. FeedInv => FeedIsHonest
  BY AllChangesAreTold, AddedIsAlwaysNew, UpdatedAlwaysStaysKnown DEF FeedIsHonest
<1> QED BY <1>1, FeedInvHolds, PTL

(***************************************************************************)
(* LedgerSlice: a field of the ledger as one server's answer.  What the    *)
(* drain publishes of some facts is read back as it was written, and what  *)
(* it says of them is the same under both forms, as the rows of a server's *)
(* share count disjoint sets of tools.  A damaged part is refused, or one  *)
(* row of it reads no cleaner than it was: the inductive invariant says    *)
(* the field is as it was published, or so but for one of its lists.       *)
(***************************************************************************)

\* A sum over a set takes the elements of it one by one.
SumsUp(S, g, sum) ==
  sum = [s \in SUBSET S |->
           IF s = {} THEN 0 ELSE g[CHOOSE x \in s : TRUE] + sum[s \ {CHOOSE x \in s : TRUE}]]

All(C, s) == UNION {C[x] : x \in s}
Apart(S, C) == \A x, y \in S : x # y => C[x] \cap C[y] = {}

\* What one more of them adds.
LEMMA OneMore ==
  ASSUME NEW S, IsFiniteSet(S), NEW C, \A z \in S : IsFiniteSet(C[z]), Apart(S, C),
         NEW s \in SUBSET S, NEW x \in s
  PROVE  /\ IsFiniteSet(All(C, s))
         /\ Cardinality(All(C, s)) = Cardinality(C[x]) + Cardinality(All(C, s \ {x}))
<1>1. ASSUME NEW t \in SUBSET S PROVE IsFiniteSet(All(C, t))
  <2>1. IsFiniteSet(t) BY FS_Subset
  <2>2. PICK f : f = [z \in t |-> C[z]] OBVIOUS
  <2>3. f \in Surjection(t, {C[z] : z \in t}) BY <2>2 DEF Surjection
  <2>4. IsFiniteSet({C[z] : z \in t}) BY <2>1, <2>3, FS_Surjection
  <2> QED BY <2>4, FS_UNION DEF All
<1>2. IsFiniteSet(All(C, s \ {x})) BY <1>1
<1>3. All(C, s) = C[x] \cup All(C, s \ {x}) BY DEF All
<1>4. C[x] \cap All(C, s \ {x}) = {}
  <2>1. ASSUME NEW y \in s \ {x} PROVE C[x] \cap C[y] = {} BY DEF Apart
  <2> QED BY <2>1 DEF All
<1>5. IsFiniteSet(C[x]) OBVIOUS
<1>6. Cardinality(C[x] \cup All(C, s \ {x}))
        = Cardinality(C[x]) + Cardinality(All(C, s \ {x})) - Cardinality(C[x] \cap All(C, s \ {x}))
  BY <1>2, <1>5, FS_Union
<1>7. Cardinality(C[x]) \in Nat /\ Cardinality(All(C, s \ {x})) \in Nat
  BY <1>2, <1>5, FS_CardinalityType
<1>8. Cardinality({}) = 0 BY FS_EmptySet
<1>9. Cardinality(C[x] \cap All(C, s \ {x})) = 0 BY <1>4, <1>8
<1>10. Cardinality(All(C, s)) = Cardinality(C[x] \cup All(C, s \ {x})) BY <1>3
<1>11. IsFiniteSet(All(C, s)) BY <1>1
<1> QED BY <1>6, <1>7, <1>9, <1>10, <1>11

\* The sum of the sizes of sets that have nothing in common is the size of them all.
LEMMA SumOfParts ==
  ASSUME NEW S, IsFiniteSet(S), NEW C, \A z \in S : IsFiniteSet(C[z]), Apart(S, C),
         NEW g, g = [z \in S |-> Cardinality(C[z])]
  PROVE  SumFunction(g) = Cardinality(All(C, S))
<1> DEFINE iter[s \in SUBSET S] ==
      IF s = {} THEN 0 ELSE g[CHOOSE x \in s : TRUE] + iter[s \ {CHOOSE x \in s : TRUE}]
<1>1. SumFunction(g) = iter[S]
  <2>1. DOMAIN g = S OBVIOUS
  <2> QED BY <2>1 DEF SumFunction, SumFunctionOnSet, FoldFunctionOnSet, MapThenFoldSet
<1>2. PICK h : h = [s \in SUBSET S |-> Cardinality(All(C, s))] OBVIOUS
<1>3. h[{}] = 0
  <2>1. All(C, {}) = {} BY DEF All
  <2> QED BY <1>2, <2>1, FS_EmptySet
<1>4. ASSUME NEW s \in SUBSET S, NEW x \in s PROVE h[s] = g[x] + h[s \ {x}]
  <2>1. Cardinality(All(C, s)) = Cardinality(C[x]) + Cardinality(All(C, s \ {x})) BY OneMore
  <2> QED BY <1>2, <2>1
<1>5. SumsUp(S, g, h)
  <2>1. ASSUME NEW s \in SUBSET S
        PROVE  h[s] = IF s = {} THEN 0
                      ELSE g[CHOOSE x \in s : TRUE] + h[s \ {CHOOSE x \in s : TRUE}]
    <3>1. CASE s = {} BY <1>3, <3>1
    <3>2. CASE s # {}
      <4>1. (CHOOSE x \in s : TRUE) \in s BY <3>2
      <4> QED BY <1>4, <3>2, <4>1
    <3> QED BY <3>1, <3>2
  <2> QED BY <1>2, <2>1 DEF SumsUp
<1>6. SumsUp(S, g, iter) BY <1>5 DEF SumsUp
<1>7. PICK f : f = iter OBVIOUS
<1>8. SumsUp(S, g, f) BY <1>6, <1>7
<1> HIDE DEF iter
<1> DEFINE Wrong == {s \in SUBSET S : f[s] # h[s]}
<1>9. Wrong = {}
  <2> SUFFICES ASSUME Wrong # {} PROVE FALSE OBVIOUS
  <2>1. PICK N : N = {Cardinality(s) : s \in Wrong} OBVIOUS
  <2>2. N \subseteq Nat /\ N # {}
    <3>1. \A s \in SUBSET S : Cardinality(s) \in Nat BY FS_Subset, FS_CardinalityType
    <3> QED BY <2>1, <3>1
  <2>3. PICK n \in N : \A m \in N : n <= m BY <2>2, LeastNat
  <2>4. PICK s \in Wrong : Cardinality(s) = n BY <2>1, <2>3
  <2>5. s \in SUBSET S /\ f[s] # h[s] /\ IsFiniteSet(s) BY <2>4, FS_Subset
  <2>6. f[s] = IF s = {} THEN 0 ELSE g[CHOOSE x \in s : TRUE] + f[s \ {CHOOSE x \in s : TRUE}]
    BY <1>8, <2>5 DEF SumsUp
  <2>7. s # {} BY <1>3, <2>5, <2>6
  <2>8. PICK x : x \in s /\ x = CHOOSE z \in s : TRUE BY <2>7
  <2>9. f[s] = g[x] + f[s \ {x}] BY <2>6, <2>7, <2>8
  <2>10. h[s] = g[x] + h[s \ {x}] BY <1>4, <2>5, <2>8
  <2>11. Cardinality(s \ {x}) = n - 1 /\ n \in Nat
    BY <2>2, <2>4, <2>5, <2>8, FS_RemoveElement
  <2>12. s \ {x} \in Wrong BY <2>5, <2>9, <2>10
  <2>13. n - 1 \in N BY <2>1, <2>11, <2>12
  <2> QED BY <2>3, <2>11, <2>13
<1>10. f[S] = h[S] BY <1>9
<1> QED BY <1>1, <1>2, <1>7, <1>10

\* No element of it is the greatest.
Topless(S) == S # {} /\ ~\E x \in S : \A m \in S : m <= x

LEMMA HasMax ==
  ASSUME NEW T, T \subseteq Nat, T # {}, IsFiniteSet(T)
  PROVE  \E n \in T : \A m \in T : m <= n
<1>1. PICK Ks : Ks = {n \in Nat : \E S \in SUBSET T : Cardinality(S) = n /\ Topless(S)} OBVIOUS
<1>2. Ks \subseteq Nat BY <1>1
<1> SUFFICES ASSUME ~\E n \in T : \A m \in T : m <= n PROVE FALSE OBVIOUS
<1>3. Cardinality(T) \in Nat BY FS_CardinalityType
<1>4. Cardinality(T) \in Ks
  <2>1. Topless(T) BY DEF Topless
  <2> QED BY <1>1, <1>3, <2>1
<1>5. PICK k \in Ks : \A m \in Ks : k <= m BY <1>2, <1>4, LeastNat
<1>6. PICK S \in SUBSET T : Cardinality(S) = k /\ Topless(S) BY <1>1, <1>5
<1>7. PICK x \in S : TRUE BY <1>6 DEF Topless
<1>8. IsFiniteSet(S) BY FS_Subset
<1>9. Cardinality(S \ {x}) = k - 1 /\ k \in Nat \ {0}
  BY <1>6, <1>8, FS_RemoveElement, FS_CardinalityType, FS_EmptySet
<1>10. CASE S \ {x} = {}
  <2>1. x \in Nat /\ \A m \in S : m = x BY <1>10
  <2> QED BY <1>6, <2>1 DEF Topless
<1>11. CASE S \ {x} # {}
  <2>1. k - 1 \notin Ks BY <1>5, <1>9
  <2>0. k - 1 \in Nat /\ S \ {x} \in SUBSET T BY <1>9
  <2>9. ~Topless(S \ {x}) BY <1>1, <1>9, <2>0, <2>1
  <2>2. PICK y \in S \ {x} : \A m \in S \ {x} : m <= y BY <1>11, <2>9 DEF Topless
  <2>3. x \in Nat /\ y \in Nat BY <1>6
  <2>4. CASE x <= y
    <3>1. \A m \in S : m <= y BY <2>2, <2>4
    <3> QED BY <1>6, <3>1 DEF Topless
  <2>5. CASE y <= x
    <3>1. \A m \in S : m <= x BY <2>2, <2>3, <2>5
    <3> QED BY <1>6, <3>1 DEF Topless
  <2> QED BY <2>3, <2>4, <2>5
<1> QED BY <1>10, <1>11

LEMMA MaxIs ==
  ASSUME NEW T, T \subseteq Nat, T # {}, IsFiniteSet(T)
  PROVE  Max(T) \in T /\ \A m \in T : m <= Max(T)
<1>1. PICK n \in T : \A m \in T : m <= n BY HasMax
<1>2. \A m \in T : n >= m BY <1>1
<1>3. Max(T) \in T /\ \A m \in T : Max(T) >= m BY <1>2 DEF Max
<1>4. \A m \in T : m \in Nat /\ Max(T) \in Nat BY <1>3
<1> QED BY <1>3, <1>4

\* Of two sets, the greatest of one of which each element of the other reaches.
LEMMA MaxCovered ==
  ASSUME NEW S, S \subseteq Nat, S # {}, IsFiniteSet(S),
         NEW T, T \subseteq Nat, T # {}, IsFiniteSet(T),
         \A m \in S : \E n \in T : m <= n
  PROVE  Max(S) <= Max(T)
<1>1. Max(S) \in S /\ Max(T) \in T /\ \A n \in T : n <= Max(T) BY MaxIs
<1>2. PICK n \in T : Max(S) <= n BY <1>1
<1>3. Max(S) \in Nat /\ Max(T) \in Nat /\ n \in Nat /\ n <= Max(T) BY <1>1
<1> QED BY <1>2, <1>3

\* As many as there are, of what is made of each.
LEMMA ManyMade ==
  ASSUME NEW T, IsFiniteSet(T), NEW g, \A x, y \in T : g[x] = g[y] => x = y,
         NEW U, U = {g[x] : x \in T}
  PROVE  IsFiniteSet(U) /\ Cardinality(U) = Cardinality(T)
<1>1. PICK f : f = [x \in T |-> g[x]] OBVIOUS
<1>2. f \in Surjection(T, U) BY <1>1 DEF Surjection
<1>3. f \in Injection(T, U) BY <1>1 DEF Injection, IsInjective
<1> QED BY <1>2, <1>3, FS_Surjection

LEMMA SomeMade == ASSUME NEW T, IsFiniteSet(T), NEW g PROVE IsFiniteSet({g[x] : x \in T})
<1>1. PICK f : f = [x \in T |-> g[x]] OBVIOUS
<1>2. f \in Surjection(T, {g[x] : x \in T}) BY <1>1 DEF Surjection
<1> QED BY <1>2, FS_Surjection

\* A sum of three.
Three(a, b, c, g) == a # b /\ a # c /\ b # c /\ g \in [{a, b, c} -> Nat]

LEMMA SumOfThree ==
  ASSUME NEW a, NEW b, NEW c, NEW g, Three(a, b, c, g)
  PROVE  SumFunction(g) = g[a] + g[b] + g[c]
<1> USE DEF Three
<1>1. PICK S : S = {a, b, c} OBVIOUS
<1>2. IsFiniteSet(S)
  <2>1. S = ({a} \cup {b}) \cup {c} BY <1>1
  <2> QED BY <2>1, FS_Singleton, FS_Union
<1>3. PICK C : C = [x \in S |-> (1..g[x]) \X {x}] OBVIOUS
<1>4. ASSUME NEW x \in S PROVE IsFiniteSet(C[x]) /\ Cardinality(C[x]) = g[x]
  <2>1. PICK n : n = g[x] OBVIOUS
  <2>2. n \in Nat /\ C[x] = (1..n) \X {x} BY <1>1, <1>3, <2>1
  <2>3. IsFiniteSet(1..n)
    <3>1. 1 \in Int /\ n \in Int BY <2>2
    <3> QED BY <3>1, FS_Interval
  <2>4. Cardinality(1..n) = n
    <3>1. 1 \in Int /\ n \in Int BY <2>2
    <3>2. Cardinality(1..n) = IF 1 > n THEN 0 ELSE n - 1 + 1 BY <3>1, FS_Interval
    <3> QED BY <2>2, <3>2
  <2>5. IsFiniteSet({x}) /\ Cardinality({x}) = 1 BY FS_Singleton
  <2>6. IsFiniteSet((1..n) \X {x}) /\ Cardinality((1..n) \X {x}) = Cardinality(1..n) * Cardinality({x})
    BY <2>3, <2>5, FS_Product
  <2>7. Cardinality((1..n) \X {x}) = n * 1 BY <2>4, <2>5, <2>6
  <2> QED BY <2>1, <2>2, <2>6, <2>7
<1>5. Apart(S, C) BY <1>3 DEF Apart
<1>6. g = [x \in S |-> Cardinality(C[x])]
  <2>1. \A x \in S : Cardinality(C[x]) = g[x] BY <1>4
  <2> QED BY <1>1, <2>1
<1>7. SumFunction(g) = Cardinality(All(C, S)) BY <1>2, <1>4, <1>5, <1>6, SumOfParts
<1>8. Cardinality(All(C, S)) = Cardinality(C[a]) + Cardinality(All(C, S \ {a}))
  BY <1>1, <1>2, <1>4, <1>5, OneMore
<1>9. Cardinality(All(C, S \ {a})) = Cardinality(C[b]) + Cardinality(All(C, (S \ {a}) \ {b}))
  <2>1. PICK s : s = S \ {a} OBVIOUS
  <2>2. b \in s /\ s \in SUBSET S BY <1>1, <2>1
  <2>3. Cardinality(All(C, s)) = Cardinality(C[b]) + Cardinality(All(C, s \ {b}))
    BY <1>2, <1>4, <1>5, <2>2, OneMore
  <2> QED BY <2>1, <2>3
<1>10. Cardinality(All(C, (S \ {a}) \ {b})) = Cardinality(C[c])
  <2>1. (S \ {a}) \ {b} = {c} BY <1>1
  <2>2. All(C, {c}) = C[c] BY DEF All
  <2> QED BY <2>1, <2>2
<1>11. Cardinality(C[a]) = g[a] /\ Cardinality(C[b]) = g[b] /\ Cardinality(C[c]) = g[c]
  BY <1>1, <1>4
<1> QED BY <1>7, <1>8, <1>9, <1>10, <1>11

(***************************************************************************)
(* What the drain publishes.                                               *)
(***************************************************************************)
Forms == {"2", "3"}
Lists == {"events", "context_events", "fleet_events"}

\* The tools that changed; those whose change is the publisher's alone; those changes.
Touched(f) == {t \in Tool : Kinds(f, t) # {}}
OwnOnes(f) == {t \in Tool : f.own[t] # {}}
Shared(f) == {t \in Tool : f.own[t] = {} /\ f.wide[t] # {}}
WideOnes(f) == UNION {f.wide[t] : t \in Tool}

LEMMA FactsAre ==
  ASSUME NEW f \in Facts
  PROVE  /\ f.own \in [Tool -> SUBSET Change] /\ f.wide \in [Tool -> SUBSET Wide]
         /\ f.version \in [Tool -> Delta \cup {Absent}] /\ f.context \subseteq {"own", "wide"}
         /\ (\A t \in Tool : f.version[t] = Absent) \/ (\A t \in Tool : f.version[t] \in Delta)
         /\ \A t \in Tool : f.wide[t] # {} => f.page[t] \in f.wide[t]
         /\ WideOnes(f) \subseteq Wide
<1>1. f \in [own : [Tool -> {S \in SUBSET Change : Cardinality(S) <= 1}],
             wide : [Tool -> SUBSET Wide], page : [Tool -> Wide \cup {Absent}],
             version : [Tool -> Evidence] \cup {[t \in Tool |-> Absent]},
             context : SUBSET {"own", "wide"}] BY DEF Facts
<1>2. f.own \in [Tool -> SUBSET Change] BY <1>1
<1>3. f.wide \in [Tool -> SUBSET Wide] /\ f.context \subseteq {"own", "wide"} BY <1>1
<1>4. f.version \in [Tool -> Evidence] \cup {[t \in Tool |-> Absent]} BY <1>1
<1>5. Evidence \subseteq Delta BY SliceConstants DEF Delta
<1>6. f.version \in [Tool -> Delta \cup {Absent}] BY <1>4, <1>5
<1>7. (\A t \in Tool : f.version[t] = Absent) \/ (\A t \in Tool : f.version[t] \in Delta)
  BY <1>4, <1>5
<1>8. \A t \in Tool : f.wide[t] # {} => f.page[t] \in f.wide[t] BY DEF Facts
<1>9. WideOnes(f) \subseteq Wide BY <1>3 DEF WideOnes
<1> QED BY <1>2, <1>3, <1>6, <1>7, <1>8, <1>9

LEMMA KindsAre ==
  ASSUME NEW f \in Facts, NEW t \in Tool
  PROVE  /\ Kinds(f, t) \subseteq Change
         /\ Kinds(f, t) # {} <=> f.own[t] # {} \/ f.wide[t] # {}
<1>1. f.own[t] \subseteq Change /\ f.wide[t] \subseteq Wide BY FactsAre
<1>2. \A w \in Wide : WideChange[w] \in Change BY SliceConstants
<1> QED BY <1>1, <1>2 DEF Kinds

\* When the changes of a tool, and of any, were last seen.
HoursOf(f, t) == {WideHour[w] : w \in f.wide[t]} \cup (IF f.own[t] = {} THEN {} ELSE {OwnHour})
Hours(f) == UNION {HoursOf(f, t) : t \in Tool}

LEMMA HoursAre ==
  ASSUME NEW f \in Facts, NEW t \in Tool
  PROVE  /\ HoursOf(f, t) \subseteq Nat /\ IsFiniteSet(HoursOf(f, t))
         /\ Kinds(f, t) # {} => /\ HoursOf(f, t) # {} /\ HourOf(f, t) \in HoursOf(f, t)
                                /\ \A h \in HoursOf(f, t) : h <= HourOf(f, t)
<1>1. f.wide[t] \subseteq Wide BY FactsAre
<1>2. \A w \in Wide : WideHour[w] \in Nat BY SliceConstants
<1>3. HoursOf(f, t) \subseteq Nat BY <1>1, <1>2 DEF HoursOf, OwnHour
<1>4. IsFiniteSet(HoursOf(f, t))
  <2>1. IsFiniteSet(f.wide[t]) BY <1>1, SliceConstants, FS_Subset
  <2>2. IsFiniteSet({WideHour[w] : w \in f.wide[t]}) BY <2>1, SomeMade
  <2>3. IsFiniteSet(IF f.own[t] = {} THEN {} ELSE {OwnHour}) BY FS_EmptySet, FS_Singleton
  <2> QED BY <2>2, <2>3, FS_Union DEF HoursOf
<1>5. ASSUME Kinds(f, t) # {}
      PROVE  /\ HoursOf(f, t) # {} /\ HourOf(f, t) \in HoursOf(f, t)
             /\ \A h \in HoursOf(f, t) : h <= HourOf(f, t)
  <2>1. HoursOf(f, t) # {} BY <1>5, KindsAre DEF HoursOf
  <2>2. HourOf(f, t) = Max(HoursOf(f, t)) BY DEF HourOf, HoursOf
  <2> QED BY <1>3, <1>4, <2>1, <2>2, MaxIs
<1> QED BY <1>3, <1>4, <1>5

(***************************************************************************)
(* The rows, read a part at a time.                                        *)
(***************************************************************************)
IsEvent(e) ==
  e = [tool_fp |-> e.tool_fp, server_fp |-> e.server_fp, safety_relevant |-> e.safety_relevant,
       last_seen |-> e.last_seen, change_kinds |-> e.change_kinds,
       removal_scope |-> e.removal_scope, version_delta |-> e.version_delta]
IsContextEvent(e) ==
  e = [server_fp |-> e.server_fp, safety_relevant |-> e.safety_relevant,
       last_seen |-> e.last_seen, change_kinds |-> e.change_kinds]
IsFleet(w) ==
  w = [plane |-> w.plane, publisher_fp |-> w.publisher_fp, day |-> w.day,
       change_kinds |-> w.change_kinds, servers |-> w.servers, tools |-> w.tools,
       members |-> w.members, server_fp |-> w.server_fp, page_tools |-> w.page_tools,
       last_seen |-> w.last_seen, safety_relevant |-> w.safety_relevant,
       toolset_replaced |-> w.toolset_replaced, version_same |-> w.version_same,
       version_changed |-> w.version_changed, version_undeclared |-> w.version_undeclared]

LEMMA EventParts ==
  ASSUME NEW e, IsEvent(e), NEW c, c = coerceEvent(e)
  PROVE  /\ IsEvent(c) /\ c.tool_fp = e.tool_fp
         /\ c.server_fp = OneOf(e.server_fp, {Mine, NotMine})
         /\ c.safety_relevant = (e.safety_relevant = TRUE) /\ c.last_seen = Hour(e.last_seen)
         /\ c.change_kinds = coerceChangeKinds(e.change_kinds) \cap Change
         /\ c.removal_scope = OneOf(e.removal_scope, {"single", "toolset-replaced"})
         /\ c.version_delta = OneOf(e.version_delta, Delta)
<1>1. PICK a1, a2, a3, a4, a5, a6, a7 :
        e = [tool_fp |-> a1, server_fp |-> a2, safety_relevant |-> a3, last_seen |-> a4,
             change_kinds |-> a5, removal_scope |-> a6, version_delta |-> a7]
  BY DEF IsEvent
<1>2. IsEvent(c) BY <1>1 DEF coerceEvent, IsEvent
<1>3. c.tool_fp = e.tool_fp BY <1>1 DEF coerceEvent
<1>4. c.server_fp = OneOf(e.server_fp, {Mine, NotMine}) BY <1>1 DEF coerceEvent
<1>5. c.safety_relevant = (e.safety_relevant = TRUE) BY <1>1 DEF coerceEvent
<1>6. c.last_seen = Hour(e.last_seen) BY <1>1 DEF coerceEvent
<1>7. c.change_kinds = coerceChangeKinds(e.change_kinds) \cap Change BY <1>1 DEF coerceEvent
<1>8. c.removal_scope = OneOf(e.removal_scope, {"single", "toolset-replaced"})
  BY <1>1 DEF coerceEvent
<1>9. c.version_delta = OneOf(e.version_delta, Delta) BY <1>1 DEF coerceEvent
<1> QED BY <1>2, <1>3, <1>4, <1>5, <1>6, <1>7, <1>8, <1>9

LEMMA ContextEventParts ==
  ASSUME NEW e, IsContextEvent(e), NEW c, c = coerceContextEvent(e)
  PROVE  /\ IsContextEvent(c) /\ c.server_fp = e.server_fp
         /\ c.safety_relevant = (e.safety_relevant = TRUE) /\ c.last_seen = Hour(e.last_seen)
         /\ c.change_kinds = coerceChangeKinds(e.change_kinds) \cap ContextChange
<1>1. PICK a1, a2, a3, a4 :
        e = [server_fp |-> a1, safety_relevant |-> a2, last_seen |-> a3, change_kinds |-> a4]
  BY DEF IsContextEvent
<1>2. IsContextEvent(c) BY <1>1 DEF coerceContextEvent, IsContextEvent
<1>3. c.server_fp = e.server_fp BY <1>1 DEF coerceContextEvent
<1>4. c.safety_relevant = (e.safety_relevant = TRUE) BY <1>1 DEF coerceContextEvent
<1>5. c.last_seen = Hour(e.last_seen) BY <1>1 DEF coerceContextEvent
<1>6. c.change_kinds = coerceChangeKinds(e.change_kinds) \cap ContextChange
  BY <1>1 DEF coerceContextEvent
<1> QED BY <1>2, <1>3, <1>4, <1>5, <1>6

\* What is read of a publisher-wide change as it stands.
AsItStands(c, w) ==
  /\ c.plane = w.plane /\ c.publisher_fp = w.publisher_fp /\ c.day = w.day
  /\ c.servers = w.servers /\ c.tools = w.tools /\ c.members = w.members
  /\ c.server_fp = w.server_fp /\ c.page_tools = w.page_tools
  /\ c.version_same = w.version_same /\ c.version_changed = w.version_changed
  /\ c.version_undeclared = w.version_undeclared

LEMMA FleetParts ==
  ASSUME NEW w, IsFleet(w), NEW c, c = coerceFleetEvent(w)
  PROVE  /\ IsFleet(c) /\ AsItStands(c, w)
         /\ c.safety_relevant = (w.safety_relevant = TRUE)
         /\ c.toolset_replaced = (w.toolset_replaced = TRUE)
         /\ c.last_seen = Hour(w.last_seen)
         /\ c.change_kinds = coerceChangeKinds(w.change_kinds) \cap
                               (IF w.plane = "tool" THEN Change ELSE ContextChange)
<1>1. PICK a1, a2, a3, a4, a5, a6, a7, a8, a9, a10, a11, a12, a13, a14, a15 :
        w = [plane |-> a1, publisher_fp |-> a2, day |-> a3, change_kinds |-> a4, servers |-> a5,
             tools |-> a6, members |-> a7, server_fp |-> a8, page_tools |-> a9,
             last_seen |-> a10, safety_relevant |-> a11, toolset_replaced |-> a12,
             version_same |-> a13, version_changed |-> a14, version_undeclared |-> a15]
  BY DEF IsFleet
<1>2. IsFleet(c) BY <1>1 DEF coerceFleetEvent, IsFleet
<1>3. c.plane = w.plane /\ c.publisher_fp = w.publisher_fp /\ c.day = w.day
  BY <1>1 DEF coerceFleetEvent
<1>4. c.servers = w.servers /\ c.tools = w.tools /\ c.members = w.members
  BY <1>1 DEF coerceFleetEvent
<1>5. c.server_fp = w.server_fp /\ c.page_tools = w.page_tools BY <1>1 DEF coerceFleetEvent
<1>6. c.version_same = w.version_same /\ c.version_changed = w.version_changed
  BY <1>1 DEF coerceFleetEvent
<1>7. c.version_undeclared = w.version_undeclared BY <1>1 DEF coerceFleetEvent
<1>8. c.safety_relevant = (w.safety_relevant = TRUE) BY <1>1 DEF coerceFleetEvent
<1>9. c.toolset_replaced = (w.toolset_replaced = TRUE) BY <1>1 DEF coerceFleetEvent
<1>10. c.last_seen = Hour(w.last_seen) BY <1>1 DEF coerceFleetEvent
<1>11. c.change_kinds = coerceChangeKinds(w.change_kinds) \cap
                               (IF w.plane = "tool" THEN Change ELSE ContextChange)
  BY <1>1 DEF coerceFleetEvent
<1> QED BY <1>2, <1>3, <1>4, <1>5, <1>6, <1>7, <1>8, <1>9, <1>10, <1>11 DEF AsItStands

(***************************************************************************)
(* A row as the drain publishes it is read as it was written.              *)
(***************************************************************************)
Clean(r) == \A x \in DOMAIN r : r[x] # Junk
SoundRow(r) ==
  /\ r.server_fp = Mine /\ r.safety_relevant \in BOOLEAN /\ r.last_seen \in Nat
  /\ Clean(r)
EventRow(e) ==
  /\ IsEvent(e) /\ SoundRow(e) /\ e.change_kinds \subseteq Change
  /\ e.removal_scope \in {"toolset-replaced", Absent} /\ e.version_delta \in Delta \cup {Absent}
ContextRow(e) == IsContextEvent(e) /\ SoundRow(e) /\ e.change_kinds = ContextChange
FleetRow(w) ==
  /\ IsFleet(w) /\ SoundRow(w) /\ w.toolset_replaced \in BOOLEAN
  /\ w.change_kinds \subseteq IF w.plane = "tool" THEN Change ELSE ContextChange
  /\ w.members <= w.servers /\ SumFunction(Versions(w)) <= w.page_tools

LEMMA EventStands == ASSUME NEW e, EventRow(e) PROVE coerceEvent(e) = e /\ e.tool_fp # Junk
<1>1. PICK c : c = coerceEvent(e) OBVIOUS
<1>2. IsEvent(e) /\ SoundRow(e) BY DEF EventRow
<1>3. e.tool_fp # Junk /\ e.last_seen # Junk /\ e.change_kinds # Junk
      /\ e.version_delta \in Delta \cup {Absent}
  <2>1. {"tool_fp", "last_seen", "change_kinds"} \subseteq DOMAIN e BY <1>2 DEF IsEvent
  <2> QED BY <1>2, <2>1 DEF SoundRow, Clean, EventRow
<1>4. /\ IsEvent(c) /\ c.tool_fp = e.tool_fp
      /\ c.server_fp = OneOf(e.server_fp, {Mine, NotMine})
      /\ c.safety_relevant = (e.safety_relevant = TRUE) /\ c.last_seen = Hour(e.last_seen)
      /\ c.change_kinds = coerceChangeKinds(e.change_kinds) \cap Change
      /\ c.removal_scope = OneOf(e.removal_scope, {"single", "toolset-replaced"})
      /\ c.version_delta = OneOf(e.version_delta, Delta) BY <1>1, <1>2, EventParts
<1>5. c.server_fp = e.server_fp BY <1>2, <1>4 DEF SoundRow, OneOf
<1>6. c.safety_relevant = e.safety_relevant
  <2>1. e.safety_relevant \in BOOLEAN BY <1>2 DEF SoundRow
  <2> QED BY <1>4, <2>1
<1>7. c.last_seen = e.last_seen BY <1>3, <1>4 DEF Hour
<1>8. c.change_kinds = e.change_kinds BY <1>3, <1>4 DEF coerceChangeKinds, EventRow
<1>9. c.removal_scope = e.removal_scope /\ c.version_delta = e.version_delta
  BY <1>4 DEF EventRow, OneOf
<1> QED BY <1>1, <1>2, <1>3, <1>4, <1>5, <1>6, <1>7, <1>8, <1>9 DEF IsEvent

LEMMA ContextEventStands ==
  ASSUME NEW e, ContextRow(e)
  PROVE  coerceContextEvent(e) = e /\ e.server_fp # Junk /\ e.change_kinds # {}
<1>1. PICK c : c = coerceContextEvent(e) OBVIOUS
<1>2. IsContextEvent(e) /\ SoundRow(e) /\ e.change_kinds = ContextChange BY DEF ContextRow
<1>3. e.server_fp # Junk /\ e.last_seen # Junk /\ e.change_kinds # Junk
  <2>1. {"server_fp", "last_seen", "change_kinds"} \subseteq DOMAIN e BY <1>2 DEF IsContextEvent
  <2> QED BY <1>2, <2>1 DEF SoundRow, Clean
<1>4. /\ IsContextEvent(c) /\ c.server_fp = e.server_fp
      /\ c.safety_relevant = (e.safety_relevant = TRUE) /\ c.last_seen = Hour(e.last_seen)
      /\ c.change_kinds = coerceChangeKinds(e.change_kinds) \cap ContextChange
  BY <1>1, <1>2, ContextEventParts
<1>5. c.safety_relevant = e.safety_relevant
  <2>1. e.safety_relevant \in BOOLEAN BY <1>2 DEF SoundRow
  <2> QED BY <1>4, <2>1
<1>6. c.last_seen = e.last_seen BY <1>3, <1>4 DEF Hour
<1>7. c.change_kinds = e.change_kinds BY <1>2, <1>3, <1>4 DEF coerceChangeKinds
<1>8. e.change_kinds # {} BY <1>2, SliceConstants
<1> QED BY <1>1, <1>2, <1>3, <1>4, <1>5, <1>6, <1>7, <1>8 DEF IsContextEvent

LEMMA FleetStands == ASSUME NEW w, FleetRow(w) PROVE coerceFleetEvent(w) = w /\ Whole(w)
<1>1. PICK c : c = coerceFleetEvent(w) OBVIOUS
<1>2. IsFleet(w) /\ SoundRow(w) BY DEF FleetRow
<1>3. w.last_seen # Junk /\ w.change_kinds # Junk /\ \A x \in Strict : w[x] # Junk
  <2>1. Strict \cup {"last_seen", "change_kinds"} \subseteq DOMAIN w BY <1>2 DEF IsFleet, Strict
  <2> QED BY <1>2, <2>1 DEF SoundRow, Clean
<1>4. /\ IsFleet(c) /\ AsItStands(c, w)
      /\ c.safety_relevant = (w.safety_relevant = TRUE)
      /\ c.toolset_replaced = (w.toolset_replaced = TRUE)
      /\ c.last_seen = Hour(w.last_seen)
      /\ c.change_kinds = coerceChangeKinds(w.change_kinds) \cap
                            (IF w.plane = "tool" THEN Change ELSE ContextChange)
  BY <1>1, <1>2, FleetParts
<1>5. c.safety_relevant = w.safety_relevant
  <2>1. w.safety_relevant \in BOOLEAN BY <1>2 DEF SoundRow
  <2> QED BY <1>4, <2>1
<1>6. c.toolset_replaced = w.toolset_replaced
  <2>1. w.toolset_replaced \in BOOLEAN BY DEF FleetRow
  <2> QED BY <1>4, <2>1
<1>7. c.last_seen = w.last_seen BY <1>3, <1>4 DEF Hour
<1>8. c.change_kinds = w.change_kinds BY <1>3, <1>4 DEF coerceChangeKinds, FleetRow
<1>9. c = w BY <1>2, <1>4, <1>5, <1>6, <1>7, <1>8 DEF IsFleet, AsItStands
<1>10. Whole(w) BY <1>3 DEF Whole, FleetRow
<1> QED BY <1>1, <1>9, <1>10

\* The version counts of a publisher-wide change, summed.
LEMMA VersionsSum ==
  ASSUME NEW w, IsFleet(w), NEW n1 \in Nat, NEW n2 \in Nat, NEW n3 \in Nat,
         n1 = IF w.version_same = Absent THEN 0 ELSE w.version_same,
         n2 = IF w.version_changed = Absent THEN 0 ELSE w.version_changed,
         n3 = IF w.version_undeclared = Absent THEN 0 ELSE w.version_undeclared
  PROVE  SumFunction(Versions(w)) = n1 + n2 + n3
<1>1. PICK g : g = Versions(w) OBVIOUS
<1>2. {x \in DOMAIN w : x \in {"version_same", "version_changed", "version_undeclared"}}
        = {"version_same", "version_changed", "version_undeclared"} BY DEF IsFleet
<1>3. g = [v \in {"version_same", "version_changed", "version_undeclared"} |->
             IF w[v] = Absent THEN 0 ELSE w[v]] BY <1>1, <1>2 DEF Versions
<1>4. g["version_same"] = n1 /\ g["version_changed"] = n2 /\ g["version_undeclared"] = n3
  BY <1>3
<1>5. DOMAIN g = {"version_same", "version_changed", "version_undeclared"}
      /\ g = [x \in {"version_same", "version_changed", "version_undeclared"} |-> g[x]] BY <1>3
<1>6. SumFunction(g) = g["version_same"] + g["version_changed"] + g["version_undeclared"]
  <2>1. PICK a, b, c : a = "version_same" /\ b = "version_changed" /\ c = "version_undeclared"
    OBVIOUS
  <2>2. a # b /\ a # c /\ b # c BY <2>1
  <2>3. g \in [{a, b, c} -> Nat] BY <1>4, <1>5, <2>1
  <2>4. Three(a, b, c, g) BY <2>2, <2>3 DEF Three
  <2>5. SumFunction(g) = g[a] + g[b] + g[c] BY <2>4, SumOfThree
  <2> QED BY <2>1, <2>5
<1> QED BY <1>1, <1>4, <1>6

(***************************************************************************)
(* What is published, row by row.                                          *)
(***************************************************************************)
ToolFleet(f, w) ==
  Fleet("tool", w, {WideChange[w]}, WideHour[w], Cardinality(Counted(f, w)),
        VersionCount(f, w, "same"), VersionCount(f, w, "changed"),
        VersionCount(f, w, "undeclared"))
ContextFleet == Fleet("context", "day", ContextChange, OwnHour, 0, Absent, Absent, Absent)

\* A publisher-wide change as it is written.
LEMMA FleetIsWritten ==
  ASSUME NEW plane, NEW day, NEW kinds, NEW hour, NEW pages, NEW same, NEW changed,
         NEW undeclared, NEW w,
         w = Fleet(plane, day, kinds, hour, pages, same, changed, undeclared)
  PROVE  /\ IsFleet(w) /\ w.plane = plane /\ w.day = day /\ w.change_kinds = kinds
         /\ w.last_seen = hour /\ w.page_tools = pages /\ w.server_fp = Mine
         /\ w.version_same = same /\ w.version_changed = changed
         /\ w.version_undeclared = undeclared /\ w.members = 1 /\ w.servers = 10
         /\ w.safety_relevant = (kinds \cap Safety # {})
         /\ w.toolset_replaced = (kinds \cap Replacing # {})
         /\ w.safety_relevant \in BOOLEAN /\ w.toolset_replaced \in BOOLEAN
<1>1. PICK b, c : b = (kinds \cap Safety # {}) /\ c = (kinds \cap Replacing # {}) OBVIOUS
<1>2. w = [plane |-> plane, publisher_fp |-> "p", day |-> day, change_kinds |-> kinds,
           servers |-> 10, tools |-> 10, members |-> 1,
           server_fp |-> Mine, page_tools |-> pages, last_seen |-> hour,
           safety_relevant |-> b, toolset_replaced |-> c,
           version_same |-> same, version_changed |-> changed, version_undeclared |-> undeclared]
  BY <1>1 DEF Fleet
<1>3. IsFleet(w) BY <1>2 DEF IsFleet
<1>4. w.plane = plane /\ w.day = day /\ w.change_kinds = kinds /\ w.last_seen = hour BY <1>2
<1>5. w.page_tools = pages /\ w.server_fp = Mine /\ w.members = 1 /\ w.servers = 10 BY <1>2
<1>6. w.version_same = same /\ w.version_changed = changed /\ w.version_undeclared = undeclared
  BY <1>2
<1>7. w.safety_relevant = b /\ w.toolset_replaced = c BY <1>2
<1>8. b \in BOOLEAN /\ c \in BOOLEAN BY <1>1
<1> QED BY <1>1, <1>3, <1>4, <1>5, <1>6, <1>7, <1>8

LEMMA CountsAre ==
  ASSUME NEW f \in Facts, NEW w
  PROVE  /\ Counted(f, w) \subseteq Tool /\ IsFiniteSet(Counted(f, w))
         /\ Cardinality(Counted(f, w)) \in Nat
<1>1. Counted(f, w) \subseteq Tool BY DEF Counted
<1>2. IsFiniteSet(Counted(f, w)) BY <1>1, SliceConstants, FS_Subset
<1> QED BY <1>1, <1>2, FS_CardinalityType

\* The tools of a version that are counted, and how many they are as the row has it.
OfVersion(f, delta) == {t \in Tool : f.version[t] = delta}

LEMMA VersionCountIs ==
  ASSUME NEW f \in Facts, NEW w, NEW delta \in Delta, NEW n, n = VersionCount(f, w, delta)
  PROVE  (IF n = Absent THEN 0 ELSE n) = Cardinality(Counted(f, w) \cap OfVersion(f, delta))
<1>1. Counted(f, w) \cap OfVersion(f, delta) = {t \in Counted(f, w) : f.version[t] = delta}
  BY CountsAre DEF OfVersion
<1>2. CASE \E t \in Tool : f.version[t] = Absent
  <2>1. n = Absent BY <1>2 DEF VersionCount
  <2>2. \A t \in Tool : f.version[t] = Absent
    <3>1. Absent \notin Delta BY SliceConstants DEF Delta
    <3> QED BY <1>2, <3>1, FactsAre
  <2>3. Absent # delta BY SliceConstants DEF Delta
  <2>4. OfVersion(f, delta) = {} BY <2>2, <2>3 DEF OfVersion
  <2>5. Cardinality(Counted(f, w) \cap OfVersion(f, delta)) = 0 BY <2>4, FS_EmptySet
  <2> QED BY <2>1, <2>5
<1>3. CASE ~ \E t \in Tool : f.version[t] = Absent
  <2>1. n = Cardinality({t \in Counted(f, w) : f.version[t] = delta}) BY <1>3 DEF VersionCount
  <2>2. {t \in Counted(f, w) : f.version[t] = delta} \in SUBSET Counted(f, w) OBVIOUS
  <2>3. n \in Nat BY <2>1, <2>2, CountsAre, FS_Subset, FS_CardinalityType
  <2>4. n # Absent BY <2>3, SliceConstants
  <2> QED BY <1>1, <2>1, <2>4
<1> QED BY <1>2, <1>3

\* The version counts of a publisher-wide change are of tools it counts, each of one.
LEMMA VersionsFit ==
  ASSUME NEW f \in Facts, NEW w \in Wide
  PROVE  SumFunction(Versions(ToolFleet(f, w))) <= Cardinality(Counted(f, w))
<1>1. PICK r : r = ToolFleet(f, w) OBVIOUS
<1>2. PICK A, B, C, D : /\ D = Counted(f, w)
                        /\ A = D \cap OfVersion(f, "same") /\ B = D \cap OfVersion(f, "changed")
                        /\ C = D \cap OfVersion(f, "undeclared")
  OBVIOUS
<1>3. IsFiniteSet(D) /\ Cardinality(D) \in Nat BY <1>2, CountsAre
<1>4. /\ IsFiniteSet(A) /\ IsFiniteSet(B) /\ IsFiniteSet(C)
      /\ Cardinality(A) \in Nat /\ Cardinality(B) \in Nat /\ Cardinality(C) \in Nat
  <2>1. A \in SUBSET D /\ B \in SUBSET D /\ C \in SUBSET D BY <1>2
  <2> QED BY <1>3, <2>1, FS_Subset, FS_CardinalityType
<1>5. A \cap B = {} /\ (A \cup B) \cap C = {} /\ (A \cup B) \cup C \in SUBSET D
  BY <1>2 DEF OfVersion
<1>6. IsFiniteSet(A \cup B) /\ Cardinality(A \cup B) = Cardinality(A) + Cardinality(B)
  <2>1. Cardinality(A \cup B) = Cardinality(A) + Cardinality(B) - Cardinality(A \cap B)
        /\ IsFiniteSet(A \cup B) BY <1>4, FS_Union
  <2>2. Cardinality(A \cap B) = 0 BY <1>5, FS_EmptySet
  <2> QED BY <1>4, <2>1, <2>2
<1>7. Cardinality((A \cup B) \cup C) = Cardinality(A) + Cardinality(B) + Cardinality(C)
  <2>1. Cardinality((A \cup B) \cup C)
          = Cardinality(A \cup B) + Cardinality(C) - Cardinality((A \cup B) \cap C)
    BY <1>4, <1>6, FS_Union
  <2>2. Cardinality((A \cup B) \cap C) = 0 BY <1>5, FS_EmptySet
  <2> QED BY <1>4, <1>6, <2>1, <2>2
<1>8. Cardinality((A \cup B) \cup C) <= Cardinality(D) BY <1>3, <1>5, FS_Subset
<1>9. /\ IsFleet(r) /\ r.version_same = VersionCount(f, w, "same")
      /\ r.version_changed = VersionCount(f, w, "changed")
      /\ r.version_undeclared = VersionCount(f, w, "undeclared")
  BY <1>1, FleetIsWritten DEF ToolFleet
<1>10. {"same", "changed", "undeclared"} \subseteq Delta BY DEF Delta
<1>11. (IF r.version_same = Absent THEN 0 ELSE r.version_same) = Cardinality(A)
  BY <1>2, <1>9, <1>10, VersionCountIs
<1>12. (IF r.version_changed = Absent THEN 0 ELSE r.version_changed) = Cardinality(B)
  BY <1>2, <1>9, <1>10, VersionCountIs
<1>13. (IF r.version_undeclared = Absent THEN 0 ELSE r.version_undeclared) = Cardinality(C)
  BY <1>2, <1>9, <1>10, VersionCountIs
<1>14. SumFunction(Versions(r)) = Cardinality(A) + Cardinality(B) + Cardinality(C)
  BY <1>4, <1>9, <1>11, <1>12, <1>13, VersionsSum
<1> QED BY <1>1, <1>2, <1>7, <1>8, <1>14

LEMMA EventIsWritten ==
  ASSUME NEW t, NEW kinds, NEW hour, NEW version, NEW e, e = Event(t, kinds, hour, version)
  PROVE  /\ IsEvent(e) /\ e.tool_fp = t /\ e.server_fp = Mine /\ e.last_seen = hour
         /\ e.change_kinds = kinds /\ e.version_delta = version
         /\ e.safety_relevant = (kinds \cap Safety # {}) /\ e.safety_relevant \in BOOLEAN
         /\ e.removal_scope = IF kinds \cap Replacing # {} THEN "toolset-replaced" ELSE Absent
<1>1. PICK b, s : /\ b = (kinds \cap Safety # {})
                  /\ s = IF kinds \cap Replacing # {} THEN "toolset-replaced" ELSE Absent
  OBVIOUS
<1>2. e = [tool_fp |-> t, server_fp |-> Mine, safety_relevant |-> b, last_seen |-> hour,
           change_kinds |-> kinds, removal_scope |-> s, version_delta |-> version]
  BY <1>1 DEF Event
<1>3. IsEvent(e) BY <1>2 DEF IsEvent
<1>4. e.tool_fp = t /\ e.server_fp = Mine /\ e.last_seen = hour /\ e.change_kinds = kinds BY <1>2
<1>5. e.version_delta = version /\ e.safety_relevant = b /\ e.removal_scope = s BY <1>2
<1>6. b \in BOOLEAN BY <1>1
<1> QED BY <1>1, <1>3, <1>4, <1>5, <1>6

LEMMA ContextEventIsWritten ==
  ASSUME NEW hour, NEW e, e = ContextEvent(hour)
  PROVE  /\ IsContextEvent(e) /\ e.server_fp = Mine /\ e.last_seen = hour
         /\ e.change_kinds = ContextChange /\ e.safety_relevant \in BOOLEAN
         /\ e.safety_relevant = (ContextChange \cap Safety # {})
<1>1. PICK b : b = (ContextChange \cap Safety # {}) OBVIOUS
<1>2. e = [server_fp |-> Mine, safety_relevant |-> b, last_seen |-> hour,
           change_kinds |-> ContextChange] BY <1>1 DEF ContextEvent
<1>3. IsContextEvent(e) BY <1>2 DEF IsContextEvent
<1>4. e.server_fp = Mine /\ e.last_seen = hour /\ e.change_kinds = ContextChange BY <1>2
<1>5. e.safety_relevant = b BY <1>2
<1>6. b \in BOOLEAN BY <1>1
<1> QED BY <1>1, <1>3, <1>4, <1>5, <1>6

\* The tools that have an event of their own, what it says, and when.
Tellers(f, v) == IF v = "2" THEN Touched(f) ELSE OwnOnes(f)
KindsIn(f, v, t) == IF v = "2" THEN Kinds(f, t) ELSE f.own[t]
HourIn(f, v, t) == IF v = "2" THEN HourOf(f, t) ELSE OwnHour
EventOf(f, v, t) == Event(t, KindsIn(f, v, t), HourIn(f, v, t), f.version[t])

LEMMA ListsAre ==
  ASSUME NEW f \in Facts, NEW v \in Forms, NEW p, p = Published(f, v)
  PROVE  /\ p = [events |-> p.events, context_events |-> p.context_events,
                 fleet_events |-> p.fleet_events]
         /\ p.events = {EventOf(f, v, t) : t \in Tellers(f, v)}
         /\ p.context_events = IF (IF v = "2" THEN f.context = {} ELSE "own" \notin f.context)
                               THEN {} ELSE {ContextEvent(OwnHour)}
         /\ p.fleet_events = IF v = "2" THEN {}
                             ELSE {ToolFleet(f, w) : w \in WideOnes(f)}
                                    \cup (IF "wide" \in f.context THEN {ContextFleet} ELSE {})
<1>1. CASE v = "2"
  <2>1. p = Published2(f) BY <1>1 DEF Published
  <2>2. p.events = {EventOf(f, v, t) : t \in Tellers(f, v)}
    BY <1>1, <2>1 DEF Published2, EventOf, Tellers, Touched, KindsIn, HourIn
  <2>3. p.context_events = IF f.context = {} THEN {} ELSE {ContextEvent(OwnHour)}
    BY <2>1 DEF Published2
  <2>4. p.fleet_events = {} BY <2>1 DEF Published2
  <2>5. p = [events |-> p.events, context_events |-> p.context_events,
             fleet_events |-> p.fleet_events] BY <2>1 DEF Published2
  <2> QED BY <1>1, <2>2, <2>3, <2>4, <2>5
<1>2. CASE v = "3"
  <2>1. p = Published3(f) BY <1>2 DEF Published
  <2>2. p.events = {EventOf(f, v, t) : t \in Tellers(f, v)}
    BY <1>2, <2>1 DEF Published3, EventOf, Tellers, OwnOnes, KindsIn, HourIn
  <2>3. p.context_events = IF "own" \in f.context THEN {ContextEvent(OwnHour)} ELSE {}
    BY <2>1 DEF Published3
  <2>4. p.fleet_events = {ToolFleet(f, w) : w \in WideOnes(f)}
                           \cup (IF "wide" \in f.context THEN {ContextFleet} ELSE {})
    BY <2>1 DEF Published3, ToolFleet, ContextFleet, WideOnes
  <2>5. p = [events |-> p.events, context_events |-> p.context_events,
             fleet_events |-> p.fleet_events] BY <2>1 DEF Published3
  <2> QED BY <1>2, <2>2, <2>3, <2>4, <2>5
<1> QED BY <1>1, <1>2 DEF Forms

\* What is published is not malformed.
LEMMA NoJunk ==
  ASSUME NEW f \in Facts, NEW v \in Forms, NEW list \in Lists, NEW rows,
         rows = Published(f, v)[list]
  PROVE  rows # Junk /\ \A r \in rows : Clean(r)
<1>1. PICK p : p = Published(f, v) OBVIOUS
<1>2. p = [events |-> p.events, context_events |-> p.context_events,
           fleet_events |-> p.fleet_events] BY <1>1, ListsAre
<1>3. list \in DOMAIN p BY <1>2 DEF Lists
<1> QED BY <1>1, <1>3, JunkIsNoValue DEF Clean, Forms

LEMMA EventsAre ==
  ASSUME NEW f \in Facts, NEW v \in Forms, NEW rows, rows = Published(f, v).events
  PROVE  /\ \A e \in rows : EventRow(e)
         /\ Tellers(f, v) \subseteq Tool
         /\ IsFiniteSet(rows) /\ Cardinality(rows) = Cardinality(Tellers(f, v))
<1>1. rows = {EventOf(f, v, t) : t \in Tellers(f, v)} BY ListsAre
<1>2. \A e \in rows : Clean(e) BY NoJunk DEF Lists
<1>3. Tellers(f, v) \subseteq Tool BY DEF Tellers, Touched, OwnOnes
<1>4. ASSUME NEW t \in Tellers(f, v)
      PROVE  EventRow(EventOf(f, v, t)) /\ EventOf(f, v, t).tool_fp = t
  <2>1. PICK e : e = EventOf(f, v, t) OBVIOUS
  <2>2. /\ IsEvent(e) /\ e.tool_fp = t /\ e.server_fp = Mine /\ e.last_seen = HourIn(f, v, t)
        /\ e.change_kinds = KindsIn(f, v, t) /\ e.version_delta = f.version[t]
        /\ e.safety_relevant \in BOOLEAN /\ e.removal_scope \in {"toolset-replaced", Absent}
    BY <2>1, EventIsWritten DEF EventOf
  <2>3. HourIn(f, v, t) \in Nat
    BY <1>3, HoursAre DEF HourIn, OwnHour, Tellers, Touched
  <2>4. KindsIn(f, v, t) \subseteq Change BY <1>3, KindsAre, FactsAre DEF KindsIn
  <2>5. f.version[t] \in Delta \cup {Absent} BY <1>3, FactsAre
  <2>6. Clean(e) BY <1>1, <1>2, <2>1
  <2> QED BY <2>1, <2>2, <2>3, <2>4, <2>5, <2>6 DEF EventRow, SoundRow
<1>5. \A e \in rows : EventRow(e) BY <1>1, <1>4
<1>6. PICK g : g = [t \in Tellers(f, v) |-> EventOf(f, v, t)] OBVIOUS
<1>7. \A x, y \in Tellers(f, v) : g[x] = g[y] => x = y BY <1>4, <1>6
<1>8. rows = {g[t] : t \in Tellers(f, v)} BY <1>1, <1>6
<1>9. IsFiniteSet(Tellers(f, v)) BY <1>3, SliceConstants, FS_Subset
<1>10. IsFiniteSet(rows) /\ Cardinality(rows) = Cardinality(Tellers(f, v))
  BY <1>7, <1>8, <1>9, ManyMade
<1> QED BY <1>3, <1>5, <1>10

LEMMA ContextEventsAre ==
  ASSUME NEW f \in Facts, NEW v \in Forms, NEW rows, rows = Published(f, v).context_events
  PROVE  /\ \A e \in rows : ContextRow(e) /\ e = ContextEvent(OwnHour)
         /\ IsFiniteSet(rows)
<1>1. rows \in {{}, {ContextEvent(OwnHour)}} BY ListsAre
<1>2. \A e \in rows : Clean(e) BY NoJunk DEF Lists
<1>3. IsFiniteSet(rows)
  <2>1. PICK e : e = ContextEvent(OwnHour) OBVIOUS
  <2>2. rows = {} \/ rows = {e} BY <1>1, <2>1
  <2>3. IsFiniteSet({e}) /\ IsFiniteSet({}) BY FS_EmptySet, FS_Singleton
  <2> QED BY <2>2, <2>3
<1>4. ASSUME NEW e \in rows PROVE ContextRow(e) /\ e = ContextEvent(OwnHour)
  <2>1. e = ContextEvent(OwnHour) BY <1>1
  <2>2. /\ IsContextEvent(e) /\ e.server_fp = Mine /\ e.last_seen = OwnHour
        /\ e.change_kinds = ContextChange /\ e.safety_relevant \in BOOLEAN
    BY <2>1, ContextEventIsWritten
  <2> QED BY <1>2, <2>1, <2>2 DEF ContextRow, SoundRow, OwnHour
<1> QED BY <1>3, <1>4

LEMMA FleetsAre ==
  ASSUME NEW f \in Facts, NEW v \in Forms, NEW rows, rows = Published(f, v).fleet_events
  PROVE  /\ \A w \in rows : FleetRow(w)
         /\ IsFiniteSet(rows)
<1>1. rows = IF v = "2" THEN {}
             ELSE {ToolFleet(f, w) : w \in WideOnes(f)}
                    \cup (IF "wide" \in f.context THEN {ContextFleet} ELSE {}) BY ListsAre
<1>2. \A w \in rows : Clean(w) BY NoJunk DEF Lists
<1>3. WideOnes(f) \subseteq Wide BY FactsAre
<1>4. ASSUME NEW r \in rows PROVE FleetRow(r)
  <2>1. CASE \E w \in WideOnes(f) : r = ToolFleet(f, w)
    <3>1. PICK w \in WideOnes(f) : r = ToolFleet(f, w) BY <2>1
    <3>2. w \in Wide /\ WideChange[w] \in Change /\ WideHour[w] \in Nat
      BY <1>3, SliceConstants
    <3>3. /\ IsFleet(r) /\ r.plane = "tool" /\ r.change_kinds = {WideChange[w]}
          /\ r.last_seen = WideHour[w] /\ r.page_tools = Cardinality(Counted(f, w))
          /\ r.server_fp = Mine /\ r.members = 1 /\ r.servers = 10
          /\ r.safety_relevant \in BOOLEAN /\ r.toolset_replaced \in BOOLEAN
      BY <3>1, FleetIsWritten DEF ToolFleet
    <3>4. SumFunction(Versions(r)) <= r.page_tools BY <3>1, <3>2, <3>3, VersionsFit
    <3>5. r.members <= r.servers BY <3>3
    <3> QED BY <1>2, <3>2, <3>3, <3>4, <3>5 DEF FleetRow, SoundRow
  <2>2. CASE r = ContextFleet
    <3>1. /\ IsFleet(r) /\ r.plane = "context" /\ r.change_kinds = ContextChange
          /\ r.last_seen = OwnHour /\ r.page_tools = 0
          /\ r.server_fp = Mine /\ r.members = 1 /\ r.servers = 10
          /\ r.version_same = Absent /\ r.version_changed = Absent
          /\ r.version_undeclared = Absent
          /\ r.safety_relevant \in BOOLEAN /\ r.toolset_replaced \in BOOLEAN
      BY <2>2, FleetIsWritten DEF ContextFleet
    <3>2. PICK n \in Nat : n = 0 OBVIOUS
    <3>6. /\ n = IF r.version_same = Absent THEN 0 ELSE r.version_same
          /\ n = IF r.version_changed = Absent THEN 0 ELSE r.version_changed
          /\ n = IF r.version_undeclared = Absent THEN 0 ELSE r.version_undeclared
      BY <3>1, <3>2
    <3>3. SumFunction(Versions(r)) = n + n + n BY <3>1, <3>6, VersionsSum
    <3>4. SumFunction(Versions(r)) <= r.page_tools BY <3>1, <3>2, <3>3
    <3>5. r.members <= r.servers BY <3>1
    <3> QED BY <1>2, <3>1, <3>4, <3>5 DEF FleetRow, SoundRow, OwnHour
  <2> QED BY <1>1, <2>1, <2>2
<1>5. IsFiniteSet(rows)
  <2>1. IsFiniteSet(WideOnes(f)) BY <1>3, SliceConstants, FS_Subset
  <2>2. PICK g : g = [w \in WideOnes(f) |-> ToolFleet(f, w)] OBVIOUS
  <2>3. IsFiniteSet({g[w] : w \in WideOnes(f)}) BY <2>1, SomeMade
  <2>4. {g[w] : w \in WideOnes(f)} = {ToolFleet(f, w) : w \in WideOnes(f)} BY <2>2
  <2>5. IsFiniteSet(IF "wide" \in f.context THEN {ContextFleet} ELSE {})
    BY FS_EmptySet, FS_Singleton
  <2>6. IsFiniteSet({ToolFleet(f, w) : w \in WideOnes(f)}
                    \cup (IF "wide" \in f.context THEN {ContextFleet} ELSE {}))
    BY <2>3, <2>4, <2>5, FS_Union
  <2> QED BY <1>1, <2>6, FS_EmptySet
<1> QED BY <1>4, <1>5

(***************************************************************************)
(* What is published is read whole, and as it was written.                 *)
(***************************************************************************)
LEMMA ReadsBack ==
  ASSUME NEW f \in Facts, NEW v \in Forms, NEW p, p = Published(f, v)
  PROVE  /\ Events(p.events) = p.events /\ ContextEvents(p.context_events) = p.context_events
         /\ {coerceFleetEvent(w) : w \in p.fleet_events} = p.fleet_events
         /\ parseServerSlice(p) = {p}
<1>1. p = [events |-> p.events, context_events |-> p.context_events,
           fleet_events |-> p.fleet_events] BY ListsAre
<1>2. \A e \in p.events : EventRow(e) /\ coerceEvent(e) = e /\ e.tool_fp # Junk
  BY EventsAre, EventStands
<1>3. \A e \in p.context_events : /\ ContextRow(e) /\ coerceContextEvent(e) = e
                                  /\ e.server_fp # Junk /\ e.change_kinds # {}
  BY ContextEventsAre, ContextEventStands
<1>4. \A w \in p.fleet_events : FleetRow(w) /\ coerceFleetEvent(w) = w /\ Whole(w)
  BY FleetsAre, FleetStands
<1>5. Events(p.events) = p.events BY <1>2 DEF Events
<1>6. ContextEvents(p.context_events) = p.context_events BY <1>3 DEF ContextEvents
<1>7. {coerceFleetEvent(w) : w \in p.fleet_events} = p.fleet_events BY <1>4
<1>8. Slice(p) = p BY <1>1, <1>5, <1>6, <1>7 DEF Slice
<1>9. \A rows \in {p.events, p.context_events, p.fleet_events} : \A r \in rows : r.server_fp = Mine
  BY <1>2, <1>3, <1>4 DEF EventRow, ContextRow, FleetRow, SoundRow
<1>10. \A list \in {"events", "context_events", "fleet_events"} : p[list] # Junk
  BY NoJunk DEF Lists
<1>11. parseServerSlice(p) = {p} BY <1>4, <1>8, <1>9, <1>10 DEF parseServerSlice
<1> QED BY <1>5, <1>6, <1>7, <1>11

\* A server's share of the publisher-wide changes of tools.
Share(rows) == {w \in rows : w.plane = "tool"}

\* What aggregateServerDrift says, of the rows it says it of.
SaidOf(s, share, ctx) ==
  [changes |-> Cardinality(s.events) + Summed(share, "page_tools"),
   lastSeen |-> Latest(s.events \cup share),
   kinds |-> KindsOf(s.events \cup share),
   safetyRelevant |-> Flagged(s.events \cup share),
   toolsetReplaced |-> \/ \E e \in s.events : e.removal_scope = "toolset-replaced"
                       \/ \E w \in share : w.toolset_replaced,
   versionSame |-> Cardinality({e \in s.events : e.version_delta = "same"})
                     + Summed(share, "version_same"),
   versionChanged |-> Cardinality({e \in s.events : e.version_delta = "changed"})
                        + Summed(share, "version_changed"),
   versionUndeclared |-> Cardinality({e \in s.events : e.version_delta = "undeclared"})
                           + Summed(share, "version_undeclared"),
   contextChanges |-> IF s.context_events # {} THEN Cardinality(s.context_events)
                      ELSE IF ctx # {} THEN 1 ELSE 0,
   contextKinds |-> KindsOf(s.context_events \cup ctx),
   contextLastSeen |-> Latest(s.context_events \cup ctx),
   contextSafetyRelevant |-> Flagged(s.context_events \cup ctx)]

LEMMA SaidOfIs ==
  ASSUME NEW s, NEW share, share = Share(s.fleet_events), NEW ctx, ctx = s.fleet_events \ share
  PROVE  aggregateServerDrift(s)
           = IF share # {} /\ Cardinality(s.events) + Summed(share, "page_tools") = 0 THEN {}
             ELSE {SaidOf(s, share, ctx)}
<1> QED BY DEF aggregateServerDrift, SaidOf, Share

(***************************************************************************)
(* What the rows count: each row of the share the tools of its change that *)
(* have no event of their own, of which every tool is in one.              *)
(***************************************************************************)
IsShare(f, rows) ==
  /\ IsFiniteSet(rows) /\ \A r \in rows : r.day \in WideOnes(f)
  /\ \A x, y \in rows : x.day = y.day => x = y
  /\ \A w \in WideOnes(f) : \E r \in rows : r.day = w

LEMMA ShareSums ==
  ASSUME NEW f \in Facts, NEW rows, IsShare(f, rows), NEW part, NEW D,
         \A r \in rows : (IF r[part] = Absent THEN 0 ELSE r[part])
                           = Cardinality(Counted(f, r.day) \cap D)
  PROVE  Summed(rows, part) = Cardinality(Shared(f) \cap D)
<1>1. PICK C : C = [r \in rows |-> Counted(f, r.day) \cap D] OBVIOUS
<1>2. ASSUME NEW r \in rows PROVE IsFiniteSet(C[r])
  <2>1. C[r] \in SUBSET Counted(f, r.day) BY <1>1
  <2> QED BY <2>1, CountsAre, FS_Subset
<1>3. Apart(rows, C)
  <2>1. ASSUME NEW x \in rows, NEW y \in rows, x # y PROVE C[x] \cap C[y] = {}
    <3>1. x.day # y.day BY <2>1 DEF IsShare
    <3>2. C[x] = Counted(f, x.day) \cap D /\ C[y] = Counted(f, y.day) \cap D BY <1>1
    <3> QED BY <3>1, <3>2 DEF Counted
  <2> QED BY <2>1 DEF Apart
<1>4. PICK g : g = [r \in rows |-> IF r[part] = Absent THEN 0 ELSE r[part]] OBVIOUS
<1>5. g = [r \in rows |-> Cardinality(C[r])] BY <1>1, <1>4
<1>6. SumFunction(g) = Cardinality(All(C, rows))
  BY <1>2, <1>3, <1>5, SumOfParts DEF IsShare
<1>7. All(C, rows) = Shared(f) \cap D
  <2>1. ASSUME NEW r \in rows PROVE C[r] \subseteq Shared(f) \cap D BY <1>1 DEF Counted, Shared
  <2>2. ASSUME NEW t \in Shared(f) \cap D PROVE \E r \in rows : t \in C[r]
    <3>1. t \in Tool /\ f.own[t] = {} /\ f.wide[t] # {} BY DEF Shared
    <3>2. f.page[t] \in f.wide[t] BY <3>1, FactsAre
    <3>3. f.page[t] \in WideOnes(f) BY <3>1, <3>2 DEF WideOnes
    <3>4. PICK r \in rows : r.day = f.page[t] BY <3>3 DEF IsShare
    <3>5. t \in Counted(f, r.day) BY <3>1, <3>2, <3>4 DEF Counted
    <3> QED BY <1>1, <3>4, <3>5
  <2> QED BY <2>1, <2>2 DEF All
<1> QED BY <1>4, <1>6, <1>7 DEF Summed

\* The tools with an event of their own, and those of the share, are those that changed.
LEMMA TouchedAre ==
  ASSUME NEW f \in Facts, NEW D \in SUBSET Tool
  PROVE  /\ IsFiniteSet(Touched(f) \cap D) /\ Cardinality(Touched(f) \cap D) \in Nat
         /\ Cardinality(Touched(f) \cap D)
              = Cardinality(OwnOnes(f) \cap D) + Cardinality(Shared(f) \cap D)
<1>1. PICK T, A, B : T = Touched(f) \cap D /\ A = OwnOnes(f) \cap D /\ B = Shared(f) \cap D OBVIOUS
<1>2. T = A \cup B BY <1>1, KindsAre DEF Touched, OwnOnes, Shared
<1>3. A \cap B = {} BY <1>1 DEF OwnOnes, Shared
<1>4. IsFiniteSet(A) /\ IsFiniteSet(B) /\ IsFiniteSet(T)
  <2>1. A \in SUBSET Tool /\ B \in SUBSET Tool /\ T \in SUBSET Tool BY <1>1
  <2> QED BY <2>1, SliceConstants, FS_Subset
<1>5. Cardinality(A \cup B) = Cardinality(A) + Cardinality(B) - Cardinality(A \cap B)
  BY <1>4, FS_Union
<1>6. Cardinality(A \cap B) = 0 BY <1>3, FS_EmptySet
<1>7. Cardinality(A) \in Nat /\ Cardinality(B) \in Nat /\ Cardinality(T) \in Nat
  BY <1>4, FS_CardinalityType
<1>8. Cardinality(T) = Cardinality(A) + Cardinality(B) BY <1>2, <1>5, <1>6, <1>7
<1> QED BY <1>1, <1>4, <1>7, <1>8

LEMMA NoneSummed == ASSUME NEW part PROVE Summed({}, part) = 0
<1>1. PICK g : g = [r \in {} |-> IF r[part] = Absent THEN 0 ELSE r[part]] OBVIOUS
<1>2. PICK C : C = [r \in {} |-> {}] OBVIOUS
<1>3. IsFiniteSet({}) /\ Cardinality({}) = 0 BY FS_EmptySet
<1>4. g = [r \in {} |-> Cardinality(C[r])] BY <1>1
<1>5. \A r \in {} : IsFiniteSet(C[r]) OBVIOUS
<1>6. Apart({}, C) BY DEF Apart
<1>7. SumFunction(g) = Cardinality(All(C, {})) BY <1>3, <1>4, <1>5, <1>6, SumOfParts
<1>8. All(C, {}) = {} BY DEF All
<1> QED BY <1>1, <1>3, <1>7, <1>8 DEF Summed

LEMMA PagesSum ==
  ASSUME NEW f \in Facts, NEW rows, IsShare(f, rows),
         \A r \in rows : r.page_tools = Cardinality(Counted(f, r.day))
  PROVE  Summed(rows, "page_tools") = Cardinality(Shared(f) \cap Tool)
<1>1. ASSUME NEW r \in rows
      PROVE  (IF r["page_tools"] = Absent THEN 0 ELSE r["page_tools"])
               = Cardinality(Counted(f, r.day) \cap Tool)
  <2>1. Counted(f, r.day) \cap Tool = Counted(f, r.day) BY CountsAre
  <2>2. Cardinality(Counted(f, r.day)) # Absent BY CountsAre, SliceConstants
  <2> QED BY <2>1, <2>2
<1> QED BY <1>1, ShareSums

LEMMA ShareIs ==
  ASSUME NEW f \in Facts, NEW rows, rows = Share(Published(f, "3").fleet_events)
  PROVE  /\ IsShare(f, rows) /\ rows = {ToolFleet(f, w) : w \in WideOnes(f)}
         /\ \A r \in rows : r = ToolFleet(f, r.day)
<1>1. PICK all : all = Published(f, "3").fleet_events OBVIOUS
<1>2. all = {ToolFleet(f, w) : w \in WideOnes(f)}
              \cup (IF "wide" \in f.context THEN {ContextFleet} ELSE {})
  BY <1>1, ListsAre DEF Forms
<1>3. \A w \in WideOnes(f) : ToolFleet(f, w).plane = "tool" /\ ToolFleet(f, w).day = w
  BY FleetIsWritten DEF ToolFleet
<1>4. ContextFleet.plane = "context" BY FleetIsWritten DEF ContextFleet
<1>5. rows = {ToolFleet(f, w) : w \in WideOnes(f)} BY <1>1, <1>2, <1>3, <1>4 DEF Share
<1>6. IsFiniteSet(rows)
  <2>1. rows \in SUBSET all BY <1>1 DEF Share
  <2>2. IsFiniteSet(all) BY <1>1, FleetsAre DEF Forms
  <2> QED BY <2>1, <2>2, FS_Subset
<1>7. \A r \in rows : r.day \in WideOnes(f) /\ r = ToolFleet(f, r.day) BY <1>3, <1>5
<1>8. \A w \in WideOnes(f) : \E r \in rows : r.day = w BY <1>3, <1>5
<1>9. \A x, y \in rows : x.day = y.day => x = y BY <1>7
<1> QED BY <1>5, <1>6, <1>7, <1>8, <1>9 DEF IsShare

\* The events of a version are of the tools of it.
LEMMA EventsOfVersion ==
  ASSUME NEW f \in Facts, NEW v \in Forms, NEW rows, rows = Published(f, v).events,
         NEW delta \in Delta
  PROVE  Cardinality({e \in rows : e.version_delta = delta})
           = Cardinality(Tellers(f, v) \cap OfVersion(f, delta))
<1>1. rows = {EventOf(f, v, t) : t \in Tellers(f, v)} /\ Tellers(f, v) \subseteq Tool
  BY ListsAre, EventsAre
<1>2. \A t \in Tool : EventOf(f, v, t).tool_fp = t /\ EventOf(f, v, t).version_delta = f.version[t]
  BY EventIsWritten DEF EventOf
<1>3. PICK T : T = Tellers(f, v) \cap OfVersion(f, delta) OBVIOUS
<1>4. T \in SUBSET Tool /\ IsFiniteSet(T) BY <1>3, SliceConstants, FS_Subset DEF OfVersion
<1>5. PICK g : g = [t \in T |-> EventOf(f, v, t)] OBVIOUS
<1>6. \A x, y \in T : g[x] = g[y] => x = y BY <1>2, <1>4, <1>5
<1>7. {e \in rows : e.version_delta = delta} = {g[t] : t \in T}
  BY <1>1, <1>2, <1>3, <1>5 DEF OfVersion
<1>8. Cardinality({g[t] : t \in T}) = Cardinality(T) BY <1>4, <1>6, ManyMade
<1> QED BY <1>3, <1>7, <1>8

\* How many changed, and how many of those are of a version, under either form.
LEMMA CountsAnswered ==
  ASSUME NEW f \in Facts, NEW v \in Forms, NEW p, p = Published(f, v),
         NEW share, share = Share(p.fleet_events)
  PROVE  /\ Cardinality(p.events) + Summed(share, "page_tools") = Cardinality(Touched(f))
         /\ Cardinality({e \in p.events : e.version_delta = "same"})
              + Summed(share, "version_same") = Cardinality(Touched(f) \cap OfVersion(f, "same"))
         /\ Cardinality({e \in p.events : e.version_delta = "changed"})
              + Summed(share, "version_changed")
              = Cardinality(Touched(f) \cap OfVersion(f, "changed"))
         /\ Cardinality({e \in p.events : e.version_delta = "undeclared"})
              + Summed(share, "version_undeclared")
              = Cardinality(Touched(f) \cap OfVersion(f, "undeclared"))
<1>1. Cardinality(p.events) = Cardinality(Tellers(f, v)) /\ Tellers(f, v) \subseteq Tool
  BY EventsAre
<1>2. {"same", "changed", "undeclared"} \subseteq Delta BY DEF Delta
<1>3. \A delta \in {"same", "changed", "undeclared"} :
        Cardinality({e \in p.events : e.version_delta = delta})
          = Cardinality(Tellers(f, v) \cap OfVersion(f, delta)) BY <1>2, EventsOfVersion
<1>4. Touched(f) \cap Tool = Touched(f) BY DEF Touched
<1>5. \A delta : OfVersion(f, delta) \in SUBSET Tool BY DEF OfVersion
<1>6. \A D \in SUBSET Tool : Cardinality(Touched(f) \cap D) \in Nat BY TouchedAre
<1>7. CASE v = "2"
  <2>1. Tellers(f, v) = Touched(f) BY <1>7 DEF Tellers
  <2>2. share = {}
    <3>1. p.fleet_events = {} BY <1>7, ListsAre
    <3> QED BY <3>1 DEF Share
  <2>3. \A part : Summed(share, part) = 0 BY <2>2, NoneSummed
  <2>4. Cardinality(Touched(f)) \in Nat BY <1>4, <1>6
  <2>5. \A delta : Cardinality(Touched(f) \cap OfVersion(f, delta)) \in Nat BY <1>5, <1>6
  <2> QED BY <1>1, <1>3, <2>1, <2>3, <2>4, <2>5
<1>8. CASE v = "3"
  <2>1. Tellers(f, v) = OwnOnes(f) /\ OwnOnes(f) \cap Tool = OwnOnes(f)
    BY <1>8 DEF Tellers, OwnOnes
  <2>2. IsShare(f, share) /\ \A r \in share : r = ToolFleet(f, r.day) BY <1>8, ShareIs
  <2>3. \A r \in share : /\ r.page_tools = Cardinality(Counted(f, r.day))
                         /\ r.version_same = VersionCount(f, r.day, "same")
                         /\ r.version_changed = VersionCount(f, r.day, "changed")
                         /\ r.version_undeclared = VersionCount(f, r.day, "undeclared")
    <3>1. ASSUME NEW r \in share
          PROVE  /\ r.page_tools = Cardinality(Counted(f, r.day))
                 /\ r.version_same = VersionCount(f, r.day, "same")
                 /\ r.version_changed = VersionCount(f, r.day, "changed")
                 /\ r.version_undeclared = VersionCount(f, r.day, "undeclared")
      <4>1. PICK w : w = r.day OBVIOUS
      <4>2. r = ToolFleet(f, w) BY <2>2, <4>1
      <4>3. /\ r.page_tools = Cardinality(Counted(f, w))
            /\ r.version_same = VersionCount(f, w, "same")
            /\ r.version_changed = VersionCount(f, w, "changed")
            /\ r.version_undeclared = VersionCount(f, w, "undeclared")
        BY <4>2, FleetIsWritten DEF ToolFleet
      <4> QED BY <4>1, <4>3
    <3> QED BY <3>1
  <2>4. Summed(share, "page_tools") = Cardinality(Shared(f) \cap Tool)
    BY <2>2, <2>3, PagesSum
  <2>5. Summed(share, "version_same") = Cardinality(Shared(f) \cap OfVersion(f, "same"))
    <3>1. \A r \in share : (IF r["version_same"] = Absent THEN 0 ELSE r["version_same"])
                             = Cardinality(Counted(f, r.day) \cap OfVersion(f, "same"))
      BY <1>2, <2>3, VersionCountIs
    <3> QED BY <2>2, <3>1, ShareSums
  <2>6. Summed(share, "version_changed") = Cardinality(Shared(f) \cap OfVersion(f, "changed"))
    <3>1. \A r \in share : (IF r["version_changed"] = Absent THEN 0 ELSE r["version_changed"])
                             = Cardinality(Counted(f, r.day) \cap OfVersion(f, "changed"))
      BY <1>2, <2>3, VersionCountIs
    <3> QED BY <2>2, <3>1, ShareSums
  <2>7. Summed(share, "version_undeclared")
          = Cardinality(Shared(f) \cap OfVersion(f, "undeclared"))
    <3>1. \A r \in share : (IF r["version_undeclared"] = Absent THEN 0
                            ELSE r["version_undeclared"])
                             = Cardinality(Counted(f, r.day) \cap OfVersion(f, "undeclared"))
      BY <1>2, <2>3, VersionCountIs
    <3> QED BY <2>2, <3>1, ShareSums
  <2>8. Cardinality(Touched(f)) = Cardinality(OwnOnes(f)) + Cardinality(Shared(f) \cap Tool)
    <3>1. PICK D \in SUBSET Tool : D = Tool OBVIOUS
    <3>2. Cardinality(Touched(f) \cap D) = Cardinality(OwnOnes(f) \cap D) + Cardinality(Shared(f) \cap D)
      BY TouchedAre
    <3> QED BY <1>4, <2>1, <3>1, <3>2
  <2>9. \A delta : Cardinality(Touched(f) \cap OfVersion(f, delta))
                     = Cardinality(OwnOnes(f) \cap OfVersion(f, delta))
                         + Cardinality(Shared(f) \cap OfVersion(f, delta)) BY <1>5, TouchedAre
  <2> QED BY <1>1, <1>3, <2>1, <2>4, <2>5, <2>6, <2>7, <2>8, <2>9
<1> QED BY <1>7, <1>8 DEF Forms

(***************************************************************************)
(* What the rows say, under either form: the same kinds and flags, and the *)
(* same latest hour.                                                       *)
(***************************************************************************)
ToolRows(f, v) ==
  {EventOf(f, v, t) : t \in Tellers(f, v)}
    \cup (IF v = "2" THEN {} ELSE {ToolFleet(f, w) : w \in WideOnes(f)})

Says(r) == r.safety_relevant = (r.change_kinds \cap Safety # {})
Replaces(r) == r.change_kinds \cap Replacing # {}

LEMMA ToolRowsAre ==
  ASSUME NEW f \in Facts, NEW v \in Forms, NEW R, R = ToolRows(f, v)
  PROVE  /\ \A r \in R : Says(r) /\ \E t \in Tool : /\ r.change_kinds \subseteq Kinds(f, t)
                                                    /\ r.last_seen \in HoursOf(f, t)
         /\ \A t \in Tool : \A k \in Kinds(f, t) : \E r \in R : k \in r.change_kinds
         /\ \A t \in Tool : \A h \in HoursOf(f, t) : \E r \in R : h <= r.last_seen
<1>1. Tellers(f, v) \subseteq Tool BY EventsAre
<1>2. \A t \in Tool : LET e == EventOf(f, v, t) IN
        Says(e) /\ e.change_kinds = KindsIn(f, v, t) /\ e.last_seen = HourIn(f, v, t)
  BY EventIsWritten DEF EventOf, Says
<1>3. \A w \in Wide : LET r == ToolFleet(f, w) IN
        Says(r) /\ r.change_kinds = {WideChange[w]} /\ r.last_seen = WideHour[w]
  BY FleetIsWritten DEF ToolFleet, Says
<1>4. WideOnes(f) \subseteq Wide BY FactsAre
<1>5. \A t \in Tool : f.wide[t] \subseteq WideOnes(f) BY DEF WideOnes
<1>6. \A t \in Tool : HoursOf(f, t) \subseteq Nat BY HoursAre
<1>7. ASSUME NEW r \in R
      PROVE  Says(r) /\ \E t \in Tool : /\ r.change_kinds \subseteq Kinds(f, t)
                                        /\ r.last_seen \in HoursOf(f, t)
  <2>1. CASE \E t \in Tellers(f, v) : r = EventOf(f, v, t)
    <3>1. PICK t \in Tellers(f, v) : r = EventOf(f, v, t) BY <2>1
    <3>2. t \in Tool /\ Says(r) /\ r.change_kinds = KindsIn(f, v, t) /\ r.last_seen = HourIn(f, v, t)
      BY <1>1, <1>2, <3>1
    <3>3. r.change_kinds \subseteq Kinds(f, t) BY <3>2 DEF KindsIn, Kinds
    <3>4. HourIn(f, v, t) \in HoursOf(f, t)
      <4>1. CASE v = "2" BY <3>1, <3>2, <4>1, HoursAre DEF HourIn, Tellers, Touched
      <4>2. CASE v # "2" BY <3>1, <3>2, <4>2 DEF HourIn, Tellers, OwnOnes, HoursOf
      <4> QED BY <4>1, <4>2
    <3> QED BY <3>2, <3>3, <3>4
  <2>2. CASE \E w \in WideOnes(f) : r = ToolFleet(f, w)
    <3>1. PICK w \in WideOnes(f) : r = ToolFleet(f, w) BY <2>2
    <3>2. w \in Wide BY <1>4
    <3>3. PICK t \in Tool : w \in f.wide[t] BY DEF WideOnes
    <3>4. Says(r) /\ r.change_kinds = {WideChange[w]} /\ r.last_seen = WideHour[w]
      BY <1>3, <3>1, <3>2
    <3>5. WideChange[w] \in Kinds(f, t) /\ WideHour[w] \in HoursOf(f, t)
      BY <3>3 DEF Kinds, HoursOf
    <3> QED BY <3>4, <3>5
  <2> QED BY <2>1, <2>2 DEF ToolRows
<1>8. ASSUME NEW t \in Tool, NEW k \in Kinds(f, t)
      PROVE  \E r \in R : k \in r.change_kinds
  <2>1. CASE v = "2"
    <3>1. t \in Tellers(f, v) BY <2>1 DEF Tellers, Touched
    <3>2. EventOf(f, v, t) \in R BY <3>1 DEF ToolRows
    <3>3. k \in EventOf(f, v, t).change_kinds BY <1>2, <2>1 DEF KindsIn
    <3> QED BY <3>2, <3>3
  <2>2. CASE v # "2" /\ k \in f.own[t]
    <3>1. t \in Tellers(f, v) BY <2>2 DEF Tellers, OwnOnes
    <3>2. EventOf(f, v, t) \in R BY <3>1 DEF ToolRows
    <3>3. k \in EventOf(f, v, t).change_kinds BY <1>2, <2>2 DEF KindsIn
    <3> QED BY <3>2, <3>3
  <2>3. CASE v # "2" /\ \E w \in f.wide[t] : k = WideChange[w]
    <3>1. PICK w \in f.wide[t] : k = WideChange[w] BY <2>3
    <3>2. w \in WideOnes(f) /\ w \in Wide BY <1>4, <1>5
    <3>3. ToolFleet(f, w) \in R BY <2>3, <3>2 DEF ToolRows
    <3>4. k \in ToolFleet(f, w).change_kinds BY <1>3, <3>1, <3>2
    <3> QED BY <3>3, <3>4
  <2> QED BY <2>1, <2>2, <2>3 DEF Kinds
<1>9. ASSUME NEW t \in Tool, NEW h \in HoursOf(f, t)
      PROVE  \E r \in R : h <= r.last_seen
  <2>1. CASE v = "2"
    <3>1. Kinds(f, t) # {} BY KindsAre DEF HoursOf
    <3>2. EventOf(f, v, t) \in R BY <2>1, <3>1 DEF ToolRows, Tellers, Touched
    <3>3. EventOf(f, v, t).last_seen = HourOf(f, t) BY <1>2, <2>1 DEF HourIn
    <3>4. h <= HourOf(f, t) BY <3>1, HoursAre
    <3> QED BY <3>2, <3>3, <3>4
  <2>2. CASE v # "2" /\ f.own[t] # {} /\ h = OwnHour
    <3>1. EventOf(f, v, t) \in R BY <2>2 DEF ToolRows, Tellers, OwnOnes
    <3>2. EventOf(f, v, t).last_seen = h BY <1>2, <2>2 DEF HourIn
    <3>3. h <= h BY <1>6
    <3> QED BY <3>1, <3>2, <3>3
  <2>3. CASE v # "2" /\ \E w \in f.wide[t] : h = WideHour[w]
    <3>1. PICK w \in f.wide[t] : h = WideHour[w] BY <2>3
    <3>2. w \in WideOnes(f) /\ w \in Wide BY <1>4, <1>5
    <3>3. ToolFleet(f, w) \in R BY <2>3, <3>2 DEF ToolRows
    <3>4. ToolFleet(f, w).last_seen = h BY <1>3, <3>1, <3>2
    <3>5. h <= h BY <1>6
    <3> QED BY <3>3, <3>4, <3>5
  <2> QED BY <2>1, <2>2, <2>3 DEF HoursOf
<1> QED BY <1>7, <1>8, <1>9

\* The kinds of what changed, and whether one is on a list.
KindsTouched(f) == UNION {Kinds(f, t) : t \in Tool}

LEMMA RowsSay ==
  ASSUME NEW f \in Facts, NEW v \in Forms, NEW R, R = ToolRows(f, v), IsFiniteSet(R)
  PROVE  /\ KindsOf(R) = KindsTouched(f)
         /\ Flagged(R) = (KindsTouched(f) \cap Safety # {})
         /\ (\E r \in R : Replaces(r)) = (KindsTouched(f) \cap Replacing # {})
         /\ Latest(R) = Max(Hours(f) \cup {NoHour})
<1>1. /\ \A r \in R : Says(r) /\ \E t \in Tool : /\ r.change_kinds \subseteq Kinds(f, t)
                                                 /\ r.last_seen \in HoursOf(f, t)
      /\ \A t \in Tool : \A k \in Kinds(f, t) : \E r \in R : k \in r.change_kinds
      /\ \A t \in Tool : \A h \in HoursOf(f, t) : \E r \in R : h <= r.last_seen BY ToolRowsAre
<1>2. KindsOf(R) = KindsTouched(f) BY <1>1 DEF KindsOf, KindsTouched
<1>3. Flagged(R) = (KindsOf(R) \cap Safety # {})
  <2>1. \A r \in R : r.safety_relevant <=> r.change_kinds \cap Safety # {} BY <1>1 DEF Says
  <2>2. Flagged(R) <=> \E r \in R : r.change_kinds \cap Safety # {} BY <2>1 DEF Flagged
  <2>3. (\E r \in R : r.change_kinds \cap Safety # {}) <=> KindsOf(R) \cap Safety # {}
    BY DEF KindsOf
  <2>4. Flagged(R) <=> KindsOf(R) \cap Safety # {} BY <2>2, <2>3
  <2>5. Flagged(R) \in BOOLEAN BY DEF Flagged
  <2> QED BY <2>4, <2>5
<1>4. (\E r \in R : Replaces(r)) = (KindsOf(R) \cap Replacing # {}) BY DEF Replaces, KindsOf
<1>5. PICK S, T : S = {r.last_seen : r \in R} \cup {NoHour} /\ T = Hours(f) \cup {NoHour} OBVIOUS
<1>6. S \subseteq Nat /\ S # {} /\ IsFiniteSet(S)
  <2>1. PICK g : g = [r \in R |-> r.last_seen] OBVIOUS
  <2>2. IsFiniteSet({g[r] : r \in R}) BY SomeMade
  <2>3. {g[r] : r \in R} = {r.last_seen : r \in R} BY <2>1
  <2>4. IsFiniteSet({NoHour}) BY FS_Singleton
  <2>5. IsFiniteSet(S) BY <1>5, <2>2, <2>3, <2>4, FS_Union
  <2>6. \A r \in R : r.last_seen \in Nat BY <1>1, HoursAre
  <2> QED BY <1>5, <2>5, <2>6 DEF NoHour
<1>7. T \subseteq Nat /\ T # {} /\ IsFiniteSet(T)
  <2>1. \A t \in Tool : HoursOf(f, t) \subseteq Nat /\ IsFiniteSet(HoursOf(f, t)) BY HoursAre
  <2>2. PICK g : g = [t \in Tool |-> HoursOf(f, t)] OBVIOUS
  <2>3. IsFiniteSet({g[t] : t \in Tool}) BY SliceConstants, SomeMade
  <2>4. {g[t] : t \in Tool} = {HoursOf(f, t) : t \in Tool} BY <2>2
  <2>5. IsFiniteSet(Hours(f)) BY <2>1, <2>3, <2>4, FS_UNION DEF Hours
  <2>6. IsFiniteSet({NoHour}) BY FS_Singleton
  <2>7. IsFiniteSet(T) BY <1>5, <2>5, <2>6, FS_Union
  <2> QED BY <1>5, <2>1, <2>7 DEF Hours, NoHour
<1>8. \A m \in S : \E n \in T : m <= n
  <2>1. \A r \in R : r.last_seen \in Hours(f) BY <1>1 DEF Hours
  <2>2. S \subseteq T BY <1>5, <2>1
  <2>3. \A m \in S : m <= m BY <1>6
  <2> QED BY <2>2, <2>3
<1>9. \A m \in T : \E n \in S : m <= n
  <2>1. ASSUME NEW m \in T PROVE \E n \in S : m <= n
    <3>1. CASE m = NoHour
      <4>1. m <= m BY <1>7
      <4> QED BY <1>5, <3>1, <4>1
    <3>2. CASE m \in Hours(f)
      <4>1. PICK t \in Tool : m \in HoursOf(f, t) BY <3>2 DEF Hours
      <4>2. PICK r \in R : m <= r.last_seen BY <1>1, <4>1
      <4> QED BY <1>5, <4>2
    <3> QED BY <1>5, <3>1, <3>2
  <2> QED BY <2>1
<1>10. Max(S) = Max(T)
  <2>1. Max(S) <= Max(T) BY <1>6, <1>7, <1>8, MaxCovered
  <2>2. Max(T) <= Max(S) BY <1>6, <1>7, <1>9, MaxCovered
  <2>3. Max(S) \in Nat /\ Max(T) \in Nat BY <1>6, <1>7, MaxIs
  <2> QED BY <2>1, <2>2, <2>3
<1>11. Latest(R) = Max(S) BY <1>5 DEF Latest
<1> QED BY <1>2, <1>3, <1>4, <1>5, <1>10, <1>11

\* The context surface: a row of it is there where it changed, and they all say the same.
LEMMA ContextRowsAre ==
  ASSUME NEW f \in Facts, NEW v \in Forms, NEW p, p = Published(f, v),
         NEW ctx, ctx = p.fleet_events \ Share(p.fleet_events),
         NEW Z, Z = p.context_events \cup ctx
  PROVE  /\ Z = {} <=> f.context = {}
         /\ \A z \in Z : /\ z.change_kinds = ContextChange /\ z.last_seen = OwnHour
                         /\ z.safety_relevant = (ContextChange \cap Safety # {})
         /\ IsFiniteSet(Z) /\ IsFiniteSet(ctx)
         /\ p.context_events # {} => Cardinality(p.context_events) = 1
<1>1. p.context_events = IF (IF v = "2" THEN f.context = {} ELSE "own" \notin f.context)
                         THEN {} ELSE {ContextEvent(OwnHour)} BY ListsAre
<1>2. p.fleet_events = IF v = "2" THEN {}
                       ELSE {ToolFleet(f, w) : w \in WideOnes(f)}
                              \cup (IF "wide" \in f.context THEN {ContextFleet} ELSE {})
  BY ListsAre
<1>3. \A w \in WideOnes(f) : ToolFleet(f, w).plane = "tool" BY FleetIsWritten DEF ToolFleet
<1>4. /\ ContextFleet.plane = "context" /\ ContextFleet.change_kinds = ContextChange
      /\ ContextFleet.last_seen = OwnHour
      /\ ContextFleet.safety_relevant = (ContextChange \cap Safety # {})
  BY FleetIsWritten DEF ContextFleet
<1>5. ctx = IF v # "2" /\ "wide" \in f.context THEN {ContextFleet} ELSE {}
  BY <1>2, <1>3, <1>4 DEF Share
<1>6. PICK e : e = ContextEvent(OwnHour) OBVIOUS
<1>7. /\ e.change_kinds = ContextChange /\ e.last_seen = OwnHour
      /\ e.safety_relevant = (ContextChange \cap Safety # {}) BY <1>6, ContextEventIsWritten
<1>8. f.context \subseteq {"own", "wide"} BY FactsAre
<1>9. Z = {} <=> f.context = {} BY <1>1, <1>5, <1>8
<1>10. \A z \in Z : z = e \/ z = ContextFleet BY <1>1, <1>5, <1>6
<1>11. IsFiniteSet(ctx) /\ IsFiniteSet(p.context_events)
  <2>1. PICK w : w = ContextFleet OBVIOUS
  <2>2. ctx = {} \/ ctx = {w} BY <1>5, <2>1
  <2>3. IsFiniteSet({w}) /\ IsFiniteSet({}) BY FS_EmptySet, FS_Singleton
  <2> QED BY <2>2, <2>3, ContextEventsAre
<1>12. IsFiniteSet(Z) BY <1>11, FS_Union
<1>13. p.context_events # {} => Cardinality(p.context_events) = 1
  <2>1. p.context_events = {} \/ p.context_events = {e} BY <1>1, <1>6
  <2>2. Cardinality({e}) = 1 BY FS_Singleton
  <2> QED BY <2>1, <2>2
<1> QED BY <1>4, <1>7, <1>9, <1>10, <1>11, <1>12, <1>13

TrueAnswer(f) ==
  [changes |-> Cardinality(Touched(f)),
   lastSeen |-> Max(Hours(f) \cup {NoHour}),
   kinds |-> KindsTouched(f),
   safetyRelevant |-> KindsTouched(f) \cap Safety # {},
   toolsetReplaced |-> KindsTouched(f) \cap Replacing # {},
   versionSame |-> Cardinality(Touched(f) \cap OfVersion(f, "same")),
   versionChanged |-> Cardinality(Touched(f) \cap OfVersion(f, "changed")),
   versionUndeclared |-> Cardinality(Touched(f) \cap OfVersion(f, "undeclared")),
   contextChanges |-> IF f.context = {} THEN 0 ELSE 1,
   contextKinds |-> IF f.context = {} THEN {} ELSE ContextChange,
   contextLastSeen |-> IF f.context = {} THEN NoHour ELSE OwnHour,
   contextSafetyRelevant |-> f.context # {} /\ ContextChange \cap Safety # {}]

LEMMA LatestOf ==
  ASSUME NEW Z, \A z \in Z : z.last_seen = OwnHour
  PROVE  Latest(Z) = IF Z = {} THEN NoHour ELSE OwnHour
<1>1. PICK S : S = {z.last_seen : z \in Z} \cup {NoHour} OBVIOUS
<1>2. S = IF Z = {} THEN {NoHour} ELSE {OwnHour, NoHour} BY <1>1
<1>3. S \subseteq Nat /\ S # {} BY <1>2 DEF OwnHour, NoHour
<1>4. IsFiniteSet(S)
  <2>1. PICK a, b : a = OwnHour /\ b = NoHour OBVIOUS
  <2>2. IsFiniteSet({a}) /\ IsFiniteSet({b}) BY FS_Singleton
  <2>3. IsFiniteSet({a} \cup {b}) BY <2>2, FS_Union
  <2>4. S = {b} \/ S = {a} \cup {b} BY <1>2, <2>1
  <2> QED BY <2>2, <2>3, <2>4
<1>5. Max(S) \in S /\ \A m \in S : m <= Max(S) BY <1>3, <1>4, MaxIs
<1>6. Max(S) = IF Z = {} THEN NoHour ELSE OwnHour BY <1>2, <1>5 DEF OwnHour, NoHour
<1> QED BY <1>1, <1>6 DEF Latest

\* What a field published of some facts says, under either form.
LEMMA PublishedAnswers ==
  ASSUME NEW f \in Facts, NEW v \in Forms
  PROVE  Answers(Published(f, v)) = {TrueAnswer(f)}
<1>1. PICK p : p = Published(f, v) OBVIOUS
<1>2. PICK share : share = Share(p.fleet_events) OBVIOUS
<1>3. PICK ctx : ctx = p.fleet_events \ share OBVIOUS
<1>4. parseServerSlice(p) = {p} BY <1>1, ReadsBack
<1>5. aggregateServerDrift(p)
        = IF share # {} /\ Cardinality(p.events) + Summed(share, "page_tools") = 0 THEN {}
          ELSE {SaidOf(p, share, ctx)} BY <1>2, <1>3, SaidOfIs
<1>6. /\ Cardinality(p.events) + Summed(share, "page_tools") = Cardinality(Touched(f))
      /\ Cardinality({e \in p.events : e.version_delta = "same"})
           + Summed(share, "version_same") = Cardinality(Touched(f) \cap OfVersion(f, "same"))
      /\ Cardinality({e \in p.events : e.version_delta = "changed"})
           + Summed(share, "version_changed") = Cardinality(Touched(f) \cap OfVersion(f, "changed"))
      /\ Cardinality({e \in p.events : e.version_delta = "undeclared"})
           + Summed(share, "version_undeclared")
           = Cardinality(Touched(f) \cap OfVersion(f, "undeclared"))
  BY <1>1, <1>2, CountsAnswered
<1>7. share = IF v = "2" THEN {} ELSE {ToolFleet(f, w) : w \in WideOnes(f)}
  <2>1. CASE v = "2"
    <3>1. p.fleet_events = {} BY <1>1, <2>1, ListsAre
    <3> QED BY <1>2, <2>1, <3>1 DEF Share
  <2>2. CASE v = "3" BY <1>1, <1>2, <2>2, ShareIs
  <2> QED BY <2>1, <2>2 DEF Forms
<1>8. PICK R : R = p.events \cup share OBVIOUS
<1>9. p.events = {EventOf(f, v, t) : t \in Tellers(f, v)} BY <1>1, ListsAre
<1>10. R = ToolRows(f, v) BY <1>7, <1>8, <1>9 DEF ToolRows
<1>11. IsFiniteSet(R)
  <2>1. IsFiniteSet(p.events) /\ IsFiniteSet(p.fleet_events) BY <1>1, EventsAre, FleetsAre
  <2>2. share \in SUBSET p.fleet_events BY <1>2 DEF Share
  <2> QED BY <1>8, <2>1, <2>2, FS_Subset, FS_Union
<1>12. /\ KindsOf(R) = KindsTouched(f)
       /\ Flagged(R) = (KindsTouched(f) \cap Safety # {})
       /\ (\E r \in R : Replaces(r)) = (KindsTouched(f) \cap Replacing # {})
       /\ Latest(R) = Max(Hours(f) \cup {NoHour}) BY <1>10, <1>11, RowsSay
<1>13. ((\E e \in p.events : e.removal_scope = "toolset-replaced") \/ (\E w \in share : w.toolset_replaced))
         = (KindsTouched(f) \cap Replacing # {})
  <2>1. \A e \in p.events : e.removal_scope = "toolset-replaced" <=> Replaces(e)
    <3>1. Absent # "toolset-replaced" BY SliceConstants
    <3>2. ASSUME NEW t \in Tellers(f, v), NEW e, e = EventOf(f, v, t)
          PROVE  e.removal_scope = "toolset-replaced" <=> Replaces(e)
      <4>1. PICK kinds : kinds = KindsIn(f, v, t) OBVIOUS
      <4>2. /\ e.change_kinds = kinds
            /\ e.removal_scope = IF kinds \cap Replacing # {} THEN "toolset-replaced" ELSE Absent
        BY <3>2, <4>1, EventIsWritten DEF EventOf
      <4> QED BY <3>1, <4>2 DEF Replaces
    <3> QED BY <1>9, <3>2
  <2>2. \A w \in share : w.toolset_replaced <=> Replaces(w)
    <3>1. ASSUME NEW d \in WideOnes(f), NEW w, w = ToolFleet(f, d)
          PROVE  w.toolset_replaced <=> Replaces(w)
      <4>1. PICK kinds : kinds = {WideChange[d]} OBVIOUS
      <4>2. w.change_kinds = kinds /\ w.toolset_replaced = (kinds \cap Replacing # {})
        BY <3>1, <4>1, FleetIsWritten DEF ToolFleet
      <4> QED BY <4>2 DEF Replaces
    <3> QED BY <1>7, <3>1
  <2>3. ((\E e \in p.events : e.removal_scope = "toolset-replaced") \/ (\E w \in share : w.toolset_replaced))
          <=> (\E r \in R : Replaces(r)) BY <1>8, <2>1, <2>2
  <2> QED BY <1>12, <2>3
<1>14. PICK Z : Z = p.context_events \cup ctx OBVIOUS
<1>15. /\ Z = {} <=> f.context = {}
       /\ \A z \in Z : /\ z.change_kinds = ContextChange /\ z.last_seen = OwnHour
                       /\ z.safety_relevant = (ContextChange \cap Safety # {})
       /\ p.context_events # {} => Cardinality(p.context_events) = 1
  BY <1>1, <1>2, <1>3, <1>14, ContextRowsAre
<1>16. (IF p.context_events # {} THEN Cardinality(p.context_events)
        ELSE IF ctx # {} THEN 1 ELSE 0) = IF f.context = {} THEN 0 ELSE 1 BY <1>14, <1>15
<1>17. KindsOf(Z) = IF f.context = {} THEN {} ELSE ContextChange BY <1>15 DEF KindsOf
<1>18. Latest(Z) = IF f.context = {} THEN NoHour ELSE OwnHour BY <1>15, LatestOf
<1>19. Flagged(Z) = (f.context # {} /\ ContextChange \cap Safety # {})
  <2>1. Flagged(Z) <=> (f.context # {} /\ ContextChange \cap Safety # {}) BY <1>15 DEF Flagged
  <2>2. Flagged(Z) \in BOOLEAN BY DEF Flagged
  <2> QED BY <2>1, <2>2
<1>20. SaidOf(p, share, ctx) = TrueAnswer(f)
  BY <1>6, <1>8, <1>12, <1>13, <1>14, <1>16, <1>17, <1>18, <1>19 DEF SaidOf, TrueAnswer
<1>21. ~(share # {} /\ Cardinality(p.events) + Summed(share, "page_tools") = 0)
  <2>1. SUFFICES ASSUME share # {} PROVE Cardinality(Touched(f)) # 0 BY <1>6
  <2>2. WideOnes(f) # {} BY <1>7, <2>1
  <2>3. PICK t \in Tool : f.wide[t] # {} BY <2>2 DEF WideOnes
  <2>4. t \in Touched(f) BY <2>3, KindsAre DEF Touched
  <2>5. IsFiniteSet(Touched(f))
    <3>1. Touched(f) \in SUBSET Tool BY DEF Touched
    <3> QED BY <3>1, SliceConstants, FS_Subset
  <2> QED BY <2>4, <2>5, FS_EmptySet
<1>22. aggregateServerDrift(p) = {TrueAnswer(f)} BY <1>5, <1>20, <1>21
<1> QED BY <1>1, <1>4, <1>22 DEF Answers

\* The answer is one, and the same under both forms.
LEMMA BothFormsAgree == ASSUME facts \in Facts PROVE SameUnderBothForms
<1>1. PICK f : f = facts OBVIOUS
<1>2. Answers(Published(f, "2")) = {TrueAnswer(f)} /\ Answers(Published(f, "3")) = {TrueAnswer(f)}
  BY <1>1, PublishedAnswers DEF Forms
<1>3. Cardinality({TrueAnswer(f)}) = 1 BY FS_Singleton
<1> QED BY <1>1, <1>2, <1>3 DEF SameUnderBothForms

(***************************************************************************)
(* A damaged row.  What is read of it is no cleaner than it was: a kind or *)
(* an hour is gone, or a flag, but never a flag and a kind.                *)
(***************************************************************************)
DamagedRow(d, e) ==
  \/ \E x \in DOMAIN e : d = [e EXCEPT ![x] = Junk]
  \/ d = [e EXCEPT !.server_fp = NotMine]

NoBetter(c, e) ==
  /\ c.change_kinds \subseteq e.change_kinds
  /\ c.last_seen \in Nat /\ e.last_seen \in Nat /\ c.last_seen <= e.last_seen
  /\ c.change_kinds = e.change_kinds \/ c.safety_relevant = e.safety_relevant

\* Rows of which one was read anew.
Reread(R, S, c, e) == e \in R /\ c \in S /\ S \subseteq R \cup {c} /\ R \subseteq S \cup {e}

LEMMA LatestIs ==
  ASSUME NEW R, IsFiniteSet(R), \A r \in R : r.last_seen \in Nat
  PROVE  /\ Latest(R) \in Nat /\ \A r \in R : r.last_seen <= Latest(R)
         /\ Latest(R) = NoHour \/ \E r \in R : Latest(R) = r.last_seen
<1>1. PICK S : S = {r.last_seen : r \in R} \cup {NoHour} OBVIOUS
<1>2. S \subseteq Nat /\ S # {} BY <1>1 DEF NoHour
<1>3. IsFiniteSet(S)
  <2>1. PICK g : g = [r \in R |-> r.last_seen] OBVIOUS
  <2>2. IsFiniteSet({g[r] : r \in R}) BY SomeMade
  <2>3. {g[r] : r \in R} = {r.last_seen : r \in R} BY <2>1
  <2>4. IsFiniteSet({NoHour}) BY FS_Singleton
  <2> QED BY <1>1, <2>2, <2>3, <2>4, FS_Union
<1>4. Max(S) \in S /\ \A m \in S : m <= Max(S) BY <1>2, <1>3, MaxIs
<1>5. Latest(R) = Max(S) BY <1>1 DEF Latest
<1> QED BY <1>1, <1>2, <1>4, <1>5

LEMMA NoCleaner ==
  ASSUME NEW R, IsFiniteSet(R), \A r \in R : r.last_seen \in Nat, NEW S, IsFiniteSet(S),
         NEW c, NEW e, Reread(R, S, c, e), NoBetter(c, e)
  PROVE  /\ KindsOf(S) \subseteq KindsOf(R) /\ Latest(S) <= Latest(R)
         /\ KindsOf(S) # KindsOf(R) => Flagged(S) = Flagged(R)
<1>1. /\ e \in R /\ c \in S /\ S \subseteq R \cup {c} /\ R \subseteq S \cup {e} BY DEF Reread
<1>2. /\ c.change_kinds \subseteq e.change_kinds
      /\ c.last_seen \in Nat /\ e.last_seen \in Nat /\ c.last_seen <= e.last_seen
      /\ c.change_kinds = e.change_kinds \/ c.safety_relevant = e.safety_relevant
  BY DEF NoBetter
<1>3. KindsOf(S) \subseteq KindsOf(R) BY <1>1, <1>2 DEF KindsOf
<1>4. \A r \in S : r.last_seen \in Nat BY <1>1, <1>2
<1>5. Latest(S) <= Latest(R)
  <2>1. /\ Latest(R) \in Nat /\ \A r \in R : r.last_seen <= Latest(R) BY LatestIs
  <2>2. /\ Latest(S) \in Nat
        /\ Latest(S) = NoHour \/ \E r \in S : Latest(S) = r.last_seen BY <1>4, LatestIs
  <2>3. CASE Latest(S) = NoHour BY <2>1, <2>3 DEF NoHour
  <2>4. CASE \E r \in S : Latest(S) = r.last_seen
    <3>1. PICK r \in S : Latest(S) = r.last_seen BY <2>4
    <3>2. CASE r \in R BY <2>1, <3>1, <3>2
    <3>3. CASE r = c
      <4>1. e.last_seen <= Latest(R) BY <1>1, <2>1
      <4> QED BY <1>2, <2>1, <3>1, <3>3, <4>1
    <3> QED BY <1>1, <3>2, <3>3
  <2> QED BY <2>2, <2>3, <2>4
<1>6. c.change_kinds = e.change_kinds => KindsOf(S) = KindsOf(R) BY <1>1 DEF KindsOf
<1>7. c.safety_relevant = e.safety_relevant => Flagged(S) = Flagged(R)
  <2>1. SUFFICES ASSUME c.safety_relevant = e.safety_relevant PROVE Flagged(S) <=> Flagged(R)
    BY DEF Flagged
  <2>2. (\E r \in S : r.safety_relevant) => \E r \in R : r.safety_relevant BY <1>1, <2>1
  <2>3. (\E r \in R : r.safety_relevant) => \E r \in S : r.safety_relevant BY <1>1, <2>1
  <2> QED BY <2>2, <2>3 DEF Flagged
<1> QED BY <1>2, <1>3, <1>5, <1>6, <1>7

\* The parts of a damaged row that are not damaged.
LEMMA PartsLeft ==
  ASSUME NEW e, NEW d, DamagedRow(d, e), "server_fp" \in DOMAIN e
  PROVE  \E x \in DOMAIN e :
           /\ DOMAIN d = DOMAIN e /\ \A y \in DOMAIN e : y # x => d[y] = e[y]
           /\ d[x] = Junk \/ (x = "server_fp" /\ d[x] = NotMine)
<1>1. CASE \E x \in DOMAIN e : d = [e EXCEPT ![x] = Junk]
  <2>1. PICK x \in DOMAIN e : d = [e EXCEPT ![x] = Junk] BY <1>1
  <2>2. DOMAIN d = DOMAIN e /\ d[x] = Junk /\ \A y \in DOMAIN e : y # x => d[y] = e[y] BY <2>1
  <2> QED BY <2>2
<1>2. CASE d = [e EXCEPT !.server_fp = NotMine]
  <2>1. PICK x \in DOMAIN e : x = "server_fp" OBVIOUS
  <2>2. d = [e EXCEPT ![x] = NotMine] BY <1>2, <2>1
  <2>3. DOMAIN d = DOMAIN e /\ d[x] = NotMine /\ \A y \in DOMAIN e : y # x => d[y] = e[y] BY <2>2
  <2> QED BY <2>1, <2>3
<1> QED BY <1>1, <1>2 DEF DamagedRow

\* It is none of the rows that are whole.
LEMMA DamagedIsNone ==
  ASSUME NEW e, SoundRow(e), NEW d, DamagedRow(d, e), "server_fp" \in DOMAIN e, NEW r, SoundRow(r),
         DOMAIN r = DOMAIN e
  PROVE  r # d
<1>1. PICK x \in DOMAIN e : d[x] = Junk \/ (x = "server_fp" /\ d[x] = NotMine) BY PartsLeft
<1>2. r[x] # Junk /\ (x = "server_fp" => r[x] = Mine) BY DEF SoundRow, Clean
<1> QED BY <1>1, <1>2, SliceConstants

\* A damaged row has the parts of the row.
LEMMA SameShape ==
  ASSUME NEW e, NEW d, DamagedRow(d, e), "server_fp" \in DOMAIN e
  PROVE  d = [y \in DOMAIN e |-> d[y]]
<1>1. CASE \E x \in DOMAIN e : d = [e EXCEPT ![x] = Junk] BY <1>1
<1>2. CASE d = [e EXCEPT !.server_fp = NotMine] BY <1>2
<1> QED BY <1>1, <1>2 DEF DamagedRow

Shown == {"server_fp", "safety_relevant", "last_seen", "change_kinds"}

LEMMA RereadNoBetter ==
  ASSUME NEW e, SoundRow(e), Shown \subseteq DOMAIN e, NEW d, DamagedRow(d, e),
         NEW A, A \subseteq Change \cup ContextChange, e.change_kinds \subseteq A,
         NEW c, c.change_kinds = coerceChangeKinds(d.change_kinds) \cap A,
         c.last_seen = Hour(d.last_seen), c.safety_relevant = (d.safety_relevant = TRUE)
  PROVE  NoBetter(c, e)
<1>1. {"server_fp", "safety_relevant", "last_seen", "change_kinds"} \subseteq DOMAIN e BY DEF Shown
<1>2. e.safety_relevant \in BOOLEAN /\ e.last_seen \in Nat /\ \A x \in DOMAIN e : e[x] # Junk
  BY DEF SoundRow, Clean
<1>3. PICK x \in DOMAIN e :
        /\ \A y \in DOMAIN e : y # x => d[y] = e[y]
        /\ d[x] = Junk \/ (x = "server_fp" /\ d[x] = NotMine) BY <1>1, PartsLeft
<1>4. d.change_kinds \in {e.change_kinds, Junk} /\ d.last_seen \in {e.last_seen, Junk}
  BY <1>1, <1>3
<1>5. d.change_kinds = e.change_kinds \/ d.safety_relevant = e.safety_relevant BY <1>1, <1>3
<1>6. coerceChangeKinds(e.change_kinds) \cap A = e.change_kinds BY <1>1, <1>2 DEF coerceChangeKinds
<1>7. coerceChangeKinds(Junk) = {} BY DEF coerceChangeKinds
<1>8. c.change_kinds \in {e.change_kinds, {}} BY <1>4, <1>6, <1>7
<1>9. c.last_seen \in {e.last_seen, NoHour} BY <1>1, <1>2, <1>4 DEF Hour
<1>10. c.last_seen \in Nat /\ c.last_seen <= e.last_seen BY <1>2, <1>9 DEF NoHour
<1>11. CASE d.change_kinds = e.change_kinds BY <1>2, <1>6, <1>8, <1>10, <1>11 DEF NoBetter
<1>12. CASE d.safety_relevant = e.safety_relevant
  <2>1. c.safety_relevant = e.safety_relevant BY <1>2, <1>12
  <2> QED BY <1>2, <1>8, <1>10, <2>1 DEF NoBetter
<1> QED BY <1>5, <1>11, <1>12

\* What is read of a damaged row of each list.
LEMMA EventNoBetter ==
  ASSUME NEW e, EventRow(e), NEW d, DamagedRow(d, e), NEW c, c = coerceEvent(d)
  PROVE  NoBetter(c, e)
<1>1. IsEvent(e) /\ SoundRow(e) /\ e.change_kinds \subseteq Change BY DEF EventRow
<1>2. DOMAIN e = {"tool_fp", "server_fp", "safety_relevant", "last_seen", "change_kinds",
                  "removal_scope", "version_delta"} BY <1>1 DEF IsEvent
<1>3. Shown \subseteq DOMAIN e /\ "server_fp" \in DOMAIN e BY <1>2 DEF Shown
<1>4. IsEvent(d) BY <1>2, <1>3, SameShape DEF IsEvent
<1>5. /\ c.safety_relevant = (d.safety_relevant = TRUE) /\ c.last_seen = Hour(d.last_seen)
      /\ c.change_kinds = coerceChangeKinds(d.change_kinds) \cap Change BY <1>4, EventParts
<1> QED BY <1>1, <1>3, <1>5, RereadNoBetter

LEMMA ContextEventNoBetter ==
  ASSUME NEW e, ContextRow(e), NEW d, DamagedRow(d, e), NEW c, c = coerceContextEvent(d)
  PROVE  NoBetter(c, e)
<1>1. IsContextEvent(e) /\ SoundRow(e) /\ e.change_kinds \subseteq ContextChange BY DEF ContextRow
<1>2. DOMAIN e = {"server_fp", "safety_relevant", "last_seen", "change_kinds"}
  BY <1>1 DEF IsContextEvent
<1>3. Shown \subseteq DOMAIN e /\ "server_fp" \in DOMAIN e BY <1>2 DEF Shown
<1>4. IsContextEvent(d) BY <1>2, <1>3, SameShape DEF IsContextEvent
<1>5. /\ c.safety_relevant = (d.safety_relevant = TRUE) /\ c.last_seen = Hour(d.last_seen)
      /\ c.change_kinds = coerceChangeKinds(d.change_kinds) \cap ContextChange
  BY <1>4, ContextEventParts
<1> QED BY <1>1, <1>3, <1>5, RereadNoBetter

LEMMA FleetNoBetter ==
  ASSUME NEW e, FleetRow(e), NEW d, DamagedRow(d, e), Whole(d), NEW c, c = coerceFleetEvent(d),
         c.server_fp = Mine
  PROVE  NoBetter(c, e) /\ c.plane = e.plane /\ c.day = e.day /\ c.page_tools = e.page_tools
<1>1. /\ IsFleet(e) /\ SoundRow(e)
      /\ e.change_kinds \subseteq IF e.plane = "tool" THEN Change ELSE ContextChange BY DEF FleetRow
<1>2. DOMAIN e = {"plane", "publisher_fp", "day", "change_kinds", "servers", "tools", "members",
                  "server_fp", "page_tools", "last_seen", "safety_relevant", "toolset_replaced",
                  "version_same", "version_changed", "version_undeclared"} BY <1>1 DEF IsFleet
<1>3. Shown \subseteq DOMAIN e /\ "server_fp" \in DOMAIN e BY <1>2 DEF Shown
<1>4. IsFleet(d) BY <1>2, <1>3, SameShape DEF IsFleet
<1>5. /\ AsItStands(c, d)
      /\ c.safety_relevant = (d.safety_relevant = TRUE) /\ c.last_seen = Hour(d.last_seen)
      /\ c.change_kinds = coerceChangeKinds(d.change_kinds) \cap
                            (IF d.plane = "tool" THEN Change ELSE ContextChange)
  BY <1>4, FleetParts
<1>6. PICK x \in DOMAIN e :
        /\ \A y \in DOMAIN e : y # x => d[y] = e[y]
        /\ d[x] = Junk \/ (x = "server_fp" /\ d[x] = NotMine) BY <1>3, PartsLeft
<1>7. d.server_fp = Mine BY <1>5 DEF AsItStands
<1>8. d.plane # Junk /\ d.day # Junk /\ d.page_tools # Junk BY DEF Whole, Strict
<1>9. d.plane = e.plane /\ d.day = e.day /\ d.page_tools = e.page_tools
  <2>1. "plane" \in DOMAIN e /\ "day" \in DOMAIN e /\ "page_tools" \in DOMAIN e BY <1>2
  <2> QED BY <1>6, <1>8, <2>1
<1>10. PICK A : A = IF e.plane = "tool" THEN Change ELSE ContextChange OBVIOUS
<1>11. NoBetter(c, e)
  <2>1. A \subseteq Change \cup ContextChange /\ e.change_kinds \subseteq A BY <1>1, <1>10
  <2>2. c.change_kinds = coerceChangeKinds(d.change_kinds) \cap A BY <1>5, <1>9, <1>10
  <2> QED BY <1>1, <1>3, <1>5, <2>1, <2>2, RereadNoBetter
<1> QED BY <1>5, <1>9, <1>11 DEF AsItStands

(***************************************************************************)
(* A list of which one row is damaged: a row that is dropped is missed.    *)
(***************************************************************************)
LEMMA OneReplaced ==
  ASSUME NEW E, IsFiniteSet(E), NEW e \in E, NEW d, NEW rows, rows = (E \ {e}) \cup {d}
  PROVE  /\ IsFiniteSet(rows) /\ (d \notin E => Cardinality(rows) = Cardinality(E))
         /\ \A less : less = E \ {e} => Cardinality(less) # Cardinality(E)
<1>1. PICK D : D = E \ {e} OBVIOUS
<1>2. IsFiniteSet(D) /\ Cardinality(D) = Cardinality(E) - 1 BY <1>1, FS_RemoveElement
<1>3. Cardinality(E) \in Nat BY FS_CardinalityType
<1>4. IsFiniteSet(D \cup {d}) /\ (d \notin D => Cardinality(D \cup {d}) = Cardinality(D) + 1)
  BY <1>2, FS_AddElement
<1>5. rows = D \cup {d} BY <1>1
<1>6. PICK n, m, k : n = Cardinality(E) /\ m = Cardinality(D) /\ k = Cardinality(rows) OBVIOUS
<1>7. n \in Nat /\ m = n - 1 /\ (d \notin D => k = m + 1) BY <1>2, <1>3, <1>4, <1>5, <1>6
<1>8. m # n /\ (d \notin D => k = n) BY <1>7
<1>9. d \notin E => d \notin D BY <1>1
<1> QED BY <1>1, <1>4, <1>5, <1>6, <1>8, <1>9

LEMMA DamagedHasRow ==
  ASSUME NEW rows, NEW new \in Damaged(rows)
  PROVE  \E e \in rows : \E d : DamagedRow(d, e) /\ new = (rows \ {e}) \cup {d}
<1>1. CASE \E e \in rows : \E x \in DOMAIN e : new = (rows \ {e}) \cup {[e EXCEPT ![x] = Junk]}
  BY <1>1 DEF DamagedRow
<1>2. CASE \E e \in rows : new = (rows \ {e}) \cup {[e EXCEPT !.server_fp = NotMine]}
  BY <1>2 DEF DamagedRow
<1> QED BY <1>1, <1>2 DEF Damaged

\* What a field that is read says, of the rows that are read of it.
IsSaid(said, q, s, share, ctx) ==
  /\ said \in Answers(q) /\ s = Slice(q)
  /\ share = Share(s.fleet_events) /\ ctx = s.fleet_events \ share

LEMMA SaidIs ==
  ASSUME NEW said, NEW q, NEW s, NEW share, NEW ctx, IsSaid(said, q, s, share, ctx)
  PROVE  /\ said = SaidOf(s, share, ctx)
         /\ \A list \in Lists : q[list] # Junk
         /\ \A w \in q.fleet_events : Whole(w)
         /\ Cardinality(s.events) = Cardinality(q.events)
         /\ Cardinality(s.context_events) = Cardinality(q.context_events)
         /\ \A r \in s.events \cup s.context_events \cup s.fleet_events : r.server_fp = Mine
<1>0. /\ said \in Answers(q) /\ s = Slice(q)
      /\ share = Share(s.fleet_events) /\ ctx = s.fleet_events \ share BY DEF IsSaid
<1>1. PICK z \in parseServerSlice(q) : said \in aggregateServerDrift(z) BY <1>0 DEF Answers
<1>2. /\ ~(\E list \in {"events", "context_events", "fleet_events"} : q[list] = Junk)
      /\ ~(\E w \in q.fleet_events : ~Whole(w)) BY <1>1 DEF parseServerSlice
<1>3. /\ z = s
      /\ Cardinality(z.events) = Cardinality(q.events)
      /\ Cardinality(z.context_events) = Cardinality(q.context_events)
      /\ \A rows \in {z.events, z.context_events, z.fleet_events} :
           \A r \in rows : r.server_fp = Mine
  BY <1>0, <1>1, <1>2 DEF parseServerSlice
<1>4. said = SaidOf(s, share, ctx)
  <2>1. said \in aggregateServerDrift(s) BY <1>1, <1>3
  <2>2. PICK a : a = SaidOf(s, share, ctx) OBVIOUS
  <2>3. aggregateServerDrift(s) \subseteq {a} BY <1>0, <2>2, SaidOfIs
  <2> QED BY <2>1, <2>2, <2>3
<1> QED BY <1>2, <1>3, <1>4 DEF Lists

\* What is said, and what is true.
NoneCleaner(S, R) ==
  /\ KindsOf(S) \subseteq KindsOf(R) /\ Latest(S) <= Latest(R)
  /\ KindsOf(S) # KindsOf(R) => Flagged(S) = Flagged(R)
Better(said, true) ==
  /\ said.changes = true.changes /\ said.contextChanges = true.contextChanges
  /\ said.kinds \subseteq true.kinds /\ said.contextKinds \subseteq true.contextKinds
  /\ said.lastSeen <= true.lastSeen
  /\ said.kinds # true.kinds => said.safetyRelevant = true.safetyRelevant

CountOfContext(rows, ctx) ==
  IF rows # {} THEN Cardinality(rows) ELSE IF ctx # {} THEN 1 ELSE 0

LEMMA AnswersCompare ==
  ASSUME NEW s, NEW share, NEW ctx, NEW p, NEW pshare, NEW pctx,
         Cardinality(s.events) + Summed(share, "page_tools")
           = Cardinality(p.events) + Summed(pshare, "page_tools"),
         CountOfContext(s.context_events, ctx) = CountOfContext(p.context_events, pctx),
         NoneCleaner(s.events \cup share, p.events \cup pshare),
         KindsOf(s.context_events \cup ctx) \subseteq KindsOf(p.context_events \cup pctx)
  PROVE  Better(SaidOf(s, share, ctx), SaidOf(p, pshare, pctx))
<1>1. PICK a, b : a = SaidOf(s, share, ctx) /\ b = SaidOf(p, pshare, pctx) OBVIOUS
<1>2. /\ a.changes = Cardinality(s.events) + Summed(share, "page_tools")
      /\ b.changes = Cardinality(p.events) + Summed(pshare, "page_tools") BY <1>1 DEF SaidOf
<1>3. /\ a.contextChanges = CountOfContext(s.context_events, ctx)
      /\ b.contextChanges = CountOfContext(p.context_events, pctx)
  BY <1>1 DEF SaidOf, CountOfContext
<1>4. /\ a.kinds = KindsOf(s.events \cup share) /\ b.kinds = KindsOf(p.events \cup pshare)
      /\ a.lastSeen = Latest(s.events \cup share) /\ b.lastSeen = Latest(p.events \cup pshare)
  BY <1>1 DEF SaidOf
<1>5. /\ a.safetyRelevant = Flagged(s.events \cup share)
      /\ b.safetyRelevant = Flagged(p.events \cup pshare) BY <1>1 DEF SaidOf
<1>6. /\ a.contextKinds = KindsOf(s.context_events \cup ctx)
      /\ b.contextKinds = KindsOf(p.context_events \cup pctx) BY <1>1 DEF SaidOf
<1> QED BY <1>1, <1>2, <1>3, <1>4, <1>5, <1>6 DEF Better, NoneCleaner

\* What is published, as the rows that are read of it.
LEMMA PublishedRows ==
  ASSUME NEW f \in Facts, NEW v \in Forms, NEW p, p = Published(f, v),
         NEW pshare, pshare = Share(p.fleet_events), NEW pctx, pctx = p.fleet_events \ pshare
  PROVE  /\ Slice(p) = p /\ (\A true \in Answers(p) : true = SaidOf(p, pshare, pctx))
         /\ IsFiniteSet(p.events \cup pshare) /\ IsFiniteSet(p.context_events \cup pctx)
         /\ \A r \in p.events \cup pshare : r.last_seen \in Nat
         /\ \A r \in p.context_events \cup pctx : r.last_seen \in Nat
         /\ Latest(p.events \cup pshare) <= Latest(p.events \cup pshare)
<1>1. /\ Events(p.events) = p.events /\ ContextEvents(p.context_events) = p.context_events
      /\ {coerceFleetEvent(w) : w \in p.fleet_events} = p.fleet_events
      /\ parseServerSlice(p) = {p} BY ReadsBack
<1>2. p = [events |-> p.events, context_events |-> p.context_events,
           fleet_events |-> p.fleet_events] BY ListsAre
<1>3. Slice(p) = p BY <1>1, <1>2 DEF Slice
<1>4. ASSUME NEW true \in Answers(p) PROVE true = SaidOf(p, pshare, pctx)
  <2>1. IsSaid(true, p, p, pshare, pctx) BY <1>3 DEF IsSaid
  <2> QED BY <2>1, SaidIs
<1>5. IsFiniteSet(p.events) /\ \A r \in p.events : r.last_seen \in Nat
  BY EventsAre DEF EventRow, SoundRow
<1>6. IsFiniteSet(p.context_events) /\ \A r \in p.context_events : r.last_seen \in Nat
  BY ContextEventsAre DEF ContextRow, SoundRow
<1>7. IsFiniteSet(p.fleet_events) /\ \A r \in p.fleet_events : r.last_seen \in Nat
  BY FleetsAre DEF FleetRow, SoundRow
<1>8. pshare \in SUBSET p.fleet_events /\ pctx \in SUBSET p.fleet_events BY DEF Share
<1>9. IsFiniteSet(pshare) /\ IsFiniteSet(pctx) BY <1>7, <1>8, FS_Subset
<1>10. PICK R : R = p.events \cup pshare OBVIOUS
<1>11. IsFiniteSet(R) /\ \A r \in R : r.last_seen \in Nat
  BY <1>5, <1>7, <1>8, <1>9, <1>10, FS_Union
<1>12. Latest(R) \in Nat BY <1>11, LatestIs
<1>13. Latest(R) <= Latest(R) BY <1>12
<1>14. IsFiniteSet(p.context_events \cup pctx) BY <1>6, <1>9, FS_Union
<1>15. \A r \in p.context_events \cup pctx : r.last_seen \in Nat BY <1>6, <1>7, <1>8
<1> QED BY <1>3, <1>4, <1>10, <1>11, <1>13, <1>14, <1>15

(***************************************************************************)
(* Each list damaged.                                                      *)
(***************************************************************************)
LEMMA EventsDamaged ==
  ASSUME NEW f \in Facts, NEW v \in Forms, NEW p, p = Published(f, v),
         NEW rows \in Damaged(p.events), NEW q, q.events = rows,
         q.context_events = p.context_events, q.fleet_events = p.fleet_events,
         NEW said \in Answers(q), NEW true \in Answers(p)
  PROVE  Better(said, true)
<1>1. p = [events |-> p.events, context_events |-> p.context_events,
           fleet_events |-> p.fleet_events] BY ListsAre
<1>2. /\ q.events = rows /\ q.context_events = p.context_events
      /\ q.fleet_events = p.fleet_events OBVIOUS
<1>3. /\ Events(p.events) = p.events /\ ContextEvents(p.context_events) = p.context_events
      /\ {coerceFleetEvent(w) : w \in p.fleet_events} = p.fleet_events BY ReadsBack
<1>4. PICK s : s = Slice(q) OBVIOUS
<1>5. /\ s.events = Events(rows) /\ s.context_events = p.context_events
      /\ s.fleet_events = p.fleet_events BY <1>2, <1>3, <1>4 DEF Slice
<1>6. PICK share, ctx : share = Share(p.fleet_events) /\ ctx = p.fleet_events \ share OBVIOUS
<1>7. said = SaidOf(s, share, ctx) /\ Cardinality(s.events) = Cardinality(rows)
  <2>1. share = Share(s.fleet_events) /\ ctx = s.fleet_events \ share BY <1>5, <1>6
  <2>2. IsSaid(said, q, s, share, ctx) BY <1>4, <2>1 DEF IsSaid
  <2>3. said = SaidOf(s, share, ctx) /\ Cardinality(s.events) = Cardinality(q.events)
    BY <2>2, SaidIs
  <2> QED BY <1>2, <2>3
<1>8. /\ true = SaidOf(p, share, ctx) /\ IsFiniteSet(p.events \cup share)
      /\ \A r \in p.events \cup share : r.last_seen \in Nat BY <1>6, PublishedRows
<1>9. PICK e \in p.events : \E d : DamagedRow(d, e) /\ rows = (p.events \ {e}) \cup {d}
  BY DamagedHasRow
<1>10. PICK d : DamagedRow(d, e) /\ rows = (p.events \ {e}) \cup {d} BY <1>9
<1>11. IsFiniteSet(p.events) /\ \A x \in p.events : /\ EventRow(x) /\ coerceEvent(x) = x
                                                   /\ x.tool_fp # Junk
  BY EventsAre, EventStands
<1>12. d \notin p.events
  <2>1. \A x \in p.events : /\ SoundRow(x)
                            /\ DOMAIN x = {"tool_fp", "server_fp", "safety_relevant", "last_seen",
                                           "change_kinds", "removal_scope", "version_delta"}
    BY <1>11 DEF EventRow, IsEvent
  <2> QED BY <1>10, <2>1, DamagedIsNone
<1>13. /\ Cardinality(rows) = Cardinality(p.events)
       /\ \A less : less = p.events \ {e} => Cardinality(less) # Cardinality(p.events)
  <2>1. PICK E : E = p.events OBVIOUS
  <2>2. IsFiniteSet(E) /\ e \in E /\ d \notin E /\ rows = (E \ {e}) \cup {d}
    BY <1>10, <1>11, <1>12, <2>1
  <2>3. /\ Cardinality(rows) = Cardinality(E)
        /\ \A less : less = E \ {e} => Cardinality(less) # Cardinality(E) BY <2>2, OneReplaced
  <2> QED BY <2>1, <2>3
<1>14. d.tool_fp # Junk
  <2>1. SUFFICES ASSUME d.tool_fp = Junk PROVE FALSE OBVIOUS
  <2>2. Events(rows) = p.events \ {e} BY <1>10, <1>11, <2>1 DEF Events
  <2> QED BY <1>5, <1>7, <1>13, <2>2
<1>15. PICK c : c = coerceEvent(d) OBVIOUS
<1>16. s.events = (p.events \ {e}) \cup {c} BY <1>5, <1>10, <1>11, <1>14, <1>15 DEF Events
<1>17. NoBetter(c, e) BY <1>10, <1>11, <1>15, EventNoBetter
<1>18. NoneCleaner(s.events \cup share, p.events \cup share)
  <2>1. PICK R, S : R = p.events \cup share /\ S = s.events \cup share OBVIOUS
  <2>2. Reread(R, S, c, e) BY <1>16, <2>1 DEF Reread
  <2>3. IsFiniteSet(S)
    <3>1. IsFiniteSet(R \cup {c}) BY <1>8, <2>1, FS_AddElement
    <3>2. S \in SUBSET (R \cup {c}) BY <2>2 DEF Reread
    <3> QED BY <3>1, <3>2, FS_Subset
  <2> QED BY <1>8, <1>17, <2>1, <2>2, <2>3, NoCleaner DEF NoneCleaner
<1>19. Better(SaidOf(s, share, ctx), SaidOf(p, share, ctx))
  BY <1>5, <1>7, <1>13, <1>18, AnswersCompare
<1> QED BY <1>7, <1>8, <1>19

LEMMA ContextDamaged ==
  ASSUME NEW f \in Facts, NEW v \in Forms, NEW p, p = Published(f, v),
         NEW rows \in Damaged(p.context_events), NEW q, q.events = p.events,
         q.context_events = rows, q.fleet_events = p.fleet_events,
         NEW said \in Answers(q), NEW true \in Answers(p)
  PROVE  Better(said, true)
<1>1. p = [events |-> p.events, context_events |-> p.context_events,
           fleet_events |-> p.fleet_events] BY ListsAre
<1>2. /\ q.events = p.events /\ q.context_events = rows
      /\ q.fleet_events = p.fleet_events OBVIOUS
<1>3. /\ Events(p.events) = p.events /\ ContextEvents(p.context_events) = p.context_events
      /\ {coerceFleetEvent(w) : w \in p.fleet_events} = p.fleet_events BY ReadsBack
<1>4. PICK s : s = Slice(q) OBVIOUS
<1>5. /\ s.events = p.events /\ s.context_events = ContextEvents(rows)
      /\ s.fleet_events = p.fleet_events BY <1>2, <1>3, <1>4 DEF Slice
<1>6. PICK share, ctx : share = Share(p.fleet_events) /\ ctx = p.fleet_events \ share OBVIOUS
<1>7. said = SaidOf(s, share, ctx) /\ Cardinality(s.context_events) = Cardinality(rows)
  <2>1. share = Share(s.fleet_events) /\ ctx = s.fleet_events \ share BY <1>5, <1>6
  <2>2. IsSaid(said, q, s, share, ctx) BY <1>4, <2>1 DEF IsSaid
  <2>3. /\ said = SaidOf(s, share, ctx)
        /\ Cardinality(s.context_events) = Cardinality(q.context_events) BY <2>2, SaidIs
  <2> QED BY <1>2, <2>3
<1>8. /\ true = SaidOf(p, share, ctx) /\ IsFiniteSet(p.context_events \cup ctx)
      /\ \A r \in p.context_events \cup ctx : r.last_seen \in Nat
      /\ Latest(p.events \cup share) <= Latest(p.events \cup share) BY <1>6, PublishedRows
<1>9. PICK e \in p.context_events :
        \E d : DamagedRow(d, e) /\ rows = (p.context_events \ {e}) \cup {d} BY DamagedHasRow
<1>10. PICK d : DamagedRow(d, e) /\ rows = (p.context_events \ {e}) \cup {d} BY <1>9
<1>11. /\ IsFiniteSet(p.context_events)
       /\ \A x \in p.context_events : /\ ContextRow(x) /\ coerceContextEvent(x) = x
                                      /\ x.server_fp # Junk /\ x.change_kinds # {}
  BY ContextEventsAre, ContextEventStands
<1>12. d \notin p.context_events
  <2>1. \A x \in p.context_events :
          /\ SoundRow(x)
          /\ DOMAIN x = {"server_fp", "safety_relevant", "last_seen", "change_kinds"}
    BY <1>11 DEF ContextRow, IsContextEvent
  <2> QED BY <1>10, <2>1, DamagedIsNone
<1>13. /\ Cardinality(rows) = Cardinality(p.context_events)
       /\ \A less : less = p.context_events \ {e}
                      => Cardinality(less) # Cardinality(p.context_events)
  <2>1. PICK E : E = p.context_events OBVIOUS
  <2>2. IsFiniteSet(E) /\ e \in E /\ d \notin E /\ rows = (E \ {e}) \cup {d}
    BY <1>10, <1>11, <1>12, <2>1
  <2>3. /\ Cardinality(rows) = Cardinality(E)
        /\ \A less : less = E \ {e} => Cardinality(less) # Cardinality(E) BY <2>2, OneReplaced
  <2> QED BY <2>1, <2>3
<1>14. PICK c : c = coerceContextEvent(d) OBVIOUS
<1>15. d.server_fp # Junk /\ c.change_kinds # {}
  <2>1. SUFFICES ASSUME d.server_fp = Junk \/ c.change_kinds = {} PROVE FALSE OBVIOUS
  <2>2. ContextEvents(rows) = p.context_events \ {e}
    BY <1>10, <1>11, <1>14, <2>1 DEF ContextEvents
  <2> QED BY <1>5, <1>7, <1>13, <2>2
<1>16. s.context_events = (p.context_events \ {e}) \cup {c}
  BY <1>5, <1>10, <1>11, <1>14, <1>15 DEF ContextEvents
<1>17. NoBetter(c, e) BY <1>10, <1>11, <1>14, ContextEventNoBetter
<1>18. KindsOf(s.context_events \cup ctx) \subseteq KindsOf(p.context_events \cup ctx)
  BY <1>16, <1>17 DEF KindsOf, NoBetter
<1>19. CountOfContext(s.context_events, ctx) = CountOfContext(p.context_events, ctx)
  <2>1. s.context_events # {} /\ p.context_events # {} BY <1>16
  <2> QED BY <1>7, <1>13, <2>1 DEF CountOfContext
<1>20. NoneCleaner(s.events \cup share, p.events \cup share) BY <1>5, <1>8 DEF NoneCleaner
<1>21. Better(SaidOf(s, share, ctx), SaidOf(p, share, ctx))
  BY <1>5, <1>18, <1>19, <1>20, AnswersCompare
<1> QED BY <1>7, <1>8, <1>21

\* A publisher-wide change that is read whole is of the plane, the change and the tools it was.
LEMMA FleetDamaged ==
  ASSUME NEW f \in Facts, NEW v \in Forms, NEW p, p = Published(f, v),
         NEW rows \in Damaged(p.fleet_events), NEW q, q.events = p.events,
         q.context_events = p.context_events, q.fleet_events = rows,
         NEW said \in Answers(q), NEW true \in Answers(p)
  PROVE  Better(said, true)
<1>1. p = [events |-> p.events, context_events |-> p.context_events,
           fleet_events |-> p.fleet_events] BY ListsAre
<1>2. /\ q.events = p.events /\ q.context_events = p.context_events
      /\ q.fleet_events = rows OBVIOUS
<1>3. Events(p.events) = p.events /\ ContextEvents(p.context_events) = p.context_events
  BY ReadsBack
<1>4. PICK s : s = Slice(q) OBVIOUS
<1>5. /\ s.events = p.events /\ s.context_events = p.context_events
      /\ s.fleet_events = {coerceFleetEvent(w) : w \in rows} BY <1>2, <1>3, <1>4 DEF Slice
<1>6. PICK F, pshare, pctx : /\ F = p.fleet_events /\ pshare = Share(F)
                             /\ pctx = F \ pshare OBVIOUS
<1>7. PICK share, ctx : share = Share(s.fleet_events) /\ ctx = s.fleet_events \ share OBVIOUS
<1>8. /\ said = SaidOf(s, share, ctx) /\ (\A w \in rows : Whole(w))
      /\ \A r \in s.fleet_events : r.server_fp = Mine
  <2>1. IsSaid(said, q, s, share, ctx) BY <1>4, <1>7 DEF IsSaid
  <2>2. /\ said = SaidOf(s, share, ctx) /\ \A w \in q.fleet_events : Whole(w)
        /\ \A r \in s.events \cup s.context_events \cup s.fleet_events : r.server_fp = Mine
    BY <2>1, SaidIs
  <2> QED BY <1>2, <2>2
<1>9. /\ true = SaidOf(p, pshare, pctx)
      /\ IsFiniteSet(p.events \cup pshare) /\ IsFiniteSet(p.context_events \cup pctx)
      /\ \A r \in p.events \cup pshare : r.last_seen \in Nat
      /\ \A r \in p.context_events \cup pctx : r.last_seen \in Nat
      /\ Latest(p.events \cup pshare) <= Latest(p.events \cup pshare) BY <1>6, PublishedRows
<1>10. PICK e \in F : \E d : DamagedRow(d, e) /\ rows = (F \ {e}) \cup {d}
  BY <1>6, DamagedHasRow
<1>11. PICK d : DamagedRow(d, e) /\ rows = (F \ {e}) \cup {d} BY <1>10
<1>12. \A w \in F : FleetRow(w) /\ coerceFleetEvent(w) = w BY <1>6, FleetsAre, FleetStands
<1>13. PICK c : c = coerceFleetEvent(d) OBVIOUS
<1>14. s.fleet_events = (F \ {e}) \cup {c} BY <1>5, <1>11, <1>12, <1>13
<1>15. NoBetter(c, e) /\ c.plane = e.plane /\ c.day = e.day /\ c.page_tools = e.page_tools
  BY <1>8, <1>10, <1>11, <1>12, <1>13, <1>14, FleetNoBetter
<1>16. CASE e.plane = "tool"
  <2>1. share = (pshare \ {e}) \cup {c} /\ e \in pshare
    BY <1>6, <1>7, <1>14, <1>15, <1>16 DEF Share
  <2>2. ctx = pctx BY <1>6, <1>7, <1>14, <1>15, <1>16 DEF Share
  <2>3. v = "3"
    <3>1. v = "2" => F = {} BY <1>6, ListsAre
    <3> QED BY <3>1 DEF Forms
  <2>4. IsShare(f, pshare) /\ \A r \in pshare : r = ToolFleet(f, r.day)
    BY <1>6, <2>3, ShareIs
  <2>5. \A r \in pshare : r.page_tools = Cardinality(Counted(f, r.day))
    <3>1. ASSUME NEW w, NEW r, r = ToolFleet(f, w)
          PROVE  r.page_tools = Cardinality(Counted(f, w)) BY <3>1, FleetIsWritten DEF ToolFleet
    <3> QED BY <2>4, <3>1
  <2>6. IsFiniteSet(share)
    <3>1. IsFiniteSet(pshare \cup {c}) BY <2>4, FS_AddElement DEF IsShare
    <3>2. share \in SUBSET (pshare \cup {c}) BY <2>1
    <3> QED BY <3>1, <3>2, FS_Subset
  <2>7. IsShare(f, share)
    <3>1. \A r \in share : r.day \in WideOnes(f) BY <1>15, <2>1, <2>4 DEF IsShare
    <3>2. \A x, y \in share : x.day = y.day => x = y BY <1>15, <2>1, <2>4 DEF IsShare
    <3>3. \A w \in WideOnes(f) : \E r \in share : r.day = w BY <1>15, <2>1, <2>4 DEF IsShare
    <3> QED BY <2>6, <3>1, <3>2, <3>3 DEF IsShare
  <2>8. \A r \in share : r.page_tools = Cardinality(Counted(f, r.day)) BY <1>15, <2>1, <2>5
  <2>9. Summed(share, "page_tools") = Summed(pshare, "page_tools")
    BY <2>4, <2>5, <2>7, <2>8, PagesSum
  <2>10. NoneCleaner(s.events \cup share, p.events \cup pshare)
    <3>1. PICK R, S : R = p.events \cup pshare /\ S = s.events \cup share OBVIOUS
    <3>2. Reread(R, S, c, e) BY <1>5, <2>1, <3>1 DEF Reread
    <3>3. IsFiniteSet(S)
      <4>1. IsFiniteSet(R \cup {c}) BY <1>9, <3>1, FS_AddElement
      <4>2. S \in SUBSET (R \cup {c}) BY <3>2 DEF Reread
      <4> QED BY <4>1, <4>2, FS_Subset
    <3> QED BY <1>9, <1>15, <3>1, <3>2, <3>3, NoCleaner DEF NoneCleaner
  <2>11. Better(SaidOf(s, share, ctx), SaidOf(p, pshare, pctx))
    BY <1>5, <2>2, <2>9, <2>10, AnswersCompare
  <2> QED BY <1>8, <1>9, <2>11
<1>17. CASE e.plane # "tool"
  <2>1. share = pshare BY <1>6, <1>7, <1>14, <1>15, <1>17 DEF Share
  <2>2. ctx = (pctx \ {e}) \cup {c} /\ e \in pctx
    BY <1>6, <1>7, <1>14, <1>15, <1>17 DEF Share
  <2>3. CountOfContext(s.context_events, ctx) = CountOfContext(p.context_events, pctx)
    BY <1>5, <2>2 DEF CountOfContext
  <2>4. KindsOf(s.context_events \cup ctx) \subseteq KindsOf(p.context_events \cup pctx)
    BY <1>5, <1>15, <2>2 DEF KindsOf, NoBetter
  <2>5. NoneCleaner(s.events \cup share, p.events \cup pshare) BY <1>5, <1>9, <2>1 DEF NoneCleaner
  <2>6. Better(SaidOf(s, share, ctx), SaidOf(p, pshare, pctx))
    BY <1>5, <2>1, <2>3, <2>4, <2>5, AnswersCompare
  <2> QED BY <1>8, <1>9, <2>6
<1> QED BY <1>16, <1>17

(***************************************************************************)
(* The field: as it is published, or with one list of it damaged.          *)
(***************************************************************************)
DamagedField(p, q) ==
  \E list \in Lists : \E rows \in Damaged(p[list]) \cup {Junk} : q = [p EXCEPT ![list] = rows]

SliceInv ==
  /\ facts \in Facts /\ form \in Forms
  /\ field = Published(facts, form) \/ DamagedField(Published(facts, form), field)

\* A list that is missing is refused.
LEMMA MissingIsRefused ==
  ASSUME NEW list \in Lists, NEW q, q[list] = Junk
  PROVE  Answers(q) = {}
<1>1. SUFFICES ASSUME NEW said \in Answers(q) PROVE FALSE OBVIOUS
<1>2. PICK s : s = Slice(q) OBVIOUS
<1>3. PICK share : share = Share(s.fleet_events) OBVIOUS
<1>4. PICK ctx : ctx = s.fleet_events \ share OBVIOUS
<1>5. IsSaid(said, q, s, share, ctx) BY <1>2, <1>3, <1>4 DEF IsSaid
<1>6. \A l \in Lists : q[l] # Junk BY <1>5, SaidIs
<1> QED BY <1>6

LEMMA DamageTold ==
  ASSUME NEW f \in Facts, NEW v \in Forms, NEW p, p = Published(f, v), NEW q, DamagedField(p, q),
         NEW said \in Answers(q), NEW true \in Answers(p)
  PROVE  Better(said, true)
<1>1. PICK list \in Lists : \E rows \in Damaged(p[list]) \cup {Junk} : q = [p EXCEPT ![list] = rows]
  BY DEF DamagedField
<1>2. PICK rows \in Damaged(p[list]) \cup {Junk} : q = [p EXCEPT ![list] = rows] BY <1>1
<1>3. DOMAIN p = Lists
  <2>1. p = [events |-> p.events, context_events |-> p.context_events,
             fleet_events |-> p.fleet_events] BY ListsAre
  <2> QED BY <2>1 DEF Lists
<1>4. q[list] = rows /\ \A l \in Lists : l # list => q[l] = p[l] BY <1>2, <1>3
<1>5. q[list] # Junk BY MissingIsRefused
<1>6. rows \in Damaged(p[list]) BY <1>2, <1>4, <1>5
<1>7. {"events", "context_events", "fleet_events"} \subseteq Lists BY DEF Lists
<1>8. CASE list = "events"
  <2>1. /\ rows \in Damaged(p.events) /\ q.events = rows
        /\ q.context_events = p.context_events /\ q.fleet_events = p.fleet_events
    BY <1>4, <1>6, <1>7, <1>8
  <2> QED BY <2>1, EventsDamaged
<1>9. CASE list = "context_events"
  <2>1. /\ rows \in Damaged(p.context_events) /\ q.events = p.events
        /\ q.context_events = rows /\ q.fleet_events = p.fleet_events
    BY <1>4, <1>6, <1>7, <1>9
  <2> QED BY <2>1, ContextDamaged
<1>10. CASE list = "fleet_events"
  <2>1. /\ rows \in Damaged(p.fleet_events) /\ q.events = p.events
        /\ q.context_events = p.context_events /\ q.fleet_events = rows
    BY <1>4, <1>6, <1>7, <1>10
  <2> QED BY <2>1, FleetDamaged
<1> QED BY <1>8, <1>9, <1>10 DEF Lists

\* As it is published, it says what is true.
LEMMA PublishedTold ==
  ASSUME NEW f \in Facts, NEW v \in Forms, NEW p, p = Published(f, v),
         NEW said \in Answers(p), NEW true \in Answers(p)
  PROVE  Better(said, true)
<1>1. PICK share : share = Share(p.fleet_events) OBVIOUS
<1>2. PICK ctx : ctx = p.fleet_events \ share OBVIOUS
<1>3. /\ said = SaidOf(p, share, ctx) /\ true = SaidOf(p, share, ctx)
      /\ Latest(p.events \cup share) <= Latest(p.events \cup share) BY <1>1, <1>2, PublishedRows
<1>4. NoneCleaner(p.events \cup share, p.events \cup share) BY <1>3 DEF NoneCleaner
<1>5. Better(SaidOf(p, share, ctx), SaidOf(p, share, ctx)) BY <1>4, AnswersCompare
<1> QED BY <1>3, <1>5

LEMMA NothingIsAFact == NoFacts \in Facts
<1>1. PICK n : n = NoFacts OBVIOUS
<1>2. /\ n.own = [t \in Tool |-> {}] /\ n.wide = [t \in Tool |-> {}]
      /\ n.page = [t \in Tool |-> Absent] /\ n.version = [t \in Tool |-> Absent]
      /\ n.context = {} BY <1>1 DEF NoFacts
<1>3. {} \in {S \in SUBSET Change : Cardinality(S) <= 1} BY FS_EmptySet
<1>4. n.own \in [Tool -> {S \in SUBSET Change : Cardinality(S) <= 1}] BY <1>2, <1>3
<1>5. n.wide \in [Tool -> SUBSET Wide] /\ n.page \in [Tool -> Wide \cup {Absent}] BY <1>2
<1>6. n.version \in [Tool -> Evidence] \cup {[t \in Tool |-> Absent]} BY <1>2
<1>7. n = [own |-> n.own, wide |-> n.wide, page |-> n.page, version |-> n.version,
           context |-> n.context] BY <1>1 DEF NoFacts
<1>8. n \in [own : [Tool -> {S \in SUBSET Change : Cardinality(S) <= 1}],
             wide : [Tool -> SUBSET Wide], page : [Tool -> Wide \cup {Absent}],
             version : [Tool -> Evidence] \cup {[t \in Tool |-> Absent]},
             context : SUBSET {"own", "wide"}] BY <1>2, <1>4, <1>5, <1>6, <1>7
<1>9. \A t \in Tool : n.wide[t] = {} /\ n.page[t] = Absent BY <1>2
<1> QED BY <1>1, <1>8, <1>9 DEF Facts

LEMMA SliceStarts == SliceInit => SliceInv
<1> QED BY NothingIsAFact DEF SliceInit, SliceInv, Forms

LEMMA SliceKept == SliceInv /\ [SliceNext]_sliceVars => SliceInv'
<1>1. SUFFICES ASSUME SliceInv, [SliceNext]_sliceVars PROVE SliceInv' OBVIOUS
<1>2. CASE Publish BY <1>2 DEF Publish, SliceInv, Forms
<1>3. CASE Damage
  <2>1. /\ field = Published(facts, form) /\ facts' = facts /\ form' = form
        /\ \E list \in Lists : \E rows \in Damaged(field[list]) \cup {Junk} :
             field' = [field EXCEPT ![list] = rows] BY <1>3 DEF Damage, Lists
  <2>2. DamagedField(Published(facts, form), field') BY <2>1 DEF DamagedField
  <2> QED BY <1>1, <2>1, <2>2 DEF SliceInv
<1>4. CASE UNCHANGED sliceVars BY <1>1, <1>4 DEF sliceVars, SliceInv
<1> QED BY <1>1, <1>2, <1>3, <1>4 DEF SliceNext

LEMMA SliceAnswers == SliceInv => SliceIsAnswered
<1>1. SUFFICES ASSUME SliceInv PROVE SliceIsAnswered OBVIOUS
<1>2. PICK f, v, q : f = facts /\ v = form /\ q = field OBVIOUS
<1>3. PICK p : p = Published(f, v) OBVIOUS
<1>4. f \in Facts /\ v \in Forms /\ (q = p \/ DamagedField(p, q)) BY <1>1, <1>2, <1>3 DEF SliceInv
<1>5. \A said \in Answers(q), true \in Answers(p) : Better(said, true)
  BY <1>3, <1>4, DamageTold, PublishedTold
<1>6. DamageIsNotClean BY <1>2, <1>3, <1>5 DEF DamageIsNotClean, Better
<1>7. SameUnderBothForms BY <1>1, BothFormsAgree DEF SliceInv
<1> QED BY <1>6, <1>7 DEF SliceIsAnswered

\* The facts are facts of the server's tools, and the field keeps its three lists, however
\* it is damaged.
THEOREM SliceTypeCorrect == SliceSpec => []SliceTypeOK
<1>1. SliceInv => SliceTypeOK
  <2>1. SUFFICES ASSUME SliceInv PROVE SliceTypeOK OBVIOUS
  <2>2. PICK p : p = Published(facts, form) OBVIOUS
  <2>3. facts \in Facts /\ form \in Forms /\ (field = p \/ DamagedField(p, field))
    BY <2>1, <2>2 DEF SliceInv
  <2>4. DOMAIN p = Lists
    <3>1. p = [events |-> p.events, context_events |-> p.context_events,
               fleet_events |-> p.fleet_events] BY <2>2, <2>3, ListsAre
    <3> QED BY <3>1 DEF Lists
  <2>5. DamagedField(p, field) => DOMAIN field = DOMAIN p BY DEF DamagedField
  <2> QED BY <2>3, <2>4, <2>5 DEF SliceTypeOK, Lists, Forms
<1> QED BY <1>1, SliceStarts, SliceKept, PTL DEF SliceSpec

\* One server's answer is the same whether every tool of it is an event or the publisher's
\* own changes are listed apart, and a field with one part damaged is refused or reads no
\* cleaner than it was: what parseServerSlice and aggregateServerDrift make of any field.
THEOREM SliceIsAlwaysAnswered == SliceSpec => []SliceIsAnswered
<1> QED BY SliceStarts, SliceKept, SliceAnswers, PTL DEF SliceSpec
================================================================================
