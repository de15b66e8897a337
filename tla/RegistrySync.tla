---------------------------- MODULE RegistrySync ----------------------------
(***************************************************************************)
(* The registry sync: how data/ on main changes, and what production shows *)
(* of it.  A window of .github/workflows/sync-registry.yml checks main     *)
(* out, runs scripts/sync-registry.mjs (a new snapshot and every file      *)
(* derived from it), commits, and pushes against a main that others move:  *)
(* verdict and anchor commits that skip their own build, editors, product  *)
(* commits.  A rejected push rebases; a window whose sync job fails still  *)
(* ships the waiting data (job ship-pending).                              *)
(*                                                                         *)
(* A commit is the tree of data files it leaves; git's merge is three-way  *)
(* by file, and by line where a file's two kinds of lines have different   *)
(* writers (server-removals.json).  A digest is the version of what it was *)
(* taken of: a snapshot is known by its fetchedAt, admitted.json by its    *)
(* edit.  The upstream registry is whatever a fetch returns.               *)
(***************************************************************************)
EXTENDS Naturals, FiniteSets

CONSTANTS Slug,         \* server slugs
          MaxWindows,   \* bound: windows of the workflow
          MaxOthers,    \* bound: commits others push to main
          SyncTries,    \* push attempts of the sync job (5 in the code)
          ShipTries     \* push attempts of ship-pending (3 in the code)

ASSUME SyncBounds == /\ MaxWindows \in Nat /\ MaxOthers \in Nat
                     /\ SyncTries \in Nat \ {0} /\ ShipTries \in Nat \ {0}

VARIABLES main,     \* origin/main: its files, its length, whether its tip skips its build
          run,      \* the window under way: its job and step, its clone
          window,   \* windows started
          others,   \* commits pushed by others
          shipped,  \* version of the skipped data in the last commit production built
          bare      \* history: somebody has pushed admitted.json without its derived files
syncVars == <<main, run, window, others, shipped, bare>>

-----------------------------------------------------------------------------
(* Trees and the merge.                                                    *)

Status == {"active", "deprecated", "absent"}
Files == {"snapshot", "slugmap", "index", "removals", "firstSeen", "indexable",
          "era", "stamp", "admitted", "data"}

\* Mutant: the index is left out of `git add`.
StagedWithoutIndex == Files \ {"index", "stamp", "admitted", "data"}

\* What `git add` stages, and what a conflicted rebase resolves to this run's side.
Staged == {"snapshot", "removals", "slugmap", "index", "era", "indexable", "firstSeen"}
Resolved == {"snapshot", "removals", "slugmap", "index", "indexable", "firstSeen", "stamp"}

Listed(tree) == {s \in Slug : tree["snapshot"].listed[s] # "absent"}
Active(tree) == {s \in Slug : tree["snapshot"].listed[s] = "active"}

\* check-data-bindings.mjs: both derived files were built from the inputs beside them.
Binding(tree) == [at |-> tree["snapshot"].at, adm |-> tree["admitted"]]
Bound(tree) == tree["slugmap"] = Binding(tree) /\ tree["index"] = Binding(tree)

\* Files both sides changed, each its own way.
Overlap(base, ours, theirs) ==
    {f \in Files : ours[f] # base[f] /\ theirs[f] # base[f] /\ ours[f] # theirs[f]}

\* Mutant: a conflicted rebase takes this run's side of every file it wrote.
ReplayedWholesale(base, ours, theirs, clash) ==
    [f \in Files |-> IF clash # {} \/ theirs[f] = base[f] \/ ours[f] # base[f]
                     THEN ours[f] ELSE theirs[f]]

\* The run's commit replayed on theirs, its side taken for the files in clash.  Both
\* sides of server-removals.json merge by line when git finds no overlapping lines.
Replayed(base, ours, theirs, clash) ==
    [f \in Files |->
        IF f \in clash \/ theirs[f] = base[f] THEN ours[f]
        ELSE IF f = "removals" /\ ours[f] # base[f]
             THEN [redirects |-> theirs[f].redirects, gone |-> ours[f].gone]
             ELSE IF ours[f] = base[f] THEN theirs[f] ELSE ours[f]]

-----------------------------------------------------------------------------
(* scripts/sync-registry.mjs and the two exports of the workflow.          *)

\* Mutant: a returning slug is not cleared.
GoneAfterNeverCleared(tree, listed) ==
    tree["removals"].gone
        \cup {s \in Listed(tree) : listed[s] = "absent" /\ s \notin tree["removals"].redirects}

\* The diff is against every slug the previous snapshot listed; a redirect owns its
\* URL; a slug leaves gone only when it is active again.
GoneAfter(tree, listed) ==
    {s \in tree["removals"].gone : listed[s] # "active"}
        \cup {s \in Listed(tree) : listed[s] = "absent" /\ s \notin tree["removals"].redirects}

\* The working tree after the fetch of `listed`; the exports are fail-soft and may keep
\* their last file.
Refreshed(tree, w, listed, era, indexable) ==
    LET snapshot == [at |-> w, listed |-> listed]
        binding == [at |-> w, adm |-> tree["admitted"]]
    IN [tree EXCEPT !["snapshot"] = snapshot,
                    !["slugmap"] = binding,
                    !["index"] = binding,
                    !["removals"].gone = GoneAfter(tree, listed),
                    !["firstSeen"] = @ \cup {s \in Slug : listed[s] # "absent"},
                    !["era"] = era,
                    !["indexable"] = indexable]

\* What the commit holds: the staged files of the working tree, the rest as checked out.
Committed(tree, working) == [f \in Files |-> IF f \in Staged THEN working[f] ELSE tree[f]]

-----------------------------------------------------------------------------
(* Initially main is bound, its tip built, no window is under way.         *)

FirstTree ==
    LET listed == [s \in Slug |-> "active"]
        binding == [at |-> 0, adm |-> 0]
    IN [f \in Files |->
          CASE f = "snapshot" -> [at |-> 0, listed |-> listed]
            [] f \in {"slugmap", "index"} -> binding
            [] f = "removals" -> [redirects |-> {}, gone |-> {}]
            [] f = "firstSeen" -> Slug
            [] OTHER -> 0]

SyncInit ==
    /\ main = [files |-> FirstTree, length |-> 0, skips |-> FALSE]
    /\ run = [job |-> "none", step |-> "green", from |-> FirstTree, base |-> FirstTree,
              onto |-> 0, tree |-> FirstTree, try |-> 1, lost |-> "no"]
    /\ window = 0 /\ others = 0 /\ shipped = 0 /\ bare = FALSE

\* A commit lands; unless its subject matches ignoreCommand, production builds it.
Land(tree, skips) ==
    /\ main' = [files |-> tree, length |-> main.length + 1, skips |-> skips]
    /\ shipped' = IF skips THEN shipped ELSE tree["data"]

-----------------------------------------------------------------------------
(* Everybody else who pushes to main.                                      *)

OthersPush(tree, skips) ==
    /\ others < MaxOthers
    /\ others' = others + 1
    /\ Land(tree, skips)
    /\ UNCHANGED <<run, window>>

\* The verdict, adjudication, liveness and anchor commits: they skip their own build.
PublishData ==
    /\ OthersPush([main.files EXCEPT !["data"] = @ + 1], TRUE)
    /\ UNCHANGED bare

\* Product code: no data file changes, the commit builds.
PushProduct == OthersPush(main.files, FALSE) /\ UNCHANGED bare

\* An editor admits a server, with the derived files rebuilt (as the artifact tests ask).
Admit ==
    LET adm == main.files["admitted"] + 1
        binding == [at |-> main.files["snapshot"].at, adm |-> adm]
    IN /\ OthersPush([main.files EXCEPT !["admitted"] = adm, !["slugmap"] = binding,
                                        !["index"] = binding], FALSE)
       /\ UNCHANGED bare

\* ... or pushes data/admitted.json alone, past the tests.
AdmitAlone ==
    /\ OthersPush([main.files EXCEPT !["admitted"] = @ + 1], FALSE)
    /\ bare' = TRUE

\* A redirect is seeded by hand; the era panel is updated by hand.
SeedRedirect(s) ==
    /\ s \notin main.files["removals"].redirects
    /\ OthersPush([main.files EXCEPT !["removals"].redirects = @ \cup {s}], FALSE)
    /\ UNCHANGED bare

StampEra ==
    /\ OthersPush([main.files EXCEPT !["era"] = MaxWindows + others + 1], FALSE)
    /\ UNCHANGED bare

-----------------------------------------------------------------------------
(* The sync job.                                                           *)

Elsewhere == UNCHANGED <<others, bare>>

\* The concurrency group admits one window at a time; checkout is main's tip.
StartWindow ==
    /\ run.step \in {"green", "red"} /\ window < MaxWindows
    /\ window' = window + 1
    /\ run' = [job |-> "sync", step |-> "checkout", from |-> main.files,
               base |-> main.files, onto |-> main.length, tree |-> main.files,
               try |-> 1, lost |-> "no"]
    /\ UNCHANGED <<main, shipped>> /\ Elsewhere

\* The job's runner goes away, and its clone with it.
Ended(job, step) ==
    [run EXCEPT !.job = job, !.step = step, !.base = FirstTree, !.tree = FirstTree,
                !.onto = 0, !.try = 1]

\* The job ends red; ship-pending follows.
SyncFails(why) ==
    /\ run' = [Ended("ship", "checkout") EXCEPT !.lost = why]
    /\ UNCHANGED <<main, window, shipped>> /\ Elsewhere

\* Fetch deadline, partial-fetch floor, builder, bindings check, or the runner's timeout.
WindowLost ==
    /\ run.job = "sync" /\ run.step \in {"checkout", "push", "rejected"}
    /\ SyncFails("window")

\* Fetch, build and commit.  The snapshot's fetchedAt is new in every run, so the staged
\* tree always differs from HEAD and the "registry unchanged" branch is never taken.
Refresh ==
    /\ run.job = "sync" /\ run.step = "checkout"
    /\ \E listed \in [Slug -> Status],
          era \in {run.tree["era"], window}, indexable \in {run.tree["indexable"], window} :
         LET working == Refreshed(run.tree, window, listed, era, indexable)
         IN /\ Bound(working)
            /\ run' = [run EXCEPT !.step = "push", !.tree = Committed(run.tree, working)]
    /\ UNCHANGED <<main, window, shipped>> /\ Elsewhere

\* `git push` is a fast-forward or nothing.
Push ==
    /\ run.step = "push"
    /\ main.length = run.onto
    /\ Land(run.tree, FALSE)
    /\ run' = Ended(run.job, "green")
    /\ UNCHANGED window /\ Elsewhere

PushRejected ==
    /\ run.step = "push"
    /\ main.length # run.onto
    /\ run' = [run EXCEPT !.step = "rejected"]
    /\ UNCHANGED <<main, window, shipped>> /\ Elsewhere

Tries == IF run.job = "sync" THEN SyncTries ELSE ShipTries

\* git's merge of the run's commit with main: the files it leaves unmerged.  Both sides'
\* lines of server-removals.json may or may not overlap.
Clashes ==
    LET both == Overlap(run.base, run.tree, main.files)
    IN {both, both \ {"removals"}}

\* The loop goes on with the replayed commit while attempts remain.
TryAgain(clash) ==
    /\ run.try < Tries
    /\ run' = [run EXCEPT !.step = "push", !.try = @ + 1, !.onto = main.length,
                          !.base = main.files,
                          !.tree = Replayed(run.base, run.tree, main.files, clash)]
    /\ UNCHANGED <<main, window, shipped>> /\ Elsewhere

\* A rebase git finishes alone goes straight back to the push.
CleanRebase ==
    /\ run.step = "rejected"
    /\ {} \in Clashes
    /\ TryAgain({})

\* A conflicted one takes this run's side of the listed files and checks the bindings.
ResolvedRebase ==
    /\ run.job = "sync" /\ run.step = "rejected"
    /\ \E clash \in Clashes \ {{}} :
         /\ clash \subseteq Resolved
         /\ Bound(Replayed(run.base, run.tree, main.files, clash))
         /\ TryAgain(clash)

BindingsBroke ==
    /\ run.job = "sync" /\ run.step = "rejected"
    /\ \E clash \in Clashes \ {{}} :
         /\ clash \subseteq Resolved
         /\ ~Bound(Replayed(run.base, run.tree, main.files, clash))
    /\ SyncFails("binding")

\* A conflict in a file that is not listed: rebase --continue refuses, the run aborts.
RebaseAborts ==
    /\ run.job = "sync" /\ run.step = "rejected"
    /\ \E clash \in Clashes : ~(clash \subseteq Resolved)
    /\ SyncFails("conflict")

OutOfTries ==
    /\ run.step = "rejected" /\ run.try = Tries
    /\ \/ run.job = "sync" /\ SyncFails("tries")
       \/ /\ run.job = "ship"
          /\ run' = Ended("ship", "red")
          /\ UNCHANGED <<main, window, shipped>> /\ Elsewhere

-----------------------------------------------------------------------------
(* The ship-pending job: a stamp on top of a skipped tip makes it build.   *)

\* The job itself may end without a push.
ShipLost ==
    /\ run.job = "ship" /\ run.step \in {"checkout", "push", "rejected"}
    /\ run' = Ended("ship", "red")
    /\ UNCHANGED <<main, window, shipped>> /\ Elsewhere

\* Mutant: the job's patterns miss one of the skipped subjects.
NothingPendingUnmatched ==
    /\ run.job = "ship" /\ run.step = "checkout"
    /\ run' = [run EXCEPT !.step = "green"]
    /\ UNCHANGED <<main, window, shipped>> /\ Elsewhere

NothingPending ==
    /\ run.job = "ship" /\ run.step = "checkout"
    /\ ~main.skips
    /\ run' = [run EXCEPT !.step = "green"]
    /\ UNCHANGED <<main, window, shipped>> /\ Elsewhere

StampPending ==
    /\ run.job = "ship" /\ run.step = "checkout"
    /\ main.skips
    /\ run' = [run EXCEPT !.step = "push", !.try = 1, !.onto = main.length,
                          !.base = main.files,
                          !.tree = [main.files EXCEPT !["stamp"] = window]]
    /\ UNCHANGED <<main, window, shipped>> /\ Elsewhere

SyncNext ==
    \/ PublishData \/ PushProduct \/ Admit \/ AdmitAlone \/ StampEra
    \/ \E s \in Slug : SeedRedirect(s)
    \/ StartWindow \/ WindowLost \/ Refresh \/ Push \/ PushRejected
    \/ CleanRebase \/ ResolvedRebase \/ BindingsBroke \/ RebaseAborts \/ OutOfTries
    \/ NothingPending \/ StampPending \/ ShipLost

SyncSpec == SyncInit /\ [][SyncNext]_syncVars

-----------------------------------------------------------------------------
(* Properties.                                                             *)

WellFormed(tree) ==
    /\ tree["snapshot"] \in [at : 0..MaxWindows, listed : [Slug -> Status]]
    /\ tree["slugmap"] \in [at : 0..MaxWindows, adm : 0..MaxOthers]
    /\ tree["index"] \in [at : 0..MaxWindows, adm : 0..MaxOthers]
    /\ tree["removals"] \in [redirects : SUBSET Slug, gone : SUBSET Slug]
    /\ tree["firstSeen"] \in SUBSET Slug
    /\ tree["indexable"] \in 0..MaxWindows /\ tree["stamp"] \in 0..MaxWindows
    /\ tree["era"] \in 0..(MaxWindows + MaxOthers)
    /\ tree["admitted"] \in 0..MaxOthers /\ tree["data"] \in 0..MaxOthers

\* The type invariant: every clone is a whole tree, and a run never works on a commit
\* main does not have.
SyncTypeOK ==
    /\ \A tree \in {main.files, run.from, run.base, run.tree} :
         DOMAIN tree = Files /\ WellFormed(tree)
    /\ main.skips \in BOOLEAN /\ run.onto <= main.length
    /\ run.job \in {"none", "sync", "ship"}
    /\ run.step \in {"checkout", "push", "rejected", "green", "red"}
    /\ run.try \in 1..SyncTries \/ run.try \in 1..ShipTries
    /\ run.lost \in {"no", "window", "binding", "conflict", "tries"}
    /\ window \in 0..MaxWindows /\ others \in 0..MaxOthers
    /\ shipped \in 0..MaxOthers /\ bare \in BOOLEAN

\* Whatever the pushes and rebases, the slug map the screener keys by and the index the
\* site prefers to the snapshot (lib/registry.ts loadServers) were built together and from
\* the snapshot beside them; and no admitted.json ever sits beside derived files built from
\* another one, until somebody has pushed it alone (check-data-bindings.mjs).
FilesAgree ==
    /\ main.files["slugmap"] = main.files["index"]
    /\ main.files["index"].at = main.files["snapshot"].at
    /\ bare \/ Bound(main.files)

\* A server the snapshot lists as active is never answered 410 (proxy.ts, isGoneSlug).
ActiveNeverGone == Active(main.files) \cap main.files["removals"].gone = {}

\* Every server a snapshot ever listed is listed, gone or redirected: a server that is
\* first deprecated and then deleted does not become a soft 404, and no lost or rebased
\* run leaves one behind (sync-registry.mjs, the removals diff).
VanishedIsAnswered ==
    main.files["firstSeen"] \subseteq
        Listed(main.files) \cup main.files["removals"].gone
                           \cup main.files["removals"].redirects

\* What the site answers for a server that left, and only for it.
GoneIsHonest == ActiveNeverGone /\ VanishedIsAnswered

\* A window that ends green has put into production every skipped data commit that was
\* on main when it started, whichever job did it and whoever pushed in between; and a
\* fetched snapshot is thrown away by a rebase only when admitted.json or the era reading
\* (staged, but missing from the conflict list) moved during the window.
WindowShips ==
    /\ run.step = "green" => shipped >= run.from["data"]
    /\ run.lost = "binding" => main.files["admitted"] # run.from["admitted"]
    /\ run.lost = "conflict" => main.files["era"] # run.from["era"]

\* What is on main and what production shows after any window.
SyncHolds == FilesAgree /\ GoneIsHonest /\ WindowShips

SyncPush == run.job = "sync" /\ run.step = "push" /\ run'.step = "green"

\* The sync never reverts what others pushed during the window: admitted and skipped
\* data, a hand-made era reading; a seeded redirect can be lost only when the run
\* changed the gone slugs too (git then may take the run's side of the whole file).
KeepsOthersWork ==
    [][SyncPush =>
         /\ main'.files["admitted"] = main.files["admitted"]
         /\ main'.files["data"] = main.files["data"]
         /\ \/ main'.files["era"] = main.files["era"]
            \/ main.files["era"] = run.from["era"]
         /\ \/ main.files["removals"].redirects \subseteq main'.files["removals"].redirects
            \/ run.tree["removals"].gone # run.from["removals"].gone]_syncVars

\* A gone slug has disappeared from the corpus entirely; a deprecated one stays
\* addressable (sync-registry.mjs, the comments on the removals diff).
GoneMeansUnlisted == main.files["removals"].gone \cap Listed(main.files) = {}
=============================================================================
