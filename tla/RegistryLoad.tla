---------------------------- MODULE RegistryLoad ----------------------------
(***************************************************************************)
(* How one warm instance loads the registry: lib/registry.ts over its two  *)
(* files, the index built beforehand and the snapshot it was built from.   *)
(*                                                                         *)
(* Every loader keeps its result for the life of the instance and hands    *)
(* one promise to all who ask meanwhile.  The index never fails: it is     *)
(* read once, and unusable means the pipeline over the snapshot ever       *)
(* after.  A failed read of the snapshot rejects all who wait for it and   *)
(* is tried again by whoever asks next.                                    *)
(***************************************************************************)
EXTENDS Naturals, FiniteSets

CONSTANT Caller     \* requests, each asking once

\* What callers ask for: loadServers, getServer, loadSnapshotMeta, loadSnapshot.
Kind == {"servers", "page", "meta", "snapshot"}
Waiting == {"servers", "index", "snapshot"}

VARIABLES
  index,      \* _indexCache, _indexInflight
  snapshot,   \* _loadedSnapshot, _resolveInflight
  servers,    \* _cache: what the list was made from
  flight,     \* _loadInflight: what the one load of the list waits for
  parsing,    \* reads of the snapshot under way: ~200 MB each
  call        \* each caller: what it asked, where it waits, what its answer is made from
loadVars == <<index, snapshot, servers, flight, parsing, call>>

NotAsked == [kind |-> "none", at |-> "idle", from |-> {}]

LoadTypeOK ==
  /\ index \in {"unread", "reading", "unusable", "read"}
  /\ snapshot \in {"unread", "reading", "read"}
  /\ servers \in {"none", "index", "pipeline", "pipeline-"}
  /\ flight \in {"none", "index", "snapshot", "admitted"}
  /\ parsing \in Nat
  /\ call \in [Caller -> [kind : Kind \cup {"none"},
                          at : Waiting \cup {"idle", "done", "failed"},
                          from : SUBSET {"index", "pipeline", "pipeline-", "snapshot"}]]

LoadInit ==
  /\ index = "unread" /\ snapshot = "unread" /\ servers = "none" /\ flight = "none"
  /\ parsing = 0
  /\ call = [c \in Caller |-> NotAsked]
-----------------------------------------------------------------------------
\* Mutant: a load of the snapshot under way is not shared.
StartsUnshared(at) ==
  /\ index' = IF index = "unread" /\ at = "index" THEN "reading" ELSE index
  /\ snapshot' = IF snapshot # "read" /\ at = "snapshot" THEN "reading" ELSE snapshot
  /\ parsing' = IF snapshot # "read" /\ at = "snapshot" THEN parsing + 1 ELSE parsing

\* What waiting for a file sets going, unless it is there or on its way.
Starts(at) ==
  /\ index' = IF index = "unread" /\ at = "index" THEN "reading" ELSE index
  /\ snapshot' = IF snapshot = "unread" /\ at = "snapshot" THEN "reading" ELSE snapshot
  /\ parsing' = IF snapshot = "unread" /\ at = "snapshot" THEN parsing + 1 ELSE parsing

\* loadServers: the list, the load under way, or a new one, which asks for the index.
StartsAt(at) ==
  IF at = "servers" /\ servers = "none" /\ flight = "none"
  THEN flight' = "index" /\ Starts("index")
  ELSE flight' = flight /\ Starts(at)

FirstWait(kind) ==
  CASE kind \in {"servers", "page"} -> "servers" [] kind = "meta" -> "index"
    [] kind = "snapshot" -> "snapshot"

Ask(c, kind) ==
  /\ call[c].at = "idle"
  /\ call' = [call EXCEPT ![c] = [kind |-> kind, at |-> FirstWait(kind), from |-> {}]]
  /\ StartsAt(FirstWait(kind))
  /\ UNCHANGED servers

Answered(c, source) ==
  [call EXCEPT ![c] = [call[c] EXCEPT !.at = "done", !.from = @ \cup {source}]]

\* The list is there.  A page whose slug is on it is answered; one whose slug is not
\* goes on to the deprecated servers.
GotServers(c) ==
  /\ call[c].at = "servers" /\ servers # "none"
  /\ \/ call' = Answered(c, servers) /\ UNCHANGED <<index, snapshot, parsing>>
     \/ /\ call[c].kind = "page"
        /\ call' = [call EXCEPT ![c] =
                      [call[c] EXCEPT !.at = "index", !.from = @ \cup {servers}]]
        /\ Starts("index")
  /\ UNCHANGED <<servers, flight>>

\* The deprecated servers and the meta data are in the index too, when it is usable.
GotIndex(c) ==
  /\ call[c].at = "index" /\ index \in {"read", "unusable"}
  /\ IF index = "read"
     THEN call' = Answered(c, "index") /\ UNCHANGED <<index, snapshot, parsing>>
     ELSE call' = [call EXCEPT ![c].at = "snapshot"] /\ Starts("snapshot")
  /\ UNCHANGED <<servers, flight>>

GotSnapshot(c) ==
  /\ call[c].at = "snapshot" /\ snapshot = "read"
  /\ call' = Answered(c, "snapshot")
  /\ UNCHANGED <<index, snapshot, servers, flight, parsing>>

\* loadServersResolved, past the index ...
LoadFromIndex ==
  /\ flight = "index" /\ index = "read"
  /\ servers' = "index" /\ flight' = "none"
  /\ UNCHANGED <<index, snapshot, parsing, call>>

LoadFromSnapshot ==
  /\ flight = "index" /\ index = "unusable"
  /\ flight' = "snapshot" /\ Starts("snapshot")
  /\ UNCHANGED <<servers, call>>

\* ... the snapshot ...
LoadAdmitted ==
  /\ flight = "snapshot" /\ snapshot = "read"
  /\ flight' = "admitted"
  /\ UNCHANGED <<index, snapshot, servers, parsing, call>>

\* ... and the admitted list: unreadable is empty, and so kept.
LoadMerged ==
  /\ flight = "admitted"
  /\ servers' \in {"pipeline", "pipeline-"} /\ flight' = "none"
  /\ UNCHANGED <<index, snapshot, parsing, call>>

\* readServerIndex: whatever goes wrong is "unusable".
IndexRead ==
  /\ index = "reading"
  /\ index' \in {"read", "unusable"}
  /\ UNCHANGED <<snapshot, servers, flight, parsing, call>>

SnapshotRead ==
  /\ parsing > 0
  /\ snapshot' = "read" /\ parsing' = parsing - 1
  /\ UNCHANGED <<index, servers, flight, call>>

\* Mutant: the load under way is not forgotten when it fails.
FlightKept == flight

\* The load that waited for the snapshot is forgotten with it.
FlightAfterFailure == IF flight = "snapshot" THEN "none" ELSE flight

SnapshotFails ==
  /\ parsing > 0 /\ snapshot = "reading"
  /\ snapshot' = "unread" /\ parsing' = parsing - 1
  /\ flight' = FlightAfterFailure
  /\ call' = [c \in Caller |->
                IF \/ call[c].at = "snapshot"
                   \/ call[c].at = "servers" /\ servers = "none" /\ flight = "snapshot"
                THEN [call[c] EXCEPT !.at = "failed"] ELSE call[c]]
  /\ UNCHANGED <<index, servers>>

Proceeds(c) == GotServers(c) \/ GotIndex(c) \/ GotSnapshot(c)
SnapshotEnds == SnapshotRead \/ SnapshotFails
Loads == LoadFromIndex \/ LoadFromSnapshot \/ LoadAdmitted \/ LoadMerged

LoadNext ==
  \/ \E c \in Caller, kind \in Kind : Ask(c, kind)
  \/ \E c \in Caller : Proceeds(c)
  \/ IndexRead \/ SnapshotEnds \/ Loads

\* Reads end, and what is resolved goes on: the event loop starves nobody.
LoadFairness ==
  /\ WF_loadVars(IndexRead) /\ WF_loadVars(SnapshotEnds) /\ WF_loadVars(Loads)
  /\ \A c \in Caller : WF_loadVars(Proceeds(c))
-----------------------------------------------------------------------------
\* One instance never mixes its sources: the list, the deprecated servers and the meta
\* data of all its answers come from the index, or all from the snapshot.  A page list
\* of one and a deprecated set of the other could give two subjects one slug.
OneSource ==
  \A c, d \in Caller :
    call[c].kind # "snapshot" /\ call[d].kind # "snapshot" =>
      ~("index" \in call[c].from /\ call[d].from \ {"index"} # {})

\* At most one 26 MB read is under way, however many ask at once.
OneParseAtATime == parsing <= 1

\* With a usable index no page fails: what fails a request is the snapshot alone.
IndexMeansNoFailure ==
  \A c \in Caller : call[c].at = "failed" => call[c].kind = "snapshot" \/ index = "unusable"

\* The files are read once, one at a time and one for all, and the smaller one is enough.
ReadOnce == OneSource /\ OneParseAtATime /\ IndexMeansNoFailure

\* Every request ends, whichever reads fail and whoever asked first.
EveryCallEnds == \A c \in Caller : call[c].at \in Waiting ~> call[c].at \in {"done", "failed"}
=============================================================================
