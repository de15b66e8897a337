----------------------------- MODULE LedgerSlice -----------------------------
(***************************************************************************)
(* What one server's field of drift:ledger:servers says of it: the         *)
(* coercers of lib/ledger.ts and lib/changeKinds.ts, parseServerSlice of   *)
(* lib/ledgerSplit.ts and aggregateServerDrift of lib/serverDrift.ts.      *)
(*                                                                         *)
(* The drain (outside this repository) lists either every drifting tool as *)
(* an event (/2) or, of a change its publisher made on many servers at     *)
(* once, only this server's membership (/3).  `facts` are the changes      *)
(* themselves; the field may be damaged in one place before it is read.    *)
(* Fingerprints are members of small sets, times are hours, and the        *)
(* ceilings of a whole blob, which one server's slice never reaches, are   *)
(* left out.                                                               *)
(***************************************************************************)
EXTENDS Naturals, FiniteSetsExt

CONSTANTS
  Tool, Wide,             \* the server's tools; publisher-wide changes of tools
  Change, ContextChange,  \* SURFACE_CHANGE_KINDS, CONTEXT_SURFACE_CHANGE_KINDS
  WideChange, WideHour,   \* of each publisher-wide change, what it was and when
  Safety, Replacing,      \* the kinds on the must-review list; those of a replacement
  Evidence,               \* bound: the version evidence a tool may have
  Mine, NotMine,          \* servers
  Junk, Absent            \* a malformed value, a missing one

ASSUME SliceConstants ==
  /\ WideChange \in [Wide -> Change] /\ WideHour \in [Wide -> Nat \ {0}]
  /\ Evidence \subseteq {"same", "changed", "undeclared", "not-recorded"}
  /\ Safety \cup Replacing \subseteq Change \cup ContextChange
  /\ IsFiniteSet(Tool) /\ IsFiniteSet(Wide) /\ ContextChange # {} /\ NotMine # Mine
  /\ Absent \notin {"same", "changed", "undeclared", "not-recorded", "toolset-replaced", Mine}
  /\ Absent \notin Nat

VARIABLES
  facts,     \* what changed: see Facts
  field,     \* the value read, per form of the ledger
  form       \* "2" or "3"
sliceVars == <<facts, field, form>>

Delta == {"same", "changed", "undeclared", "not-recorded"}
OwnHour == 1          \* when the server's own changes were last seen
NoHour == 0           \* last_seen blanked

\* Per tool its own changes, the publisher-wide ones it was part of, the one it is counted
\* in (`page`) and its version evidence; and whether the context surface changed.
Facts ==
  {f \in [own : [Tool -> {S \in SUBSET Change : Cardinality(S) <= 1}],
          wide : [Tool -> SUBSET Wide], page : [Tool -> Wide \cup {Absent}],
          version : [Tool -> Evidence] \cup {[t \in Tool |-> Absent]},
          context : SUBSET {"own", "wide"}] :
     \A t \in Tool : IF f.wide[t] = {} THEN f.page[t] = Absent ELSE f.page[t] \in f.wide[t]}
-----------------------------------------------------------------------------
(* The drain, external: what it publishes of these facts.                  *)

Kinds(f, t) == f.own[t] \cup {WideChange[w] : w \in f.wide[t]}
HourOf(f, t) == Max({WideHour[w] : w \in f.wide[t]} \cup
                    (IF f.own[t] = {} THEN {} ELSE {OwnHour}))

Event(t, kinds, hour, version) ==
  [tool_fp |-> t, server_fp |-> Mine, safety_relevant |-> kinds \cap Safety # {},
   last_seen |-> hour, change_kinds |-> kinds,
   removal_scope |-> IF kinds \cap Replacing # {} THEN "toolset-replaced" ELSE Absent,
   version_delta |-> version]

ContextEvent(hour) ==
  [server_fp |-> Mine, safety_relevant |-> ContextChange \cap Safety # {},
   last_seen |-> hour, change_kinds |-> ContextChange]

Counted(f, w) == {t \in Tool : w \in f.wide[t] /\ f.own[t] = {} /\ f.page[t] = w}

VersionCount(f, w, delta) ==
  IF \E t \in Tool : f.version[t] = Absent THEN Absent
  ELSE Cardinality({t \in Counted(f, w) : f.version[t] = delta})

Fleet(plane, day, kinds, hour, pages, same, changed, undeclared) ==
  [plane |-> plane, publisher_fp |-> "p", day |-> day, change_kinds |-> kinds,
   servers |-> 10, tools |-> 10, members |-> 1,
   server_fp |-> Mine, page_tools |-> pages, last_seen |-> hour,
   safety_relevant |-> kinds \cap Safety # {},
   toolset_replaced |-> kinds \cap Replacing # {},
   version_same |-> same, version_changed |-> changed, version_undeclared |-> undeclared]

Published2(f) ==
  [events |-> {Event(t, Kinds(f, t), HourOf(f, t), f.version[t]) :
                 t \in {x \in Tool : Kinds(f, x) # {}}},
   context_events |-> IF f.context = {} THEN {} ELSE {ContextEvent(OwnHour)},
   fleet_events |-> {}]

Published3(f) ==
  [events |-> {Event(t, f.own[t], OwnHour, f.version[t]) :
                 t \in {x \in Tool : f.own[x] # {}}},
   context_events |-> IF "own" \in f.context THEN {ContextEvent(OwnHour)} ELSE {},
   fleet_events |->
     {Fleet("tool", w, {WideChange[w]}, WideHour[w], Cardinality(Counted(f, w)),
            VersionCount(f, w, "same"), VersionCount(f, w, "changed"),
            VersionCount(f, w, "undeclared")) :
        w \in UNION {f.wide[t] : t \in Tool}}
     \cup (IF "wide" \in f.context
           THEN {Fleet("context", "day", ContextChange, OwnHour, 0, Absent, Absent, Absent)}
           ELSE {})]

Published(f, v) == IF v = "2" THEN Published2(f) ELSE Published3(f)

\* A value that is malformed is none the drain publishes.
ASSUME JunkIsNoValue ==
  \A f \in Facts, v \in {"2", "3"} : \A list \in DOMAIN Published(f, v) :
    /\ Published(f, v)[list] # Junk
    /\ \A r \in Published(f, v)[list] : \A x \in DOMAIN r : r[x] # Junk
-----------------------------------------------------------------------------
(* Reading it.                                                             *)

coerceChangeKinds(kinds) ==
  IF kinds = Junk THEN {} ELSE kinds \cap (Change \cup ContextChange)

OneOf(x, allowed) == IF x \in allowed THEN x ELSE Absent
Hour(x) == IF x = Junk THEN NoHour ELSE x

\* A malformed display value is blanked; a row whose fingerprint is malformed is dropped.
coerceEvent(e) ==
  [e EXCEPT !.server_fp = OneOf(@, {Mine, NotMine}), !.last_seen = Hour(@),
            !.safety_relevant = @ = TRUE,
            !.change_kinds = coerceChangeKinds(@) \cap Change,
            !.removal_scope = OneOf(@, {"single", "toolset-replaced"}),
            !.version_delta = OneOf(@, Delta)]

coerceContextEvent(e) ==
  [e EXCEPT !.safety_relevant = @ = TRUE, !.last_seen = Hour(@),
            !.change_kinds = coerceChangeKinds(@) \cap ContextChange]

Events(rows) == {coerceEvent(e) : e \in {x \in rows : x.tool_fp # Junk}}
ContextEvents(rows) ==
  {e \in {coerceContextEvent(x) : x \in {y \in rows : y.server_fp # Junk}} :
     e.change_kinds # {}}

\* A publisher-wide change is read fail-closed: one malformed part refuses the blob.  The
\* version counts may be missing and are never more than the tools they are of.
Versions(w) ==
  [v \in {x \in DOMAIN w : x \in {"version_same", "version_changed", "version_undeclared"}}
     |-> IF w[v] = Absent THEN 0 ELSE w[v]]

coerceFleetEvent(w) ==
  [w EXCEPT !.safety_relevant = @ = TRUE, !.toolset_replaced = @ = TRUE,
            !.last_seen = Hour(@),
            !.change_kinds = coerceChangeKinds(@) \cap
                               (IF w.plane = "tool" THEN Change ELSE ContextChange)]

Strict == {"plane", "publisher_fp", "day", "servers", "tools", "members", "server_fp",
           "page_tools", "version_same", "version_changed", "version_undeclared"}

Whole(w) ==
  /\ \A x \in Strict : w[x] # Junk
  /\ SumFunction(Versions(w)) <= w.page_tools
  /\ w.members <= w.servers

Slice(v) ==
  [events |-> Events(v.events), context_events |-> ContextEvents(v.context_events),
   fleet_events |-> {coerceFleetEvent(w) : w \in v.fleet_events}]

\* Mutant: a row that was dropped is not missed.
LossUnnoticed(v) ==
  IF \/ \E list \in {"events", "context_events", "fleet_events"} : v[list] = Junk
     \/ \E w \in v.fleet_events : ~Whole(w)
  THEN {}
  ELSE {s \in {Slice(v)} :
          \A rows \in {s.events, s.context_events, s.fleet_events} :
            \A r \in rows : r.server_fp = Mine}

\* The slice, if the field is whole: no row lost on the way, each of this server.
parseServerSlice(v) ==
  IF \/ \E list \in {"events", "context_events", "fleet_events"} : v[list] = Junk
     \/ \E w \in v.fleet_events : ~Whole(w)
  THEN {}
  ELSE {s \in {Slice(v)} :
          /\ Cardinality(s.events) = Cardinality(v.events)
          /\ Cardinality(s.context_events) = Cardinality(v.context_events)
          /\ \A rows \in {s.events, s.context_events, s.fleet_events} :
               \A r \in rows : r.server_fp = Mine}

Summed(rows, part) == SumFunction([r \in rows |-> IF r[part] = Absent THEN 0 ELSE r[part]])
Latest(rows) == Max({r.last_seen : r \in rows} \cup {NoHour})
KindsOf(rows) == UNION {r.change_kinds : r \in rows}
Flagged(rows) == \E r \in rows : r.safety_relevant

\* What is said of the server: nothing when the field lists it in a publisher-wide change
\* of tools and gives it none.
aggregateServerDrift(s) ==
  LET share == {w \in s.fleet_events : w.plane = "tool"}
      ctxShare == s.fleet_events \ share
      changes == Cardinality(s.events) + Summed(share, "page_tools")
      versions(delta, part) ==
        Cardinality({e \in s.events : e.version_delta = delta}) + Summed(share, part)
  IN  IF share # {} /\ changes = 0 THEN {}
      ELSE {[changes |-> changes,
             lastSeen |-> Latest(s.events \cup share),
             kinds |-> KindsOf(s.events \cup share),
             safetyRelevant |-> Flagged(s.events \cup share),
             toolsetReplaced |-> \/ \E e \in s.events : e.removal_scope = "toolset-replaced"
                                 \/ \E w \in share : w.toolset_replaced,
             versionSame |-> versions("same", "version_same"),
             versionChanged |-> versions("changed", "version_changed"),
             versionUndeclared |-> versions("undeclared", "version_undeclared"),
             contextChanges |-> IF s.context_events # {} THEN Cardinality(s.context_events)
                                ELSE IF ctxShare # {} THEN 1 ELSE 0,
             contextKinds |-> KindsOf(s.context_events \cup ctxShare),
             contextLastSeen |-> Latest(s.context_events \cup ctxShare),
             contextSafetyRelevant |-> Flagged(s.context_events \cup ctxShare)]}

\* The answers a field allows: at most one.
Answers(v) == UNION {aggregateServerDrift(s) : s \in parseServerSlice(v)}
-----------------------------------------------------------------------------
Damaged(rows) ==
  (UNION {{(rows \ {r}) \cup {[r EXCEPT ![x] = Junk]} : x \in DOMAIN r} : r \in rows})
  \cup {(rows \ {r}) \cup {[r EXCEPT !.server_fp = NotMine]} : r \in rows}

NoFacts == [own |-> [t \in Tool |-> {}], wide |-> [t \in Tool |-> {}],
            page |-> [t \in Tool |-> Absent],
            version |-> [t \in Tool |-> Absent], context |-> {}]

SliceInit == facts = NoFacts /\ form = "2" /\ field = Published(facts, form)

\* The drain publishes what changed.
Publish ==
  /\ facts = NoFacts
  /\ facts' \in Facts /\ form' \in {"2", "3"}
  /\ field' = Published(facts', form')

\* One value of one row is malformed, a list is missing, a row is another server's.
Damage ==
  /\ field = Published(facts, form)
  /\ \E list \in {"events", "context_events", "fleet_events"} :
       \E rows \in Damaged(field[list]) \cup {Junk} : field' = [field EXCEPT ![list] = rows]
  /\ UNCHANGED <<facts, form>>

SliceNext == Publish \/ Damage

SliceSpec == SliceInit /\ [][SliceNext]_sliceVars
-----------------------------------------------------------------------------
SliceTypeOK ==
  /\ facts \in Facts /\ form \in {"2", "3"}
  /\ DOMAIN field = {"events", "context_events", "fleet_events"}

\* A member of a publisher-wide change gets the answer it had when every tool was an event:
\* nothing is counted twice, and nothing is left out.
SameUnderBothForms ==
  Answers(Published(facts, "2")) = Answers(Published(facts, "3"))
    /\ Cardinality(Answers(Published(facts, "3"))) = 1

\* A damaged field is refused or keeps its counts: it never reads as cleaner than it was,
\* but for a kind, a time or a flag that was itself the damaged value.
DamageIsNotClean ==
  \A said \in Answers(field), true \in Answers(Published(facts, form)) :
    /\ said.changes = true.changes /\ said.contextChanges = true.contextChanges
    /\ said.kinds \subseteq true.kinds /\ said.contextKinds \subseteq true.contextKinds
    /\ said.lastSeen <= true.lastSeen
    /\ said.kinds # true.kinds => said.safetyRelevant = true.safetyRelevant

\* One server's answer is the same under both forms of the ledger, and a field that cannot
\* be read whole is unavailable, never clean.
\* (serverDrift.ts:71-168, ledgerSplit.ts:134-160, ledger.ts:167-336)
SliceIsAnswered == SameUnderBothForms /\ DamageIsNotClean
=============================================================================
