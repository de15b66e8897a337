----------------------------- MODULE ToolGrade ------------------------------
(***************************************************************************)
(* The blast radius of a tool as the scan page and the gate grade it       *)
(* (lib/scan/vendor: lexicon.ts, risk.ts, actionClass.ts): from the words  *)
(* of its name and description, the parameters of its schema and its own   *)
(* annotations.  A server re-declares its tools when it likes: the state   *)
(* is a tool, and a step declares one more thing of it.                    *)
(*                                                                         *)
(* A plain word stands for those that the lists treat alike, -s and -es    *)
(* forms included.  A word as it is written is a set of plain words: of    *)
(* one, or of several run together in camelCase (getAndReset).  One that   *)
(* as a whole is in a list (checkOut) counts as that plain word.           *)
(***************************************************************************)
EXTENDS Naturals, FiniteSets

CONSTANTS
  Words,                \* bound: the written words a tool is named and described with
  MaxName, MaxDescribed \* bounds: on the words of a name, and of a description

VARIABLE tool    \* [name, described, params, hints]
gradeVars == tool
-----------------------------------------------------------------------------
(* The lists.                                                              *)

\* VERB_TO_TYPE; `list` is a read.  A plain word for each combination the lists make.
VerbType(w) ==
  CASE w \in {"delete", "drop", "wipe"} -> {"delete"}
    [] w \in {"execute", "run", "eval"} -> {"execute"}
    [] w \in {"deploy", "kill", "terminate", "reboot"} -> {"admin"}
    [] w = "grant" -> {"auth"}
    [] w \in {"send", "post", "publish", "dispatch", "email"} -> {"send"}
    [] w \in {"write", "put"} -> {"write"}
    [] w \in {"set", "patch"} -> {"update"}
    [] w \in {"search", "find"} -> {"search"}
    [] w = "get" -> {"read"}
    [] OTHER -> {}

MutatingVerbs ==
  {"delete", "drop", "execute", "run", "deploy", "kill", "grant", "send", "post", "write", "put",
   "set", "patch", "pay", "cancel"}
SideEffectIntent ==
  {"delete", "wipe", "execute", "deploy", "deploys", "terminate", "grant", "send", "sends",
   "publish", "dispatch", "write", "set", "pay", "payment", "cancel", "reset"}
DomainTokens(domain) ==
  CASE domain = "payments" -> {"pay", "payment"}
    [] domain = "infra" -> {"deploy", "deploys", "terminate", "reboot", "server"}
    [] domain = "comms" -> {"send", "sends", "post", "publish", "email", "webhook"}
    [] domain = "data" -> {"get", "search", "table"}
CredentialTokens == {"token"}

ASSUME ToolConstants ==
  /\ {} \notin Words
  /\ UNION Words \subseteq MutatingVerbs \cup SideEffectIntent \cup CredentialTokens \cup
       {"eval", "reboot", "email", "find", "search", "get", "table", "server", "webhook", "other"}
  /\ MaxName \in Nat /\ MaxDescribed \in Nat

\* UNKNOWN, delete, execute, ...: the first of what matched is the effective type.
DestructOrder == <<"delete", "execute", "admin", "auth", "send", "write", "update", "search", "read">>
ReadTypes == {"read", "search"}
-----------------------------------------------------------------------------
(* How a text is cut into words.                                           *)

\* For the verbs, the domain and the credentials camelCase is taken apart.
nameTokens(ws) == UNION ws

\* For an intent it is not: the whole text is put in lower case first.
hasSideEffectIntent(ws) == \E w \in SideEffectIntent : {w} \in ws
-----------------------------------------------------------------------------
(* risk.assess                                                             *)

Mentioned(t) == nameTokens(t.name \cup t.described)

domainClass(t) ==
  LET met == {d \in {"payments", "infra", "comms", "data"} : Mentioned(t) \cap DomainTokens(d) # {}}
  IN  CASE "payments" \in met -> "payments"
        [] "payments" \notin met /\ "infra" \in met -> "infra"
        [] met \cap {"payments", "infra"} = {} /\ "comms" \in met -> "comms"
        [] met = {"data"} -> "data"
        [] met = {} -> "unknown"

nameWriteish(t) == nameTokens(t.name) \cap MutatingVerbs # {} \/ hasSideEffectIntent(t.name)
sideEffectIntent(t) == hasSideEffectIntent(t.name \cup t.described)
requiresCredential(t) == Mentioned(t) \cap CredentialTokens # {} \/ "credential" \in t.params

\* Mutant: a schema too large to walk counts as one without a write parameter.
PayloadSeen(t) == "payload" \in t.params

\* A schema too large or too deep to walk counts as one with a write parameter.
hasWritePayloadParam(t) == t.params \cap {"payload", "huge"} # {}

blastRadius(t) ==
  IF domainClass(t) = "payments" \/ (nameWriteish(t) /\ requiresCredential(t)) THEN 2
  ELSE IF \/ nameWriteish(t) \/ hasWritePayloadParam(t) \/ sideEffectIntent(t)
          \/ domainClass(t) \in {"infra", "comms", "unknown"}
       THEN 1 ELSE 0

looksReadOnly(t) ==
  domainClass(t) = "data" /\ ~nameWriteish(t) /\ ~hasWritePayloadParam(t) /\ ~sideEffectIntent(t)
-----------------------------------------------------------------------------
(* actionClass.classify                                                    *)

\* Mutant: a tool that says it only reads is taken at its word.
HintBelieved(t) ==
  IF "readOnly" \in t.hints THEN {"read"} ELSE UNION {VerbType(w) : w \in nameTokens(t.name)}

\* deriveActionTypes: the verbs of the name, and delete for a tool that says it destroys.
actionTypes(t) ==
  (UNION {VerbType(w) : w \in nameTokens(t.name)}) \cup
  (IF "destructive" \in t.hints THEN {"delete"} ELSE {})

effectiveType(t) ==
  IF actionTypes(t) = {} THEN "unknown"
  ELSE DestructOrder[CHOOSE i \in DOMAIN DestructOrder :
         /\ DestructOrder[i] \in actionTypes(t)
         /\ \A j \in 1..(i - 1) : DestructOrder[j] \notin actionTypes(t)]

sideEffectClass(eff, t) ==
  IF eff \in ReadTypes /\ looksReadOnly(t) THEN "none"
  ELSE IF eff \in {"delete", "execute", "admin"} \/ domainClass(t) = "payments" THEN "destructive"
  ELSE IF eff = "send" \/ domainClass(t) = "comms" THEN "outbound" ELSE "local-write"

reversibility(eff, sec) ==
  IF eff \in {"delete", "execute", "admin", "auth"} \/ sec = "destructive" THEN "irreversible"
  ELSE IF sec = "outbound" \/ eff \in {"write", "update"} THEN "hard-to-reverse"
  ELSE "reversible"

egressOf(sec) == IF sec = "outbound" THEN "external" ELSE IF sec = "none" THEN "none" ELSE "internal"

\* discovery 0, reversible 1, needs-approval 2, never-unattended 3.
staticCeiling(eff, sec, rev, blast) ==
  IF eff \in {"unknown", "execute"} \/ (rev = "irreversible" /\ blast = 2) THEN 3
  ELSE IF rev = "irreversible" \/ sec = "outbound" THEN 2
  ELSE IF sec = "local-write" \/ rev = "hard-to-reverse" THEN 1 ELSE 0

classify(t) ==
  LET eff == effectiveType(t)
      sec == sideEffectClass(eff, t)
  IN  [effective |-> eff, domain |-> domainClass(t), egress |-> egressOf(sec),
       ceiling |-> staticCeiling(eff, sec, reversibility(eff, sec), blastRadius(t))]
-----------------------------------------------------------------------------
ToolInit == tool = [name |-> {}, described |-> {}, params |-> {}, hints |-> {}]

\* What a server may declare on top of what a tool says already.
More(t) ==
  {[t EXCEPT !.name = @ \cup {w}] : w \in Words \ t.name} \cup
  {[t EXCEPT !.described = @ \cup {w}] : w \in Words \ t.described} \cup
  {[t EXCEPT !.params = @ \cup {p}] : p \in {"payload", "credential", "huge"} \ t.params} \cup
  {[t EXCEPT !.hints = @ \cup {h}] : h \in {"readOnly", "destructive"} \ t.hints}

ToolNext ==
  /\ tool' \in More(tool)
  /\ Cardinality(tool'.name) <= MaxName /\ Cardinality(tool'.described) <= MaxDescribed

ToolSpec == ToolInit /\ [][ToolNext]_gradeVars
-----------------------------------------------------------------------------
\* The four ways to a lower grade: a first verb for a tool without one, a delete on top of an
\* execute, a first word of data, and a word of infrastructure on top of a word of messaging.
Lowers(from, to) ==
  \/ from.effective = "unknown" /\ to.effective # "unknown"
  \/ from.effective = "execute" /\ to.effective = "delete"
  \/ from.domain = "unknown" /\ to.domain = "data"
  \/ from.domain = "comms" /\ to.domain = "infra"

\* No word that writes: no verb in its name, however it is written, that the lists know for
\* more than a read, and no word of intent that stands alone in its name or description; no
\* parameter to write with; and it does not say that it destroys.
WritesNothing(t) ==
  /\ \A w \in nameTokens(t.name) : w \notin MutatingVerbs /\ VerbType(w) \subseteq ReadTypes
  /\ \A w \in SideEffectIntent : {w} \notin t.name \cup t.described
  /\ t.params \subseteq {"credential"} /\ "destructive" \notin t.hints

\* What a tool says more of itself, in words, parameters or hints, never lets an agent do more
\* with it unattended, but in those four ways; what it says of itself as a read-only tool
\* changes nothing; and an agent is let loose on a tool, or told that it sends nothing off the
\* machine, only if it has nothing to write with.  ("A self-declared readOnlyHint can NEVER
\* lower a class the verb raises", actionClass.ts:170-172; risk.ts:6-9)  A word of intent that
\* is no verb of the lists is not among these when it is part of a camelCase word:
\* getAndResetStats is let loose.
GradesOnlyRise ==
  [][tool' # tool =>
       LET graded == classify(tool')
       IN  /\ graded.ceiling >= classify(tool).ceiling \/ Lowers(classify(tool), graded)
           /\ classify([tool' EXCEPT !.hints = @ \ {"readOnly"}]) = graded
           /\ graded.ceiling = 0 \/ graded.egress = "none" => WritesNothing(tool')]_gradeVars
=============================================================================
