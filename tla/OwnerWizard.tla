----------------------------- MODULE OwnerWizard -----------------------------
(***************************************************************************)
(* components/OwnerVerifyWizard.tsx: the page on which a server's owner    *)
(* gets a key, picks the server, proves control of its origin, attests     *)
(* tools, has their behaviour checked and asks to publish.  Every step     *)
(* calls the owner service through app/api/owner/[action]/route.ts.  A     *)
(* call carries the key and the server of the render that started it, and  *)
(* its answer is applied to whatever the page shows by then.               *)
(*                                                                         *)
(* How a server id is entered, messages and the fields of an answer are    *)
(* left out; a result is named by the server it is about.                  *)
(***************************************************************************)
EXTENDS FiniteSets, Integers

CONSTANTS
  Key,           \* API keys
  Server,        \* registry ids of claimable servers
  Tool,          \* tools a server may list
  ProbeSafe,     \* those the service flags probe_safe
  Linked,        \* servers a deep link to the page may name
  Call,          \* calls that may be under way at a time; a bound
  NoKey, NoServer

ASSUME WizardConstants ==
  /\ NoKey \notin Key /\ NoServer \notin Server
  /\ ProbeSafe \subseteq Tool /\ Linked \subseteq Server

VARIABLES
  page,          \* the component's state
  stored,        \* the key in sessionStorage
  prefill,       \* the server of /claim?server=, while its lookup is under way
  calls,         \* the calls under way
  service,       \* what the owner service has recorded of each key and server
  confirmed,     \* history: the tools ticked when a person last acknowledged them
  relisted,      \* history: a list landed since a person last touched step 3's boxes
  crossed,       \* history: an answer met a page it was not asked for
  abandoned      \* history: the fetch of a tool list threw

vars ==
  <<page, stored, prefill, calls, service, confirmed, relisted, crossed, abandoned>>
-----------------------------------------------------------------------------
Op == {"challenge", "verify", "tools", "attest", "behavior", "publish"}

Page == [step: 0..6, busy: BOOLEAN, awaiting: BOOLEAN,
         key: Key \cup {NoKey}, server: Server \cup {NoServer},
         challenge: Server \cup {NoServer},
         loaded: BOOLEAN, tools: Server \cup {NoServer},
         listed: SUBSET Tool, checked: SUBSET Tool, ack: BOOLEAN,
         behavior: Server \cup {NoServer},
         consent: BOOLEAN, published: Server \cup {NoServer}]

\* A fresh mount, with the key restored from the session.
Fresh(key) ==
  [step |-> 0, busy |-> FALSE, awaiting |-> FALSE, key |-> key, server |-> NoServer,
   challenge |-> NoServer, loaded |-> FALSE, tools |-> NoServer, listed |-> {},
   checked |-> {}, ack |-> FALSE, behavior |-> NoServer, consent |-> FALSE,
   published |-> NoServer]

Idle == [op |-> "none", key |-> NoKey, server |-> NoServer, tools |-> {}]

Selected == page.listed \cap page.checked

\* The proxy forwards a call that has a key and a server; the service serves it,
\* all but the first two once the ownership is verified.
Permits(c) ==
  /\ c.key # NoKey /\ c.server # NoServer
  /\ c.op \in {"challenge", "verify"} \/ <<"verify", c.key, c.server>> \in service

Records(c) ==
  IF c.op \in {"verify", "attest"} /\ Permits(c) THEN {<<c.op, c.key, c.server>>}
                                                 ELSE {}
-----------------------------------------------------------------------------
(* The key.                                                                *)

SignIn ==
  /\ page.step = 0 /\ page.key = NoKey /\ ~page.awaiting
  /\ page' = [page EXCEPT !.awaiting = TRUE]
  /\ UNCHANGED <<stored, prefill, calls, service, confirmed, relisted, crossed, abandoned>>

\* The popup's message: it replaces whatever key the page holds.
KeyDelivered ==
  /\ page.awaiting
  /\ \E k \in Key : /\ page' = [page EXCEPT !.key = k, !.awaiting = FALSE]
                    /\ stored' = k
                    /\ crossed' = (crossed \/ page.key \notin {NoKey, k})
  /\ UNCHANGED <<prefill, calls, service, confirmed, relisted, abandoned>>

\* The closed-poll or the 300 s timer: the page stops listening.
SignInGivenUp ==
  /\ page.awaiting
  /\ page' = [page EXCEPT !.awaiting = FALSE]
  /\ UNCHANGED <<stored, prefill, calls, service, confirmed, relisted, crossed, abandoned>>

PasteKey ==
  /\ page.step = 0 /\ page.key = NoKey
  /\ \E k \in Key : page' = [page EXCEPT !.key = k] /\ stored' = k
  /\ UNCHANGED <<prefill, calls, service, confirmed, relisted, crossed, abandoned>>

\* Mutant: the tool list survives.
ClearedButTools ==
  [Fresh(NoKey) EXCEPT !.busy = page.busy, !.awaiting = page.awaiting,
                       !.loaded = page.loaded, !.tools = page.tools]

\* clearKey: everything but busy and awaitingKey.
Cleared == [Fresh(NoKey) EXCEPT !.busy = page.busy, !.awaiting = page.awaiting]

ClearKey ==
  /\ page.key # NoKey
  /\ page' = Cleared /\ stored' = NoKey /\ confirmed' = {} /\ relisted' = FALSE
  /\ UNCHANGED <<prefill, calls, service, crossed, abandoned>>

\* A reload loses the page and the answers to come, not what the service does.
Reload ==
  /\ page' = Fresh(stored)
  /\ confirmed' = {} /\ relisted' = FALSE
  /\ calls' = [i \in Call |-> Idle]
  /\ \E S \in SUBSET Call : service' = service \cup UNION {Records(calls[i]) : i \in S}
  /\ prefill' \in Linked \cup {NoServer}
  /\ UNCHANGED <<stored, crossed, abandoned>>
-----------------------------------------------------------------------------
(* Moving about and filling in.                                            *)

\* pickServer, changeServer, or typing an id.
ChooseServer ==
  /\ page.step = 1
  /\ \E s \in Server \cup {NoServer} : page' = [page EXCEPT !.server = s]
  /\ UNCHANGED <<stored, prefill, calls, service, confirmed, relisted, crossed, abandoned>>

\* The deep link's lookup answers, at whatever step the page has reached.
PrefillLands ==
  /\ prefill # NoServer
  /\ page' = [page EXCEPT !.server = prefill]
  /\ crossed' = (crossed \/ (page.step > 1 /\ page.server # prefill))
  /\ prefill' = NoServer
  /\ UNCHANGED <<stored, calls, service, confirmed, relisted, abandoned>>

\* Where the back button leads, if there is one.
Back == CASE page.step \in {1, 2, 4} -> page.step - 1
          [] page.step = 6 /\ page.published = NoServer -> 5
          [] OTHER -> page.step

\* Mutant: the acknowledgement is not asked for.
OnwardUnacknowledged ==
  CASE page.step = 0 /\ page.key # NoKey -> 1
    [] page.step = 3 /\ Selected # {} -> 4
    [] page.step = 5 /\ page.behavior # NoServer -> 6
    [] OTHER -> page.step

\* Where the Continue button leads, if there is one.
Onward == CASE page.step = 0 /\ page.key # NoKey -> 1
            [] page.step = 3 /\ page.ack /\ Selected # {} -> 4
            [] page.step = 5 /\ page.behavior # NoServer -> 6
            [] OTHER -> page.step

Move ==
  /\ \E n \in {Back, Onward} :
       /\ n # page.step
       /\ page' = [page EXCEPT !.step = n]
  /\ UNCHANGED <<stored, prefill, calls, service, confirmed, relisted, crossed, abandoned>>

\* The boxes of step 3.  "I confirm the checked tools are read-only": a person says so of
\* the tools ticked then, and again with each tick while the box stands.
TickTools ==
  /\ page.step = 3 /\ page.listed # {}
  /\ \/ \E t \in page.listed :
          page' = [page EXCEPT !.checked = IF t \in @ THEN @ \ {t} ELSE @ \cup {t}]
     \/ page' = [page EXCEPT !.ack = ~@]
  /\ confirmed' = IF page'.ack THEN Selected' ELSE {}
  /\ relisted' = FALSE
  /\ UNCHANGED <<stored, prefill, calls, service, crossed, abandoned>>

\* The box of step 6, and "re-run" of step 5.
Tick ==
  /\ \/ /\ page.step = 6 /\ page.published = NoServer
        /\ page' = [page EXCEPT !.consent = ~@]
     \/ /\ page.step = 5 /\ page.behavior # NoServer
        /\ page' = [page EXCEPT !.behavior = NoServer]
  /\ UNCHANGED <<stored, prefill, calls, service, confirmed, relisted, crossed, abandoned>>
-----------------------------------------------------------------------------
(* Calls of the owner service.                                             *)

\* The steps a call is made from.
Home(op) == CASE op = "challenge" -> {1, 2}
              [] op = "verify"    -> {2}
              [] op = "tools"     -> {3}
              [] op = "attest"    -> {4}
              [] op = "behavior"  -> {5}
              [] op = "publish"   -> {6}

\* The button that makes a call is on the page and enabled; "retry" always is.
Offers(op) ==
  /\ page.step \in Home(op)
  /\ CASE op = "challenge" -> IF page.step = 1 THEN page.server # NoServer
                                               ELSE page.challenge # NoServer
       [] op = "verify"    -> page.challenge # NoServer
       [] op = "tools"     -> page.loaded /\ page.listed = {}
       [] op = "attest"    -> Selected # {}
       [] op = "behavior"  -> page.behavior = NoServer
       [] op = "publish"   -> page.published = NoServer /\ page.consent
  /\ op # "tools" => ~page.busy

\* A bound: once an answer has crossed, calls no longer overlap.
Ask(i, op) ==
  /\ calls[i] = Idle /\ Offers(op)
  /\ crossed => \A j \in Call : calls[j] = Idle
  /\ calls' = [calls EXCEPT ![i] =
       [op |-> op, key |-> page.key, server |-> page.server,
        tools |-> IF op = "attest" THEN Selected ELSE {}]]
  /\ page' = [page EXCEPT !.busy = TRUE]
  /\ UNCHANGED <<stored, prefill, service, confirmed, relisted, crossed, abandoned>>

\* Has the page moved on since c was made?
Misses(c) ==
  c.key # page.key \/ c.server # page.server \/ page.step \notin Home(c.op)

\* Mutant: ownership is taken as proved whatever the answer says.
LandedAnyVerify(c, o, list) ==
  CASE c.op = "verify" -> [page EXCEPT !.step = 3]
    [] c.op = "challenge" /\ o = "ok" -> [page EXCEPT !.challenge = c.server, !.step = 2]
    [] OTHER -> page

\* What an answer makes of the page, before the finally: ok, or refused (an error
\* status, or control not proved).
Landed(c, o, list) ==
  CASE o = "ok" ->
         (CASE c.op = "challenge" -> [page EXCEPT !.challenge = c.server, !.step = 2]
            [] c.op = "verify"    -> [page EXCEPT !.step = 3]
            [] c.op = "tools"     -> [page EXCEPT !.loaded = TRUE, !.tools = c.server,
                              !.listed = list, !.checked = list \cap ProbeSafe]
            [] c.op = "attest"    -> [page EXCEPT !.step = 5]
            [] c.op = "behavior"  -> [page EXCEPT !.behavior = c.server, !.step = 6]
            [] c.op = "publish"   -> [page EXCEPT !.published = c.server])
    [] o = "refused" /\ c.op = "tools" ->
         [page EXCEPT !.loaded = TRUE, !.tools = c.server, !.listed = {}]
    [] OTHER -> page

\* Once verified, the same closure asks for the tools.
Follow(c, o) == IF c.op = "verify" /\ o = "ok" THEN [c EXCEPT !.op = "tools"] ELSE Idle

\* Mutant: a call that throws leaves the page busy.
BusyAfterThrow(o) == o = "lost" /\ page.busy

\* The finally.
BusyAfter(o) == FALSE

\* The answer comes, or the fetch throws (lost), the service having served or not.
Answer(i) ==
  LET c == calls[i] IN
  /\ c # Idle
  /\ \E o \in {"ok", "refused", "lost"}, list \in SUBSET Tool :
       /\ o = "ok" => Permits(c)
       /\ list # {} => o = "ok" /\ c.op = "tools"
       /\ page' = [Landed(c, o, list) EXCEPT !.busy = BusyAfter(o)]
       /\ calls' = [calls EXCEPT ![i] = Follow(c, o)]
       /\ service' \in CASE o = "ok"      -> {service \cup Records(c)}
                         [] o = "refused" -> {service}
                         [] o = "lost"    -> {service, service \cup Records(c)}
       /\ crossed' = (crossed \/ (Misses(c) /\ Landed(c, o, list) # page))
       /\ abandoned' = (abandoned \/ (o = "lost" /\ c.op = "tools"))
       /\ relisted' = (relisted \/ (o = "ok" /\ c.op = "tools"))
  /\ UNCHANGED <<stored, prefill, confirmed>>
-----------------------------------------------------------------------------
Init ==
  /\ stored \in Key \cup {NoKey} /\ page = Fresh(stored)
  /\ prefill \in Linked \cup {NoServer}
  /\ calls = [i \in Call |-> Idle]
  /\ service = {} /\ confirmed = {} /\ relisted = FALSE
  /\ crossed = FALSE /\ abandoned = FALSE

Next ==
  \/ SignIn \/ KeyDelivered \/ SignInGivenUp \/ PasteKey \/ ClearKey \/ Reload
  \/ ChooseServer \/ PrefillLands \/ Move \/ TickTools \/ Tick
  \/ \E i \in Call : Answer(i) \/ \E op \in Op : Ask(i, op)

Spec == Init /\ [][Next]_vars
-----------------------------------------------------------------------------
TypeOK ==
  /\ page \in Page
  /\ stored \in Key \cup {NoKey}
  /\ prefill \in Linked \cup {NoServer}
  /\ \A i \in Call : calls[i] = Idle \/
       calls[i] \in [op: Op, key: Key \cup {NoKey}, server: Server \cup {NoServer},
                     tools: SUBSET Tool]
  /\ service \subseteq {"verify", "attest"} \X Key \X Server
  /\ confirmed \subseteq Tool
  /\ {relisted, crossed, abandoned} \subseteq BOOLEAN

\* What the current step shows is about the server that was picked, unless an
\* answer, a delivered key or a prefill met a page that had moved on.
ShownIsForTheServer ==
  ~crossed =>
    /\ page.step = 2 => page.challenge = page.server
    /\ page.step \in {3, 4} => page.tools \in {NoServer, page.server}
    /\ page.step = 5 => page.behavior \in {NoServer, page.server}
    /\ page.step = 6 => page.behavior = page.server
                        /\ page.published \in {NoServer, page.server}

\* No step is reached that the service has not granted to this key and server, and
\* a page without a key is at the start, where it can get one; with the same escape.
StepsAreEarned ==
  ~crossed =>
    /\ page.step > 0 => page.key # NoKey
    /\ page.step >= 3 => <<"verify", page.key, page.server>> \in service
    /\ page.step >= 5 => <<"attest", page.key, page.server>> \in service

\* An attestation "records that a HUMAN confirmed the tool is read-only-safe": it names
\* only tools that stood ticked when a person last had the acknowledgement ticked, unless
\* a list has landed since that ticked tools anew (setChecked of loadTools).
AttestsWhatWasConfirmed ==
  [][\A i \in Call : calls[i] = Idle /\ calls'[i].op = "attest" /\ ~relisted
                        => calls'[i].tools \subseteq confirmed]_vars

\* The same as the comment says it, of every attestation.
AttestsOnlyConfirmed ==
  [][\A i \in Call : calls[i] = Idle /\ calls'[i].op = "attest"
                        => calls'[i].tools \subseteq confirmed]_vars

\* Buttons are not disabled for good: a busy page has a call under way, whose end
\* frees it, and a tools step that says "loading" has a list on its way, unless the
\* fetch of one threw (nothing then offers a retry).
DisabledMeansPending ==
  /\ page.busy => \E i \in Call : calls[i] # Idle
  /\ (page.step = 3 /\ ~page.loaded /\ ~abandoned)
       => \E i \in Call : calls[i].op = "tools"

\* clearKey's comment: a prior server's behavioral observation or publish status
\* must not carry into the next run.
StaleResultsDoNotCarry ==
  page.server # NoServer =>
    page.behavior \in {NoServer, page.server} /\ page.published \in {NoServer, page.server}
=============================================================================
