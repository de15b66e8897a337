--------------------------- MODULE OwnerWizardProofs ---------------------------
(***************************************************************************)
(* The safety of OwnerWizard for any keys, servers, tools and number of    *)
(* calls.  As long as no answer has crossed, an answer that changes the    *)
(* page finds it at the step, key and server it was asked from, so what    *)
(* each step relies on can be read off the step itself (Steady).           *)
(***************************************************************************)
EXTENDS OwnerWizard, TLAPS

CallRecord == [op: Op \cup {"none"}, key: Key \cup {NoKey},
               server: Server \cup {NoServer}, tools: SUBSET Tool]

Typed ==
  /\ page \in Page
  /\ stored \in Key \cup {NoKey}
  /\ prefill \in Linked \cup {NoServer}
  /\ calls \in [Call -> CallRecord]
  /\ \A i \in Call : calls[i].op = "none" => calls[i] = Idle
  /\ service \subseteq {"verify", "attest"} \X Key \X Server
  /\ confirmed \subseteq Tool
  /\ {relisted, crossed, abandoned} \subseteq BOOLEAN

\* What a page p at its step relies on, the service having recorded s.
Steady(p, s) ==
  /\ p.step > 0 => p.key # NoKey
  /\ p.step = 2 => p.challenge = p.server
  /\ p.step >= 3 => <<"verify", p.key, p.server>> \in s
  /\ p.step >= 5 => <<"attest", p.key, p.server>> \in s
  /\ p.step <= 2 => ~p.loaded
  /\ p.loaded => p.tools = p.server
  /\ ~p.loaded => p.tools = NoServer
  /\ p.step <= 4 => p.behavior = NoServer
  /\ p.step <= 5 => p.published = NoServer
  /\ p.step = 5 => p.behavior \in {NoServer, p.server}
  /\ p.step = 6 => p.behavior = p.server /\ p.published \in {NoServer, p.server}

\* The attest step is reached with the acknowledgement ticked, which stands for the tools
\* ticked since a person last touched the boxes, whatever answers crossed.
Acknowledged ==
  /\ page.step = 4 => page.ack
  /\ ~relisted /\ page.ack => Selected \subseteq confirmed

\* A page with a list under way or in hand.
Loading ==
  /\ ~page.loaded => page.listed = {}
  /\ page.step = 4 => page.loaded
  /\ (page.step = 3 /\ ~page.loaded /\ ~abandoned) => \E i \in Call : calls[i].op = "tools"

Busy == page.busy => \E i \in Call : calls[i] # Idle

IInv ==
  /\ Typed /\ Loading /\ Busy
  /\ Acknowledged
  /\ ~crossed => Steady(page, service)
-----------------------------------------------------------------------------
(* One lemma per action.                                                   *)

\* A fresh page.
LEMMA FreshType ==
  ASSUME NEW key \in Key \cup {NoKey}
  PROVE  /\ Fresh(key) \in Page
         /\ Fresh(key).step = 0 /\ ~Fresh(key).busy /\ ~Fresh(key).loaded
         /\ Fresh(key).listed = {}
BY DEF Fresh, Page

\* The service records only calls with a key and a server.
LEMMA RecordsType ==
  ASSUME NEW c \in CallRecord
  PROVE  Records(c) \subseteq {"verify", "attest"} \X Key \X Server
BY DEF Records, Permits, CallRecord

\* The page starts to wait for a key.
LEMMA SignInStep ==
  ASSUME IInv, SignIn
  PROVE  IInv'
<1>1. Typed'
  BY WizardConstants DEF IInv, Typed, SignIn, Page
<1>2. Loading' /\ Busy'
  BY DEF IInv, Typed, Loading, Busy, SignIn, Page
<1>3. (~crossed' => Steady(page', service')) /\ Acknowledged'
  BY DEF IInv, Typed, Steady, Acknowledged, Selected, SignIn, Page
<1> QED BY <1>1, <1>2, <1>3 DEF IInv

\* A key other than the page's own has crossed.
LEMMA KeyDeliveredStep ==
  ASSUME IInv, KeyDelivered
  PROVE  IInv'
<1>1. Typed'
  BY WizardConstants DEF IInv, Typed, KeyDelivered, Page
<1>2. Loading' /\ Busy'
  BY DEF IInv, Typed, Loading, Busy, KeyDelivered, Page
<1>3. (~crossed' => Steady(page', service')) /\ Acknowledged'
  BY DEF IInv, Typed, Steady, Acknowledged, Selected, KeyDelivered, Page
<1> QED BY <1>1, <1>2, <1>3 DEF IInv

\* The page stops waiting.
LEMMA SignInGivenUpStep ==
  ASSUME IInv, SignInGivenUp
  PROVE  IInv'
<1>1. Typed'
  BY WizardConstants DEF IInv, Typed, SignInGivenUp, Page
<1>2. Loading' /\ Busy'
  BY DEF IInv, Typed, Loading, Busy, SignInGivenUp, Page
<1>3. (~crossed' => Steady(page', service')) /\ Acknowledged'
  BY DEF IInv, Typed, Steady, Acknowledged, Selected, SignInGivenUp, Page
<1> QED BY <1>1, <1>2, <1>3 DEF IInv

\* Only the first step takes a key.
LEMMA PasteKeyStep ==
  ASSUME IInv, PasteKey
  PROVE  IInv'
<1>1. Typed'
  BY WizardConstants DEF IInv, Typed, PasteKey, Page
<1>2. Loading' /\ Busy'
  BY DEF IInv, Typed, Loading, Busy, PasteKey, Page
<1>3. (~crossed' => Steady(page', service')) /\ Acknowledged'
  BY DEF IInv, Typed, Steady, Acknowledged, Selected, PasteKey, Page
<1> QED BY <1>1, <1>2, <1>3 DEF IInv

\* Clear key keeps busy, and the calls that will free it.
LEMMA ClearKeyStep ==
  ASSUME IInv, ClearKey
  PROVE  IInv'
<1>1. Typed'
  <2> DEFINE h == [Fresh(NoKey) EXCEPT !.busy = page.busy]
  <2>1. h \in Page
    BY FreshType DEF IInv, Typed, Page
  <2>2. page' = [h EXCEPT !.awaiting = page.awaiting]
    BY DEF ClearKey, Cleared, Fresh
  <2> HIDE DEF h
  <2>3. page' \in Page
    BY <2>1, <2>2 DEF IInv, Typed, Page
  <2> QED BY <2>3 DEF IInv, Typed, ClearKey
<1>2. Loading' /\ Busy'
  BY DEF IInv, Typed, Loading, Busy, ClearKey, Page, Cleared, Fresh
<1>3. (~crossed' => Steady(page', service')) /\ Acknowledged'
  BY DEF IInv, Typed, Steady, Acknowledged, Selected, ClearKey, Page, Cleared, Fresh
<1> QED BY <1>1, <1>2, <1>3 DEF IInv

\* A reload is a first step with nothing under way.
LEMMA ReloadStep ==
  ASSUME IInv, Reload
  PROVE  IInv'
<1>1. Typed'
  <2>1. page' \in Page /\ prefill' \in Linked \cup {NoServer}
    BY FreshType DEF IInv, Typed, Reload
  <2>2. Idle \in CallRecord
    BY DEF Idle, CallRecord
  <2>3. \A i \in Call : Records(calls[i]) \subseteq {"verify", "attest"} \X Key \X Server
    BY RecordsType DEF IInv, Typed
  <2>4. service' \subseteq {"verify", "attest"} \X Key \X Server
    BY <2>3 DEF IInv, Typed, Reload
  <2> QED BY <2>1, <2>2, <2>4 DEF IInv, Typed, Reload
<1>2. Loading' /\ Busy'
  BY DEF IInv, Typed, Loading, Busy, Reload, Page, Fresh, Idle, CallRecord, Records, Permits
<1>3. (~crossed' => Steady(page', service')) /\ Acknowledged'
  BY DEF IInv, Typed, Steady, Acknowledged, Selected, Reload, Page, Fresh, Idle, CallRecord, Records, Permits
<1> QED BY <1>1, <1>2, <1>3 DEF IInv

\* At the first steps nothing is yet about a server.
LEMMA ChooseServerStep ==
  ASSUME IInv, ChooseServer
  PROVE  IInv'
<1>1. Typed'
  BY WizardConstants DEF IInv, Typed, ChooseServer, Page
<1>2. Loading' /\ Busy'
  BY DEF IInv, Typed, Loading, Busy, ChooseServer, Page
<1>3. (~crossed' => Steady(page', service')) /\ Acknowledged'
  BY DEF IInv, Typed, Steady, Acknowledged, Selected, ChooseServer, Page
<1> QED BY <1>1, <1>2, <1>3 DEF IInv

\* The prefill replaces a server in use only by crossing.
LEMMA PrefillLandsStep ==
  ASSUME IInv, PrefillLands
  PROVE  IInv'
<1>1. Typed'
  BY WizardConstants DEF IInv, Typed, PrefillLands, Page
<1>2. Loading' /\ Busy'
  BY DEF IInv, Typed, Loading, Busy, PrefillLands, Page
<1>3. Acknowledged'
  <2>1. /\ page'.step = page.step /\ page'.ack = page.ack
        /\ page'.listed = page.listed /\ page'.checked = page.checked
        /\ UNCHANGED <<confirmed, relisted>>
    BY DEF IInv, Typed, Page, PrefillLands
  <2> QED BY <2>1 DEF IInv, Acknowledged, Selected
<1>4. ~crossed' => Steady(page', service')
  <2> SUFFICES ASSUME ~crossed'
               PROVE  Steady(page', service')
    OBVIOUS
  <2>1. ~crossed /\ (page.step <= 1 \/ page.server = prefill)
    <3>1. ~crossed /\ ~(page.step > 1 /\ page.server # prefill)
      BY DEF PrefillLands
    <3>2. page.step \in 0..6
      BY DEF IInv, Typed, Page
    <3> QED BY <3>1, <3>2
  <2>2. Steady(page, service) /\ page \in Page
    BY <2>1 DEF IInv, Typed
  <2>c. prefill \in Server
    BY WizardConstants DEF IInv, Typed, PrefillLands
  <2>3. page' = [page EXCEPT !.server = prefill] /\ UNCHANGED service
    BY DEF PrefillLands
  <2>4. CASE page.step <= 1
    <3>1. /\ page'.step = page.step /\ page'.key = page.key
          /\ page'.loaded = page.loaded /\ page'.tools = page.tools
          /\ page'.behavior = page.behavior /\ page'.published = page.published
          /\ page.step \in 0..6
      BY <2>2, <2>3 DEF Page
    <3>2. Steady(page', service)
      BY <2>2, <2>4, <3>1 DEF Steady
    <3> QED BY <2>3, <3>2
  <2>5. CASE page.server = prefill
    <3>1. page' = page
      BY <2>2, <2>3, <2>5 DEF Page
    <3> QED BY <2>2, <2>3, <3>1
  <2> QED BY <2>1, <2>4, <2>5
<1> QED BY <1>1, <1>2, <1>3, <1>4 DEF IInv

\* The attest step is left to the tools with the acknowledgement standing.
LEMMA MoveStep ==
  ASSUME IInv, Move
  PROVE  IInv'
<1> PICK n \in {Back, Onward} : n # page.step /\ page' = [page EXCEPT !.step = n]
  BY DEF Move
<1>a. page \in Page /\ page.step \in 0..6
  BY DEF IInv, Typed, Page
<1>b. /\ n \in 0..6
      /\ n = 3 => page.step = 4
      /\ n = 4 => page.step = 3 /\ Selected # {}
  BY <1>a DEF Back, Onward
<1>1. Typed'
  <2>1. page' \in Page
    BY <1>a, <1>b DEF Page
  <2> QED BY <2>1 DEF IInv, Typed, Move
<1>2. Loading' /\ Busy'
  <2>1. /\ page'.step = n /\ page'.loaded = page.loaded
        /\ page'.listed = page.listed /\ page'.busy = page.busy
    BY <1>a DEF Page
  <2>2. UNCHANGED <<calls, abandoned>>
    BY DEF Move
  <2> QED BY <1>b, <2>1, <2>2 DEF IInv, Loading, Busy, Selected
<1>3. (~crossed' => Steady(page', service')) /\ Acknowledged'
  BY DEF IInv, Typed, Steady, Acknowledged, Selected, Move, Page, Back, Onward
<1> QED BY <1>1, <1>2, <1>3 DEF IInv

\* With the acknowledgement ticked, a person's tick confirms what is ticked then.
LEMMA TickToolsStep ==
  ASSUME IInv, TickTools
  PROVE  IInv'
<1>1. page' \in Page
  <2>1. CASE page' = [page EXCEPT !.ack = ~@]
    BY <2>1 DEF IInv, Typed, Page
  <2>2. ASSUME NEW t \in page.listed,
               page' = [page EXCEPT !.checked = IF t \in @ THEN @ \ {t} ELSE @ \cup {t}]
        PROVE  page' \in Page
    <3> DEFINE k == IF t \in page.checked THEN page.checked \ {t} ELSE page.checked \cup {t}
    <3>1. k \subseteq Tool
      BY DEF IInv, Typed, Page
    <3>2. page' = [page EXCEPT !.checked = k]
      BY <2>2
    <3> HIDE DEF k
    <3> QED BY <3>1, <3>2 DEF IInv, Typed, Page
  <2> QED BY <2>1, <2>2 DEF TickTools
<1>2. Typed'
  <2>1. confirmed' \subseteq Tool
    BY <1>1 DEF TickTools, Selected, Page
  <2> QED BY <1>1, <2>1 DEF IInv, Typed, TickTools
<1>3. /\ page'.step = 3 /\ page.step = 3 /\ page'.busy = page.busy
      /\ page'.loaded = page.loaded /\ page'.listed = page.listed
      /\ page'.key = page.key /\ page'.server = page.server
      /\ page'.tools = page.tools
      /\ page'.behavior = page.behavior /\ page'.published = page.published
  BY DEF IInv, Typed, Page, TickTools
<1>4. Loading' /\ Busy'
  BY <1>3 DEF IInv, Loading, Busy, TickTools
<1>5. Acknowledged'
  BY <1>3 DEF Acknowledged, TickTools
<1>6. ~crossed' => Steady(page', service')
  BY <1>3 DEF IInv, Steady, TickTools
<1> QED BY <1>2, <1>4, <1>5, <1>6 DEF IInv

\* Consent and a re-run change nothing of the tools.
LEMMA TickStep ==
  ASSUME IInv, Tick
  PROVE  IInv'
<1>1. Typed'
  <2>1. \/ page' = [page EXCEPT !.consent = ~@]
        \/ page' = [page EXCEPT !.behavior = NoServer]
    BY DEF Tick
  <2>2. page' \in Page
    BY <2>1 DEF IInv, Typed, Page
  <2> QED BY <2>2 DEF IInv, Typed, Tick
<1>2. Loading' /\ Busy'
  BY DEF IInv, Typed, Loading, Busy, Tick, Page
<1>3. (~crossed' => Steady(page', service')) /\ Acknowledged'
  BY DEF IInv, Typed, Steady, Acknowledged, Selected, Tick, Page
<1> QED BY <1>1, <1>2, <1>3 DEF IInv

\* A call takes the key and the server of the page, which is busy until it ends.
LEMMA AskStep ==
  ASSUME IInv, NEW i \in Call, NEW op \in Op, Ask(i, op)
  PROVE  IInv'
<1> DEFINE c == [op |-> op, key |-> page.key, server |-> page.server,
                 tools |-> IF op = "attest" THEN Selected ELSE {}]
<1>1. /\ calls' = [calls EXCEPT ![i] = c] /\ page' = [page EXCEPT !.busy = TRUE]
      /\ UNCHANGED <<stored, prefill, service, confirmed, relisted, crossed, abandoned>>
      /\ calls[i] = Idle /\ page \in Page /\ calls \in [Call -> CallRecord]
  BY DEF Ask, IInv, Typed
<1>2. c \in CallRecord /\ c.op = op /\ op # "none"
  <2>1. (IF op = "attest" THEN Selected ELSE {}) \subseteq Tool
    BY <1>1 DEF Selected, Page
  <2>2. page.key \in Key \cup {NoKey} /\ page.server \in Server \cup {NoServer}
    BY <1>1 DEF Page
  <2> QED BY <2>1, <2>2 DEF CallRecord, Op
<1> HIDE DEF c
<1>3. page' \in Page /\ calls' \in [Call -> CallRecord] /\ calls'[i] = c
  BY <1>1, <1>2 DEF Page
<1>4. c # Idle
  BY <1>2 DEF Idle
<1>5. Typed'
  BY <1>1, <1>2, <1>3 DEF IInv, Typed
<1>6. Loading' /\ Busy'
  <2>1. \A j \in Call : j # i => calls'[j] = calls[j]
    BY <1>1
  <2>2. calls[i].op = "none"
    BY <1>1 DEF Idle
  <2>3. \A j \in Call : calls[j].op = "tools" => calls'[j].op = "tools"
    BY <2>1, <2>2
  <2> QED BY <1>1, <1>3, <1>4, <2>3 DEF IInv, Loading, Busy, Page
<1>7. (~crossed' => Steady(page', service')) /\ Acknowledged'
  BY <1>1 DEF IInv, Steady, Acknowledged, Selected, Page
<1> QED BY <1>5, <1>6, <1>7 DEF IInv

\* What an answer leaves of the page's type.
LEMMA LandedType ==
  ASSUME page \in Page, NEW c \in CallRecord, c.op # "none", NEW list \in SUBSET Tool,
         NEW o \in {"ok", "refused", "lost"}
  PROVE  Landed(c, o, list) \in Page
<1>1. c.op \in Op /\ c.server \in Server \cup {NoServer}
  BY DEF CallRecord
<1>2. CASE Landed(c, o, list) = page
  BY <1>2
<1>3. CASE o = "ok"
  <2>1. CASE c.op = "challenge"
    <3>1. [page EXCEPT !.challenge = c.server] \in Page
      BY <1>1 DEF Page
    <3>2. Landed(c, o, list) = [[page EXCEPT !.challenge = c.server] EXCEPT !.step = 2]
      BY <1>3, <2>1 DEF Landed, Page
    <3> DEFINE h == [page EXCEPT !.challenge = c.server]
    <3>3. h \in Page /\ Landed(c, o, list) = [h EXCEPT !.step = 2]
      BY <3>1, <3>2
    <3> HIDE DEF h
    <3> QED BY <3>3 DEF Page
  <2>2. CASE c.op = "verify"
    BY <1>1, <1>3, <2>2 DEF Landed, Page
  <2>3. CASE c.op = "tools"
    <3> DEFINE d == list \cap ProbeSafe
    <3>1. d \subseteq Tool
      OBVIOUS
    <3>2. Landed(c, o, list) = [page EXCEPT !.loaded = TRUE, !.tools = c.server,
                                            !.listed = list, !.checked = d]
      BY <1>3, <2>3 DEF Landed
    <3> HIDE DEF d
    <3>3. [page EXCEPT !.loaded = TRUE, !.tools = c.server] \in Page
      BY <1>1 DEF Page
    <3> QED BY <1>1, <3>1, <3>2, <3>3 DEF Page
  <2>4. CASE c.op = "attest"
    BY <1>1, <1>3, <2>4 DEF Landed, Page
  <2>5. CASE c.op = "behavior"
    <3>1. [page EXCEPT !.behavior = c.server] \in Page
      BY <1>1 DEF Page
    <3>2. Landed(c, o, list) = [[page EXCEPT !.behavior = c.server] EXCEPT !.step = 6]
      BY <1>3, <2>5 DEF Landed, Page
    <3> DEFINE h == [page EXCEPT !.behavior = c.server]
    <3>3. h \in Page /\ Landed(c, o, list) = [h EXCEPT !.step = 6]
      BY <3>1, <3>2
    <3> HIDE DEF h
    <3> QED BY <3>3 DEF Page
  <2>6. CASE c.op = "publish"
    BY <1>1, <1>3, <2>6 DEF Landed, Page
  <2> QED BY <1>1, <2>1, <2>2, <2>3, <2>4, <2>5, <2>6 DEF Op
<1>4. CASE o = "refused" /\ c.op = "tools"
  BY <1>1, <1>4 DEF Landed, Page
<1> QED BY <1>2, <1>3, <1>4 DEF Landed

\* An answer that changes the page from where it was asked keeps it steady.
LEMMA LandedSteady ==
  ASSUME page \in Page, NEW c \in CallRecord, c.op # "none", NEW list \in SUBSET Tool,
         NEW o \in {"ok", "refused", "lost"},
         Steady(page, service), ~Misses(c), o = "ok" => Permits(c)
  PROVE  Steady(Landed(c, o, list), service \cup Records(c))
<1> USE DEF Steady, Misses, Home, Landed, Page
<1>1. c.op \in Op
  BY DEF CallRecord
<1>2. CASE c.op = "challenge"
  BY <1>2
<1>3. CASE c.op = "verify"
  BY <1>3 DEF Permits, Records
<1>4. CASE c.op = "tools"
  BY <1>4
<1>5. CASE c.op = "attest"
  BY <1>5 DEF Permits, Records
<1>6. CASE c.op = "behavior"
  BY <1>6
<1>7. CASE c.op = "publish"
  BY <1>7
<1> QED BY <1>1, <1>2, <1>3, <1>4, <1>5, <1>6, <1>7 DEF Op

\* What an answer leaves of the lists and of the step.
LEMMA LandedLoading ==
  ASSUME page \in Page, NEW c \in CallRecord, c.op # "none", NEW list \in SUBSET Tool,
         NEW o \in {"ok", "refused", "lost"},
         ~page.loaded => page.listed = {}, page.step = 4 => page.loaded
  PROVE  LET p == Landed(c, o, list) IN
         /\ ~p.loaded => p.listed = {} /\ ~page.loaded
         /\ p.step = 4 => p.loaded
         /\ p.step = 3 => page.step = 3 \/ (c.op = "verify" /\ o = "ok")
         /\ c.op = "tools" => p.loaded \/ o = "lost"
         /\ p.step = 4 => page.step = 4
         /\ p.ack = page.ack
         /\ \/ p.listed \cap p.checked \subseteq page.listed \cap page.checked
            \/ o = "ok" /\ c.op = "tools"
<1> USE DEF Landed, Page
<1>1. c.op \in Op
  BY DEF CallRecord
<1>2. CASE c.op = "challenge"
  BY <1>2
<1>3. CASE c.op = "verify"
  BY <1>3
<1>4. CASE c.op = "tools"
  BY <1>4
<1>5. CASE c.op = "attest"
  BY <1>5
<1>6. CASE c.op = "behavior"
  BY <1>6
<1>7. CASE c.op = "publish"
  BY <1>7
<1> QED BY <1>1, <1>2, <1>3, <1>4, <1>5, <1>6, <1>7 DEF Op

\* An answer lands on the page it was asked for, or crosses.
LEMMA AnswerStep ==
  ASSUME IInv, NEW i \in Call, Answer(i)
  PROVE  IInv'
<1> DEFINE c == calls[i]
<1>1. /\ page \in Page /\ calls \in [Call -> CallRecord] /\ c \in CallRecord
      /\ c # Idle /\ c.op # "none"
      /\ UNCHANGED <<stored, prefill, confirmed>>
  BY DEF IInv, Typed, Answer
<1>2. PICK o \in {"ok", "refused", "lost"}, list \in SUBSET Tool :
        /\ o = "ok" => Permits(c)
        /\ page' = [Landed(c, o, list) EXCEPT !.busy = FALSE]
        /\ calls' = [calls EXCEPT ![i] = Follow(c, o)]
        /\ service' \in CASE o = "ok"      -> {service \cup Records(c)}
                          [] o = "refused" -> {service}
                          [] o = "lost"    -> {service, service \cup Records(c)}
        /\ crossed' = (crossed \/ (Misses(c) /\ Landed(c, o, list) # page))
        /\ abandoned' = (abandoned \/ (o = "lost" /\ c.op = "tools"))
        /\ relisted' = (relisted \/ (o = "ok" /\ c.op = "tools"))
  BY DEF Answer, BusyAfter
<1> DEFINE p == Landed(c, o, list)
<1> HIDE DEF c
<1>3. p \in Page
  BY <1>1, LandedType
<1>4. /\ service \subseteq service' /\ service' \subseteq service \cup Records(c)
      /\ o = "ok" => service' = service \cup Records(c)
  BY <1>2
<1>5. /\ Follow(c, o) \in CallRecord
      /\ Follow(c, o).op = "none" => Follow(c, o) = Idle
      /\ c.op = "verify" /\ o = "ok" => Follow(c, o).op = "tools"
  <2>1. CASE c.op = "verify" /\ o = "ok"
    BY <1>1, <2>1 DEF Follow, CallRecord, Op
  <2>2. CASE ~(c.op = "verify" /\ o = "ok")
    BY <2>2 DEF Follow, Idle, CallRecord
  <2> QED BY <2>1, <2>2
<1>6. /\ \A j \in Call : j # i => calls'[j] = calls[j]
      /\ calls'[i] = Follow(c, o)
      /\ calls' \in [Call -> CallRecord]
  BY <1>1, <1>2, <1>5
<1> HIDE DEF p
<1>7. /\ page' \in Page /\ ~page'.busy
      /\ \A f \in DOMAIN p \ {"busy"} : page'[f] = p[f]
  BY <1>2, <1>3 DEF Page, p
<1>8. /\ page'.step = p.step /\ page'.key = p.key /\ page'.server = p.server
      /\ page'.challenge = p.challenge /\ page'.loaded = p.loaded
      /\ page'.tools = p.tools /\ page'.listed = p.listed /\ page'.checked = p.checked
      /\ page'.behavior = p.behavior /\ page'.published = p.published
      /\ page'.ack = p.ack
  BY <1>3, <1>7 DEF Page
<1>9. Typed'
  <2>1. service' \subseteq {"verify", "attest"} \X Key \X Server
    BY <1>1, <1>4, RecordsType DEF IInv, Typed
  <2>2. {relisted', crossed', abandoned'} \subseteq BOOLEAN
    BY <1>2 DEF IInv, Typed
  <2>3. \A j \in Call : calls'[j].op = "none" => calls'[j] = Idle
    BY <1>5, <1>6 DEF IInv, Typed
  <2> QED BY <1>1, <1>6, <1>7, <2>1, <2>2, <2>3 DEF IInv, Typed
<1>10. Busy'
  BY <1>7 DEF Busy
<1>11. Loading'
  <2>1. /\ ~p.loaded => p.listed = {} /\ ~page.loaded
        /\ p.step = 4 => p.loaded
        /\ p.step = 3 => page.step = 3 \/ (c.op = "verify" /\ o = "ok")
        /\ c.op = "tools" => p.loaded \/ o = "lost"
    BY <1>1, LandedLoading DEF p, IInv, Loading
  <2>2. ASSUME p.step = 3, ~p.loaded, ~abandoned'
        PROVE  \E j \in Call : calls'[j].op = "tools"
    <3>1. ~abandoned /\ c.op # "tools"
      BY <1>2, <2>1, <2>2
    <3>2. CASE c.op = "verify" /\ o = "ok"
      BY <1>5, <1>6, <3>2
    <3>3. CASE page.step = 3
      <4>1. PICK j \in Call : calls[j].op = "tools"
        BY <2>1, <2>2, <3>1, <3>3 DEF IInv, Loading
      <4>2. j # i
        BY <3>1, <4>1 DEF c
      <4> QED BY <1>6, <4>1, <4>2
    <3> QED BY <2>1, <2>2, <3>2, <3>3
  <2> QED BY <1>8, <2>1, <2>2 DEF Loading
<1>12. Acknowledged'
  <2>1. /\ p.step = 4 => page.step = 4
        /\ p.ack = page.ack
        /\ \/ p.listed \cap p.checked \subseteq page.listed \cap page.checked
           \/ o = "ok" /\ c.op = "tools"
    BY <1>1, LandedLoading DEF p, IInv, Loading
  <2>2. page'.step = 4 => page'.ack
    BY <1>8, <2>1 DEF IInv, Acknowledged
  <2>3. ASSUME ~relisted', page'.ack PROVE Selected' \subseteq confirmed'
    <3>1. ~relisted /\ page.ack /\ p.listed \cap p.checked \subseteq Selected
      BY <1>2, <1>8, <2>1, <2>3 DEF Selected
    <3> QED BY <1>1, <1>8, <3>1 DEF IInv, Acknowledged, Selected
  <2> QED BY <2>2, <2>3 DEF Acknowledged
<1>13. ~crossed' => Steady(page', service')
  <2> SUFFICES ASSUME ~crossed'
               PROVE  Steady(page', service')
    OBVIOUS
  <2>1. Steady(page, service) /\ (p = page \/ ~Misses(c))
    BY <1>2 DEF IInv, p
  <2>2. Steady(p, service')
    <3>1. CASE p = page
      BY <1>4, <2>1, <3>1 DEF Steady
    <3>2. CASE p # page
      <4>1. Steady(p, service \cup Records(c))
        BY <1>1, <1>2, <2>1, <3>2, LandedSteady DEF p
      <4>2. CASE o = "ok"
        BY <1>4, <4>1, <4>2
      <4>3. CASE o # "ok"
        <5>1. p = [page EXCEPT !.loaded = TRUE, !.tools = c.server, !.listed = {}]
              /\ c.op = "tools"
          BY <3>2, <4>3 DEF p, Landed
        <5>2. /\ Records(c) = {}
          BY <5>1 DEF Records
        <5> QED BY <1>4, <4>1, <5>2
      <4> QED BY <4>2, <4>3
    <3> QED BY <3>1, <3>2
  <2> QED BY <1>8, <2>2 DEF Steady
<1> QED BY <1>9, <1>10, <1>11, <1>12, <1>13 DEF IInv
-----------------------------------------------------------------------------
(* The theorems.                                                           *)

LEMMA NextStep == IInv /\ [Next]_vars => IInv'
<1> SUFFICES ASSUME IInv, [Next]_vars PROVE IInv'
  OBVIOUS
<1>1. CASE SignIn       BY <1>1, SignInStep
<1>2. CASE KeyDelivered BY <1>2, KeyDeliveredStep
<1>3. CASE SignInGivenUp BY <1>3, SignInGivenUpStep
<1>4. CASE PasteKey     BY <1>4, PasteKeyStep
<1>5. CASE ClearKey     BY <1>5, ClearKeyStep
<1>6. CASE Reload       BY <1>6, ReloadStep
<1>7. CASE ChooseServer BY <1>7, ChooseServerStep
<1>8. CASE PrefillLands BY <1>8, PrefillLandsStep
<1>9. CASE Move         BY <1>9, MoveStep
<1>10. CASE Tick        BY <1>10, TickStep
<1>14. CASE TickTools   BY <1>14, TickToolsStep
<1>11. ASSUME NEW i \in Call, Answer(i) PROVE IInv'
  BY <1>11, AnswerStep
<1>12. ASSUME NEW i \in Call, NEW op \in Op, Ask(i, op) PROVE IInv'
  BY <1>12, AskStep
<1>13. CASE UNCHANGED vars
  BY <1>13 DEF vars, IInv, Typed, Loading, Busy, Steady, Acknowledged, Selected
<1> QED
  BY <1>1, <1>2, <1>3, <1>4, <1>5, <1>6, <1>7, <1>8, <1>9, <1>10, <1>11, <1>12, <1>13,
     <1>14
  DEF Next

LEMMA InitInv == Init => IInv
<1> SUFFICES ASSUME Init PROVE IInv
  OBVIOUS
<1>1. Typed
  <2>1. page \in Page
    BY FreshType DEF Init
  <2>2. Idle \in CallRecord
    BY DEF Idle, CallRecord
  <2> QED BY <2>1, <2>2 DEF Init, Typed
<1>2. Loading /\ Busy
  BY FreshType DEF Init, Loading, Busy
<1>3. Steady(page, service) /\ Acknowledged
  BY DEF Init, Fresh, Steady, Acknowledged
<1> QED BY <1>1, <1>2, <1>3 DEF IInv

\* The inductive invariant: the page's lists and its busy flag are accounted for by
\* the calls under way, and a page no answer has crossed is steady at its step.
THEOREM Invariance == Spec => []IInv
BY InitInv, NextStep, PTL DEF Spec

\* The component's state, its stored key, its calls and what the service recorded
\* keep their types, whatever answers come in whatever order.
THEOREM TypeCorrect == Spec => []TypeOK
<1>1. IInv => TypeOK
  <2> SUFFICES ASSUME IInv PROVE TypeOK
    OBVIOUS
  <2>1. \A i \in Call : calls[i] = Idle \/
          calls[i] \in [op: Op, key: Key \cup {NoKey}, server: Server \cup {NoServer},
                        tools: SUBSET Tool]
    BY DEF IInv, Typed, CallRecord
  <2> QED BY <2>1 DEF IInv, Typed, TypeOK
<1> QED BY <1>1, Invariance, PTL

\* What a step shows (challenge, tools, check, publication) is about the server the
\* page has picked, for the handlers' closures, unless one met a page moved on.
THEOREM ShownHolds == Spec => []ShownIsForTheServer
<1>1. IInv => ShownIsForTheServer
  BY DEF IInv, Typed, Page, Steady, ShownIsForTheServer
<1> QED BY <1>1, Invariance, PTL

\* setStep never runs ahead of what the service recorded for this key and server,
\* with the same escape.
THEOREM StepsEarnedHolds == Spec => []StepsAreEarned
<1>1. IInv => StepsAreEarned
  BY DEF IInv, Steady, StepsAreEarned
<1> QED BY <1>1, Invariance, PTL

\* Every handler's finally, and the tools call that follows a verification, leave no
\* button disabled and no list "loading" without a call to end it.
THEOREM DisabledPendingHolds == Spec => []DisabledMeansPending
<1>1. IInv => DisabledMeansPending
  BY DEF IInv, Loading, Busy, DisabledMeansPending
<1> QED BY <1>1, Invariance, PTL

\* submitAttest sends only tools that stood ticked when a person last had the box "I confirm
\* the checked tools are read-only" ticked, whatever answers crossed, until loadTools has
\* ticked a new list for them.
THEOREM AttestsConfirmedHolds == Spec => AttestsWhatWasConfirmed
<1>1. ASSUME IInv, [Next]_vars, NEW i \in Call, calls[i] = Idle,
             calls'[i].op = "attest", ~relisted
      PROVE  calls'[i].tools \subseteq confirmed
  <2>1. calls'[i] # calls[i]
    BY <1>1 DEF Idle
  <2>2. ASSUME NEW j \in Call, Answer(j) PROVE FALSE
    <3>1. j # i
      BY <1>1, <2>2 DEF Answer
    <3> QED BY <1>1, <2>1, <2>2, <3>1 DEF Answer, IInv, Typed
  <2>3. ASSUME NEW j \in Call, NEW op \in Op, Ask(j, op)
        PROVE  calls'[i].tools \subseteq confirmed
    <3>1. j = i
      BY <1>1, <2>1, <2>3 DEF Ask, IInv, Typed
    <3>2. calls'[i] = [op |-> op, key |-> page.key, server |-> page.server,
                       tools |-> IF op = "attest" THEN Selected ELSE {}]
      BY <1>1, <2>3, <3>1 DEF Ask, IInv, Typed
    <3>3. op = "attest" /\ calls'[i].tools = Selected
      BY <1>1, <3>2
    <3>4. page.step = 4
      BY <2>3, <3>3 DEF Ask, Offers, Home
    <3> QED BY <1>1, <3>3, <3>4 DEF IInv, Acknowledged
  <2>4. calls' = [k \in Call |-> Idle] => calls'[i].op = "none"
    BY DEF Idle
  <2>5. \/ \E j \in Call : Answer(j) \/ \E op \in Op : Ask(j, op)
    BY <1>1, <2>1, <2>4 DEF Next, vars, SignIn, KeyDelivered, SignInGivenUp, PasteKey,
       ClearKey, Reload, ChooseServer, PrefillLands, Move, TickTools, Tick
  <2> QED BY <2>2, <2>3, <2>5
<1>2. IInv /\ [Next]_vars =>
        [\A i \in Call : calls[i] = Idle /\ calls'[i].op = "attest" /\ ~relisted
                            => calls'[i].tools \subseteq confirmed]_vars
  BY <1>1
<1> QED BY <1>2, Invariance, PTL DEF Spec, AttestsWhatWasConfirmed
=============================================================================
