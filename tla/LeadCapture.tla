---------------------------- MODULE LeadCapture ----------------------------
(***************************************************************************)
(* The contact form and the update list: app/api/waitlist/route.ts, its    *)
(* calls to Brevo (lib/brevo.ts), the durable list in Redis                *)
(* (lib/leadCapture.ts) and the operator who drains it                     *)
(* (scripts/drain-leads.mjs).                                              *)
(*                                                                         *)
(* Any call may fail, and one that fails may have taken effect; the Redis  *)
(* client sends a command again when its answer was lost.  A request may   *)
(* be cut off between two steps: its visitor then has no answer.  The      *)
(* limiter of the leads is RateLimit's; here it accepts or refuses.        *)
(***************************************************************************)
EXTENDS Naturals, Sequences, FiniteSets

CONSTANTS
  Lead,              \* submissions with a valid address
  Cap,               \* CAP
  Sends,             \* bound: how often the Redis client sends one command
  BrevoCall,              \* the Brevo calls of a contact: "contact", and the mails
  BrevoConfigured,
  NoAnswer

ASSUME LeadConstants ==
  /\ Cap \in Nat \ {0} /\ Sends \in Nat \ {0} /\ IsFiniteSet(Lead)
  /\ "contact" \in BrevoCall /\ BrevoConfigured \in BOOLEAN
  /\ NoAnswer \notin {"sent", "failed", "logged", "rate_limited"}

VARIABLES
  lead,      \* per submission: where its handler is, its source, delivery, answer
  call,      \* per submission and Brevo call, how it went
  mailed,    \* what reached Brevo: <<submission, call>>
  leads,      \* lead:capture, the newest first
  logged,    \* the submissions logged in full
  operator,  \* the count below the entries the drain printed, 0 before
  cut,       \* history: dropped by the cap
  cleared    \* history: dropped by the operator
leadVars == <<lead, call, mailed, leads, logged, operator, cut, cleared>>

Running == {"idle", "open", "retry"}

At(r) == lead[r].at
Go(r, to) == lead' = [lead EXCEPT ![r].at = to]
Of(entries) == {entries[i].of : i \in DOMAIN entries}
Entry(r) == [of |-> r, delivery |-> lead[r].delivery]
-----------------------------------------------------------------------------
\* An email-only form, or a contact without Brevo, goes straight to the list.
Submit(r, source) ==
  /\ At(r) = "new"
  /\ LET mails == source = "contact" /\ BrevoConfigured
     IN lead' = [lead EXCEPT ![r] = [at |-> IF mails THEN "gate" ELSE "push", source |-> source,
                                     delivery |-> "logged", answer |-> NoAnswer]]
  /\ UNCHANGED <<call, mailed, leads, logged, operator, cut, cleared>>

\* checkLeadLimit, before any mail goes out.
Gate(r, ok) ==
  /\ At(r) = "gate"
  /\ lead' = [lead EXCEPT ![r] =
       IF ok THEN [lead[r] EXCEPT !.at = "mailing"]
       ELSE [lead[r] EXCEPT !.at = "done", !.answer = "rate_limited"]]
  /\ call' = IF ok THEN [call EXCEPT ![r] = [c \in BrevoCall |-> "open"]] ELSE call
  /\ UNCHANGED <<mailed, leads, logged, operator, cut, cleared>>

\* call(): a timeout or a lost answer is an error, whatever Brevo did with the request.  Only
\* the contact is tried again, once, with less.
BrevoEnds(r, c, took, ok) ==
  /\ At(r) = "mailing" /\ call[r][c] \in {"open", "retry"}
  /\ ok => took
  /\ mailed' = IF took THEN mailed \union {<<r, c>>} ELSE mailed
  /\ call' = [call EXCEPT ![r][c] = IF ok THEN "ok"
                                    ELSE IF c = "contact" /\ @ = "open" THEN "retry"
                                    ELSE "failed"]
  /\ UNCHANGED <<lead, leads, logged, operator, cut, cleared>>

\* Promise.all, and the honest status.
Delivered(r) ==
  /\ At(r) = "mailing" /\ \A c \in BrevoCall : call[r][c] \notin Running
  /\ lead' = [lead EXCEPT ![r] = [lead[r] EXCEPT !.at = "push",
                !.delivery = IF \E c \in BrevoCall : call[r][c] = "ok" THEN "sent" ELSE "failed"]]
  /\ UNCHANGED <<call, mailed, leads, logged, operator, cut, cleared>>
-----------------------------------------------------------------------------
\* Mutant: a failed push is taken for a stored lead.
PushLeadUnheeded(r, copies, ok) ==
  /\ At(r) = "push" /\ (ok => copies > 0)
  /\ leads' = [i \in 1..copies |-> Entry(r)] \o leads
  /\ Go(r, IF ok THEN "trim" ELSE "answer")
  /\ UNCHANGED <<call, mailed, logged, operator, cut, cleared>>

\* captureLead: the lead is there as often as the push took effect.
PushLead(r, copies, ok) ==
  /\ At(r) = "push" /\ (ok => copies > 0)
  /\ leads' = [i \in 1..copies |-> Entry(r)] \o leads
  /\ Go(r, IF ok THEN "trim" ELSE "shout")
  /\ UNCHANGED <<call, mailed, logged, operator, cut, cleared>>

TrimLeads(r, took, ok) ==
  /\ At(r) = "trim" /\ (ok => took)
  /\ LET kept == SubSeq(leads, 1, IF Len(leads) < Cap THEN Len(leads) ELSE Cap)
     IN /\ leads' = IF took THEN kept ELSE leads
        /\ cut' = IF took THEN cut \union (Of(leads) \ Of(kept)) ELSE cut
  /\ Go(r, IF ok THEN "answer" ELSE "shout")
  /\ UNCHANGED <<call, mailed, logged, operator, cleared>>

\* captureOrShout
Shout(r) ==
  /\ At(r) = "shout"
  /\ logged' = logged \union {r}
  /\ Go(r, "answer")
  /\ UNCHANGED <<call, mailed, leads, operator, cut, cleared>>

Answer(r) ==
  /\ At(r) = "answer"
  /\ lead' = [lead EXCEPT ![r] = [lead[r] EXCEPT !.at = "done", !.answer = lead[r].delivery]]
  /\ UNCHANGED <<call, mailed, leads, logged, operator, cut, cleared>>

CutOff(r) ==
  /\ At(r) \notin {"new", "done"}
  /\ Go(r, "done")
  /\ UNCHANGED <<call, mailed, leads, logged, operator, cut, cleared>>
-----------------------------------------------------------------------------
\* drain-leads.mjs: it prints all, or those Brevo did not take, and below them how many.
Drain(undelivered) ==
  /\ operator = 0
  /\ operator' = Cardinality({i \in DOMAIN leads : undelivered => leads[i].delivery # "sent"})
  /\ UNCHANGED <<lead, call, mailed, leads, logged, cut, cleared>>

\* The header's advice, once they are replayed: LTRIM lead:capture <n> -1.  The newest is first,
\* so these are the n newest of now, whichever were printed.
Clear ==
  /\ operator # 0
  /\ LET n == IF operator < Len(leads) THEN operator ELSE Len(leads)
         rest == SubSeq(leads, n + 1, Len(leads))
     IN leads' = rest /\ cleared' = cleared \union (Of(leads) \ Of(rest))
  /\ operator' = 0
  /\ UNCHANGED <<lead, call, mailed, logged, cut>>
-----------------------------------------------------------------------------
LeadInit ==
  /\ lead = [r \in Lead |-> [at |-> "new", source |-> "waitlist", delivery |-> "logged",
                             answer |-> NoAnswer]]
  /\ call = [r \in Lead |-> [c \in BrevoCall |-> "idle"]]
  /\ mailed = {} /\ leads = <<>> /\ logged = {} /\ operator = 0
  /\ cut = {} /\ cleared = {}

LeadNext ==
  \/ \E r \in Lead :
       \/ \E s \in {"contact", "waitlist"} : Submit(r, s)
       \/ \E ok \in BOOLEAN : Gate(r, ok)
       \/ \E c \in BrevoCall, took, ok \in BOOLEAN : BrevoEnds(r, c, took, ok)
       \/ Delivered(r)
       \/ \E copies \in 0..Sends, ok \in BOOLEAN : PushLead(r, copies, ok)
       \/ \E took, ok \in BOOLEAN : TrimLeads(r, took, ok)
       \/ Shout(r) \/ Answer(r) \/ CutOff(r)
  \/ \E undelivered \in BOOLEAN : Drain(undelivered)
  \/ Clear

LeadSpec == LeadInit /\ [][LeadNext]_leadVars
-----------------------------------------------------------------------------
LeadTypeOK ==
  /\ \A r \in Lead :
       /\ lead[r].at \in {"new", "gate", "mailing", "push", "trim", "shout", "answer", "done"}
       /\ lead[r].source \in {"contact", "waitlist"}
       /\ lead[r].delivery \in {"sent", "failed", "logged"}
       /\ call[r] \in [BrevoCall -> Running \union {"ok", "failed"}]
  /\ mailed \subseteq Lead \X BrevoCall
  /\ Of(leads) \union logged \union cut \union cleared \subseteq Lead

Accepted(r) == lead[r].answer \in {"sent", "failed", "logged"}

\* A lead whose visitor was told it was taken is in the list or was logged in full, unless it
\* fell off the list's end or the operator removed it: whatever failed between.
NoLeadIsLost ==
  \A r \in Lead : Accepted(r) => r \in Of(leads) \union logged \union cut \union cleared

\* "sent" is said, to the visitor and to the operator who replays the others, only of a lead
\* Brevo took; a lead that was only logged was never mailed; an entry says what the answer said.
DeliveryIsHonest ==
  /\ \A r \in Lead :
       LET arrived == {c \in BrevoCall : <<r, c>> \in mailed}
       IN /\ lead[r].delivery = "sent" => arrived # {}
          /\ Accepted(r) /\ lead[r].delivery = "logged" => arrived = {}
  /\ \A i \in DOMAIN leads : leads[i].delivery = lead[leads[i].of].delivery

\* The list outgrows its cap only by the leads whose trim is still to come, failed, or was
\* cut off.
Untrimmed(r) ==
  \/ At(r) \in {"trim", "shout"} \/ r \in logged
  \/ At(r) = "done" /\ lead[r].answer = NoAnswer

ListIsBounded == Len(leads) <= Cap + Sends * Cardinality({r \in Lead : Untrimmed(r)})

\* Whichever call fails, an accepted lead can be recovered, and what is recorded of its
\* delivery is true. (leadCapture.ts:67-83, route.ts:29-47, 116-133)
LeadsAreKept == NoLeadIsLost /\ DeliveryIsHonest /\ ListIsBounded
=============================================================================
