---------------------------- MODULE TrustClient ----------------------------
(***************************************************************************)
(* The npm client's verdict calls (mcp-server-mcpindex/src/trust.mjs): the *)
(* guard of the path segments, one fetch raced against an abort, and the   *)
(* shaping of whatever came back.                                          *)
(*                                                                         *)
(* The service may answer late, break off between its headers and its      *)
(* body, send an error page with a verdict in it, or a verdict of values   *)
(* this client does not know.  A segment is some percent encodings about   *)
(* a core: the guard's loop, and the service, take them off one by one.    *)
(* Calls share nothing, so there is one.                                   *)
(***************************************************************************)
EXTENDS Naturals, FiniteSets

CONSTANTS
  Rounds,        \* of isSafeSegment's loop
  Absent

\* What the client says of a verdict it made itself.
Why == {"missing_args", "invalid_args", "empty_payload", "http_500", "network_error", "timeout"}

ASSUME TrustClientConstants == Rounds \in Nat \ {0} /\ Absent \notin Why

VARIABLES
  ask,      \* the segments asked for
  step,     \* "new", "headers", "body", "settled", "done"
  reply,    \* what the service sends, Absent before its headers
  reason,   \* why the fetch failed, Absent when it did not
  verdict   \* what the tool returns
trustClientVars == <<ask, step, reply, reason, verdict>>

Segment == [wraps : 0..(Rounds + 1), core : {"plain", "dots", "slash", "broken"}]
Directive == {"ALLOW", "DENY", "REVIEW", "UNVERIFIED"}
Status == {"EVALUATED", "PARTIAL", "STALE", "ERROR"}

\* What the service may send: raw is Absent when its JSON is no object.
Sent ==
  [code : {200, 500}, json : BOOLEAN,
   raw : {Absent} \union [directive : {"ALLOW", "DENY", "other"},
                          status : {"EVALUATED", "PARTIAL", "other"}, limits : BOOLEAN]]

ASSUME AbsentIsNoReply == Absent \notin Sent
-----------------------------------------------------------------------------
\* s with k encodings off: a core without one stays as it is, or, broken, makes decodeURIComponent
\* throw.
Form(s, k) == [s EXCEPT !.wraps = IF k < @ THEN @ - k ELSE 0]
Throws(s) == s.wraps = 0 /\ s.core = "broken"

\* unsafeSeg: it can see a core only with all encodings off.
Unsafe(s) == s.wraps = 0 /\ s.core \in {"dots", "slash"}

\* Mutant: the forms are not looked at again once one is off.
SafeAtFirst(s) ==
  ~Unsafe(s) /\ \E n \in 0..(Rounds - 1) : Form(s, n + 1) = Form(s, n)

\* isSafeSegment: each round refuses an unsafe form and takes one encoding off; the segment is
\* safe when that leaves it as it was, and not when the rounds run out before.
Safe(s) ==
  \E n \in 0..(Rounds - 1) :
    /\ Form(s, n + 1) = Form(s, n)
    /\ \A i \in 0..n : ~Unsafe(Form(s, i)) /\ ~Throws(Form(s, i))

Fabricated(why) ==
  [directive |-> "UNVERIFIED", status |-> "ERROR", limits |-> "floor", why |-> why]

\* shapeVerdict
Shaped(raw) ==
  IF raw = Absent THEN Fabricated("empty_payload")
  ELSE LET d == IF raw.directive \in Directive THEN raw.directive ELSE "UNVERIFIED"
       IN [directive |-> d,
           status |-> IF raw.status \in Status THEN raw.status
                      ELSE IF d = "UNVERIFIED" THEN "ERROR" ELSE "STALE",
           limits |-> IF raw.limits THEN "api" ELSE "floor",
           why |-> Absent]
-----------------------------------------------------------------------------
\* checkToolTrust, assessServer: a missing or a refused argument makes no request.
Check(segments) ==
  /\ step = "new"
  /\ ask' = segments
  /\ IF segments = {} THEN step' = "done" /\ verdict' = Fabricated("missing_args")
     ELSE IF \E s \in segments : ~Safe(s)
       THEN step' = "done" /\ verdict' = Fabricated("invalid_args")
     ELSE step' = "headers" /\ UNCHANGED verdict
  /\ UNCHANGED <<reply, reason>>

\* fetchVerdict: an error status is settled without its body.
Headers(r) ==
  /\ step = "headers"
  /\ reply' = r
  /\ IF r.code = 200
       THEN step' = "body" /\ UNCHANGED reason
       ELSE step' = "settled" /\ reason' = "http_500"
  /\ UNCHANGED <<ask, verdict>>

Body ==
  /\ step = "body"
  /\ step' = "settled"
  /\ reason' = IF reply.json THEN Absent ELSE "network_error"
  /\ UNCHANGED <<ask, reply, verdict>>

\* The connection breaks, or the abort ends the wait: for the headers, or for the body after.
BreaksOff(why) ==
  /\ step \in {"headers", "body"}
  /\ step' = "settled" /\ reason' = why
  /\ UNCHANGED <<ask, reply, verdict>>

Settled ==
  /\ step = "settled"
  /\ step' = "done"
  /\ verdict' = IF reason # Absent THEN Fabricated(reason) ELSE Shaped(reply.raw)
  /\ UNCHANGED <<ask, reply, reason>>
-----------------------------------------------------------------------------
TrustClientInit ==
  ask = {} /\ step = "new" /\ reply = Absent /\ reason = Absent /\ verdict = Absent

TrustClientNext ==
  \/ Check({}) \/ \E s, t \in Segment : Check({s, t})
  \/ \E r \in Sent : Headers(r)
  \/ Body
  \/ \E why \in {"timeout", "network_error"} : BreaksOff(why)
  \/ Settled

TrustClientSpec == TrustClientInit /\ [][TrustClientNext]_trustClientVars
-----------------------------------------------------------------------------
TrustClientTypeOK ==
  /\ step \in {"new", "headers", "body", "settled", "done"}
  /\ ask \subseteq Segment /\ (reply = Absent \/ reply \in Sent)
  /\ step = "done" => verdict.directive \in Directive /\ verdict.status \in Status

\* A verdict that allows, or claims a whole screen, is one the service sent, whole, with a 2xx,
\* before the wait ended; and a segment that was sent on shows no unsafe form however often it
\* is decoded.
FailsClosed ==
  /\ step = "done" =>
       LET relayed == reply # Absent /\ reply.code = 200 /\ reply.json /\ reason = Absent
       IN /\ verdict.directive = "ALLOW" => relayed /\ reply.raw.directive = "ALLOW"
          /\ verdict.status = "EVALUATED" => relayed /\ reply.raw.status = "EVALUATED"
          /\ verdict.directive # "UNVERIFIED" => verdict.why = Absent
          /\ ~relayed => verdict.why # Absent
  /\ step \notin {"new", "done"} =>
       \A s \in ask, k \in 0..(Rounds + 2) : ~Unsafe(Form(s, k)) /\ ~Throws(Form(s, k))
=============================================================================
