---------------------------- MODULE McpEndpoint ----------------------------
(***************************************************************************)
(* One request to /api/mcp (app/api/[transport]/route.ts) and the timers   *)
(* about it: the watchdog of either phase (mcpWatchdog.ts), the timeout of *)
(* the handler and those of the calls a tool makes (v1Dispatch.ts), all of *)
(* them against the platform that ends an invocation at maxDuration.       *)
(*                                                                         *)
(* The client may stall in its body.  The library that handles a request   *)
(* is not in this repository: it sends its headers at any moment, before   *)
(* or after the tool is done, or never.  A timer fires before time goes    *)
(* on: nothing holds the event loop for longer than a unit.                *)
(***************************************************************************)
EXTENDS Naturals, Sequences, FiniteSets

CONSTANTS
  Fanout,             \* the calls of one tool, at most (compare_servers)
  DispatchTimeout,    \* DISPATCH_TIMEOUT_MS
  SlowMs, NearKillMs, HandlerTimeout, MaxDuration

ASSUME McpConstants ==
  /\ Fanout \in Nat \ {0} /\ DispatchTimeout \in Nat \ {0} /\ DispatchTimeout < SlowMs
  /\ SlowMs \in Nat /\ NearKillMs \in Nat /\ HandlerTimeout \in Nat /\ MaxDuration \in Nat
  /\ SlowMs < NearKillMs /\ NearKillMs < HandlerTimeout /\ HandlerTimeout < MaxDuration
  /\ 2 * SlowMs < MaxDuration

VARIABLES
  at,        \* "new", "body-read", "dispatch", "streaming", "answered", "killed"
  body,      \* what the client is sending
  age,       \* since the invocation began
  timers,    \* [kind, of, due]: "slow", "near", "handler", or the "call" of its tool
  tripped,   \* armMcpWatchdog's, of the phase under way
  log,       \* what reaches the log: [phase, line]
  sentBy,    \* who answered
  calls,     \* the calls of the tool, <<>> before
  settled,   \* how the first call to fail, or else the last, left the tool
  badSlug,   \* one of its slugs is refused by safeSeg
  orphan,    \* a call failed that nobody waits for
  dispatched \* history: when the dispatch began
mcpVars == <<at, body, age, timers, tripped, log, sentBy, calls, settled, badSlug, orphan,
             dispatched>>
toolVars == <<calls, settled, badSlug, orphan>>

Completed(phase) == [phase |-> phase, line |-> "completed"]
Warning(kind) == IF kind = "slow" THEN "10s" ELSE "50s"
Watch == {"slow", "near"}
Timer(kind, ms) == [kind |-> kind, of |-> 0, due |-> age + ms]
-----------------------------------------------------------------------------
\* Mutant: only the dispatch is watched.
ArmedInDispatch(phase, others) ==
  IF phase = "dispatch"
    THEN others \union {Timer("slow", SlowMs), Timer("near", NearKillMs)}
    ELSE others

\* armMcpWatchdog
Armed(phase, others) ==
  others \union {Timer("slow", SlowMs), Timer("near", NearKillMs)}

\* disarm: it speaks only if the watchdog did.
Disarmed == {t \in timers : t.kind \notin Watch}
Told(phase) == IF tripped THEN Append(log, Completed(phase)) ELSE log

Rejected == {"empty", "unparseable", "too large", "batch"}

Dispatch(others) ==
  /\ at' = "dispatch" /\ dispatched' = age
  /\ timers' = Armed("dispatch", others)
                 \union {Timer("handler", HandlerTimeout)}

\* onlyCanonical, watched, and the first phase of postHandler.
Accept(method, canonical, b) ==
  /\ at = "new"
  /\ body' = b
  /\ \/ /\ ~canonical /\ at' = "answered" /\ sentBy' = "wrong transport"
        /\ UNCHANGED <<timers, dispatched>>
     \/ /\ canonical /\ method = "POST" /\ at' = "body-read"
        /\ timers' = Armed("body-read", timers)
        /\ UNCHANGED <<sentBy, dispatched>>
     \/ canonical /\ method # "POST" /\ Dispatch(timers) /\ UNCHANGED sentBy
  /\ UNCHANGED <<age, tripped, log, toolVars>>

\* The body is there, and inspectMcpBody looks at it.
BodyRead ==
  /\ at = "body-read"
  /\ log' = Told("body-read") /\ tripped' = FALSE
  /\ IF body \in Rejected
       THEN /\ at' = "answered" /\ sentBy' = "rejected" /\ timers' = Disarmed
            /\ UNCHANGED dispatched
       ELSE Dispatch(Disarmed) /\ UNCHANGED sentBy
  /\ UNCHANGED <<body, age, toolVars>>

\* The client goes away in the middle of its body.
BodyBreaks ==
  /\ at = "body-read"
  /\ at' = "answered" /\ sentBy' = "broken" /\ timers' = Disarmed
  /\ log' = Told("body-read") /\ tripped' = FALSE
  /\ UNCHANGED <<body, age, toolVars, dispatched>>
-----------------------------------------------------------------------------
(* The tool and its calls.                                                 *)

Waited(i) == [kind |-> "call", of |-> i, due |-> age + DispatchTimeout]

\* The library hands the message to one of the tools: n calls at once.  A slug that safeSeg
\* refuses throws before the calls after it are made: those before it run on by themselves.
CallTool(n, refused) ==
  /\ at \in {"dispatch", "streaming"} /\ body = "call" /\ calls = <<>> /\ settled = "no"
  /\ badSlug' = refused
  /\ calls' = [i \in 1..(IF refused THEN n - 1 ELSE n) |-> "pending"]
  /\ settled' = IF refused THEN "error" ELSE "no"
  /\ timers' = timers \union {Waited(i) : i \in DOMAIN calls'}
  /\ UNCHANGED <<at, body, age, tripped, log, sentBy, orphan, dispatched>>

\* Promise.all: the first to fail decides, and the others are no longer waited for.
After(i, how) ==
  IF settled # "no" THEN settled
  ELSE IF how # "ok" THEN "error"
  ELSE IF \A j \in DOMAIN calls \ {i} : calls[j] = "ok" THEN "ok" ELSE "no"

CallEnds(i, how) ==
  /\ at \in {"dispatch", "streaming", "answered"}
  /\ i \in DOMAIN calls /\ calls[i] = "pending"
  /\ how = "timeout" => [kind |-> "call", of |-> i, due |-> age] \in timers
  /\ calls' = [calls EXCEPT ![i] = how]
  /\ settled' = After(i, how)
  /\ timers' = {t \in timers : t.of # i}
  /\ orphan' = (orphan \/ (badSlug /\ how # "ok"))
  /\ UNCHANGED <<at, body, age, tripped, log, sentBy, badSlug, dispatched>>

\* The library sends its headers: the phase is over, the rest is a stream.
Handled ==
  /\ at = "dispatch"
  /\ at' = IF settled # "no" \/ body # "call" THEN "answered" ELSE "streaming"
  /\ sentBy' = "handled"
  /\ timers' = {t \in Disarmed : t.kind # "handler"}
  /\ log' = Told("dispatch") /\ tripped' = FALSE
  /\ UNCHANGED <<body, age, toolVars, dispatched>>

StreamEnds ==
  /\ at = "streaming" /\ settled # "no"
  /\ at' = "answered"
  /\ UNCHANGED <<body, age, timers, tripped, log, sentBy, toolVars, dispatched>>
-----------------------------------------------------------------------------
Due(kind) == \E t \in timers : t.kind = kind /\ t.due <= age

Warn(kind) ==
  /\ at \in {"body-read", "dispatch"} /\ kind \in Watch /\ Due(kind)
  /\ log' = Append(log, [phase |-> at, line |-> Warning(kind)])
  /\ tripped' = TRUE
  /\ timers' = {t \in timers : t.kind # kind}
  /\ UNCHANGED <<at, body, age, sentBy, toolVars, dispatched>>

\* withHandlerTimeout
Forced ==
  /\ at = "dispatch" /\ Due("handler")
  /\ at' = "answered" /\ sentBy' = "forced"
  /\ timers' = {t \in Disarmed : t.kind # "handler"}
  /\ log' = LET cut == [phase |-> "dispatch", line |-> "timeout"]
            IN IF tripped THEN Append(Append(log, cut), Completed("dispatch")) ELSE Append(log, cut)
  /\ tripped' = FALSE
  /\ UNCHANGED <<body, age, toolVars, dispatched>>

\* The platform ends the invocation, whatever else is due at that moment.
Killed ==
  /\ at \in {"body-read", "dispatch", "streaming"} /\ age >= MaxDuration
  /\ at' = "killed" /\ timers' = {}
  /\ UNCHANGED <<body, age, tripped, log, sentBy, toolVars, dispatched>>

Pass ==
  /\ \/ at \in {"body-read", "dispatch", "streaming"} /\ age < MaxDuration
     \/ at = "answered" /\ timers # {}
  /\ \A t \in timers : t.due > age
  /\ age' = age + 1
  /\ UNCHANGED <<at, body, timers, tripped, log, sentBy, toolVars, dispatched>>
-----------------------------------------------------------------------------
Bodies == Rejected \union {"call", "other"}

McpInit ==
  /\ at = "new" /\ body = "other" /\ age = 0 /\ timers = {} /\ tripped = FALSE /\ log = <<>>
  /\ sentBy = "none" /\ calls = <<>> /\ settled = "no" /\ badSlug = FALSE /\ orphan = FALSE
  /\ dispatched = 0

McpNext ==
  \/ \E m \in {"POST", "GET"}, c \in BOOLEAN, b \in Bodies : Accept(m, c, b)
  \/ BodyRead \/ BodyBreaks
  \/ \E n \in 1..Fanout, refused \in BOOLEAN : CallTool(n, refused)
  \/ \E i \in 1..Fanout, how \in {"ok", "refused", "timeout"} : CallEnds(i, how)
  \/ Handled \/ StreamEnds
  \/ \E kind \in Watch : Warn(kind)
  \/ Forced \/ Killed \/ Pass

McpSpec == McpInit /\ [][McpNext]_mcpVars
-----------------------------------------------------------------------------
McpTypeOK ==
  /\ at \in {"new", "body-read", "dispatch", "streaming", "answered", "killed"}
  /\ body \in Bodies /\ age \in Nat /\ dispatched \in Nat
  /\ tripped \in BOOLEAN /\ badSlug \in BOOLEAN /\ orphan \in BOOLEAN
  /\ settled \in {"no", "ok", "error"}
  /\ sentBy \in {"none", "wrong transport", "rejected", "broken", "handled", "forced"}

\* The log tells the hung from the slow: a request that is killed in one of its phases has
\* left a warning, whichever phase took the time; a warning has a completion after it if and
\* only if its phase ended; and a handler that was given up is named.
KilledIsLogged ==
  /\ at = "killed" /\ sentBy = "none" => log # <<>>
  /\ \A i \in DOMAIN log : log[i].line \in {"10s", "50s"} =>
       \/ log[i].phase = at \/ at = "killed"
       \/ Completed(log[i].phase) \in {log[j] : j \in (i + 1)..Len(log)}
  /\ sentBy = "forced" <=> \E i \in DOMAIN log : log[i].line = "timeout"

\* A request whose body came in time is answered in time, if only by the 504: who is killed
\* without an answer was still sending, or began its dispatch too late for the timeout.
AnsweredInTime ==
  at = "killed" /\ sentBy = "none" =>
    dispatched = 0 \/ dispatched + HandlerTimeout >= MaxDuration

\* Once it is answered nothing holds the invocation open but calls a tool no longer waits
\* for, and those not for long; and such a call can fail unheard only when a slug was bad.
NothingLingers ==
  /\ at = "answered" =>
       \A t \in timers : t.kind \notin Watch \union {"handler"} /\ t.due <= age + DispatchTimeout
  /\ orphan => badSlug

\* Stalled bodies, a library that never answers, calls that outlast their tool: whatever
\* hangs is either answered or seen in the log, and nothing is left behind.
\* (route.ts:365-381, mcpWatchdog.ts:9-34)
HangsAreSeen == KilledIsLogged /\ AnsweredInTime /\ NothingLingers
=============================================================================
