------------------------------ MODULE LoginOAuth ------------------------------
(***************************************************************************)
(* Self-serve login: lib/loginOAuth.ts, lib/loginStore.ts, lib/issueKey.ts *)
(* and the routes auth/login/start and auth/login/callback.                *)
(*                                                                         *)
(* A browser starts a login and receives a one-time state twice: in the    *)
(* provider's URL and in a cookie of its own.  The provider sends whoever  *)
(* authorised back with a link (state and code); any browser may open any  *)
(* link.  The callback checks the cookie, consumes the state with GETDEL,  *)
(* asks the provider who authorised, and has the Supabase RPC persist a    *)
(* fresh key, which rotates the account's previous key out.                *)
(*                                                                         *)
(* A key stands for its hash, and an account for <provider>:<subject>.  The *)
(* delivery modes (loopback redirect, postMessage) differ in where the page *)
(* hands the key on, which no property here tells apart.                   *)
(***************************************************************************)
EXTENDS FiniteSets, Naturals

CONSTANTS
  Browser, Account,
  LoginId,        \* the states genState can return; a bound on logins
  Key,            \* the keys generateApiKey can return
  LoginReq,       \* requests in flight at the same time
  LoginOutcomes,  \* what can become of a Redis command
  RpcOutcomes,    \* what can become of the issue_api_key RPC
  Replies,        \* what can become of the callback's response
  LoginRetries,   \* re-sends the Redis client makes
  NoLoginId, NoKey, NoAccount, NoBrowser

ASSUME LoginConstants ==
  /\ LoginOutcomes \subseteq {"ok", "resent", "refused", "unacked"}
  /\ RpcOutcomes \subseteq {"ok", "refused", "unacked"}
  /\ Replies \subseteq {"delivered", "lost"}
  /\ LoginRetries \in Nat
  /\ NoLoginId \notin LoginId /\ NoKey \notin Key /\ NoAccount \notin Account
  /\ NoBrowser \notin Browser

VARIABLES
  accountOf,      \* the GitHub account each browser is signed in to
  loginState,     \* login:state:<state> is present
  cookies,        \* per browser, the states it holds a __Host- cookie for
  links,          \* callback URLs the provider has redirected to
  logins,         \* requests in flight
  activeKey,      \* Supabase: the account's active key
  issued,         \* Supabase: every key persisted, with the login it came from
  generated,      \* history: states generated so far
  mintedKeys,     \* history: keys generated so far
  startedBy,      \* history: the browser each login's 302 went to
  shown,          \* history: the keys shown, and in which browser
  dropped         \* history: keys persisted whose answer never reached the browser

loginVars == <<accountOf, loginState, cookies, links, logins, activeKey, issued, generated,
               mintedKeys, startedBy, shown, dropped>>
-----------------------------------------------------------------------------
Pcs == {"idle", "start_set", "cb_getdel", "cb_exchange", "cb_issue", "cb_show",
        "cb_fail"}

NoLogin == [pc |-> "idle", browser |-> NoBrowser, state |-> NoLoginId,
            account |-> NoAccount, key |-> NoKey, left |-> LoginRetries]

LoginRequest == [pc: Pcs, browser: Browser \cup {NoBrowser},
                 state: LoginId \cup {NoLoginId}, account: Account \cup {NoAccount},
                 key: Key \cup {NoKey}, left: 0..LoginRetries]

\* A link carries a state and a code; the code stands for the account that
\* authorised, NoAccount for a redirect without one (the user declined).
Link == [state: LoginId, account: Account \cup {NoAccount}]

LoginAt(p, pc) == logins[p].pc = pc
LoginGoto(p, r) == logins' = [logins EXCEPT ![p] = r]

\* A Redis command is answered and leads to `next`, is sent again, or throws and
\* leads to `thrown`.
LoginContinue(p, o, next, thrown) ==
  /\ o = "resent" => logins[p].left > 0
  /\ LoginGoto(p, CASE o = "ok"     -> [next EXCEPT !.left = LoginRetries]
               [] o = "resent" -> [logins[p] EXCEPT !.left = @ - 1]
               [] OTHER        -> thrown)

NoKeyMoves == UNCHANGED <<accountOf, activeKey, issued, shown, dropped>>

Failed(p) == [logins[p] EXCEPT !.pc = "cb_fail", !.left = LoginRetries]
-----------------------------------------------------------------------------
(* login/start                                                             *)

\* The route after the flag, the cross-site refusal, the rate limit and the
\* loopback check.  Bound: the number of states.
StartArrive(p) ==
  /\ LoginAt(p, "idle")
  /\ \E b \in Browser, s \in LoginId \ generated :
       /\ generated' = generated \cup {s}
       /\ LoginGoto(p, [NoLogin EXCEPT !.pc = "start_set", !.browser = b, !.state = s])
  /\ UNCHANGED <<loginState, cookies, links, mintedKeys, startedBy>> /\ NoKeyMoves

\* Mutant: one cookie name for every login of a browser.
CookiesWithOneName(b, s) == {s}

\* One cookie per state, named by its prefix.
CookiesWith(b, s) == cookies[b] \cup {s}

\* SET NX EX; the 302 carries the URL and the cookie.
StartSet(p) ==
  /\ LoginAt(p, "start_set")
  /\ \E o \in LoginOutcomes :
       LET s == logins[p].state  b == logins[p].browser
           set == o # "refused" /\ ~loginState[s]
       IN  /\ LoginContinue(p, o, NoLogin, NoLogin)
           /\ loginState' = IF set THEN [loginState EXCEPT ![s] = TRUE]
                            ELSE loginState
           /\ IF set /\ o = "ok"
              THEN /\ cookies' = [cookies EXCEPT ![b] = CookiesWith(b, s)]
                   /\ startedBy' = [startedBy EXCEPT ![s] = b]
              ELSE UNCHANGED <<cookies, startedBy>>
  /\ UNCHANGED <<links, generated, mintedKeys>> /\ NoKeyMoves

\* The provider: the browser authorises as its own account, or declines.
Authorize(b, s) ==
  /\ startedBy[s] = b
  /\ \E a \in {accountOf[b], NoAccount} :
       links' = links \cup {[state |-> s, account |-> a]}
  /\ UNCHANGED <<loginState, cookies, logins, generated, mintedKeys, startedBy>> /\ NoKeyMoves

\* Redis EX and the cookie's Max-Age are the same 600 s.
LoginExpires(s) ==
  /\ loginState[s]
  /\ loginState' = [loginState EXCEPT ![s] = FALSE]
  /\ UNCHANGED <<cookies, links, logins, generated, mintedKeys, startedBy>> /\ NoKeyMoves

ExpireCookie(b, s) ==
  /\ s \in cookies[b]
  /\ cookies' = [cookies EXCEPT ![b] = @ \ {s}]
  /\ UNCHANGED <<loginState, links, logins, generated, mintedKeys, startedBy>> /\ NoKeyMoves
-----------------------------------------------------------------------------
(* login/callback                                                          *)

\* Mutant: the callback does not ask for the cookie.
CookieMatchesAny(b, s) == TRUE

\* stateMatchesCookie on the cookie the browser sends.
CookieMatches(b, s) == s \in cookies[b]

\* A browser opens a link.  Without its cookie the answer is 400 and nothing
\* happens; without a code completeLogin stops before the state is consumed.
CallbackArrive(p) ==
  /\ LoginAt(p, "idle")
  /\ \E b \in Browser, l \in links :
       /\ CookieMatches(b, l.state)
       /\ LoginGoto(p, [NoLogin EXCEPT !.pc = IF l.account = NoAccount THEN "cb_fail"
                                              ELSE "cb_getdel",
                                       !.browser = b, !.state = l.state,
                                       !.account = l.account])
  /\ UNCHANGED <<loginState, cookies, links, generated, mintedKeys, startedBy>> /\ NoKeyMoves

\* Mutant: the state is read and left in place.
StateAfterGet(s) == loginState

\* GETDEL: read and consumed in one command.
StateAfterGetdel(s) == [loginState EXCEPT ![s] = FALSE]

CallbackGetdel(p) ==
  /\ LoginAt(p, "cb_getdel")
  /\ \E o \in LoginOutcomes :
       LET s == logins[p].state
       IN  /\ LoginContinue(p, o, IF loginState[s]
                                  THEN [logins[p] EXCEPT !.pc = "cb_exchange"]
                                  ELSE Failed(p),                \* invalid_state
                            Failed(p))
           /\ loginState' = IF o = "refused" THEN loginState
                            ELSE StateAfterGetdel(s)
  /\ UNCHANGED <<cookies, links, generated, mintedKeys, startedBy>> /\ NoKeyMoves

\* exchangeCode and fetchUserId; both return null when the provider fails.
CallbackExchange(p) ==
  /\ LoginAt(p, "cb_exchange")
  /\ \/ LoginGoto(p, Failed(p)) /\ UNCHANGED mintedKeys
     \/ \E k \in Key \ mintedKeys :
          /\ mintedKeys' = mintedKeys \cup {k}
          /\ LoginGoto(p, [logins[p] EXCEPT !.pc = "cb_issue", !.key = k])
  /\ UNCHANGED <<loginState, cookies, links, generated, startedBy>> /\ NoKeyMoves

\* issueApiKey returns the key only for a 2xx answer.
KeyAnswered(o) == o = "ok"

\* Mutant: one key is generated for the hash and another for the answer.
PersistedOther(p) == CHOOSE k \in Key : k # logins[p].key

\* The hash that is posted is that of the key that is answered.
Persisted(p) == logins[p].key

\* The RPC persists the key and rotates the account's previous one out; a
\* timeout or a 5xx from a gateway may follow a commit.
CallbackIssue(p) ==
  /\ LoginAt(p, "cb_issue")
  /\ \E o \in RpcOutcomes :
       /\ LoginGoto(p, IF KeyAnswered(o) THEN [logins[p] EXCEPT !.pc = "cb_show"]
                       ELSE Failed(p))                            \* issue_failed
       /\ IF o = "refused" THEN UNCHANGED <<activeKey, issued>>
          ELSE /\ activeKey' = [activeKey EXCEPT ![logins[p].account] = Persisted(p)]
               /\ issued' = issued \cup {[state |-> logins[p].state,
                                          account |-> logins[p].account,
                                          key |-> Persisted(p)]}
       /\ dropped' = IF o = "unacked" THEN dropped \cup {Persisted(p)} ELSE dropped
  /\ UNCHANGED <<accountOf, loginState, cookies, links, generated, mintedKeys, startedBy,
                 shown>>

\* The response reaches the browser: the page shows the key (or the failure) and
\* the cookie of this state is dropped on every answer.
CallbackAnswer(p) ==
  /\ LoginAt(p, "cb_show") \/ LoginAt(p, "cb_fail")
  /\ \E reply \in Replies :
       LET b == logins[p].browser  s == logins[p].state
       IN  IF reply = "lost"
           THEN /\ dropped' = dropped \cup ({logins[p].key} \ {NoKey})
                /\ UNCHANGED <<cookies, shown>>
           ELSE /\ cookies' = [cookies EXCEPT ![b] = @ \ {s}]
                /\ shown' = IF LoginAt(p, "cb_show")
                            THEN shown \cup {[browser |-> b, state |-> s,
                                              key |-> logins[p].key]}
                            ELSE shown
                /\ UNCHANGED dropped
  /\ LoginGoto(p, NoLogin)
  /\ UNCHANGED <<accountOf, loginState, links, activeKey, issued, generated, mintedKeys,
                 startedBy>>
-----------------------------------------------------------------------------
LoginInit ==
  /\ accountOf \in [Browser -> Account] /\ dropped = {}
  /\ loginState = [s \in LoginId |-> FALSE]
  /\ cookies = [b \in Browser |-> {}]
  /\ links = {} /\ issued = {} /\ generated = {} /\ mintedKeys = {} /\ shown = {}
  /\ logins = [p \in LoginReq |-> NoLogin]
  /\ activeKey = [a \in Account |-> NoKey]
  /\ startedBy = [s \in LoginId |-> NoBrowser]

LoginStep(p) ==
  \/ StartArrive(p) \/ StartSet(p)
  \/ CallbackArrive(p) \/ CallbackGetdel(p) \/ CallbackExchange(p)
  \/ CallbackIssue(p) \/ CallbackAnswer(p)

LoginNext ==
  \/ \E p \in LoginReq : LoginStep(p)
  \/ \E s \in LoginId : LoginExpires(s)
  \/ \E b \in Browser, s \in LoginId : Authorize(b, s) \/ ExpireCookie(b, s)

LoginSpec == LoginInit /\ [][LoginNext]_loginVars
-----------------------------------------------------------------------------
(* Properties.                                                             *)

\* Every variable holds a value of its kind.
LoginTypeOK ==
  /\ loginState \in [LoginId -> BOOLEAN]
  /\ cookies \in [Browser -> SUBSET LoginId]
  /\ links \subseteq Link
  /\ logins \in [LoginReq -> LoginRequest]
  /\ activeKey \in [Account -> Key \cup {NoKey}]
  /\ issued \subseteq [state: LoginId, account: Account, key: Key]
  /\ generated \subseteq LoginId /\ mintedKeys \subseteq Key
  /\ startedBy \in [LoginId -> Browser \cup {NoBrowser}]
  /\ shown \subseteq [browser: Browser, state: LoginId, key: Key]
  /\ accountOf \in [Browser -> Account] /\ dropped \subseteq Key

\* The browser binding of the one-time state: whichever link a browser opens, it
\* is never shown a key of an account other than its own.
ShownKeyIsOwn ==
  \A d \in shown, r \in issued : d.key = r.key => r.account = accountOf[d.browser]

\* The state is one-time: whatever is re-sent, reloaded or lost, one login mints
\* at most one key.
OneKeyPerLogin == \A q, r \in issued : q.state = r.state => q = r

\* Issuance is fail-closed: a key that was shown had been persisted.
ShownWasPersisted == \A d \in shown : \E r \in issued : r.key = d.key

\* A CLI login and a /claim login running together do not overwrite each other:
\* a browser's cookie for one login goes away only with that login's own answer
\* (or its Max-Age).
LoginsDoNotInterfere ==
  [][\A b \in Browser, s \in LoginId :
       s \in cookies[b] /\ s \notin cookies'[b] =>
         \/ ExpireCookie(b, s)
         \/ \E p \in LoginReq : logins[p].state = s /\ logins'[p] = NoLogin]_loginVars

InFlight(a) == \E p \in LoginReq :
  logins[p].account = a /\ logins[p].pc \in {"cb_issue", "cb_show"}

Shown == {d.key : d \in shown}

\* When no login of an account is on its way to a key, the account's active key is one
\* its owner was shown, however its logins in several browsers overlap, unless the answer
\* of the call that persisted it, or of the callback, was lost.
LiveKeyShownUnlessDropped ==
  \A a \in Account :
    activeKey[a] # NoKey /\ ~InFlight(a) => activeKey[a] \in Shown \cup dropped

\* The keys on the pages and the keys in the store: each shown key is its owner's, one per
\* login and persisted, and an active one was shown. (issueKey.ts:83, loginStore.ts:38)
ShownKeysAreRight ==
  ShownKeyIsOwn /\ OneKeyPerLogin /\ ShownWasPersisted /\ LiveKeyShownUnlessDropped

\* The requests, cookies and the store together keep what LoginPromise says.
Promise == INSTANCE LoginPromise WITH State <- LoginId
PromiseKept == Promise!Spec
=============================================================================
