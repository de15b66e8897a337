---------------------------- MODULE LoginProofs -----------------------------
(***************************************************************************)
(* Theorems about LoginOAuth for every number of browsers, accounts,       *)
(* logins, keys and concurrent requests, and every mix of lost, refused    *)
(* and repeated commands.                                                  *)
(***************************************************************************)
EXTENDS LoginOAuth, TLAPS

(***************************************************************************)
(* The inductive invariant follows a login from its state to its key.      *)
(*   BrowserInv  whose login it is: cookies, links and callbacks carry the *)
(*               browser its 302 went to, and that browser's account;      *)
(*   OnceInv     the state mints once: a callback past its GETDEL, or a    *)
(*               key already persisted, leaves nothing to consume, and no  *)
(*               start can set it again;                                   *)
(*   KeyInv      each key is of one request or of one login;               *)
(*   LiveInv     the active key is on a page, dropped or on its way.       *)
(***************************************************************************)
CallbackPcs == {"cb_getdel", "cb_exchange", "cb_issue", "cb_show", "cb_fail"}
KeyedPcs == {"cb_issue", "cb_show"}

Owner(s) == accountOf[startedBy[s]]

BrowserInv ==
  /\ \A b \in Browser : \A s \in cookies[b] : startedBy[s] = b
  /\ \A l \in links :
       startedBy[l.state] # NoBrowser /\ l.account \in {Owner(l.state), NoAccount}
  /\ \A p \in LoginReq :
       /\ logins[p].pc = "start_set" =>
            /\ logins[p].state \in generated /\ logins[p].browser \in Browser
            /\ startedBy[logins[p].state] = NoBrowser
            /\ \A q \in LoginReq : logins[q].pc = "start_set" /\ logins[q].state = logins[p].state => q = p
       /\ logins[p].pc \in CallbackPcs =>
            /\ logins[p].state \in LoginId /\ logins[p].browser \in Browser
            /\ startedBy[logins[p].state] = logins[p].browser
       /\ logins[p].pc \in {"cb_getdel", "cb_exchange", "cb_issue", "cb_show"} =>
            logins[p].account = accountOf[logins[p].browser]
  /\ \A s \in LoginId : s \notin generated => startedBy[s] = NoBrowser

OnceInv ==
  /\ \A p \in LoginReq : logins[p].pc \in {"cb_exchange", "cb_issue"} =>
       /\ ~loginState[logins[p].state]
       /\ \A q \in LoginReq :
            logins[q].pc \in {"cb_exchange", "cb_issue"} /\ logins[q].state = logins[p].state => q = p
       /\ \A r \in issued : r.state # logins[p].state
  /\ \A r \in issued :
       /\ startedBy[r.state] # NoBrowser /\ r.account = Owner(r.state)
       /\ ~loginState[r.state]
       /\ \A q \in issued : q.state = r.state => q = r

KeyInv ==
  /\ \A r \in issued : r.key \in mintedKeys /\ \A q \in issued : q.key = r.key => q = r
  /\ \A p \in LoginReq : logins[p].pc \in KeyedPcs =>
       /\ logins[p].key \in mintedKeys
       /\ \A q \in LoginReq : logins[q].pc \in KeyedPcs /\ logins[q].key = logins[p].key => q = p
  /\ \A p \in LoginReq : logins[p].pc = "cb_issue" => \A r \in issued : r.key # logins[p].key
  /\ \A p \in LoginReq : logins[p].pc = "cb_show" =>
       [state |-> logins[p].state, account |-> logins[p].account, key |-> logins[p].key] \in issued
  /\ \A d \in shown :
       [state |-> d.state, account |-> accountOf[d.browser], key |-> d.key] \in issued

LiveInv ==
  \A a \in Account : activeKey[a] # NoKey =>
    \/ activeKey[a] \in Shown \cup dropped
    \/ \E p \in LoginReq : logins[p].pc = "cb_show" /\ logins[p].account = a /\ logins[p].key = activeKey[a]

IInv == LoginTypeOK /\ BrowserInv /\ OnceInv /\ KeyInv /\ LiveInv
-----------------------------------------------------------------------------
Alike(a, b) == /\ a.pc = b.pc /\ a.browser = b.browser /\ a.state = b.state
               /\ a.account = b.account /\ a.key = b.key

LEMMA IdleIsRequest == NoLogin \in LoginRequest
BY LoginConstants DEF NoLogin, LoginRequest, Pcs

LEMMA FailedIsRequest ==
  ASSUME LoginTypeOK, NEW p \in LoginReq PROVE Failed(p) \in LoginRequest
<1>1. logins[p] \in LoginRequest BY DEF LoginTypeOK
<1>2. LoginRetries \in 0..LoginRetries BY LoginConstants
<1> QED BY <1>1, <1>2 DEF Failed, LoginRequest, Pcs

\* Whatever becomes of its command, a request stands at `next`, where it was, or at `thrown`.
LEMMA ContinueFields ==
  ASSUME LoginTypeOK, NEW p \in LoginReq, NEW o, NEW next \in LoginRequest, NEW thrown \in LoginRequest,
         LoginContinue(p, o, next, thrown)
  PROVE  /\ logins' \in [LoginReq -> LoginRequest]
         /\ \A q \in LoginReq : q # p => logins'[q] = logins[q]
         /\ \/ o = "ok" /\ Alike(logins'[p], next)
            \/ o = "resent" /\ Alike(logins'[p], logins[p])
            \/ o \notin {"ok", "resent"} /\ logins'[p] = thrown
<1>1. logins[p] \in LoginRequest BY DEF LoginTypeOK
<1>2. CASE o = "resent"
  <2>1. logins[p].left - 1 \in 0..LoginRetries
    BY <1>1, <1>2, LoginConstants DEF LoginContinue, LoginRequest
  <2>2. [logins[p] EXCEPT !.left = @ - 1] \in LoginRequest BY <1>1, <2>1 DEF LoginRequest
  <2> QED BY <1>1, <1>2, <2>2 DEF LoginContinue, LoginGoto, LoginTypeOK, Alike, LoginRequest
<1>3. CASE o = "ok"
  <2>1. [next EXCEPT !.left = LoginRetries] \in LoginRequest BY LoginConstants DEF LoginRequest
  <2> QED BY <1>3, <2>1 DEF LoginContinue, LoginGoto, LoginTypeOK, Alike, LoginRequest
<1>4. CASE o \notin {"ok", "resent"}
  BY <1>4 DEF LoginContinue, LoginGoto, LoginTypeOK
<1> QED BY <1>2, <1>3, <1>4
-----------------------------------------------------------------------------
LEMMA InitIInv == LoginInit => IInv
<1> SUFFICES ASSUME LoginInit PROVE IInv OBVIOUS
<1>1. LoginTypeOK BY IdleIsRequest DEF LoginInit, LoginTypeOK
<1>2. BrowserInv BY DEF LoginInit, BrowserInv, NoLogin, CallbackPcs
<1>3. OnceInv BY DEF LoginInit, OnceInv, NoLogin
<1>4. KeyInv BY DEF LoginInit, KeyInv, NoLogin, KeyedPcs
<1>5. LiveInv BY DEF LoginInit, LiveInv
<1> QED BY <1>1, <1>2, <1>3, <1>4, <1>5 DEF IInv

LEMMA StartArriveStep == ASSUME IInv, NEW p \in LoginReq, StartArrive(p) PROVE IInv'
<1>1. PICK b \in Browser, s \in LoginId \ generated :
        /\ generated' = generated \cup {s}
        /\ LoginGoto(p, [NoLogin EXCEPT !.pc = "start_set", !.browser = b, !.state = s])
  BY DEF StartArrive
<1> DEFINE r == [NoLogin EXCEPT !.pc = "start_set", !.browser = b, !.state = s]
<1>2. r \in LoginRequest /\ r.pc = "start_set" /\ r.browser = b /\ r.state = s
  BY IdleIsRequest DEF NoLogin, LoginRequest, Pcs
<1>3. logins' = [logins EXCEPT ![p] = r] BY <1>1 DEF LoginGoto
<1>4. logins'[p] = r /\ \A q \in LoginReq : q # p => logins'[q] = logins[q]
  BY <1>3 DEF IInv, LoginTypeOK
<1> HIDE DEF r
<1>5. LoginTypeOK' BY <1>1, <1>2, <1>3 DEF StartArrive, NoKeyMoves, IInv, LoginTypeOK
<1>6. BrowserInv'
  BY <1>1, <1>2, <1>4 DEF StartArrive, NoKeyMoves, IInv, LoginTypeOK, BrowserInv, CallbackPcs, Owner
<1>7. OnceInv'
  BY <1>2, <1>4 DEF StartArrive, NoKeyMoves, IInv, OnceInv, Owner
<1>8. KeyInv'
  BY <1>2, <1>4 DEF StartArrive, NoKeyMoves, IInv, KeyInv, KeyedPcs
<1>9. LiveInv'
  BY <1>2, <1>4 DEF StartArrive, NoKeyMoves, IInv, LiveInv, Shown, LoginAt
<1> QED BY <1>5, <1>6, <1>7, <1>8, <1>9 DEF IInv

LEMMA StartSetStep == ASSUME IInv, NEW p \in LoginReq, StartSet(p) PROVE IInv'
<1> DEFINE s == logins[p].state
           b == logins[p].browser
<1>1. PICK o \in LoginOutcomes :
        LET set == o # "refused" /\ ~loginState[s]
        IN  /\ LoginContinue(p, o, NoLogin, NoLogin)
            /\ loginState' = IF set THEN [loginState EXCEPT ![s] = TRUE] ELSE loginState
            /\ IF set /\ o = "ok"
               THEN /\ cookies' = [cookies EXCEPT ![b] = CookiesWith(b, s)]
                    /\ startedBy' = [startedBy EXCEPT ![s] = b]
               ELSE UNCHANGED <<cookies, startedBy>>
  BY DEF StartSet
<1>2. /\ logins' \in [LoginReq -> LoginRequest]
      /\ \A q \in LoginReq : q # p => logins'[q] = logins[q]
      /\ \/ o = "ok" /\ Alike(logins'[p], NoLogin)
         \/ o = "resent" /\ Alike(logins'[p], logins[p])
         \/ o \notin {"ok", "resent"} /\ logins'[p] = NoLogin
  BY <1>1, IdleIsRequest, ContinueFields DEF IInv
<1>3. /\ logins[p].pc = "start_set" /\ s \in generated /\ s \in LoginId /\ b \in Browser
      /\ startedBy[s] = NoBrowser
  BY DEF StartSet, LoginAt, IInv, LoginTypeOK, BrowserInv
<1>4. \/ Alike(logins'[p], NoLogin) /\ NoLogin.pc = "idle" /\ logins'[p].pc = "idle"
      \/ /\ o = "resent" /\ Alike(logins'[p], logins[p])
         /\ logins'[p].pc = "start_set" /\ logins'[p].state = s /\ logins'[p].browser = b
  BY <1>2, <1>3 DEF Alike, NoLogin
<1>5. o \in {"resent", "ok"} \/ UNCHANGED <<cookies, startedBy>> BY <1>1
<1>6. \/ UNCHANGED <<cookies, startedBy>>
      \/ /\ o = "ok" /\ logins'[p].pc = "idle"
         /\ cookies' = [cookies EXCEPT ![b] = cookies[b] \cup {s}]
         /\ startedBy' = [startedBy EXCEPT ![s] = b]
  BY <1>1, <1>4 DEF CookiesWith
<1>7. \A t \in LoginId : t # s => loginState'[t] = loginState[t]
  BY <1>1, <1>3 DEF IInv, LoginTypeOK
<1>8. loginState' \in [LoginId -> BOOLEAN] BY <1>1, <1>3 DEF IInv, LoginTypeOK
<1>9. UNCHANGED <<links, generated, mintedKeys, accountOf, activeKey, issued, shown, dropped>>
  BY DEF StartSet, NoKeyMoves
<1> HIDE DEF s, b
<1>10. LoginTypeOK'
  BY <1>2, <1>3, <1>6, <1>8, <1>9 DEF IInv, LoginTypeOK
<1>11. \A t \in LoginId : startedBy[t] # NoBrowser => t # s /\ startedBy'[t] = startedBy[t]
  BY <1>3, <1>6 DEF IInv, LoginTypeOK
<1>12. BrowserInv'
  <2>1. \A c \in Browser : \A t \in cookies'[c] : startedBy'[t] = c
    BY <1>3, <1>6, <1>11, LoginConstants DEF IInv, LoginTypeOK, BrowserInv
  <2>2. \A l \in links' :
          /\ startedBy'[l.state] # NoBrowser
          /\ l.account \in {accountOf'[startedBy'[l.state]], NoAccount}
    BY <1>9, <1>11 DEF IInv, LoginTypeOK, BrowserInv, Owner, Link
  <2>3. \A q \in LoginReq : logins'[q].pc = "start_set" =>
            /\ logins'[q].state \in generated' /\ logins'[q].browser \in Browser
            /\ startedBy'[logins'[q].state] = NoBrowser
            /\ \A x \in LoginReq : logins'[x].pc = "start_set" /\ logins'[x].state = logins'[q].state => x = q
    <3> SUFFICES ASSUME NEW q \in LoginReq, logins'[q].pc = "start_set"
                 PROVE  /\ logins[q].pc = "start_set" /\ logins'[q].state = logins[q].state
                        /\ logins'[q].browser = logins[q].browser
                        /\ startedBy'[logins[q].state] = startedBy[logins[q].state]
                        /\ \A x \in LoginReq : logins'[x].pc = "start_set" =>
                             logins[x].pc = "start_set" /\ logins'[x].state = logins[x].state
      BY <1>9 DEF IInv, BrowserInv
    <3>1. \A x \in LoginReq : logins'[x].pc = "start_set" =>
             /\ logins[x].pc = "start_set" /\ logins'[x].state = logins[x].state
             /\ logins'[x].browser = logins[x].browser
      BY <1>2, <1>3, <1>4 DEF Alike, s
    <3>2. UNCHANGED startedBy \/ q # p BY <1>6
    <3>3. q # p => logins[q].state # s BY <1>3, <3>1 DEF IInv, BrowserInv, s
    <3>4. logins[q].state \in LoginId BY <3>1 DEF IInv, LoginTypeOK, BrowserInv
    <3>5. startedBy'[logins[q].state] = startedBy[logins[q].state]
      BY <1>6, <3>2, <3>3, <3>4 DEF IInv, LoginTypeOK
    <3> QED BY <3>1, <3>5
  <2>4. \A q \in LoginReq : logins'[q].pc \in CallbackPcs => q # p /\ logins'[q] = logins[q]
    BY <1>2, <1>4 DEF CallbackPcs
  <2>5. \A q \in LoginReq : logins'[q].pc \in CallbackPcs =>
            /\ logins'[q].state \in LoginId /\ logins'[q].browser \in Browser
            /\ startedBy'[logins'[q].state] = logins'[q].browser
    BY <1>11, <2>4, LoginConstants DEF IInv, BrowserInv
  <2>6. \A q \in LoginReq : logins'[q].pc \in {"cb_getdel", "cb_exchange", "cb_issue", "cb_show"} =>
            logins'[q].account = accountOf'[logins'[q].browser]
    BY <1>9, <2>4 DEF IInv, BrowserInv, CallbackPcs
  <2>7. \A t \in LoginId : t \notin generated' => startedBy'[t] = NoBrowser
    BY <1>3, <1>6, <1>9 DEF IInv, LoginTypeOK, BrowserInv
  <2> QED BY <2>1, <2>2, <2>3, <2>5, <2>6, <2>7 DEF BrowserInv, Owner
<1>13. OnceInv'
  <2>1. \A q \in LoginReq : logins'[q].pc \in {"cb_exchange", "cb_issue"} =>
          /\ q # p /\ logins'[q] = logins[q] /\ logins[q].state \in LoginId /\ logins[q].state # s
    BY <1>2, <1>4, <1>11, LoginConstants DEF IInv, BrowserInv, CallbackPcs
  <2>2. \A r \in issued : r.state \in LoginId /\ r.state # s /\ startedBy'[r.state] = startedBy[r.state]
    BY <1>11 DEF IInv, LoginTypeOK, OnceInv
  <2> QED BY <1>7, <1>9, <2>1, <2>2 DEF IInv, OnceInv, Owner
<1>14. \A q \in LoginReq : logins'[q].pc \in KeyedPcs => q # p /\ logins'[q] = logins[q]
  BY <1>2, <1>4 DEF KeyedPcs
<1>15. KeyInv' BY <1>9, <1>14 DEF IInv, KeyInv, KeyedPcs
<1>16. \A q \in LoginReq : logins[q].pc = "cb_show" => logins'[q] = logins[q] BY <1>2, <1>3
<1>17. LiveInv' BY <1>9, <1>16 DEF IInv, LiveInv, Shown
<1> QED BY <1>10, <1>12, <1>13, <1>15, <1>17 DEF IInv

LEMMA AuthorizeStep ==
  ASSUME IInv, NEW b \in Browser, NEW s \in LoginId, Authorize(b, s) PROVE IInv'
<1>1. PICK a \in {accountOf[b], NoAccount} : links' = links \cup {[state |-> s, account |-> a]}
  BY DEF Authorize
<1>2. startedBy[s] = b /\ UNCHANGED <<loginState, cookies, logins, generated, mintedKeys, startedBy,
                                      accountOf, activeKey, issued, shown, dropped>>
  BY DEF Authorize, NoKeyMoves
<1>3. LoginTypeOK' BY <1>1, <1>2 DEF IInv, LoginTypeOK, Link
<1>4. BrowserInv' BY <1>1, <1>2, LoginConstants DEF IInv, BrowserInv, Owner
<1>5. OnceInv' BY <1>2 DEF IInv, OnceInv, Owner
<1>6. KeyInv' BY <1>2 DEF IInv, KeyInv
<1>7. LiveInv' BY <1>2 DEF IInv, LiveInv, Shown
<1> QED BY <1>3, <1>4, <1>5, <1>6, <1>7 DEF IInv

LEMMA ExpireStateStep ==
  ASSUME IInv, NEW s \in LoginId, LoginExpires(s) PROVE IInv'
<1>1. UNCHANGED <<cookies, links, logins, generated, mintedKeys, startedBy,
                  accountOf, activeKey, issued, shown, dropped>>
  BY DEF LoginExpires, NoKeyMoves
<1>2. LoginTypeOK' BY <1>1 DEF LoginExpires, IInv, LoginTypeOK
<1>3. BrowserInv' BY <1>1 DEF IInv, BrowserInv, Owner
<1>4. \A t \in LoginId : ~loginState[t] => ~loginState'[t] BY DEF LoginExpires, IInv, LoginTypeOK
<1>5. OnceInv' BY <1>1, <1>4 DEF IInv, LoginTypeOK, BrowserInv, CallbackPcs, OnceInv, Owner
<1>6. KeyInv' BY <1>1 DEF IInv, KeyInv
<1>7. LiveInv' BY <1>1 DEF IInv, LiveInv, Shown
<1> QED BY <1>2, <1>3, <1>5, <1>6, <1>7 DEF IInv

LEMMA ExpireCookieStep ==
  ASSUME IInv, NEW b \in Browser, NEW s \in LoginId, ExpireCookie(b, s) PROVE IInv'
<1>1. UNCHANGED <<loginState, links, logins, generated, mintedKeys, startedBy,
                  accountOf, activeKey, issued, shown, dropped>>
  BY DEF ExpireCookie, NoKeyMoves
<1>2. LoginTypeOK' BY <1>1 DEF ExpireCookie, IInv, LoginTypeOK
<1>3. \A c \in Browser : cookies'[c] \subseteq cookies[c] BY DEF ExpireCookie, IInv, LoginTypeOK
<1>4. BrowserInv' BY <1>1, <1>3 DEF IInv, BrowserInv, Owner
<1>5. OnceInv' BY <1>1 DEF IInv, OnceInv, Owner
<1>6. KeyInv' BY <1>1 DEF IInv, KeyInv
<1>7. LiveInv' BY <1>1 DEF IInv, LiveInv, Shown
<1> QED BY <1>2, <1>4, <1>5, <1>6, <1>7 DEF IInv
-----------------------------------------------------------------------------
LEMMA CallbackArriveStep == ASSUME IInv, NEW p \in LoginReq, CallbackArrive(p) PROVE IInv'
<1>1. PICK b \in Browser, l \in links :
        /\ CookieMatches(b, l.state)
        /\ LoginGoto(p, [NoLogin EXCEPT !.pc = IF l.account = NoAccount THEN "cb_fail"
                                               ELSE "cb_getdel",
                                        !.browser = b, !.state = l.state,
                                        !.account = l.account])
  BY DEF CallbackArrive
<1> DEFINE r == [NoLogin EXCEPT !.pc = IF l.account = NoAccount THEN "cb_fail" ELSE "cb_getdel",
                                !.browser = b, !.state = l.state, !.account = l.account]
<1>2. l.state \in LoginId /\ l.account \in Account \cup {NoAccount}
  BY DEF IInv, LoginTypeOK, Link
<1>3. /\ r \in LoginRequest /\ r.browser = b /\ r.state = l.state /\ r.account = l.account
      /\ r.pc = IF l.account = NoAccount THEN "cb_fail" ELSE "cb_getdel"
  BY <1>2, IdleIsRequest DEF NoLogin, LoginRequest, Pcs
<1>4. logins' = [logins EXCEPT ![p] = r] BY <1>1 DEF LoginGoto
<1>5. logins'[p] = r /\ \A q \in LoginReq : q # p => logins'[q] = logins[q]
  BY <1>4 DEF IInv, LoginTypeOK
<1> HIDE DEF r
<1>6. startedBy[l.state] = b /\ l.account \in {accountOf[b], NoAccount}
  BY <1>1 DEF CookieMatches, IInv, BrowserInv, Owner
<1>7. UNCHANGED <<loginState, cookies, links, generated, mintedKeys, startedBy,
                  accountOf, activeKey, issued, shown, dropped>> /\ logins[p].pc = "idle"
  BY DEF CallbackArrive, NoKeyMoves, LoginAt
<1>8. LoginTypeOK' BY <1>3, <1>4, <1>7 DEF IInv, LoginTypeOK
<1>9. BrowserInv'
  BY <1>2, <1>3, <1>5, <1>6, <1>7 DEF IInv, BrowserInv, CallbackPcs, Owner
<1>10. OnceInv' BY <1>3, <1>5, <1>7 DEF IInv, OnceInv, Owner
<1>11. KeyInv' BY <1>3, <1>5, <1>7 DEF IInv, KeyInv, KeyedPcs
<1>12. LiveInv' BY <1>3, <1>5, <1>7 DEF IInv, LiveInv, Shown
<1> QED BY <1>8, <1>9, <1>10, <1>11, <1>12 DEF IInv

LEMMA CallbackGetdelStep == ASSUME IInv, NEW p \in LoginReq, CallbackGetdel(p) PROVE IInv'
<1> DEFINE s == logins[p].state
           next == IF loginState[s] THEN [logins[p] EXCEPT !.pc = "cb_exchange"] ELSE Failed(p)
<1>1. PICK o \in LoginOutcomes :
        /\ LoginContinue(p, o, next, Failed(p))
        /\ loginState' = IF o = "refused" THEN loginState ELSE StateAfterGetdel(s)
  BY DEF CallbackGetdel
<1>2. /\ logins[p].pc = "cb_getdel" /\ s \in LoginId /\ logins[p].browser \in Browser
      /\ startedBy[s] = logins[p].browser /\ logins[p].account = accountOf[logins[p].browser]
      /\ logins[p] \in LoginRequest
  BY DEF CallbackGetdel, LoginAt, IInv, LoginTypeOK, BrowserInv, CallbackPcs
<1>3. Failed(p) \in LoginRequest /\ next \in LoginRequest
  BY <1>2, FailedIsRequest DEF IInv, LoginRequest, Pcs
<1>4. /\ logins' \in [LoginReq -> LoginRequest]
      /\ \A q \in LoginReq : q # p => logins'[q] = logins[q]
      /\ \/ o = "ok" /\ Alike(logins'[p], next)
         \/ o = "resent" /\ Alike(logins'[p], logins[p])
         \/ o \notin {"ok", "resent"} /\ logins'[p] = Failed(p)
  BY <1>1, <1>3, ContinueFields DEF IInv
<1>5. /\ logins'[p].state = s /\ logins'[p].browser = logins[p].browser
      /\ logins'[p].account = logins[p].account
      /\ logins'[p].pc \in {"cb_getdel", "cb_exchange", "cb_fail"}
      /\ logins'[p].pc = "cb_exchange" => o = "ok" /\ loginState[s]
  BY <1>2, <1>4 DEF Alike, Failed, LoginRequest
<1>6. loginState' \in [LoginId -> BOOLEAN] /\ \A t \in LoginId : ~loginState[t] => ~loginState'[t]
  BY <1>1, <1>2 DEF StateAfterGetdel, IInv, LoginTypeOK
<1>7. o = "ok" => ~loginState'[s] BY <1>1, <1>2 DEF StateAfterGetdel, IInv, LoginTypeOK
<1>8. UNCHANGED <<cookies, links, generated, mintedKeys, startedBy,
                  accountOf, activeKey, issued, shown, dropped>>
  BY DEF CallbackGetdel, NoKeyMoves
<1> HIDE DEF s, next
<1>9. LoginTypeOK' BY <1>4, <1>6, <1>8 DEF IInv, LoginTypeOK
<1>10. BrowserInv'
  BY <1>2, <1>4, <1>5, <1>8 DEF s, IInv, BrowserInv, CallbackPcs, Owner
<1>11. \A q \in LoginReq : logins[q].pc \in {"cb_exchange", "cb_issue"} =>
         logins[q].state \in LoginId /\ ~loginState[logins[q].state] /\ ~loginState'[logins[q].state]
  BY <1>6 DEF IInv, BrowserInv, OnceInv, CallbackPcs
<1>12. \A x \in issued : x.state \in LoginId /\ ~loginState[x.state] /\ ~loginState'[x.state]
  BY <1>6 DEF IInv, LoginTypeOK, OnceInv
<1>13. OnceInv'
  BY <1>4, <1>5, <1>7, <1>8, <1>11, <1>12 DEF IInv, OnceInv, Owner
<1>14. KeyInv' BY <1>2, <1>4, <1>5, <1>8 DEF IInv, KeyInv, KeyedPcs
<1>15. LiveInv' BY <1>2, <1>4, <1>8 DEF IInv, LiveInv, Shown
<1> QED BY <1>9, <1>10, <1>13, <1>14, <1>15 DEF IInv

LEMMA CallbackExchangeStep == ASSUME IInv, NEW p \in LoginReq, CallbackExchange(p) PROVE IInv'
<1>1. /\ logins[p].pc = "cb_exchange" /\ logins[p] \in LoginRequest
      /\ UNCHANGED <<loginState, cookies, links, generated, startedBy,
                     accountOf, activeKey, issued, shown, dropped>>
  BY DEF CallbackExchange, LoginAt, NoKeyMoves, IInv, LoginTypeOK
<1>2. CASE LoginGoto(p, Failed(p)) /\ UNCHANGED mintedKeys
  <2>1. /\ logins'[p].pc = "cb_fail" /\ logins'[p].state = logins[p].state
        /\ logins'[p].browser = logins[p].browser
        /\ logins' \in [LoginReq -> LoginRequest] /\ \A q \in LoginReq : q # p => logins'[q] = logins[q]
    BY <1>1, <1>2, FailedIsRequest DEF LoginGoto, Failed, IInv, LoginTypeOK, LoginRequest
  <2>2. LoginTypeOK' BY <1>1, <1>2, <2>1 DEF IInv, LoginTypeOK
  <2>3. BrowserInv' BY <1>1, <2>1 DEF IInv, BrowserInv, CallbackPcs, Owner
  <2>4. OnceInv' BY <1>1, <2>1 DEF IInv, OnceInv, Owner
  <2>5. KeyInv' BY <1>1, <1>2, <2>1 DEF IInv, KeyInv, KeyedPcs
  <2>6. LiveInv' BY <1>1, <2>1 DEF IInv, LiveInv, Shown
  <2> QED BY <2>2, <2>3, <2>4, <2>5, <2>6 DEF IInv
<1>3. CASE \E k \in Key \ mintedKeys : /\ mintedKeys' = mintedKeys \cup {k}
                                       /\ LoginGoto(p, [logins[p] EXCEPT !.pc = "cb_issue", !.key = k])
  <2>1. PICK k \in Key \ mintedKeys : /\ mintedKeys' = mintedKeys \cup {k}
                                      /\ LoginGoto(p, [logins[p] EXCEPT !.pc = "cb_issue", !.key = k])
    BY <1>3
  <2>2. /\ logins'[p].pc = "cb_issue" /\ logins'[p].state = logins[p].state /\ logins'[p].key = k
        /\ logins'[p].browser = logins[p].browser /\ logins'[p].account = logins[p].account
        /\ logins' \in [LoginReq -> LoginRequest] /\ \A q \in LoginReq : q # p => logins'[q] = logins[q]
    BY <1>1, <2>1 DEF LoginGoto, IInv, LoginTypeOK, LoginRequest, Pcs
  <2>3. LoginTypeOK' BY <1>1, <2>1, <2>2 DEF IInv, LoginTypeOK
  <2>4. BrowserInv' BY <1>1, <2>2 DEF IInv, BrowserInv, CallbackPcs, Owner
  <2>5. OnceInv' BY <1>1, <2>2 DEF IInv, OnceInv, Owner
  <2>6. KeyInv' BY <1>1, <2>1, <2>2 DEF IInv, KeyInv, KeyedPcs
  <2>7. LiveInv' BY <1>1, <2>2 DEF IInv, LiveInv, Shown
  <2> QED BY <2>3, <2>4, <2>5, <2>6, <2>7 DEF IInv
<1> QED BY <1>2, <1>3 DEF CallbackExchange

LEMMA CallbackIssueStep == ASSUME IInv, NEW p \in LoginReq, CallbackIssue(p) PROVE IInv'
<1> DEFINE s == logins[p].state
           a == logins[p].account
           k == logins[p].key
           row == [state |-> s, account |-> a, key |-> k]
<1>1. PICK o \in RpcOutcomes :
        /\ LoginGoto(p, IF KeyAnswered(o) THEN [logins[p] EXCEPT !.pc = "cb_show"] ELSE Failed(p))
        /\ IF o = "refused" THEN UNCHANGED <<activeKey, issued>>
           ELSE /\ activeKey' = [activeKey EXCEPT ![a] = Persisted(p)]
                /\ issued' = issued \cup {[state |-> s, account |-> a, key |-> Persisted(p)]}
        /\ dropped' = IF o = "unacked" THEN dropped \cup {Persisted(p)} ELSE dropped
  BY DEF CallbackIssue
<1>2. /\ logins[p].pc = "cb_issue" /\ logins[p] \in LoginRequest
      /\ s \in LoginId /\ logins[p].browser \in Browser
      /\ startedBy[s] = logins[p].browser /\ a = accountOf[logins[p].browser] /\ a \in Account
      /\ k \in mintedKeys /\ k \in Key /\ ~loginState[s]
      /\ \A r \in issued : r.state # s /\ r.key # k
  BY DEF CallbackIssue, LoginAt, IInv, LoginTypeOK, BrowserInv, OnceInv, KeyInv, CallbackPcs, KeyedPcs
<1>3. o \in {"ok", "refused", "unacked"} BY LoginConstants
<1>4. /\ logins'[p].state = s /\ logins'[p].browser = logins[p].browser
      /\ logins'[p].account = a /\ logins'[p].key = k
      /\ logins'[p].pc = IF o = "ok" THEN "cb_show" ELSE "cb_fail"
      /\ logins' \in [LoginReq -> LoginRequest] /\ \A q \in LoginReq : q # p => logins'[q] = logins[q]
  BY <1>1, <1>2, FailedIsRequest DEF LoginGoto, KeyAnswered, Failed, IInv, LoginTypeOK, LoginRequest, Pcs
<1>5. UNCHANGED <<accountOf, loginState, cookies, links, generated, mintedKeys, startedBy, shown>>
  BY DEF CallbackIssue
<1>6. \/ o = "refused" /\ UNCHANGED <<activeKey, issued, dropped>>
      \/ /\ o # "refused" /\ activeKey' = [activeKey EXCEPT ![a] = k]
         /\ issued' = issued \cup {row}
         /\ dropped' = IF o = "unacked" THEN dropped \cup {k} ELSE dropped
  BY <1>1 DEF Persisted
<1>7. row.state = s /\ row.account = a /\ row.key = k OBVIOUS
<1>8. row \in [state: LoginId, account: Account, key: Key] BY <1>2
<1> HIDE DEF s, a, k, row
<1>9. LoginTypeOK' BY <1>2, <1>4, <1>5, <1>6, <1>8 DEF IInv, LoginTypeOK
<1>10. BrowserInv' BY <1>2, <1>4, <1>5 DEF s, a, IInv, BrowserInv, CallbackPcs, Owner
<1>11. OnceInv'
  <2>1. \A q \in LoginReq : logins'[q].pc \in {"cb_exchange", "cb_issue"} =>
          /\ logins[q].pc \in {"cb_exchange", "cb_issue"} /\ logins'[q] = logins[q] /\ logins[q].state # s
    BY <1>2, <1>4 DEF s, IInv, OnceInv
  <2>2. startedBy[s] # NoBrowser /\ a = Owner(s) BY <1>2, LoginConstants DEF Owner
  <2> QED BY <1>2, <1>5, <1>6, <1>7, <2>1, <2>2 DEF IInv, OnceInv, Owner
<1>12. KeyInv'
  <2>1. \A r \in issued' : r.key \in mintedKeys' /\ \A q \in issued' : q.key = r.key => q = r
    BY <1>2, <1>5, <1>6, <1>7 DEF IInv, KeyInv
  <2>2. \A q \in LoginReq : logins'[q].pc \in KeyedPcs =>
          logins[q].pc \in KeyedPcs /\ logins'[q].key = logins[q].key
    BY <1>2, <1>4 DEF k, KeyedPcs
  <2>3. \A q \in LoginReq : logins'[q].pc = "cb_issue" =>
          q # p /\ logins[q].pc = "cb_issue" /\ logins'[q].key = logins[q].key /\ logins[q].key # k
    BY <1>2, <1>4 DEF k, IInv, KeyInv, KeyedPcs
  <2>4. \A q \in LoginReq : logins'[q].pc = "cb_show" =>
          [state |-> logins'[q].state, account |-> logins'[q].account, key |-> logins'[q].key] \in issued'
    BY <1>2, <1>4, <1>6 DEF row, IInv, KeyInv
  <2>5. issued \subseteq issued' BY <1>6
  <2> QED BY <1>5, <1>6, <1>7, <2>1, <2>2, <2>3, <2>4, <2>5 DEF IInv, KeyInv
<1>13. LiveInv'
  <2> SUFFICES ASSUME NEW c \in Account, activeKey'[c] # NoKey
               PROVE  \/ activeKey'[c] \in Shown' \cup dropped'
                      \/ \E q \in LoginReq : /\ logins'[q].pc = "cb_show" /\ logins'[q].account = c
                                             /\ logins'[q].key = activeKey'[c]
    BY DEF LiveInv
  <2>1. CASE activeKey'[c] = activeKey[c]
    <3>1. \A q \in LoginReq : logins[q].pc = "cb_show" => logins'[q] = logins[q] BY <1>2, <1>4
    <3>2. Shown' = Shown /\ dropped \subseteq dropped' BY <1>5, <1>6 DEF Shown
    <3> QED BY <2>1, <3>1, <3>2 DEF IInv, LiveInv
  <2>2. CASE activeKey'[c] # activeKey[c]
    <3>1. c = a /\ o # "refused" /\ activeKey'[c] = k BY <1>2, <1>6, <2>2 DEF IInv, LoginTypeOK
    <3> QED BY <1>3, <1>4, <1>6, <3>1
  <2> QED BY <2>1, <2>2
<1> QED BY <1>9, <1>10, <1>11, <1>12, <1>13 DEF IInv

LEMMA CallbackAnswerStep == ASSUME IInv, NEW p \in LoginReq, CallbackAnswer(p) PROVE IInv'
<1> DEFINE s == logins[p].state
           b == logins[p].browser
           k == logins[p].key
           page == [browser |-> b, state |-> s, key |-> k]
<1>1. /\ logins[p].pc \in {"cb_show", "cb_fail"} /\ logins[p] \in LoginRequest
      /\ s \in LoginId /\ b \in Browser
      /\ logins[p].pc = "cb_show" =>
           /\ k \in Key /\ logins[p].account = accountOf[b]
           /\ [state |-> s, account |-> accountOf[b], key |-> k] \in issued
  BY DEF CallbackAnswer, LoginAt, IInv, LoginTypeOK, BrowserInv, KeyInv, CallbackPcs, KeyedPcs
<1>2. logins'[p] = NoLogin /\ NoLogin.pc = "idle" /\ logins' \in [LoginReq -> LoginRequest]
      /\ \A q \in LoginReq : q # p => logins'[q] = logins[q]
  BY IdleIsRequest DEF CallbackAnswer, LoginGoto, NoLogin, IInv, LoginTypeOK
<1>3. UNCHANGED <<accountOf, loginState, links, activeKey, issued, generated, mintedKeys, startedBy>>
  BY DEF CallbackAnswer
<1>4. \/ /\ dropped' = dropped \cup ({k} \ {NoKey}) /\ UNCHANGED <<cookies, shown>>
      \/ /\ cookies' = [cookies EXCEPT ![b] = @ \ {s}] /\ UNCHANGED dropped
         /\ shown' = IF logins[p].pc = "cb_show" THEN shown \cup {page} ELSE shown
  BY DEF CallbackAnswer, LoginAt
<1>5. page.browser = b /\ page.state = s /\ page.key = k OBVIOUS
<1>6. logins[p].pc = "cb_show" => page \in [browser: Browser, state: LoginId, key: Key] BY <1>1
<1>7. k \in Key \cup {NoKey} BY <1>1 DEF LoginRequest
<1> HIDE DEF s, b, k, page
<1>8. LoginTypeOK' BY <1>1, <1>2, <1>3, <1>4, <1>6, <1>7 DEF IInv, LoginTypeOK
<1>9. \A c \in Browser : cookies'[c] \subseteq cookies[c] BY <1>1, <1>4 DEF IInv, LoginTypeOK
<1>10. BrowserInv'
  BY <1>2, <1>3, <1>9 DEF IInv, BrowserInv, CallbackPcs, Owner
<1>11. OnceInv' BY <1>2, <1>3 DEF IInv, OnceInv, Owner
<1>12. KeyInv'
  BY <1>1, <1>2, <1>3, <1>4, <1>5 DEF IInv, KeyInv, KeyedPcs
<1>13. LiveInv'
  <2> SUFFICES ASSUME NEW a \in Account, activeKey[a] # NoKey
               PROVE  \/ activeKey[a] \in Shown' \cup dropped'
                      \/ \E q \in LoginReq : /\ logins'[q].pc = "cb_show" /\ logins'[q].account = a
                                             /\ logins'[q].key = activeKey[a]
    BY <1>3 DEF LiveInv
  <2>1. Shown \subseteq Shown' /\ dropped \subseteq dropped' BY <1>4 DEF Shown
  <2>2. CASE logins[p].pc = "cb_show" /\ logins[p].account = a /\ k = activeKey[a]
    <3>1. k \in dropped' \/ page \in shown' BY <1>4, <2>2
    <3> QED BY <1>5, <2>2, <3>1 DEF Shown
  <2> QED BY <1>2, <2>1, <2>2 DEF IInv, LiveInv, k
<1> QED BY <1>8, <1>10, <1>11, <1>12, <1>13 DEF IInv

LEMMA StutterStep == ASSUME IInv, UNCHANGED loginVars PROVE IInv'
<1>1. LoginTypeOK' BY DEF loginVars, IInv, LoginTypeOK
<1>2. BrowserInv' BY DEF loginVars, IInv, BrowserInv, Owner
<1>3. OnceInv' BY DEF loginVars, IInv, OnceInv, Owner
<1>4. KeyInv' BY DEF loginVars, IInv, KeyInv
<1>5. LiveInv' BY DEF loginVars, IInv, LiveInv, Shown
<1> QED BY <1>1, <1>2, <1>3, <1>4, <1>5 DEF IInv

\* Every step keeps the inductive invariant.
LEMMA NextKeeps == IInv /\ [LoginNext]_loginVars => IInv'
BY StartArriveStep, StartSetStep, AuthorizeStep, ExpireStateStep, ExpireCookieStep,
   CallbackArriveStep, CallbackGetdelStep, CallbackExchangeStep, CallbackIssueStep,
   CallbackAnswerStep, StutterStep DEF LoginNext, LoginStep

LEMMA IInvHolds == LoginSpec => []IInv
BY InitIInv, NextKeeps, PTL DEF LoginSpec
-----------------------------------------------------------------------------
\* Every variable of the login holds a value of its kind, whatever is lost or repeated.
THEOREM TypeCorrect == LoginSpec => []LoginTypeOK
<1>1. IInv => LoginTypeOK BY DEF IInv
<1> QED BY <1>1, IInvHolds, PTL

\* For any number of browsers, accounts and overlapping logins, whoever opens whichever
\* link: a key on a page is its owner's, each login has one key and it was persisted, and
\* an active key was shown unless its answer was lost.
THEOREM ShownKeysAreRightAlways == LoginSpec => []ShownKeysAreRight
<1>1. IInv => ShownKeyIsOwn
  <2> SUFFICES ASSUME IInv, NEW d \in shown, NEW r \in issued, d.key = r.key
               PROVE  r.account = accountOf[d.browser]
    BY DEF ShownKeyIsOwn
  <2> DEFINE q == [state |-> d.state, account |-> accountOf[d.browser], key |-> d.key]
  <2>1. q \in issued BY DEF IInv, KeyInv
  <2>2. q.key = r.key /\ q.account = accountOf[d.browser] OBVIOUS
  <2> HIDE DEF q
  <2> QED BY <2>1, <2>2 DEF IInv, KeyInv
<1>2. IInv => OneKeyPerLogin BY DEF IInv, OnceInv, OneKeyPerLogin
<1>3. IInv => ShownWasPersisted
  BY DEF IInv, KeyInv, ShownWasPersisted
<1>4. IInv => LiveKeyShownUnlessDropped
  BY DEF IInv, LiveInv, LiveKeyShownUnlessDropped, InFlight
<1> QED BY <1>1, <1>2, <1>3, <1>4, IInvHolds, PTL DEF ShownKeysAreRight

\* No step of one login takes the cookie of another: a browser loses a cookie by the answer
\* of that login or by its Max-Age alone.
THEOREM LoginsKeepApart == LoginSpec => LoginsDoNotInterfere
<1> DEFINE Kept ==
      \A b \in Browser, s \in LoginId :
        s \in cookies[b] /\ s \notin cookies'[b] =>
          \/ ExpireCookie(b, s)
          \/ \E p \in LoginReq : logins[p].state = s /\ logins'[p] = NoLogin
<1>1. ASSUME IInv, [LoginNext]_loginVars PROVE Kept
  <2>1. ASSUME UNCHANGED cookies PROVE Kept BY <2>1
  <2>2. ASSUME NEW p \in LoginReq, StartSet(p) PROVE Kept
    <3>1. \A b \in Browser : cookies[b] \subseteq cookies'[b]
      BY <1>1, <2>2 DEF StartSet, CookiesWith, IInv, LoginTypeOK
    <3> QED BY <3>1
  <2>3. ASSUME NEW p \in LoginReq, CallbackAnswer(p) PROVE Kept
    <3>1. logins'[p] = NoLogin BY <1>1, <2>3 DEF CallbackAnswer, LoginGoto, IInv, LoginTypeOK
    <3>2. \A b \in Browser : cookies[b] \ cookies'[b] \subseteq {logins[p].state}
      BY <1>1, <2>3 DEF CallbackAnswer, IInv, LoginTypeOK
    <3> QED BY <3>1, <3>2
  <2>4. ASSUME NEW c \in Browser, NEW t \in LoginId, ExpireCookie(c, t) PROVE Kept
    <3>1. \A b \in Browser, s \in LoginId :
            s \in cookies[b] /\ s \notin cookies'[b] => b = c /\ s = t
      BY <1>1, <2>4 DEF ExpireCookie, IInv, LoginTypeOK
    <3> QED BY <2>4, <3>1
  <2>5. \A p \in LoginReq : StartArrive(p) \/ CallbackArrive(p) \/ CallbackGetdel(p)
                         \/ CallbackExchange(p) \/ CallbackIssue(p) => UNCHANGED cookies
    BY DEF StartArrive, CallbackArrive, CallbackGetdel, CallbackExchange, CallbackIssue
  <2>6. \A b \in Browser, s \in LoginId : LoginExpires(s) \/ Authorize(b, s) => UNCHANGED cookies
    BY DEF LoginExpires, Authorize
  <2>7. CASE UNCHANGED loginVars BY <2>1, <2>7 DEF loginVars
  <2>8. CASE \E p \in LoginReq : LoginStep(p) BY <2>1, <2>2, <2>3, <2>5, <2>8 DEF LoginStep
  <2>9. CASE \E s \in LoginId : LoginExpires(s)
    <3>1. UNCHANGED cookies BY <2>9 DEF LoginExpires
    <3> QED BY <2>1, <3>1
  <2>10. CASE \E b \in Browser, s \in LoginId : Authorize(b, s) \/ ExpireCookie(b, s)
    BY <2>1, <2>4, <2>6, <2>10
  <2> QED BY <1>1, <2>7, <2>8, <2>9, <2>10 DEF LoginNext
<1>2. Kept => [Kept]_loginVars OBVIOUS
<1> QED BY <1>1, IInvHolds, PTL DEF LoginSpec, LoginsDoNotInterfere

\* LoginOAuth implements LoginPromise: a key is persisted at most once for a login and a key,
\* and what reaches a page is a persisted key in its owner's browser.
THEOREM LoginImplementsPromise == LoginSpec => PromiseKept
<1> DEFINE promised == <<accountOf, issued, activeKey, shown>>
<1>1. LoginInit => Promise!Init BY DEF LoginInit, Promise!Init
<1>2. ASSUME IInv, [LoginNext]_loginVars PROVE [Promise!Next]_promised
  <2>1. ASSUME NEW p \in LoginReq, CallbackIssue(p) PROVE [Promise!Next]_promised
    <3> DEFINE s == logins[p].state
               a == logins[p].account
               k == logins[p].key
    <3>1. /\ s \in LoginId /\ a \in Account /\ k \in Key
          /\ \A r \in issued : r.state # s /\ r.key # k
      BY <1>2, <2>1 DEF CallbackIssue, LoginAt, IInv, LoginTypeOK, BrowserInv, OnceInv, KeyInv,
                        CallbackPcs, KeyedPcs, LoginRequest
    <3>2. UNCHANGED <<accountOf, shown>> BY <2>1 DEF CallbackIssue
    <3>3. \/ UNCHANGED <<activeKey, issued>>
          \/ /\ activeKey' = [activeKey EXCEPT ![a] = k]
             /\ issued' = issued \cup {[state |-> s, account |-> a, key |-> k]}
      BY <2>1 DEF CallbackIssue, Persisted
    <3> HIDE DEF s, a, k
    <3>4. Promise!Issue(s, a, k) \/ UNCHANGED promised
      BY <3>1, <3>2, <3>3 DEF Promise!Issue
    <3> QED BY <3>1, <3>4 DEF Promise!Next
  <2>2. ASSUME NEW p \in LoginReq, CallbackAnswer(p) PROVE [Promise!Next]_promised
    <3> DEFINE b == logins[p].browser
               r == [state |-> logins[p].state, account |-> logins[p].account, key |-> logins[p].key]
    <3>1. UNCHANGED <<accountOf, issued, activeKey>> BY <2>2 DEF CallbackAnswer
    <3>2. CASE shown' = shown BY <3>1, <3>2
    <3>3. CASE shown' # shown
      <4>1. logins[p].pc = "cb_show"
            /\ shown' = shown \cup {[browser |-> b, state |-> logins[p].state, key |-> logins[p].key]}
        BY <2>2, <3>3 DEF CallbackAnswer, LoginAt
      <4>2. b \in Browser /\ r \in issued /\ r.account = accountOf[b]
        BY <1>2, <4>1 DEF IInv, BrowserInv, KeyInv, CallbackPcs
      <4>3. Promise!Show(b, r) BY <3>1, <4>1, <4>2 DEF Promise!Show
      <4> QED BY <4>2, <4>3 DEF Promise!Next
    <3> QED BY <3>2, <3>3
  <2>3. \A p \in LoginReq : StartArrive(p) \/ StartSet(p) \/ CallbackArrive(p) \/ CallbackGetdel(p)
                         \/ CallbackExchange(p) => UNCHANGED promised
    BY DEF StartArrive, StartSet, CallbackArrive, CallbackGetdel, CallbackExchange, NoKeyMoves
  <2>4. \A b \in Browser, s \in LoginId :
          LoginExpires(s) \/ Authorize(b, s) \/ ExpireCookie(b, s) => UNCHANGED promised
    BY DEF LoginExpires, Authorize, ExpireCookie, NoKeyMoves
  <2>5. CASE \E p \in LoginReq : LoginStep(p) BY <2>1, <2>2, <2>3, <2>5 DEF LoginStep
  <2>6. CASE \E s \in LoginId : LoginExpires(s)
    BY <2>6 DEF LoginExpires, NoKeyMoves
  <2>7. CASE \E b \in Browser, s \in LoginId : Authorize(b, s) \/ ExpireCookie(b, s)
    BY <2>4, <2>7
  <2>8. CASE UNCHANGED loginVars BY <2>8 DEF loginVars
  <2> QED BY <1>2, <2>5, <2>6, <2>7, <2>8 DEF LoginNext
<1> QED BY <1>1, <1>2, IInvHolds, PTL DEF LoginSpec, PromiseKept, Promise!Spec
=============================================================================
