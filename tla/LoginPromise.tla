----------------------------- MODULE LoginPromise -----------------------------
(***************************************************************************)
(* What self-serve login promises, without requests, stores or cookies:    *)
(* one login mints at most one key, the newest key of an account is its    *)
(* only active one, and a key is shown to nobody but the browser of the    *)
(* account's owner, once it is persisted.  LoginOAuth implements it.       *)
(***************************************************************************)
CONSTANTS State, Account, Key, Browser, NoKey

VARIABLES accountOf,    \* whom each browser is signed in as at the provider
          issued,       \* the keys persisted, with the login that asked for each
          activeKey,    \* the account's active key
          shown         \* the keys shown, and in which browser

Issue(s, a, k) ==
  /\ \A r \in issued : r.state # s /\ r.key # k
  /\ issued' = issued \cup {[state |-> s, account |-> a, key |-> k]}
  /\ activeKey' = [activeKey EXCEPT ![a] = k]
  /\ UNCHANGED <<accountOf, shown>>

Show(b, r) ==
  /\ r.account = accountOf[b]
  /\ shown' = shown \cup {[browser |-> b, state |-> r.state, key |-> r.key]}
  /\ UNCHANGED <<accountOf, issued, activeKey>>

Init ==
  /\ accountOf \in [Browser -> Account]
  /\ issued = {} /\ shown = {}
  /\ activeKey = [a \in Account |-> NoKey]

Next ==
  \/ \E s \in State, a \in Account, k \in Key : Issue(s, a, k)
  \/ \E b \in Browser, r \in issued : Show(b, r)

Spec == Init /\ [][Next]_<<accountOf, issued, activeKey, shown>>
=============================================================================
