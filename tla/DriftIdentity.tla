---------------------------- MODULE DriftIdentity ----------------------------
(***************************************************************************)
(* The opt-in SDK install identity and its GitHub upgrade:                 *)
(* lib/driftIdentity.ts, lib/driftOAuth.ts and the three routes that call  *)
(* them (drift/register POST and DELETE, drift/oauth/start and callback).  *)
(*                                                                         *)
(* The handlers run concurrently on serverless instances and share nothing *)
(* but Redis.  Every Redis round trip is one action; whatever a handler    *)
(* read earlier lives in its request record and may be stale when used.    *)
(* A token stands for itself and for its SHA-256, a GitHub id for its      *)
(* peppered hash: both hashes are injective for all practical purposes.    *)
(***************************************************************************)
EXTENDS FiniteSets, Naturals

CONSTANTS
  Install,      \* install ids (32 hex digits)
  Token,        \* the tokens generateToken can return; a bound on issues
  Gh,           \* peppered hashes of GitHub user ids
  State,        \* the OAuth states generateState can return; a bound
  Req,          \* slots for requests in flight at the same time
  Ops,          \* the handlers this instance exercises
  Outcomes,     \* what can become of one Redis command
  IssueOutcomes, \* ... and of the HSET and SADD of issueIdentity
  Retries,      \* re-sends the Redis client makes of an unanswered command
  NoRow, NoToken, BadToken, NoGh, NoInstall, NoState

AllOps == {"issue", "revoke", "startUpgrade", "bindGithub"}

\* ok: it took effect and was answered; resent: it took effect, the answer was
\* lost and the client sends it again; refused: no effect, the call throws;
\* unacked: it took effect but the call throws (or the instance dies).
AllOutcomes == {"ok", "resent", "refused", "unacked"}

ASSUME DriftConstants ==
  /\ Ops \subseteq AllOps
  /\ Outcomes \subseteq AllOutcomes /\ IssueOutcomes \subseteq AllOutcomes
  /\ Retries \in Nat
  /\ NoRow \notin [tok: Token, status: {"active", "revoked"},
                   cost: {"none", "github"}, gh: Gh \cup {NoGh}]
  /\ NoToken \notin Token /\ BadToken \notin Token
  /\ NoGh \notin Gh /\ NoInstall \notin Install /\ NoState \notin State

VARIABLES
  row,          \* drift:identity:<install>, a Redis hash
  identities,   \* drift:identities, a Redis set
  ghRes,        \* oauth:gh:<hash> -> the install that reserved it
  oauthState,   \* oauth:state:<state> -> the install that started the upgrade
  req,          \* the requests in flight
  minted,       \* history: tokens generated so far
  started,      \* history: OAuth states generated so far
  urls,         \* history: the states a client was redirected to GitHub with
  delivered,    \* history: the tokens a client was answered with
  clobbered     \* history: a whole-row HSET landed on a row whose binding
                \* was no longer the one its request had read

vars == <<row, identities, ghRes, oauthState, req, minted, started, urls,
          delivered, clobbered>>
-----------------------------------------------------------------------------
(* Rows and requests.                                                      *)

Row == [tok: Token, status: {"active", "revoked"}, cost: {"none", "github"},
        gh: Gh \cup {NoGh}]

Binding(r) == [status |-> r.status, cost |-> r.cost, gh |-> r.gh]

ReadPcs  == {"issue_read", "issue_verify", "revoke_verify", "start_verify",
             "bind_get"}
OtherPcs == {"claim_write", "claim_index", "rotate_write", "revoke_eval",
             "start_write", "bind_del", "bind_exchange", "bind_eval"}

Idle == [pc |-> "idle", inst |-> NoInstall, cred |-> NoToken, snap |-> NoRow,
         new |-> NoToken, state |-> NoState, gh |-> NoGh, left |-> Retries]

Request == [pc: {"idle"} \cup ReadPcs \cup OtherPcs,
            inst: Install \cup {NoInstall},
            cred: Token \cup {NoToken, BadToken},  \* the bearer presented
            snap: Row \cup {NoRow},       \* `existing` of issueIdentity
            new: Token \cup {NoToken},    \* `token` of issueIdentity
            state: State \cup {NoState},
            gh: Gh \cup {NoGh},
            left: 0..Retries]             \* re-sends left for this command

At(p, pc) == req[p].pc = pc
Goto(p, r) == req' = [req EXCEPT ![p] = r]
Answer(p) == Goto(p, Idle)

\* Mutant: the status check is lost.
VerifiesAnyStatus(p) ==
  row[req[p].inst] # NoRow /\ row[req[p].inst].tok = req[p].cred

\* verifyToken on the row as it is now: a missing or revoked row compares
\* against the dummy hash, which no token has.
Verifies(p) ==
  LET r == row[req[p].inst]
  IN  r # NoRow /\ r.status = "active" /\ r.tok = req[p].cred

\* The request continues as `next` once its command is answered, repeats it, or
\* ends in the handler's catch.
Continue(p, o, next) ==
  /\ o = "resent" => req[p].left > 0
  /\ Goto(p, CASE o = "ok"     -> [next EXCEPT !.left = Retries]
               [] o = "resent" -> [req[p] EXCEPT !.left = @ - 1]
               [] OTHER        -> Idle)

\* The handlers answer 503, false or an error when a read throws: nothing was
\* written, and the request ends.
ReadFails(p) ==
  /\ req[p].pc \in ReadPcs
  /\ Answer(p)
  /\ UNCHANGED <<row, identities, ghRes, oauthState, minted, started, urls,
                 delivered, clobbered>>
-----------------------------------------------------------------------------
(* Arrivals: the routes, once the flag, rate limit and shape checks passed. *)

Credentials == {d.tok : d \in delivered} \cup {BadToken}

\* Bound: an issue is admitted only while a fresh token is left for it.
TokensLeft ==
  Cardinality(Token \ minted) >
    Cardinality({p \in Req : req[p].pc \in {"issue_read", "issue_verify"}})

ArriveIssue(p) ==
  /\ "issue" \in Ops /\ TokensLeft
  /\ \E i \in Install, c \in Credentials \cup {NoToken} :
       Goto(p, [Idle EXCEPT !.pc = "issue_read", !.inst = i, !.cred = c])

ArriveRevoke(p) ==
  /\ "revoke" \in Ops
  /\ \E i \in Install, c \in Credentials :
       Goto(p, [Idle EXCEPT !.pc = "revoke_verify", !.inst = i, !.cred = c])

ArriveStart(p) ==
  /\ "startUpgrade" \in Ops
  /\ Cardinality(State \ started) >
       Cardinality({q \in Req : req[q].pc = "start_verify"})
  /\ \E i \in Install, c \in Credentials :
       Goto(p, [Idle EXCEPT !.pc = "start_verify", !.inst = i, !.cred = c])

\* GitHub redirects a browser back with a state; a reload sends it twice.
ArriveCallback(p) ==
  /\ "bindGithub" \in Ops
  /\ \E s \in urls :
       Goto(p, [Idle EXCEPT !.pc = "bind_get", !.state = s])

Arrive(p) ==
  /\ At(p, "idle")
  /\ ArriveIssue(p) \/ ArriveRevoke(p) \/ ArriveStart(p) \/ ArriveCallback(p)
  /\ UNCHANGED <<row, identities, ghRes, oauthState, minted, started, urls,
                 delivered, clobbered>>
-----------------------------------------------------------------------------
(* issueIdentity: first claim or rotation.                                 *)

NewRow(p)     == [tok |-> req[p].new, status |-> "active", cost |-> "none",
                  gh |-> NoGh]
RotatedRow(p) == [tok |-> req[p].new, status |-> "active",
                  cost |-> req[p].snap.cost, gh |-> req[p].snap.gh]

IssueRead(p) ==
  /\ At(p, "issue_read")
  /\ LET existing == row[req[p].inst]
     IN  \/ /\ existing = NoRow
            /\ \E t \in Token \ minted :
                 /\ minted' = minted \cup {t}
                 /\ Goto(p, [req[p] EXCEPT !.pc = "claim_write", !.new = t])
         \/ /\ existing # NoRow
            /\ existing.status = "active" /\ req[p].cred # NoToken
            /\ Goto(p, [req[p] EXCEPT !.pc = "issue_verify", !.snap = existing])
            /\ UNCHANGED minted
         \/ /\ existing # NoRow
            /\ existing.status = "revoked" \/ req[p].cred = NoToken
            /\ Answer(p)                                        \* conflict
            /\ UNCHANGED minted
  /\ UNCHANGED <<row, identities, ghRes, oauthState, started, urls,
                 delivered, clobbered>>

\* verifyToken reads the row again; the HSET will use the first read.
IssueVerify(p) ==
  /\ At(p, "issue_verify")
  /\ \/ /\ Verifies(p)
        /\ \E t \in Token \ minted :
             /\ minted' = minted \cup {t}
             /\ Goto(p, [req[p] EXCEPT !.pc = "rotate_write", !.new = t])
     \/ /\ ~Verifies(p)
        /\ Answer(p)                                            \* conflict
        /\ UNCHANGED minted
  /\ UNCHANGED <<row, identities, ghRes, oauthState, started, urls,
                 delivered, clobbered>>

\* Mutant: the answer carries the token the client presented.
DeliveryOfOld(p, via) == [inst |-> req[p].inst, via |-> via,
                          tok |-> IF req[p].cred \in Token THEN req[p].cred
                                  ELSE req[p].new]

Delivery(p, via) == [inst |-> req[p].inst, tok |-> req[p].new, via |-> via]

ClaimWrite(p) ==
  /\ At(p, "claim_write")
  /\ \E o \in IssueOutcomes :
       /\ Continue(p, o, [req[p] EXCEPT !.pc = "claim_index"])
       /\ IF o = "refused" THEN UNCHANGED <<row, clobbered>>
          ELSE /\ row' = [row EXCEPT ![req[p].inst] = NewRow(p)]
               /\ clobbered' = (clobbered \/
                                row[req[p].inst] \notin {NoRow, NewRow(p)})
  /\ UNCHANGED <<identities, ghRes, oauthState, minted, started, urls, delivered>>

ClaimIndex(p) ==
  /\ At(p, "claim_index")
  /\ \E o \in IssueOutcomes :
       /\ Continue(p, o, Idle)
       /\ identities' = IF o = "refused" THEN identities
                        ELSE identities \cup {req[p].inst}
       /\ delivered' = IF o = "ok" THEN delivered \cup {Delivery(p, "claim")}
                       ELSE delivered
  /\ UNCHANGED <<row, ghRes, oauthState, minted, started, urls, clobbered>>

RotateWrite(p) ==
  /\ At(p, "rotate_write")
  /\ \E o \in IssueOutcomes :
       /\ Continue(p, o, Idle)
       /\ IF o = "refused" THEN UNCHANGED <<row, clobbered>>
          ELSE /\ row' = [row EXCEPT ![req[p].inst] = RotatedRow(p)]
               /\ clobbered' = (clobbered \/
                    Binding(row[req[p].inst]) # Binding(req[p].snap))
       /\ delivered' = IF o = "ok" THEN delivered \cup {Delivery(p, "rotate")}
                       ELSE delivered
  /\ UNCHANGED <<identities, ghRes, oauthState, minted, started, urls>>
-----------------------------------------------------------------------------
(* revokeIdentity: verifyToken, then REVOKE_SCRIPT in one EVAL.            *)

RevokeVerify(p) ==
  /\ At(p, "revoke_verify")
  /\ IF Verifies(p) THEN Goto(p, [req[p] EXCEPT !.pc = "revoke_eval"])
     ELSE Answer(p)
  /\ UNCHANGED <<row, identities, ghRes, oauthState, minted, started, urls,
                 delivered, clobbered>>

RevokedRow(r) == [r EXCEPT !.status = "revoked", !.cost = "none", !.gh = NoGh]

\* Mutant: revoke keeps the reservation.
FreedByNothing(r) == ghRes

\* DEL oauth:gh:<hash> does not look at who holds the reservation.
FreedBy(r) == [g \in Gh |-> IF r.gh = g THEN NoInstall ELSE ghRes[g]]

RevokeEval(p) ==
  /\ At(p, "revoke_eval")
  /\ \E o \in Outcomes :
       /\ Continue(p, o, Idle)
       /\ IF o = "refused" THEN UNCHANGED <<row, ghRes>>
          ELSE LET r == row[req[p].inst]
               IN  /\ row' = [row EXCEPT ![req[p].inst] = RevokedRow(r)]
                   /\ ghRes' = FreedBy(r)
  /\ UNCHANGED <<identities, oauthState, minted, started, urls, delivered,
                 clobbered>>
-----------------------------------------------------------------------------
(* startUpgrade and bindGithub.                                            *)

StartVerify(p) ==
  /\ At(p, "start_verify")
  /\ \/ /\ Verifies(p)
        /\ \E s \in State \ started :
             /\ started' = started \cup {s}
             /\ Goto(p, [req[p] EXCEPT !.pc = "start_write", !.state = s])
     \/ /\ ~Verifies(p)
        /\ Answer(p)
        /\ UNCHANGED started
  /\ UNCHANGED <<row, identities, ghRes, oauthState, minted, urls, delivered,
                 clobbered>>

\* SET NX of a fresh random key; only a re-send finds the key taken.
StartWrite(p) ==
  /\ At(p, "start_write")
  /\ \E o \in Outcomes :
       LET s == req[p].state
           set == o # "refused" /\ oauthState[s] = NoInstall
       IN  /\ Continue(p, o, Idle)
           /\ oauthState' = IF set THEN [oauthState EXCEPT ![s] = req[p].inst]
                            ELSE oauthState
           /\ urls' = IF set /\ o = "ok" THEN urls \cup {s} ELSE urls
  /\ UNCHANGED <<row, identities, ghRes, minted, started, delivered, clobbered>>

\* The state's 600 s TTL runs out.
ExpireState(s) ==
  /\ oauthState[s] # NoInstall
  /\ oauthState' = [oauthState EXCEPT ![s] = NoInstall]
  /\ UNCHANGED <<row, identities, ghRes, req, minted, started, urls,
                 delivered, clobbered>>

\* GET, then DEL: two round trips, and the DEL happens whatever GET returned.
BindGet(p) ==
  /\ At(p, "bind_get")
  /\ Goto(p, [req[p] EXCEPT !.pc = "bind_del",
                            !.inst = oauthState[req[p].state]])
  /\ UNCHANGED <<row, identities, ghRes, oauthState, minted, started, urls,
                 delivered, clobbered>>

BindDel(p) ==
  /\ At(p, "bind_del")
  /\ \E o \in Outcomes :
       /\ Continue(p, o, IF req[p].inst = NoInstall THEN Idle
                         ELSE [req[p] EXCEPT !.pc = "bind_exchange"])
       /\ oauthState' = IF o = "refused" THEN oauthState
                        ELSE [oauthState EXCEPT ![req[p].state] = NoInstall]
  /\ UNCHANGED <<row, identities, ghRes, minted, started, urls, delivered,
                 clobbered>>

\* GitHub: exchangeCode and fetchUserId; the user logs in as whom they like.
BindExchange(p) ==
  /\ At(p, "bind_exchange")
  /\ \/ \E g \in Gh : Goto(p, [req[p] EXCEPT !.pc = "bind_eval", !.gh = g])
     \/ Answer(p)                                       \* exchange_failed
  /\ UNCHANGED <<row, identities, ghRes, oauthState, minted, started, urls,
                 delivered, clobbered>>

\* BIND_GITHUB_SCRIPT returns 'ok' exactly here; otherwise it writes nothing.
BindAccepted(i, g) ==
  /\ row[i] # NoRow
  /\ row[i].status = "active"
  /\ ~(row[i].cost = "github" /\ row[i].gh \notin {NoGh, g})
  /\ ghRes[g] \in {NoInstall, i}

BindEval(p) ==
  /\ At(p, "bind_eval")
  /\ \E o \in Outcomes :
       /\ Continue(p, o, Idle)
       /\ LET i == req[p].inst  g == req[p].gh
          IN  IF o # "refused" /\ BindAccepted(i, g)
              THEN /\ ghRes' = [ghRes EXCEPT ![g] = i]
                   /\ row' = [row EXCEPT ![i] = [@ EXCEPT !.cost = "github",
                                                          !.gh = g]]
              ELSE UNCHANGED <<row, ghRes>>
  /\ UNCHANGED <<identities, oauthState, minted, started, urls, delivered,
                 clobbered>>
-----------------------------------------------------------------------------
Init ==
  /\ row = [i \in Install |-> NoRow]
  /\ identities = {}
  /\ ghRes = [g \in Gh |-> NoInstall]
  /\ oauthState = [s \in State |-> NoInstall]
  /\ req = [p \in Req |-> Idle]
  /\ minted = {} /\ started = {} /\ urls = {} /\ delivered = {}
  /\ clobbered = FALSE

Step(p) ==
  \/ Arrive(p) \/ ReadFails(p)
  \/ IssueRead(p) \/ IssueVerify(p) \/ ClaimWrite(p) \/ ClaimIndex(p)
  \/ RotateWrite(p)
  \/ RevokeVerify(p) \/ RevokeEval(p)
  \/ StartVerify(p) \/ StartWrite(p)
  \/ BindGet(p) \/ BindDel(p) \/ BindExchange(p) \/ BindEval(p)

Next == (\E p \in Req : Step(p)) \/ (\E s \in State : ExpireState(s))

Spec == Init /\ [][Next]_vars
-----------------------------------------------------------------------------
(* Properties.                                                             *)

\* Every variable holds a value of its kind; in particular no EVAL or HSET
\* ever runs on a row or a snapshot that is not there.
TypeOK ==
  /\ row \in [Install -> Row \cup {NoRow}]
  /\ identities \subseteq Install
  /\ ghRes \in [Gh -> Install \cup {NoInstall}]
  /\ oauthState \in [State -> Install \cup {NoInstall}]
  /\ req \in [Req -> Request]
  /\ minted \subseteq Token /\ started \subseteq State /\ urls \subseteq State
  /\ delivered \subseteq [inst: Install, tok: Token, via: {"claim", "rotate"}]
  /\ clobbered \in BOOLEAN

\* An install's row says it is bound to a GitHub account.
Bound(i, g) == row[i] # NoRow /\ row[i].gh = g

\* One install per GitHub account (the comment on BIND_GITHUB_SCRIPT): no two
\* active installs carry the same github_hash.
OneInstallPerGithub ==
  \A g \in Gh, i, j \in Install : Bound(i, g) /\ Bound(j, g) => i = j

\* The identity rows and the oauth:gh reservations say the same, whatever the
\* interleaving, lost answers and repeated commands, as long as no whole-row
\* HSET of issueIdentity has landed on a binding it had not read.
BindingsAgree ==
  ~clobbered => \A i \in Install, g \in Gh : ghRes[g] = i <=> Bound(i, g)

Writing(p, i) == req[p].inst = i /\ req[p].pc \in {"claim_write", "rotate_write"}

\* Settled: no whole-row HSET for this install is in flight.
Settled(i) == \A p \in Req : ~Writing(p, i)

Revoked(i) == row[i] # NoRow /\ row[i].status = "revoked"

\* Once an install is revoked and the writes that were under way have landed or
\* failed, nothing brings it back: no claim, rotation or bind that starts later,
\* with any token ever issued, changes its row again.
RevocationSettles ==
  [][\A i \in Install : Revoked(i) /\ Settled(i) =>
       row'[i] = row[i] /\ Settled(i)']_vars

Answering(p, i) == req[p].inst = i /\ req[p].pc = "claim_index"

\* As long as the writes of issueIdentity are answered in the end, whatever becomes of
\* the other commands, the token that opens an active install is in some client's hands,
\* even when claims and rotations race: whichever HSET lands last belongs to a request
\* that answers ok.
LiveTokenDelivered ==
  \A i \in Install :
    /\ row[i] # NoRow /\ row[i].status = "active"
    /\ Settled(i) /\ \A p \in Req : ~Answering(p, i)
    => \E d \in delivered : d.inst = i /\ d.tok = row[i].tok
=============================================================================
