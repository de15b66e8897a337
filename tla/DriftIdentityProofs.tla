------------------------- MODULE DriftIdentityProofs -------------------------
(***************************************************************************)
(* Theorems about DriftIdentity for every number of installs, tokens,      *)
(* GitHub accounts and concurrent requests, and every mix of lost, refused *)
(* and repeated Redis commands.                                            *)
(***************************************************************************)
EXTENDS DriftIdentity, TLAPS

(***************************************************************************)
(* The inductive invariant.  TypeOK is not inductive: an EVAL is type      *)
(* correct only because verifyToken saw a row, and a rotation only because *)
(* HGETALL did.  BindingsAgree needs every row's two binding fields to go  *)
(* together, in the store and in the snapshots that will be written back.  *)
(***************************************************************************)
InstPcs == {"issue_read", "issue_verify", "claim_write", "claim_index",
            "rotate_write", "revoke_verify", "revoke_eval", "start_verify",
            "start_write", "bind_exchange", "bind_eval"}

\* A row's cost class and github hash go together; a revoked row has none.
Shape(r) == /\ r.cost = "github" <=> r.gh # NoGh
            /\ r.status = "revoked" => r.gh = NoGh

\* What a request has established by the time it is at a given command.
ReqInv(p) ==
  /\ req[p].pc \in InstPcs => req[p].inst \in Install
  /\ req[p].pc \in {"claim_write", "claim_index", "rotate_write"}
       => req[p].new \in Token
  /\ req[p].pc \in {"issue_verify", "rotate_write"}
       => /\ req[p].snap \in Row /\ req[p].snap.status = "active"
          /\ Shape(req[p].snap)
  /\ req[p].pc \in {"issue_verify", "rotate_write", "revoke_eval"}
       => row[req[p].inst] # NoRow
  /\ req[p].pc \in {"start_write", "bind_get", "bind_del"}
       => req[p].state \in State
  /\ req[p].pc = "bind_eval" => req[p].gh \in Gh

RowInv == \A i \in Install : row[i] # NoRow => Shape(row[i])

IInv == TypeOK /\ RowInv /\ (\A p \in Req : ReqInv(p)) /\ BindingsAgree
-----------------------------------------------------------------------------
LEMMA NoRowNotRow == NoRow \notin Row
BY DriftConstants DEF Row

LEMMA IdleIsRequest == Idle \in Request
BY DriftConstants DEF Idle, Request

\* Whatever becomes of its command, a request stays a request.
LEMMA ContinueType ==
  ASSUME TypeOK, NEW p \in Req, NEW o, NEW next \in Request,
         Continue(p, o, next)
  PROVE  /\ req' \in [Req -> Request]
         /\ \A q \in Req : q # p => req'[q] = req[q]
<1>1. req[p] \in Request BY DEF TypeOK
<1>2. req[p].left \in 0..Retries BY <1>1 DEF Request
<1>3. Retries \in Nat BY DriftConstants
<1>4. CASE o = "resent"
  <2>1. req[p].left - 1 \in 0..Retries
    BY <1>2, <1>3, <1>4 DEF Continue
  <2>2. [req[p] EXCEPT !.left = @ - 1] \in Request
    BY <1>1, <2>1 DEF Request
  <2> QED BY <2>2, <1>4 DEF Continue, Goto, TypeOK
<1>5. CASE o = "ok"
  <2>1. [next EXCEPT !.left = Retries] \in Request
    BY <1>3 DEF Request
  <2> QED BY <2>1, <1>5 DEF Continue, Goto, TypeOK
<1>6. CASE o \notin {"ok", "resent"}
  BY <1>6, IdleIsRequest DEF Continue, Goto, TypeOK
<1> QED BY <1>4, <1>5, <1>6

SameButLeft(a, b) ==
  /\ a.pc = b.pc /\ a.inst = b.inst /\ a.snap = b.snap
  /\ a.new = b.new /\ a.state = b.state /\ a.gh = b.gh

\* It stands at `next`, where it was, or is over.
LEMMA ContinueFields ==
  ASSUME TypeOK, NEW p \in Req, NEW o, NEW next \in Request,
         Continue(p, o, next)
  PROVE  \/ o = "ok" /\ SameButLeft(req'[p], next)
         \/ o = "resent" /\ SameButLeft(req'[p], req[p])
         \/ o \notin {"ok", "resent"} /\ req'[p] = Idle
<1>1. req[p] \in Request BY DEF TypeOK
<1>2. CASE o = "resent"
  BY <1>1, <1>2 DEF Continue, Goto, TypeOK, SameButLeft, Request
<1>3. CASE o = "ok"
  BY <1>3 DEF Continue, Goto, TypeOK, SameButLeft, Request
<1>4. CASE o \notin {"ok", "resent"}
  BY <1>4 DEF Continue, Goto, TypeOK
<1> QED BY <1>2, <1>3, <1>4

\* An idle request has established nothing.
LEMMA IdleReqInv ==
  ASSUME NEW p \in Req, req[p] = Idle
  PROVE  ReqInv(p)
BY DEF ReqInv, Idle, InstPcs

\* What a request has established survives the steps of the others: rows are
\* never removed.
LEMMA OthersKeep ==
  ASSUME NEW p \in Req, \A q \in Req : ReqInv(q),
         \A q \in Req : q # p => req'[q] = req[q],
         \A i \in Install : row[i] # NoRow => row'[i] # NoRow
  PROVE  \A q \in Req : q # p => ReqInv(q)'
BY DEF ReqInv, InstPcs

\* So does what the request itself had established, when it stays where it is.
LEMMA SameKeeps ==
  ASSUME NEW p \in Req, ReqInv(p), SameButLeft(req'[p], req[p]),
         \A i \in Install : row[i] # NoRow => row'[i] # NoRow
  PROVE  ReqInv(p)'
BY DEF ReqInv, InstPcs, SameButLeft

\* A step that only moves its request on.
LEMMA OnlyReqStep ==
  ASSUME IInv, NEW p \in Req, NEW r \in Request, Goto(p, r), ReqInv(p)',
         UNCHANGED <<row, identities, ghRes, delivered, clobbered>>,
         minted' \subseteq Token, started' \subseteq State,
         urls' \subseteq State,
         oauthState' \in [State -> Install \cup {NoInstall}]
  PROVE  IInv'
<1>1. req' \in [Req -> Request] BY DEF Goto, IInv, TypeOK
<1>2. TypeOK' BY <1>1 DEF IInv, TypeOK
<1>3. \A q \in Req : q # p => req'[q] = req[q] BY DEF Goto, IInv, TypeOK
<1>4. \A q \in Req : ReqInv(q)' BY <1>3, OthersKeep DEF IInv
<1>5. RowInv' /\ BindingsAgree' BY DEF IInv, RowInv, BindingsAgree, Bound, Shape
<1> QED BY <1>2, <1>4, <1>5 DEF IInv
-----------------------------------------------------------------------------
LEMMA InitIInv == Init => IInv
<1> SUFFICES ASSUME Init PROVE IInv OBVIOUS
<1>1. TypeOK BY IdleIsRequest DEF Init, TypeOK
<1>2. \A p \in Req : ReqInv(p) BY IdleReqInv DEF Init
<1>3. RowInv BY DEF Init, RowInv
<1>4. BindingsAgree BY DriftConstants DEF Init, BindingsAgree, Bound
<1> QED BY <1>1, <1>2, <1>3, <1>4 DEF IInv

LEMMA ArriveStep == ASSUME IInv, NEW p \in Req, Arrive(p) PROVE IInv'
<1>1. \A c \in Credentials : c \in Token \cup {NoToken, BadToken}
  BY DEF IInv, TypeOK, Credentials
<1> DEFINE Admitted(r) ==
      /\ Goto(p, r)
      /\ r.pc \in {"issue_read", "revoke_verify", "start_verify", "bind_get"}
      /\ r.pc = "bind_get" => r.state \in State
      /\ r.pc # "bind_get" => r.inst \in Install
<1>2. ASSUME NEW r \in Request, Admitted(r) PROVE IInv'
  <2>1. req'[p] = r BY <1>2 DEF Goto, IInv, TypeOK
  <2>2. ReqInv(p)' BY <1>2, <2>1 DEF ReqInv, InstPcs
  <2> QED BY <1>2, <2>2, OnlyReqStep DEF Arrive, IInv, TypeOK
<1>3. CASE ArriveIssue(p)
  <2>1. ASSUME NEW i \in Install, NEW c \in Credentials \cup {NoToken},
               Goto(p, [Idle EXCEPT !.pc = "issue_read", !.inst = i, !.cred = c])
        PROVE  IInv'
    <3> DEFINE r == [Idle EXCEPT !.pc = "issue_read", !.inst = i, !.cred = c]
    <3>1. r \in Request BY <1>1, IdleIsRequest DEF Idle, Request, ReadPcs
    <3>2. Admitted(r) BY <2>1, <1>1 DEF Idle
    <3> QED BY <3>1, <3>2, <1>2
  <2> QED BY <1>3, <2>1 DEF ArriveIssue
<1>4. CASE ArriveRevoke(p)
  <2>1. ASSUME NEW i \in Install, NEW c \in Credentials,
               Goto(p, [Idle EXCEPT !.pc = "revoke_verify", !.inst = i, !.cred = c])
        PROVE  IInv'
    <3> DEFINE r == [Idle EXCEPT !.pc = "revoke_verify", !.inst = i, !.cred = c]
    <3>1. r \in Request BY <1>1, IdleIsRequest DEF Idle, Request, ReadPcs
    <3>2. Admitted(r) BY <2>1, <1>1 DEF Idle
    <3> QED BY <3>1, <3>2, <1>2
  <2> QED BY <1>4, <2>1 DEF ArriveRevoke
<1>5. CASE ArriveStart(p)
  <2>1. ASSUME NEW i \in Install, NEW c \in Credentials,
               Goto(p, [Idle EXCEPT !.pc = "start_verify", !.inst = i, !.cred = c])
        PROVE  IInv'
    <3> DEFINE r == [Idle EXCEPT !.pc = "start_verify", !.inst = i, !.cred = c]
    <3>1. r \in Request BY <1>1, IdleIsRequest DEF Idle, Request, ReadPcs
    <3>2. Admitted(r) BY <2>1, <1>1 DEF Idle
    <3> QED BY <3>1, <3>2, <1>2
  <2> QED BY <1>5, <2>1 DEF ArriveStart
<1>6. CASE ArriveCallback(p)
  <2>1. ASSUME NEW s \in urls,
               Goto(p, [Idle EXCEPT !.pc = "bind_get", !.state = s])
        PROVE  IInv'
    <3> DEFINE r == [Idle EXCEPT !.pc = "bind_get", !.state = s]
    <3>1. s \in State BY DEF IInv, TypeOK
    <3>2. r \in Request BY <3>1, IdleIsRequest DEF Idle, Request, ReadPcs
    <3>3. Admitted(r) BY <2>1, <3>1 DEF Idle
    <3> QED BY <3>2, <3>3, <1>2
  <2> QED BY <1>6, <2>1 DEF ArriveCallback
<1> QED BY <1>3, <1>4, <1>5, <1>6 DEF Arrive

LEMMA ReadStep ==
  ASSUME IInv, NEW p \in Req,
         ReadFails(p) \/ IssueRead(p) \/ IssueVerify(p) \/ RevokeVerify(p)
         \/ StartVerify(p) \/ BindGet(p) \/ BindExchange(p)
  PROVE  IInv'
<1>1. req[p] \in Request BY DEF IInv, TypeOK
<1>2. ReqInv(p) BY DEF IInv
<1>3. ASSUME Answer(p) PROVE req'[p] = Idle /\ ReqInv(p)' /\ Goto(p, Idle)
  BY <1>3, IdleReqInv DEF Answer, Goto, IInv, TypeOK, ReqInv, Idle, InstPcs
<1>4. CASE ReadFails(p)
  BY <1>4, <1>3, IdleIsRequest, OnlyReqStep DEF ReadFails, IInv, TypeOK
<1>5. CASE IssueRead(p)
  <2>1. row[req[p].inst] \in Row \cup {NoRow}
    BY <1>2, <1>5 DEF IInv, TypeOK, ReqInv, InstPcs, IssueRead, At
  <2>2. ASSUME NEW t \in Token \ minted, minted' = minted \cup {t},
               Goto(p, [req[p] EXCEPT !.pc = "claim_write", !.new = t])
        PROVE  IInv'
    <3>1. [req[p] EXCEPT !.pc = "claim_write", !.new = t] \in Request
      BY <1>1 DEF Request, OtherPcs
    <3>2. ReqInv(p)'
      BY <1>1, <1>2, <1>5, <2>2
      DEF ReqInv, InstPcs, IssueRead, At, Goto, IInv, TypeOK, Request
    <3> QED BY <1>5, <2>2, <3>1, <3>2, OnlyReqStep DEF IssueRead, IInv, TypeOK
  <2>3. ASSUME row[req[p].inst] # NoRow, row[req[p].inst].status = "active",
               Goto(p, [req[p] EXCEPT !.pc = "issue_verify",
                                      !.snap = row[req[p].inst]]),
               UNCHANGED minted
        PROVE  IInv'
    <3>1. [req[p] EXCEPT !.pc = "issue_verify", !.snap = row[req[p].inst]]
             \in Request
      BY <1>1, <2>1 DEF Request, ReadPcs
    <3>2. Shape(row[req[p].inst]) /\ req[p].inst \in Install
      BY <1>2, <1>5, <2>3 DEF IInv, RowInv, ReqInv, InstPcs, IssueRead, At
    <3>3. ReqInv(p)'
      BY <1>1, <1>5, <2>1, <2>3, <3>2
      DEF ReqInv, InstPcs, IssueRead, Goto, IInv, TypeOK, Request, Shape
    <3> QED BY <1>5, <2>3, <3>1, <3>3, OnlyReqStep DEF IssueRead, IInv, TypeOK
  <2>4. ASSUME Answer(p), UNCHANGED minted PROVE IInv'
    BY <1>3, <1>5, <2>4, IdleIsRequest, OnlyReqStep DEF IssueRead, IInv, TypeOK
  <2> QED BY <1>5, <2>2, <2>3, <2>4 DEF IssueRead
<1>6. CASE IssueVerify(p)
  <2>1. ASSUME NEW t \in Token \ minted, minted' = minted \cup {t},
               Goto(p, [req[p] EXCEPT !.pc = "rotate_write", !.new = t])
        PROVE  IInv'
    <3>1. [req[p] EXCEPT !.pc = "rotate_write", !.new = t] \in Request
      BY <1>1 DEF Request, OtherPcs
    <3>2. ReqInv(p)'
      BY <1>1, <1>2, <1>6, <2>1
      DEF ReqInv, InstPcs, IssueVerify, At, Goto, IInv, TypeOK, Request, Shape
    <3> QED BY <1>6, <2>1, <3>1, <3>2, OnlyReqStep DEF IssueVerify, IInv, TypeOK
  <2>2. ASSUME Answer(p), UNCHANGED minted PROVE IInv'
    BY <1>3, <1>6, <2>2, IdleIsRequest, OnlyReqStep DEF IssueVerify, IInv, TypeOK
  <2> QED BY <1>6, <2>1, <2>2 DEF IssueVerify
<1>7. CASE RevokeVerify(p)
  <2>1. CASE Verifies(p)
    <3>1. [req[p] EXCEPT !.pc = "revoke_eval"] \in Request
      BY <1>1 DEF Request, OtherPcs
    <3>2. ReqInv(p)'
      BY <1>1, <1>2, <1>7, <2>1
      DEF ReqInv, InstPcs, RevokeVerify, Verifies, At, Goto, IInv, TypeOK, Request
    <3> QED BY <1>7, <2>1, <3>1, <3>2, OnlyReqStep DEF RevokeVerify, IInv, TypeOK
  <2>2. CASE ~Verifies(p)
    BY <1>3, <1>7, <2>2, IdleIsRequest, OnlyReqStep DEF RevokeVerify, IInv, TypeOK
  <2> QED BY <2>1, <2>2
<1>8. CASE StartVerify(p)
  <2>1. ASSUME NEW s \in State \ started, started' = started \cup {s},
               Goto(p, [req[p] EXCEPT !.pc = "start_write", !.state = s])
        PROVE  IInv'
    <3>1. [req[p] EXCEPT !.pc = "start_write", !.state = s] \in Request
      BY <1>1 DEF Request, OtherPcs
    <3>2. ReqInv(p)'
      BY <1>1, <1>2, <1>8, <2>1
      DEF ReqInv, InstPcs, StartVerify, At, Goto, IInv, TypeOK, Request
    <3> QED BY <1>8, <2>1, <3>1, <3>2, OnlyReqStep DEF StartVerify, IInv, TypeOK
  <2>2. ASSUME Answer(p), UNCHANGED started PROVE IInv'
    BY <1>3, <1>8, <2>2, IdleIsRequest, OnlyReqStep DEF StartVerify, IInv, TypeOK
  <2> QED BY <1>8, <2>1, <2>2 DEF StartVerify
<1>9. CASE BindGet(p)
  <2> DEFINE r == [req[p] EXCEPT !.pc = "bind_del",
                                 !.inst = oauthState[req[p].state]]
  <2>1. req[p].state \in State BY <1>2, <1>9 DEF ReqInv, BindGet, At
  <2>2. oauthState[req[p].state] \in Install \cup {NoInstall}
    BY <2>1 DEF IInv, TypeOK
  <2>3. r \in Request BY <1>1, <2>2 DEF Request, OtherPcs
  <2>4. ReqInv(p)'
    BY <1>1, <1>9, <2>1 DEF ReqInv, InstPcs, BindGet, Goto, IInv, TypeOK, Request
  <2> QED BY <1>9, <2>3, <2>4, OnlyReqStep DEF BindGet, IInv, TypeOK
<1>10. CASE BindExchange(p)
  <2>1. ASSUME NEW g \in Gh, Goto(p, [req[p] EXCEPT !.pc = "bind_eval", !.gh = g])
        PROVE  IInv'
    <3>1. [req[p] EXCEPT !.pc = "bind_eval", !.gh = g] \in Request
      BY <1>1 DEF Request, OtherPcs
    <3>2. ReqInv(p)'
      BY <1>1, <1>2, <1>10, <2>1
      DEF ReqInv, InstPcs, BindExchange, At, Goto, IInv, TypeOK, Request
    <3> QED BY <1>10, <2>1, <3>1, <3>2, OnlyReqStep DEF BindExchange, IInv, TypeOK
  <2>2. ASSUME Answer(p) PROVE IInv'
    BY <1>3, <1>10, <2>2, IdleIsRequest, OnlyReqStep DEF BindExchange, IInv, TypeOK
  <2> QED BY <1>10, <2>1, <2>2 DEF BindExchange
<1> QED BY <1>4, <1>5, <1>6, <1>7, <1>8, <1>9, <1>10

\* The request half of a step that issues a command: if the request is sound
\* at `next`, all requests are sound afterwards.
LEMMA CommandKeepsRequests ==
  ASSUME IInv, NEW p \in Req, NEW o, NEW next \in Request,
         Continue(p, o, next),
         \A i \in Install : row[i] # NoRow => row'[i] # NoRow,
         SameButLeft(req'[p], next) => ReqInv(p)'
  PROVE  req' \in [Req -> Request] /\ \A q \in Req : ReqInv(q)'
<1>1. TypeOK /\ \A q \in Req : ReqInv(q) BY DEF IInv
<1>2. req' \in [Req -> Request] /\ \A q \in Req : q # p => req'[q] = req[q]
  BY <1>1, ContinueType
<1>3. \A q \in Req : q # p => ReqInv(q)' BY <1>1, <1>2, OthersKeep
<1>4. ReqInv(p)'
  <2>1. CASE SameButLeft(req'[p], next) BY <2>1
  <2>2. CASE SameButLeft(req'[p], req[p]) BY <1>1, <2>2, SameKeeps
  <2>3. CASE req'[p] = Idle BY <2>3 DEF ReqInv, Idle, InstPcs
  <2> QED BY <1>1, <2>1, <2>2, <2>3, ContinueFields
<1> QED BY <1>2, <1>3, <1>4

\* Commands whose request ends once they are answered.
LEMMA LastCommand ==
  ASSUME IInv, NEW p \in Req, NEW o, Continue(p, o, Idle),
         \A i \in Install : row[i] # NoRow => row'[i] # NoRow
  PROVE  req' \in [Req -> Request] /\ \A q \in Req : ReqInv(q)'
<1>1. SameButLeft(req'[p], Idle) => ReqInv(p)'
  BY DEF SameButLeft, ReqInv, Idle, InstPcs
<1> QED BY <1>1, IdleIsRequest, CommandKeepsRequests

\* A whole-row HSET keeps rows and reservations in agreement unless it lands on
\* a binding other than the one it carries.
LEMMA HsetKeepsAgreement ==
  ASSUME IInv, NEW i \in Install, NEW r \in Row, Shape(r),
         row' = [row EXCEPT ![i] = r], ghRes' = ghRes,
         clobbered => clobbered',
         ~clobbered' => IF row[i] = NoRow THEN r.gh = NoGh ELSE row[i].gh = r.gh
  PROVE  RowInv' /\ BindingsAgree'
<1>1. row \in [Install -> Row \cup {NoRow}] BY DEF IInv, TypeOK
<1>2. RowInv' BY <1>1, NoRowNotRow DEF IInv, RowInv
<1>3. ASSUME ~clobbered', NEW j \in Install, NEW g \in Gh
      PROVE  (ghRes[g] = j <=> Bound(j, g))'
  <2>1. ghRes[g] = j <=> Bound(j, g) BY <1>3 DEF IInv, BindingsAgree
  <2>2. Bound(j, g)' <=> Bound(j, g)
    BY <1>1, <1>3, NoRowNotRow, DriftConstants DEF Bound
  <2> QED BY <2>1, <2>2
<1> QED BY <1>2, <1>3 DEF BindingsAgree

LEMMA ClaimWriteStep == ASSUME IInv, NEW p \in Req, ClaimWrite(p) PROVE IInv'
<1> DEFINE i == req[p].inst
           next == [req[p] EXCEPT !.pc = "claim_index"]
<1>1. req[p] \in Request /\ i \in Install /\ req[p].new \in Token
  BY DEF IInv, TypeOK, ReqInv, InstPcs, ClaimWrite, At
<1>2. NewRow(p) \in Row /\ Shape(NewRow(p)) /\ NewRow(p).gh = NoGh
  BY <1>1 DEF NewRow, Row, Shape
<1>3. row \in [Install -> Row \cup {NoRow}] BY DEF IInv, TypeOK
<1>4. PICK o \in IssueOutcomes :
        /\ Continue(p, o, next)
        /\ IF o = "refused" THEN UNCHANGED <<row, clobbered>>
           ELSE /\ row' = [row EXCEPT ![i] = NewRow(p)]
                /\ clobbered' = (clobbered \/ row[i] \notin {NoRow, NewRow(p)})
  BY DEF ClaimWrite
<1>5. \A j \in Install : row[j] # NoRow => row'[j] # NoRow
  BY <1>2, <1>3, <1>4, NoRowNotRow
<1>6. next \in Request BY <1>1 DEF Request, OtherPcs
<1>7. SameButLeft(req'[p], next) => ReqInv(p)'
  BY <1>1 DEF SameButLeft, ReqInv, InstPcs, Request
<1>8. req' \in [Req -> Request] /\ \A q \in Req : ReqInv(q)'
  BY <1>4, <1>5, <1>6, <1>7, CommandKeepsRequests
<1>9. TypeOK' BY <1>1, <1>2, <1>3, <1>4, <1>8 DEF ClaimWrite, IInv, TypeOK
<1>10. RowInv' /\ BindingsAgree'
  <2>1. CASE o = "refused"
    BY <1>4, <2>1 DEF ClaimWrite, IInv, RowInv, BindingsAgree, Bound, Shape
  <2>2. CASE o # "refused"
    BY <1>1, <1>2, <1>4, <2>2, HsetKeepsAgreement DEF ClaimWrite
  <2> QED BY <2>1, <2>2
<1> QED BY <1>8, <1>9, <1>10 DEF IInv

LEMMA RotateWriteStep == ASSUME IInv, NEW p \in Req, RotateWrite(p) PROVE IInv'
<1> DEFINE i == req[p].inst
<1>1. /\ req[p] \in Request /\ i \in Install /\ req[p].new \in Token
      /\ req[p].snap \in Row /\ Shape(req[p].snap)
      /\ req[p].snap.status = "active" /\ row[i] # NoRow
  BY DEF IInv, TypeOK, ReqInv, InstPcs, RotateWrite, At
<1>2. RotatedRow(p) \in Row /\ Shape(RotatedRow(p))
      /\ RotatedRow(p).gh = req[p].snap.gh
  BY <1>1 DEF RotatedRow, Row, Shape
<1>3. row \in [Install -> Row \cup {NoRow}] BY DEF IInv, TypeOK
<1>4. PICK o \in IssueOutcomes :
        /\ Continue(p, o, Idle)
        /\ IF o = "refused" THEN UNCHANGED <<row, clobbered>>
           ELSE /\ row' = [row EXCEPT ![i] = RotatedRow(p)]
                /\ clobbered' = (clobbered \/
                     Binding(row[i]) # Binding(req[p].snap))
        /\ delivered' = IF o = "ok"
                        THEN delivered \cup {Delivery(p, "rotate")}
                        ELSE delivered
  BY DEF RotateWrite
<1>5. \A j \in Install : row[j] # NoRow => row'[j] # NoRow
  BY <1>2, <1>3, <1>4, NoRowNotRow
<1>6. req' \in [Req -> Request] /\ \A q \in Req : ReqInv(q)'
  BY <1>4, <1>5, LastCommand
<1>7. Delivery(p, "rotate") \in [inst: Install, tok: Token,
                                 via: {"claim", "rotate"}]
  BY <1>1 DEF Delivery
<1>8. TypeOK'
  BY <1>1, <1>2, <1>3, <1>4, <1>6, <1>7 DEF RotateWrite, IInv, TypeOK
<1>9. RowInv' /\ BindingsAgree'
  <2>1. CASE o = "refused"
    BY <1>4, <2>1 DEF RotateWrite, IInv, RowInv, BindingsAgree, Bound, Shape
  <2>2. CASE o # "refused"
    BY <1>1, <1>2, <1>4, <2>2, HsetKeepsAgreement DEF RotateWrite, Binding
  <2> QED BY <2>1, <2>2
<1> QED BY <1>6, <1>8, <1>9 DEF IInv

LEMMA RevokeEvalStep == ASSUME IInv, NEW p \in Req, RevokeEval(p) PROVE IInv'
<1> DEFINE i == req[p].inst
           r == row[i]
<1>1. req[p] \in Request /\ i \in Install /\ r # NoRow
  BY DEF IInv, TypeOK, ReqInv, InstPcs, RevokeEval, At
<1>2. row \in [Install -> Row \cup {NoRow}] /\ r \in Row
  BY <1>1 DEF IInv, TypeOK
<1>3. RevokedRow(r) \in Row /\ Shape(RevokedRow(r)) /\ RevokedRow(r).gh = NoGh
  BY <1>2 DEF RevokedRow, Row, Shape
<1>4. PICK o \in Outcomes :
        /\ Continue(p, o, Idle)
        /\ IF o = "refused" THEN UNCHANGED <<row, ghRes>>
           ELSE row' = [row EXCEPT ![i] = RevokedRow(r)] /\ ghRes' = FreedBy(r)
  BY DEF RevokeEval
<1>5. \A j \in Install : row[j] # NoRow => row'[j] # NoRow
  BY <1>2, <1>3, <1>4, NoRowNotRow
<1>6. req' \in [Req -> Request] /\ \A q \in Req : ReqInv(q)'
  BY <1>4, <1>5, LastCommand
<1>7. FreedBy(r) \in [Gh -> Install \cup {NoInstall}]
  BY DEF FreedBy, IInv, TypeOK
<1>8. TypeOK' BY <1>1, <1>2, <1>3, <1>4, <1>6, <1>7 DEF RevokeEval, IInv, TypeOK
<1>9. RowInv' BY <1>2, <1>3, <1>4 DEF IInv, RowInv, Shape
<1>10. BindingsAgree'
  <2>1. CASE o = "refused"
    BY <1>4, <2>1 DEF RevokeEval, IInv, BindingsAgree, Bound
  <2>2. CASE o # "refused"
    <3>1. SUFFICES ASSUME ~clobbered', NEW j \in Install, NEW g \in Gh
                   PROVE  (ghRes[g] = j <=> Bound(j, g))'
      BY DEF BindingsAgree
    <3>2. \A k \in Install : ghRes[g] = k <=> Bound(k, g)
      BY <3>1 DEF RevokeEval, IInv, BindingsAgree
    <3>3. g # NoGh BY DriftConstants
    <3>4. CASE j = i
      BY <1>1, <1>2, <1>3, <1>4, <2>2, <3>2, <3>3, <3>4, DriftConstants
      DEF FreedBy, Bound
    <3>5. CASE j # i
      BY <1>1, <1>2, <1>3, <1>4, <2>2, <3>2, <3>5, DriftConstants
      DEF FreedBy, Bound
    <3> QED BY <3>4, <3>5
  <2> QED BY <2>1, <2>2
<1> QED BY <1>6, <1>8, <1>9, <1>10 DEF IInv

LEMMA BindEvalStep == ASSUME IInv, NEW p \in Req, BindEval(p) PROVE IInv'
<1> DEFINE i == req[p].inst
           g == req[p].gh
           r == [row[i] EXCEPT !.cost = "github", !.gh = g]
<1>1. req[p] \in Request /\ i \in Install /\ g \in Gh
  BY DEF IInv, TypeOK, ReqInv, InstPcs, BindEval, At
<1>2. row \in [Install -> Row \cup {NoRow}] BY DEF IInv, TypeOK
<1>3. PICK o \in Outcomes :
        /\ Continue(p, o, Idle)
        /\ IF o # "refused" /\ BindAccepted(i, g)
           THEN ghRes' = [ghRes EXCEPT ![g] = i] /\ row' = [row EXCEPT ![i] = r]
           ELSE UNCHANGED <<row, ghRes>>
  BY DEF BindEval
<1>4. BindAccepted(i, g) =>
        /\ r \in Row /\ Shape(r) /\ r.gh = g /\ row[i] \in Row
        /\ row[i].gh \in {NoGh, g} /\ ghRes[g] \in {NoInstall, i}
  BY <1>1, <1>2, DriftConstants DEF BindAccepted, Row, Shape, IInv, RowInv
<1>5. \A j \in Install : row[j] # NoRow => row'[j] # NoRow
  BY <1>2, <1>3, <1>4, NoRowNotRow
<1>6. req' \in [Req -> Request] /\ \A q \in Req : ReqInv(q)'
  BY <1>3, <1>5, LastCommand
<1>7. TypeOK' BY <1>1, <1>2, <1>3, <1>4, <1>6 DEF BindEval, IInv, TypeOK
<1>8. RowInv' BY <1>2, <1>3, <1>4 DEF IInv, RowInv, Shape
<1>9. BindingsAgree'
  <2>1. CASE UNCHANGED <<row, ghRes>>
    BY <2>1 DEF BindEval, IInv, BindingsAgree, Bound
  <2>2. CASE ~UNCHANGED <<row, ghRes>>
    <3>1. /\ BindAccepted(i, g)
          /\ ghRes' = [ghRes EXCEPT ![g] = i] /\ row' = [row EXCEPT ![i] = r]
      BY <1>3, <2>2
    <3>2. SUFFICES ASSUME ~clobbered', NEW j \in Install, NEW h \in Gh
                   PROVE  (ghRes[h] = j <=> Bound(j, h))'
      BY DEF BindingsAgree
    <3>3. \A k \in Install, f \in Gh : ghRes[f] = k <=> Bound(k, f)
      BY <3>2 DEF BindEval, IInv, BindingsAgree
    <3>4. ghRes \in [Gh -> Install \cup {NoInstall}] BY DEF IInv, TypeOK
    <3>5. CASE h = g
      BY <1>1, <1>2, <1>4, <3>1, <3>3, <3>4, <3>5, NoRowNotRow, DriftConstants
      DEF Bound
    <3>6. CASE h # g
      BY <1>1, <1>2, <1>4, <3>1, <3>3, <3>4, <3>6, NoRowNotRow, DriftConstants
      DEF Bound
    <3> QED BY <3>5, <3>6
  <2> QED BY <2>1, <2>2
<1> QED BY <1>6, <1>7, <1>8, <1>9 DEF IInv

\* The commands that leave rows and reservations alone.
LEMMA OtherWriteStep ==
  ASSUME IInv, NEW p \in Req,
         ClaimIndex(p) \/ StartWrite(p) \/ BindDel(p)
  PROVE  IInv'
<1>1. req[p] \in Request /\ ReqInv(p) BY DEF IInv, TypeOK
<1>2. UNCHANGED <<row, ghRes, clobbered>>
  BY DEF ClaimIndex, StartWrite, BindDel
<1>3. RowInv' /\ BindingsAgree'
  BY <1>2 DEF IInv, RowInv, Shape, BindingsAgree, Bound
<1>4. CASE ClaimIndex(p)
  <2>1. PICK o \in IssueOutcomes : Continue(p, o, Idle) BY <1>4 DEF ClaimIndex
  <2>2. req' \in [Req -> Request] /\ \A q \in Req : ReqInv(q)'
    BY <1>2, <2>1, LastCommand
  <2>3. Delivery(p, "claim") \in [inst: Install, tok: Token,
                                  via: {"claim", "rotate"}]
        /\ req[p].inst \in Install
    BY <1>1, <1>4 DEF Delivery, ReqInv, InstPcs, ClaimIndex, At
  <2>4. identities' \subseteq Install
        /\ delivered' \subseteq [inst: Install, tok: Token,
                                via: {"claim", "rotate"}]
    BY <1>4, <2>3 DEF ClaimIndex, IInv, TypeOK
  <2>5. TypeOK' BY <1>4, <2>2, <2>4 DEF ClaimIndex, IInv, TypeOK
  <2> QED BY <1>3, <2>2, <2>5 DEF IInv
<1>5. CASE StartWrite(p)
  <2>1. PICK o \in Outcomes : Continue(p, o, Idle) BY <1>5 DEF StartWrite
  <2>2. req' \in [Req -> Request] /\ \A q \in Req : ReqInv(q)'
    BY <1>2, <2>1, LastCommand
  <2>3. req[p].inst \in Install /\ req[p].state \in State
    BY <1>1, <1>5 DEF ReqInv, InstPcs, StartWrite, At
  <2>4. TypeOK' BY <1>5, <2>2, <2>3 DEF StartWrite, IInv, TypeOK
  <2> QED BY <1>3, <2>2, <2>4 DEF IInv
<1>6. CASE BindDel(p)
  <2> DEFINE next == IF req[p].inst = NoInstall THEN Idle
                     ELSE [req[p] EXCEPT !.pc = "bind_exchange"]
  <2>1. next \in Request BY <1>1, IdleIsRequest DEF Request, OtherPcs
  <2>2. SameButLeft(req'[p], next) => ReqInv(p)'
    BY <1>1 DEF SameButLeft, ReqInv, InstPcs, Request, Idle
  <2>3. PICK o \in Outcomes : Continue(p, o, next) BY <1>6 DEF BindDel
  <2>4. req' \in [Req -> Request] /\ \A q \in Req : ReqInv(q)'
    BY <1>2, <2>1, <2>2, <2>3, CommandKeepsRequests
  <2>5. TypeOK' BY <1>6, <2>4 DEF BindDel, IInv, TypeOK
  <2> QED BY <1>3, <2>4, <2>5 DEF IInv
<1> QED BY <1>4, <1>5, <1>6

LEMMA ExpireStep ==
  ASSUME IInv, NEW s \in State, ExpireState(s)
  PROVE  IInv'
<1>1. oauthState' \in [State -> Install \cup {NoInstall}]
  BY DEF ExpireState, IInv, TypeOK
<1>2. TypeOK' BY <1>1 DEF ExpireState, IInv, TypeOK
<1>3. RowInv' /\ BindingsAgree' /\ \A q \in Req : ReqInv(q)'
  BY DEF ExpireState, IInv, RowInv, Shape, BindingsAgree, Bound, ReqInv, InstPcs
<1> QED BY <1>2, <1>3 DEF IInv

LEMMA NextIInv == IInv /\ [Next]_vars => IInv'
<1> SUFFICES ASSUME IInv, [Next]_vars PROVE IInv' OBVIOUS
<1>1. CASE UNCHANGED vars
  BY <1>1 DEF vars, IInv, TypeOK, RowInv, Shape, BindingsAgree, Bound, ReqInv,
              InstPcs
<1>2. ASSUME NEW s \in State, ExpireState(s) PROVE IInv' BY <1>2, ExpireStep
<1>3. ASSUME NEW p \in Req, Step(p) PROVE IInv'
  BY <1>3, ArriveStep, ReadStep, ClaimWriteStep, RotateWriteStep,
     RevokeEvalStep, BindEvalStep, OtherWriteStep DEF Step
<1> QED BY <1>1, <1>2, <1>3 DEF Next

THEOREM Invariance == Spec => []IInv
BY InitIInv, NextIInv, PTL DEF Spec

\* Every variable keeps its type: no EVAL runs on a row that is not there and no
\* rotation writes back a snapshot it never took.
THEOREM TypeCorrect == Spec => []TypeOK
<1>1. IInv => TypeOK BY DEF IInv
<1> QED BY <1>1, Invariance, PTL

\* The identity rows and the oauth:gh reservations agree under every
\* interleaving and every command failure, until a stale whole-row HSET lands.
THEOREM BindingsAlwaysAgree == Spec => []BindingsAgree
<1>1. IInv => BindingsAgree BY DEF IInv
<1> QED BY <1>1, Invariance, PTL

\* One install per GitHub account, in the same circumstances.
THEOREM OneInstallPerGithubUntilClobbered ==
  Spec => [](~clobbered => OneInstallPerGithub)
<1>1. IInv => (~clobbered => OneInstallPerGithub)
  BY DEF IInv, BindingsAgree, OneInstallPerGithub
<1> QED BY <1>1, Invariance, PTL
-----------------------------------------------------------------------------
(* Revocation is final once the writes under way have landed.              *)

\* A revoked row is already what REVOKE_SCRIPT would make of it.
LEMMA RevokedRowStays ==
  ASSUME IInv, NEW i \in Install, Revoked(i)
  PROVE  RevokedRow(row[i]) = row[i]
<1>1. row[i] \in Row BY DEF IInv, TypeOK, Revoked
<1>2. row[i].status = "revoked" /\ row[i].gh = NoGh /\ row[i].cost = "none"
  BY <1>1 DEF Revoked, IInv, RowInv, Shape, Row
<1> QED BY <1>1, <1>2 DEF RevokedRow, Row

\* A step of one request leaves the others alone.
LEMMA StepFrame ==
  ASSUME TypeOK, NEW p \in Req, Step(p)
  PROVE  \A q \in Req : q # p => req'[q] = req[q]
<1>1. SUFFICES \E r : Goto(p, r) BY DEF Goto, TypeOK
<1>2. \A o, n : Continue(p, o, n) => \E r : Goto(p, r) BY DEF Continue
<1>3. CASE Arrive(p) \/ ReadFails(p) \/ IssueRead(p) \/ IssueVerify(p)
           \/ RevokeVerify(p) \/ StartVerify(p) \/ BindGet(p) \/ BindExchange(p)
  BY <1>3 DEF Arrive, ArriveIssue, ArriveRevoke, ArriveStart, ArriveCallback,
              ReadFails, IssueRead, IssueVerify, RevokeVerify, StartVerify,
              BindGet, BindExchange, Answer
<1>4. CASE ClaimWrite(p) BY <1>2, <1>4 DEF ClaimWrite
<1>5. CASE ClaimIndex(p) BY <1>2, <1>5 DEF ClaimIndex
<1>6. CASE RotateWrite(p) BY <1>2, <1>6 DEF RotateWrite
<1>7. CASE RevokeEval(p) BY <1>2, <1>7 DEF RevokeEval
<1>8. CASE StartWrite(p) BY <1>2, <1>8 DEF StartWrite
<1>9. CASE BindDel(p) BY <1>2, <1>9 DEF BindDel
<1>10. CASE BindEval(p) BY <1>2, <1>10 DEF BindEval
<1> QED BY <1>3, <1>4, <1>5, <1>6, <1>7, <1>8, <1>9, <1>10 DEF Step

\* A command that does not lead to an HSET leaves a settled install settled.
LEMMA CommandSettles ==
  ASSUME IInv, NEW i \in Install, Settled(i), NEW p \in Req, NEW o,
         NEW next \in Request, Continue(p, o, next),
         next.pc \notin {"claim_write", "rotate_write"}
  PROVE  ~Writing(p, i)'
BY ContinueFields DEF IInv, SameButLeft, Writing, Settled, Idle

LEMMA SettledStep ==
  ASSUME IInv, NEW i \in Install, Revoked(i), Settled(i), NEW p \in Req, Step(p)
  PROVE  row'[i] = row[i] /\ Settled(i)'
<1>1. req \in [Req -> Request] /\ row \in [Install -> Row \cup {NoRow}] /\ TypeOK
  BY DEF IInv, TypeOK
<1>2. req[p] \in Request BY <1>1
<1>3. SUFFICES row'[i] = row[i] /\ ~Writing(p, i)'
  BY <1>1, StepFrame DEF Settled, Writing
<1>4. row[i] # NoRow /\ row[i].status = "revoked" BY DEF Revoked
<1> DEFINE Quiet(r) == r.pc \notin {"claim_write", "rotate_write"}
<1>g. ASSUME NEW r, Goto(p, r), Quiet(r) PROVE ~Writing(p, i)'
  BY <1>1, <1>g DEF Goto, Writing
<1>a. Answer(p) => ~Writing(p, i)' BY <1>g DEF Answer, Idle
<1>5. CASE Arrive(p)
  <2>1. ASSUME NEW j, NEW c, NEW s,
               \/ Goto(p, [Idle EXCEPT !.pc = "issue_read", !.inst = j, !.cred = c])
               \/ Goto(p, [Idle EXCEPT !.pc = "revoke_verify", !.inst = j,
                                       !.cred = c])
               \/ Goto(p, [Idle EXCEPT !.pc = "start_verify", !.inst = j,
                                       !.cred = c])
               \/ Goto(p, [Idle EXCEPT !.pc = "bind_get", !.state = s])
        PROVE  ~Writing(p, i)'
    BY <1>1, <2>1 DEF Goto, Writing, Idle
  <2> QED BY <1>5, <2>1 DEF Arrive, ArriveIssue, ArriveRevoke, ArriveStart,
             ArriveCallback
<1>6. CASE ReadFails(p) \/ RevokeVerify(p) \/ StartVerify(p) \/ BindGet(p)
           \/ BindExchange(p)
  <2>1. UNCHANGED row
    BY <1>6 DEF ReadFails, RevokeVerify, StartVerify, BindGet, BindExchange
  <2>2. CASE ReadFails(p) BY <1>a, <2>1, <2>2 DEF ReadFails
  <2>3. CASE RevokeVerify(p)
    BY <1>1, <1>2, <1>a, <2>1, <2>3 DEF RevokeVerify, Goto, Writing, Request
  <2>4. CASE StartVerify(p)
    BY <1>1, <1>2, <1>a, <2>1, <2>4 DEF StartVerify, Goto, Writing, Request
  <2>5. CASE BindGet(p)
    BY <1>1, <1>2, <2>1, <2>5 DEF BindGet, Goto, Writing, Request
  <2>6. CASE BindExchange(p)
    BY <1>1, <1>2, <1>a, <2>1, <2>6 DEF BindExchange, Goto, Writing, Request
  <2> QED BY <1>6, <2>2, <2>3, <2>4, <2>5, <2>6
<1>7. CASE IssueRead(p)
  <2>1. CASE Answer(p) BY <1>7, <1>a, <2>1 DEF IssueRead
  <2>2. CASE ~Answer(p) /\ row[req[p].inst] = NoRow
    BY <1>1, <1>2, <1>4, <1>7, <2>2 DEF IssueRead, Goto, Writing, Request
  <2>3. CASE ~Answer(p) /\ row[req[p].inst] # NoRow
    BY <1>1, <1>2, <1>7, <2>3 DEF IssueRead, Goto, Writing, Request
  <2> QED BY <2>1, <2>2, <2>3
<1>8. CASE IssueVerify(p)
  <2>1. CASE Answer(p) BY <1>8, <1>a, <2>1 DEF IssueVerify
  <2>2. CASE ~Answer(p)
    <3>1. req[p].inst # i BY <1>4, <1>8, <2>2 DEF IssueVerify, Verifies
    <3>2. PICK t : Goto(p, [req[p] EXCEPT !.pc = "rotate_write", !.new = t])
      BY <1>8, <2>2 DEF IssueVerify
    <3>3. req'[p].inst # i BY <1>1, <1>2, <3>1, <3>2 DEF Goto, Request
    <3> QED BY <1>8, <3>3 DEF IssueVerify, Writing
  <2> QED BY <2>1, <2>2
<1>9. CASE ClaimWrite(p)
  <2>1. [req[p] EXCEPT !.pc = "claim_index"] \in Request
    BY <1>2 DEF Request, OtherPcs
  <2>2. ~Writing(p, i)'
    BY <1>2, <1>9, <2>1, CommandSettles DEF ClaimWrite, Request
  <2>3. req[p].inst # i BY <1>9 DEF ClaimWrite, At, Settled, Writing
  <2> QED BY <1>1, <1>9, <2>2, <2>3 DEF ClaimWrite
<1>10. CASE RotateWrite(p)
  <2>1. ~Writing(p, i)'
    BY <1>10, IdleIsRequest, CommandSettles DEF RotateWrite, Idle
  <2>2. req[p].inst # i BY <1>10 DEF RotateWrite, At, Settled, Writing
  <2> QED BY <1>1, <1>10, <2>1, <2>2 DEF RotateWrite
<1>11. CASE ClaimIndex(p) \/ StartWrite(p)
  BY <1>11, IdleIsRequest, CommandSettles DEF ClaimIndex, StartWrite, Idle
<1>12. CASE RevokeEval(p)
  <2>1. ~Writing(p, i)'
    BY <1>12, IdleIsRequest, CommandSettles DEF RevokeEval, Idle
  <2>2. CASE req[p].inst = i
    BY <1>1, <1>12, <2>1, <2>2, RevokedRowStays DEF RevokeEval
  <2>3. CASE req[p].inst # i BY <1>1, <1>12, <2>1, <2>3 DEF RevokeEval
  <2> QED BY <2>2, <2>3
<1>13. CASE BindDel(p)
  <2>1. [req[p] EXCEPT !.pc = "bind_exchange"] \in Request
    BY <1>2 DEF Request, OtherPcs
  <2>2. (IF req[p].inst = NoInstall THEN Idle
         ELSE [req[p] EXCEPT !.pc = "bind_exchange"]).pc
          \notin {"claim_write", "rotate_write"}
    BY <1>2 DEF Idle, Request
  <2> QED BY <1>13, <2>1, <2>2, IdleIsRequest, CommandSettles DEF BindDel
<1>14. CASE BindEval(p)
  <2>1. ~Writing(p, i)'
    BY <1>14, IdleIsRequest, CommandSettles DEF BindEval, Idle
  <2> QED BY <1>1, <1>4, <1>14, <2>1 DEF BindEval, BindAccepted
<1> QED BY <1>5, <1>6, <1>7, <1>8, <1>9, <1>10, <1>11, <1>12, <1>13, <1>14
        DEF Step

\* Once an install is revoked and no HSET for it is under way, its row never
\* changes again, whatever tokens the clients still hold.
THEOREM RevocationIsFinal == Spec => RevocationSettles
<1>1. IInv /\ [Next]_vars =>
        [\A i \in Install : Revoked(i) /\ Settled(i) =>
           row'[i] = row[i] /\ Settled(i)']_vars
  <2> SUFFICES ASSUME IInv, [Next]_vars, NEW i \in Install, Revoked(i),
                      Settled(i), ~UNCHANGED vars
               PROVE  row'[i] = row[i] /\ Settled(i)'
    OBVIOUS
  <2>1. ASSUME NEW s \in State, ExpireState(s)
        PROVE  row'[i] = row[i] /\ Settled(i)'
    BY <2>1 DEF ExpireState, Settled, Writing
  <2> QED BY <2>1, SettledStep DEF Next
<1> QED BY <1>1, Invariance, PTL DEF Spec, RevocationSettles
-----------------------------------------------------------------------------
(* Every live token reaches a client, if issueIdentity's writes are        *)
(* answered in the end.  The token of an active row is then always in a    *)
(* client's hands or on its way: its own request is about to answer, or    *)
(* some other HSET is about to replace it.                                 *)

IssuePcs == {"claim_write", "rotate_write", "claim_index"}

Live(i) == row[i] # NoRow /\ row[i].status = "active"

Held(i) == \E d \in delivered : d.inst = i /\ d.tok = row[i].tok

OnItsWay(p, i) ==
  /\ req[p].inst = i
  /\ \/ req[p].pc \in {"claim_write", "rotate_write"}
     \/ req[p].pc = "claim_index" /\ req[p].new = row[i].tok

TokenInv == \A i \in Install : Live(i) => Held(i) \/ \E p \in Req : OnItsWay(p, i)

IssueIsAnswered == IssueOutcomes \subseteq {"ok", "resent"}

LEMMA OthersOnTheirWay ==
  ASSUME TypeOK, NEW p \in Req, NEW q \in Req, q # p, Step(p), NEW i \in Install,
         OnItsWay(q, i), row'[i].tok = row[i].tok \/ req[q].pc # "claim_index"
  PROVE  OnItsWay(q, i)'
<1>1. req'[q] = req[q] BY StepFrame
<1> QED BY <1>1 DEF OnItsWay

\* A step outside issueIdentity's writes opens no row and changes no live token.
LEMMA OtherStepsKeepTokens ==
  ASSUME IInv, TokenInv, NEW p \in Req, Step(p), req[p].pc \notin IssuePcs
  PROVE  TokenInv'
<1>1. row \in [Install -> Row \cup {NoRow}] /\ TypeOK BY DEF IInv, TypeOK
<1>2. /\ delivered' = delivered
      /\ \A i \in Install : Live(i)' => Live(i) /\ row'[i].tok = row[i].tok
  <2>1. CASE Arrive(p) BY <2>1 DEF Arrive, Live
  <2>2. CASE ReadFails(p) \/ IssueRead(p) \/ IssueVerify(p)
    BY <2>2 DEF ReadFails, IssueRead, IssueVerify, Live
  <2>3. CASE ClaimWrite(p) \/ ClaimIndex(p) \/ RotateWrite(p)
    BY <2>3 DEF ClaimWrite, ClaimIndex, RotateWrite, At, IssuePcs
  <2>4. CASE RevokeVerify(p) \/ StartVerify(p) \/ StartWrite(p) \/ BindGet(p) \/ BindDel(p)
             \/ BindExchange(p)
    BY <2>4 DEF RevokeVerify, StartVerify, StartWrite, BindGet, BindDel, BindExchange, Live
  <2>5. CASE RevokeEval(p)
    <3>1. req[p].inst \in Install /\ row[req[p].inst] \in Row
      BY <1>1, <2>5 DEF IInv, ReqInv, InstPcs, RevokeEval, At
    <3>2. RevokedRow(row[req[p].inst]).status = "revoked"
      BY <3>1 DEF RevokedRow, Row
    <3> QED BY <1>1, <2>5, <3>1, <3>2 DEF RevokeEval, Live
  <2>6. CASE BindEval(p)
    <3>1. req[p].inst \in Install
      BY <2>6 DEF IInv, ReqInv, InstPcs, BindEval, At
    <3>2. CASE UNCHANGED row BY <2>6, <3>2 DEF BindEval, Live
    <3>3. CASE ~UNCHANGED row
      <4>1. /\ BindAccepted(req[p].inst, req[p].gh)
            /\ row' = [row EXCEPT ![req[p].inst] =
                         [row[req[p].inst] EXCEPT !.cost = "github", !.gh = req[p].gh]]
        BY <2>6, <3>3 DEF BindEval
      <4>2. row[req[p].inst] \in Row BY <1>1, <3>1, <4>1 DEF BindAccepted
      <4>3. row'[req[p].inst].tok = row[req[p].inst].tok BY <1>1, <3>1, <4>1, <4>2 DEF Row
      <4>4. Live(req[p].inst) BY <4>1 DEF BindAccepted, Live
      <4> QED BY <1>1, <2>6, <3>1, <4>1, <4>3, <4>4 DEF BindEval, Live
    <3> QED BY <3>2, <3>3
  <2> QED BY <2>1, <2>2, <2>3, <2>4, <2>5, <2>6 DEF Step
<1> SUFFICES ASSUME NEW i \in Install, Live(i)'
             PROVE  Held(i)' \/ \E q \in Req : OnItsWay(q, i)'
  BY DEF TokenInv
<1>3. Live(i) /\ row'[i].tok = row[i].tok BY <1>2
<1>4. CASE Held(i) BY <1>2, <1>3, <1>4 DEF Held
<1>5. ASSUME NEW q \in Req, OnItsWay(q, i) PROVE OnItsWay(q, i)'
  <2>1. q # p BY <1>5 DEF OnItsWay, IssuePcs
  <2> QED BY <1>1, <1>3, <1>5, <2>1, OthersOnTheirWay
<1> QED BY <1>3, <1>4, <1>5 DEF TokenInv

\* An HSET of p at install j: its own token is on its way, the other installs are as before.
LEMMA HsetKeepsTokens ==
  ASSUME IInv, TokenInv, NEW p \in Req, Step(p), NEW j \in Install, req[p].inst = j,
         NEW r, row' = [row EXCEPT ![j] = r], delivered \subseteq delivered',
         Live(j)' => Held(j)' \/ OnItsWay(p, j)'
  PROVE  TokenInv'
<1>1. row \in [Install -> Row \cup {NoRow}] /\ TypeOK BY DEF IInv, TypeOK
<1> SUFFICES ASSUME NEW i \in Install, Live(i)', i # j
             PROVE  Held(i)' \/ \E q \in Req : OnItsWay(q, i)'
  BY DEF TokenInv
<1>2. row'[i] = row[i] BY <1>1
<1>3. Live(i) BY <1>2 DEF Live
<1>4. CASE Held(i) BY <1>2, <1>4 DEF Held
<1>5. ASSUME NEW q \in Req, OnItsWay(q, i) PROVE OnItsWay(q, i)'
  <2>1. q # p BY <1>5 DEF OnItsWay
  <2> QED BY <1>1, <1>2, <1>5, <2>1, OthersOnTheirWay
<1> QED BY <1>3, <1>4, <1>5 DEF TokenInv

LEMMA IssueStepsKeepTokens ==
  ASSUME IInv, TokenInv, IssueIsAnswered, NEW p \in Req, Step(p), req[p].pc \in IssuePcs
  PROVE  TokenInv'
<1>1. /\ row \in [Install -> Row \cup {NoRow}] /\ TypeOK
      /\ req[p] \in Request /\ req[p].inst \in Install /\ req[p].new \in Token
  BY DEF IInv, TypeOK, ReqInv, InstPcs, IssuePcs
<1>2. ClaimWrite(p) \/ RotateWrite(p) \/ ClaimIndex(p)
  BY DEF Step, Arrive, ReadFails, IssueRead, IssueVerify, RevokeVerify, RevokeEval,
         StartVerify, StartWrite, BindGet, BindDel, BindExchange, BindEval, At, ReadPcs,
         IssuePcs
<1>3. PICK j \in Install : j = req[p].inst BY <1>1
<1>4. CASE ClaimWrite(p)
  <2> DEFINE next == [req[p] EXCEPT !.pc = "claim_index"]
  <2>1. PICK o \in {"ok", "resent"} :
          Continue(p, o, next) /\ row' = [row EXCEPT ![req[p].inst] = NewRow(p)]
    BY <1>4 DEF ClaimWrite, IssueIsAnswered
  <2>2. next \in Request /\ next.pc = "claim_index" /\ next.inst = j /\ next.new = req[p].new
    BY <1>1, <1>3 DEF Request, OtherPcs
  <2>3. SameButLeft(req'[p], next) \/ SameButLeft(req'[p], req[p])
    BY <1>1, <2>1, <2>2, ContinueFields
  <2>4. req[p].pc = "claim_write" BY <1>4 DEF ClaimWrite, At
  <2>5. row'[j].tok = req[p].new BY <1>1, <1>3, <2>1 DEF NewRow
  <2> HIDE DEF next
  <2>6. OnItsWay(p, j)' BY <1>3, <2>2, <2>3, <2>4, <2>5 DEF SameButLeft, OnItsWay
  <2>7. delivered' = delivered BY <1>4 DEF ClaimWrite
  <2>8. row' = [row EXCEPT ![j] = NewRow(p)] BY <1>3, <2>1
  <2> QED BY <1>3, <2>6, <2>7, <2>8, HsetKeepsTokens
<1>5. CASE RotateWrite(p)
  <2>1. PICK o \in {"ok", "resent"} :
          /\ Continue(p, o, Idle) /\ row' = [row EXCEPT ![req[p].inst] = RotatedRow(p)]
          /\ delivered' = IF o = "ok" THEN delivered \cup {Delivery(p, "rotate")}
                          ELSE delivered
    BY <1>5 DEF RotateWrite, IssueIsAnswered
  <2>2. row'[j].tok = req[p].new BY <1>1, <1>3, <2>1 DEF RotatedRow
  <2>3. CASE o = "ok"
    <3>1. Delivery(p, "rotate").inst = j /\ Delivery(p, "rotate").tok = req[p].new
      BY <1>3 DEF Delivery
    <3>2. Held(j)' BY <2>1, <2>2, <2>3, <3>1 DEF Held
    <3> QED BY <1>3, <2>1, <3>2, HsetKeepsTokens
  <2>4. CASE o = "resent"
    <3>1. SameButLeft(req'[p], req[p]) BY <1>1, <2>1, <2>4, ContinueFields, IdleIsRequest
    <3>2. OnItsWay(p, j)' BY <1>3, <1>5, <3>1 DEF SameButLeft, OnItsWay, RotateWrite, At
    <3> QED BY <1>3, <2>1, <3>2, HsetKeepsTokens
  <2> QED BY <2>1, <2>3, <2>4
<1>6. CASE ClaimIndex(p)
  <2>1. PICK o \in {"ok", "resent"} :
          /\ Continue(p, o, Idle)
          /\ delivered' = IF o = "ok" THEN delivered \cup {Delivery(p, "claim")}
                          ELSE delivered
    BY <1>6 DEF ClaimIndex, IssueIsAnswered
  <2>2. row' = row /\ req[p].pc = "claim_index" BY <1>6 DEF ClaimIndex, At
  <2> SUFFICES ASSUME NEW i \in Install, Live(i)'
               PROVE  Held(i)' \/ \E q \in Req : OnItsWay(q, i)'
    BY DEF TokenInv
  <2>3. Live(i) BY <2>2 DEF Live
  <2>4. CASE Held(i) BY <2>1, <2>2, <2>4 DEF Held
  <2>5. ASSUME NEW q \in Req, q # p, OnItsWay(q, i) PROVE OnItsWay(q, i)'
    BY <1>1, <2>2, <2>5, OthersOnTheirWay
  <2>6. ASSUME OnItsWay(p, i) PROVE Held(i)' \/ OnItsWay(p, i)'
    <3>1. req[p].inst = i /\ req[p].new = row[i].tok BY <2>2, <2>6 DEF OnItsWay
    <3>2. CASE o = "ok"
      <4>1. Delivery(p, "claim").inst = i /\ Delivery(p, "claim").tok = row[i].tok
        BY <3>1 DEF Delivery
      <4> QED BY <2>1, <2>2, <3>2, <4>1 DEF Held
    <3>3. CASE o = "resent"
      <4>1. SameButLeft(req'[p], req[p]) BY <1>1, <2>1, <3>3, ContinueFields, IdleIsRequest
      <4> QED BY <2>2, <2>6, <4>1 DEF SameButLeft, OnItsWay
    <3> QED BY <3>2, <3>3
  <2> QED BY <2>3, <2>4, <2>5, <2>6 DEF TokenInv
<1> QED BY <1>2, <1>4, <1>5, <1>6

\* Whatever becomes of the other commands and however claims and rotations race: once the
\* writes for an install have landed, the token that opens it is in some client's hands.
\* The hypothesis is that the HSET and SADD of issueIdentity are answered, perhaps after a
\* re-send: an HSET that lands unanswered leaves a row no client can open.
THEOREM LiveTokensAreDelivered ==
  ASSUME IssueIsAnswered
  PROVE  Spec => []LiveTokenDelivered
<1>1. Init => TokenInv BY DEF Init, TokenInv, Live
<1>2. IInv /\ TokenInv /\ [Next]_vars => TokenInv'
  <2> SUFFICES ASSUME IInv, TokenInv, [Next]_vars PROVE TokenInv' OBVIOUS
  <2>1. CASE UNCHANGED vars
    BY <2>1 DEF vars, TokenInv, Live, Held, OnItsWay
  <2>2. ASSUME NEW p \in Req, Step(p) PROVE TokenInv'
    BY <2>2, OtherStepsKeepTokens, IssueStepsKeepTokens
  <2>3. ASSUME NEW s \in State, ExpireState(s) PROVE TokenInv'
    BY <2>3 DEF ExpireState, TokenInv, Live, Held, OnItsWay
  <2> QED BY <2>1, <2>2, <2>3 DEF Next
<1>3. TokenInv => LiveTokenDelivered
  BY DEF TokenInv, LiveTokenDelivered, Live, Held, OnItsWay, Settled, Writing, Answering
<1> QED BY <1>1, <1>2, <1>3, Invariance, PTL DEF Spec
=============================================================================
