SPECIFICATION IdentitiesSpec
CONSTANTS
  Install = {i1, i2}
  Token = {t1, t2, t3}
  Gh = {g1, g2}
  State = {s1, s2}
  Req = {p1, p2}
  Ops = {"issue", "revoke", "startUpgrade", "bindGithub"}
  Outcomes = {"ok", "resent", "refused", "unacked"}
  IssueOutcomes = {"ok", "resent"}
  Retries = 1
  NoRow = NoRow
  NoToken = NoToken
  BadToken = BadToken
  NoGh = NoGh
  NoInstall = NoInstall
  NoState = NoState
  Browser = {i1, i2}
  Account = {a1, a2}
  LoginId = {s1, s2}
  Key = {t1, t2, t3}
  LoginReq = {p1, p2}
  LoginOutcomes = {"ok", "resent", "refused", "unacked"}
  RpcOutcomes = {"ok", "refused", "unacked"}
  Replies = {"delivered", "lost"}
  LoginRetries = 1
  NoLoginId = NoLoginId
  NoKey = NoKey
  NoAccount = NoAccount
  NoBrowser = NoBrowser
SYMMETRY Symmetry
CHECK_DEADLOCK FALSE
INVARIANTS BindingsAgree LiveTokenDelivered ShownKeysAreRight
PROPERTIES RevocationSettles LoginsDoNotInterfere PromiseKept
