----------------------------- MODULE MCRegistry -----------------------------
(***************************************************************************)
(* What becomes of the registry on the site, in four parts that share      *)
(* nothing: the files of a sync, the feed of changes made from them, the   *)
(* answer made from a server's field of the ledger, and the two ledgers of *)
(* decisions.  A behaviour is one of any of them, and the others stand     *)
(* still.                                                                  *)
(*                                                                         *)
(* The feed has two names on two pages.  The ledger has two tools, two     *)
(* publisher-wide changes (a must-review one, and a later replacement) and *)
(* a context surface.  The ledgers of decisions have a line somebody may   *)
(* add, and one for each way a line can be refused.                        *)
(***************************************************************************)
EXTENDS RegistrySync, RegistryFeed, LedgerSlice, LedgerGuard, TLC

CONSTANTS s1, s2, u1, u2, w1, w2, narrowed, removed

VARIABLE part
Part == {"sync", "feed", "slice", "guard"}

MCWideChange == (w1 :> narrowed) @@ (w2 :> removed)
MCWideHour == (w1 :> 1) @@ (w2 :> 2)

MCRulingInForm(n) ==
  [id |-> n, json |-> TRUE, whole |-> TRUE, decision |-> "confirmed", digest |-> TRUE,
   by |-> "operator", words |-> 4]
MCRuling ==
  LET ok == MCRulingInForm(2)
  IN {MCRulingInForm(1), ok, [ok EXCEPT !.json = FALSE], [ok EXCEPT !.whole = FALSE],
      [ok EXCEPT !.decision = "banned"], [ok EXCEPT !.digest = FALSE],
      [ok EXCEPT !.by = "person"], [ok EXCEPT !.by = "machine"],
      [ok EXCEPT !.by = "machine", !.decision = "cleared", !.words = 0],
      [ok EXCEPT !.words = 3]}
MCBadgeInForm(n) ==
  [id |-> n, json |-> TRUE, whole |-> TRUE, binds |-> TRUE, claims |-> FALSE,
   kind |-> "badge", state |-> "drift", reason |-> FALSE]
MCBadgeLine ==
  LET ok == MCBadgeInForm(2)
      revoke == [ok EXCEPT !.kind = "revoke", !.state = "none", !.reason = TRUE]
  IN {MCBadgeInForm(1), ok, [ok EXCEPT !.json = FALSE], [ok EXCEPT !.whole = FALSE],
      [ok EXCEPT !.binds = FALSE], [ok EXCEPT !.claims = TRUE],
      [ok EXCEPT !.state = "cleared"], revoke, [revoke EXCEPT !.reason = FALSE]}
MCFirstLine ==
  ("adjudications" :> MCRulingInForm(1)) @@ ("previews" :> MCBadgeInForm(1))

Symmetry == Permutations({s1, s2}) \cup Permutations({u1, u2})

RegistryInit == part \in Part /\ SyncInit /\ FeedInit /\ SliceInit /\ LedgerGuardInit

RegistryNext ==
  /\ UNCHANGED part
  /\ \/ /\ part = "sync" /\ SyncNext
        /\ UNCHANGED <<feedVars, sliceVars, ledgerGuardVars>>
     \/ /\ part = "feed" /\ FeedNext
        /\ UNCHANGED <<syncVars, sliceVars, ledgerGuardVars>>
     \/ /\ part = "slice" /\ SliceNext
        /\ UNCHANGED <<syncVars, feedVars, ledgerGuardVars>>
     \/ /\ part = "guard" /\ LedgerGuardNext
        /\ UNCHANGED <<syncVars, feedVars, sliceVars>>

RegistrySpec ==
  RegistryInit /\ [][RegistryNext]_<<part, syncVars, feedVars, sliceVars, ledgerGuardVars>>
=============================================================================
