----------------------------- MODULE LedgerPromise -----------------------------
(***************************************************************************)
(* What paging through the ledger promises, without pages, cursors or      *)
(* expiry: generations are published one after the other, and a reader     *)
(* takes one of them, whole, that was the published one while it read.     *)
(***************************************************************************)
EXTENDS Naturals

CONSTANTS Gens,      \* how many generations there are
          Content,   \* what each of them holds
          Nothing

VARIABLES published, \* the latest generation, 0 before the first
          since,     \* the latest generation when the reader started
          taken      \* what the reader holds

Init == published = 0 /\ since = 0 /\ taken = Nothing

Publish ==
  /\ published < Gens
  /\ published' = published + 1
  /\ UNCHANGED <<since, taken>>

Begin ==
  /\ since' = published
  /\ UNCHANGED <<published, taken>>

Take ==
  /\ \E g \in 1..published : g >= since /\ taken' = Content[g]
  /\ UNCHANGED <<published, since>>

Next == Publish \/ Begin \/ Take

Spec == Init /\ [][Next]_<<published, since, taken>>
=============================================================================
