---------------------------- MODULE MCLedgerPaging ----------------------------
(* Small instances of LedgerPaging for TLC.                                *)
EXTENDS LedgerPaging

\* Generations that grow, shrink and have an empty section.
SmallPages ==
  << [events |-> 2, context_events |-> 1],
     [events |-> 3, context_events |-> 0],
     [events |-> 1, context_events |-> 2] >>
=============================================================================
