---------------------------- MODULE MCTrustStore ----------------------------
(***************************************************************************)
(* Two names on one base slug, and a third on the slug the first had       *)
(* before hashes were joined with `--`; the second and the third declare   *)
(* one identity.  A former slug begins as the bare slug it extends; and a  *)
(* slug nobody has is the first two's with `-mcp`.                         *)
(***************************************************************************)
EXTENDS ServerPage, TLC

CONSTANTS a, b, c, k, base, other, formerB, formerC, baseMcp

MCBaseOf == (a :> base) @@ (b :> base) @@ (c :> other)
MCFormerOf == (a :> other) @@ (b :> formerB) @@ (c :> formerC)
MCKeysOf == (a :> {}) @@ (b :> {k}) @@ (c :> {k})

\* A clean screen, a flag, a flag with a hostile schema.
MCOutcomes ==
  {[status |-> "EVALUATED", screen |-> "PASS", schema |-> FALSE],
   [status |-> "EVALUATED", screen |-> "FAIL", schema |-> FALSE],
   [status |-> "EVALUATED", screen |-> "FAIL", schema |-> TRUE]}

MCSeeded == <<formerC>> :> <<base>>
MCLonger == {<<base, other>>, <<base, formerB>>, <<base, formerC>>, <<base, baseMcp>>,
             <<other, formerC>>}
MCWithoutMcp == baseMcp :> base

\* For RetiredBasesAsk: three names on one base slug.
MCOneBase == [n \in {a, b, c} |-> base]
=============================================================================
