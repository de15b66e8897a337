----------------------------- MODULE MCRateLimit -----------------------------
(* A small instance of RateLimit for TLC.                                  *)
EXTENDS RateLimit, TLC

CONSTANTS bulk, shared, closed, gate, export, page

\* /api/v1/drift/any; /api/v1/ledger with its own limiter in front of the same
\* one; /api/v1/server-drift, whose limiter fails closed.
MCPlan == (gate :> <<shared>>) @@ (export :> <<bulk, shared>>) @@ (page :> <<closed>>)
MCPerIp == (bulk :> 1) @@ (shared :> 2) @@ (closed :> 1)
MCPerDay == (bulk :> 1) @@ (shared :> 2) @@ (closed :> 2)

Symmetry == Permutations(Req) \cup Permutations(Client)
=============================================================================
