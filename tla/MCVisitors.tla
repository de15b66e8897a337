----------------------------- MODULE MCVisitors -----------------------------
(* What a visitor and what an install meet, in eleven parts that share     *)
(* nothing: the proxy (two clients on one isolate whose map has room for   *)
(* one of their buckets), the hosted MCP endpoint, the leads, the npm      *)
(* client's verdicts, the inputs of the pages, and what the scan page says *)
(* of a config entry and of a tool; and the telemetry, drift signals,      *)
(* receipts, the lookup and the marks of active keys.  No two share a key  *)
(* of the store, so a behaviour is one of any of them, and the others      *)
(* stand still.                                                            *)
EXTENDS EdgeProxy, McpEndpoint, LeadCapture, TrustClient, PageInputs, ConfigScan, ToolGrade,
        DriftIngest, DriftQuery, ActiveKeys, TLC

CONSTANTS d1, d2, t1, t2, p1, p2, u, v

VARIABLE part

\* Two installs behind one bearer, both with a drift; a pin.
SomeDrift ==
  {<<[event |-> "drift", tool |-> t1, install |-> d1],
     [event |-> "drift", tool |-> t2, install |-> d2]>>,
   <<[event |-> "pin", tool |-> t1, install |-> d2]>>}

SomeReceipts == {[install |-> d1, receipts |-> <<"a", "b">>], [install |-> d1, receipts |-> <<"c">>]}

\* A url with a credential, and one the parser refuses; a reference, and a literal header.
SomeUrls == {[scheme |-> "http", host |-> "far", secrets |-> {"query"}],
             [scheme |-> "none", host |-> "far", secrets |-> {"path"}]}
SomeSpots == {[in |-> "env", name |-> "secret", value |-> "ref"],
              [in |-> "header", name |-> "bland", value |-> "scheme"]}

\* The installs and the tools are told apart by the batches.
Symmetry == Permutations({p1, p2}) \union Permutations({u, v})

visitorVars == <<vars, mcpVars, leadVars, trustClientVars, inputVars, configVars, gradeVars>>
telemetryVars == <<ingestVars, queryVars, marksVars>>

MCInit ==
  /\ part \in {"proxy", "mcp", "leads", "client", "inputs", "entry", "tool",
             "drift", "receipts", "query", "marks"}
  /\ Init /\ McpInit /\ LeadInit /\ TrustClientInit /\ InputInit
  /\ ConfigInit /\ ToolInit
  /\ IngestInit /\ QueryInit /\ MarksInit
  /\ part \notin {"drift", "receipts"} => live = [i \in Install |-> NoToken]
  /\ part # "query" => dark = {}

Ingest == part \in {"drift", "receipts"} /\ IngestNext
           /\ \A p \in Post : post'[p].pc # "idle" => post'[p].kind = part

pageVars == <<inputVars, configVars, gradeVars>>

Visit ==
  \/ part = "proxy" /\ Next /\ UNCHANGED <<mcpVars, leadVars, trustClientVars, pageVars>>
  \/ part = "mcp" /\ McpNext /\ UNCHANGED <<vars, leadVars, trustClientVars, pageVars>>
  \/ part = "leads" /\ LeadNext /\ UNCHANGED <<vars, mcpVars, trustClientVars, pageVars>>
  \/ part = "client" /\ TrustClientNext /\ UNCHANGED <<vars, mcpVars, leadVars, pageVars>>
  \/ /\ UNCHANGED <<vars, mcpVars, leadVars, trustClientVars>>
     /\ \/ part = "inputs" /\ InputNext /\ UNCHANGED <<configVars, gradeVars>>
        \/ part = "entry" /\ ConfigNext /\ UNCHANGED <<inputVars, gradeVars>>
        \/ part = "tool" /\ ToolNext /\ UNCHANGED <<inputVars, configVars>>

Telemetry ==
  \/ Ingest /\ UNCHANGED <<queryVars, marksVars>>
  \/ part = "query" /\ QueryNext /\ UNCHANGED <<ingestVars, marksVars>>
  \/ part = "marks" /\ MarksNext /\ UNCHANGED <<ingestVars, queryVars>>

MCNext ==
  \/ Visit /\ UNCHANGED <<part, telemetryVars>>
  \/ Telemetry /\ UNCHANGED <<part, visitorVars>>

MCSpec == MCInit /\ [][MCNext]_<<part, visitorVars, telemetryVars>>
=============================================================================
