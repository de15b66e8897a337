----------------------------- MODULE ConfigScan -----------------------------
(***************************************************************************)
(* What the scan page says of one entry of an MCP config (lib/scan/parse.ts *)
(* and summarize.ts, shown by components/ScanTool.tsx): where it talks,    *)
(* which credentials it carries, whether it fetches its code at launch, how *)
(* much of the disk it is handed, and the same behind mcpindex's own gate. *)
(*                                                                         *)
(* The state is the entry, written a piece at a time and wired or unwired. *)
(* A word of a command line is one of a set that tells the patterns apart: *)
(* "v" is a credential only the flag before it betrays, "sk" one that its  *)
(* shape betrays; "auth-server" is a package whose name reads like a flag. *)
(***************************************************************************)
EXTENDS Naturals, SequencesExt

CONSTANTS
  Spawned,      \* the commands an entry may spawn
  Arguments,     \* bound: the words its arguments are taken from
  MaxArgs,       \* bound: on the arguments
  Urls,          \* bound: the urls an entry may have
  Spots,         \* bound: the keys of `env` and `headers` it may carry
  Wirings        \* the ways an entry is put behind the gate

VARIABLES
  entry,    \* [type, command, args, url, spots], as its author wrote it
  wiring    \* "none", or how it was put behind the gate
configVars == <<entry, wiring>>

Mask == "***"
NoCommand == "none"
Url == [scheme: {"https", "http", "file", "none"}, host: {"far", "loop"},
        secrets: SUBSET {"userinfo", "query", "path"}]
NoUrl == [scheme |-> "no url", host |-> "far", secrets |-> {}]
Spot == [in: {"env", "header"}, name: {"bland", "secret", "auth"},
         value: {"plain", "scheme", "ref", "schemeRef", "blank"}]

ASSUME ConfigConstants ==
  /\ Urls \subseteq Url /\ Spots \subseteq Spot /\ MaxArgs \in Nat
  /\ NoCommand \notin Spawned /\ Wirings \subseteq {"marker", "joined", "docs"}
-----------------------------------------------------------------------------
(* What the patterns of parse.ts make of a word.                           *)

Dashed == {"-y", "--api-key", "--api-key=v", "--from", "--mcpindex-stdio", "--upstream-command"}
LikeFlag == {"--api-key", "auth-server"}
TokenShaped == {"sk"}

\* A word whose part before its `=` reads like a flag keeps that part alone.
Joined == [w \in {"--api-key=v", "auth-server==1"} |->
             IF w = "--api-key=v" THEN "--api-key=***" ELSE "auth-server=***"]

Resolver == {"npx", "uvx"}
Pinned == {"pkg@1", "auth-server==1", "mcpindex-gate==1"}
Latest == {"pkg@latest"}
Tagged == {"img:1"}
PathWord == {"/", "/proj", "/Users/jo Smith/proj", "/Users/jo"}
BroadPath == {"/", "/Users/jo"}

\* A word with a space comes apart where a command line is split again.
Pieces(w) == IF w = "/Users/jo Smith/proj" THEN <<"/Users/jo", "Smith/proj">> ELSE <<w>>
-----------------------------------------------------------------------------
\* redactArgs: the word after one that reads like a flag is its value, unless dashed.
redactArgs(ws) ==
  LET value[i \in 0..Len(ws)] ==
        i > 1 /\ ~value[i - 1] /\ ws[i - 1] \in LikeFlag /\ ws[i] \notin Dashed
  IN  [i \in DOMAIN ws |->
         IF value[i] \/ ws[i] \in TokenShaped THEN Mask
         ELSE IF ws[i] \in DOMAIN Joined THEN Joined[ws[i]] ELSE ws[i]]

foundInArgs(ws) == {<<"arg", i>> : i \in {j \in DOMAIN ws : redactArgs(ws)[j] # ws[j]}}

\* redactUrl: in a url without a scheme, which `new URL` refuses, nothing is found.
foundInUrl(u) == IF u = NoUrl \/ u.scheme = "none" THEN {} ELSE {"url"} \X u.secrets

\* secretKeys: a name that says so, or a value that betrays itself.
secretSpots(spots) ==
  {s \in spots : \/ s.name = "secret" \/ (s.in = "header" /\ s.name = "auth")
                 \/ s.value \in {"scheme", "schemeRef"}}
literalSpots(spots) == {s \in secretSpots(spots) : s.value \in {"plain", "scheme"}}
-----------------------------------------------------------------------------
(* The entry as the file has it: as written, or behind the gate, where     *)
(* `marker` is the original the installer keeps, and `upstream` what the   *)
(* words --upstream-command=X and --upstream-arg=Y name.                   *)

Bare == [command |-> entry.command, args |-> entry.args, marker |-> <<>>, upstream |-> <<>>]

Line == <<entry.command>> \o entry.args
Launched(words) == [Bare EXCEPT !.command = "uvx", !.args = words]
PinnedGate == <<"--from", "mcpindex-gate==1", "mcpindex-proxy", "--mcpindex-stdio">>
DocsGate == <<"--from", "mcpindex-gate", "mcpindex-proxy", "--mcpindex-stdio",
              "--upstream-command", entry.command>>

\* The docs page writes the command as a word of its own, and joins each argument.
Wired(form) ==
  CASE form = "none" -> Bare
    [] form = "marker" -> [Launched(PinnedGate) EXCEPT !.marker = Line]
    [] form = "joined" -> [Launched(PinnedGate) EXCEPT !.upstream = Line]
    [] form = "docs" -> [Launched(DocsGate) EXCEPT !.upstream = entry.args]

\* Mutant: what the words name comes first, and the marker is not looked at.
WordsOnly(def) == def.upstream

\* unwrapGate: the marker's original, else what the joined words name.
unwrapGate(def) == IF def.marker # <<>> THEN def.marker ELSE def.upstream

Whole(def) == <<def.command>> \o def.args

\* Mutant: the wrapper is judged like any other entry.
JudgesWrapper(def) == Whole(def)

\* parseConfig: the upstream, masked and split at its spaces, is judged, not the wrapper.
Effective(def) ==
  IF unwrapGate(def) = <<>> THEN Whole(def)
  ELSE FlattenSeq([i \in DOMAIN unwrapGate(def) |-> Pieces(redactArgs(unwrapGate(def))[i])])

fetchesAtLaunchFrom(command, args) ==
  LET images == SelectSeq(args, LAMBDA w : w \notin Dashed)
  IN  \/ command \in Resolver /\ (Range(args) \cap Latest # {} \/ Range(args) \cap Pinned = {})
      \/ command = "docker" /\ images # <<>> /\ images[1] \notin Tagged

pathScopeOf(args) ==
  LET paths == Range(args) \cap PathWord
  IN  IF paths = {} THEN "unknown" ELSE IF paths \cap BroadPath # {} THEN "broad" ELSE "narrow"

\* "what it runs", "fetches its code at launch", "broad file access".
Judged(def) ==
  LET line == Effective(def)
  IN  [runs |-> redactArgs(IF unwrapGate(def) = <<>> THEN Whole(def) ELSE unwrapGate(def)),
       fetchesAtLaunch |-> fetchesAtLaunchFrom(Head(line), Tail(line)),
       pathScope |-> pathScopeOf(IF Tail(line) # <<>> THEN Tail(line) ELSE def.args)]
-----------------------------------------------------------------------------
\* Mutant: a command line is masked, and what was masked is not counted.
OnlyMasked(def) == {}

\* What the redactors masked in the entry's own url and command line counts as carried,
\* and as kept in the file; what they mask in an unwrapped one does not.
InCommand(def) == IF def.command = NoCommand THEN {} ELSE foundInArgs(Whole(def))
spotted(spots) == {<<s.in, s>> : s \in spots}
secretKeys(def) == spotted(secretSpots(entry.spots)) \cup foundInUrl(entry.url) \cup InCommand(def)
secretsInFile(def) == spotted(literalSpots(entry.spots)) \cup foundInUrl(entry.url) \cup InCommand(def)

transportOf ==
  IF entry.type # "none" THEN (IF entry.type = "stdio" THEN "local" ELSE "remote")
  ELSE IF entry.command # NoCommand THEN "local"
  ELSE IF entry.url # NoUrl THEN "remote" ELSE "unknown"

reachOf ==
  IF transportOf = "local" THEN "process"
  ELSE IF entry.url = NoUrl THEN "unknown"
  ELSE IF entry.url.host = "loop" THEN "loopback" ELSE "internet"

isInsecureTransport ==
  /\ transportOf = "remote" /\ entry.url # NoUrl
  /\ entry.url.scheme \in {"http", "none"} /\ entry.url.host = "far"
-----------------------------------------------------------------------------
ConfigInit ==
  /\ entry = [type |-> "none", command |-> NoCommand, args |-> <<>>, url |-> NoUrl, spots |-> {}]
  /\ wiring = "none"

\* The author edits the entry.
Rewrite ==
  /\ wiring = "none" /\ UNCHANGED wiring
  /\ \/ \E c \in Spawned : entry' = [entry EXCEPT !.command = c]
     \/ /\ Len(entry.args) < MaxArgs
        /\ \E w \in Arguments : entry' = [entry EXCEPT !.args = Append(@, w)]
     \/ \E u \in Urls : entry.url = NoUrl /\ entry' = [entry EXCEPT !.url = u]
     \/ \E s \in Spots : entry' = [entry EXCEPT !.spots = @ \cup {s}]
     \/ \E ty \in {"stdio", "http"} : entry' = [entry EXCEPT !.type = ty]

\* The installer, or a reader of the docs, puts a spawned server behind the gate; http
\* servers are left as they are.
Wire ==
  /\ wiring = "none" /\ entry.command # NoCommand
  /\ wiring' \in Wirings /\ UNCHANGED entry

Unwire == wiring # "none" /\ wiring' = "none" /\ UNCHANGED entry

ConfigNext == Rewrite \/ Wire \/ Unwire
ConfigSpec == ConfigInit /\ [][ConfigNext]_configVars
-----------------------------------------------------------------------------
\* "Judge the code that actually runs, not the wrapper around it" (parse.ts:412): an entry
\* behind the gate is judged as it was before.
WiringKeepsFindings == entry.args # <<>> => Judged(Wired(wiring)) = Judged(Bare)

\* The words the redactors leave as they are, and which a space does not take apart.
PlainLine == \A i \in DOMAIN Line : redactArgs(Line)[i] = Line[i] /\ Pieces(Line[i]) = <<Line[i]>>

\* The words that hold a credential, whatever the patterns say.
CredentialWords ==
  {i \in DOMAIN Line : \/ Line[i] \in {"sk", "--api-key=v"}
                       \/ i > 1 /\ Line[i] = "v" /\ Line[i - 1] = "--api-key"}

\* An entry behind the gate is judged as it was before, as far as its line survives being
\* masked and split; no credential of a command line is ever shown, behind the gate or not;
\* and "via an environment variable" is said of an entry only when it holds no credential in
\* the file, save behind the gate, where those of the command line are masked and not
\* counted.  And plaintext http is said only of an entry that is said to reach the internet.
\* (parse.ts:244-271, 312-352, 401-435; ScanTool.tsx:751-762)
ScanIsHonest ==
  LET def == Wired(wiring) IN
  /\ entry.command # NoCommand =>
       /\ wiring \in {"marker", "joined"} /\ PlainLine => WiringKeepsFindings
       /\ \A i \in DOMAIN Judged(def).runs :
            /\ Judged(def).runs[i] \notin {"sk", "--api-key=v"}
            /\ i > 1 /\ Judged(def).runs[i] = "v" => Judged(def).runs[i - 1] # "--api-key"
  /\ secretKeys(def) # {} /\ secretsInFile(def) = {} =>
       /\ \A s \in entry.spots : s.value \in {"plain", "scheme"} => s \notin secretSpots(entry.spots)
       /\ wiring = "none" /\ entry.command # NoCommand => CredentialWords = {}
  /\ isInsecureTransport => reachOf = "internet"
=============================================================================
