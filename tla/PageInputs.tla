----------------------------- MODULE PageInputs -----------------------------
(***************************************************************************)
(* The two inputs of the site that wait for something while the visitor    *)
(* goes on: the search box (components/ServerSearch.tsx: a debounce timer, *)
(* one fetch at a time, the older aborted) and the scan box                *)
(* (components/ScanTool.tsx: the keyboard, the clipboard behind a prompt   *)
(* that may stay open, a file being read).                                 *)
(*                                                                         *)
(* A query is a number: 0 is a box too short to search.  A text is the way *)
(* it came and, of the keyboard, which edit it is; "none" is empty.        *)
(***************************************************************************)
EXTENDS Naturals, FiniteSets

CONSTANTS
  Query,        \* the queries typed, 0 among them
  MaxEdits,     \* bound: on edits of either box
  MaxReads      \* bound: on reads of the clipboard, and of files

ASSUME InputConstants == 0 \in Query /\ Query \subseteq Nat

VARIABLES
  search,   \* [q, typed, debounce, state, shown, live]: live are the fetches not aborted
  overtaken,\* history: an answer came to a box already cleared
  scan,     \* [text, edits, presses, picked]
  waiting,  \* the clipboard reads under way, each with its nudge to come or given
  reading,  \* the button says it is reading, and takes no press
  files,    \* how many files are being read
  replaced      \* history: who replaced a text the visitor had typed
inputVars == <<search, overtaken, scan, waiting, reading, files, replaced>>
searchVars == <<search, overtaken>>
scanVars == <<scan, waiting, reading, files, replaced>>

Empty == <<"none", 0>>
-----------------------------------------------------------------------------
\* setQ: each edit starts the debounce again.
Type(q) ==
  /\ search.typed < MaxEdits
  /\ search' = [search EXCEPT !.q = q, !.typed = @ + 1, !.debounce = TRUE]
  /\ UNCHANGED <<overtaken, scanVars>>

Cleared == [search EXCEPT !.debounce = FALSE, !.state = "idle", !.shown = 0]
Searching(live) == [search EXCEPT !.debounce = FALSE, !.state = "loading", !.live = live]

\* Mutant: the fetch before is not aborted.
FiresAlone ==
  /\ search.debounce
  /\ search' = IF search.q = 0 THEN Cleared ELSE Searching(search.live \union {search.q})
  /\ UNCHANGED <<overtaken, scanVars>>

\* The timer of the effect: a short query clears the page, and lets a fetch under way be; any
\* other aborts it and starts its own.
Fires ==
  /\ search.debounce
  /\ search' = IF search.q = 0 THEN Cleared ELSE Searching({search.q})
  /\ UNCHANGED <<overtaken, scanVars>>

\* A fetch that was not aborted comes back: an error leaves the results before it on the page.
SearchEnds(q, ok) ==
  /\ q \in search.live
  /\ search' = [search EXCEPT !.live = @ \ {q}, !.state = IF ok THEN "done" ELSE "error",
                              !.shown = IF ok THEN q ELSE @]
  /\ overtaken' = (search.state = "idle")
  /\ UNCHANGED scanVars
-----------------------------------------------------------------------------
Fill(text) == scan' = [scan EXCEPT !.text = text]
Loses(by) == replaced' = IF scan.text[1] = "typed" THEN replaced \union {by} ELSE replaced

\* edit
Edit(empty) ==
  /\ scan.edits < MaxEdits
  /\ scan' = [scan EXCEPT !.edits = @ + 1,
                          !.text = IF empty THEN Empty ELSE <<"typed", scan.edits + 1>>]
  /\ UNCHANGED <<searchVars, waiting, reading, files, replaced>>

\* The sample buttons: pressed on purpose.
Sample ==
  /\ Fill(<<"sample", 0>>) /\ Loses("sample")
  /\ UNCHANGED <<searchVars, waiting, reading, files>>

\* pasteFromClipboard, up to its await.
Press ==
  /\ ~reading /\ scan.presses < MaxReads
  /\ scan' = [scan EXCEPT !.presses = @ + 1]
  /\ waiting' = waiting \union {<<scan.presses + 1, "silent">>} /\ reading' = TRUE
  /\ UNCHANGED <<searchVars, files, replaced>>

\* The prompt stays open: the button is given back.
Nudge(n) ==
  /\ <<n, "silent">> \in waiting
  /\ waiting' = (waiting \ {<<n, "silent">>}) \union {<<n, "nudged">>} /\ reading' = FALSE
  /\ UNCHANGED <<searchVars, scan, files, replaced>>

\* Mutant: a late clipboard fills the box whatever is in it.
ClipboardFills(n, w, filled) ==
  /\ <<n, w>> \in waiting
  /\ waiting' = waiting \ {<<n, w>>} /\ reading' = FALSE
  /\ IF filled THEN Fill(<<"clipboard", 0>>) /\ Loses("clipboard") ELSE UNCHANGED <<scan, replaced>>
  /\ UNCHANGED <<searchVars, files>>

\* The clipboard is read at last, or refused, or empty: it fills an empty box only.
Clipboard(n, w, filled) ==
  /\ <<n, w>> \in waiting
  /\ waiting' = waiting \ {<<n, w>>} /\ reading' = FALSE
  /\ IF filled /\ scan.text = Empty
       THEN Fill(<<"clipboard", 0>>) /\ Loses("clipboard")
       ELSE UNCHANGED <<scan, replaced>>
  /\ UNCHANGED <<searchVars, files>>

\* onFile: one chosen or dropped; and its load, which asks nothing of the box.
Pick ==
  /\ scan.picked < MaxReads
  /\ scan' = [scan EXCEPT !.picked = @ + 1] /\ files' = files + 1
  /\ UNCHANGED <<searchVars, waiting, reading, replaced>>

FileRead(ok) ==
  /\ files > 0 /\ files' = files - 1
  /\ IF ok THEN Fill(<<"file", 0>>) /\ Loses("file") ELSE UNCHANGED <<scan, replaced>>
  /\ UNCHANGED <<searchVars, waiting, reading>>
-----------------------------------------------------------------------------
InputInit ==
  /\ search = [q |-> 0, typed |-> 0, debounce |-> TRUE, state |-> "idle", shown |-> 0, live |-> {}]
  /\ overtaken = FALSE
  /\ scan = [text |-> Empty, edits |-> 0, presses |-> 0, picked |-> 0]
  /\ waiting = {} /\ reading = FALSE /\ files = 0 /\ replaced = {}

InputNext ==
  \/ \E q \in Query : Type(q)
  \/ Fires
  \/ \E q \in Query, ok \in BOOLEAN : SearchEnds(q, ok)
  \/ \E empty \in BOOLEAN : Edit(empty)
  \/ Sample \/ Press \/ Pick
  \/ \E n \in 1..MaxReads : Nudge(n)
  \/ \E n \in 1..MaxReads, w \in {"silent", "nudged"}, filled \in BOOLEAN : Clipboard(n, w, filled)
  \/ \E ok \in BOOLEAN : FileRead(ok)

InputSpec == InputInit /\ [][InputNext]_inputVars
-----------------------------------------------------------------------------
InputTypeOK ==
  /\ search.q \in Query /\ search.state \in {"idle", "loading", "done", "error"}
  /\ search.live \subseteq Query /\ search.shown \in Query
  /\ waiting \subseteq (1..MaxReads) \X {"silent", "nudged"} /\ {reading, overtaken} \subseteq BOOLEAN
  /\ files \in 0..MaxReads /\ replaced \subseteq {"clipboard", "file", "sample"}

\* Once the search box is at rest, results that are called done are those of what is in it,
\* but for a fetch that outlived the clearing of the box; and it does come to rest.
ResultsAreTheBoxs ==
  ~search.debounce /\ search.live = {} =>
    /\ search.state # "loading"
    /\ search.state = "done" => search.shown = search.q \/ (search.q = 0 /\ overtaken)

\* A text the visitor typed is replaced only by the file or the sample they asked for, never by
\* a clipboard that answers late; and the button is never stuck without a read under way.
TypedTextStays == "clipboard" \notin replaced /\ (reading => waiting # {})

\* Whatever answers late, an input shows and keeps what its visitor put there.
\* (ServerSearch.tsx:31-58, ScanTool.tsx:238-283)
LateAnswersYield == ResultsAreTheBoxs /\ TypedTextStays
=============================================================================
