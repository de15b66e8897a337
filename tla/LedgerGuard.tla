----------------------------- MODULE LedgerGuard -----------------------------
(***************************************************************************)
(* How a ledger of decisions may change: scripts/check-adjudication-diff   *)
(* over data/adjudications.jsonl (rulings on screens) and                  *)
(* data/preview_badges.jsonl (owners' badges and their revocations).  A    *)
(* ledger is append-only.  It changes on two paths: a pull request, which  *)
(* adjudication-guard.yml checks against its base, and the push-back job   *)
(* of another machine (external), which pushes directly after checking     *)
(* only a floor of lines and the form of each.  Where both have added to   *)
(* the end, .gitattributes has git keep the lines of both.                 *)
(*                                                                         *)
(* A line is a record of what the checks ask of it; two lines differ in    *)
(* `id`.  The two ledgers never meet: a behaviour is about one of them.    *)
(***************************************************************************)
EXTENDS Naturals, Sequences

CONSTANTS
  Ruling,       \* lines somebody may write into data/adjudications.jsonl
  BadgeLine,    \* and into data/preview_badges.jsonl
  FirstLine,    \* [ledger -> the line it starts with]
  NoFile,       \* a missing file
  MaxLines, MaxPushes    \* bounds

Ledger == {"adjudications", "previews"}
CONFIRMED_MIN_WORDS == 4

ASSUME LedgerGuardConstants ==
  /\ \A e \in Ruling : /\ {e.json, e.whole, e.digest} \subseteq BOOLEAN
                       /\ e.by \in {"operator", "reviewer", "machine", "person"}
                       /\ e.words \in Nat
  /\ \A e \in BadgeLine :
       {e.json, e.whole, e.binds, e.claims, e.reason} \subseteq BOOLEAN
  /\ FirstLine["adjudications"] \in Ruling /\ FirstLine["previews"] \in BadgeLine
  /\ NoFile \notin Seq(Ruling \cup BadgeLine)

VARIABLES
  ledger,     \* which of the two
  mainLines,  \* its lines on main
  pull,       \* the open pull request: [head, base, check]
  pushes,     \* bound
  longest,    \* history: the most lines main ever had
  grown,       \* history: the lines main had by additions alone
  replaced,   \* history: a push of the job changed a line that was there
  overruled   \* history: a pull request landed that its guard had refused
ledgerGuardVars ==
  <<ledger, mainLines, pull, pushes, longest, grown, replaced, overruled>>
-----------------------------------------------------------------------------
(* The checks.                                                             *)

\* Mutant: a machine may accuse.
ThinOnly(e) == \/ ~e.json \/ ~e.whole \/ ~e.digest \/ e.by = "person"
               \/ e.decision = "confirmed" /\ e.words < CONFIRMED_MIN_WORDS

badEntry(e) ==
  \/ ~e.json                    \* not a JSON object: a conflict marker, say
  \/ ~e.whole                   \* a required field is missing or empty
  \/ e.decision \notin {"confirmed", "cleared"}
  \/ ~e.digest
  \/ e.by = "person"            \* neither an operator's handle nor a pseudonym
  \/ e.by = "machine" /\ e.decision # "cleared"
  \/ e.decision = "confirmed" /\ e.words < CONFIRMED_MIN_WORDS

badPreviewEntry(e) ==
  \/ ~e.json
  \/ ~e.whole                   \* slug, server id or instant missing or ill-formed
  \/ e.claims                   \* an id or statement that claims clearance
  \/ ~e.binds                   \* the id does not make this slug
  \/ IF e.kind = "revoke" THEN ~e.reason
     ELSE e.state \notin {"clean", "drift", "inconclusive"}

\* The ledgers of the repository begin with a line in form.
ASSUME FirstLinesInForm ==
  ~badEntry(FirstLine["adjudications"]) /\ ~badPreviewEntry(FirstLine["previews"])

Bad(e) == IF ledger = "adjudications" THEN badEntry(e) ELSE badPreviewEntry(e)

IsPrefixOf(s, t) == Len(s) <= Len(t) /\ SubSeq(t, 1, Len(s)) = s

\* Mutant: more lines than before are taken for additions.
OnlyGrows(old, new) ==
  Len(new) >= Len(old) /\ \A i \in (Len(old) + 1)..Len(new) : ~Bad(new[i])

\* No error: what was there is there, byte for byte, and what was added is in form.
checkAppendOnly(old, new) ==
  IsPrefixOf(old, new) /\ \A i \in (Len(old) + 1)..Len(new) : ~Bad(new[i])

Lines(file) == IF file = NoFile THEN <<>> ELSE file

\* The pull request's arm.  The base is read as empty only when its commit resolves and
\* lists no such file; a base that was not fetched fails the job.
baseDiff(resolves, base, work) == resolves /\ checkAppendOnly(base, Lines(work))

\* The job's arm: no fewer lines than its HEAD has, and each of them in form.
wellformedOnly(floor, work) ==
  /\ work = NoFile => floor = 0
  /\ Len(Lines(work)) >= floor
  /\ \A i \in DOMAIN Lines(work) : ~Bad(Lines(work)[i])
-----------------------------------------------------------------------------
NoPull == [head |-> <<>>, base |-> <<>>, check |-> "none"]

LedgerGuardInit ==
  /\ ledger \in Ledger
  /\ mainLines = <<FirstLine[ledger]>>
  /\ pull = NoPull
  /\ pushes = 0
  /\ longest = 1
  /\ grown = mainLines
  /\ replaced = FALSE
  /\ overruled = FALSE

Line == IF ledger = "adjudications" THEN Ruling ELSE BadgeLine

\* A line carries its author and its instant: nobody writes one that main or the branch has.
Unwritten ==
  {e \in Line : /\ \A i \in DOMAIN mainLines : mainLines[i] # e
                /\ \A i \in DOMAIN pull.head : pull.head[i] # e}

\* A line more, a line fewer, a line changed.
Edits(s) ==
  {Append(s, e) : e \in IF Len(s) < MaxLines THEN Unwritten ELSE {}}
  \cup {SubSeq(s, 1, i) : i \in 0..(Len(s) - 1)}
  \cup {[s EXCEPT ![i] = e] : i \in DOMAIN s, e \in Unwritten}

LandOnMain(s) ==
  /\ pushes < MaxPushes
  /\ pushes' = pushes + 1
  /\ mainLines' = s
  /\ longest' = IF Len(s) > longest THEN Len(s) ELSE longest
  /\ grown' = IF IsPrefixOf(grown, s) THEN s ELSE grown
-----------------------------------------------------------------------------
(* How git combines a branch that only adds lines with a main that moved.  *)

OnlyAdds == Len(pull.head) > Len(pull.base) /\ IsPrefixOf(pull.base, pull.head)

\* Line k is the last of the branch's base that main still has; 0 when there is none.  The
\* two sides differ in one hunk behind it.
LastShared(k) ==
  LET same(i) == i <= Len(mainLines) /\ mainLines[i] = pull.base[i]
  IN (k > 0 => same(k)) /\ \A i \in (k + 1)..Len(pull.base) : ~same(i)

After(s, k) == SubSeq(s, k + 1, Len(s))

\* data/adjudications.jsonl merge=union: no conflict, the lines of both sides stay, those of
\* the side merged into first.  The other ledger has no such rule.
Combines(k) == ledger = "adjudications" \/ After(mainLines, k) = <<>>
BranchFirst(k) ==
  (SubSeq(mainLines, 1, k) \o After(pull.head, k)) \o After(mainLines, k)
MainFirst(k) == mainLines \o After(pull.head, k)
-----------------------------------------------------------------------------
\* A branch of today's main, edited.
Propose ==
  /\ pull.check = "none"
  /\ \E s \in Edits(mainLines) :
       pull' = [head |-> s, base |-> mainLines, check |-> "pending"]
  /\ UNCHANGED <<ledger, mainLines, pushes, longest, grown, replaced, overruled>>

\* adjudication-guard.yml: the self-check and the parity with the canonical guard, then
\* the arm, of the merge made when the branch was pushed against the base as it is now.
Guard(resolves, parity) ==
  /\ pull.check = "pending"
  /\ pull' = [pull EXCEPT !.check =
                IF parity /\ baseDiff(resolves, mainLines, pull.head)
                THEN "green" ELSE "red"]
  /\ UNCHANGED <<ledger, mainLines, pushes, longest, grown, replaced, overruled>>

\* Main moved, and the author brings it into the branch: by a rebase or by a merge, by the
\* union or, where git asks for it, by hand.  The push runs the guard anew.
Update ==
  /\ pull.check # "none" /\ mainLines # pull.base /\ OnlyAdds
  /\ \E k \in 0..Len(pull.base) :
       /\ LastShared(k)
       /\ \E s \in {MainFirst(k), BranchFirst(k)} :
            pull' = [head |-> s, base |-> mainLines, check |-> "pending"]
  /\ UNCHANGED <<ledger, mainLines, pushes, longest, grown, replaced, overruled>>

\* A branch that only adds lands on a main that moved wherever git combines the two; one
\* that takes lines away or changes them, on the main it was made of.  The guard is no
\* required check (web-ci.yml): a red one can be landed by hand.
Merge ==
  /\ pull.check \in {"green", "red"}
  /\ \/ ~OnlyAdds /\ mainLines = pull.base /\ LandOnMain(pull.head)
     \/ /\ OnlyAdds
        /\ \E k \in 0..Len(pull.base) :
             LastShared(k) /\ Combines(k) /\ LandOnMain(MainFirst(k))
  /\ overruled' = (overruled \/ pull.check = "red")
  /\ pull' = NoPull
  /\ UNCHANGED <<ledger, replaced>>

Close ==
  /\ pull.check # "none"
  /\ pull' = NoPull
  /\ UNCHANGED <<ledger, mainLines, pushes, longest, grown, replaced, overruled>>

\* The job's file gains lines after its pull, or is damaged, or goes; what it had before
\* the pull is put behind main's lines by the same union.  What its arm refuses stays for
\* an operator, a conflict marker of the other ledger too; what passes is pushed, unless
\* main moved since the pull.
PushBack ==
  /\ \E work \in Edits(mainLines) \cup {NoFile} :
       /\ wellformedOnly(Len(mainLines), work)
       /\ LandOnMain(Lines(work))
  /\ replaced' = (replaced \/ ~IsPrefixOf(mainLines, mainLines'))
  /\ UNCHANGED <<ledger, pull, overruled>>

LedgerGuardNext ==
  \/ Propose \/ Update \/ Merge \/ Close \/ PushBack
  \/ \E resolves, parity \in BOOLEAN : Guard(resolves, parity)

LedgerGuardSpec == LedgerGuardInit /\ [][LedgerGuardNext]_ledgerGuardVars
-----------------------------------------------------------------------------
\* What a published line may never be: a name, a machine's accusation, an accusation
\* without its reason; a badge that claims clearance, or under another server's slug.
Honest(e) ==
  /\ e.json
  /\ IF ledger = "adjudications"
     THEN /\ e.by # "person"
          /\ e.decision = "confirmed" =>
               e.by # "machine" /\ e.words >= CONFIRMED_MIN_WORDS
     ELSE e.binds /\ ~e.claims

\* Until somebody lands what the guard refused, no line is ever lost, whichever path each
\* change took, and every line says only what a ledger may say.
NoRulingIsLost ==
  ~overruled => Len(mainLines) = longest /\ \A i \in DOMAIN mainLines : Honest(mainLines[i])

\* And a pull request that passed never changes a line or puts one between two others,
\* not where main moved under it and git combined the two either: with no push of the job
\* that replaced a line, main begins with all it ever had, in order.  The job's own arm
\* does not see such a replacement, which is why it is set apart.
EveryRulingStays == ~overruled /\ ~replaced => IsPrefixOf(grown, mainLines)

\* What a pull request that passed put on main, the job's arm accepts: it is not locked out.
GuardsAgree == ~overruled => wellformedOnly(Len(mainLines), mainLines)

\* A decision stays as it was made: scripts/check-adjudication-diff.mjs.
RulingsStay == NoRulingIsLost /\ EveryRulingStays /\ GuardsAgree
=============================================================================
