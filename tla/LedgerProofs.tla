---------------------------- MODULE LedgerProofs ----------------------------
(***************************************************************************)
(* Theorems about LedgerPaging for any number of generations, whatever     *)
(* their pages, any lifetimes, limits and faults.                          *)
(***************************************************************************)
EXTENDS LedgerPaging, TLAPS, SequenceTheorems

(***************************************************************************)
(* The inductive invariant follows a walk from its first page to the file. *)
(*   IndexInv   what is published is written, and its pages do not expire; *)
(*   Fixed      a walk's generation was the published one when it read     *)
(*              page 0, so its pages live at least PageTtl longer;         *)
(*   Counted    its rows are at most as many as its pages, and if as many, *)
(*              all of them in order: what the published count is for;     *)
(*   Finished   a finished walk is a whole section of such a generation.   *)
(***************************************************************************)
PageRow(g, s, n) == [gen |-> g, section |-> s, page |-> n]

IndexInv ==
  /\ written \in {index.gen, index.gen + 1}
  /\ index.at <= now /\ since <= index.gen
  /\ \A g \in 1..Gens : g >= index.gen => until[g] = Never

\* The generation a walk fixed is one the job may keep, and not long gone.
Fixed(v) ==
  /\ v.gen \in 1..index.gen /\ v.gen >= since
  /\ v.counts = Pages[v.gen][Sections[v.k]]
  /\ v.at <= now
  /\ v.gen = index.gen \/ until[v.gen] >= v.at + PageTtl

Counted(v) ==
  /\ Len(v.items) <= v.n
  /\ Len(v.items) = v.n =>
       \A i \in 1..v.n : v.items[i] = PageRow(v.gen, Sections[v.k], i - 1)

\* The page of its generation it asks for.
Asked(v) == [gen |-> v.gen, n |-> v.n, pages |-> Pages[v.gen][Sections[v.k]]]

WalkInv(v) ==
  /\ v.n = 0 => v.cursor = NoCursor
  /\ v.n > 0 => v.cursor = Asked(v) /\ v.n < Asked(v).pages
  /\ v.n > 0 \/ v.pc = "page" => Fixed(v)
  /\ v.pc = "page" => v.plan = Asked(v) /\ v.n < Asked(v).pages
  /\ Counted(v)

Finished(s) ==
  /\ got[s].gen \in 1..index.gen /\ got[s].gen >= since
  /\ got[s].rows = Whole(got[s].gen, s)

GotInv ==
  /\ w.k = 2 \/ w.pc = "decide" => Finished(Sections[1])
  /\ w.pc = "decide" => Finished(Sections[2])

IInv == TypeOK /\ got = [s \in Section |-> got[s]] /\ IndexInv /\ WalkInv(w) /\ GotInv
-----------------------------------------------------------------------------
LEMMA SectionIs ==
  /\ Len(Sections) = 2 /\ DOMAIN Sections = 1..2
  /\ Sections[1] = "events" /\ Sections[2] = "context_events"
  /\ Section = {"events", "context_events"}
<1>1. /\ Len(Sections) = 2 /\ DOMAIN Sections = 1..2
      /\ Sections[1] = "events" /\ Sections[2] = "context_events"
  BY DEF Sections
<1>2. Section = {Sections[1], Sections[2]} BY <1>1 DEF Section
<1> QED BY <1>1, <1>2

LEMMA PagesAreNat == \A g \in 1..Gens, s \in Section : Pages[g][s] \in Nat
BY LedgerConstants

LEMMA WholeIsSeq ==
  ASSUME NEW g \in 1..Gens, NEW s \in Section
  PROVE  /\ Whole(g, s) \in Seq(Row) /\ Len(Whole(g, s)) = Pages[g][s]
         /\ \A i \in 1..Pages[g][s] : Whole(g, s)[i] = PageRow(g, s, i - 1)
<1>1. Pages[g][s] \in Nat BY PagesAreNat
<1>2. \A i \in 1..Pages[g][s] : PageRow(g, s, i - 1) \in Row BY <1>1 DEF PageRow, Row
<1>3. \A i \in 1..Pages[g][s] : Whole(g, s)[i] = PageRow(g, s, i - 1)
  BY <1>1 DEF Whole, PageRow
<1>4. Whole(g, s) \in [1..Pages[g][s] -> Row] BY <1>2 DEF Whole, PageRow
<1>5. Whole(g, s) \in Seq(Row) /\ Len(Whole(g, s)) = Pages[g][s] BY <1>1, <1>4
<1> QED BY <1>3, <1>5

LEMMA IdleInWalk == Idle \in Walk
<1>1. <<>> \in Seq(Row) OBVIOUS
<1>2. NoCursor \in [gen: 0..Gens, n: Nat, pages: Nat] BY LedgerConstants DEF NoCursor, NoGen
<1>3. 1 \in 1..Len(Sections) /\ 0 \in 0..MaxRetries /\ 0 \in 0..Gens /\ 0 \in 0..Horizon
  BY SectionIs, LedgerConstants
<1> QED BY <1>1, <1>2, <1>3 DEF Idle, Walk, NoGen

\* A walk that has asked for nothing has established nothing.
Started(v) == v.n = 0 /\ v.cursor = NoCursor /\ v.items = <<>> /\ v.pc # "page"

LEMMA StartedInv == ASSUME Started(w)' PROVE WalkInv(w)'
BY DEF Started, WalkInv, Counted

\* What a page adds to the rows of a walk.
LEMMA OneMore ==
  ASSUME NEW items \in Seq(Row), NEW row \in Row, NEW rows \in {<<>>, <<row>>}
  PROVE  /\ items \o rows \in Seq(Row)
         /\ \/ rows = <<>> /\ Len(items \o rows) = Len(items)
            \/ /\ Len(items \o rows) = Len(items) + 1
               /\ \A i \in 1..Len(items) : (items \o rows)[i] = items[i]
               /\ (items \o rows)[Len(items) + 1] = row
<1>1. CASE rows = <<>> BY <1>1
<1>2. CASE rows = <<row>>
  <2>1. rows \in Seq(Row) /\ Len(rows) = 1 /\ rows[1] = row BY <1>2
  <2>2. /\ items \o rows \in Seq(Row) /\ Len(items \o rows) = Len(items) + Len(rows)
        /\ \A i \in 1 .. Len(items) + Len(rows) :
             (items \o rows)[i] = IF i <= Len(items) THEN items[i] ELSE rows[i - Len(items)]
    BY <2>1, ConcatProperties
  <2>3. Len(items) \in Nat BY LenProperties
  <2> QED BY <2>1, <2>2, <2>3
<1> QED BY <1>1, <1>2
-----------------------------------------------------------------------------
\* The walk is over, or starts, and what is published or kept is left alone.
LEMMA OverStep ==
  ASSUME IInv, w' = Idle, UNCHANGED got, UNCHANGED <<now, kept, since, faults, drain>>
  PROVE  IInv'
<1>1. TypeOK' BY IdleInWalk DEF IInv, TypeOK, drain
<1>2. Idle.pc = "idle" /\ Idle.k = 1 /\ Idle.n = 0 BY DEF Idle
<1>3. IndexInv' BY DEF IInv, IndexInv, drain
<1>5. WalkInv(w)' BY StartedInv DEF Started, Idle
<1>6. GotInv' BY <1>2 DEF GotInv
<1> QED BY <1>1, <1>3, <1>5, <1>6 DEF IInv

\* A section is walked to its end.
LEMMA DoneStep ==
  ASSUME IInv, NEW v \in Walk, v.k = w.k, Fixed(v), NEW rows \in Seq(Row),
         rows = Whole(v.gen, Sections[v.k]),
         got' = [got EXCEPT ![Sec] = [gen |-> v.gen, rows |-> rows]],
         w' = IF w.k = Len(Sections) THEN [Idle EXCEPT !.pc = "decide"]
              ELSE [Idle EXCEPT !.pc = "ask", !.k = w.k + 1],
         UNCHANGED <<now, kept, since, faults, drain>>
  PROVE  IInv'
<1> DEFINE walk == [gen |-> v.gen, rows |-> rows]
<1>1. w.k \in 1..2 /\ Sec \in Section /\ Sec = Sections[v.k]
  <2>1. w \in Walk BY DEF IInv, TypeOK
  <2>2. w.k \in 1..2 BY <2>1, SectionIs DEF Walk
  <2> QED BY <2>2, SectionIs DEF Sec
<1>2. index.gen \in 0..Gens /\ v.gen \in 1..Gens BY LedgerConstants DEF IInv, TypeOK, Fixed
<1>3. walk \in [gen: 1..Gens, rows: Seq(Row)] BY <1>2
<1>4. /\ got'[Sec] = walk /\ walk.gen = v.gen /\ walk.rows = rows
      /\ \A s \in Section : s # Sec => got'[s] = got[s]
      /\ got' = [s \in Section |-> got'[s]]
  BY <1>1 DEF IInv
<1> HIDE DEF walk
<1>5. w' \in Walk /\ Started(w)'
  <2>1. CASE w.k = 1
    <3>1. w' = [Idle EXCEPT !.pc = "ask", !.k = 2] BY <2>1, SectionIs
    <3>2. 2 \in 1..Len(Sections) BY SectionIs
    <3> QED BY <3>1, <3>2, IdleInWalk DEF Idle, Walk, Started
  <2>2. CASE w.k = 2
    BY <2>2, IdleInWalk, SectionIs DEF Idle, Walk, Started
  <2> QED BY <1>1, <2>1, <2>2
<1>6. TypeOK' BY <1>3, <1>4, <1>5 DEF IInv, TypeOK, drain
<1>7. IndexInv' BY DEF IInv, IndexInv, drain
<1>8. WalkInv(w)' BY <1>5, StartedInv
<1>9. Finished(Sections[v.k])'
  BY <1>1, <1>4 DEF Finished, Fixed, drain
<1>10. GotInv'
  <2>1. CASE w.k = 1
    <3>1. w'.pc = "ask" BY <2>1, SectionIs DEF Idle
    <3> QED BY <1>9, <2>1, <3>1 DEF GotInv
  <2>2. CASE w.k = 2
    <3>1. Sec = Sections[2] /\ Sections[1] # Sec /\ Sections[1] \in Section
      BY <2>2, SectionIs DEF Sec
    <3>2. Finished(Sections[1])'
      BY <1>4, <2>2, <3>1 DEF IInv, GotInv, Finished, drain
    <3> QED BY <1>9, <2>2, <3>2 DEF GotInv
  <2> QED BY <1>1, <2>1, <2>2
<1> QED BY <1>4, <1>6, <1>7, <1>8, <1>10 DEF IInv

\* One answered page: the walk goes on, ends, or has the whole section.
LEMMA ReceiveStep ==
  ASSUME IInv, NEW v \in Walk, v.k = w.k, Fixed(v), Counted(v),
         NEW rows \in {<<>>, <<PageRow(v.gen, Sections[v.k], v.n)>>},
         v.n < Asked(v).pages \/ (Asked(v).pages = 0 /\ v.n = 0),
         Asked(v).pages = 0 => rows = <<>>,
         Receive(v, Asked(v), rows), UNCHANGED <<now, kept, since, faults, drain>>
  PROVE  IInv'
<1> DEFINE s == Sections[v.k]
           row == PageRow(v.gen, s, v.n)
           p == Asked(v)
           all == v.items \o rows
<1>1. /\ s \in Section /\ v.gen \in 1..Gens /\ v.n \in Nat /\ v.items \in Seq(Row)
      /\ index.gen \in 0..Gens /\ v.k \in 1..2 /\ Sec = s
  <2>1. v.n \in Nat /\ v.items \in Seq(Row) /\ v.k \in 1..2 BY SectionIs DEF Walk
  <2>2. index.gen \in 0..Gens BY DEF IInv, TypeOK
  <2>3. v.gen \in 1..Gens BY <2>2, LedgerConstants DEF Fixed
  <2> QED BY <2>1, <2>2, <2>3, SectionIs DEF Sec
<1>2. row \in Row BY <1>1 DEF PageRow, Row
<1>3. p.gen = v.gen /\ p.n = v.n /\ p.pages = Pages[v.gen][s] /\ p.pages \in Nat
  BY <1>1, PagesAreNat DEF Asked
<1>4. /\ all \in Seq(Row)
      /\ \/ rows = <<>> /\ Len(all) = Len(v.items)
         \/ /\ Len(all) = Len(v.items) + 1
            /\ \A i \in 1..Len(v.items) : all[i] = v.items[i]
            /\ all[Len(v.items) + 1] = row
  BY <1>1, <1>2, OneMore
<1>5. Len(v.items) \in Nat /\ Len(all) \in Nat BY <1>1, <1>4, LenProperties
<1>6. Len(all) = v.n + 1 => \A i \in 1..(v.n + 1) : all[i] = PageRow(v.gen, s, i - 1)
  BY <1>1, <1>4, <1>5 DEF Counted
<1>7. Len(all) <= v.n + 1 BY <1>1, <1>4, <1>5 DEF Counted
<1> HIDE DEF s, row, p, all
<1>8. CASE Keep /\ UNCHANGED got BY <1>8, OverStep DEF Keep
<1>9. CASE NextCursor(p) # NoCursor /\ UNCHANGED got
           /\ w' = IF v.n + 1 < MaxPages
                   THEN [v EXCEPT !.pc = "ask", !.n = @ + 1, !.cursor = NextCursor(p),
                                  !.items = all, !.tries = 0, !.plan = NoCursor]
                   ELSE Idle
  <2>1. CASE w' = Idle BY <1>9, <2>1, OverStep
  <2>2. CASE w' = [v EXCEPT !.pc = "ask", !.n = @ + 1, !.cursor = NextCursor(p),
                            !.items = all, !.tries = 0, !.plan = NoCursor]
    <3>1. v.n + 1 < p.pages /\ NextCursor(p) = [p EXCEPT !.n = v.n + 1]
      BY <1>3, <1>9 DEF NextCursor
    <3>2. NextCursor(p) = [gen |-> v.gen, n |-> v.n + 1, pages |-> p.pages]
      BY <1>3, <3>1 DEF p, Asked
    <3>3. NextCursor(p) \in [gen: 0..Gens, n: Nat, pages: Nat]
          /\ NoCursor \in [gen: 0..Gens, n: Nat, pages: Nat] /\ 0 \in 0..MaxRetries
      BY <1>1, <1>3, <3>2, LedgerConstants DEF NoCursor, NoGen
    <3>4. /\ w'.pc = "ask" /\ w'.n = v.n + 1 /\ w'.cursor = NextCursor(p) /\ w'.items = all
          /\ w'.gen = v.gen /\ w'.counts = v.counts /\ w'.at = v.at /\ w'.k = v.k
      BY <2>2 DEF Walk
    <3>5. w' \in Walk
      <4> DEFINE n == v.n + 1
                 c == NextCursor(p)
      <4>1. n \in Nat /\ c \in [gen: 0..Gens, n: Nat, pages: Nat] BY <1>1, <3>3
      <4>2. w' = [v EXCEPT !.pc = "ask", !.n = n, !.cursor = c,
                           !.items = all, !.tries = 0, !.plan = NoCursor]
        BY <1>1, <2>2
      <4> HIDE DEF n, c
      <4> QED BY <1>4, <3>3, <4>1, <4>2 DEF Walk
    <3>6. TypeOK' BY <1>9, <3>5 DEF IInv, TypeOK, drain
    <3>7. IndexInv' BY DEF IInv, IndexInv, drain
    <3>8. Fixed(w)' BY <3>4 DEF Fixed, drain
    <3>9. Counted(w)' BY <1>6, <1>7, <3>4 DEF Counted, s
    <3>10. (w.cursor = Asked(w) /\ w.n < Asked(w).pages)'
      BY <1>3, <3>1, <3>2, <3>4 DEF Asked, s
    <3>11. WalkInv(w)' BY <1>1, <3>4, <3>8, <3>9, <3>10 DEF WalkInv
    <3>12. GotInv' BY <1>9, <3>4 DEF IInv, GotInv, Finished, drain
    <3> QED BY <1>9, <3>6, <3>7, <3>11, <3>12 DEF IInv
  <2> QED BY <1>9, <2>1, <2>2
<1>10. CASE SectionDone(v, all) /\ NextCursor(p) = NoCursor
            /\ ~(v.n + 1 # p.pages /\ ~(p.pages = 0 /\ v.n = 0))
  <2>1. CASE Len(all) # v.counts BY <1>10, <2>1, OverStep DEF SectionDone, Keep
  <2>2. CASE Len(all) = v.counts
    <3>1. v.counts = p.pages BY <1>3 DEF Fixed, s
    <3>2. all = Whole(v.gen, s)
      <4>1. Len(Whole(v.gen, s)) = p.pages /\ Whole(v.gen, s) \in Seq(Row)
            /\ \A i \in 1..p.pages : Whole(v.gen, s)[i] = PageRow(v.gen, s, i - 1)
        BY <1>1, <1>3, WholeIsSeq
      <4>2. \A i \in 1..p.pages : all[i] = PageRow(v.gen, s, i - 1)
        BY <1>1, <1>3, <1>6, <1>10, <2>2, <3>1
      <4>3. Len(all) = p.pages BY <2>2, <3>1
      <4>4. \A i \in 1..Len(all) : all[i] = Whole(v.gen, s)[i] BY <4>1, <4>2, <4>3
      <4> QED BY <1>4, <4>1, <4>3, <4>4, SeqEqual
    <3>3. /\ got' = [got EXCEPT ![Sec] = [gen |-> v.gen, rows |-> all]]
          /\ w' = IF w.k = Len(Sections) THEN [Idle EXCEPT !.pc = "decide"]
                  ELSE [Idle EXCEPT !.pc = "ask", !.k = w.k + 1]
      BY <1>10, <2>2 DEF SectionDone
    <3> QED BY <1>4, <3>2, <3>3, DoneStep DEF s
  <2> QED BY <2>1, <2>2
<1> QED BY <1>3, <1>8, <1>9, <1>10 DEF Receive, p, all
-----------------------------------------------------------------------------
LEMMA InitIInv == Init => IInv
<1> SUFFICES ASSUME Init PROVE IInv OBVIOUS
<1>1. TypeOK BY IdleInWalk, LedgerConstants DEF Init, TypeOK, NoGen, Never
<1>2. IndexInv BY DEF Init, IndexInv, NoGen
<1>3. WalkInv(w) BY DEF Init, Idle, WalkInv, Counted
<1>4. GotInv BY DEF Init, Idle, GotInv
<1>5. got = [s \in Section |-> got[s]] BY DEF Init
<1> QED BY <1>1, <1>2, <1>3, <1>4, <1>5 DEF IInv

LEMMA WritePagesStep == ASSUME IInv, WritePages PROVE IInv'
<1>1. written' = written + 1 /\ written' \in 0..Gens
      /\ UNCHANGED <<now, index, until, w, got, kept, since, faults>>
  BY LedgerConstants DEF WritePages, IInv, TypeOK
<1>2. TypeOK' BY <1>1 DEF IInv, TypeOK
<1>3. IndexInv' BY <1>1, LedgerConstants DEF WritePages, IInv, TypeOK, IndexInv
<1>4. WalkInv(w)' BY <1>1 DEF IInv, WalkInv, Fixed, Counted, Asked
<1>5. GotInv' BY <1>1 DEF IInv, GotInv, Finished
<1> QED BY <1>1, <1>2, <1>3, <1>4, <1>5 DEF IInv

LEMMA SetIndexStep == ASSUME IInv, SetIndex PROVE IInv'
<1> DEFINE g0 == index.gen
<1>1. /\ index' = [gen |-> written, at |-> now] /\ written = g0 + 1 /\ written \in 1..Gens
      /\ g0 \in Nat /\ now \in 0..Horizon
  BY LedgerConstants DEF SetIndex, IInv, TypeOK, IndexInv
<1>2. index'.gen = g0 + 1 /\ index'.at = now BY <1>1
<1>3. UNCHANGED <<now, written, w, got, kept, since, faults>> BY DEF SetIndex
<1>4. \A g \in 1..Gens : until'[g] = IF g = g0 THEN now + PageTtl ELSE until[g]
  BY DEF SetIndex
<1>5. until' \in [1..Gens -> 0..(Horizon + PageTtl)]
  <2>1. now + PageTtl \in 0..(Horizon + PageTtl) BY <1>1, LedgerConstants
  <2> QED BY <2>1 DEF SetIndex, IInv, TypeOK
<1>6. TypeOK' BY <1>1, <1>3, <1>5, LedgerConstants DEF IInv, TypeOK
<1>7. IndexInv'
  <2>1. since' <= index'.gen BY <1>1, <1>2, <1>3, LedgerConstants DEF IInv, TypeOK, IndexInv
  <2>2. \A g \in 1..Gens : g >= index'.gen => until'[g] = Never
    BY <1>1, <1>2, <1>4 DEF IInv, IndexInv
  <2> QED BY <1>1, <1>2, <1>3, <2>1, <2>2 DEF IndexInv
<1>8. ASSUME Fixed(w) PROVE Fixed(w)'
  <2>1. w.gen \in 1..g0 /\ w.gen # index'.gen /\ w.gen \in 1..Gens
    <3>1. w.gen \in 1..g0 BY <1>8 DEF Fixed
    <3>2. Gens \in Nat /\ g0 + 1 <= Gens BY <1>1, LedgerConstants
    <3> HIDE DEF g0
    <3> QED BY <1>1, <1>2, <3>1, <3>2
  <2>2. w.at \in Nat /\ w.at <= now BY <1>8, LedgerConstants DEF IInv, TypeOK, Walk, Fixed
  <2>3. until'[w.gen] >= w.at + PageTtl
    BY <1>1, <1>4, <1>8, <2>1, <2>2, LedgerConstants DEF Fixed
  <2> QED BY <1>1, <1>2, <1>3, <1>8, <2>1, <2>3 DEF Fixed
<1>9. WalkInv(w)'
  <2>1. w.n > 0 \/ w.pc = "page" => Fixed(w)' BY <1>8 DEF IInv, WalkInv
  <2> QED BY <1>3, <2>1 DEF IInv, WalkInv, Counted, Asked
<1>10. GotInv' BY <1>1, <1>2, <1>3 DEF IInv, GotInv, Finished
<1> QED BY <1>3, <1>6, <1>7, <1>9, <1>10 DEF IInv

LEMMA ClockStep ==
  ASSUME IInv, now' >= now, now' \in 0..Horizon, index'.gen = index.gen,
         index' \in [gen: 0..Gens, at: 0..Horizon], index'.at <= now',
         UNCHANGED <<written, until, w, got, kept, since, faults>>
  PROVE  IInv'
<1>1. TypeOK' BY DEF IInv, TypeOK
<1>2. IndexInv' BY DEF IInv, IndexInv
<1>3. now \in Nat /\ now' \in Nat /\ w.at \in Nat
  BY LedgerConstants DEF IInv, TypeOK, Walk
<1>4. Fixed(w) => Fixed(w)' BY <1>3 DEF Fixed
<1>5. WalkInv(w)' BY <1>4 DEF IInv, WalkInv, Counted, Asked
<1>6. GotInv' BY DEF IInv, GotInv, Finished
<1> QED BY <1>1, <1>2, <1>5, <1>6 DEF IInv

LEMMA TimeStep == ASSUME IInv, Refresh \/ Tick PROVE IInv'
<1>1. CASE Refresh
  <2>1. now \in 0..Horizon /\ index \in [gen: 0..Gens, at: 0..Horizon] BY DEF IInv, TypeOK
  <2>2. now' = now /\ index'.gen = index.gen /\ index'.at = now
        /\ index' \in [gen: 0..Gens, at: 0..Horizon]
    BY <1>1, <2>1 DEF Refresh
  <2> QED BY <1>1, <2>1, <2>2, LedgerConstants, ClockStep DEF Refresh
<1>2. CASE Tick
  <2>1. now \in 0..Horizon /\ index \in [gen: 0..Gens, at: 0..Horizon] /\ index.at <= now
    BY DEF IInv, TypeOK, IndexInv
  <2>2. now' = now + 1 /\ now' \in 0..Horizon /\ index' = index
    BY <1>2, <2>1, LedgerConstants DEF Tick
  <2>3. index'.at <= now' /\ now' >= now BY <2>1, <2>2, LedgerConstants
  <2> QED BY <1>2, <2>1, <2>2, <2>3, ClockStep DEF Tick
<1> QED BY <1>1, <1>2

LEMMA StartStep == ASSUME IInv, Start PROVE IInv'
<1>1. /\ w' = [Idle EXCEPT !.pc = "ask"] /\ got' = [s \in Section |-> Nothing]
      /\ since' = index.gen /\ UNCHANGED <<now, kept, faults, written, index, until>>
  BY DEF Start, drain
<1>2. w' \in Walk /\ Started(w)' /\ w'.pc = "ask" /\ w'.k = 1
  BY <1>1, IdleInWalk DEF Idle, Walk, Started
<1>3. TypeOK' BY <1>1, <1>2 DEF IInv, TypeOK
<1>4. IndexInv' BY <1>1, LedgerConstants DEF IInv, TypeOK, IndexInv
<1>5. WalkInv(w)' BY <1>2, StartedInv
<1>6. GotInv' BY <1>2 DEF GotInv
<1> QED BY <1>1, <1>3, <1>4, <1>5, <1>6 DEF IInv

LEMMA LimitedStep == ASSUME IInv, Limited PROVE IInv'
<1>1. UNCHANGED <<now, got, kept, since, faults, drain>> BY DEF Limited
<1>2. CASE Keep BY <1>1, <1>2, OverStep DEF Keep
<1>3. CASE w.tries < MaxRetries /\ w' = [w EXCEPT !.tries = @ + 1]
  <2>1. w \in Walk BY DEF IInv, TypeOK
  <2>2. w.tries + 1 \in 0..MaxRetries BY <1>3, <2>1, LedgerConstants DEF Walk
  <2>3. w' \in Walk BY <1>3, <2>1, <2>2 DEF Walk
  <2>4. /\ w'.pc = w.pc /\ w'.n = w.n /\ w'.k = w.k /\ w'.cursor = w.cursor /\ w'.gen = w.gen
        /\ w'.counts = w.counts /\ w'.items = w.items /\ w'.at = w.at /\ w'.plan = w.plan
    BY <1>3, <2>1 DEF Walk
  <2>5. TypeOK' BY <1>1, <2>3 DEF IInv, TypeOK, drain
  <2>6. IndexInv' BY <1>1 DEF IInv, IndexInv, drain
  <2>7. WalkInv(w)' BY <1>1, <2>4 DEF IInv, WalkInv, Fixed, Counted, Asked, drain
  <2>8. GotInv' BY <1>1, <2>4 DEF IInv, GotInv, Finished, drain
  <2> QED BY <1>1, <2>5, <2>6, <2>7, <2>8 DEF IInv
<1> QED BY <1>2, <1>3 DEF Limited, Retry

\* The request is for the page the walk stands at, of the generation it has or now fixes.
LEMMA PlanIs ==
  ASSUME IInv, w.pc = "ask", Fresh
  PROVE  LET v == First(Plan)
         IN  /\ v \in Walk /\ v.k = w.k /\ v.n = w.n /\ Plan = Asked(v) /\ v.pc = "ask"
             /\ v.cursor = w.cursor /\ Fixed(v) /\ Counted(v)
             /\ w.n > 0 => w.cursor = Asked(v) /\ w.n < Asked(v).pages
<1>1. /\ w \in Walk /\ index.gen \in 1..Gens /\ Sec \in Section /\ w.k \in 1..2
      /\ Pages[index.gen][Sec] \in Nat /\ since <= index.gen /\ now \in 0..Horizon
  <2>1. w \in Walk /\ index.gen \in 0..Gens /\ now \in 0..Horizon BY DEF IInv, TypeOK
  <2>2. index.gen \in 1..Gens BY <2>1, LedgerConstants DEF Fresh, NoGen
  <2>3. w.k \in 1..2 /\ Sec \in Section BY <2>1, SectionIs DEF Walk, Sec
  <2> QED BY <2>1, <2>2, <2>3, PagesAreNat DEF IInv, IndexInv
<1>2. CASE w.n = 0
  <2>1. w.cursor = NoCursor BY <1>2 DEF IInv, WalkInv
  <2>2. Plan = [gen |-> index.gen, n |-> 0, pages |-> Pages[index.gen][Sec]]
    BY <2>1 DEF Plan, NoCursor, NoGen
  <2> DEFINE v == First(Plan)
  <2>3. v = [w EXCEPT !.gen = index.gen, !.counts = Pages[index.gen][Sec], !.at = now]
    BY <1>1, <1>2, <2>2 DEF First, Walk
  <2>4. v \in Walk
    <3>1. index.gen \in 0..Gens /\ Pages[index.gen][Sec] \in Nat /\ now \in 0..Horizon
          /\ w \in Walk
      BY <1>1, LedgerConstants
    <3> DEFINE g1 == index.gen
               c1 == Pages[index.gen][Sec]
    <3>2. v = [w EXCEPT !.gen = g1, !.counts = c1, !.at = now] BY <2>3
    <3>3. g1 \in 0..Gens /\ c1 \in Nat BY <3>1
    <3> HIDE DEF v, g1, c1
    <3> QED BY <3>1, <3>2, <3>3 DEF Walk
  <2>5. /\ v.k = w.k /\ v.n = w.n /\ v.pc = "ask" /\ v.cursor = w.cursor /\ v.items = w.items
        /\ v.gen = index.gen /\ v.counts = Pages[index.gen][Sec] /\ v.at = now
    BY <1>1, <2>3 DEF Walk
  <2> HIDE DEF v
  <2>6. Plan = Asked(v) BY <1>2, <2>2, <2>5 DEF Asked, Sec
  <2>7. Fixed(v) BY <1>1, <2>5 DEF Fixed, Sec
  <2>8. Counted(v) BY <1>2, <2>5 DEF IInv, WalkInv, Counted
  <2> QED BY <1>2, <2>4, <2>5, <2>6, <2>7, <2>8 DEF v
<1>3. CASE w.n > 0
  <2>1. w.cursor = Asked(w) /\ w.n < Asked(w).pages /\ Fixed(w) /\ Counted(w)
    BY <1>3 DEF IInv, WalkInv
  <2>2. First(Plan) = w BY <1>3 DEF First
  <2>3. Plan = w.cursor
    BY <1>1, <2>1 DEF Plan, Asked, Fixed, NoGen, Sec
  <2> QED BY <1>1, <2>1, <2>2, <2>3
<1>4. w.n \in Nat BY <1>1 DEF Walk
<1> QED BY <1>2, <1>3, <1>4

LEMMA ReadIndexStep == ASSUME IInv, ReadIndex PROVE IInv'
<1>1. w.pc = "ask" /\ UNCHANGED <<now, kept, since, faults, drain>> BY DEF ReadIndex, At
<1>2. CASE Keep /\ UNCHANGED got BY <1>1, <1>2, OverStep DEF Keep
<1> DEFINE v == First(Plan)
<1>3. ASSUME Fresh, ~Invalid(Plan)
      PROVE  /\ v \in Walk /\ v.k = w.k /\ v.n = w.n /\ Plan = Asked(v) /\ v.pc = "ask"
             /\ v.cursor = w.cursor /\ Fixed(v) /\ Counted(v)
             /\ w.n > 0 => w.cursor = Asked(v) /\ w.n < Asked(v).pages
             /\ w.n = 0 => w.cursor = NoCursor
             /\ w.n \in Nat /\ Asked(v).pages \in Nat
  <2>1. /\ v \in Walk /\ v.k = w.k /\ v.n = w.n /\ Plan = Asked(v) /\ v.pc = "ask"
        /\ v.cursor = w.cursor /\ Fixed(v) /\ Counted(v)
        /\ w.n > 0 => w.cursor = Asked(v) /\ w.n < Asked(v).pages
    BY <1>1, <1>3, PlanIs
  <2> HIDE DEF v
  <2>2. v.gen \in 1..Gens /\ Sections[v.k] \in Section
    <3>1. v.gen \in 1..index.gen BY <2>1 DEF Fixed
    <3>2. index.gen \in 0..Gens BY DEF IInv, TypeOK
    <3>3. v.k \in 1..2 BY <2>1, SectionIs DEF Walk
    <3> QED BY <3>1, <3>2, <3>3, SectionIs, LedgerConstants
  <2>3. Asked(v).pages \in Nat BY <2>2, PagesAreNat DEF Asked
  <2> QED BY <2>1, <2>3 DEF IInv, WalkInv, Walk
<1>4. CASE Fresh /\ ~Invalid(Plan) /\ Plan.pages = 0 /\ Receive(v, Plan, <<>>)
  <2>1. /\ v \in Walk /\ v.k = w.k /\ Plan = Asked(v) /\ Fixed(v) /\ Counted(v)
        /\ v.n < Asked(v).pages \/ (Asked(v).pages = 0 /\ v.n = 0)
    <3>1. /\ v \in Walk /\ v.k = w.k /\ v.n = w.n /\ Plan = Asked(v) /\ Fixed(v) /\ Counted(v)
          /\ w.n > 0 => w.n < Asked(v).pages
          /\ w.n \in Nat /\ Asked(v).pages \in Nat
      BY <1>3, <1>4
    <3> HIDE DEF v
    <3> QED BY <1>4, <3>1
  <2> HIDE DEF v
  <2> QED BY <1>1, <1>4, <2>1, ReceiveStep
<1>5. CASE Fresh /\ ~Invalid(Plan) /\ Plan.pages > 0 /\ UNCHANGED got
           /\ w' = [First(Plan) EXCEPT !.pc = "page", !.plan = Plan]
  <2>1. /\ v \in Walk /\ v.k = w.k /\ v.n = w.n /\ Plan = Asked(v) /\ v.pc = "ask"
        /\ v.cursor = w.cursor /\ Fixed(v) /\ Counted(v)
        /\ w.n > 0 => w.cursor = Asked(v) /\ w.n < Asked(v).pages
        /\ w.n = 0 => w.cursor = NoCursor
        /\ w.n \in Nat /\ Asked(v).pages \in Nat
        /\ w' = [v EXCEPT !.pc = "page", !.plan = Asked(v)]
    BY <1>3, <1>5
  <2>2. Plan.pages > 0 BY <1>5
  <2> HIDE DEF v
  <2>3. Asked(v) \in [gen: 0..Gens, n: Nat, pages: Nat]
    <3>1. v.gen \in 0..Gens /\ v.n \in Nat BY <2>1 DEF Walk
    <3>2. Asked(v).pages = Pages[v.gen][Sections[v.k]] BY DEF Asked
    <3> QED BY <2>1, <3>1, <3>2 DEF Asked
  <2>4. w' \in Walk BY <2>1, <2>3 DEF Walk
  <2>5. /\ w'.pc = "page" /\ w'.plan = Asked(v) /\ w'.n = v.n /\ w'.k = v.k
        /\ w'.cursor = v.cursor /\ w'.gen = v.gen /\ w'.counts = v.counts
        /\ w'.items = v.items /\ w'.at = v.at
    BY <2>1 DEF Walk
  <2>6. TypeOK' BY <1>1, <1>5, <2>4 DEF IInv, TypeOK, drain
  <2>7. IndexInv' BY <1>1 DEF IInv, IndexInv, drain
  <2>8. Fixed(w)' /\ Counted(w)' BY <1>1, <2>1, <2>5 DEF Fixed, Counted, drain
  <2>9. Asked(w') = Asked(v) BY <2>5 DEF Asked
  <2>10. w'.n < Asked(v).pages BY <2>1, <2>2, <2>5
  <2>11. WalkInv(w)' BY <2>1, <2>5, <2>8, <2>9, <2>10 DEF WalkInv, Asked
  <2>12. GotInv' BY <1>1, <1>5, <2>1, <2>5 DEF IInv, GotInv, Finished, drain
  <2> QED BY <1>1, <1>5, <2>6, <2>7, <2>11, <2>12 DEF IInv
<1> QED BY <1>2, <1>4, <1>5 DEF ReadIndex

LEMMA ReadPageStep == ASSUME IInv, ReadPage PROVE IInv'
<1>1. w.pc = "page" /\ UNCHANGED <<now, kept, since, faults, drain>> BY DEF ReadPage, At
<1>2. CASE Keep /\ UNCHANGED got BY <1>1, <1>2, OverStep DEF Keep
<1>3. ASSUME NEW rows, NEW row,
             row = [gen |-> w.plan.gen, section |-> Sec, page |-> w.plan.n],
             rows \in IF "dropped" \in faults THEN {<<row>>, <<>>} ELSE {<<row>>},
             Receive(w, w.plan, rows)
      PROVE  IInv'
  <2>1. /\ w \in Walk /\ Fixed(w) /\ Counted(w)
        /\ w.plan = Asked(w) /\ w.n < Asked(w).pages /\ w.n \in Nat
    BY <1>1 DEF IInv, TypeOK, WalkInv, Walk
  <2>2. row = PageRow(w.gen, Sections[w.k], w.n)
    BY <1>3, <2>1 DEF PageRow, Asked, Sec
  <2>3. rows \in {<<>>, <<row>>} /\ Asked(w).pages # 0 BY <1>3, <2>1
  <2> QED BY <1>1, <1>3, <2>1, <2>2, <2>3, ReceiveStep
<1> QED BY <1>2, <1>3 DEF ReadPage

LEMMA DecideStep == ASSUME IInv, Decide PROVE IInv'
<1>1. /\ w.pc = "decide" /\ w' = Idle
      /\ UNCHANGED <<now, got, since, faults, written, index, until>>
  BY DEF Decide, Keep, At, drain
<1>2. kept' \in {Nothing} \cup [Section -> Seq(Row)]
  <2>1. CASE kept' = kept BY <2>1 DEF IInv, TypeOK
  <2>2. CASE kept' = [s \in Section |-> got[s].rows]
    <3>1. \A s \in Section : got[s].gen \in 1..Gens /\ got[s].rows = Whole(got[s].gen, s)
      BY <1>1, SectionIs, LedgerConstants DEF IInv, TypeOK, GotInv, Finished
    <3>2. \A s \in Section : got[s].rows \in Seq(Row) BY <3>1, WholeIsSeq
    <3> QED BY <2>2, <3>2
  <2> QED BY <2>1, <2>2 DEF Decide
<1>3. TypeOK' BY <1>1, <1>2, IdleInWalk DEF IInv, TypeOK
<1>4. IndexInv' BY <1>1 DEF IInv, IndexInv
<1>5. WalkInv(w)' BY <1>1, StartedInv DEF Started, Idle
<1>6. GotInv' BY <1>1 DEF Idle, GotInv
<1> QED BY <1>1, <1>3, <1>4, <1>5, <1>6 DEF IInv

LEMMA StutterStep == ASSUME IInv, UNCHANGED vars PROVE IInv'
<1>1. TypeOK' BY DEF vars, IInv, TypeOK
<1>2. IndexInv' BY DEF vars, IInv, IndexInv
<1>3. WalkInv(w)' BY DEF vars, IInv, WalkInv, Fixed, Counted, Asked
<1>4. GotInv' BY DEF vars, IInv, GotInv, Finished
<1> QED BY <1>1, <1>2, <1>3, <1>4 DEF vars, IInv

LEMMA NextKeeps == IInv /\ [Next]_vars => IInv'
BY WritePagesStep, SetIndexStep, TimeStep, StartStep, LimitedStep, ReadIndexStep,
   ReadPageStep, DecideStep, StutterStep DEF Next, Walking

LEMMA IInvHolds == Spec => []IInv
BY InitIInv, NextKeeps, PTL DEF Spec
-----------------------------------------------------------------------------
\* Every variable stays in its domain, whatever the walk is answered.
THEOREM TypeCorrect == Spec => []TypeOK
BY IInvHolds, PTL DEF IInv

\* ledgerV4.ts: a page that a walk asks for under a cursor is there until PageTtl
\* after the walk began, however often the drain publishes in between.
THEOREM MissingIsOld == Spec => []MissingOnlyWhenOld
<1>1. IInv => MissingOnlyWhenOld
  <2> SUFFICES ASSUME IInv, At("page"), ~Present(w.plan, Sec)
               PROVE  now - w.at >= PageTtl
    BY DEF MissingOnlyWhenOld
  <2>1. Fixed(w) /\ w.plan = Asked(w) /\ w.n < Asked(w).pages
    BY DEF IInv, WalkInv, At
  <2>2. /\ index.gen \in 0..Gens /\ now \in 0..Horizon /\ w \in Walk
        /\ written \in {index.gen, index.gen + 1}
        /\ \A g \in 1..Gens : g >= index.gen => until[g] = Never
        /\ \A g \in 1..Gens : until[g] \in 0..(Horizon + PageTtl)
    BY DEF IInv, TypeOK, IndexInv
  <2>3. w.gen \in 1..index.gen /\ w.gen \in 1..Gens
    BY <2>1, <2>2, LedgerConstants DEF Fixed
  <2>4. w.gen <= written /\ w.n < Pages[w.gen][Sec]
    BY <2>1, <2>2, <2>3, LedgerConstants DEF Asked, Sec
  <2>5. until[w.gen] # Never /\ ~(now < until[w.gen])
    BY <2>1, <2>4 DEF Present, Asked
  <2>6. until[w.gen] >= w.at + PageTtl BY <2>1, <2>2, <2>3, <2>5 DEF Fixed
  <2>7. w.at \in 0..Horizon /\ until[w.gen] \in 0..(Horizon + PageTtl)
    BY <2>2, <2>3 DEF Walk
  <2> QED BY <2>2, <2>5, <2>6, <2>7, LedgerConstants
<1> QED BY <1>1, IInvHolds, PTL

\* The job implements LedgerPromise: the drain's SET of the index publishes, the job's
\* start begins, and the file it writes is one whole generation, both sections, that
\* was the published one at some time since; every other step leaves the promise alone.
THEOREM LedgerImplementsPromise == Spec => PromiseKept
<1>1. Init => Promise!Init BY DEF Init, Promise!Init, NoGen
<1>2. IInv /\ [Next]_vars => [Promise!Next]_<<index.gen, since, kept>>
  <2> SUFFICES ASSUME IInv, [Next]_vars
               PROVE  [Promise!Next]_<<index.gen, since, kept>>
    OBVIOUS
  <2>1. CASE SetIndex
    <3>1. /\ index' = [gen |-> written, at |-> now] /\ UNCHANGED <<since, kept>>
          /\ written > index.gen
      BY <2>1 DEF SetIndex
    <3>2. written = index.gen + 1 /\ written \in 0..Gens /\ index.gen \in 0..Gens
      BY <3>1, LedgerConstants DEF IInv, TypeOK, IndexInv
    <3>3. index'.gen = index.gen + 1 /\ index.gen < Gens BY <3>1, <3>2, LedgerConstants
    <3> QED BY <3>1, <3>3 DEF Promise!Next, Promise!Publish
  <2>2. CASE Start
    BY <2>2 DEF Start, drain, Promise!Next, Promise!Begin
  <2>3. CASE Decide
    <3>1. UNCHANGED <<index, since>> BY <2>3 DEF Decide, drain
    <3>2. CASE Agree /\ kept' = [s \in Section |-> got[s].rows]
      <4> DEFINE g == got[Sections[1]].gen
      <4>1. \A s \in Section : got[s].gen = g /\ got[s].rows = Whole(g, s)
        BY <2>3, <3>2, SectionIs DEF Decide, At, IInv, GotInv, Finished, Agree
      <4>2. g \in 1..index.gen /\ g >= since
        BY <2>3 DEF Decide, At, IInv, GotInv, Finished
      <4>3. g \in 1..Gens BY <4>2, LedgerConstants DEF IInv, TypeOK
      <4>4. kept' = Content[g] BY <3>2, <4>1, <4>3 DEF Content
      <4> HIDE DEF g
      <4> QED BY <3>1, <4>2, <4>4 DEF Promise!Next, Promise!Take
    <3> QED BY <2>3, <3>1, <3>2 DEF Decide
  <2>4. CASE UNCHANGED <<index.gen, since, kept>> BY <2>4
  <2>5. CASE WritePages \/ Tick \/ Limited \/ ReadIndex \/ ReadPage \/ UNCHANGED vars
    BY <2>4, <2>5 DEF WritePages, Tick, Limited, ReadIndex, ReadPage, vars, drain
  <2>6. CASE Refresh
    <3>1. index'.gen = index.gen BY <2>6 DEF Refresh, IInv, TypeOK
    <3> QED BY <2>4, <2>6, <3>1 DEF Refresh
  <2> QED BY <2>1, <2>2, <2>3, <2>5, <2>6 DEF Next, Walking
<1> QED BY <1>1, <1>2, IInvHolds, PTL DEF Spec, PromiseKept, Promise!Spec
=============================================================================
