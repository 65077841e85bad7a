------------------------ MODULE HealthScoringProofs ------------------------
(***************************************************************************)
(* Proofs about HealthScoring, for every value of its constants.  However  *)
(* many workers score an account, and in whatever order: its tables only   *)
(* grow, the CSM score that its manager saved last is the one that counts, *)
(* and a scoring that nobody writes into repairs what others left.         *)
(***************************************************************************)
EXTENDS HealthScoring, FiniteSetTheorems, WellFoundedInduction, TLAPS

\* Rows that can be superseded: those of either table.
Superseding(Row) ==
    \A r \in Row, t \in Nat : /\ [r EXCEPT !.until = t] \in Row
                              /\ [r EXCEPT !.until = t].until = t

SnapshotWith(Overalls) == [overall : Overalls, at : Nat, until : Maybe(Nat)]

\* Rows of both tables can be superseded.
LEMMA TableRows == Superseding(ScoreRow) /\ \A S : Superseding(SnapshotWith(S))
BY DEF Superseding, ScoreRow, SnapshotWith, Maybe

\* Superseding rows takes them out of the active ones, moves none and changes
\* nothing else.
LEMMA RetireRows ==
  ASSUME NEW Row, Superseding(Row), NEW rows \in Seq(Row), NEW ids, NEW t \in Nat
  PROVE  /\ Retire(rows, ids, t) \in Seq(Row)
         /\ Len(Retire(rows, ids, t)) = Len(rows)
         /\ ActiveRows(Retire(rows, ids, t)) = ActiveRows(rows) \ ids
         /\ Grows(rows, Retire(rows, ids, t))
<1> DEFINE new == Retire(rows, ids, t)
<1>1. \A i \in 1 .. Len(rows) : rows[i] \in Row
  OBVIOUS
<1>2. \A i \in 1 .. Len(rows) :
        IF i \in ids /\ rows[i].until = None
        THEN new[i] = [rows[i] EXCEPT !.until = t] ELSE new[i] = rows[i]
  BY DEF Retire
<1>3. \A i \in 1 .. Len(rows) : /\ [rows[i] EXCEPT !.until = t] \in Row
                                  /\ [rows[i] EXCEPT !.until = t].until = t
  BY <1>1 DEF Superseding
<1>4. new \in Seq(Row) /\ Len(new) = Len(rows)
  <2>1. new = [i \in 1 .. Len(rows) |-> new[i]]
    BY DEF Retire
  <2>2. \A i \in 1 .. Len(rows) : new[i] \in Row
    BY <1>1, <1>2, <1>3
  <2> HIDE DEF new
  <2> QED
    BY <2>1, <2>2
<1>5. t # None
  BY HealthAssumption
<1>6. \A i \in 1 .. Len(rows) :
        new[i].until = None <=> rows[i].until = None /\ i \notin ids
  BY <1>2, <1>3, <1>5
<1>7. ActiveRows(new) = ActiveRows(rows) \ ids
  BY <1>4, <1>6 DEF ActiveRows
<1>8. Grows(rows, new)
  <2> SUFFICES ASSUME NEW i \in 1 .. Len(rows)
               PROVE  \/ new[i] = rows[i]
                      \/ /\ rows[i].until = None
                         /\ new[i] = [rows[i] EXCEPT !.until = new[i].until]
    BY <1>4 DEF Grows
  <2> QED
    BY <1>2, <1>3
<1> QED
  BY <1>4, <1>7, <1>8

\* A new row is active, and the others stay as they are.
LEMMA AppendRow ==
  ASSUME NEW Row, NEW rows \in Seq(Row), NEW r \in Row, r.until = None
  PROVE  /\ Append(rows, r) \in Seq(Row)
         /\ Len(Append(rows, r)) = Len(rows) + 1
         /\ Len(rows) + 1 \in DOMAIN Append(rows, r)
         /\ Append(rows, r)[Len(rows) + 1] = r
         /\ ActiveRows(Append(rows, r)) = ActiveRows(rows) \cup {Len(rows) + 1}
         /\ \A old : Grows(old, rows) => Grows(old, Append(rows, r))
<1>1. /\ Append(rows, r) \in Seq(Row)
      /\ DOMAIN Append(rows, r) = 1 .. Len(rows) + 1
      /\ DOMAIN rows = 1 .. Len(rows)
      /\ Len(Append(rows, r)) = Len(rows) + 1
      /\ Len(rows) \in Nat
      /\ \A i \in 1 .. Len(rows) : Append(rows, r)[i] = rows[i]
      /\ Append(rows, r)[Len(rows) + 1] = r
  OBVIOUS
<1> DEFINE new == Append(rows, r)
<1> HIDE DEF new
<1>2. ActiveRows(new) = ActiveRows(rows) \cup {Len(rows) + 1}
  BY <1>1 DEF ActiveRows, new
<1>3. \A i \in DOMAIN rows : i \in DOMAIN new /\ new[i] = rows[i]
  BY <1>1 DEF new
<1>4. \A old : Grows(old, rows) => Grows(old, new)
  BY <1>3 DEF Grows
<1> QED
  BY <1>1, <1>2, <1>4 DEF new

\* A table stays as it is.
LEMMA GrowsSame == \A rows : Grows(rows, rows)
BY DEF Grows

\* Sequences over a set are sequences over a larger one.
LEMMA SeqWidens ==
  ASSUME NEW S, NEW T, S \subseteq T, NEW p \in Seq(S)
  PROVE  p \in Seq(T)
<1>1. p \in [1 .. Len(p) -> T] /\ Len(p) \in Nat
  OBVIOUS
<1> QED
  BY <1>1

\* The elements of a sequence over a set.
LEMMA SeqElements ==
  ASSUME NEW S, NEW p \in Seq(S)
  PROVE  \A i \in DOMAIN p : p[i] \in S
  OBVIOUS

\* What joining one-element sequences gives.
LEMMA Joined ==
  ASSUME NEW S, NEW a \in S, NEW b \in S, NEW c \in S
  PROVE  /\ <<a>> \o <<>> \o <<b>> = <<a, b>>
         /\ <<a>> \o <<b>> \o <<>> = <<a, b>>
         /\ <<a>> \o <<b>> \o <<c>> = <<a, b, c>>
<1>1. \A p, q \in Seq(S) :
        Len(p) = Len(q) /\ (\A i \in 1 .. Len(p) : p[i] = q[i]) => p = q
  OBVIOUS
<1>2. \A p \in Seq(S) : p \o <<>> = p
  <2> TAKE p \in Seq(S)
  <2>1. /\ p \o <<>> \in Seq(S)
        /\ Len(p \o <<>>) = Len(p)
        /\ \A i \in 1 .. Len(p) : (p \o <<>>)[i] = p[i]
    OBVIOUS
  <2> QED
    BY <1>1, <2>1
<1>3. ASSUME NEW p \in Seq(S), NEW x \in S
      PROVE  /\ p \o <<x>> \in Seq(S)
             /\ Len(p \o <<x>>) = Len(p) + 1
             /\ \A i \in 1 .. Len(p) : (p \o <<x>>)[i] = p[i]
             /\ (p \o <<x>>)[Len(p) + 1] = x
  OBVIOUS
<1>4. \A x, y \in S : <<x>> \o <<y>> = <<x, y>>
  <2> TAKE x \in S, y \in S
  <2>1. <<x>> \in Seq(S) /\ <<x, y>> \in Seq(S) /\ Len(<<x>>) = 1 /\ Len(<<x, y>>) = 2
    OBVIOUS
  <2>2. /\ <<x>> \o <<y>> \in Seq(S)
        /\ Len(<<x>> \o <<y>>) = 2
        /\ \A i \in 1 .. 2 : (<<x>> \o <<y>>)[i] = <<x, y>>[i]
    BY <1>3, <2>1
  <2> DEFINE p == <<x>> \o <<y>>
             q == <<x, y>>
  <2>3. /\ p \in Seq(S) /\ q \in Seq(S) /\ Len(p) = 2 /\ Len(q) = 2
        /\ \A i \in 1 .. 2 : p[i] = q[i]
    BY <2>1, <2>2
  <2> HIDE DEF p, q
  <2>4. p = q
    BY <1>1, <2>3
  <2> QED
    BY <2>4 DEF p, q
<1>5. <<a, b>> \o <<c>> = <<a, b, c>>
  <2>1. /\ <<a, b>> \in Seq(S) /\ <<a, b, c>> \in Seq(S)
        /\ Len(<<a, b>>) = 2 /\ Len(<<a, b, c>>) = 3
    OBVIOUS
  <2> DEFINE p == <<a, b>> \o <<c>>
             q == <<a, b, c>>
  <2>2. /\ p \in Seq(S) /\ q \in Seq(S) /\ Len(p) = 3 /\ Len(q) = 3
        /\ \A i \in 1 .. 3 : p[i] = q[i]
    BY <1>3, <2>1
  <2> HIDE DEF p, q
  <2>3. p = q
    BY <1>1, <2>2
  <2> QED
    BY <2>3 DEF p, q
<1>6. <<a>> \in Seq(S) /\ <<a, b>> \in Seq(S)
  OBVIOUS
<1> QED
  BY <1>2, <1>4, <1>5, <1>6

\* What a worker plans to write is well formed, holds no CSM row and no dimension
\* twice.
LEMMA PlanRows ==
  ASSUME NEW r \in Reading
  PROVE  /\ Plan(r) \in Seq([dim : Dims, score : 1 .. 100])
         /\ \A i \in DOMAIN Plan(r) : Plan(r)[i].dim # "csm_score"
         /\ \A i, j \in DOMAIN Plan(r) : i # j => Plan(r)[i].dim # Plan(r)[j].dim
<1> DEFINE Rows == [dim : Dims \ {"csm_score"}, score : 1 .. 100]
           row(d, s) == [dim |-> d, score |-> s]
           entry(d, s) == IF d \in Enabled /\ s # None THEN <<row(d, s)>> ELSE <<>>
           email == entry("email", EmailScore(r))
           mood == entry("sentiment", r.sentiment)
           usage == entry("product_usage", r.usage)
<1>1. EmailScore(r) \in Maybe(1 .. 100)
  BY HealthAssumption
     DEF EmailScore, Reading, Maybe, ClampScore, RoundHalfEven
<1>2. \A d \in Dims \ {"csm_score"}, s \in Maybe(1 .. 100) :
         entry(d, s) = <<>> \/ (row(d, s) \in Rows /\ entry(d, s) = <<row(d, s)>>)
  <2> TAKE d \in Dims \ {"csm_score"}, s \in Maybe(1 .. 100)
  <2>1. CASE ~ (d \in Enabled /\ s # None)
    <3>1. entry(d, s) = <<>>
      BY <2>1
    <3> QED
      BY <3>1
  <2>2. CASE d \in Enabled /\ s # None
    <3>1. entry(d, s) = <<row(d, s)>>
      BY <2>2
    <3>2. row(d, s) \in Rows
      BY <2>2 DEF Maybe
    <3> QED
      BY <3>1, <3>2
  <2> QED
    BY <2>1, <2>2
<1>3. \A d, s : row(d, s).dim = d
  OBVIOUS
<1> DEFINE e == row("email", EmailScore(r))
           m == row("sentiment", r.sentiment)
           u == row("product_usage", r.usage)
<1>4. /\ email = <<>> \/ (e \in Rows /\ email = <<e>>)
      /\ mood = <<>> \/ (m \in Rows /\ mood = <<m>>)
      /\ usage = <<>> \/ (u \in Rows /\ usage = <<u>>)
  BY <1>1, <1>2 DEF Dims, Reading
<1>5. Plan(r) = IF email = <<>> THEN <<>> ELSE email \o mood \o usage
  BY DEF Plan
<1>6. e.dim = "email" /\ m.dim = "sentiment" /\ u.dim = "product_usage"
  BY <1>3
<1> HIDE DEF email, mood, usage, e, m, u, Rows
<1>7. \/ Plan(r) = <<>>
      \/ e \in Rows /\ Plan(r) = <<e>>
      \/ e \in Rows /\ m \in Rows /\ Plan(r) = <<e, m>>
      \/ e \in Rows /\ u \in Rows /\ Plan(r) = <<e, u>>
      \/ e \in Rows /\ m \in Rows /\ u \in Rows /\ Plan(r) = <<e, m, u>>
  <2>1. CASE email = <<>>
    BY <1>5, <2>1
  <2>2. CASE email # <<>>
    <3>1. e \in Rows /\ Plan(r) = <<e>> \o mood \o usage
      BY <1>4, <1>5, <2>2
    <3>2. CASE mood = <<>> /\ usage = <<>>
      BY <3>1, <3>2
    <3>3. CASE mood = <<>> /\ u \in Rows /\ usage = <<u>>
      <4>1. <<e>> \o <<>> \o <<u>> = <<e, u>>
        BY <3>1, <3>3, Joined
      <4> QED
        BY <3>1, <3>3, <4>1
    <3>4. CASE m \in Rows /\ mood = <<m>> /\ usage = <<>>
      <4>1. <<e>> \o <<m>> \o <<>> = <<e, m>>
        BY <3>1, <3>4, Joined
      <4> QED
        BY <3>1, <3>4, <4>1
    <3>5. CASE m \in Rows /\ mood = <<m>> /\ u \in Rows /\ usage = <<u>>
      <4>1. <<e>> \o <<m>> \o <<u>> = <<e, m, u>>
        BY <3>1, <3>5, Joined
      <4> QED
        BY <3>1, <3>5, <4>1
    <3> QED
      BY <1>4, <3>2, <3>3, <3>4, <3>5
  <2> QED
    BY <2>1, <2>2
<1>8. /\ Plan(r) \in Seq(Rows)
      /\ \A i, j \in DOMAIN Plan(r) : i # j => Plan(r)[i].dim # Plan(r)[j].dim
  <2>1. CASE Plan(r) = <<>>
    BY <2>1
  <2>2. CASE e \in Rows /\ Plan(r) = <<e>>
    BY <2>2
  <2>3. CASE e \in Rows /\ m \in Rows /\ Plan(r) = <<e, m>>
    <3>1. DOMAIN Plan(r) = {1, 2} /\ Plan(r)[1] = e /\ Plan(r)[2] = m
      BY <2>3
    <3> QED
      BY <1>6, <2>3, <3>1
  <2>4. CASE e \in Rows /\ u \in Rows /\ Plan(r) = <<e, u>>
    <3>1. DOMAIN Plan(r) = {1, 2} /\ Plan(r)[1] = e /\ Plan(r)[2] = u
      BY <2>4
    <3> QED
      BY <1>6, <2>4, <3>1
  <2>5. CASE e \in Rows /\ m \in Rows /\ u \in Rows /\ Plan(r) = <<e, m, u>>
    <3>1. /\ DOMAIN Plan(r) = {1, 2, 3}
          /\ Plan(r)[1] = e /\ Plan(r)[2] = m /\ Plan(r)[3] = u
      BY <2>5
    <3> QED
      BY <1>6, <2>5, <3>1
  <2> QED
    BY <1>7, <2>1, <2>2, <2>3, <2>4, <2>5
<1>9. Rows \subseteq [dim : Dims, score : 1 .. 100]
  BY DEF Rows
<1>10. \A i \in DOMAIN Plan(r) : Plan(r)[i] \in Rows
  BY <1>8, SeqElements
<1>11. \A i \in DOMAIN Plan(r) : Plan(r)[i].dim # "csm_score"
  BY <1>10 DEF Rows
<1> QED
  BY <1>8, <1>9, <1>11, SeqWidens

-----------------------------------------------------------------------------
(* Types.  TypeOK bounds the averages, which are sums over a set; what the    *)
(* proofs need is only that there is a set they come from.                    *)

SavesTyped ==
    /\ save \in [Users -> Save]
    /\ \A u \in Users : save[u].pc = "open" => save[u].score \in 1 .. 100

SnapshotsTyped == \E S : snapshots \in Seq(SnapshotWith(S))

Typed == RowsTyped /\ WorkersLeaveCsm /\ SavesTyped /\ SnapshotsTyped

\* The initial state is well typed.
LEMMA TypedInit == Init => Typed
<1> SUFFICES ASSUME Init PROVE Typed
  OBVIOUS
<1>1. RowsTyped /\ SavesTyped
  BY DEF Init, RowsTyped, SavesTyped, NoSave, Save, Maybe
<1>2. WorkersLeaveCsm
  <2>1. /\ IdleScorer \in ScorerWith({None})
        /\ DOMAIN IdleScorer.plan = {}
        /\ IdleScorer.pc = "idle"
    BY DEF IdleScorer, ScorerWith
  <2>2. scorer \in [Workers -> ScorerWith({None})]
    BY <2>1 DEF Init
  <2> QED
    BY <2>1, <2>2 DEF Init, WorkersLeaveCsm
<1>3. SnapshotsTyped
  <2>1. snapshots \in Seq(SnapshotWith({}))
    BY DEF Init
  <2> QED
    BY <2>1 DEF SnapshotsTyped
<1> QED
  BY <1>1, <1>2, <1>3 DEF Typed

\* What is known of a worker.
LEMMA WorkerFields ==
  ASSUME Typed, NEW w \in Workers
  PROVE  /\ \E Overalls : scorer[w] \in ScorerWith(Overalls)
         /\ scorer[w].at \in Nat
         /\ scorer[w].plan \in Seq([dim : Dims, score : 1 .. 100])
         /\ \A i \in DOMAIN scorer[w].plan :
              scorer[w].plan[i].dim \in Dims \ {"csm_score"}
         /\ scorer[w].pc \in {"supersede", "insert"} =>
              /\ scorer[w].step \in DOMAIN scorer[w].plan
              /\ Item(w).dim \in Dims \ {"csm_score"}
              /\ Item(w).score \in 1 .. 100
<1> PICK Overalls : scorer \in [Workers -> ScorerWith(Overalls)]
  BY DEF Typed, WorkersLeaveCsm
<1>1. scorer[w] \in ScorerWith(Overalls)
  OBVIOUS
<1>2. /\ scorer[w].at \in Nat
      /\ scorer[w].plan \in Seq([dim : Dims, score : 1 .. 100])
  BY <1>1 DEF ScorerWith
<1>3. \A i \in DOMAIN scorer[w].plan : scorer[w].plan[i] \in [dim : Dims, score : 1 .. 100]
  BY <1>2, SeqElements
<1> QED
  BY <1>1, <1>2, <1>3 DEF Typed, WorkersLeaveCsm, Item

\* The other workers learn that they are not alone, nothing else.
LEMMA NotAloneFields ==
  ASSUME Typed, NEW x \in Workers
  PROVE  /\ \A S : scorer[x] \in ScorerWith(S) => NotAlone[x] \in ScorerWith(S)
         /\ NotAlone[x].plan = scorer[x].plan
         /\ NotAlone[x].pc = scorer[x].pc
         /\ NotAlone[x].step = scorer[x].step
         /\ NotAlone[x].pc = "idle" \/ NotAlone[x].alone = FALSE
<1> PICK Overalls : scorer[x] \in ScorerWith(Overalls)
  BY WorkerFields
<1>1. NotAlone[x] = IF scorer[x].pc = "idle" THEN scorer[x]
                    ELSE [scorer[x] EXCEPT !.alone = FALSE]
  BY DEF NotAlone
<1> QED
  BY <1>1 DEF ScorerWith

\* Worker w moves on without writing a row.
MoveAs(w, next) == [scorer EXCEPT ![w] = next]

\* One worker moves on to "next"; the others keep their place.
LEMMA MovePlans ==
  ASSUME Typed, NEW w \in Workers, NEW More, NEW next \in ScorerWith(More),
         \A i \in DOMAIN next.plan : next.plan[i].dim # "csm_score",
         next.pc \in {"supersede", "insert"} => next.step \in DOMAIN next.plan,
         scorer' = WriteAs(w, next) \/ scorer' = MoveAs(w, next)
  PROVE  /\ WorkersLeaveCsm'
         /\ scorer'[w] = next
         /\ scorer' = WriteAs(w, next) =>
              \A x \in Workers \ {w} : scorer'[x] = NotAlone[x]
         /\ scorer' = MoveAs(w, next) =>
              \A x \in Workers \ {w} : scorer'[x] = scorer[x]
<1> PICK Overalls : scorer \in [Workers -> ScorerWith(Overalls)]
  BY DEF Typed, WorkersLeaveCsm
<1> DEFINE All == Overalls \cup More
<1>1. \A x \in Workers : scorer[x] \in ScorerWith(All) /\ NotAlone[x] \in ScorerWith(All)
  <2> TAKE x \in Workers
  <2>1. scorer[x] \in ScorerWith(All)
    BY DEF ScorerWith
  <2> QED
    BY <2>1, NotAloneFields
<1>2. next \in ScorerWith(All)
  BY DEF ScorerWith
<1>3. /\ scorer'[w] = next
      /\ \A x \in Workers \ {w} : scorer'[x] \in {scorer[x], NotAlone[x]}
      /\ DOMAIN scorer' = Workers
      /\ scorer' = [x \in Workers |-> scorer'[x]]
  BY DEF WriteAs, MoveAs, NotAlone
<1> HIDE DEF All
<1>4. \A x \in Workers : scorer'[x] \in ScorerWith(All)
  BY <1>1, <1>2, <1>3
<1>5. scorer' \in [Workers -> ScorerWith(All)]
  BY <1>3, <1>4
<1>6. ASSUME NEW x \in Workers
      PROVE  /\ \A i \in DOMAIN scorer'[x].plan : scorer'[x].plan[i].dim # "csm_score"
             /\ scorer'[x].pc \in {"supersede", "insert"} =>
                  scorer'[x].step \in DOMAIN scorer'[x].plan
  <2>1. CASE x = w
    BY <1>3, <2>1
  <2>2. CASE x # w
    <3>1. /\ scorer'[x].plan = scorer[x].plan
          /\ scorer'[x].pc = scorer[x].pc
          /\ scorer'[x].step = scorer[x].step
      BY <1>3, <2>2, NotAloneFields
    <3> QED
      BY <3>1 DEF Typed, WorkersLeaveCsm
  <2> QED
    BY <2>1, <2>2
<1>7. scorer' = WriteAs(w, next) =>
         \A x \in Workers \ {w} : scorer'[x] = NotAlone[x]
  BY DEF WriteAs, NotAlone
<1>8. scorer' = MoveAs(w, next) =>
         \A x \in Workers \ {w} : scorer'[x] = scorer[x]
  BY DEF MoveAs
<1> QED
  BY <1>3, <1>5, <1>6, <1>7, <1>8 DEF WorkersLeaveCsm

\* Everyone but the committing manager has been written into.
LEMMA AllNotAlone ==
  ASSUME Typed, scorer' = NotAlone
  PROVE  WorkersLeaveCsm'
<1> PICK Overalls : scorer \in [Workers -> ScorerWith(Overalls)]
  BY DEF Typed, WorkersLeaveCsm
<1>1. \A x \in Workers : NotAlone[x] \in ScorerWith(Overalls)
  BY NotAloneFields
<1>2. scorer' \in [Workers -> ScorerWith(Overalls)]
  BY <1>1 DEF NotAlone
<1> QED
  BY <1>2, NotAloneFields DEF Typed, WorkersLeaveCsm

-----------------------------------------------------------------------------
(* What the writing steps do to the tables. *)

\* Superseding a dimension leaves none of its rows active.
LEMMA SupersedeScoreRows ==
  ASSUME Typed, NEW w \in Workers, SupersedeScore(w)
  PROVE  LET d == Item(w).dim IN
         /\ d \in Dims \ {"csm_score"}
         /\ scores' \in [Dims -> Seq(ScoreRow)]
         /\ ActiveRows(scores'[d]) = {}
         /\ \A e \in Dims \ {d} : scores'[e] = scores[e]
         /\ \A e \in Dims : Grows(scores[e], scores'[e])
<1> DEFINE d == Item(w).dim
           rows == Retire(scores[d], DOMAIN scores[d], scorer[w].at)
<1>1. d \in Dims \ {"csm_score"} /\ scorer[w].at \in Nat
  BY WorkerFields DEF SupersedeScore
<1>2. scores \in [Dims -> Seq(ScoreRow)]
  BY DEF Typed, RowsTyped
<1>3. scores' = [scores EXCEPT ![d] = rows]
  BY DEF SupersedeScore
<1> HIDE DEF d
<1>4. /\ rows \in Seq(ScoreRow)
      /\ ActiveRows(rows) = {}
      /\ Grows(scores[d], rows)
  <2>1. scores[d] \in Seq(ScoreRow)
    BY <1>1, <1>2
  <2>2. ActiveRows(scores[d]) \ DOMAIN scores[d] = {}
    BY DEF ActiveRows
  <2> QED
    BY <1>1, <2>1, <2>2, RetireRows, TableRows
<1> HIDE DEF rows
<1> QED
  BY <1>1, <1>2, <1>3, <1>4, GrowsSame DEF d

\* The inserted row is active.
LEMMA InsertScoreRows ==
  ASSUME Typed, NEW w \in Workers, InsertScore(w)
  PROVE  LET d == Item(w).dim  r == Len(scores[d]) + 1 IN
         /\ d \in Dims \ {"csm_score"}
         /\ scores' \in [Dims -> Seq(ScoreRow)]
         /\ ActiveRows(scores'[d]) = ActiveRows(scores[d]) \cup {r}
         /\ r \in DOMAIN scores'[d]
         /\ scores'[d][r].score = Item(w).score
         /\ \A e \in Dims \ {d} : scores'[e] = scores[e]
         /\ \A e \in Dims : Grows(scores[e], scores'[e])
<1> DEFINE d == Item(w).dim
           row == [score |-> Item(w).score, at |-> scorer[w].at, until |-> None]
           rows == Append(scores[d], row)
<1>1. d \in Dims \ {"csm_score"} /\ row \in ScoreRow
  BY WorkerFields DEF InsertScore, ScoreRow, Maybe
<1>2. scores \in [Dims -> Seq(ScoreRow)]
  BY DEF Typed, RowsTyped
<1>3. scores' = [scores EXCEPT ![d] = rows]
  BY DEF InsertScore
<1>4. row.until = None /\ row.score = Item(w).score
  OBVIOUS
<1> HIDE DEF d, row
<1>5. /\ rows \in Seq(ScoreRow)
      /\ ActiveRows(rows) = ActiveRows(scores[d]) \cup {Len(scores[d]) + 1}
      /\ Len(scores[d]) + 1 \in DOMAIN rows
      /\ rows[Len(scores[d]) + 1] = row
      /\ Grows(scores[d], rows)
  <2>1. scores[d] \in Seq(ScoreRow)
    BY <1>1, <1>2
  <2> QED
    BY <1>1, <1>4, <2>1, AppendRow, GrowsSame
<1> HIDE DEF rows
<1> QED
  BY <1>1, <1>2, <1>3, <1>4, <1>5, GrowsSame DEF d

\* Superseding the snapshots leaves none active.
LEMMA SupersedeSnapshotRows ==
  ASSUME Typed, NEW w \in Workers, SupersedeSnapshot(w)
  PROVE  /\ SnapshotsTyped'
         /\ ActiveRows(snapshots') = {}
         /\ Grows(snapshots, snapshots')
<1> PICK S : snapshots \in Seq(SnapshotWith(S))
  BY DEF Typed, SnapshotsTyped
<1>1. scorer[w].at \in Nat
  BY WorkerFields
<1>2. snapshots' = Retire(snapshots, DOMAIN snapshots, scorer[w].at)
  BY DEF SupersedeSnapshot
<1>3. ActiveRows(snapshots) \ DOMAIN snapshots = {}
  BY DEF ActiveRows
<1>4. Superseding(SnapshotWith(S))
  BY TableRows
<1> QED
  BY <1>1, <1>2, <1>3, <1>4, RetireRows DEF SnapshotsTyped

\* The inserted snapshot is active.
LEMMA InsertSnapshotRows ==
  ASSUME Typed, NEW w \in Workers, InsertSnapshot(w)
  PROVE  LET r == Len(snapshots) + 1 IN
         /\ SnapshotsTyped'
         /\ ActiveRows(snapshots') = ActiveRows(snapshots) \cup {r}
         /\ r \in DOMAIN snapshots'
         /\ snapshots'[r].overall = scorer[w].overall
         /\ Grows(snapshots, snapshots')
<1> PICK S : snapshots \in Seq(SnapshotWith(S))
  BY DEF Typed, SnapshotsTyped
<1> DEFINE row == [overall |-> scorer[w].overall, at |-> scorer[w].at, until |-> None]
           All == S \cup {scorer[w].overall}
<1>1. /\ row \in SnapshotWith(All)
      /\ row.until = None
      /\ row.overall = scorer[w].overall
  BY WorkerFields DEF SnapshotWith, Maybe
<1>2. snapshots \in Seq(SnapshotWith(All))
  <2>1. SnapshotWith(S) \subseteq SnapshotWith(All)
    BY DEF SnapshotWith
  <2> QED
    BY <2>1, SeqWidens
<1>3. snapshots' = Append(snapshots, row)
  BY DEF InsertSnapshot
<1> HIDE DEF row, All
<1> QED
  BY <1>1, <1>2, <1>3, AppendRow, GrowsSame DEF SnapshotsTyped

\* A save retires the rows it saw and adds its own.
LEMMA CommitRows ==
  ASSUME Typed, NEW u \in Users, CommitSave(u)
  PROVE  LET csm == scores["csm_score"] IN
         /\ scores' \in [Dims -> Seq(ScoreRow)]
         /\ ActiveRows(scores'["csm_score"]) =
              (ActiveRows(csm) \ save[u].visible) \cup {Len(csm) + 1}
         /\ lastSaved' = Len(csm) + 1
         /\ SnapshotsTyped'
         /\ \A e \in Dims : Grows(scores[e], scores'[e])
         /\ Grows(snapshots, snapshots')
<1> DEFINE csm == scores["csm_score"]
           kept == Retire(csm, save[u].visible, save[u].at)
           row == [score |-> save[u].score, at |-> save[u].at, until |-> None]
           rows == Append(kept, row)
<1>1. save[u].score \in 1 .. 100 /\ save[u].at \in Nat
  BY DEF CommitSave, Typed, SavesTyped, Save
<1>2. scores \in [Dims -> Seq(ScoreRow)] /\ csm \in Seq(ScoreRow)
  BY DEF Typed, RowsTyped, Dims
<1>3. row \in ScoreRow /\ row.until = None
  BY <1>1 DEF ScoreRow, Maybe
<1>4. scores' = [scores EXCEPT !["csm_score"] = rows]
  BY DEF CommitSave
<1> HIDE DEF csm, row
<1>5. /\ kept \in Seq(ScoreRow)
      /\ Len(kept) = Len(csm)
      /\ ActiveRows(kept) = ActiveRows(csm) \ save[u].visible
      /\ Grows(csm, kept)
  BY <1>1, <1>2, RetireRows, TableRows
<1> HIDE DEF kept
<1>6. /\ rows \in Seq(ScoreRow)
      /\ Len(rows) = Len(csm) + 1
      /\ ActiveRows(rows) = (ActiveRows(csm) \ save[u].visible) \cup {Len(csm) + 1}
      /\ Grows(csm, rows)
  BY <1>3, <1>5, AppendRow
<1> HIDE DEF rows
<1>7. /\ scores' \in [Dims -> Seq(ScoreRow)]
      /\ scores'["csm_score"] = rows
      /\ \A e \in Dims \ {"csm_score"} : scores'[e] = scores[e]
  BY <1>2, <1>4, <1>6 DEF Dims
<1>8. lastSaved' = Len(csm) + 1
  BY <1>6, <1>7 DEF CommitSave
<1>9. \A e \in Dims : Grows(scores[e], scores'[e])
  BY <1>6, <1>7, GrowsSame DEF csm
<1>10. SnapshotsTyped' /\ Grows(snapshots, snapshots')
  <2> PICK S : snapshots \in Seq(SnapshotWith(S))
    BY DEF Typed, SnapshotsTyped
  <2> DEFINE old == Retire(snapshots, DOMAIN snapshots, save[u].at)
             new == [overall |-> overall', at |-> save[u].at, until |-> None]
             All == S \cup {overall'}
  <2>1. snapshots' = Append(old, new)
    BY DEF CommitSave
  <2>2. new \in SnapshotWith(All) /\ new.until = None
    BY <1>1 DEF SnapshotWith, Maybe
  <2>3. snapshots \in Seq(SnapshotWith(All))
    <3>1. SnapshotWith(S) \subseteq SnapshotWith(All)
      BY DEF SnapshotWith
    <3> QED
      BY <3>1, SeqWidens
  <2>4. Superseding(SnapshotWith(All))
    BY TableRows
  <2> HIDE DEF new, All
  <2>5. old \in Seq(SnapshotWith(All)) /\ Grows(snapshots, old)
    BY <1>1, <2>3, <2>4, RetireRows
  <2> HIDE DEF old
  <2> QED
    BY <2>1, <2>2, <2>5, AppendRow DEF SnapshotsTyped
<1> QED
  BY <1>6, <1>7, <1>8, <1>9, <1>10 DEF csm

-----------------------------------------------------------------------------
(* Where each step leaves the workers. *)

\* An idle worker plans nothing.
LEMMA IdlePlan ==
  /\ IdleScorer \in ScorerWith({None})
  /\ DOMAIN IdleScorer.plan = {}
  /\ IdleScorer.pc = "idle"
BY DEF IdleScorer, ScorerWith

\* A worker that gives up or is done.
LEMMA IdleMove ==
  ASSUME Typed, NEW w \in Workers,
         scorer' = WriteAs(w, IdleScorer) \/ scorer' = MoveAs(w, IdleScorer)
  PROVE  /\ WorkersLeaveCsm'
         /\ scorer'[w].pc = "idle"
         /\ scorer' = WriteAs(w, IdleScorer) =>
              \A x \in Workers \ {w} : scorer'[x] = NotAlone[x]
         /\ scorer' = MoveAs(w, IdleScorer) =>
              \A x \in Workers \ {w} : scorer'[x] = scorer[x]
BY IdlePlan, MovePlans

\* A worker that starts to generate plans nothing new.
LEMMA StartMove ==
  ASSUME Typed, NEW w \in Workers, StartGeneration(w)
  PROVE  /\ WorkersLeaveCsm'
         /\ scorer'[w].pc = "generate"
         /\ \A x \in Workers \ {w} : scorer'[x] = scorer[x]
<1> PICK Overalls : scorer[w] \in ScorerWith(Overalls)
  BY WorkerFields
<1> DEFINE next == [scorer[w] EXCEPT !.pc = "generate", !.at = now]
<1>1. /\ next \in ScorerWith(Overalls)
      /\ next.plan = scorer[w].plan
      /\ next.pc = "generate"
  BY DEF ScorerWith, Typed, RowsTyped
<1>2. scorer' = MoveAs(w, next)
  BY DEF StartGeneration, MoveAs, Typed, WorkersLeaveCsm
<1>3. \A i \in DOMAIN scorer[w].plan : scorer[w].plan[i].dim # "csm_score"
  BY WorkerFields
<1> HIDE DEF next
<1>4. /\ \A i \in DOMAIN next.plan : next.plan[i].dim # "csm_score"
      /\ next.pc \in {"supersede", "insert"} => next.step \in DOMAIN next.plan
  BY <1>1, <1>3
<1>5. /\ WorkersLeaveCsm'
      /\ scorer'[w] = next
      /\ \A x \in Workers \ {w} : scorer'[x] = scorer[x]
  BY <1>1, <1>2, <1>4, MovePlans
<1> QED
  BY <1>1, <1>5

\* A worker that begins plans from its reading.
LEMMA BeginMove ==
  ASSUME Typed, NEW w \in Workers, BeginScoring(w)
  PROVE  /\ WorkersLeaveCsm'
         /\ \/ scorer'[w].pc = "idle"
            \/ /\ scorer'[w].pc = "supersede"
               /\ scorer'[w].step = 1
               /\ \E r \in Reading : scorer'[w].plan = Plan(r)
         /\ \A x \in Workers \ {w} : scorer'[x] = scorer[x]
<1> PICK Overalls : scorer[w] \in ScorerWith(Overalls)
  BY WorkerFields
<1>0. PICK r \in Readings : scorer' = [scorer EXCEPT ![w] =
        IF Plan(r) = <<>> THEN IdleScorer
        ELSE [@ EXCEPT !.pc = "supersede", !.plan = Plan(r), !.step = 1,
                       !.alone = TRUE]]
  BY DEF BeginScoring
<1>1. /\ r \in Reading
      /\ Plan(r) \in Seq([dim : Dims, score : 1 .. 100])
      /\ \A i \in DOMAIN Plan(r) : Plan(r)[i].dim # "csm_score"
  BY <1>0, PlanRows, HealthAssumption
<1>2. CASE Plan(r) = <<>>
  <2>1. scorer' = MoveAs(w, IdleScorer)
    BY <1>0, <1>2 DEF MoveAs
  <2> QED
    BY <2>1, IdleMove
<1>3. CASE Plan(r) # <<>>
  <2> DEFINE next == [scorer[w] EXCEPT !.pc = "supersede", !.plan = Plan(r),
                                       !.step = 1, !.alone = TRUE]
  <2>1. scorer' = MoveAs(w, next)
    BY <1>0, <1>3 DEF MoveAs
  <2>2. /\ next \in ScorerWith(Overalls)
        /\ next.plan = Plan(r) /\ next.step = 1 /\ next.pc = "supersede"
    BY <1>1 DEF ScorerWith
  <2>3. 1 \in DOMAIN Plan(r)
    BY <1>1, <1>3
  <2> HIDE DEF next
  <2>4. /\ \A i \in DOMAIN next.plan : next.plan[i].dim # "csm_score"
        /\ next.pc \in {"supersede", "insert"} => next.step \in DOMAIN next.plan
    BY <1>1, <2>2, <2>3
  <2>5. /\ WorkersLeaveCsm'
        /\ scorer'[w] = next
        /\ \A x \in Workers \ {w} : scorer'[x] = scorer[x]
    BY <2>1, <2>2, <2>4, MovePlans
  <2> QED
    BY <1>1, <2>2, <2>5
<1> QED
  BY <1>2, <1>3

\* The steps of a worker with a plan, up to the last.
Goes(w, pc, step, mean) ==
    /\ WorkersLeaveCsm'
    /\ scorer'[w].pc = pc /\ scorer'[w].step = step /\ scorer'[w].overall = mean
    /\ scorer'[w].plan = scorer[w].plan /\ scorer'[w].alone = scorer[w].alone

OthersNotAlone(w) == \A x \in Workers \ {w} : scorer'[x] = NotAlone[x]

Onward(w, pc, step, mean) ==
    [scorer[w] EXCEPT !.pc = pc, !.step = step, !.overall = mean]

\* A worker goes on with its plan.
LEMMA PlanMove ==
  ASSUME Typed, NEW w \in Workers, NEW pc, NEW step, NEW mean,
         pc \in {"supersede", "insert", "read", "retire", "snapshot", "cache"},
         step \in Nat,
         pc \in {"supersede", "insert"} => step \in DOMAIN scorer[w].plan
  PROVE  /\ scorer' = WriteAs(w, Onward(w, pc, step, mean)) =>
              Goes(w, pc, step, mean) /\ OthersNotAlone(w)
         /\ scorer' = MoveAs(w, Onward(w, pc, step, mean)) =>
              /\ Goes(w, pc, step, mean)
              /\ \A x \in Workers \ {w} : scorer'[x] = scorer[x]
<1> DEFINE next == Onward(w, pc, step, mean)
<1>1. PICK Overalls : scorer[w] \in ScorerWith(Overalls)
  BY WorkerFields
<1>2. /\ next \in ScorerWith(Overalls \cup {mean})
      /\ next.pc = pc /\ next.step = step /\ next.overall = mean
      /\ next.plan = scorer[w].plan /\ next.alone = scorer[w].alone
  BY <1>1 DEF ScorerWith, Onward
<1> HIDE DEF next
<1>3. /\ \A i \in DOMAIN next.plan : next.plan[i].dim # "csm_score"
      /\ next.pc \in {"supersede", "insert"} => next.step \in DOMAIN next.plan
  BY <1>2, WorkerFields
<1>4. next \in ScorerWith(Overalls \cup {mean})
  BY <1>2
<1>5. ASSUME scorer' = WriteAs(w, next)
      PROVE  Goes(w, pc, step, mean) /\ OthersNotAlone(w)
  <2>1. /\ WorkersLeaveCsm'
        /\ scorer'[w] = next
        /\ \A x \in Workers \ {w} : scorer'[x] = NotAlone[x]
    BY <1>3, <1>4, <1>5, MovePlans
  <2> QED
    BY <1>2, <2>1 DEF Goes, OthersNotAlone
<1>6. ASSUME scorer' = MoveAs(w, next)
      PROVE  /\ Goes(w, pc, step, mean)
             /\ \A x \in Workers \ {w} : scorer'[x] = scorer[x]
  <2>1. /\ WorkersLeaveCsm'
        /\ scorer'[w] = next
        /\ \A x \in Workers \ {w} : scorer'[x] = scorer[x]
    BY <1>3, <1>4, <1>6, MovePlans
  <2> QED
    BY <1>2, <2>1 DEF Goes
<1> QED
  BY <1>5, <1>6 DEF next

\* From superseding a dimension to inserting its row.
LEMMA SupersedeScoreMove ==
  ASSUME Typed, NEW w \in Workers, SupersedeScore(w)
  PROVE  /\ Goes(w, "insert", scorer[w].step, scorer[w].overall)
         /\ OthersNotAlone(w)
<1> DEFINE next == Onward(w, "insert", scorer[w].step, scorer[w].overall)
<1>1. scorer' = WriteAs(w, next)
  <2> PICK S : scorer \in [Workers -> ScorerWith(S)]
    BY DEF Typed, WorkersLeaveCsm
  <2>1. next = [scorer[w] EXCEPT !.pc = "insert"]
    BY DEF ScorerWith, Onward
  <2> HIDE DEF next
  <2> QED
    BY <2>1 DEF SupersedeScore
<1>2. /\ scorer[w].step \in Nat
      /\ scorer[w].pc = "supersede"
      /\ scorer[w].pc = "supersede" => scorer[w].step \in DOMAIN scorer[w].plan
  BY WorkerFields DEF SupersedeScore, ScorerWith
<1> QED
  BY <1>1, <1>2, PlanMove

\* From superseding the snapshots to inserting one.
LEMMA SupersedeSnapshotMove ==
  ASSUME Typed, NEW w \in Workers, SupersedeSnapshot(w)
  PROVE  /\ Goes(w, "snapshot", scorer[w].step, scorer[w].overall)
         /\ OthersNotAlone(w)
<1> DEFINE next == Onward(w, "snapshot", scorer[w].step, scorer[w].overall)
<1>1. scorer' = WriteAs(w, next)
  <2> PICK S : scorer \in [Workers -> ScorerWith(S)]
    BY DEF Typed, WorkersLeaveCsm
  <2>1. next = [scorer[w] EXCEPT !.pc = "snapshot"]
    BY DEF ScorerWith, Onward
  <2> HIDE DEF next
  <2> QED
    BY <2>1 DEF SupersedeSnapshot
<1>2. /\ scorer[w].step \in Nat
      /\ scorer[w].pc = "retire"
      /\ scorer[w].pc = "supersede" => scorer[w].step \in DOMAIN scorer[w].plan
  BY WorkerFields DEF SupersedeSnapshot, ScorerWith
<1> QED
  BY <1>1, <1>2, PlanMove

\* From inserting the snapshot to writing the cache.
LEMMA InsertSnapshotMove ==
  ASSUME Typed, NEW w \in Workers, InsertSnapshot(w)
  PROVE  /\ Goes(w, "cache", scorer[w].step, scorer[w].overall)
         /\ OthersNotAlone(w)
<1> DEFINE next == Onward(w, "cache", scorer[w].step, scorer[w].overall)
<1>1. scorer' = WriteAs(w, next)
  <2> PICK S : scorer \in [Workers -> ScorerWith(S)]
    BY DEF Typed, WorkersLeaveCsm
  <2>1. next = [scorer[w] EXCEPT !.pc = "cache"]
    BY DEF ScorerWith, Onward
  <2> HIDE DEF next
  <2> QED
    BY <2>1 DEF InsertSnapshot
<1>2. /\ scorer[w].step \in Nat
      /\ scorer[w].pc = "snapshot"
      /\ scorer[w].pc = "supersede" => scorer[w].step \in DOMAIN scorer[w].plan
  BY WorkerFields DEF InsertSnapshot, ScorerWith
<1> QED
  BY <1>1, <1>2, PlanMove

\* From reading the scores to superseding the snapshots.
LEMMA ReadScoresMove ==
  ASSUME Typed, NEW w \in Workers, ReadScores(w)
  PROVE  /\ Goes(w, "retire", scorer[w].step, ComputeOverallHealth(Ratings(scores)))
         /\ \A x \in Workers \ {w} : scorer'[x] = scorer[x]
<1> DEFINE next == Onward(w, "retire", scorer[w].step,
                          ComputeOverallHealth(Ratings(scores)))
<1>1. scorer' = MoveAs(w, next)
  <2> PICK S : scorer \in [Workers -> ScorerWith(S)]
    BY DEF Typed, WorkersLeaveCsm
  <2>1. next = [scorer[w] EXCEPT !.pc = "retire",
                               !.overall = ComputeOverallHealth(Ratings(scores))]
    BY DEF ScorerWith, Onward
  <2> HIDE DEF next
  <2> QED
    BY <2>1 DEF ReadScores, MoveAs
<1>2. /\ scorer[w].step \in Nat
      /\ scorer[w].pc = "read"
      /\ scorer[w].pc = "supersede" => scorer[w].step \in DOMAIN scorer[w].plan
  BY WorkerFields DEF ReadScores, ScorerWith
<1> QED
  BY <1>1, <1>2, PlanMove

\* From inserting a row to the next dimension, or to reading the scores.
LEMMA InsertScoreMove ==
  ASSUME Typed, NEW w \in Workers, InsertScore(w)
  PROVE  /\ \/ /\ scorer[w].step = Len(scorer[w].plan)
               /\ Goes(w, "read", scorer[w].step, scorer[w].overall)
            \/ /\ scorer[w].step + 1 \in DOMAIN scorer[w].plan
               /\ Goes(w, "supersede", scorer[w].step + 1, scorer[w].overall)
         /\ OthersNotAlone(w)
<1> PICK S : scorer \in [Workers -> ScorerWith(S)]
  BY DEF Typed, WorkersLeaveCsm
<1>1. /\ scorer[w].plan \in Seq([dim : Dims, score : 1 .. 100])
      /\ scorer[w].step \in DOMAIN scorer[w].plan
  BY WorkerFields DEF InsertScore
<1>2. scorer[w].step \in Nat
  BY <1>1
<1>3. CASE scorer[w].step = Len(scorer[w].plan)
  <2> DEFINE next == Onward(w, "read", scorer[w].step, scorer[w].overall)
  <2>1. scorer' = WriteAs(w, next)
    <3>1. next = [scorer[w] EXCEPT !.pc = "read"]
      BY DEF ScorerWith, Onward
    <3> HIDE DEF next
    <3> QED
      BY <1>3, <3>1 DEF InsertScore
  <2> QED
    BY <1>2, <1>3, <2>1, PlanMove
<1>4. CASE scorer[w].step # Len(scorer[w].plan)
  <2> DEFINE next == Onward(w, "supersede", scorer[w].step + 1, scorer[w].overall)
  <2>1. scorer' = WriteAs(w, next)
    <3>1. next = [scorer[w] EXCEPT !.pc = "supersede", !.step = @ + 1]
      BY DEF ScorerWith, Onward
    <3> HIDE DEF next
    <3> QED
      BY <1>4, <3>1 DEF InsertScore
  <2>2. scorer[w].step + 1 \in DOMAIN scorer[w].plan /\ scorer[w].step + 1 \in Nat
    BY <1>1, <1>4
  <2> QED
    BY <2>1, <2>2, PlanMove
<1> QED
  BY <1>3, <1>4

-----------------------------------------------------------------------------
(* Types are kept, and the tables only grow. *)

TablesGrow == /\ \A d \in Dims : Grows(scores[d], scores'[d])
              /\ Grows(snapshots, snapshots')

\* Tables that do not change keep their type and their rows.
LEMMA SameTables ==
  ASSUME Typed, UNCHANGED <<scores, snapshots>>
  PROVE  SnapshotsTyped' /\ TablesGrow
BY GrowsSame DEF Typed, SnapshotsTyped, TablesGrow

\* No step breaks a type or loses a row.
LEMMA TypedStep ==
  ASSUME Typed, [Next]_vars
  PROVE  Typed' /\ TablesGrow
<1>1. ASSUME NEW w \in Workers, StartGeneration(w)
      PROVE  Typed' /\ TablesGrow
  <2>1. UNCHANGED <<now, scores, snapshots, save, lastSaved>>
    BY <1>1 DEF StartGeneration
  <2>2. WorkersLeaveCsm'
    BY <1>1, StartMove
  <2> QED
    BY <2>1, <2>2, SameTables DEF Typed, RowsTyped, SavesTyped
<1>2. ASSUME NEW w \in Workers, BeginScoring(w)
      PROVE  Typed' /\ TablesGrow
  <2>1. UNCHANGED <<now, scores, snapshots, save, lastSaved>>
    BY <1>2 DEF BeginScoring
  <2>2. WorkersLeaveCsm'
    BY <1>2, BeginMove
  <2> QED
    BY <2>1, <2>2, SameTables DEF Typed, RowsTyped, SavesTyped
<1>3. ASSUME NEW w \in Workers, ReadScores(w)
      PROVE  Typed' /\ TablesGrow
  <2>1. UNCHANGED <<now, scores, snapshots, save, lastSaved>>
    BY <1>3 DEF ReadScores
  <2>2. WorkersLeaveCsm'
    BY <1>3, ReadScoresMove DEF Goes
  <2> QED
    BY <2>1, <2>2, SameTables DEF Typed, RowsTyped, SavesTyped
<1>4. ASSUME NEW w \in Workers, UpdateOverall(w)
      PROVE  Typed' /\ TablesGrow
  <2>1. UNCHANGED <<now, scores, snapshots, save, lastSaved>>
    BY <1>4 DEF UpdateOverall
  <2>2. WorkersLeaveCsm'
    BY <1>4, IdleMove DEF UpdateOverall
  <2> QED
    BY <2>1, <2>2, SameTables DEF Typed, RowsTyped, SavesTyped
<1>5. ASSUME NEW w \in Workers, Abandon(w)
      PROVE  Typed' /\ TablesGrow
  <2>1. UNCHANGED <<now, scores, snapshots, save, lastSaved>>
    BY <1>5 DEF Abandon
  <2>2. WorkersLeaveCsm'
    BY <1>5, IdleMove DEF Abandon, MoveAs
  <2> QED
    BY <2>1, <2>2, SameTables DEF Typed, RowsTyped, SavesTyped
<1>6. ASSUME NEW w \in Workers, SupersedeScore(w)
      PROVE  Typed' /\ TablesGrow
  <2>1. UNCHANGED <<now, snapshots, save, lastSaved>>
    BY <1>6 DEF SupersedeScore
  <2>2. WorkersLeaveCsm'
    BY <1>6, SupersedeScoreMove DEF Goes
  <2>3. /\ scores' \in [Dims -> Seq(ScoreRow)]
        /\ \A d \in Dims : Grows(scores[d], scores'[d])
    BY <1>6, SupersedeScoreRows
  <2>4. SnapshotsTyped' /\ Grows(snapshots, snapshots')
    BY <2>1, GrowsSame DEF Typed, SnapshotsTyped
  <2> QED
    BY <2>1, <2>2, <2>3, <2>4 DEF Typed, RowsTyped, SavesTyped, TablesGrow
<1>7. ASSUME NEW w \in Workers, InsertScore(w)
      PROVE  Typed' /\ TablesGrow
  <2>1. UNCHANGED <<now, snapshots, save, lastSaved>>
    BY <1>7 DEF InsertScore
  <2>2. WorkersLeaveCsm'
    BY <1>7, InsertScoreMove DEF Goes
  <2>3. /\ scores' \in [Dims -> Seq(ScoreRow)]
        /\ \A d \in Dims : Grows(scores[d], scores'[d])
    BY <1>7, InsertScoreRows
  <2>4. SnapshotsTyped' /\ Grows(snapshots, snapshots')
    BY <2>1, GrowsSame DEF Typed, SnapshotsTyped
  <2> QED
    BY <2>1, <2>2, <2>3, <2>4 DEF Typed, RowsTyped, SavesTyped, TablesGrow
<1>8. ASSUME NEW w \in Workers, SupersedeSnapshot(w)
      PROVE  Typed' /\ TablesGrow
  <2>1. UNCHANGED <<now, scores, save, lastSaved>>
    BY <1>8 DEF SupersedeSnapshot
  <2>2. WorkersLeaveCsm'
    BY <1>8, SupersedeSnapshotMove DEF Goes
  <2>3. SnapshotsTyped' /\ Grows(snapshots, snapshots')
    BY <1>8, SupersedeSnapshotRows
  <2> QED
    BY <2>1, <2>2, <2>3, GrowsSame DEF Typed, RowsTyped, SavesTyped, TablesGrow
<1>9. ASSUME NEW w \in Workers, InsertSnapshot(w)
      PROVE  Typed' /\ TablesGrow
  <2>1. UNCHANGED <<now, scores, save, lastSaved>>
    BY <1>9 DEF InsertSnapshot
  <2>2. WorkersLeaveCsm'
    BY <1>9, InsertSnapshotMove DEF Goes
  <2>3. SnapshotsTyped' /\ Grows(snapshots, snapshots')
    BY <1>9, InsertSnapshotRows
  <2> QED
    BY <2>1, <2>2, <2>3, GrowsSame DEF Typed, RowsTyped, SavesTyped, TablesGrow
<1>10. ASSUME NEW u \in Users, OpenSave(u)
      PROVE  Typed' /\ TablesGrow
  <2>1. UNCHANGED <<now, scores, snapshots, scorer, lastSaved>>
    BY <1>10 DEF OpenSave
  <2>2. SavesTyped'
    <3>1. PICK s \in UserScores :
            save' = [save EXCEPT ![u] = [pc |-> "open", score |-> s, at |-> now,
                            visible |-> ActiveRows(scores["csm_score"])]]
      BY <1>10 DEF OpenSave
    <3>2. s \in 1 .. 100 /\ now \in Nat
      BY <3>1, HealthAssumption DEF Typed, RowsTyped
    <3>3. ActiveRows(scores["csm_score"]) \in SUBSET Nat
      <4>1. scores["csm_score"] \in Seq(ScoreRow)
        BY DEF Typed, RowsTyped, Dims
      <4> QED
        BY <4>1 DEF ActiveRows
    <3> QED
      BY <3>1, <3>2, <3>3 DEF Typed, SavesTyped, Save, Maybe
  <2> QED
    BY <2>1, <2>2, SameTables DEF Typed, RowsTyped, WorkersLeaveCsm
<1>11. ASSUME NEW u \in Users, CommitSave(u)
      PROVE  Typed' /\ TablesGrow
  <2>1. now' = now /\ scorer' = NotAlone /\ save' = [save EXCEPT ![u] = NoSave]
    BY <1>11 DEF CommitSave
  <2>2. SavesTyped'
    BY <2>1 DEF Typed, SavesTyped, NoSave, Save, Maybe
  <2>3. lastSaved' \in Nat
    <3>1. scores["csm_score"] \in Seq(ScoreRow)
      BY DEF Typed, RowsTyped, Dims
    <3> QED
      BY <1>11, <3>1, CommitRows
  <2>4. WorkersLeaveCsm'
    BY <2>1, AllNotAlone
  <2> QED
    BY <1>11, <2>1, <2>2, <2>3, <2>4, CommitRows DEF Typed, RowsTyped, TablesGrow
<1>12. ASSUME NEW u \in Users, RollBackSave(u)
      PROVE  Typed' /\ TablesGrow
  <2>1. UNCHANGED <<now, scores, snapshots, scorer, lastSaved>>
    BY <1>12 DEF RollBackSave
  <2>2. SavesTyped'
    BY <1>12 DEF RollBackSave, Typed, SavesTyped, NoSave, Save, Maybe
  <2> QED
    BY <2>1, <2>2, SameTables DEF Typed, RowsTyped, WorkersLeaveCsm
<1>13. ASSUME Tick
      PROVE  Typed' /\ TablesGrow
  <2>1. UNCHANGED <<scores, snapshots, scorer, save, lastSaved>> /\ now' \in Nat
    BY <1>13 DEF Tick, Typed, RowsTyped
  <2> QED
    BY <2>1, SameTables DEF Typed, RowsTyped, WorkersLeaveCsm, SavesTyped
<1>14. ASSUME UNCHANGED vars
      PROVE  Typed' /\ TablesGrow
  <2>1. UNCHANGED <<now, scores, snapshots, scorer, save, lastSaved>>
    BY <1>14 DEF vars
  <2> QED
    BY <2>1, SameTables DEF Typed, RowsTyped, WorkersLeaveCsm, SavesTyped
<1> QED
  BY <1>1, <1>2, <1>3, <1>4, <1>5, <1>6, <1>7, <1>8,
     <1>9, <1>10, <1>11, <1>12, <1>13, <1>14 DEF Next, Score

\* History is append-only, whatever workers and managers do and however they
\* fail: no row of scores or snapshots is lost or changed but by superseding it.
THEOREM HistoryStays == Spec => HistoryKept
<1>1. Init => Typed
  BY TypedInit
<1>2. Typed /\ [Next]_vars => Typed' /\ TablesGrow
  BY TypedStep
<1>3. TablesGrow => [/\ \A d \in Dims : Grows(scores[d], scores'[d])
                    /\ Grows(snapshots, snapshots')]_vars
  BY DEF TablesGrow
<1> QED
  BY <1>1, <1>2, <1>3, PTL DEF Spec, HistoryKept

-----------------------------------------------------------------------------
(* With one manager, the CSM score stands. *)

\* Each step keeps what writers know of the active CSM rows.
LEMMA CsmStep ==
  ASSUME OneManager, CsmInv, Typed, [Next]_vars
  PROVE  CsmInv'
<1> DEFINE csm == scores["csm_score"]
<1>1. Typed'
  BY TypedStep
<1>2. ASSUME csm' = csm, UNCHANGED <<save, lastSaved>>
      PROVE  CsmInv'
  BY <1>1, <1>2 DEF CsmInv, Typed, SavesSeeActive, CsmScoreStands
<1>3. ASSUME NEW w \in Workers,
             SupersedeScore(w) \/ InsertScore(w)
      PROVE  CsmInv'
  <2>1. csm' = csm
    BY <1>3, SupersedeScoreRows, InsertScoreRows DEF Dims
  <2>2. UNCHANGED <<save, lastSaved>>
    BY <1>3 DEF SupersedeScore, InsertScore
  <2> QED
    BY <1>2, <2>1, <2>2
<1>4. ASSUME NEW w \in Workers,
             \/ StartGeneration(w) \/ BeginScoring(w) \/ ReadScores(w)
             \/ SupersedeSnapshot(w) \/ InsertSnapshot(w) \/ UpdateOverall(w)
             \/ Abandon(w)
      PROVE  CsmInv'
  <2>1. UNCHANGED <<scores, save, lastSaved>>
    BY <1>4 DEF StartGeneration, BeginScoring, ReadScores, SupersedeSnapshot,
                InsertSnapshot, UpdateOverall, Abandon
  <2> QED
    BY <1>2, <2>1
<1>5. ASSUME NEW u \in Users, OpenSave(u)
      PROVE  CsmInv'
  <2>1. UNCHANGED <<scores, lastSaved>>
    BY <1>5 DEF OpenSave
  <2>2. \A v \in Users : v = u
    BY DEF OneManager
  <2>3. PICK s \in UserScores :
          save' = [save EXCEPT ![u] = [pc |-> "open", score |-> s, at |-> now,
                          visible |-> ActiveRows(scores["csm_score"])]]
    BY <1>5 DEF OpenSave
  <2>4. save'[u].visible = ActiveRows(scores'["csm_score"])
    BY <2>1, <2>3 DEF CsmInv, SavesSeeActive
  <2>5. SavesSeeActive'
    BY <1>1, <2>2, <2>4 DEF SavesSeeActive, Typed, SavesTyped
  <2> QED
    BY <1>1, <2>1, <2>5 DEF CsmInv, CsmScoreStands, Typed
<1>6. ASSUME NEW u \in Users, CommitSave(u)
      PROVE  CsmInv'
  <2>1. csm \in Seq(ScoreRow) /\ Len(csm) \in Nat
    BY DEF Typed, RowsTyped, Dims
  <2>2. ActiveRows(csm) = save[u].visible
    BY <1>6 DEF CsmInv, SavesSeeActive, CommitSave
  <2>3. CsmScoreStands'
    BY <1>6, <2>1, <2>2, CommitRows DEF CsmScoreStands
  <2>4. \A v \in Users : save'[v] = NoSave
    BY <1>6 DEF OneManager, CommitSave, CsmInv, SavesSeeActive
  <2>5. SavesSeeActive'
    BY <1>1, <2>4 DEF SavesSeeActive, Typed, SavesTyped, NoSave
  <2> QED
    BY <1>1, <2>3, <2>5 DEF CsmInv, Typed
<1>7. ASSUME NEW u \in Users, RollBackSave(u)
      PROVE  CsmInv'
  <2>1. UNCHANGED <<scores, lastSaved>>
    BY <1>7 DEF RollBackSave
  <2>2. \A v \in Users : save'[v] \in {save[v], NoSave}
    BY <1>7 DEF RollBackSave, CsmInv, SavesSeeActive
  <2>3. SavesSeeActive'
    BY <1>1, <2>1, <2>2 DEF SavesSeeActive, CsmInv, Typed, SavesTyped, NoSave
  <2> QED
    BY <1>1, <2>1, <2>3 DEF CsmInv, CsmScoreStands, Typed
<1>8. ASSUME Tick \/ UNCHANGED vars
      PROVE  CsmInv'
  <2>1. UNCHANGED <<scores, save, lastSaved>>
    BY <1>8 DEF Tick, vars
  <2> QED
    BY <1>2, <2>1
<1> QED
  BY <1>3, <1>4, <1>5, <1>6, <1>7, <1>8 DEF Next, Score

\* No CSM row is there at first.
LEMMA CsmInit == Init => CsmInv
<1> SUFFICES ASSUME Init PROVE CsmInv
  OBVIOUS
<1>1. ActiveRows(scores["csm_score"]) = {}
  BY DEF Init, ActiveRows, Dims
<1> QED
  BY <1>1, TypedInit DEF Init, CsmInv, Typed, SavesSeeActive, SavesTyped,
                         CsmScoreStands, NoSave

\* However many workers score the account, between whichever of their calls a
\* save commits, the row of the last committed save is the one active CSM row,
\* as long as one manager saves at a time.
THEOREM SavedScoreStands == OneManager => (Spec => []CsmScoreStands)
<1> SUFFICES ASSUME OneManager PROVE Spec => []CsmScoreStands
  OBVIOUS
<1>1. Init => Typed /\ CsmInv
  BY TypedInit, CsmInit
<1>2. Typed /\ CsmInv /\ [Next]_vars => (Typed /\ CsmInv)'
  BY TypedStep, CsmStep
<1>3. CsmInv => CsmScoreStands
  BY DEF CsmInv
<1> QED
  BY <1>1, <1>2, <1>3, PTL DEF Spec

-----------------------------------------------------------------------------
(* A scoring that runs alone repairs the account: what it has done so far     *)
(* stands.  As soon as someone else writes a row it no longer runs alone, so  *)
(* only the worker's own steps matter.                                        *)

StandsIn(table, item) ==
    \E r \in DOMAIN table[item.dim] :
        /\ ActiveRows(table[item.dim]) = {r}
        /\ table[item.dim][r].score = item.score

\* The rows of its plan that worker s has written.
WrittenBy(s) == IF s.pc \in {"supersede", "insert"} THEN 1 .. s.step - 1
                ELSE DOMAIN s.plan

RepairedSoFar(s, table, snaps) ==
    s.alone /\ s.pc \notin {"idle", "generate"} =>
        /\ \A i, j \in DOMAIN s.plan : i # j => s.plan[i].dim # s.plan[j].dim
        /\ \A i \in WrittenBy(s) : StandsIn(table, s.plan[i])
        /\ s.pc = "insert" => ActiveRows(table[s.plan[s.step].dim]) = {}
        /\ s.pc \in {"retire", "snapshot", "cache"} =>
               s.overall = ComputeOverallHealth(Ratings(table))
        /\ s.pc = "snapshot" => ActiveRows(snaps) = {}
        /\ s.pc = "cache" =>
               \E r \in DOMAIN snaps : /\ ActiveRows(snaps) = {r}
                                       /\ snaps[r].overall = s.overall

RepairInv == \A w \in Workers : RepairedSoFar(scorer[w], scores, snapshots)

\* A worker whom someone writes into, and one that no step concerns.
LEMMA Bystander ==
  ASSUME Typed, NEW x \in Workers, scorer'[x] = NotAlone[x]
  PROVE  RepairedSoFar(scorer'[x], scores', snapshots')
BY NotAloneFields DEF RepairedSoFar

LEMMA Unconcerned ==
  ASSUME RepairInv, NEW x \in Workers, scorer'[x] = scorer[x],
         UNCHANGED <<scores, snapshots>>
  PROVE  RepairedSoFar(scorer'[x], scores', snapshots')
BY DEF RepairInv

\* Rows of other dimensions stand when one dimension is written.
LEMMA OthersStand ==
  ASSUME NEW old, NEW new, NEW item, NEW d, new[item.dim] = old[item.dim],
         StandsIn(old, item)
  PROVE  StandsIn(new, item)
BY DEF StandsIn

\* Superseding a dimension touches none of those already written.
LEMMA SupersedeRepairs ==
  ASSUME Typed, RepairInv, NEW w \in Workers, SupersedeScore(w)
  PROVE  RepairedSoFar(scorer'[w], scores', snapshots')
<1> DEFINE s == scorer[w]
           t == scorer'[w]
<1>1. t.pc = "insert" /\ t.step = s.step /\ t.plan = s.plan /\ t.alone = s.alone
  BY SupersedeScoreMove DEF Goes
<1>2. /\ s.pc = "supersede" /\ s.step \in DOMAIN s.plan
      /\ s.plan \in Seq([dim : Dims, score : 1 .. 100])
  BY WorkerFields DEF SupersedeScore
<1>3. Item(w) = s.plan[s.step]
  BY DEF Item
<1> SUFFICES ASSUME s.alone
             PROVE  RepairedSoFar(t, scores', snapshots')
  BY <1>1 DEF RepairedSoFar
<1>4. /\ \A i, j \in DOMAIN s.plan : i # j => s.plan[i].dim # s.plan[j].dim
      /\ \A i \in 1 .. s.step - 1 : StandsIn(scores, s.plan[i])
  BY <1>2 DEF RepairInv, RepairedSoFar, WrittenBy
<1>5. ActiveRows(scores'[s.plan[s.step].dim]) = {}
  BY <1>3, SupersedeScoreRows
<1>6. \A i \in 1 .. s.step - 1 : StandsIn(scores', s.plan[i])
  <2> TAKE i \in 1 .. s.step - 1
  <2>1. i \in DOMAIN s.plan /\ i # s.step
    BY <1>2
  <2>2. s.plan[i].dim \in Dims \ {Item(w).dim}
    <3>1. s.plan[i] \in [dim : Dims, score : 1 .. 100]
      BY <1>2, <2>1, SeqElements
    <3>2. s.plan[i].dim # s.plan[s.step].dim
      BY <1>2, <1>4, <2>1
    <3> QED
      BY <1>3, <3>1, <3>2
  <2>3. scores'[s.plan[i].dim] = scores[s.plan[i].dim]
    BY <2>2, SupersedeScoreRows
  <2> QED
    BY <1>4, <2>3, OthersStand
<1> HIDE DEF s, t
<1> QED
  BY <1>1, <1>4, <1>5, <1>6 DEF RepairedSoFar, WrittenBy

\* Inserting its row makes the dimension stand.
LEMMA InsertRepairs ==
  ASSUME Typed, RepairInv, NEW w \in Workers, InsertScore(w)
  PROVE  RepairedSoFar(scorer'[w], scores', snapshots')
<1> DEFINE s == scorer[w]
           t == scorer'[w]
<1>1. /\ t.plan = s.plan /\ t.alone = s.alone
      /\ \/ t.pc = "read" /\ s.step = Len(s.plan)
         \/ t.pc = "supersede" /\ t.step = s.step + 1
  BY InsertScoreMove DEF Goes
<1>2. /\ s.pc = "insert" /\ s.step \in DOMAIN s.plan
      /\ s.plan \in Seq([dim : Dims, score : 1 .. 100])
  BY WorkerFields DEF InsertScore
<1>3. Item(w) = s.plan[s.step]
  BY DEF Item
<1> SUFFICES ASSUME s.alone
             PROVE  RepairedSoFar(t, scores', snapshots')
  BY <1>1 DEF RepairedSoFar
<1>4. /\ \A i, j \in DOMAIN s.plan : i # j => s.plan[i].dim # s.plan[j].dim
      /\ \A i \in 1 .. s.step - 1 : StandsIn(scores, s.plan[i])
      /\ ActiveRows(scores[s.plan[s.step].dim]) = {}
  BY <1>2 DEF RepairInv, RepairedSoFar, WrittenBy
<1>5. StandsIn(scores', s.plan[s.step])
  <2> DEFINE d == Item(w).dim
             r == Len(scores[d]) + 1
  <2>1. /\ ActiveRows(scores'[d]) = ActiveRows(scores[d]) \cup {r}
        /\ r \in DOMAIN scores'[d]
        /\ scores'[d][r].score = Item(w).score
    BY InsertScoreRows
  <2>2. ActiveRows(scores[d]) = {} /\ d = s.plan[s.step].dim
    BY <1>3, <1>4
  <2> HIDE DEF d, r, s
  <2> QED
    BY <1>3, <2>1, <2>2 DEF StandsIn
<1>6. \A i \in 1 .. s.step - 1 : StandsIn(scores', s.plan[i])
  <2> TAKE i \in 1 .. s.step - 1
  <2>1. i \in DOMAIN s.plan /\ i # s.step
    BY <1>2
  <2>2. s.plan[i].dim \in Dims \ {Item(w).dim}
    <3>1. s.plan[i] \in [dim : Dims, score : 1 .. 100]
      BY <1>2, <2>1, SeqElements
    <3>2. s.plan[i].dim # s.plan[s.step].dim
      BY <1>2, <1>4, <2>1
    <3> QED
      BY <1>3, <3>1, <3>2
  <2>3. scores'[s.plan[i].dim] = scores[s.plan[i].dim]
    BY <2>2, InsertScoreRows
  <2> QED
    BY <1>4, <2>3, OthersStand
<1>7. \A i \in 1 .. s.step : StandsIn(scores', s.plan[i])
  BY <1>2, <1>5, <1>6
<1>8. WrittenBy(t) = 1 .. s.step
  <2>1. CASE t.pc = "read" /\ s.step = Len(s.plan)
    BY <1>1, <1>2, <2>1 DEF WrittenBy
  <2>2. CASE t.pc = "supersede" /\ t.step = s.step + 1
    BY <1>2, <2>2 DEF WrittenBy
  <2> QED
    BY <1>1, <2>1, <2>2
<1> HIDE DEF s, t
<1> QED
  BY <1>1, <1>4, <1>7, <1>8 DEF RepairedSoFar

\* The steps after the last row: read, supersede the snapshot, insert one.
LEMMA FinishRepairs ==
  ASSUME Typed, RepairInv, NEW w \in Workers,
         ReadScores(w) \/ SupersedeSnapshot(w) \/ InsertSnapshot(w)
  PROVE  RepairedSoFar(scorer'[w], scores', snapshots')
<1> DEFINE s == scorer[w]
           t == scorer'[w]
           mean == ComputeOverallHealth(Ratings(scores))
<1>1. /\ s.pc \in {"read", "retire", "snapshot"} /\ UNCHANGED scores
      /\ t.plan = s.plan /\ t.alone = s.alone
      /\ t.pc \in {"retire", "snapshot", "cache"}
  BY ReadScoresMove, SupersedeSnapshotMove, InsertSnapshotMove
     DEF Goes, ReadScores, SupersedeSnapshot, InsertSnapshot
<1> SUFFICES ASSUME s.alone
             PROVE  RepairedSoFar(t, scores', snapshots')
  BY <1>1 DEF RepairedSoFar
<1>2. RepairedSoFar(s, scores, snapshots)
  BY DEF RepairInv
<1>3. /\ \A i, j \in DOMAIN s.plan : i # j => s.plan[i].dim # s.plan[j].dim
      /\ \A i \in DOMAIN s.plan : StandsIn(scores, s.plan[i])
  BY <1>1, <1>2 DEF RepairedSoFar, WrittenBy
<1>4. t.overall = mean
  <2>1. CASE ReadScores(w)
    BY <2>1, ReadScoresMove DEF Goes
  <2>2. CASE SupersedeSnapshot(w) \/ InsertSnapshot(w)
    <3>1. t.overall = s.overall /\ s.pc \in {"retire", "snapshot"}
      BY <2>2, SupersedeSnapshotMove, InsertSnapshotMove
         DEF Goes, SupersedeSnapshot, InsertSnapshot
    <3> QED
      BY <1>2, <3>1 DEF RepairedSoFar
  <2> QED
    BY <2>1, <2>2
<1>5. /\ t.pc = "snapshot" => ActiveRows(snapshots') = {}
      /\ t.pc = "cache" => \E r \in DOMAIN snapshots' :
                              /\ ActiveRows(snapshots') = {r}
                              /\ snapshots'[r].overall = t.overall
  <2>1. CASE ReadScores(w)
    BY <2>1, ReadScoresMove DEF Goes
  <2>2. CASE SupersedeSnapshot(w)
    BY <2>2, SupersedeSnapshotMove, SupersedeSnapshotRows DEF Goes
  <2>3. CASE InsertSnapshot(w)
    <3>1. s.pc = "snapshot" /\ t.pc = "cache" /\ t.overall = s.overall
      BY <2>3, InsertSnapshotMove DEF Goes, InsertSnapshot
    <3>2. PICK r \in DOMAIN snapshots' :
            /\ ActiveRows(snapshots') = ActiveRows(snapshots) \cup {r}
            /\ snapshots'[r].overall = s.overall
      BY <2>3, InsertSnapshotRows
    <3>3. ActiveRows(snapshots) = {}
      BY <1>2, <3>1 DEF RepairedSoFar
    <3> QED
      BY <3>1, <3>2, <3>3
  <2> QED
    BY <2>1, <2>2, <2>3
<1>6. /\ \A i, j \in DOMAIN t.plan : i # j => t.plan[i].dim # t.plan[j].dim
      /\ \A i \in WrittenBy(t) : StandsIn(scores', t.plan[i])
  BY <1>1, <1>3 DEF WrittenBy
<1>7. t.overall = ComputeOverallHealth(Ratings(scores'))
  BY <1>1, <1>4
<1> HIDE DEF s, t, mean
<1> QED
  BY <1>1, <1>5, <1>6, <1>7 DEF RepairedSoFar

\* A scoring that begins has nothing to show yet.
LEMMA BeginRepairs ==
  ASSUME Typed, NEW w \in Workers, BeginScoring(w)
  PROVE  RepairedSoFar(scorer'[w], scores', snapshots')
<1>1. CASE scorer'[w].pc = "idle"
  BY <1>1 DEF RepairedSoFar
<1>2. CASE /\ scorer'[w].pc = "supersede"
           /\ scorer'[w].step = 1
           /\ \E r \in Reading : scorer'[w].plan = Plan(r)
  <2>1. WrittenBy(scorer'[w]) = {}
    BY <1>2 DEF WrittenBy
  <2>2. \A i, j \in DOMAIN scorer'[w].plan :
          i # j => scorer'[w].plan[i].dim # scorer'[w].plan[j].dim
    BY <1>2, PlanRows
  <2> QED
    BY <1>2, <2>1, <2>2 DEF RepairedSoFar
<1> QED
  BY <1>1, <1>2, BeginMove

\* Each step keeps what the scorings that run alone have repaired.
LEMMA RepairStep ==
  ASSUME Typed, RepairInv, [Next]_vars
  PROVE  RepairInv'
<1> SUFFICES ASSUME NEW x \in Workers
             PROVE  RepairedSoFar(scorer'[x], scores', snapshots')
  BY DEF RepairInv
<1>1. ASSUME NEW w \in Workers, StartGeneration(w)
      PROVE  RepairedSoFar(scorer'[x], scores', snapshots')
  <2>1. CASE x = w
    BY <1>1, <2>1, StartMove DEF RepairedSoFar
  <2>2. CASE x # w
    BY <1>1, <2>2, StartMove, Unconcerned DEF StartGeneration
  <2> QED
    BY <2>1, <2>2
<1>2. ASSUME NEW w \in Workers, BeginScoring(w)
      PROVE  RepairedSoFar(scorer'[x], scores', snapshots')
  <2>1. CASE x = w
    BY <1>2, <2>1, BeginRepairs
  <2>2. CASE x # w
    BY <1>2, <2>2, BeginMove, Unconcerned DEF BeginScoring
  <2> QED
    BY <2>1, <2>2
<1>3. ASSUME NEW w \in Workers, SupersedeScore(w)
      PROVE  RepairedSoFar(scorer'[x], scores', snapshots')
  BY <1>3, SupersedeRepairs, SupersedeScoreMove, Bystander DEF OthersNotAlone
<1>4. ASSUME NEW w \in Workers, InsertScore(w)
      PROVE  RepairedSoFar(scorer'[x], scores', snapshots')
  BY <1>4, InsertRepairs, InsertScoreMove, Bystander DEF OthersNotAlone
<1>5. ASSUME NEW w \in Workers, ReadScores(w)
      PROVE  RepairedSoFar(scorer'[x], scores', snapshots')
  <2>1. CASE x = w
    BY <1>5, <2>1, FinishRepairs
  <2>2. CASE x # w
    BY <1>5, <2>2, ReadScoresMove, Unconcerned DEF ReadScores
  <2> QED
    BY <2>1, <2>2
<1>6. ASSUME NEW w \in Workers, SupersedeSnapshot(w) \/ InsertSnapshot(w)
      PROVE  RepairedSoFar(scorer'[x], scores', snapshots')
  BY <1>6, FinishRepairs, SupersedeSnapshotMove, InsertSnapshotMove, Bystander
     DEF OthersNotAlone
<1>7. ASSUME NEW w \in Workers, UpdateOverall(w) \/ Abandon(w)
      PROVE  RepairedSoFar(scorer'[x], scores', snapshots')
  <2>1. CASE x = w
    <3>1. scorer'[w].pc = "idle"
      BY <1>7, IdleMove DEF UpdateOverall, Abandon, MoveAs
    <3> QED
      BY <2>1, <3>1 DEF RepairedSoFar
  <2>2. CASE x # w
    <3>1. CASE UpdateOverall(w)
      BY <2>2, <3>1, IdleMove, Bystander DEF UpdateOverall
    <3>2. CASE Abandon(w)
      BY <2>2, <3>2, IdleMove, Unconcerned DEF Abandon, MoveAs
    <3> QED
      BY <1>7, <3>1, <3>2
  <2> QED
    BY <2>1, <2>2
<1>8. ASSUME NEW u \in Users, CommitSave(u)
      PROVE  RepairedSoFar(scorer'[x], scores', snapshots')
  BY <1>8, Bystander DEF CommitSave
<1>9. ASSUME NEW u \in Users, OpenSave(u) \/ RollBackSave(u)
      PROVE  RepairedSoFar(scorer'[x], scores', snapshots')
  BY <1>9, Unconcerned DEF OpenSave, RollBackSave
<1>10. ASSUME Tick \/ UNCHANGED vars
       PROVE  RepairedSoFar(scorer'[x], scores', snapshots')
  BY <1>10, Unconcerned DEF Tick, vars
<1> QED
  BY <1>1, <1>2, <1>3, <1>4, <1>5, <1>6, <1>7, <1>8, <1>9, <1>10 DEF Next, Score

\* Whatever duplicates, gaps and stale values earlier races and failures left, a
\* scoring into which nobody writes ends with one active row of each dimension
\* it scored, its own, one active snapshot, and the cache equal to both.
THEOREM ScoringsRepair == Spec => ScoringRepairs
<1>1. Init => Typed /\ RepairInv
  <2>1. Init => RepairInv
    BY DEF Init, RepairInv, RepairedSoFar, IdleScorer
  <2> QED
    BY <2>1, TypedInit
<1>2. Typed /\ RepairInv /\ [Next]_vars => (Typed /\ RepairInv)'
  BY TypedStep, RepairStep
<1>3. Typed /\ RepairInv /\ [Next]_vars => [\A w \in Workers : Repairs(w)]_vars
  <2> SUFFICES ASSUME RepairInv, NEW w \in Workers, UpdateOverall(w), scorer[w].alone
               PROVE  /\ \A i \in DOMAIN scorer[w].plan :
                           StandsIn(scores, scorer[w].plan[i])
                      /\ \E r \in DOMAIN snapshots :
                           /\ ActiveRows(snapshots) = {r}
                           /\ snapshots[r].overall = overall'
                      /\ overall' \in Averages(scores)
    BY DEF Repairs, StandsIn
  <2>1. RepairedSoFar(scorer[w], scores, snapshots)
    BY DEF RepairInv
  <2>2. scorer[w].pc = "cache" /\ overall' = scorer[w].overall
    BY DEF UpdateOverall
  <2> QED
    BY <2>1, <2>2 DEF RepairedSoFar, WrittenBy, Averages
<1> QED
  BY <1>1, <1>2, <1>3, PTL DEF Spec, ScoringRepairs

-----------------------------------------------------------------------------
(* The averages.  A sum over a set is computed by a recursive function on its   *)
(* subsets; that there is one is shown by induction on their cardinality.       *)

\* A set of naturals that holds 0 and the successor of each member holds all.
LEMMA AllNaturals ==
  ASSUME NEW P, 0 \in P, \A n \in Nat : n \in P => n + 1 \in P
  PROVE  Nat \subseteq P
<1> SUFFICES ASSUME NEW n \in Nat, n \notin P PROVE FALSE
  OBVIOUS
<1>1. PICK i \in Nat \ P : \A j \in Nat \ P : ~ (<<j, i>> \in OpToRel(<, Nat))
  <2>1. Nat \ P # {} /\ Nat \ P \in SUBSET Nat
    OBVIOUS
  <2> QED
    BY <2>1, WFMin, NatLessThanWellFounded, Zenon
<1>2. \A j \in Nat \ P : ~ (j < i)
  BY <1>1 DEF OpToRel
<1>3. i # 0
  OBVIOUS
<1>4. i - 1 \in Nat /\ i - 1 < i /\ (i - 1) + 1 = i
  BY <1>3
<1>5. i - 1 \in P
  BY <1>2, <1>4
<1> QED
  BY <1>4, <1>5

\* A sum over a set, as the folds compute it: g has the sums over the subsets of S.
AnyOf(s) == CHOOSE x \in s : TRUE
Added(g, w, s) == IF s = {} THEN 0 ELSE w[AnyOf(s)] + g[s \ {AnyOf(s)}]
Sums(g, w, S) == g = [s \in SUBSET S |-> Added(g, w, s)]

\* Taking an element out of a finite set.
LEMMA OneLess ==
  ASSUME NEW S, IsFiniteSet(S), NEW s \in SUBSET S, s # {}
  PROVE  /\ AnyOf(s) \in s
         /\ s \ {AnyOf(s)} \in SUBSET S
         /\ Cardinality(s) \in Nat \ {0}
         /\ Cardinality(s \ {AnyOf(s)}) = Cardinality(s) - 1
<1>1. AnyOf(s) \in s
  BY DEF AnyOf
<1>2. IsFiniteSet(s)
  BY FS_Subset
<1>3. Cardinality(s) \in Nat /\ Cardinality(s) # 0
  BY <1>2, FS_CardinalityType, FS_EmptySet
<1> QED
  BY <1>1, <1>2, <1>3, FS_RemoveElement

\* The sums over the subsets of a finite set exist.
LEMMA SumsExist ==
  ASSUME NEW S, IsFiniteSet(S), NEW w
  PROVE  \E g : Sums(g, w, S)
<1> DEFINE Upto(g, n) == \A s \in SUBSET S : Cardinality(s) <= n => g[s] = Added(g, w, s)
           P == {n \in Nat : \E g : g = [s \in SUBSET S |-> g[s]] /\ Upto(g, n)}
<1>1. \A s \in SUBSET S : Cardinality(s) \in Nat /\ Cardinality(s) <= Cardinality(S)
  BY FS_Subset, FS_CardinalityType
<1>2. 0 \in P
  <2> DEFINE g == [s \in SUBSET S |-> 0]
  <2>1. ASSUME NEW s \in SUBSET S, Cardinality(s) <= 0 PROVE g[s] = Added(g, w, s)
    <3>1. s = {}
      <4> HIDE DEF g
      <4>1. ASSUME s # {} PROVE FALSE
        <5>1. Cardinality(s) \in Nat \ {0}
          BY <4>1, OneLess
        <5> QED
          BY <2>1, <5>1
      <4> QED
        BY <4>1
    <3> QED
      BY <3>1 DEF Added
  <2>2. g = [s \in SUBSET S |-> g[s]]
    OBVIOUS
  <2> QED
    BY <2>1, <2>2
<1>3. ASSUME NEW n \in Nat, n \in P PROVE n + 1 \in P
  <2>1. PICK g : g = [s \in SUBSET S |-> g[s]] /\ Upto(g, n)
    BY <1>3
  <2> DEFINE h == [s \in SUBSET S |-> IF Cardinality(s) <= n THEN g[s] ELSE Added(g, w, s)]
  <2>2. ASSUME NEW s \in SUBSET S, Cardinality(s) <= n + 1 PROVE h[s] = Added(h, w, s)
    <3>1. h[s] = Added(g, w, s)
      BY <2>1
    <3>2. CASE s = {}
      BY <3>1, <3>2 DEF Added
    <3>3. CASE s # {}
      <4>1. s \ {AnyOf(s)} \in SUBSET S /\ Cardinality(s \ {AnyOf(s)}) <= n
        BY <1>1, <2>2, <3>3, OneLess
      <4>2. h[s \ {AnyOf(s)}] = g[s \ {AnyOf(s)}]
        BY <4>1
      <4> HIDE DEF h
      <4> QED
        BY <3>1, <3>3, <4>2 DEF Added
    <3> QED
      BY <3>2, <3>3
  <2>3. h = [s \in SUBSET S |-> h[s]]
    OBVIOUS
  <2> HIDE DEF h
  <2>4. Upto(h, n + 1)
    BY <2>2
  <2> HIDE DEF Upto
  <2> QED
    BY <2>3, <2>4
<1>4. Cardinality(S) \in P
  <2> HIDE DEF P
  <2> QED
    BY <1>2, <1>3, AllNaturals, FS_CardinalityType
<1>5. PICK g : g = [s \in SUBSET S |-> g[s]] /\ Upto(g, Cardinality(S))
  BY <1>4
<1>6. \A s \in SUBSET S : g[s] = Added(g, w, s)
  BY <1>1, <1>5
<1>7. g = [s \in SUBSET S |-> Added(g, w, s)]
  BY <1>5, <1>6
<1> QED
  BY <1>7 DEF Sums

\* Sums of naturals are naturals.
LEMMA SumsNatural ==
  ASSUME NEW S, IsFiniteSet(S), NEW w, \A x \in S : w[x] \in Nat, NEW g, Sums(g, w, S)
  PROVE  g[S] \in Nat
<1> DEFINE P == {n \in Nat : \A s \in SUBSET S : Cardinality(s) = n => g[s] \in Nat}
<1>1. \A s \in SUBSET S : g[s] = Added(g, w, s)
  BY DEF Sums
<1>2. 0 \in P
  <2>1. ASSUME NEW s \in SUBSET S, Cardinality(s) = 0 PROVE g[s] \in Nat
    <3>1. s = {}
      BY <2>1, OneLess
    <3> QED
      BY <1>1, <3>1 DEF Added
  <2> QED
    BY <2>1
<1>3. ASSUME NEW n \in Nat, n \in P PROVE n + 1 \in P
  <2>1. ASSUME NEW s \in SUBSET S, Cardinality(s) = n + 1 PROVE g[s] \in Nat
    <3>1. s # {}
      BY <2>1, FS_EmptySet
    <3>2. /\ AnyOf(s) \in S /\ s \ {AnyOf(s)} \in SUBSET S
          /\ Cardinality(s \ {AnyOf(s)}) = n
      BY <2>1, <3>1, OneLess
    <3>3. g[s \ {AnyOf(s)}] \in Nat /\ w[AnyOf(s)] \in Nat
      BY <1>3, <3>2
    <3>4. g[s] = w[AnyOf(s)] + g[s \ {AnyOf(s)}]
      BY <1>1, <3>1 DEF Added
    <3> QED
      BY <3>3, <3>4
  <2> QED
    BY <2>1
<1>4. Cardinality(S) \in P
  <2> HIDE DEF P
  <2> QED
    BY <1>2, <1>3, AllNaturals, FS_CardinalityType
<1> QED
  BY <1>4

\* The ratings the formula is applied to.
RatingsTyped(r) ==
    /\ IsFiniteSet(DOMAIN r)
    /\ \A x \in DOMAIN r : r[x].weight \in Nat /\ r[x].score \in 1 .. 100

\* The weights of finitely many rows have a sum.
LEMMA TotalNatural ==
  ASSUME NEW r, RatingsTyped(r)
  PROVE  TotalWeight(r) \in Nat
<1> DEFINE w == [x \in DOMAIN r |-> r[x].weight]
           S == DOMAIN r
           Eqn(g) == g = [s \in SUBSET S |-> IF s = {} THEN 0
                            ELSE LET x == CHOOSE x \in s : TRUE IN r[x].weight + g[s \ {x}]]
<1>1. \A g : Eqn(g) <=> Sums(g, w, S)
  <2> SUFFICES ASSUME NEW g PROVE Eqn(g) <=> Sums(g, w, S)
    OBVIOUS
  <2>1. \A s \in SUBSET S : Added(g, w, s) = IF s = {} THEN 0
                            ELSE LET x == CHOOSE x \in s : TRUE IN r[x].weight + g[s \ {x}]
    BY DEF Added, AnyOf
  <2> QED
    BY <2>1 DEF Sums
<1>2. \A x \in S : w[x] \in Nat
  BY DEF RatingsTyped
<1>3. TotalWeight(r) = (CHOOSE g : Eqn(g))[S]
  BY DEF TotalWeight, MapThenSumSet, MapThenFoldSet
<1> DEFINE c == CHOOSE g : Eqn(g)
<1> HIDE DEF w
<1>4. Eqn(c)
  <2>1. \E g : Sums(g, w, S)
    BY SumsExist DEF RatingsTyped
  <2> HIDE DEF Eqn
  <2>2. \E g : Eqn(g)
    BY <1>1, <2>1
  <2> QED
    BY <2>2
<1>5. Sums(c, w, S)
  BY <1>1, <1>4
<1> HIDE DEF c
<1>6. c[S] \in Nat
  BY <1>2, <1>5, SumsNatural DEF RatingsTyped
<1> QED
  BY <1>3, <1>6 DEF c

\* So have their weighted scores.
LEMMA WeightedNatural ==
  ASSUME NEW r, RatingsTyped(r)
  PROVE  WeightedSum(r) \in Nat
<1> DEFINE w == [x \in DOMAIN r |-> r[x].weight * r[x].score]
           S == DOMAIN r
           Eqn(g) == g = [s \in SUBSET S |-> IF s = {} THEN 0
                            ELSE LET x == CHOOSE x \in s : TRUE IN r[x].weight * r[x].score + g[s \ {x}]]
<1>1. \A g : Eqn(g) <=> Sums(g, w, S)
  <2> SUFFICES ASSUME NEW g PROVE Eqn(g) <=> Sums(g, w, S)
    OBVIOUS
  <2>1. \A s \in SUBSET S : Added(g, w, s) = IF s = {} THEN 0
                            ELSE LET x == CHOOSE x \in s : TRUE IN r[x].weight * r[x].score + g[s \ {x}]
    BY DEF Added, AnyOf
  <2> QED
    BY <2>1 DEF Sums
<1>2. \A x \in S : w[x] \in Nat
  <2> TAKE x \in S
  <2>1. r[x].weight \in Nat /\ r[x].score \in Nat
    BY DEF RatingsTyped
  <2> QED
    BY <2>1
<1>3. WeightedSum(r) = (CHOOSE g : Eqn(g))[S]
  BY DEF WeightedSum, MapThenSumSet, MapThenFoldSet
<1> DEFINE c == CHOOSE g : Eqn(g)
<1> HIDE DEF w
<1>4. Eqn(c)
  <2>1. \E g : Sums(g, w, S)
    BY SumsExist DEF RatingsTyped
  <2> HIDE DEF Eqn
  <2>2. \E g : Eqn(g)
    BY <1>1, <2>1
  <2> QED
    BY <2>2
<1>5. Sums(c, w, S)
  BY <1>1, <1>4
<1> HIDE DEF c
<1>6. c[S] \in Nat
  BY <1>2, <1>5, SumsNatural DEF RatingsTyped
<1> QED
  BY <1>3, <1>6 DEF c

\* Both versions of the formula give a score between 1 and 100, or none.
LEMMA AverageInRange ==
  ASSUME NEW r, RatingsTyped(r)
  PROVE  ComputeOverallHealth(r) \in Maybe(1 .. 100) /\ CsmOverall(r) \in Maybe(1 .. 100)
<1>1. \A n \in Int : ClampScore(n) \in 1 .. 100
  BY DEF ClampScore
<1>2. ASSUME NEW n \in Nat, NEW d \in Nat, d # 0
      PROVE  RoundHalfEven(n, d) \in Int /\ RoundHalfUp(n, d) \in Int
  <2>1. n \div d \in Int /\ (2 * n + d) \div (2 * d) \in Int
    BY <1>2
  <2> QED
    BY <2>1 DEF RoundHalfEven, RoundHalfUp
<1>3. TotalWeight(r) \in Nat /\ WeightedSum(r) \in Nat
  BY TotalNatural, WeightedNatural
<1> QED
  BY <1>1, <1>2, <1>3 DEF ComputeOverallHealth, CsmOverall, Maybe

\* The rows that are active in a table are finitely many, each with its weight.
LEMMA RatingsOf ==
  ASSUME NEW table \in [Dims -> Seq(ScoreRow)]
  PROVE  RatingsTyped(Ratings(table))
<1>1. IsFiniteSet(Dims)
  <2> DEFINE D1 == {"email"}
             D2 == D1 \cup {"sentiment"}
             D3 == D2 \cup {"product_usage"}
  <2>1. Dims = D3 \cup {"csm_score"}
    BY DEF Dims
  <2>2. IsFiniteSet(D1)
    BY FS_Singleton
  <2> HIDE DEF D1
  <2>3. IsFiniteSet(D2)
    BY <2>2, FS_AddElement
  <2> HIDE DEF D2
  <2>4. IsFiniteSet(D3)
    BY <2>3, FS_AddElement
  <2> HIDE DEF D3
  <2> QED
    BY <2>1, <2>4, FS_AddElement
<1>2. IsFiniteSet(ActiveScores(table))
  <2> DEFINE long == Len(table["email"]) + Len(table["sentiment"])
                       + Len(table["product_usage"]) + Len(table["csm_score"])
  <2>1. \A d \in Dims : Len(table[d]) \in Nat /\ DOMAIN table[d] = 1 .. Len(table[d])
    OBVIOUS
  <2>2. long \in Nat /\ \A d \in Dims : Len(table[d]) <= long
    BY <2>1 DEF Dims
  <2> HIDE DEF long
  <2>3. \A d \in Dims : ActiveRows(table[d]) \subseteq 1 .. long
    BY <2>1, <2>2 DEF ActiveRows
  <2>4. ActiveScores(table) \in SUBSET (Dims \X (1 .. long))
    BY <2>3 DEF ActiveScores
  <2>5. IsFiniteSet(1 .. long)
    BY <2>2, FS_Interval
  <2>6. IsFiniteSet(Dims \X (1 .. long))
    BY <1>1, <2>5, FS_Product
  <2> QED
    BY <2>4, <2>6, FS_Subset
<1> DEFINE r == Ratings(table)
<1>3. DOMAIN r \subseteq ActiveScores(table)
  BY DEF Ratings
<1>4. ASSUME NEW x \in DOMAIN r
      PROVE  r[x].weight \in Nat /\ r[x].score \in 1 .. 100
  <2>1. /\ r[x].weight = Weight[x[1]]
        /\ r[x].score = table[x[1]][x[2]].score
    BY DEF Ratings
  <2>2. x[1] \in Dims /\ x[2] \in DOMAIN table[x[1]]
    BY <1>3 DEF ActiveScores, ActiveRows
  <2>3. table[x[1]][x[2]] \in ScoreRow
    BY <2>2
  <2> QED
    BY <2>1, <2>2, <2>3, HealthAssumption DEF ScoreRow
<1> QED
  BY <1>2, <1>3, <1>4, FS_Subset DEF RatingsTyped

-----------------------------------------------------------------------------
(* Every average is in range, wherever it is kept. *)

Averaged ==
    /\ overall \in Maybe(1 .. 100)
    /\ \A w \in Workers : scorer[w].overall \in Maybe(1 .. 100)
    /\ \A i \in DOMAIN snapshots : snapshots[i].overall \in Maybe(1 .. 100)
    /\ runs \in Nat /\ faults \in Nat

\* Typed and in range is what TypeOK says.
LEMMA TypedAveraged == Typed /\ Averaged => TypeOK
<1> SUFFICES ASSUME Typed, Averaged PROVE TypeOK
  OBVIOUS
<1>1. scorer \in [Workers -> ScorerWith(Maybe(1 .. 100))]
  <2>1. PICK S : scorer \in [Workers -> ScorerWith(S)]
    BY DEF Typed, WorkersLeaveCsm
  <2>2. \A w \in Workers : scorer[w] \in ScorerWith(Maybe(1 .. 100))
    BY <2>1 DEF ScorerWith, Averaged
  <2> QED
    BY <2>1, <2>2
<1>2. snapshots \in Seq(SnapshotRow)
  <2>1. PICK S : snapshots \in Seq(SnapshotWith(S))
    BY DEF Typed, SnapshotsTyped
  <2>2. \A i \in 1 .. Len(snapshots) : snapshots[i] \in SnapshotWith(S)
    BY <2>1
  <2>3. \A i \in 1 .. Len(snapshots) : snapshots[i] \in SnapshotRow
    BY <2>1, <2>2 DEF SnapshotWith, SnapshotRow, Averaged
  <2> QED
    BY <2>1, <2>3
<1> QED
  BY <1>1, <1>2 DEF Typed, RowsTyped, SavesTyped, Averaged, TypeOK

\* Superseding snapshots changes no average.
LEMMA RetireAverages ==
  ASSUME Typed, Averaged, NEW t \in Nat, NEW ids
  PROVE  LET new == Retire(snapshots, ids, t) IN
         /\ new \in Seq(SnapshotWith(Maybe(1 .. 100)))
         /\ \A i \in DOMAIN new : new[i].overall \in Maybe(1 .. 100)
<1> DEFINE new == Retire(snapshots, ids, t)
<1>1. snapshots \in Seq(SnapshotWith(Maybe(1 .. 100)))
  BY TypedAveraged DEF TypeOK, SnapshotRow, SnapshotWith
<1>2. new \in Seq(SnapshotWith(Maybe(1 .. 100)))
  BY <1>1, RetireRows, TableRows
<1> HIDE DEF new
<1>3. \A i \in DOMAIN new : new[i] \in SnapshotWith(Maybe(1 .. 100))
  BY <1>2, SeqElements
<1> QED
  BY <1>2, <1>3 DEF new, SnapshotWith

\* So does adding one that is in range.
LEMMA AppendAverages ==
  ASSUME NEW rows \in Seq(SnapshotWith(Maybe(1 .. 100))), NEW v \in Maybe(1 .. 100), NEW t \in Nat
  PROVE  LET new == Append(rows, [overall |-> v, at |-> t, until |-> None]) IN
         \A i \in DOMAIN new : new[i].overall \in Maybe(1 .. 100)
<1> DEFINE row == [overall |-> v, at |-> t, until |-> None]
           new == Append(rows, row)
<1>1. row \in SnapshotWith(Maybe(1 .. 100)) /\ row.until = None
  BY DEF SnapshotWith, Maybe
<1> HIDE DEF row
<1>2. new \in Seq(SnapshotWith(Maybe(1 .. 100)))
  BY <1>1, AppendRow
<1> HIDE DEF new
<1>3. \A i \in DOMAIN new : new[i] \in SnapshotWith(Maybe(1 .. 100))
  BY <1>2, SeqElements
<1> QED
  BY <1>3 DEF new, row, SnapshotWith

\* A worker that goes on, or is written into, computes no average.
LEMMA OthersAveraged ==
  ASSUME Typed, Averaged, NEW w \in Workers,
         \/ \A x \in Workers \ {w} : scorer'[x] = scorer[x]
         \/ OthersNotAlone(w),
         scorer'[w].overall \in Maybe(1 .. 100)
  PROVE  \A x \in Workers : scorer'[x].overall \in Maybe(1 .. 100)
<1> SUFFICES ASSUME NEW x \in Workers \ {w} PROVE scorer'[x].overall \in Maybe(1 .. 100)
  OBVIOUS
<1>1. NotAlone[x].overall = scorer[x].overall
  <2>1. \E S : scorer[x] \in ScorerWith(S)
    BY WorkerFields
  <2> QED
    BY <2>1 DEF NotAlone, ScorerWith
<1> QED
  BY <1>1 DEF Averaged, OthersNotAlone

\* No average leaves its range.
LEMMA AveragedStep ==
  ASSUME Typed, Averaged, [Next]_vars
  PROVE  Averaged'
<1>0. Typed'
  BY TypedStep
<1>1. ASSUME NEW w \in Workers, StartGeneration(w)
      PROVE  Averaged'
  <2>1. PICK S : scorer[w] \in ScorerWith(S)
    BY WorkerFields
  <2>2. scorer'[w].overall = scorer[w].overall
    BY <1>1, <2>1 DEF StartGeneration, Typed, WorkersLeaveCsm, ScorerWith
  <2>3. \A x \in Workers \ {w} : scorer'[x] = scorer[x]
    BY <1>1, StartMove
  <2>4. scorer[w].overall \in Maybe(1 .. 100)
    BY DEF Averaged
  <2>5. \A x \in Workers : scorer'[x].overall \in Maybe(1 .. 100)
    BY <2>2, <2>3, <2>4, OthersAveraged
  <2>6. UNCHANGED <<overall, snapshots, faults>> /\ runs' = runs + 1
    BY <1>1 DEF StartGeneration
  <2> QED
    BY <2>5, <2>6 DEF Averaged
<1>2. ASSUME NEW w \in Workers, BeginScoring(w)
      PROVE  Averaged'
  <2>1. PICK S : scorer[w] \in ScorerWith(S)
    BY WorkerFields
  <2>2. scorer'[w].overall \in {scorer[w].overall, None}
    BY <1>2, <2>1 DEF BeginScoring, Typed, WorkersLeaveCsm, ScorerWith, IdleScorer
  <2>3. \A x \in Workers \ {w} : scorer'[x] = scorer[x]
    BY <1>2, BeginMove
  <2>4. scorer'[w].overall \in Maybe(1 .. 100)
    BY <2>2 DEF Averaged, Maybe
  <2>5. \A x \in Workers : scorer'[x].overall \in Maybe(1 .. 100)
    BY <2>3, <2>4, OthersAveraged
  <2>6. UNCHANGED <<overall, snapshots, runs, faults>>
    BY <1>2 DEF BeginScoring
  <2> QED
    BY <2>5, <2>6 DEF Averaged
<1>3. ASSUME NEW w \in Workers, SupersedeScore(w) \/ InsertScore(w)
      PROVE  Averaged'
  <2>1. /\ scorer'[w].overall = scorer[w].overall
        /\ OthersNotAlone(w)
    BY <1>3, SupersedeScoreMove, InsertScoreMove DEF Goes
  <2>2. scorer[w].overall \in Maybe(1 .. 100)
    BY DEF Averaged
  <2>3. \A x \in Workers : scorer'[x].overall \in Maybe(1 .. 100)
    BY <2>1, <2>2, OthersAveraged
  <2>4. UNCHANGED <<overall, snapshots, runs, faults>>
    BY <1>3 DEF SupersedeScore, InsertScore
  <2> QED
    BY <2>3, <2>4 DEF Averaged
<1>4. ASSUME NEW w \in Workers, ReadScores(w)
      PROVE  Averaged'
  <2>1. /\ scorer'[w].overall = ComputeOverallHealth(Ratings(scores))
        /\ \A x \in Workers \ {w} : scorer'[x] = scorer[x]
    BY <1>4, ReadScoresMove DEF Goes
  <2>2. scorer'[w].overall \in Maybe(1 .. 100)
    BY <2>1, RatingsOf, AverageInRange DEF Typed, RowsTyped
  <2>3. \A x \in Workers : scorer'[x].overall \in Maybe(1 .. 100)
    BY <2>1, <2>2, OthersAveraged
  <2>4. UNCHANGED <<overall, snapshots, runs, faults>>
    BY <1>4 DEF ReadScores
  <2> QED
    BY <2>3, <2>4 DEF Averaged
<1>5. ASSUME NEW w \in Workers, SupersedeSnapshot(w)
      PROVE  Averaged'
  <2>1. scorer'[w].overall = scorer[w].overall /\ OthersNotAlone(w)
    BY <1>5, SupersedeSnapshotMove DEF Goes
  <2>2. scorer[w].overall \in Maybe(1 .. 100) /\ scorer[w].at \in Nat
    BY WorkerFields DEF Averaged
  <2>3. \A x \in Workers : scorer'[x].overall \in Maybe(1 .. 100)
    BY <2>1, <2>2, OthersAveraged
  <2>4. /\ UNCHANGED <<overall, runs, faults>>
        /\ snapshots' = Retire(snapshots, DOMAIN snapshots, scorer[w].at)
    BY <1>5 DEF SupersedeSnapshot
  <2>5. \A i \in DOMAIN snapshots' : snapshots'[i].overall \in Maybe(1 .. 100)
    BY <2>2, <2>4, RetireAverages
  <2> QED
    BY <2>3, <2>4, <2>5 DEF Averaged
<1>6. ASSUME NEW w \in Workers, InsertSnapshot(w)
      PROVE  Averaged'
  <2>1. scorer'[w].overall = scorer[w].overall /\ OthersNotAlone(w)
    BY <1>6, InsertSnapshotMove DEF Goes
  <2>2. scorer[w].overall \in Maybe(1 .. 100) /\ scorer[w].at \in Nat
    BY WorkerFields DEF Averaged
  <2>3. \A x \in Workers : scorer'[x].overall \in Maybe(1 .. 100)
    BY <2>1, <2>2, OthersAveraged
  <2>4. /\ UNCHANGED <<overall, runs, faults>>
        /\ snapshots' = Append(snapshots, [overall |-> scorer[w].overall,
                                           at |-> scorer[w].at, until |-> None])
    BY <1>6 DEF InsertSnapshot
  <2>5. snapshots \in Seq(SnapshotWith(Maybe(1 .. 100)))
    BY TypedAveraged DEF TypeOK, SnapshotRow, SnapshotWith
  <2>6. \A i \in DOMAIN snapshots' : snapshots'[i].overall \in Maybe(1 .. 100)
    BY <2>2, <2>4, <2>5, AppendAverages
  <2> QED
    BY <2>3, <2>4, <2>6 DEF Averaged
<1>7. ASSUME NEW w \in Workers, UpdateOverall(w) \/ Abandon(w)
      PROVE  Averaged'
  <2>1. /\ UNCHANGED <<snapshots, runs>>
        /\ overall' \in {overall, scorer[w].overall}
        /\ faults' \in {faults, faults + 1}
        /\ scorer' = WriteAs(w, IdleScorer) \/ scorer' = MoveAs(w, IdleScorer)
    BY <1>7 DEF UpdateOverall, Abandon, MoveAs
  <2>2. scorer'[w] = IdleScorer
    BY <2>1 DEF WriteAs, MoveAs, NotAlone, Typed, WorkersLeaveCsm
  <2>3. \/ \A x \in Workers \ {w} : scorer'[x] = scorer[x]
        \/ OthersNotAlone(w)
    BY <2>1, IdleMove DEF OthersNotAlone
  <2>4. scorer'[w].overall \in Maybe(1 .. 100)
    BY <2>2 DEF IdleScorer, Maybe
  <2>5. \A x \in Workers : scorer'[x].overall \in Maybe(1 .. 100)
    BY <2>3, <2>4, OthersAveraged
  <2> QED
    BY <2>1, <2>5 DEF Averaged
<1>8. ASSUME NEW u \in Users, CommitSave(u)
      PROVE  Averaged'
  <2>1. scorer' = NotAlone /\ overall' = CsmOverall(Ratings(scores')) /\ UNCHANGED <<runs, faults>>
    BY <1>8 DEF CommitSave
  <2>2. \A x \in Workers : scorer'[x].overall \in Maybe(1 .. 100)
    <3> TAKE x \in Workers
    <3>1. \E S : scorer[x] \in ScorerWith(S)
      BY WorkerFields
    <3>2. NotAlone[x].overall = scorer[x].overall
      BY <3>1 DEF NotAlone, ScorerWith
    <3> QED
      BY <2>1, <3>2 DEF Averaged
  <2>3. overall' \in Maybe(1 .. 100)
    <3>1. scores' \in [Dims -> Seq(ScoreRow)]
      BY <1>0 DEF Typed, RowsTyped
    <3> QED
      BY <2>1, <3>1, RatingsOf, AverageInRange
  <2>4. save[u].at \in Nat
    BY <1>8 DEF Typed, SavesTyped, Save
  <2> DEFINE old == Retire(snapshots, DOMAIN snapshots, save[u].at)
  <2>5. snapshots' = Append(old, [overall |-> overall', at |-> save[u].at, until |-> None])
    BY <1>8 DEF CommitSave
  <2>6. old \in Seq(SnapshotWith(Maybe(1 .. 100)))
    BY <2>4, RetireAverages
  <2> HIDE DEF old
  <2>7. \A i \in DOMAIN snapshots' : snapshots'[i].overall \in Maybe(1 .. 100)
    BY <2>3, <2>4, <2>5, <2>6, AppendAverages
  <2> QED
    BY <2>1, <2>2, <2>3, <2>7 DEF Averaged
<1>9. ASSUME \/ \E u \in Users : OpenSave(u) \/ RollBackSave(u)
             \/ Tick \/ UNCHANGED vars
      PROVE  Averaged'
  <2>1. UNCHANGED <<overall, scorer, snapshots, runs>> /\ faults' \in {faults, faults + 1}
    BY <1>9 DEF OpenSave, RollBackSave, Tick, vars
  <2> QED
    BY <2>1 DEF Averaged
<1> QED
  BY <1>1, <1>2, <1>3, <1>4, <1>5, <1>6, <1>7, <1>8, <1>9 DEF Next, Score

\* The state has its type: whatever duplicates and gaps races and failures leave
\* among the rows, the average kept of them is a score between 1 and 100, or none.
THEOREM HealthTyped == Spec => []TypeOK
<1>1. Init => Typed /\ Averaged
  BY TypedInit DEF Init, Averaged, Maybe, IdleScorer
<1>2. Typed /\ Averaged /\ [Next]_vars => (Typed /\ Averaged)'
  BY TypedStep, AveragedStep
<1>3. Typed /\ Averaged => TypeOK
  BY TypedAveraged
<1> QED
  BY <1>1, <1>2, <1>3, PTL DEF Spec
=============================================================================
