--------------------------- MODULE HealthScoring ---------------------------
(***************************************************************************)
(* The health scores of one account: the append-only rows of               *)
(* account_dimension_scores and account_health_snapshots, and the cached   *)
(* accounts.overall_health_score.                                          *)
(*                                                                         *)
(* Two writers meet.  A worker that has just inserted a narrative runs     *)
(* _score_and_snapshot (src/pipeline/generator.py), one round trip after   *)
(* another.  A customer success manager saves a score through the database *)
(* function set_csm_score, one READ COMMITTED transaction: what its first  *)
(* UPDATE sees is fixed before what it writes becomes visible.  Neither    *)
(* table has a unique index on its active rows.                            *)
(*                                                                         *)
(* The rows of different accounts never meet, so one account is enough;    *)
(* the workspace's dimension rows change only by migration and are         *)
(* constants here.                                                         *)
(***************************************************************************)
EXTENDS OverallHealth, Sequences, FiniteSets

CONSTANTS
    Workers,        \* workers that may be generating for the account
    Users,          \* customer success managers with the account page open
    Weight,         \* weight of each configured dimension, in hundredths
    Enabled,        \* the enabled dimensions
    EmailSource,    \* email_score_source of the email dimension
    Readings,       \* what narratives and their signals can say (bound)
    UserScores,     \* the CSM scores a user enters (bound)
    MaxTime,        \* bound on the clock
    MaxRuns,        \* bound on narrative generations
    MaxSaves,       \* bound on saved CSM scores
    MaxFaults       \* bound on crashes and failed calls

Dims == {"email", "sentiment", "product_usage", "csm_score"}

Maybe(S) == S \cup {None}

\* The inputs of one scoring run: engagement and sentiment of the narrative, the
\* product usage score of the signals.
Reading == [engagement : 1 .. 100, sentiment : Maybe(1 .. 100),
            usage : Maybe(1 .. 100)]

ASSUME HealthAssumption ==
    /\ Weight \in [Dims -> Nat]
    /\ Enabled \subseteq Dims
    /\ EmailSource \in {"engagement", "sentiment", "composite", "unknown"}
    /\ Readings \subseteq Reading
    /\ UserScores \subseteq 1 .. 100
    /\ {MaxTime, MaxRuns, MaxSaves, MaxFaults} \subseteq Nat
    /\ None \notin Nat

VARIABLES
    now,            \* the clock
    scores,         \* scores[d]: the rows of dimension d, in insertion order
    snapshots,      \* the account_health_snapshots rows, in insertion order
    overall,        \* accounts.overall_health_score
    scorer,         \* where each worker is
    save,           \* where each user's set_csm_score call is
    runs,           \* narrative generations started
    faults,         \* faults injected so far
    lastSaved       \* history: the CSM row of the last save committed, 0 if none

vars == <<now, scores, snapshots, overall, scorer, save, runs, faults, lastSaved>>

ScoreRow == [score : 1 .. 100, at : Nat, until : Maybe(Nat)]
SnapshotRow == [overall : Maybe(1 .. 100), at : Nat, until : Maybe(Nat)]

\* plan: the dimension scores this run writes, in order; step: the one it is at.
\* alone: no one else has written a row since the scoring began (history).
ScorerWith(Overalls) ==
          [pc : {"idle", "generate", "supersede", "insert", "read", "retire",
                 "snapshot", "cache"},
           at : Nat, plan : Seq([dim : Dims, score : 1 .. 100]), step : Nat,
           overall : Overalls, alone : BOOLEAN]

IdleScorer == [pc |-> "idle", at |-> 0, plan |-> <<>>, step |-> 0,
               overall |-> None, alone |-> TRUE]

\* visible: the active CSM rows in the snapshot of the first UPDATE.
Save == [pc : {"idle", "open"}, score : Maybe(1 .. 100), at : Nat,
         visible : SUBSET Nat]

NoSave == [pc |-> "idle", score |-> None, at |-> 0, visible |-> {}]

TypeOK ==
    /\ now \in Nat
    /\ scores \in [Dims -> Seq(ScoreRow)]
    /\ snapshots \in Seq(SnapshotRow)
    /\ overall \in Maybe(1 .. 100)
    /\ scorer \in [Workers -> ScorerWith(Maybe(1 .. 100))]
    /\ save \in [Users -> Save]
    /\ runs \in Nat
    /\ faults \in Nat
    /\ lastSaved \in Nat

Init ==
    /\ now = 0
    /\ scores = [d \in Dims |-> <<>>]
    /\ snapshots = <<>>
    /\ overall = None
    /\ scorer = [w \in Workers |-> IdleScorer]
    /\ save = [u \in Users |-> NoSave]
    /\ runs = 0
    /\ faults = 0
    /\ lastSaved = 0

-----------------------------------------------------------------------------
(* Rows. *)

ActiveRows(rows) == {i \in DOMAIN rows : rows[i].until = None}

\* Mutant: stamps the rows that were superseded long ago as well.
StampAll(rows, ids, t) ==
    [i \in DOMAIN rows |-> [rows[i] EXCEPT !.until = t]]

\* UPDATE ... SET superseded_at = t on the rows in ids still active.
Retire(rows, ids, t) ==
    [i \in DOMAIN rows |->
        IF i \in ids /\ rows[i].until = None
        THEN [rows[i] EXCEPT !.until = t]
        ELSE rows[i]]

ActiveScores(table) ==
    UNION {{<<d, i>> : i \in ActiveRows(table[d])} : d \in Dims}

\* The active rows of the enabled dimensions, as the formula sees them.
Ratings(table) ==
    [x \in {y \in ActiveScores(table) : y[1] \in Enabled} |->
        [weight |-> Weight[x[1]], score |-> table[x[1]][x[2]].score]]

\* A row was written: the workers no longer run alone.
NotAlone ==
    [x \in Workers |-> IF scorer[x].pc = "idle" THEN scorer[x]
                       ELSE [scorer[x] EXCEPT !.alone = FALSE]]

\* Worker w wrote it.
WriteAs(w, next) == [NotAlone EXCEPT ![w] = next]

-----------------------------------------------------------------------------
(* The worker: _score_and_snapshot. *)

\* The email score of a narrative, None where the code returns early.
EmailScore(r) ==
    CASE EmailSource = "engagement" -> r.engagement
      [] EmailSource = "sentiment" -> r.sentiment
      [] EmailSource = "composite" /\ r.sentiment # None ->
            ClampScore(RoundHalfEven(6 * r.engagement + 4 * r.sentiment, 10))
      [] OTHER -> None

\* Mutant: writes the configured dimensions that have no score as well.
PlanWithoutSkips(r) ==
    LET entry(d, s) == IF d \in Enabled THEN <<[dim |-> d, score |-> s]>> ELSE <<>>
    IN  entry("email", EmailScore(r)) \o entry("product_usage", r.usage)

\* The rows to write, in order; none at all without an email score.
Plan(r) ==
    LET entry(d, s) == IF d \in Enabled /\ s # None
                       THEN <<[dim |-> d, score |-> s]>> ELSE <<>>
        email == entry("email", EmailScore(r))
    IN  IF email = <<>> THEN <<>>
        ELSE email \o entry("sentiment", r.sentiment)
                   \o entry("product_usage", r.usage)

\* generate_narrative takes its time stamp, then asks the model.
StartGeneration(w) ==
    /\ scorer[w].pc = "idle"
    /\ runs < MaxRuns
    /\ runs' = runs + 1
    /\ scorer' = [scorer EXCEPT ![w].pc = "generate", ![w].at = now]
    /\ UNCHANGED <<now, scores, snapshots, overall, save, faults, lastSaved>>

\* The narrative is stored; its engagement, sentiment and the product usage of
\* its signals decide what will be written.
BeginScoring(w) ==
    /\ scorer[w].pc = "generate"
    /\ \E r \in Readings :
         scorer' = [scorer EXCEPT ![w] =
            IF Plan(r) = <<>> THEN IdleScorer
            ELSE [@ EXCEPT !.pc = "supersede", !.plan = Plan(r), !.step = 1,
                           !.alone = TRUE]]
    /\ UNCHANGED <<now, scores, snapshots, overall, save, runs, faults, lastSaved>>

Item(w) == scorer[w].plan[scorer[w].step]

\* Mutant: the update forgets to filter by dimension.
SupersedeEveryDimension(w) ==
    /\ scorer[w].pc = "supersede"
    /\ scores' = [d \in Dims |->
                    Retire(scores[d], DOMAIN scores[d], scorer[w].at)]
    /\ scorer' = WriteAs(w, [scorer[w] EXCEPT !.pc = "insert"])
    /\ UNCHANGED <<now, snapshots, overall, save, runs, faults, lastSaved>>

SupersedeScore(w) ==
    /\ scorer[w].pc = "supersede"
    /\ scores' = [scores EXCEPT ![Item(w).dim] =
                    Retire(@, DOMAIN @, scorer[w].at)]
    /\ scorer' = WriteAs(w, [scorer[w] EXCEPT !.pc = "insert"])
    /\ UNCHANGED <<now, snapshots, overall, save, runs, faults, lastSaved>>

InsertScore(w) ==
    /\ scorer[w].pc = "insert"
    /\ scores' = [scores EXCEPT ![Item(w).dim] =
                    Append(@, [score |-> Item(w).score, at |-> scorer[w].at,
                               until |-> None])]
    /\ scorer' = WriteAs(w,
            IF scorer[w].step = Len(scorer[w].plan)
            THEN [scorer[w] EXCEPT !.pc = "read"]
            ELSE [scorer[w] EXCEPT !.pc = "supersede", !.step = @ + 1])
    /\ UNCHANGED <<now, snapshots, overall, save, runs, faults, lastSaved>>

\* get_current_scores and compute_overall_health.
ReadScores(w) ==
    /\ scorer[w].pc = "read"
    /\ scorer' = [scorer EXCEPT
            ![w].pc = "retire",
            ![w].overall = ComputeOverallHealth(Ratings(scores))]
    /\ UNCHANGED <<now, scores, snapshots, overall, save, runs, faults, lastSaved>>

\* Mutant: supersedes the newest snapshot only.
SupersedeNewestSnapshot(w) ==
    /\ scorer[w].pc = "retire"
    /\ snapshots' = Retire(snapshots, {Len(snapshots)}, scorer[w].at)
    /\ scorer' = WriteAs(w, [scorer[w] EXCEPT !.pc = "snapshot"])
    /\ UNCHANGED <<now, scores, overall, save, runs, faults, lastSaved>>

SupersedeSnapshot(w) ==
    /\ scorer[w].pc = "retire"
    /\ snapshots' = Retire(snapshots, DOMAIN snapshots, scorer[w].at)
    /\ scorer' = WriteAs(w, [scorer[w] EXCEPT !.pc = "snapshot"])
    /\ UNCHANGED <<now, scores, overall, save, runs, faults, lastSaved>>

InsertSnapshot(w) ==
    /\ scorer[w].pc = "snapshot"
    /\ snapshots' = Append(snapshots, [overall |-> scorer[w].overall,
                                       at |-> scorer[w].at, until |-> None])
    /\ scorer' = WriteAs(w, [scorer[w] EXCEPT !.pc = "cache"])
    /\ UNCHANGED <<now, scores, overall, save, runs, faults, lastSaved>>

\* update_account_overall_health
UpdateOverall(w) ==
    /\ scorer[w].pc = "cache"
    /\ overall' = scorer[w].overall
    /\ scorer' = WriteAs(w, IdleScorer)
    /\ UNCHANGED <<now, scores, snapshots, save, runs, faults, lastSaved>>

\* A call raises or the process dies.  A failure while scoring is only logged:
\* what was written stays, the rest is never done.
Abandon(w) ==
    /\ scorer[w].pc # "idle"
    /\ faults < MaxFaults
    /\ faults' = faults + 1
    /\ scorer' = [scorer EXCEPT ![w] = IdleScorer]
    /\ UNCHANGED <<now, scores, snapshots, overall, save, runs, lastSaved>>

-----------------------------------------------------------------------------
(* The user: set_csm_score. *)

\* The transaction starts and its first UPDATE takes its snapshot.
OpenSave(u) ==
    /\ save[u].pc = "idle"
    /\ Len(scores["csm_score"]) < MaxSaves
    /\ \E s \in UserScores :
         save' = [save EXCEPT ![u] = [pc |-> "open", score |-> s, at |-> now,
                        visible |-> ActiveRows(scores["csm_score"])]]
    /\ UNCHANGED <<now, scores, snapshots, overall, scorer, runs, faults, lastSaved>>

\* The rest of the transaction, visible to others at its commit: rows that
\* another save superseded meanwhile are skipped, its new row is not seen.
CommitSave(u) ==
    /\ save[u].pc = "open"
    /\ scores' = [scores EXCEPT !["csm_score"] =
            Append(Retire(@, save[u].visible, save[u].at),
                   [score |-> save[u].score, at |-> save[u].at, until |-> None])]
    /\ overall' = CsmOverall(Ratings(scores'))
    /\ snapshots' = Append(Retire(snapshots, DOMAIN snapshots, save[u].at),
            [overall |-> overall', at |-> save[u].at, until |-> None])
    /\ scorer' = NotAlone
    /\ lastSaved' = Len(scores'["csm_score"])
    /\ save' = [save EXCEPT ![u] = NoSave]
    /\ UNCHANGED <<now, runs, faults>>

RollBackSave(u) ==
    /\ save[u].pc = "open"
    /\ faults < MaxFaults
    /\ faults' = faults + 1
    /\ save' = [save EXCEPT ![u] = NoSave]
    /\ UNCHANGED <<now, scores, snapshots, overall, scorer, runs, lastSaved>>

Tick ==
    /\ now < MaxTime
    /\ now' = now + 1
    /\ UNCHANGED <<scores, snapshots, overall, scorer, save, runs, faults, lastSaved>>

Score(w) == \/ BeginScoring(w)
            \/ SupersedeScore(w)
            \/ InsertScore(w)
            \/ ReadScores(w)
            \/ SupersedeSnapshot(w)
            \/ InsertSnapshot(w)
            \/ UpdateOverall(w)

Next ==
    \/ \E w \in Workers : StartGeneration(w) \/ Score(w) \/ Abandon(w)
    \/ \E u \in Users : OpenSave(u) \/ CommitSave(u) \/ RollBackSave(u)
    \/ Tick

Spec == Init /\ [][Next]_vars

-----------------------------------------------------------------------------
(* Properties. *)

\* The two versions of the formula, over the rows active in a table: Python's
\* and the database's may differ by one on a half.
Averages(table) == {ComputeOverallHealth(Ratings(table)), CsmOverall(Ratings(table))}

\* A scoring that nobody writes into ends with everything consistent, whatever
\* duplicates, gaps and stale values earlier races and failures have left: each
\* dimension it scored has one active row, its own; one snapshot is active; the
\* cached health is that snapshot's and the average of the active rows.  This
\* is the repair that a failed scoring counts on ("will retry on next regen").
Repairs(w) ==
    (UpdateOverall(w) /\ scorer[w].alone) =>
        /\ \A i \in DOMAIN scorer[w].plan :
             LET d == scorer[w].plan[i].dim
             IN  \E r \in DOMAIN scores[d] :
                    /\ ActiveRows(scores[d]) = {r}
                    /\ scores[d][r].score = scorer[w].plan[i].score
        /\ \E r \in DOMAIN snapshots :
             /\ ActiveRows(snapshots) = {r}
             /\ snapshots[r].overall = overall'
        /\ overall' \in Averages(scores)

ScoringRepairs == [][\A w \in Workers : Repairs(w)]_vars

\* One manager keeps the score of the account.
OneManager == \A u, v \in Users : u = v

\* With one manager at a time, the score last saved is the one active row of the
\* CSM dimension, however many workers score the account in the meantime.
CsmScoreStands ==
    ActiveRows(scores["csm_score"]) = {lastSaved} \ {0}

\* The inductive strengthening: what each writer holds in memory says which CSM
\* rows it may still touch.  A worker plans no CSM row; an open save still sees
\* the rows that are active, since no one else retires them.
RowsTyped ==
    /\ now \in Nat
    /\ scores \in [Dims -> Seq(ScoreRow)]
    /\ lastSaved \in Nat

WorkersLeaveCsm ==
    /\ \E Overalls : scorer \in [Workers -> ScorerWith(Overalls)]
    /\ \A w \in Workers :
         /\ \A i \in DOMAIN scorer[w].plan : scorer[w].plan[i].dim # "csm_score"
         /\ scorer[w].pc \in {"supersede", "insert"} =>
                scorer[w].step \in DOMAIN scorer[w].plan

SavesSeeActive ==
    /\ save \in [Users -> Save]
    /\ \A u \in Users : save[u].pc = "open" =>
         /\ save[u].score \in 1 .. 100
         /\ save[u].visible = ActiveRows(scores["csm_score"])

CsmInv == RowsTyped /\ WorkersLeaveCsm /\ SavesSeeActive /\ CsmScoreStands

\* History is append-only: no row leaves either table, none changes but to be
\* superseded, and a superseded row stays as it is.
Grows(old, new) ==
    \A i \in DOMAIN old :
        /\ i \in DOMAIN new
        /\ \/ new[i] = old[i]
           \/ /\ old[i].until = None
              /\ new[i] = [old[i] EXCEPT !.until = new[i].until]

HistoryKept ==
    [][/\ \A d \in Dims : Grows(scores[d], scores'[d])
       /\ Grows(snapshots, snapshots')]_vars

\* docs/architecture.md on overall_health_score: a cache of the weighted average
\* of the active scores, updated synchronously after each scoring event.
CacheIsCurrent ==
    (/\ \A w \in Workers : scorer[w].pc \in {"idle", "generate"}
     /\ \A u \in Users : save[u].pc = "idle") =>
        overall \in Averages(scores)
=============================================================================
