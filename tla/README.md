# Account Intelligence: formal models

This directory holds TLA+ models of the account-intelligence service, the TLC
configurations that check them on small instances and TLAPS proofs of what holds
for every instance. Paths below are relative to the repository root unless they
start with `tla/`.

- Check a model: `tlc -config MCRegenLane.cfg MCRegenLane` (the runs are listed below).
- Check a proof: `tlapm NarrativeRegenProofs.tla` (eight modules named `...Proofs`).
- `PROJECT.json` maps each definition to the source lines it models and lists the
  runs, mutants, findings, hazards and theorems.

## The system

The service collects what customers say to a company (e-mail, product events,
tickets, meeting notes), assigns each item to an account, and keeps for every
account a written narrative, a set of health scores and an outreach draft. The
server is stateless and runs as several instances; all state is in Postgres,
reached through PostgREST. **A single statement or database function is atomic and
nothing groups several of them.** Almost every hard behaviour of the code comes from that
sentence, so it is the grain of every model: one action per round trip.

| Component | State | Operations | Talks to |
|---|---|---|---|
| Regeneration queue (`src/db/regen_jobs.py`, `src/pipeline/scheduler.py`) | `narrative_regen_jobs` | enqueue with debounce and rate cap, fetch due, set status, recover stale | called by every ingestion path; drained by workers |
| Workers (`src/server/routes/scheduler.py`, `src/worker.py`) | none of their own | 15-minute tick, CLI drain | queue, generator |
| Generator (`src/pipeline/generator.py`) | `narratives`, `accounts.last_narrative_generated_at` | read signals, ask the model, supersede, insert, stamp, score | signals, health tables |
| Health (`generator.py`, `src/pipeline/health.py`, SQL `set_csm_score`) | `account_dimension_scores`, `account_health_snapshots`, `accounts.overall_health_score` | score after a narrative; manual CSM score | generator, frontend |
| Outreach (`src/server/routes/outreach.py`, `src/db/outreach_drafts.py`, `OutreachTab.tsx`) | `outreach_drafts`, one outbound signal, the tab's own state | template, autosave, send | SendGrid, frontend, signals |
| E-mail ingestion (`routes/inbound.py`, `pipeline/run.py`, `normalizer.py`, `router.py`) | `raw_inbound_events`, `signals`, candidate `accounts`, `contacts` | insert event, normalize, route, discover a candidate, schedule | queue |
| Product events and tickets (`routes/event.py`, `routes/signal.py`, `structured_signal.py`, `product_event.py`) | `signals`, `contacts` | authenticate, admit, normalize each item, insert once, schedule | limiter, queue |
| Granola poller (`integrations/granola/`, `db/integration_state.py`, `routes/polls.py`) | cursor, error counter, credential status | poll, advance, count errors, deactivate | the same normalizer, queue |
| Candidates (`CandidateSidebar.tsx`, RPCs of migration 000027) | `accounts.status`, `deleted_at` | discover, activate, dismiss | ingestion, queue |
| Rate limiter, API keys (`server/rate_limit.py`, `db/api_keys.py`) | per-process windows | admit, refuse | `/event` |
| History simulator (`src/simulator`, `src/synthetic/orchestrator.py`, `scripts/simulate_history.py`) | a spec file, generated signals, backdated narratives | author, bootstrap, run, resume, revert | ingestion, generator, audit |
| Narrative audit (`scripts/audit_narratives.py`) | `narrative_audits`, `narrative_audit_runs` | audit one narrative, audit all, exit code | generator's rows |
| Access, frontend pages, analytics, configuration | policies, views, telemetry, constants | - | - |

What makes each hard, and what must hold:

- **Queue and workers.** Handlers enqueue concurrently with check-then-insert; ticks
  can overlap (the cron schedule spaces them, no code excludes it); a worker dies and
  its job stays RUNNING; a signal may arrive after the worker's read but be debounced
  against the job the worker is running. *No signal may be lost that way; a job is
  DONE only if its signals were read; one narrative is active; nothing is stuck.*
- **Health.** Workers and managers write the same two append-only tables and one
  cache, with no lock and no unique index. *The manager's score must stand, history
  must only grow, and whatever a race or a failure left is repaired by the next
  undisturbed scoring.*
- **Outreach.** Autosave and Send go to different hosts in no order; the mail cannot
  be taken back when a later step fails. *What is shown as sent was mailed, the signal
  records what was mailed, one send at a time, every click is answered.*
- **Ingestion.** Redelivered mail, a crash between the steps of a pipeline, accounts
  read once and used later. *Each message becomes one signal, each routed signal a
  trigger, and discovery does not overwrite what a manager decided.*
- **Events and tickets.** One request holds many items, each stored by calls that fail
  alone; vendors repeat a request on other processes; keys are revoked and the limiter forgets
  meanwhile. *What was answered as accepted is stored, and what is stored asks for one
  regeneration, unless a failure came in between.*
- **Poller.** A cursor that moves after the batch, an error counter read before and
  used after, two runs over one credential. *Nothing is skipped; an integration that works
  is not switched off.*
- **Simulator and audit.** A run of hours that may stop anywhere, is repeated, and is undone by a
  revert, with three stores that no transaction joins: the file, the signals, the
  narratives. *What the file says is done is there; what is there has an entry; a green audit has
  looked at every narrative.*

## Modules

| Module | Models |
|---|---|
| `NarrativeRegen` | handlers that enqueue, ticks that drain, generation of narratives |
| `NarrativePromise` | what a reader is promised: coverage grows, what was settled stays so |
| `NarrativeRegenProofs` | that `NarrativeRegen` implements `NarrativePromise`, and proofs about its histories: order of rows, one active row, the cap |
| `OverallHealth` | the weighted average, in Python's rounding and in Postgres's |
| `HealthScoring` | scoring after a narrative against `set_csm_score` |
| `HealthScoringProofs` | that averages stay scores, history is append-only, a saved score stands and a scoring left alone repairs |
| `OutreachDrafts` | tabs, autosaves and the two outreach handlers |
| `OutreachDraftsProofs` | that what is shown as sent was mailed, and one send per tab |
| `Routing` | the six-stage router, as sets of possible decisions |
| `Ingestion` | deliveries of e-mail through `process_event`; confirming and dismissing candidates |
| `IngestionProofs` | that `Ingestion` is well-typed, what is answered has been routed and triggered, and links stay |
| `Adapters` | what each route and vendor adapter makes of a request: flaws, items, people |
| `SignalNormalizer` | `normalize_structured_signal` and the tables it writes, for any caller |
| `RateLimiter` | the sliding window of `/event` |
| `RateLimiterProofs` | the bound of that window |
| `PushIntake` | `/event` and `/signal/{vendor}` from the first check to the answer, and their senders |
| `GranolaPoll` | `/run-polls`: pages, notes, cursor, error counter |
| `StructuredIntake` | the three sources composed over one set of tables |
| `StructuredIntakeProofs`, `GranolaPollProofs` | proofs about the composition |
| `Trajectory` | the simulator's pure part: entries, curves, the events of a week, proposals |
| `NarrativeAudit` | one audit of one narrative, with its rows and its compensation |
| `Simulator` | the commands of `simulate_history.py` and `audit_narratives.py` over their tables |
| `SimulatorProofs` | all safety properties of the simulator and its audits |
| `MC...` | instances for TLC |

### NarrativeRegen

`jobs` is the job table (`status`, `account`, `scheduled`, `updated`), `narratives[a]`
the rows of account *a* in insertion order, `arrived[a]` the number of its signals
visible to `get_signals_for_account`. A narrative's text is abstracted to `covers`,
the number of signals its generation read. `upto` of a job is a history variable: the
number of signals that were there when the job last answered for a trigger.

- `SignalLands`, `CaptureNow`, `DebounceCheck`, `CapCheck`, `InsertJob`:
  `schedule_regen` and the four parts of `enqueue_regen_job`, `now` captured once and
  used in all of them, as in the code. `ManualRegenerate` is the RPC behind the
  Regenerate button, as the migrations leave it.
- `StartTick` (`recover_stale_jobs`), `FetchJobs`, `LoadAccounts`, `NextJob`,
  `ReadSignals`, `BeginGeneration`, `ModelAnswers`, `Supersede`, `InsertNarrative`,
  `ResolveConflict`, `StampAccount`, `FinishJob`, `FailJob`, `EndTick`: one tick, statement by
  statement. The unique index on active narratives is the guard of `InsertNarrative`,
  with the conflict branch beside it.
- `CallRaises`, `WorkerCrash`, `IngestCrash`: failures, each counted in `faults`. An answer of
  the model without the `narrative` key is a fault too.
- `Tick` advances the clock. It stops at `MaxTime` only when nothing waits for it,
  so liveness is not cut off by the bound.

`Overlap` says whether a tick may start while another drains. Cloud Scheduler fires
every 15 minutes and a tick is normally over by then; nothing in the code enforces it,
so the properties that need it say so, and `MCRegenBurst` checks what is left without it.

### HealthScoring

`scores[d]` and `snapshots` are the append-only tables with `at` and `until`
(`scored_at`, `superseded_at`), `overall` the cached column. `Reading` is what the
narrative and signals say: engagement, an optional sentiment, an optional product-usage score;
`Plan` is the list of rows `_score_and_snapshot` writes from one, in its order and
with its skips. The worker's actions are its round trips (`SupersedeScore`,
`InsertScore`, `ReadScores`, `SupersedeSnapshot`, `InsertSnapshot`, `UpdateOverall`);
`Abandon` is the failure that is only logged. `set_csm_score` is one READ COMMITTED
transaction: `OpenSave` fixes what its first UPDATE can see, `CommitSave` applies all its
writes at once, `RollBackSave` none. Weights are whole hundredths. The rows of two
accounts never meet, so one account is modelled.

`alone` is a history variable: a scoring is alone if no one else wrote between its
start and its end.

### OutreachDrafts

`drafts` is the table, `tab` what each browser tab shows, `saves` the autosave
calls in flight (unordered), `request` the handlers at work, `mailed[d]` the texts SendGrid
accepted, `signals[d]` the text recorded. A text is `Template` (slots unfilled) or the
number of an edit. `CheckDraft`, `RecheckDraft`, `UpdateDraft`, `InsertDraft`,
`ReadWinner` are `get_outreach` and `save_draft`; `LoadDraft`, `SendMail`, `MarkSent`,
`RecordSignal` are `send_draft`. `SaveLands` and `SaveFails` are the RPC
`update_outreach_draft`; `LoseConnection` a reload or a lost answer, after which the request
goes on by itself.

### Routing and Ingestion

`Routing` has one operator per stage of `router.py`. An address is its domain, `Within` the
subdomain relation, a forwarded message its original sender. Where the code takes the match
with the latest `updated_at`, any match may be it: a stage is the set of its possible
results, empty if it does not match, and `Route` takes the first that is not empty.

`Ingestion` is a post and what follows it, one action per round trip: `ListAccounts`,
then `LookUpAccount` and `UpsertContact` for each participant, `StoreSignal`,
`ReadThread`, `UpsertCandidate`, `UpdateRouting`, `ScheduleRegen`, `AuditSplit`.
`receive_inbound` awaits nothing after it has read the form, so a process works on one
post at a time; `Instances` is the number of processes. `mailbox[m]` is what SendGrid
believes about mail *m*: `TimeOut` makes it post again while the first handler goes on,
whose answer it then ignores. `HandlerDies` is a raised call or a lost instance at any point.
`UpsertCandidate` writes every column of the row with the candidate's slug, as PostgREST
does, and fails on the foreign keys if that would change an id something refers to.
`Confirm` and `Dismiss` are the two RPCs, each atomic, for any discovered account, since the
sidebar a manager looks at may be old.

The signal is found again by its Message-ID, so a second post works on the same row; the raw
event is inserted under a fresh id, so the handler's `duplicate` answer is never given
for a mail. Both facts are in the model: `PostOnce`, the mutant in which the id comes from
the mail, loses mail.

### Product events, tickets and notes

`SignalNormalizer` is the one function all three sources call. `work[w]` is the call of
caller *w*: for each person of the item look up the contact (`FindContact`), find the account of
an unknown one by domain (`DiscoverAccount`), write the contact (`UpsertNewContact`), then
`InsertSignal`, whose unique index on source and external id makes every later one a
duplicate; `Raise` is a failed call. A signal is identified by its item and, if the item has no
key of its own (`Keyless`), by the post that brought it. `triggers` counts
`schedule_regen` calls; `heard` and `lost` are history: a trigger reached an account after the
signal was stored, or a failure came in between. What happens to a trigger afterwards is
`NarrativeRegen`.

`PushIntake` is the handlers. `Request[r]` is what a sender sends, with the flaw that `Adapters`
finds in it, if any; `sender[r]` is what it has been told. `RejectKey`, `RateLimited`, `AdmitBatch`
(checks of `/event` in their order), `SkipInvalid`, `NormalizeNext`, `Collect`, `CollectFailure`
(one item each), `ScheduleBatch` (one account each, in any order, since the code iterates over a
set), `Answer`; `RejectTicket`, `IgnoreTicket`, `AcceptTicket` the vendor routes. Handlers await
nothing in between, so one process is at one request; `Instances` is the processes, and each has
limiter windows of its own. `TimeOut` lets a sender post again, `Die` takes the process with its
windows, `Disconnect` revokes a credential.

`RateLimiter` is the deque of a key: `Recent` drops what is older than the window, `Admit`
appends, `Refuse` does not, `ColdStart` is the first request of a key. `arrivals` is a history
variable.

`GranolaPoll` is `run_polls` and `poll_workspace_granola`, one action per round trip: the list of
credentials, the state row, a page of notes after the cursor, each note through the
normalizer, the cursor after the page, and each `except` clause with the counter it writes.
Runs may overlap and die. `published[c]` grows as notes are taken in the product. Dates are the
positions of the notes.

### Simulator

`Trajectory` holds what the code computes without a database. A seeded generator
draws all high or all low, so a seed carries its salt (`derive_seed` hashes a string, which
Python salts per process). `YieldEvents` is the loop of the orchestrator, `Proposal` the
bootstrap's rules, `ResolveDates` and `CheckCollision` the date arithmetic.

`Simulator` runs one command at a time: `Author`, `Bootstrap`, `Run`, `Revert`, `Audit`, and `Resume`,
an operator who repeats `run` while an entry is pending. `Works` is the command in progress,
one action per writing round trip or save of the file: `IngestSignal`, `Supersede`,
`InsertNarrative` (or `InsertConflict` with `ReadWinner`), `Backdate`, the audit's actions, `Stamp`,
the six deletes of a revert and `Prune`. `AttemptFails` is the retry of a
week, `Crash` the end of the process anywhere. The mails a run ingests queue production jobs, so
`WorkerSupersedes` and `WorkerInserts` replace narratives meanwhile. `NarrativeAudit` is
composed by sharing `auditor`: the caller sets it, its steps are the audit's, the caller
takes the result.

`consented`, `excused`, `finished`, `cut` and `late` are history: overlaps an operator asked for,
weeks knowingly left without a narrative (a dry run, a limit, a production worker's narrative, a failed
backdate), entries taken through all weeks, the earliest date reverted, and whether a revert was from a
date after today.

## Runs

| Run | Question | Bounds |
|---|---|---|
| `regen_lane` | Without overlap: does a finished job cover its signals, is the history ordered, is every signal eventually reflected, is no job stuck, is the promise kept? | 1 account, 1 handler, 1 worker, 2 jobs, 2 signals, 1 fault |
| `regen_burst` | Two handlers and two overlapping workers: is a schedule outside the cap, is one narrative active? | 2 handlers, 2 workers, 2 jobs, 2 signals, clock 4 |
| `health_scoring` | Workers, a manager and one failure in every order: does the manager's score stand, is the next scoring a repair, does history only grow? | 2 workers, 1 manager, 2 generations, 2 saves |
| `health_cache` | Violation: the cache at rest leaves out a saved score | 1 worker, 1 manager, no failure |
| `outreach` | Two tabs, reloads, one failure: sent, mailed and recorded agree, each send is answered | 2 tabs, 2 requests, 2 drafts |
| `outreach_slots` | Violation: a mail with unfilled slots | 1 tab, no failure |
| `ingest_mail` | Two mails of seven, each a way through the router; a lost answer or a dead handler; a manager | 2 instances, 3 posts, 1 failure, 1 click |
| `ingest_discovery` | Violation: discovery overwrites an account an operator entered | the same, one more account |
| `intake_push` | Is what was accepted stored, and triggered once? Does the limiter hold? | 2 processes, a ticket, a batch of three events (one invalid, one without a key), an unsigned request, 2 posts each, 1 fault, window and limit 1, clock 2 |
| `intake_poll` | Does the cursor pass only what is stored? Is each note stored or the credential off? | 2 overlapping runs, 1 credential, 2 notes, the second without an owner's address and so unreadable, page 2, limit 2, 2 faults |
| `intake_poll_deactivate` | Violation: a credential is switched off before as many consecutive failures as the limit | the same |
| `simulate` | Do the file, the signals, the narratives and the audits agree whatever stops a command? Is a stopped run made good by repeating it? | 3 commands, or 2 and a production generation; 2 accounts, 1 fault |

Why the bounds are enough. The races of the queue are between a handler and a worker,
two handlers, or two workers on *one* account: jobs of different accounts share no row but
the batch, and the batch limit is exercised with a limit below the number of jobs. Two
job rows give one running and one upcoming; in `regen_burst` two handlers
insert both, and two workers take them at once. `Debounce` 1 and `RateCap` 2 keep the order of the real
values (debounce shorter than the cap). The clock bound is past debounce and cap, so each window opens and
closes. Two generations and two saves make duplicates, gaps and the repair of both.
Two tabs and two requests give every pair of handlers; a second draft row exists for
the draft that follows a sent one. Two mails interact through one account or one
thread, and the pairs include two companies of one slug; the third post is the repetition that
one failure causes. The safety properties were also checked with two failures (927,000
states), too long a run to keep. The requests of `intake_push` meet on one new
contact (the ticket and an event come from one address) and on one account; a failing, a
skipped and a keyless item are in one batch, so each position of a fault in it is there. Window and
limit 1 make the boundary and the emptied deque the usual case. In `intake_poll` the first
note is stored in the page whose second note fails it, so the page is fetched again, by either
run, before and after the counter reaches its limit of 2. `intake_poll_deactivate` needs one failure, one
recorded success and one more failure, which two runs and two faults allow in any overlap. `simulate` has one account worth a
trajectory and a deleted one; a cliff of one week and an override of two give entries that
meet, straddle the revert date or lie after it, an override typed the wrong way round and a bootstrap of
no weeks give entries that do not validate; three commands are an author, a run and
what undoes or repeats it. The revert dates are today, which is also where a first trajectory starts by
default, and the first day of a second one, a date in the future: a revert from there meets the row of a
run that died before its backdate, the case `NarrativesHaveEntry` excepts. Resumed runs are not counted, so each crash is followed up.

Deadlock checking is off: the bounds make every model stop, and a system with no signal,
no click and no due job does stop.

Fairness. `FairSpec` of `NarrativeRegen` assumes that a handler that has started enqueuing
goes on (request handlers run to their end), that a worker goes on with its
batch, that the cron keeps firing, and that time passes: weak fairness on `Enqueue`,
`Drain`, `StartTick`, `Tick`. Nothing forces a signal, a click, a failure or a good answer.
`EventuallyReflected` is therefore conditional on no failure *after* the signal: a failed
job is not retried by the code. `OutreachDrafts` assumes only that a handler on a live
instance is worked on to its end. `Ingestion` assumes the same, and that SendGrid posts again what
was not answered with 200 (it does so for three days). `PollFairness` says that the scheduler
keeps calling `/run-polls` and that a run at work goes on: `PublishedIsStored` needs both, and
counts a credential switched off as an end, which is what the code offers a page that never
parses. The simulator's `FairSpec` says that the command in progress goes on, that the production worker
goes on, and that the operator repeats `run` while an entry is pending; the last is no property of
the code but of its use, the one `executor.py:22` expects, and `PendingIsResumed` is about what
repeating achieves.

## Proofs

`NarrativeRegenProofs`, from `RegenAssumption` only (types of the constants):

- `TypeCorrect`: `TypeOK` is not inductive, since a worker's `Target(w)` must be an
  account for its writes to keep their type. `TypeInv` adds that a handler past its signal has an account,
  an inserted job has one, and a worker holds rows that exist. It holds with
  overlapping ticks too.
- `LaneCorrect`, under `~Overlap`: `LaneInv`. `DoneMeansCovered` needs to know, at
  `FinishJob`, that the newest narrative has read what the job answered for; that needs that the worker
  read it (`ReadsEnough`), which needs that its job was RUNNING since before the read,
  so no handler could debounce against it any more (`HoldsItsJobs`); and
  that no one inserted in between (`NoConflict`, `SingleLane`).
- `DoneCovered`: the safety property itself.
- `QueueImplementsPromise`: each step of the queue maps to `Land`, `Refresh`,
  `Settle` or a stutter of `NarrativePromise`.
- `HistoryIsOrdered`, under `~Overlap`: what is missing from `HistoryOrdered` is that the time a worker
  captured lies after every row there is (`DatedBefore`), which holds until its insert because
  the lane is single.
- `OneActiveNarrative`, for overlapping workers and no faults: a worker at the conflict branch finds
  a winner's row or another worker about to insert.
- `CapIsHonoured`: an action property; the schedule a handler holds is past the cap window of
  every completion before its captured time (`Spaced`), which later completions cannot undo.

`HealthScoringProofs`, from `HealthAssumption`. All rest on `Typed`, a weak typing that leaves
open which averages occur, and on one lemma per writing step on what it does to the tables:

- `HealthTyped`: `TypeOK` needs that a weighted average of scores between 1 and 100 is one too, in
  both roundings and for any set of rows. The sum is a fold over a set; `SumsExist` shows by induction
  on cardinality that the function over all subsets which `MapThenFoldSet` chooses exists, so that
  `SumsNatural`, `WeightedNatural` and `AverageInRange` can be proved of it. `Averaged` then
  says that every average held or stored came out of it.
- `HistoryStays`: each of those steps only grows its table, which needs that the dimension a worker is at
  exists.
- `SavedScoreStands`, under `OneManager`. `CsmScoreStands` is strengthened by two facts about what
  writers hold in memory: no worker plans a row of the CSM dimension, and an open save
  still sees exactly the rows that are active. With two managers the second fact fails, and two
  active CSM rows are possible.
- `ScoringsRepair`: `RepairInv` says, of a worker that still runs alone, that its plan names no dimension
  twice, the rows it has written are the single active ones, the dimension it is about to insert
  into has no active row, and past the read its average is that of the table. Any write of another
  takes the worker's `alone` away, so only the worker's own steps have to keep it.

`OutreachDraftsProofs`: `OutreachTypeCorrect`, `SentDraftsWereMailed`, `SignalsQuoteMails`,
`OneSendPerTab`, from one invariant: types, what a request at work knows of its draft
(`RequestsKnow`), that a tab waiting for a send has exactly one request that will answer it
(`TabsWait`, `RequestsAwaited`), and that a request past the mail has mailed (`MailedBefore`).

`RateLimiterProofs`: `WindowIsBounded`, from `RateLimiterAssumption` only. The deque forgets, so the bound on
all arrivals needs that it still holds every arrival of the last window (`Remembers`) and that
any limit-plus-one consecutive arrivals span more than a window (`Spaced`).

`IngestionProofs`, from `RoutingAssumption` and `IngestionAssumption`:

- `TypeCorrect`: `TypeOK` with the fact that a handler at work has a mail. Its core is
  `RouteType`: every stage decides for a listed account, an inherited one or a known domain, and as
  the last stage always matches, some stage is the first to.
- `AckedRouted`: `AckedIsRouted` for any number of mails, posts, instances and failures. The answer
  comes after the routing, so the invariant adds that past `UpdateRouting` the handler's
  signal is routed, and stays so although other posts of the mail write it too, because
  no route comes without a method, also not the one carried over a candidate's upsert.
- `AckedTriggered`: each step of a handler has one of five effects on what `AckedIsTriggered` speaks of (it
  moves on, writes a routing, asks for a regeneration, fails or is rejected). The invariant (`AskedInv`)
  says that the account of a routed signal was asked for, or the handler that wrote the
  routing will still ask, or was given up; each effect preserves it.
- `LinksStay`: the action property `LinkKept`, since an upsert writes an account or keeps the row's.

`StructuredIntakeProofs`, from the assumptions of the composed modules, for any number of
processes, runs, requests, notes and faults:

- `IntakeTypeCorrect`: `TypeInv` adds to `TypeOK` what a caller at work knows (its request,
  credential, position in its page).
- `IntakeIsLimited`: each step of the composition is a step of `RateLimiter` or leaves it alone, so
  `WindowBound` carries over from `RateLimiterProofs`.
- `IntakeTriggersOnce`, `IntakeIsHeard`: each step of any caller has one of four effects on signals,
  triggers and debts: none, it stores a signal and takes on its trigger, it drops what it owes into
  `lost`, or it asks for an account's regeneration. Two lemmas (`PushEffect`, `PullEffect`) show that; the
  invariant `DutyInv` (a signal owed is stored, not yet triggered, and owed by one caller) is then preserved
  by each effect, whoever has it. `PlaceInv` says which caller waits for which call of the
  normalizer.
- `IntakeStoresAccepted`: what a handler is about to report is stored, and stays stored.

`GranolaPollProofs`: `CursorIsCovered` needs that a run in the middle of a page has stored all notes before its
own (`RunCovers`), so that whatever order two runs write the cursor in, they write a covered
position.

`SimulatorProofs`, from `SimulatorAssumption` and `AuditAssumption`, for any accounts, shapes, dates,
options, criteria and number of faults, commands and production generations:

- `SimulatorTyped`: `TypeInv`. The file either is missing or loads (`IsSpec`); the spec a command holds is
  the file, since one command runs at a time and each stamp is saved at once; the places in its queue exist;
  the auditor is at work exactly while a command waits for it. That a proposed or authored entry
  validates, identities are new and a stamp or a prune keeps the rest are lemmas about
  `Trajectory`'s operators (`AddedSpec`, `StampedSpec`, `PrunedSpec`). `FileLoads` is `TypeOK`.
- `SlicesAreWhole`: between two signals of a week, as many came back as were asked for
  (`SliceSoFar`), stored before or not.
- `FinishedStays`, an action property: a finished entry of the file has its stamp (`StampsStand`), and
  a run without `--force` has none of those in its queue or in hand (`UndoneAhead`).
- `OverlapsAreTold`: `CollisionTold` says that `check_collision` finds an overlap if there is one. The
  bootstrap needs no consent because it starts after the latest end.
- `WorkInOrder` is the invariant the next three use. `RowAhead`: what a run finds active between its
  supersede and its insert is a production worker's row without a verdict, and the row it is about to date is
  its own, or such a one. `AuditSoFar`, `AuditsAhead`: outside nightly runs an audit in progress has
  no verdict yet, and as many criterion rows as it has counted. `RevertSoFar`: after each of a
  revert's deletes, what has gone and what has not; its order, audits before narratives, is what makes
  it hold.
- `VerdictsAreBacked`: the undo meets no verdict of its narrative and run, and the revert takes criteria
  only of narratives in its reach.
- `StampsAreTrue`: the weeks a run has behind it are generated or excepted (`WeeksBehind`), so that the
  stamp is true when it is put (`StampsTrue`); no step takes a narrative or its date away unless `cut`
  is at or before it.
- `GreenIsAudited`: a run gives a narrative one verdict (`VerdictsUnique`), and the outcomes a command
  has collected are those of the verdicts on the rows behind it (`Tally`: as many, and as many failed,
  by cardinality). A nightly run that meets a verdict of its own name raises, so it cannot count one.
- `NarrativesBelong`, for any revert dates: a narrative is dated today or not before its entry
  (`AtHome`), and when a revert comes to prune the file it has deleted those from its date on
  (`PrunedClean`). So a narrative whose entry is pruned was dated today, and the date of the revert is after
  today (`LateKnown`): that is `PassedOver`, the exception the property states. Its one hypothesis,
  `NullIsNone`, says that the missing file is not itself a spec.

Only model-checked: liveness (`EventuallyReflected`, `NoJobStuck`, `EverySendAnswered`,
`EveryMailAcked`, `PublishedIsStored`, `PendingIsResumed`), which is out of the prover's reach. Every
invariant and every action property of a passing run is proved. What the recursive functions of
`Trajectory` compute is used in the proofs only as far as its type: that the events of a week are
a list of some length (`YieldedEvents`), not which events they are.

## Findings

- `health_cache`: a scoring that read before a manager's save overwrites the cache after it.
- `outreach_slots`: Send looks at the text in the tab, the server mails the text in the database.
- `ingest_discovery`: a candidate's slug is the first label of its domain, and the upsert by slug
  overwrites another account of that slug; once rows refer to that account, the mail of the
  second company is answered with 500 each time it is posted.
- `intake_poll_deactivate`: a credential is switched off on the count its poll read at the start, plus one,
  whatever success was recorded since, by an overlapping run or by the poll itself before
  `clear_credential_error` raised. With the limit of 5 it takes four failures before, one recorded success
  and one failure.

Noticed without a run:

- The RPC behind the Regenerate button (`20260423000002_frontend_rpcs.sql:123`) names columns that
  migration 000007 renamed, so a click that no upcoming job debounces raises; `docs/architecture.md:106`
  says it returns the new job's id. `ManualRegenerate` has no such click, since it changes nothing.
- A mail in a thread inherits the account of the thread's earlier signals even after a manager
  has dismissed it; `dismiss_candidate_account` does not look at the status, so an old sidebar
  can dismiss an account just confirmed. `CandidateSidebar.tsx` says its buttons stay disabled
  until the refreshed list arrives, but it enables them right after a `router.refresh()` it
  does not await.
- `docs/architecture.md` says sentiment rows are scored by the model, the generator writes them as
  `SYSTEM`; `enqueue_regen_job`'s docstring counts running jobs toward the cap, the code
  counts DONE ones. ADR 002 caps regeneration per window; the code caps when it
  schedules, and overdue jobs run together.
- `--dry-run` and `--weeks` stamp an entry as generated although its weeks were only printed or cut
  off (`executor.py:516-524` returns before any write, `executor.py:734` stamps); later runs skip it
  without `--force`. `StampedIsGenerated` excepts those weeks.
- `--revert-from` takes any date (`simulate_history.py:300`). A run that ended between the insert of a
  narrative and its backdate leaves it dated today; a revert from a later date passes over it and prunes
  its entry if that starts on the date or later, as an author's default entries may. The narrative
  stays in the table with no entry. `NarrativesHaveEntry` excepts it, and without the exception TLC finds it.
- `UpdateDraft` of `outreach_drafts.py:88` can put a sent row back to draft.
- A Granola rate limit counts as an error but never leads to `_maybe_deactivate`
  (`poller.py:148`), although `poller.py:13` and `docs/architecture.md:214` count every consecutive failure.
- A simulated narrative is generated with the wall clock as `now` (`generator.py:440`), although
  `executor.py:482` says the week's end. When a production worker wins the insert, the executor
  backdates the worker's narrative; when the conflict raises, the week counts as done.
- Nightly audits of one date share a run id, so the second one's compensating delete takes
  the first one's criterion rows with it (`AggregateBacked` leaves nightly runs out), against
  "written atomically" in migration 20260503000017. `fetch_audit_context` is outside the `try`, so
  its failure exits with 1 instead of 2, and `audit_passed` counts failures of the harness.
- `ExecutorConfig.force`'s docstring does not say that it regenerates stamped entries, `run()`
  does so. A jittered date can fall a day before its entry's start, so a revert at that start
  leaves that signal; a revert inside an entry leaves it stamped although its later weeks are
  gone. A revert deletes all scores and snapshots of the account, also production's. `bootstrap
  --force` over a spec that does not load overwrites it. Dates an author overrides are not checked
  for collisions.

## Not modelled

- Regeneration: the CLI's direct `--account` and `--force` modes, which skip the queue.
- Health: how a reading comes about (confidence, engagement tiers, the product-usage cascade):
  functions of counts and floating-point ratios, each tested in the repository.
- Outreach: changes of recipient, template recommendation.
- Ingestion: what the checks before the insert answer without touching a table.
- Simulator: a negative `--weeks`; oscillating and exponential curves; two operators or an edit of the file at once; a
  write of the file that is torn (`spec.py:143`); the foreign key that refuses to delete a narrative that a
  later audit refers to. The instance authors for one account at a time.
- Audit: rubric and report; `--narrative-id`.
- Access policies, rendering, telemetry, fixture text and prompts: no behaviour over
  time to check.

What would come next: the composition of `StructuredIntake`'s triggers with
`NarrativeRegen`'s queue, which a product of both state spaces makes too large for TLC, so that it
would have to start from the proofs; `DutyInv` and `DoneCovered` are the two ends to join. An abstract
specification of the simulator (a table of weeks, each missing, lost or generated) for `Simulator` to
implement could be shown from `GeneratedInv` and `HomeInv`.
