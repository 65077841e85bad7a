--------------------------- MODULE NarrativeRegen ---------------------------
(***************************************************************************)
(* The narrative regeneration queue and the workers that drain it.         *)
(*                                                                         *)
(* Ingestion handlers write a signal and call schedule_regen, which calls  *)
(* enqueue_regen_job (src/db/regen_jobs.py).  The 15-minute cron tick      *)
(* (src/server/routes/scheduler.py) and the CLI job-queue mode             *)
(* (src/worker.py) recover stale jobs, fetch the due ones and call         *)
(* generate_narrative (src/pipeline/generator.py) for each.                *)
(*                                                                         *)
(* Grain: one action per round trip to Postgres.  A single SQL statement   *)
(* is atomic; nothing groups several of them, so every other handler and   *)
(* worker can run between two.  One workspace is modelled: the tick treats *)
(* workspaces one after the other and they share no row.                   *)
(*                                                                         *)
(* Signals of an account are numbered in the order they become visible to  *)
(* get_signals_for_account, so a narrative's content is abstracted to how  *)
(* many of them its generation read.                                       *)
(***************************************************************************)
EXTENDS Integers, Sequences, FiniteSets

CONSTANTS
    Accounts,       \* accounts of the workspace, without _unmatched
    Ingesters,      \* request handlers and loops that ingest signals
    Workers,        \* cron invocations and CLI runs that can drain the queue
    JobIds,         \* identities of narrative_regen_jobs rows (bound)
    Debounce,       \* _DEBOUNCE_SECONDS, in clock ticks
    RateCap,        \* _RATE_CAP_MINUTES, in clock ticks
    StaleAfter,     \* recover_stale_jobs cutoff_minutes, in clock ticks
    BatchLimit,     \* _MAX_JOBS_PER_WORKSPACE
    Dismissible,    \* accounts a user may dismiss
    Clickable,      \* accounts whose Regenerate button a user clicks
    Overlap,        \* may a tick start while another is still draining?
    MaxTime,        \* bound on the clock once nothing waits for it
    MaxSignals,     \* bound on the signals of one account
    MaxFaults,      \* bound on crashes, failed calls and bad model answers
    None            \* SQL NULL

ASSUME RegenAssumption ==
    /\ Debounce \in Nat \ {0}
    /\ RateCap \in Nat \ {0}
    /\ StaleAfter \in Nat
    /\ BatchLimit \in Nat \ {0}
    /\ Dismissible \subseteq Accounts
    /\ Clickable \subseteq Accounts
    /\ Overlap \in BOOLEAN
    /\ MaxTime \in Nat
    /\ MaxSignals \in Nat
    /\ MaxFaults \in Nat
    /\ None \notin Nat
    /\ None \notin Accounts
    /\ None \notin JobIds

VARIABLES
    now,            \* the database clock
    arrived,        \* arrived[a]: signals stored and routed to account a
    dismissed,      \* accounts soft-deleted by dismiss_candidate_account
    jobs,           \* the narrative_regen_jobs table
    ingest,         \* where each ingestion handler is
    worker,         \* where each worker is
    narratives,     \* narratives[a]: the rows of a, in insertion order
    stamped,        \* accounts.last_narrative_generated_at
    faults          \* faults injected so far

vars == <<now, arrived, dismissed, jobs, ingest, worker, narratives, stamped, faults>>

-----------------------------------------------------------------------------
(* Rows and program counters. *)

Status == {"absent", "pending", "running", "done", "failed"}

\* A row of narrative_regen_jobs; "absent" is a row not inserted yet.
\* "upto" is a history variable: the number of signals of the account visible
\* at the last moment the row, still pending, answered for a trigger.
Job == [status: Status, account: Accounts \cup {None}, scheduled: Nat,
        updated: Nat, upto: Nat]

AbsentJob == [status |-> "absent", account |-> None, scheduled |-> 0,
              updated |-> 0, upto |-> 0]

IngestPc == {"idle", "call", "debounce", "cap", "insert"}

Handler == [pc: IngestPc, account: Accounts \cup {None}, at: Nat, scheduled: Nat]

IdleHandler == [pc |-> "idle", account |-> None, at |-> 0, scheduled |-> 0]

WorkerPc == {"idle", "fetch", "load", "next", "read", "start", "model",
             "supersede", "insert", "conflict", "stamp", "finish", "fail"}

\* "usable": the parsed model answer carries the "narrative" key.
WorkerState == [pc: WorkerPc, batch: SUBSET JobIds, known: SUBSET Accounts,
                job: JobIds \cup {None}, seen: Nat, started: Nat,
                usable: BOOLEAN]

IdleWorker == [pc |-> "idle", batch |-> {}, known |-> {}, job |-> None,
               seen |-> 0, started |-> 0, usable |-> TRUE]

Narrative == [covers: Nat, generated: Nat, superseded: Nat \cup {None}]

TypeOK ==
    /\ now \in Nat
    /\ arrived \in [Accounts -> Nat]
    /\ dismissed \in SUBSET Accounts
    /\ jobs \in [JobIds -> Job]
    /\ ingest \in [Ingesters -> Handler]
    /\ worker \in [Workers -> WorkerState]
    /\ narratives \in [Accounts -> Seq(Narrative)]
    /\ stamped \in [Accounts -> Nat \cup {None}]
    /\ faults \in Nat

Init ==
    /\ now = 0
    /\ arrived = [a \in Accounts |-> 0]
    /\ dismissed = {}
    /\ jobs = [j \in JobIds |-> AbsentJob]
    /\ ingest = [i \in Ingesters |-> IdleHandler]
    /\ worker = [w \in Workers |-> IdleWorker]
    /\ narratives = [a \in Accounts |-> <<>>]
    /\ stamped = [a \in Accounts |-> None]
    /\ faults = 0

-----------------------------------------------------------------------------
(* State functions. *)
\* Mutant: debounces on any unfinished job, one that has already read included.
UpcomingOrRunning(a, t) ==
    {j \in JobIds : /\ jobs[j].status \in {"pending", "running"}
                    /\ jobs[j].account = a}

\* Debounce check: a pending job of a still in the future at time t.
Upcoming(a, t) ==
    {j \in JobIds : /\ jobs[j].status = "pending"
                    /\ jobs[j].account = a
                    /\ jobs[j].scheduled > t}

\* Rate cap check: DONE jobs of a completed after t - RateCap.
RecentlyDone(a, t) ==
    {j \in JobIds : /\ jobs[j].status = "done"
                    /\ jobs[j].account = a
                    /\ jobs[j].updated > t - RateCap}

Due == {j \in JobIds : jobs[j].status = "pending" /\ jobs[j].scheduled <= now}

ActiveRows(a) ==
    {i \in 1..Len(narratives[a]) : narratives[a][i].superseded = None}

\* A RUNNING job no worker holds: its worker crashed.
Orphaned(j) ==
    jobs[j].status = "running" /\ \A w \in Workers : worker[w].job # j

\* The signals the newest narrative row of a was generated from.
Coverage(a) ==
    IF narratives[a] = <<>> THEN 0
    ELSE narratives[a][Len(narratives[a])].covers

Generating == {"read", "start", "model", "supersede", "insert", "conflict",
               "stamp", "finish"}

Target(w) == jobs[worker[w].job].account

-----------------------------------------------------------------------------
(* Ingestion: store a signal, then enqueue_regen_job. *)

\* The last write that makes the signal visible under account a: insert_signal
\* for events and structured signals, update_signal_routing for email.  Handlers
\* route on a list read earlier and thread history outlives an account, so a
\* dismissed account still receives signals.
SignalLands(i, a) ==
    /\ ingest[i].pc = "idle"
    /\ arrived[a] < MaxSignals
    /\ arrived' = [arrived EXCEPT ![a] = @ + 1]
    /\ ingest' = [ingest EXCEPT ![i] = [IdleHandler EXCEPT !.pc = "call",
                                                           !.account = a]]
    /\ UNCHANGED <<now, dismissed, jobs, worker, narratives, stamped, faults>>

\* now = datetime.now(UTC)
CaptureNow(i) ==
    /\ ingest[i].pc = "call"
    /\ ingest' = [ingest EXCEPT ![i].pc = "debounce", ![i].at = now]
    /\ UNCHANGED <<now, arrived, dismissed, jobs, worker, narratives, stamped, faults>>

\* A pending job answers for the trigger, or the handler goes on to the cap.
DebounceCheck(i) ==
    /\ ingest[i].pc = "debounce"
    /\ LET a == ingest[i].account
           found == Upcoming(a, ingest[i].at)
       IN \/ /\ found # {}
             /\ \E j \in found : jobs' = [jobs EXCEPT ![j].upto = arrived[a]]
             /\ ingest' = [ingest EXCEPT ![i] = IdleHandler]
          \/ /\ found = {}
             /\ ingest' = [ingest EXCEPT ![i].pc = "cap"]
             /\ UNCHANGED jobs
    /\ UNCHANGED <<now, arrived, dismissed, worker, narratives, stamped, faults>>
\* Mutant: the window is counted from when the finished job was scheduled.
CapFromSchedule(i) ==
    /\ ingest[i].pc = "cap"
    /\ LET done == RecentlyDone(ingest[i].account, ingest[i].at)
       IN \/ /\ done = {}
             /\ ingest' = [ingest EXCEPT ![i].pc = "insert",
                                         ![i].scheduled = ingest[i].at + Debounce]
          \/ \E last \in done :
                ingest' = [ingest EXCEPT ![i].pc = "insert",
                              ![i].scheduled = jobs[last].scheduled + RateCap]
    /\ UNCHANGED <<now, arrived, dismissed, jobs, worker, narratives, stamped, faults>>

\* Mutant: the sign of the cap window is swapped.
CapSignSwapped(i) ==
    /\ ingest[i].pc = "cap"
    /\ LET done == RecentlyDone(ingest[i].account, ingest[i].at)
       IN \/ /\ done = {}
             /\ ingest' = [ingest EXCEPT ![i].pc = "insert",
                                         ![i].scheduled = ingest[i].at + Debounce]
          \/ \E last \in done :
                ingest' = [ingest EXCEPT ![i].pc = "insert",
                              ![i].scheduled = jobs[last].updated - RateCap]
    /\ UNCHANGED <<now, arrived, dismissed, jobs, worker, narratives, stamped, faults>>

\* The latest completion inside the cap window, if any, decides the schedule.
CapCheck(i) ==
    /\ ingest[i].pc = "cap"
    /\ LET done == RecentlyDone(ingest[i].account, ingest[i].at)
       IN \/ /\ done = {}
             /\ ingest' = [ingest EXCEPT ![i].pc = "insert",
                                         ![i].scheduled = ingest[i].at + Debounce]
          \/ \E last \in done :
                /\ \A j \in done : jobs[j].updated <= jobs[last].updated
                /\ ingest' = [ingest EXCEPT ![i].pc = "insert",
                                 ![i].scheduled = jobs[last].updated + RateCap]
    /\ UNCHANGED <<now, arrived, dismissed, jobs, worker, narratives, stamped, faults>>

InsertJob(i) ==
    /\ ingest[i].pc = "insert"
    /\ \E j \in JobIds :
          /\ jobs[j].status = "absent"
          /\ jobs' = [jobs EXCEPT ![j] =
                        [status |-> "pending", account |-> ingest[i].account,
                         scheduled |-> ingest[i].scheduled, updated |-> now,
                         upto |-> arrived[ingest[i].account]]]
    /\ ingest' = [ingest EXCEPT ![i] = IdleHandler]
    /\ UNCHANGED <<now, arrived, dismissed, worker, narratives, stamped, faults>>

\* The Regenerate button.  The RPC is one transaction.  A job that is upcoming
\* answers for the click.  Without one the RPC reads last_updated_at of
\* narrative_regen_jobs, a column migration 000007 renamed to updated_at without
\* recreating the function, so it raises and changes nothing.
ManualRegenerate(a) ==
    /\ a \notin dismissed
    /\ \E j \in Upcoming(a, now) : jobs' = [jobs EXCEPT ![j].upto = arrived[a]]
    /\ UNCHANGED <<now, arrived, dismissed, ingest, worker, narratives, stamped, faults>>

\* dismiss_candidate_account: the account leaves get_accounts_for_workspace.
DismissAccount(a) ==
    /\ a \notin dismissed
    /\ dismissed' = dismissed \cup {a}
    /\ UNCHANGED <<now, arrived, jobs, ingest, worker, narratives, stamped, faults>>

-----------------------------------------------------------------------------
(* A worker: one cron invocation or CLI run. *)

\* Mutant: stale jobs are not recovered.
StartWithoutRecovery(w) ==
    /\ worker[w].pc = "idle"
    /\ Overlap \/ \A v \in Workers : worker[v].pc = "idle"
    /\ worker' = [worker EXCEPT ![w].pc = "fetch"]
    /\ UNCHANGED <<now, arrived, dismissed, jobs, ingest, narratives, stamped, faults>>

\* recover_stale_jobs: one UPDATE over the whole table.  The trigger
\* set_updated_at stamps every updated row.
StartTick(w) ==
    /\ worker[w].pc = "idle"
    /\ Overlap \/ \A v \in Workers : worker[v].pc = "idle"
    /\ jobs' = [j \in JobIds |->
                  IF jobs[j].status = "running" /\ jobs[j].updated < now - StaleAfter
                  THEN [jobs[j] EXCEPT !.status = "failed", !.updated = now]
                  ELSE jobs[j]]
    /\ worker' = [worker EXCEPT ![w].pc = "fetch"]
    /\ UNCHANGED <<now, arrived, dismissed, ingest, narratives, stamped, faults>>

\* get_pending_jobs: the oldest due jobs, at most BatchLimit of them.
FetchJobs(w) ==
    /\ worker[w].pc = "fetch"
    /\ \E batch \in SUBSET Due :
          /\ Cardinality(batch) <= BatchLimit
          /\ batch = Due \/ Cardinality(batch) = BatchLimit
          /\ \A j \in batch, k \in Due \ batch :
                jobs[j].scheduled <= jobs[k].scheduled
          /\ worker' = [worker EXCEPT ![w] =
                          IF batch = {} THEN IdleWorker
                          ELSE [worker[w] EXCEPT !.pc = "load", !.batch = batch]]
    /\ UNCHANGED <<now, arrived, dismissed, jobs, ingest, narratives, stamped, faults>>

\* get_accounts_for_workspace
LoadAccounts(w) ==
    /\ worker[w].pc = "load"
    /\ worker' = [worker EXCEPT ![w].pc = "next", ![w].known = Accounts \ dismissed]
    /\ UNCHANGED <<now, arrived, dismissed, jobs, ingest, narratives, stamped, faults>>
\* Mutant: the job is not marked RUNNING.
NextStaysPending(w) ==
    /\ worker[w].pc = "next"
    /\ \E j \in worker[w].batch :
          worker' = [worker EXCEPT ![w].pc = "read", ![w].job = j,
                                   ![w].batch = @ \ {j}]
    /\ UNCHANGED <<now, arrived, dismissed, jobs, ingest, narratives, stamped, faults>>

\* The next job of the batch, oldest first: FAILED when its account is gone,
\* otherwise RUNNING whatever its status has become since the batch was read.
NextJob(w) ==
    /\ worker[w].pc = "next"
    /\ \E j \in worker[w].batch :
          /\ \A k \in worker[w].batch : jobs[j].scheduled <= jobs[k].scheduled
          /\ \/ /\ jobs[j].account \notin worker[w].known
                /\ jobs' = [jobs EXCEPT ![j].status = "failed", ![j].updated = now]
                /\ worker' = [worker EXCEPT ![w].batch = @ \ {j}]
             \/ /\ jobs[j].account \in worker[w].known
                /\ jobs' = [jobs EXCEPT ![j].status = "running", ![j].updated = now]
                /\ worker' = [worker EXCEPT ![w].pc = "read", ![w].job = j,
                                            ![w].batch = @ \ {j}]
    /\ UNCHANGED <<now, arrived, dismissed, ingest, narratives, stamped, faults>>

EndTick(w) ==
    /\ worker[w].pc = "next"
    /\ worker[w].batch = {}
    /\ worker' = [worker EXCEPT ![w] = IdleWorker]
    /\ UNCHANGED <<now, arrived, dismissed, jobs, ingest, narratives, stamped, faults>>

\* get_signals_for_account; the contacts and the prior narrative that are read
\* next only feed the prompt.
ReadSignals(w) ==
    /\ worker[w].pc = "read"
    /\ worker' = [worker EXCEPT ![w].pc = "start", ![w].seen = arrived[Target(w)]]
    /\ UNCHANGED <<now, arrived, dismissed, jobs, ingest, narratives, stamped, faults>>

\* generate_narrative captures its own now, then reads the dimension configs
\* and renders the prompt.
BeginGeneration(w) ==
    /\ worker[w].pc = "start"
    /\ worker' = [worker EXCEPT ![w].pc = "model", ![w].started = now]
    /\ UNCHANGED <<now, arrived, dismissed, jobs, ingest, narratives, stamped, faults>>

\* The model answers, possibly after one retry, with JSON that parses.  The
\* "narrative" key is not looked at before step 8.
ModelAnswers(w) ==
    /\ worker[w].pc = "model"
    /\ \/ /\ worker' = [worker EXCEPT ![w].pc = "supersede", ![w].usable = TRUE]
          /\ UNCHANGED faults
       \/ /\ faults < MaxFaults
          /\ faults' = faults + 1
          /\ worker' = [worker EXCEPT ![w].pc = "supersede", ![w].usable = FALSE]
    /\ UNCHANGED <<now, arrived, dismissed, jobs, ingest, narratives, stamped>>

\* Mutant: the old row is dated by the schedule of the job that replaces it.
SupersedeAtSchedule(w) ==
    /\ worker[w].pc = "supersede"
    /\ narratives' = [narratives EXCEPT ![Target(w)] =
                        [i \in 1..Len(@) |->
                           IF @[i].superseded = None
                           THEN [@[i] EXCEPT !.superseded = jobs[worker[w].job].scheduled]
                           ELSE @[i]]]
    /\ worker' = [worker EXCEPT ![w].pc = "insert"]
    /\ UNCHANGED <<now, arrived, dismissed, jobs, ingest, stamped,
                   faults>>

\* supersede_current_narrative
Supersede(w) ==
    /\ worker[w].pc = "supersede"
    /\ narratives' = [narratives EXCEPT ![Target(w)] =
                        [i \in 1..Len(@) |->
                           IF @[i].superseded = None
                           THEN [@[i] EXCEPT !.superseded = worker[w].started]
                           ELSE @[i]]]
    /\ worker' = [worker EXCEPT ![w].pc = "insert"]
    /\ UNCHANGED <<now, arrived, dismissed, jobs, ingest, stamped,
                   faults>>
\* Mutant: no row is inserted when no signal is new, but the old one is
\* superseded by then.
InsertOnlyNews(w) ==
    /\ worker[w].pc = "insert"
    /\ LET a == Target(w)
       IN IF worker[w].seen = Coverage(a) \/ ActiveRows(a) # {}
          THEN /\ worker' = [worker EXCEPT ![w].pc = "finish"]
               /\ UNCHANGED narratives
          ELSE /\ narratives' = [narratives EXCEPT ![a] =
                                   Append(@, [covers |-> worker[w].seen,
                                              generated |-> worker[w].started,
                                              superseded |-> None])]
               /\ worker' = [worker EXCEPT ![w].pc = "stamp"]
    /\ UNCHANGED <<now, arrived, dismissed, jobs, ingest, stamped,
                   faults>>

\* Build and insert the row: KeyError without a "narrative" key, 23505 from the
\* unique index narratives_active_per_account when an active row exists.
InsertNarrative(w) ==
    /\ worker[w].pc = "insert"
    /\ LET a == Target(w)
       IN \/ /\ ~worker[w].usable
             /\ worker' = [worker EXCEPT ![w].pc = "fail"]
             /\ UNCHANGED narratives
          \/ /\ worker[w].usable
             /\ ActiveRows(a) # {}
             /\ worker' = [worker EXCEPT ![w].pc = "conflict"]
             /\ UNCHANGED narratives
          \/ /\ worker[w].usable
             /\ ActiveRows(a) = {}
             /\ narratives' = [narratives EXCEPT ![a] =
                                 Append(@, [covers |-> worker[w].seen,
                                            generated |-> worker[w].started,
                                            superseded |-> None])]
             /\ worker' = [worker EXCEPT ![w].pc = "stamp"]
    /\ UNCHANGED <<now, arrived, dismissed, jobs, ingest, stamped,
                   faults>>

\* After a conflict: return the active narrative, re-raise if there is none.
ResolveConflict(w) ==
    /\ worker[w].pc = "conflict"
    /\ worker' = [worker EXCEPT ![w].pc =
                    IF ActiveRows(Target(w)) = {} THEN "fail" ELSE "finish"]
    /\ UNCHANGED <<now, arrived, dismissed, jobs, ingest, narratives, stamped, faults>>

\* update_account_last_generated.  Scoring follows; it never fails the job and
\* touches other tables (module HealthScoring).
StampAccount(w) ==
    /\ worker[w].pc = "stamp"
    /\ stamped' = [stamped EXCEPT ![Target(w)] = worker[w].started]
    /\ worker' = [worker EXCEPT ![w].pc = "finish"]
    /\ UNCHANGED <<now, arrived, dismissed, jobs, ingest, narratives, faults>>

\* The worker turns to the rest of its batch.
NextOfBatch(w) ==
    [IdleWorker EXCEPT !.pc = "next", !.batch = worker[w].batch,
                       !.known = worker[w].known]

\* update_job_status(DONE)
FinishJob(w) ==
    /\ worker[w].pc = "finish"
    /\ jobs' = [jobs EXCEPT ![worker[w].job].status = "done",
                            ![worker[w].job].updated = now]
    /\ worker' = [worker EXCEPT ![w] = NextOfBatch(w)]
    /\ UNCHANGED <<now, arrived, dismissed, ingest, narratives, stamped, faults>>
\* Mutant: the except clause reports DONE.
FailReportsDone(w) ==
    /\ worker[w].pc = "fail"
    /\ jobs' = [jobs EXCEPT ![worker[w].job].status = "done",
                            ![worker[w].job].updated = now]
    /\ worker' = [worker EXCEPT ![w] = NextOfBatch(w)]
    /\ UNCHANGED <<now, arrived, dismissed, ingest, narratives, stamped, faults>>

\* The except clause: update_job_status(FAILED)
FailJob(w) ==
    /\ worker[w].pc = "fail"
    /\ jobs' = [jobs EXCEPT ![worker[w].job].status = "failed",
                            ![worker[w].job].updated = now]
    /\ worker' = [worker EXCEPT ![w] = NextOfBatch(w)]
    /\ UNCHANGED <<now, arrived, dismissed, ingest, narratives, stamped, faults>>

-----------------------------------------------------------------------------
(* Faults and time. *)
\* Mutant: the generator swallows the exception and returns.
CallSwallowed(w) ==
    /\ worker[w].pc \in Generating
    /\ faults < MaxFaults
    /\ faults' = faults + 1
    /\ worker' = [worker EXCEPT ![w].pc = "finish"]
    /\ UNCHANGED <<now, arrived, dismissed, jobs, ingest, narratives, stamped>>

\* A call inside the try block raises: a database error, a model error, or JSON
\* that does not parse twice.
CallRaises(w) ==
    /\ worker[w].pc \in Generating
    /\ faults < MaxFaults
    /\ faults' = faults + 1
    /\ worker' = [worker EXCEPT ![w].pc = "fail"]
    /\ UNCHANGED <<now, arrived, dismissed, jobs, ingest, narratives, stamped>>

\* The process dies, or a call outside the try block raises and aborts the tick.
WorkerCrash(w) ==
    /\ worker[w].pc # "idle"
    /\ faults < MaxFaults
    /\ faults' = faults + 1
    /\ worker' = [worker EXCEPT ![w] = IdleWorker]
    /\ UNCHANGED <<now, arrived, dismissed, jobs, ingest, narratives, stamped>>

\* The handler dies, or its enqueue raises, after the signal was stored.
IngestCrash(i) ==
    /\ ingest[i].pc # "idle"
    /\ faults < MaxFaults
    /\ faults' = faults + 1
    /\ ingest' = [ingest EXCEPT ![i] = IdleHandler]
    /\ UNCHANGED <<now, arrived, dismissed, jobs, worker, narratives, stamped>>

\* Past MaxTime the clock runs on only while a job waits for it: a pending one
\* for its schedule, one left RUNNING by a crash for the stale cutoff.
Tick ==
    /\ \/ now < MaxTime
       \/ \E j \in JobIds : jobs[j].status = "pending" /\ jobs[j].scheduled > now
       \/ \E j \in JobIds : Orphaned(j) /\ jobs[j].updated >= now - StaleAfter
    /\ now' = now + 1
    /\ UNCHANGED <<arrived, dismissed, jobs, ingest, worker, narratives, stamped, faults>>

-----------------------------------------------------------------------------
(* The specification. *)

Enqueue(i) == CaptureNow(i) \/ DebounceCheck(i) \/ CapCheck(i) \/ InsertJob(i)

Drain(w) ==
    \/ FetchJobs(w) \/ LoadAccounts(w) \/ NextJob(w) \/ EndTick(w)
    \/ ReadSignals(w) \/ BeginGeneration(w) \/ ModelAnswers(w)
    \/ Supersede(w) \/ InsertNarrative(w) \/ ResolveConflict(w)
    \/ StampAccount(w) \/ FinishJob(w) \/ FailJob(w)

Next ==
    \/ \E i \in Ingesters, a \in Accounts : SignalLands(i, a)
    \/ \E i \in Ingesters : Enqueue(i) \/ IngestCrash(i)
    \/ \E a \in Clickable : ManualRegenerate(a)
    \/ \E a \in Dismissible : DismissAccount(a)
    \/ \E w \in Workers : StartTick(w) \/ Drain(w) \/ CallRaises(w) \/ WorkerCrash(w)
    \/ Tick

Spec == Init /\ [][Next]_vars

\* A request that started finishes its calls, a tick that started finishes its
\* batch, the cron keeps firing and time passes.  Nothing forces a signal to
\* arrive, a user to click, a fault to happen, or the model to answer badly.
Fairness ==
    /\ \A i \in Ingesters : WF_vars(Enqueue(i))
    /\ \A w \in Workers : WF_vars(StartTick(w)) /\ WF_vars(Drain(w))
    /\ WF_vars(Tick)

FairSpec == Spec /\ Fairness

-----------------------------------------------------------------------------
(* Properties. *)

\* A job is DONE only if the newest narrative of its account has read every
\* signal the job answered for: debouncing loses no signal, and neither a fault
\* nor a crash turns a regeneration that did not happen into a finished one
\* (enqueue_regen_job against run_narratives, ticks not overlapping).
DoneMeansCovered ==
    \A j \in JobIds :
        jobs[j].status = "done" => jobs[j].upto <= Coverage(jobs[j].account)

\* The detailed queue implements the promise made to the reader: coverage only
\* grows and a finished regeneration stays finished (ticks not overlapping).
Told == [a \in Accounts |-> Coverage(a)]

DoneJobs(a) == {j \in JobIds : jobs[j].status = "done" /\ jobs[j].account = a}

Settled == [a \in Accounts |-> {jobs[j].upto : j \in DoneJobs(a)}]

Promise == INSTANCE NarrativePromise WITH
    landed <- arrived, told <- Told, settled <- Settled

ImplementsPromise == Promise!Spec

\* The rows of an account are a history: generation times only grow, and no row
\* was superseded before it was generated (generate_narrative uses one "now"
\* for both, captured before the model call; ticks not overlapping).
HistoryOrdered ==
    \A a \in Accounts : \A i \in 1..Len(narratives[a]) :
        LET row == narratives[a][i]
        IN /\ row.superseded # None => row.generated <= row.superseded
           /\ i > 1 => narratives[a][i-1].generated <= row.generated

\* A job enqueued after a completion is not scheduled inside the cap window of
\* that completion, however many completions the window holds.
CapHonouredAtEnqueue ==
    [][\A i \in Ingesters, j, k \in JobIds :
          (/\ ingest[i].pc = "insert" /\ ingest'[i].pc = "idle"
           /\ jobs[j].status = "absent" /\ jobs'[j].status = "pending"
           /\ jobs[k].status = "done" /\ jobs[k].account = ingest[i].account
           /\ jobs[k].updated < ingest[i].at)
          => jobs'[j].scheduled >= jobs[k].updated + RateCap]_vars

Reflected(a, n) == \E i \in ActiveRows(a) : narratives[a][i].covers >= n

\* Every stored signal is eventually reflected in the active narrative of its
\* account, unless the account is dismissed or something fails after the signal
\* was stored: no signal falls between the debounce check and the read of a
\* running worker, and an earlier failed or crashed job never wedges an account.
EventuallyReflected ==
    \A a \in Accounts : \A n \in 1..MaxSignals : \A f \in 0..MaxFaults :
        (/\ arrived[a] >= n
         /\ faults = f
         /\ \E i \in Ingesters : ingest[i].pc = "call" /\ ingest[i].account = a)
        ~> (Reflected(a, n) \/ a \in dismissed \/ faults > f)

\* No job is stuck in RUNNING: a tick takes up what a crashed run left behind
\* (recover_stale_jobs, which goes by age and sees no worker).
NoJobStuck == \A j \in JobIds : Orphaned(j) ~> ~Orphaned(j)

\* An account that ever had a narrative shows exactly one, however many workers
\* overlap, except while some worker is between its supersede and its insert: a
\* worker that loses the race on narratives_active_per_account finds the
\* winner's row, or another worker about to insert (no faults).
OneActiveUnlessReplacing ==
    \A a \in Accounts :
        narratives[a] # <<>> =>
            \/ Cardinality(ActiveRows(a)) = 1
            \/ /\ ActiveRows(a) = {}
               /\ \E w \in Workers : worker[w].pc = "insert" /\ Target(w) = a

-----------------------------------------------------------------------------
(* The inductive invariants proved in module NarrativeRegenProofs: TypeInv for *)
(* any workers, LaneInv for ticks that do not overlap.                         *)

Busy(w) == worker[w].pc # "idle"

SingleLane == \A v, w \in Workers : Busy(v) /\ Busy(w) => v = w

\* A handler past SignalLands and an inserted job have an account.
HaveAccounts ==
    /\ \A i \in Ingesters : ingest[i].pc # "idle" => ingest[i].account \in Accounts
    /\ \A j \in JobIds : jobs[j].status # "absent" => jobs[j].account \in Accounts

\* A worker's batch and its current job are rows of the table.
HoldsRows ==
    \A w \in Workers :
        /\ \A j \in worker[w].batch : jobs[j].status # "absent"
        /\ worker[w].pc \in Generating \cup {"fail"} =>
              worker[w].job \in JobIds /\ jobs[worker[w].job].status # "absent"

TypeInv == TypeOK /\ HaveAccounts /\ HoldsRows

\* No job answers for, and no narrative has read, a signal not stored yet.
NothingFromTheFuture ==
    /\ \A j \in JobIds : jobs[j].status # "absent" =>
                              jobs[j].upto <= arrived[jobs[j].account]
    /\ \A a \in Accounts : Coverage(a) <= arrived[a]

\* What a worker holds is still what it read: its batch is pending, its job is
\* running, so neither is touched by a handler, a recovery or another worker.
HoldsItsJobs(w) ==
    /\ \A j \in worker[w].batch : jobs[j].status = "pending"
    /\ worker[w].pc \in {"idle", "fetch"} => worker[w].batch = {}
    /\ worker[w].pc \in Generating \cup {"fail"} =>
          worker[w].job \in JobIds /\ jobs[worker[w].job].status = "running"

AfterRead == {"start", "model", "supersede", "insert"}

\* Between its read and its insert a worker has read all its job answers for and
\* all the newest narrative has; after the insert the newest narrative has.
ReadsEnough(w) ==
    /\ worker[w].pc \in AfterRead =>
          /\ jobs[worker[w].job].upto <= worker[w].seen
          /\ Coverage(Target(w)) <= worker[w].seen
          /\ worker[w].seen <= arrived[Target(w)]
    /\ worker[w].pc \in {"stamp", "finish"} =>
          jobs[worker[w].job].upto <= Coverage(Target(w))

\* Nobody inserts between a worker's supersede and its insert.
NoConflict(w) ==
    /\ worker[w].pc # "conflict"
    /\ worker[w].pc = "insert" => ActiveRows(Target(w)) = {}

WorkerInv(w) == HoldsItsJobs(w) /\ ReadsEnough(w) /\ NoConflict(w)

LaneInv ==
    /\ TypeInv
    /\ SingleLane
    /\ NothingFromTheFuture
    /\ \A w \in Workers : WorkerInv(w)
    /\ DoneMeansCovered
=============================================================================
