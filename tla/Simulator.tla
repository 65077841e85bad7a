----------------------------- MODULE Simulator ------------------------------
(***************************************************************************)
(* scripts/simulate_history.py and the tables it fills: an operator        *)
(* authors or bootstraps a trajectory spec, runs the executor over its     *)
(* pending entries (src/simulator/executor.py), reverts it from a date, or *)
(* audits the narratives (scripts/audit_narratives.py).  One command runs  *)
(* at a time; any call of it may fail and its process may die anywhere.    *)
(* The ingested mails also queue production jobs, so a production worker   *)
(* replaces narratives of the same accounts meanwhile; NarrativeRegen has  *)
(* the queue and the worker in full.                                       *)
(*                                                                         *)
(* Grain: one action per round trip to Postgres that writes, and one per   *)
(* save of the spec file, whose write is taken to be atomic.               *)
(***************************************************************************)
EXTENDS Trajectory, NarrativeAudit

CONSTANTS
    Today,          \* the day all commands run on
    MaxSnapshots,   \* bound on production generations
    MaxEvents,      \* bound on commands, resumed runs aside, and generations together
    Shapes,         \* primitives and params an author types
    TypedStarts,    \* start dates an author types instead of the default
    Spans,          \* days from an authored start to its end
    Overrides,      \* [dates, shape] typed for a single account
    BootWeeks,      \* --bootstrap --weeks
    RevertDates,    \* --revert-from
    RunOptions,     \* option records of a run command
    Sources,        \* --audit-source
    Horizon         \* a date after all others

ASSUME SimulatorAssumption ==
    /\ IsFiniteSet(Accounts)
    /\ Null \notin Accounts \cup Int
    /\ Jitter \in [Salts -> BOOLEAN] /\ High \in [Salts -> BOOLEAN]
    /\ {MaxEvents, MaxSnapshots} \subseteq Nat
    /\ {Today, Horizon} \cup TypedStarts \cup Spans \cup BootWeeks \cup RevertDates \subseteq Int
    /\ \A o \in Overrides : o.dates[1] \in Int /\ o.dates[2] \in Int
    /\ \A d \in RevertDates : d < Horizon
    /\ RunOptions \subseteq [force : BOOLEAN, dry : BOOLEAN, limit : Nat \cup {Null},
                             audit : {"none", "final", "all"}, retries : Nat,
                             only : SUBSET Accounts]

VARIABLES
    file,           \* the spec file: account -> entries, or Null before it exists
    signals,        \* signals of simulated weeks: [key, day]
    narratives,     \* the narratives table, of all accounts
    rows,           \* narratives inserted so far
    scored,         \* <<table, account>> with rows in account_dimension_scores or
                    \* account_health_snapshots
    due,            \* accounts with a pending regen job
    worker,         \* the account whose narrative a production worker replaces
    snapshots,      \* production generations so far
    cmd,            \* the command in progress
    commands,       \* commands and audit runs so far
    entryIds,       \* entries authored or proposed so far
    exit,           \* what the last audit command returned
    \* History of the operator's decisions and of accepted losses.
    consented,      \* entries authored over others or with dates of their own
    excused,        \* <<entry, week>> without a narrative of its own, knowingly
    finished,       \* entries that a run has taken through all their weeks
    cut,            \* the earliest date a revert was asked for
    late            \* whether a revert was from a date after today

tables == <<signals, narratives, rows, scored>>
production == <<due, worker, snapshots>>
history == <<consented, excused, finished, cut, late>>
vars == <<file, tables, production, cmd, commands, entryIds, exit, history,
          audits, auditRuns, auditor, faults>>

-----------------------------------------------------------------------------
NoCommand == [kind |-> "none", pc |-> "none", run |-> 0]
NoExit == [code |-> Null, run |-> 0, corpus |-> {}, tuning |-> FALSE]
DefaultOptions == [force |-> FALSE, dry |-> FALSE, limit |-> Null, audit |-> "final",
                   retries |-> 1, only |-> Accounts]

Init ==
    /\ file = Null
    /\ signals = {} /\ narratives = {} /\ rows = 0 /\ scored = {}
    /\ due = {} /\ worker = Null /\ snapshots = 0
    /\ cmd = NoCommand /\ commands = 0 /\ entryIds = 0 /\ exit = NoExit
    /\ consented = {} /\ excused = {} /\ finished = {} /\ cut = Horizon /\ late = FALSE
    /\ AuditInit

Active(a) == {r \in narratives : r.account = a /\ r.active}
Deactivated(a) == {IF r.account = a THEN [r EXCEPT !.active = FALSE] ELSE r : r \in narratives}

Idle == cmd = NoCommand
Finish == cmd' = NoCommand

\* An operator types a command while none runs.
Issue ==
    /\ Idle
    /\ commands + snapshots < MaxEvents
    /\ commands' = commands + 1
    /\ exit' = NoExit

\* Where the entries of the accounts asked for are: <<account, position>>.
Places(spec, o) == UNION {{a} \X DOMAIN spec[a] : a \in DOMAIN spec \cap o.only}

\* Mutant: an entry that has a narrative already counts as generated.
Fresh(spec, o) ==
    {x \in Places(spec, o) : ~\E r \in narratives : r.entry = spec[x[1]][x[2]].id}

\* The entries a run is to generate.
PendingOf(spec, o) == {x \in Places(spec, o) : ~spec[x[1]][x[2]].done \/ o.force}

\* run once it has read the spec from the file.
Running(spec, options) ==
    [kind |-> "run", pc |-> "next", run |-> commands', spec |-> spec, opts |-> options,
     queue |-> PendingOf(spec, options), at |-> Null, week |-> 1, attempt |-> 0, events |-> <<>>,
     next |-> 1, got |-> 0, row |-> 0]

-----------------------------------------------------------------------------
(* author.py and bootstrap.py: read the spec and the accounts, save the spec. *)

\* The identity of account a's new entry.
NewId(chosen, a) == entryIds + CHOOSE i \in DOMAIN SetToSeq(chosen) : SetToSeq(chosen)[i] = a

Collides(chosen, asked) ==
    \E a \in chosen : CheckCollision(EntriesOf(file, a), asked[1], asked[2]) # Null

\* The dates and the shape of each account: those of all, or its own.
Customized(chosen, asked, shape) ==
    [chosen -> {[dates |-> asked, shape |-> shape]} \cup Overrides]

\* Mutant: the entries are saved as they were typed.
SaveTyped(new, generate) ==
    /\ file' = new
    /\ cmd' = IF generate THEN Running(new, DefaultOptions) ELSE NoCommand

\* The spec is saved and, if asked for, run; an entry that does not validate ends
\* the session before.
SaveAuthored(new, generate) ==
    /\ \A e \in Entries(new) : Validates(e)
    /\ file' = new
    /\ cmd' = IF generate THEN Running(new, DefaultOptions) ELSE NoCommand

\* run_author_tui: an overlap with existing entries needs the author's consent, but
\* the dates typed for one account are not looked at again.
Author ==
    /\ Issue
    /\ \E chosen \in (SUBSET Offered) \ {{}}, shape \in Shapes, salt \in Salts,
          start \in {NextAvailableStart(file, Today)} \cup TypedStarts, span \in Spans,
          generate \in BOOLEAN :
         LET asked == <<start, start + span>>
         IN \E own \in Customized(chosen, asked, shape) :
              LET new == WithEntries(file, [a \in chosen |->
                             Authored(NewId(chosen, a), own[a].shape, asked, own[a].dates, salt)])
                  told == {e \in Entries(new) :
                             /\ e.id > entryIds
                             /\ Collides(chosen, asked) \/ <<e.start, e.end>> # asked}
              IN /\ SaveAuthored(new, generate)
                 /\ entryIds' = entryIds + Cardinality(chosen)
                 /\ consented' = consented \cup {e.id : e \in told}
    /\ UNCHANGED <<tables, production, excused, finished, cut, late,
                   audits, auditRuns, auditor, faults>>

\* bootstrap_workspace; an existing file needs --force.  A failed query of the
\* accounts proposes nothing, and the file is written all the same; an entry that
\* does not validate, for want of a week, ends the command before.
Bootstrap ==
    /\ Issue
    /\ \E force \in BOOLEAN, salt \in Salts, weeks \in BootWeeks, known \in {Eligible, {}} :
         LET entry(a, id) == Proposed(a, EntriesOf(file, a), id, Today, weeks, salt)
             chosen == {a \in known : entry(a, 0) # Null}
         IN /\ file = Null \/ force
            /\ \/ known = Eligible /\ UNCHANGED faults
               \/ known = {} /\ faults < MaxFaults /\ faults' = faults + 1
            /\ \A a \in chosen : Validates(entry(a, 0))
            /\ file' = WithEntries(file, [a \in chosen |-> entry(a, NewId(chosen, a))])
            /\ entryIds' = entryIds + Cardinality(chosen)
    /\ UNCHANGED <<tables, production, cmd, history, audits, auditRuns, auditor>>

-----------------------------------------------------------------------------
(* executor.run *)

Run ==
    /\ Issue
    /\ file # Null
    /\ \E o \in RunOptions : cmd' = Running(file, o)
    /\ UNCHANGED <<file, tables, production, entryIds, history, audits, auditRuns, auditor, faults>>

Unfinished == file # Null /\ \E e \in Entries(file) : ~e.done

\* The operator runs the command again as long as an entry is pending.  These
\* runs do not count as commands.
Resume ==
    /\ Idle
    /\ Unfinished
    /\ UNCHANGED commands
    /\ cmd' = Running(file, DefaultOptions)
    /\ exit' = NoExit
    /\ UNCHANGED <<file, tables, production, entryIds, history, audits, auditRuns, auditor, faults>>

Account == cmd.at[1]
Entry == cmd.spec[cmd.at[1]][cmd.at[2]]
Now(pc) == cmd.kind = "run" /\ cmd.pc = pc
Goto(pc) == cmd' = [cmd EXCEPT !.pc = pc]

\* effective_weeks
NWeeks == IF cmd.opts.limit = Null THEN Len(WeekStarts(Entry))
          ELSE Min({cmd.opts.limit, Len(WeekStarts(Entry))})

\* _process_week: the week's scenario first, then its signals.
Attempt(n) == [cmd EXCEPT !.pc = "ingest", !.attempt = n, !.next = 1, !.got = 0, !.row = 0,
                          !.events = Events(Entry, cmd.week)]

\* One account after the other, and of an account its earliest pending entry.
NextEntry ==
    /\ Now("next")
    /\ IF cmd.queue = {} THEN Finish
       ELSE \E x \in cmd.queue :
              /\ cmd.at # Null /\ (\E y \in cmd.queue : y[1] = cmd.at[1]) => x[1] = cmd.at[1]
              /\ \A y \in cmd.queue : x[1] = y[1] =>
                   \/ cmd.spec[x[1]][x[2]].start < cmd.spec[y[1]][y[2]].start
                   \/ cmd.spec[x[1]][x[2]].start = cmd.spec[y[1]][y[2]].start /\ x[2] <= y[2]
              /\ cmd' = [cmd EXCEPT !.at = x, !.queue = @ \ {x}, !.week = 1, !.pc = "week"]
    /\ UNCHANGED <<file, tables, production, commands, entryIds, exit, history,
                   audits, auditRuns, auditor, faults>>

\* _process_week or, after the last week, the stamp.  A dry run prints the week.
NextWeek ==
    /\ Now("week")
    /\ cmd' = IF cmd.week > NWeeks THEN [cmd EXCEPT !.pc = "stamp"]
              ELSE IF cmd.opts.dry THEN [cmd EXCEPT !.week = @ + 1]
              ELSE Attempt(0)
    /\ UNCHANGED <<file, tables, production, commands, entryIds, exit, history,
                   audits, auditRuns, auditor, faults>>

\* Mutant: a stored signal is left out of the week's list.
OnlyNew(stored) == IF stored THEN 0 ELSE 1

\* What run_scenario gets back of a signal: a stored one is answered with its row.
Returned(stored) == 1

\* run_scenario, one event: process_event for a mail, normalize_product_event for
\* a product event; only the former calls schedule_regen.
IngestSignal ==
    /\ Now("ingest")
    /\ cmd.next <= Len(cmd.events)
    /\ LET event == cmd.events[cmd.next]
           key == Key(Account, Entry, cmd.week, event)
           stored == \E s \in signals : s.key = key
       IN /\ signals' = IF stored THEN signals
                        ELSE signals \cup {[key |-> key, day |-> event.day]}
          /\ due' = IF event.kind = "inbound_email" THEN due \cup {Account} ELSE due
          /\ cmd' = [cmd EXCEPT !.next = @ + 1, !.got = @ + Returned(stored)]
    /\ UNCHANGED <<file, narratives, rows, scored, worker, snapshots, commands, entryIds,
                   exit, history, audits, auditRuns, auditor, faults>>

\* _ingest_week swallows a unique violation: the week goes on without signals.
IngestClash ==
    /\ Now("ingest")
    /\ cmd.next <= Len(cmd.events)
    /\ faults < MaxFaults
    /\ faults' = faults + 1
    /\ cmd' = [cmd EXCEPT !.next = Len(cmd.events) + 1, !.got = 0]
    /\ UNCHANGED <<file, tables, production, commands, entryIds, exit, history,
                   audits, auditRuns, auditor>>

\* generate_narrative up to supersede_current_narrative, the model's answer included.
Supersede ==
    /\ Now("ingest")
    /\ cmd.next > Len(cmd.events)
    /\ narratives' = Deactivated(Account)
    /\ Goto("insert")
    /\ UNCHANGED <<file, signals, rows, scored, production, commands, entryIds, exit,
                   history, audits, auditRuns, auditor, faults>>

\* insert_narrative under narratives_active_per_account; then the scores, whose
\* failure is logged.
InsertNarrative ==
    /\ Now("insert")
    /\ Active(Account) = {}
    /\ rows' = rows + 1
    /\ narratives' = narratives \cup
         {[row |-> rows + 1, account |-> Account, entry |-> Entry.id, week |-> cmd.week,
           dated |-> Today, active |-> TRUE, read |-> cmd.got]}
    /\ \/ /\ scored' = scored \cup ({"scores", "snapshots"} \X {Account})
          /\ UNCHANGED faults
       \/ /\ scored' \in {scored, scored \cup {<<"scores", Account>>}}
          /\ faults < MaxFaults /\ faults' = faults + 1
    /\ cmd' = [cmd EXCEPT !.pc = "backdate", !.row = rows + 1]
    /\ UNCHANGED <<file, signals, production, commands, entryIds, exit, history,
                   audits, auditRuns, auditor>>

\* The production worker was faster: its narrative is returned as this week's.
InsertConflict ==
    /\ Now("insert")
    /\ Active(Account) # {}
    /\ excused' = excused \cup {<<Entry.id, cmd.week>>}
    /\ Goto("conflict")
    /\ UNCHANGED <<file, tables, production, commands, entryIds, exit, consented, finished,
                   cut, late, audits, auditRuns, auditor, faults>>

WeekDone == [cmd EXCEPT !.week = @ + 1, !.pc = "week", !.events = <<>>]

\* With no active narrative left the violation is raised, and a raised unique
\* violation counts as success of the week.
ReadWinner ==
    /\ Now("conflict")
    /\ cmd' = IF Active(Account) = {} THEN WeekDone
              ELSE [cmd EXCEPT !.pc = "backdate", !.row = (CHOOSE r \in Active(Account) : TRUE).row]
    /\ UNCHANGED <<file, tables, production, commands, entryIds, exit, history,
                   audits, auditRuns, auditor, faults>>

ShouldAudit == \/ cmd.opts.audit = "all"
               \/ cmd.opts.audit = "final" /\ cmd.week = NWeeks

Written == IF ShouldAudit THEN [cmd EXCEPT !.pc = "audit"] ELSE WeekDone

\* The row gets the week's end as its date.  A failed update is logged and leaves
\* it dated today.
Backdate ==
    /\ Now("backdate")
    /\ \/ /\ narratives' = {IF r.row = cmd.row
                            THEN [r EXCEPT !.dated = WeekEnd(Entry, cmd.week)] ELSE r :
                            r \in narratives}
          /\ UNCHANGED <<excused, faults>>
       \/ /\ faults < MaxFaults /\ faults' = faults + 1
          /\ excused' = excused \cup {<<Entry.id, cmd.week>>}
          /\ UNCHANGED narratives
    /\ IF ShouldAudit THEN Begin(cmd.row, cmd.run) ELSE UNCHANGED auditor
    /\ cmd' = Written
    /\ UNCHANGED <<file, signals, rows, scored, production, commands, entryIds, exit,
                   consented, finished, cut, late, audits, auditRuns>>

\* _audit_narrative returns, an exception of the harness included.
AuditReturns ==
    /\ Now("audit")
    /\ auditor.pc \in {"done", "raised"}
    /\ auditor' = NoAudit
    /\ cmd' = WeekDone
    /\ UNCHANGED <<file, tables, production, commands, entryIds, exit, history,
                   audits, auditRuns, faults>>

Stamped == [cmd.spec EXCEPT ![cmd.at[1]][cmd.at[2]].done = TRUE]

\* The weeks a dry or limited run stamps without generating them.
Skipped == {<<Entry.id, w>> : w \in {w \in Weeks(Entry) : cmd.opts.dry \/ w > NWeeks}}

\* Mutant: the stamp stays in memory.
StampInMemory ==
    /\ Now("stamp")
    /\ cmd' = [cmd EXCEPT !.spec = Stamped, !.pc = "next"]
    /\ excused' = excused \cup Skipped
    /\ finished' = finished \cup {Entry.id}
    /\ UNCHANGED <<file, tables, production, commands, entryIds, exit, consented, cut, late,
                   audits, auditRuns, auditor, faults>>

\* entry.generated_at = now; save_spec
Stamp ==
    /\ Now("stamp")
    /\ cmd' = [cmd EXCEPT !.spec = Stamped, !.pc = "next"]
    /\ file' = Stamped
    /\ excused' = excused \cup Skipped
    /\ finished' = finished \cup {Entry.id}
    /\ UNCHANGED <<tables, production, commands, entryIds, exit, consented, cut, late,
                   audits, auditRuns, auditor, faults>>

\* Mutant: an exhausted week is skipped and its entry goes on.
SkipWeek == IF cmd.attempt < cmd.opts.retries THEN Attempt(cmd.attempt + 1) ELSE WeekDone

\* Where the executor goes when a week fails: retry, or leave the entry pending.
AfterFailure == IF cmd.attempt < cmd.opts.retries THEN Attempt(cmd.attempt + 1)
                ELSE [cmd EXCEPT !.pc = "next", !.events = <<>>]

\* A call of ingestion or generation raises, after the narrative was written too.
AttemptFails ==
    /\ cmd.kind = "run" /\ cmd.pc \in {"ingest", "insert", "conflict", "backdate"}
    /\ faults < MaxFaults
    /\ faults' = faults + 1
    /\ cmd' = AfterFailure
    /\ UNCHANGED <<file, tables, production, commands, entryIds, exit, history,
                   audits, auditRuns, auditor>>

-----------------------------------------------------------------------------
(* executor.revert_from *)

Reverted == DOMAIN cmd.spec
Doomed == {r \in narratives : r.account \in Reverted /\ r.dated >= cmd.date}
Reverting(pc) == cmd.kind = "revert" /\ cmd.pc = pc

\* The spec and the ids of the narratives whose audits go first.  A spec without
\* accounts ends the command.
Revert ==
    /\ Issue
    /\ file # Null
    /\ DOMAIN file # {}
    /\ \E d \in RevertDates :
         /\ cmd' = [kind |-> "revert", pc |-> "audits", run |-> 0, spec |-> file, date |-> d,
                    rows |-> {r.row : r \in {x \in narratives : x.account \in DOMAIN file /\ x.dated >= d}}]
         /\ cut' = Min({cut, d})
         /\ late' = (late \/ d > Today)
    /\ UNCHANGED <<file, tables, production, entryIds, consented, excused, finished,
                   audits, auditRuns, auditor, faults>>

DeleteAudits ==
    /\ Reverting("audits")
    /\ audits' = {a \in audits : a.row \notin cmd.rows}
    /\ Goto("runs")
    /\ UNCHANGED <<file, tables, production, commands, entryIds, exit, history,
                   auditRuns, auditor, faults>>

DeleteAuditRuns ==
    /\ Reverting("runs")
    /\ auditRuns' = {a \in auditRuns : a.row \notin cmd.rows}
    /\ Goto("signals")
    /\ UNCHANGED <<file, tables, production, commands, entryIds, exit, history,
                   audits, auditor, faults>>

DeleteSignals ==
    /\ Reverting("signals")
    /\ signals' = {s \in signals : ~(s.key.account \in Reverted /\ s.day >= cmd.date)}
    /\ Goto("narratives")
    /\ UNCHANGED <<file, narratives, rows, scored, production, commands, entryIds, exit,
                   history, audits, auditRuns, auditor, faults>>

DeleteNarratives ==
    /\ Reverting("narratives")
    /\ narratives' = narratives \ Doomed
    /\ Goto("scores")
    /\ UNCHANGED <<file, signals, rows, scored, production, commands, entryIds, exit,
                   history, audits, auditRuns, auditor, faults>>

\* What the wall clock has dated in a table goes when the date is not after today.
Cleared(table) == IF Today >= cmd.date THEN scored \ ({table} \X Reverted) ELSE scored

DeleteScores ==
    /\ Reverting("scores")
    /\ scored' = Cleared("scores")
    /\ Goto("snapshots")
    /\ UNCHANGED <<file, signals, narratives, rows, production, commands, entryIds, exit,
                   history, audits, auditRuns, auditor, faults>>

DeleteSnapshots ==
    /\ Reverting("snapshots")
    /\ scored' = Cleared("snapshots")
    /\ Goto("prune")
    /\ UNCHANGED <<file, signals, narratives, rows, production, commands, entryIds, exit,
                   history, audits, auditRuns, auditor, faults>>

\* Mutant: an entry that ends after the date goes, its earlier weeks stay.
KeptEnded == [a \in DOMAIN cmd.spec |-> SelectSeq(cmd.spec[a], LAMBDA e : e.end < cmd.date)]

Kept == [a \in DOMAIN cmd.spec |-> StartBefore(cmd.spec[a], cmd.date)]

Prune ==
    /\ Reverting("prune")
    /\ file' = Kept
    /\ Finish
    /\ UNCHANGED <<tables, production, commands, entryIds, exit, history,
                   audits, auditRuns, auditor, faults>>

-----------------------------------------------------------------------------
(* audit_narratives.main *)

\* generate_audit_run_id: nightly runs of one date share their id.
Nightly == 0
RunId(source) == IF source = "nightly" THEN Nightly ELSE commands'

Audit ==
    /\ Issue
    /\ \E source \in Sources, tuning \in BOOLEAN :
         cmd' = [kind |-> "audit", pc |-> "pick", run |-> RunId(source), tuning |-> tuning,
                 corpus |-> {r.row : r \in {x \in narratives : x.active}},
                 todo |-> {r.row : r \in {x \in narratives : x.active}}, outcomes |-> <<>>]
    /\ UNCHANGED <<file, tables, production, entryIds, history, audits, auditRuns, auditor, faults>>

AuditNext ==
    /\ cmd.kind = "audit" /\ cmd.pc = "pick"
    /\ \E n \in cmd.todo : /\ Begin(n, cmd.run)
                           /\ cmd' = [cmd EXCEPT !.pc = "wait", !.todo = @ \ {n}]
    /\ UNCHANGED <<file, tables, production, commands, entryIds, exit, history,
                   audits, auditRuns, faults>>

\* Mutant: a narrative whose audit raised is left out of the verdict.
CollectAndGoOn ==
    /\ cmd.kind = "audit" /\ cmd.pc = "wait"
    /\ auditor.pc \in {"done", "raised"}
    /\ auditor' = NoAudit
    /\ cmd' = [cmd EXCEPT !.pc = "pick", !.outcomes =
                 IF auditor.pc = "done" THEN Append(@, GatePassed(auditor.failed)) ELSE @]
    /\ UNCHANGED <<file, tables, production, commands, entryIds, exit, history,
                   audits, auditRuns, faults>>

Returns(code) ==
    /\ exit' = [code |-> code, run |-> cmd.run, corpus |-> cmd.corpus, tuning |-> cmd.tuning]
    /\ Finish

\* A raised audit ends the command: with 2, or with the interpreter's 1 when the
\* context, which is fetched outside the try, cannot be read.
Collect ==
    /\ cmd.kind = "audit" /\ cmd.pc = "wait"
    /\ auditor.pc \in {"done", "raised"}
    /\ auditor' = NoAudit
    /\ IF auditor.pc = "raised"
       THEN \E code \in (IF auditor.wrote = 0 THEN {1, 2} ELSE {2}) : Returns(code)
       ELSE /\ cmd' = [cmd EXCEPT !.pc = "pick",
                                  !.outcomes = Append(@, GatePassed(auditor.failed))]
            /\ UNCHANGED exit
    /\ UNCHANGED <<file, tables, production, commands, entryIds, history,
                   audits, auditRuns, faults>>

AuditExits ==
    /\ cmd.kind = "audit" /\ cmd.pc = "pick" /\ cmd.todo = {}
    /\ Returns(IF \/ cmd.tuning /\ CorpusBlocked(cmd.outcomes)
                  \/ ~cmd.tuning /\ \E i \in DOMAIN cmd.outcomes : ~cmd.outcomes[i]
               THEN 1 ELSE 0)
    /\ UNCHANGED <<file, tables, production, commands, entryIds, history,
                   audits, auditRuns, auditor, faults>>

-----------------------------------------------------------------------------
(* The process of the command, and the production worker. *)

\* The process dies: what it held in memory is gone.
Crash ==
    /\ ~Idle
    /\ faults < MaxFaults
    /\ faults' = faults + 1
    /\ Finish
    /\ auditor' = NoAudit
    /\ UNCHANGED <<file, tables, production, commands, entryIds, exit, history, audits, auditRuns>>

WorkerSupersedes ==
    /\ worker = Null
    /\ snapshots < MaxSnapshots /\ commands + snapshots < MaxEvents
    /\ \E a \in due : /\ due' = due \ {a}
                      /\ worker' = a
                      /\ narratives' = Deactivated(a)
    /\ snapshots' = snapshots + 1
    /\ UNCHANGED <<file, signals, rows, scored, cmd, commands, entryIds, exit, history,
                   audits, auditRuns, auditor, faults>>

WorkerInserts ==
    /\ worker # Null
    /\ worker' = Null
    /\ IF Active(worker) # {} THEN UNCHANGED <<narratives, rows>>
       ELSE /\ rows' = rows + 1
            /\ narratives' = narratives \cup
                 {[row |-> rows + 1, account |-> worker, entry |-> Null, week |-> 0,
                   dated |-> Today, active |-> TRUE, read |-> 0]}
    /\ UNCHANGED <<file, signals, scored, due, snapshots, cmd, commands, entryIds, exit,
                   history, audits, auditRuns, auditor, faults>>

Audits == Auditing /\ UNCHANGED <<file, tables, production, cmd, commands, entryIds, exit, history>>

AuditCallFails ==
    CallFails /\ UNCHANGED <<file, tables, production, cmd, commands, entryIds, exit, history>>

Works == \/ NextEntry \/ NextWeek \/ IngestSignal \/ Supersede \/ InsertNarrative
         \/ InsertConflict \/ ReadWinner \/ Backdate \/ AuditReturns \/ Stamp
         \/ DeleteAudits \/ DeleteAuditRuns \/ DeleteSignals \/ DeleteNarratives
         \/ DeleteScores \/ DeleteSnapshots \/ Prune \/ AuditNext \/ Collect \/ AuditExits \/ Audits

Next == \/ Author \/ Bootstrap \/ Run \/ Resume \/ Revert \/ Audit
        \/ Works
        \/ IngestClash \/ AttemptFails \/ AuditCallFails \/ Crash
        \/ WorkerSupersedes \/ WorkerInserts

Spec == Init /\ [][Next]_vars

\* The process of a command runs on, and an operator resumes what is pending.
FairSpec == Spec /\ WF_vars(Works) /\ WF_vars(Resume) /\ WF_vars(WorkerInserts)

-----------------------------------------------------------------------------
(* Properties *)

\* The state has its type: every spec the commands leave behind loads again, and
\* the audit tables and the audit in progress have theirs.
TypeOK ==
    /\ file # Null => DOMAIN file \subseteq Accounts /\ WellFormed(file)
    /\ \A s \in signals : s.key.account \in Accounts /\ s.key.seed \in Seeds
    /\ \A r \in narratives : r.row \in 1 .. rows /\ r.account \in Accounts
    /\ scored \subseteq {"scores", "snapshots"} \X Accounts
    /\ due \subseteq Accounts /\ worker \in Accounts \cup {Null}
    /\ cmd.kind \in {"none", "run", "revert", "audit"}
    /\ commands + snapshots \in 0 .. MaxEvents
    /\ consented \cup finished \subseteq 1 .. entryIds
    /\ exit.code \in {Null, 0, 1, 2}
    /\ AuditTypeOK

\* An entry that the file says is generated has a narrative for each of its weeks,
\* dated with the week's end: whatever failed or crashed on the way, and however
\* often the entry was taken up again.  Excepted are the weeks the operator left
\* out with --dry-run or --weeks, those lost to a narrative of the production
\* worker or to a failed backdate, and what a revert deleted.
StampedIsGenerated ==
    file # Null =>
        \A e \in Entries(file) : e.done =>
            \A w \in Weeks(e) :
                \/ <<e.id, w>> \in excused
                \/ WeekEnd(e, w) >= cut
                \/ \E r \in narratives :
                      r.entry = e.id /\ r.week = w /\ r.dated = WeekEnd(e, w)

\* The simulator's narratives belong to an entry of the file: a revert that dies
\* half-way, or that meets an entry straddling its date, drops no entry whose
\* narratives it has left behind.  Excepted is what a revert from a date after today
\* leaves: a row whose run ended before the backdate is still dated today, out of that
\* revert's reach, though the entry it belongs to may start on the date or later.
NarrativesHaveEntry ==
    \A r \in narratives : r.entry # Null =>
        \/ file # Null /\ \E e \in Entries(file) : e.id = r.entry
        \/ late /\ r.dated = Today

\* A narrative of a simulated week was generated from all of the week's signals, or
\* from none after a unique violation, never from those only that a retry or a
\* second run was the first to store.
SliceIsWhole ==
    \A r \in narratives : r.entry # Null =>
        \A a \in DOMAIN file : \A e \in ToSet(file[a]) : e.id = r.entry =>
            r.read \in {0, Len(Events(e, r.week))}

\* The verdict on a narrative has all the criterion rows it was computed from: a
\* failed aggregate takes back its own narrative's rows only, and a revert leaves
\* no verdict without criteria except on narratives it was asked to delete.  A
\* nightly audit is excepted: run again on its date, it takes back the rows of the
\* run before.
AggregateBacked ==
    \A v \in auditRuns :
        \/ v.run = Nightly
        \/ \E r \in narratives : r.row = v.row /\ r.dated >= cut
        \/ \A i \in DOMAIN Criteria :
              [row |-> v.row, run |-> v.run, criterion |-> Criteria[i]] \in audits

\* Entries of one account overlap only where the author was told of an overlap and
\* went on, or typed dates for that account alone.
OverlapOnlyByConsent ==
    file # Null =>
        \A a \in DOMAIN file : \A i, j \in DOMAIN file[a] :
            i < j /\ Overlaps(file[a][i], file[a][j].start, file[a][j].end) =>
                {file[a][i].id, file[a][j].id} \cap consented # {}

\* An audit command that reports success has audited every active narrative it set
\* out to, and each passed; a tuning run may report it with up to half of them failed.
GreenMeansAudited ==
    exit.code = 0 =>
        LET verdicts == {v \in auditRuns : v.run = exit.run /\ v.row \in exit.corpus}
            failed == {v \in verdicts : ~v.passed}
        IN /\ {v.row : v \in verdicts} = exit.corpus
           /\ \/ failed = {}
              \/ exit.tuning /\ 2 * Cardinality(failed) <= Cardinality(exit.corpus)

\* An entry that a run has taken to its end is not generated a second time, by a
\* resumed run or a later command, unless the operator forces it.
CompletedNotRedone ==
    [][\A r \in narratives' \ narratives :
          r.row > rows /\ r.entry \in finished => cmd.opts.force]_vars

\* Every entry is generated in the end, or reverted: an operator who repeats the run
\* after failures and crashes is not left with an entry that stays pending.
PendingIsResumed == <>[](~Unfinished)
=============================================================================
