------------------------ MODULE NarrativeRegenProofs ------------------------
(***************************************************************************)
(* Proofs about NarrativeRegen, for every value of its constants.          *)
(*                                                                         *)
(* TypeInv is inductive whatever the workers do.  LaneInv is inductive     *)
(* when ticks do not overlap, and implies DoneMeansCovered: no finished    *)
(* job has lost a signal it was debounced for.  On top of them, three      *)
(* facts about the histories: the rows of an account are ordered in time   *)
(* when ticks do not overlap; an account keeps its one active narrative    *)
(* however many workers overlap, if nothing fails; and a schedule respects *)
(* the cap window of every earlier completion, overlap and failures        *)
(* included.                                                               *)
(***************************************************************************)
EXTENDS NarrativeRegen, FiniteSetTheorems, TLAPS

-----------------------------------------------------------------------------
(* Type correctness. *)

\* The program starts typed: empty tables, idle handlers and workers.
LEMMA TypeInit == Init => TypeInv
<1> SUFFICES ASSUME Init PROVE TypeInv
  OBVIOUS
<1>1. /\ AbsentJob \in Job /\ IdleHandler \in Handler /\ IdleWorker \in WorkerState
      /\ AbsentJob.status = "absent" /\ IdleHandler.pc = "idle"
      /\ IdleWorker.pc = "idle" /\ IdleWorker.batch = {}
  BY DEF AbsentJob, IdleHandler, IdleWorker, Job, Status, Handler, IngestPc,
         WorkerState, WorkerPc
<1>2. TypeOK
  BY <1>1, RegenAssumption DEF Init, TypeOK
<1>3. HaveAccounts /\ HoldsRows
  BY <1>1 DEF Init, HaveAccounts, HoldsRows, Generating
<1> QED
  BY <1>2, <1>3 DEF TypeInv

\* The rows supersede_current_narrative leaves behind.
LEMMA SupersedeRows ==
  ASSUME NEW s \in Seq(Narrative), NEW t \in Nat, NEW r,
         r = [i \in 1..Len(s) |-> IF s[i].superseded = None
                                  THEN [s[i] EXCEPT !.superseded = t] ELSE s[i]]
  PROVE  /\ r \in Seq(Narrative)
         /\ Len(r) = Len(s)
         /\ \A i \in 1..Len(s) : /\ r[i].covers = s[i].covers
                                  /\ r[i].superseded # None
<1>1. \A i \in 1..Len(s) : s[i] \in Narrative
  OBVIOUS
<1>2. \A i \in 1..Len(s) : /\ r[i] \in Narrative
                           /\ r[i].covers = s[i].covers
                           /\ r[i].superseded # None
  BY <1>1, RegenAssumption DEF Narrative
<1> QED
  BY <1>2

\* Replacing one row of the job table.
LEMMA JobUpdate ==
  ASSUME NEW f \in [JobIds -> Job], NEW j \in JobIds, NEW r \in Job
  PROVE  /\ [f EXCEPT ![j] = r] \in [JobIds -> Job]
         /\ [f EXCEPT ![j] = r][j] = r
         /\ \A k \in JobIds : k # j => [f EXCEPT ![j] = r][k] = f[k]
  OBVIOUS

\* A trigger answered by the pending job j of account a.
LEMMA AnswerUpdate ==
  ASSUME TypeOK, NEW a \in Accounts, NEW j \in JobIds,
         jobs' = [jobs EXCEPT ![j].upto = arrived[a]]
  PROVE  /\ jobs' \in [JobIds -> Job]
         /\ jobs'[j].upto = arrived[a]
         /\ \A k \in JobIds : /\ jobs'[k].status = jobs[k].status
                              /\ jobs'[k].account = jobs[k].account
                              /\ k # j => jobs'[k] = jobs[k]
<1> DEFINE r == [jobs[j] EXCEPT !.upto = arrived[a]]
<1>1. jobs \in [JobIds -> Job] /\ jobs[j] \in Job /\ arrived[a] \in Nat
  BY DEF TypeOK
<1>2. /\ r \in Job /\ r.status = jobs[j].status /\ r.account = jobs[j].account
      /\ r.upto = arrived[a]
  BY <1>1 DEF Job
<1>3. jobs' = [jobs EXCEPT ![j] = r]
  BY <1>1
<1> QED
  BY <1>1, <1>2, <1>3, JobUpdate

\* update_job_status on the row j.
LEMMA StatusUpdate ==
  ASSUME TypeOK, NEW j \in JobIds, NEW st \in Status,
         jobs' = [jobs EXCEPT ![j].status = st, ![j].updated = now]
  PROVE  /\ jobs' \in [JobIds -> Job]
         /\ jobs'[j].status = st
         /\ \A k \in JobIds : /\ jobs'[k].account = jobs[k].account
                              /\ jobs'[k].upto = jobs[k].upto
                              /\ k # j => jobs'[k] = jobs[k]
<1> DEFINE r == [jobs[j] EXCEPT !.status = st, !.updated = now]
<1>1. jobs \in [JobIds -> Job] /\ jobs[j] \in Job /\ now \in Nat
  BY DEF TypeOK
<1>2. /\ r \in Job /\ r.status = st /\ r.account = jobs[j].account
      /\ r.upto = jobs[j].upto
  BY <1>1 DEF Job
<1>3. jobs' = [jobs EXCEPT ![j] = r]
  BY <1>1
<1> QED
  BY <1>1, <1>2, <1>3, JobUpdate

\* A row of the table stays one, of the same account.
RowsKept == \A k \in JobIds : /\ jobs'[k].account = jobs[k].account
                              /\ jobs'[k].status = "absent" <=> jobs[k].status = "absent"

\* Every step of a handler, a worker, a user or the clock keeps the types, the
\* accounts that handlers and workers hold, and the rows in a worker's batch.
LEMMA TypeStep == TypeInv /\ [Next]_vars => TypeInv'
<1> SUFFICES ASSUME TypeInv, [Next]_vars PROVE TypeInv'
  OBVIOUS
<1>t. TypeOK /\ HaveAccounts /\ HoldsRows
  BY DEF TypeInv

<1>1. ASSUME NEW i \in Ingesters, NEW a \in Accounts, SignalLands(i, a) PROVE TypeInv'
  <2>1. TypeOK'
    <3>1. ingest' \in [Ingesters -> Handler]
      <4>1. ingest[i] \in Handler
        BY <1>t DEF TypeOK
      <4> QED
        BY <1>t, <1>1, <4>1, RegenAssumption DEF SignalLands, TypeOK, HaveAccounts,
           Handler, IngestPc, IdleHandler
    <3> QED
      BY <1>t, <1>1, <3>1, RegenAssumption DEF SignalLands, TypeOK
  <2>2. HaveAccounts'
    BY <1>t, <1>1, RegenAssumption DEF SignalLands, TypeOK, HaveAccounts, Handler,
       IngestPc, IdleHandler
  <2>3. HoldsRows'
    BY <1>t, <1>1, RegenAssumption DEF SignalLands, TypeOK, HoldsRows, Job, Status,
       Generating
  <2> QED
    BY <2>1, <2>2, <2>3 DEF TypeInv
<1>2. ASSUME NEW i \in Ingesters, CaptureNow(i) PROVE TypeInv'
  <2>1. TypeOK'
    <3>1. ingest' \in [Ingesters -> Handler]
      <4>1. ingest[i] \in Handler
        BY <1>t DEF TypeOK
      <4> QED
        BY <1>t, <1>2, <4>1, RegenAssumption DEF CaptureNow, TypeOK, HaveAccounts,
           Handler, IngestPc, IdleHandler
    <3> QED
      BY <1>t, <1>2, <3>1, RegenAssumption DEF CaptureNow, TypeOK
  <2>2. HaveAccounts'
    BY <1>t, <1>2, RegenAssumption DEF CaptureNow, TypeOK, HaveAccounts, Handler,
       IngestPc, IdleHandler
  <2>3. HoldsRows'
    BY <1>t, <1>2, RegenAssumption DEF CaptureNow, TypeOK, HoldsRows, Job, Status,
       Generating
  <2> QED
    BY <2>1, <2>2, <2>3 DEF TypeInv
<1>3. ASSUME NEW i \in Ingesters, DebounceCheck(i) PROVE TypeInv'
  <2> DEFINE a == ingest[i].account
  <2>1. ingest[i] \in Handler /\ ingest[i].pc = "debounce" /\ a \in Accounts
    BY <1>t, <1>3 DEF DebounceCheck, TypeOK, HaveAccounts
  <2>2. ASSUME NEW j \in JobIds, jobs[j].status = "pending",
               jobs' = [jobs EXCEPT ![j].upto = arrived[a]],
               ingest' = [ingest EXCEPT ![i] = IdleHandler]
        PROVE TypeInv'
    <3>1. jobs' \in [JobIds -> Job] /\ RowsKept
      BY <1>t, <2>1, <2>2, AnswerUpdate DEF RowsKept
    <3>2. ingest' \in [Ingesters -> Handler]
      BY <1>t, <2>2 DEF TypeOK, Handler, IngestPc, IdleHandler
    <3>3. TypeOK'
      BY <1>t, <1>3, <3>1, <3>2 DEF DebounceCheck, TypeOK
    <3>4. HaveAccounts'
      BY <1>t, <2>2, <3>1 DEF RowsKept, HaveAccounts, IdleHandler, TypeOK
    <3>5. HoldsRows'
      BY <1>t, <1>3, <3>1 DEF DebounceCheck, RowsKept, HoldsRows, TypeOK, WorkerState
    <3> QED
      BY <3>3, <3>4, <3>5 DEF TypeInv
  <2>3. ASSUME ingest' = [ingest EXCEPT ![i].pc = "cap"], UNCHANGED jobs
        PROVE TypeInv'
    <3>1. ingest' \in [Ingesters -> Handler]
      BY <1>t, <2>1, <2>3 DEF TypeOK, Handler, IngestPc
    <3>2. TypeOK'
      BY <1>t, <1>3, <2>3, <3>1 DEF DebounceCheck, TypeOK
    <3>3. HaveAccounts'
      BY <1>t, <2>1, <2>3 DEF HaveAccounts, TypeOK
    <3>4. HoldsRows'
      BY <1>t, <1>3, <2>3 DEF DebounceCheck, HoldsRows
    <3> QED
      BY <3>2, <3>3, <3>4 DEF TypeInv
  <2> QED
    BY <1>3, <2>2, <2>3 DEF DebounceCheck, Upcoming
<1>4. ASSUME NEW i \in Ingesters, CapCheck(i) PROVE TypeInv'
  <2>1. ingest[i] \in Handler /\ ingest[i].pc = "cap" /\ ingest[i].account \in Accounts
    BY <1>t, <1>4 DEF CapCheck, TypeOK, HaveAccounts
  <2>2. PICK t \in Nat :
          ingest' = [ingest EXCEPT ![i].pc = "insert", ![i].scheduled = t]
    <3>1. \A j \in JobIds : jobs[j].updated \in Nat
      BY <1>t DEF TypeOK, Job
    <3>2. ingest[i].at \in Nat
      BY <2>1 DEF Handler
    <3> QED
      BY <1>4, <3>1, <3>2, RegenAssumption DEF CapCheck, RecentlyDone
  <2>3. ingest' \in [Ingesters -> Handler]
    BY <1>t, <2>1, <2>2 DEF TypeOK, Handler, IngestPc
  <2>4. TypeOK'
    BY <1>t, <1>4, <2>3 DEF CapCheck, TypeOK
  <2>5. HaveAccounts'
    <3>1. ingest'[i].account = ingest[i].account
      BY <1>t, <2>1, <2>2 DEF TypeOK, Handler
    <3>2. \A k \in Ingesters \ {i} : ingest'[k] = ingest[k]
      BY <1>t, <2>2 DEF TypeOK
    <3> QED
      BY <1>t, <1>4, <2>1, <3>1, <3>2 DEF CapCheck, HaveAccounts
  <2>6. HoldsRows'
    BY <1>t, <1>4 DEF CapCheck, HoldsRows
  <2> QED
    BY <2>4, <2>5, <2>6 DEF TypeInv
<1>5. ASSUME NEW i \in Ingesters, InsertJob(i) PROVE TypeInv'
  <2> DEFINE r == [status |-> "pending", account |-> ingest[i].account,
                   scheduled |-> ingest[i].scheduled, updated |-> now,
                   upto |-> arrived[ingest[i].account]]
  <2>1. ingest[i] \in Handler /\ ingest[i].account \in Accounts
    BY <1>t, <1>5 DEF InsertJob, TypeOK, HaveAccounts
  <2>2. r \in Job
    BY <1>t, <2>1 DEF TypeOK, Handler, Job, Status
  <2>3. PICK j \in JobIds : jobs[j].status = "absent" /\ jobs' = [jobs EXCEPT ![j] = r]
    BY <1>5 DEF InsertJob
  <2>4. /\ jobs' \in [JobIds -> Job]
        /\ jobs'[j] = r
        /\ \A k \in JobIds : k # j => jobs'[k] = jobs[k]
    BY <1>t, <2>2, <2>3, JobUpdate DEF TypeOK
  <2>5. ingest' \in [Ingesters -> Handler]
    BY <1>t, <1>5 DEF InsertJob, TypeOK, Handler, IngestPc, IdleHandler
  <2>6. TypeOK'
    BY <1>t, <1>5, <2>4, <2>5 DEF InsertJob, TypeOK
  <2>7. HaveAccounts'
    BY <1>t, <1>5, <2>1, <2>4 DEF InsertJob, HaveAccounts, TypeOK, IdleHandler
  <2>8. HoldsRows'
    BY <1>t, <1>5, <2>4 DEF InsertJob, HoldsRows
  <2> QED
    BY <2>6, <2>7, <2>8 DEF TypeInv
<1>6. ASSUME NEW i \in Ingesters, IngestCrash(i) PROVE TypeInv'
  <2>1. TypeOK'
    <3>1. ingest' \in [Ingesters -> Handler]
      <4>1. ingest[i] \in Handler
        BY <1>t DEF TypeOK
      <4> QED
        BY <1>t, <1>6, <4>1, RegenAssumption DEF IngestCrash, TypeOK, HaveAccounts,
           Handler, IngestPc, IdleHandler
    <3> QED
      BY <1>t, <1>6, <3>1, RegenAssumption DEF IngestCrash, TypeOK
  <2>2. HaveAccounts'
    BY <1>t, <1>6, RegenAssumption DEF IngestCrash, TypeOK, HaveAccounts, Handler,
       IngestPc, IdleHandler
  <2>3. HoldsRows'
    BY <1>t, <1>6, RegenAssumption DEF IngestCrash, TypeOK, HoldsRows, Job, Status,
       Generating
  <2> QED
    BY <2>1, <2>2, <2>3 DEF TypeInv
<1>7. ASSUME NEW a \in Accounts, ManualRegenerate(a) PROVE TypeInv'
  <2>1. PICK j \in JobIds :
           jobs[j].status = "pending" /\ jobs' = [jobs EXCEPT ![j].upto = arrived[a]]
    BY <1>7 DEF ManualRegenerate, Upcoming
  <2>2. jobs' \in [JobIds -> Job] /\ RowsKept
    BY <1>t, <2>1, AnswerUpdate DEF RowsKept
  <2>3. TypeOK'
    BY <1>t, <1>7, <2>2 DEF ManualRegenerate, TypeOK
  <2>4. HaveAccounts'
    BY <1>t, <1>7, <2>2 DEF ManualRegenerate, RowsKept, HaveAccounts
  <2>5. HoldsRows'
    BY <1>t, <1>7, <2>2 DEF ManualRegenerate, RowsKept, HoldsRows, TypeOK, WorkerState
  <2> QED
    BY <2>3, <2>4, <2>5 DEF TypeInv
<1>8. ASSUME NEW a \in Accounts, DismissAccount(a) PROVE TypeInv'
  <2>1. TypeOK'
    <3> QED
      BY <1>t, <1>8, RegenAssumption DEF DismissAccount, TypeOK
  <2>2. HaveAccounts'
    BY <1>t, <1>8, RegenAssumption DEF DismissAccount, TypeOK, HaveAccounts, Job, Status
  <2>3. HoldsRows'
    BY <1>t, <1>8, RegenAssumption DEF DismissAccount, TypeOK, HoldsRows, Job, Status,
       Generating
  <2> QED
    BY <2>1, <2>2, <2>3 DEF TypeInv
<1>9. ASSUME NEW w \in Workers, StartTick(w) PROVE TypeInv'
  <2>1. \A j \in JobIds : jobs[j] \in Job
    BY <1>t DEF TypeOK
  <2>2. jobs' \in [JobIds -> Job] /\ RowsKept
    BY <1>t, <1>9, <2>1 DEF StartTick, RowsKept, TypeOK, Job, Status
  <2>3. worker[w] \in WorkerState
    BY <1>t DEF TypeOK
  <2>4. worker' \in [Workers -> WorkerState]
    BY <1>t, <1>9, <2>3 DEF StartTick, TypeOK, WorkerState, WorkerPc
  <2>5. TypeOK'
    BY <1>t, <1>9, <2>2, <2>4 DEF StartTick, TypeOK
  <2>6. HaveAccounts'
    BY <1>t, <1>9, <2>2 DEF StartTick, RowsKept, HaveAccounts
  <2>7. HoldsRows'
    BY <1>t, <1>9, <2>2 DEF StartTick, RowsKept, HoldsRows, TypeOK, WorkerState, Generating
  <2> QED
    BY <2>5, <2>6, <2>7 DEF TypeInv
<1>10. ASSUME NEW w \in Workers, FetchJobs(w) PROVE TypeInv'
  <2>1. worker[w] \in WorkerState
    BY <1>t DEF TypeOK
  <2>2. PICK batch \in SUBSET Due :
          worker' = [worker EXCEPT ![w] =
                       IF batch = {} THEN IdleWorker
                       ELSE [worker[w] EXCEPT !.pc = "load", !.batch = batch]]
    BY <1>10 DEF FetchJobs
  <2>3. batch \subseteq JobIds /\ \A j \in batch : jobs[j].status = "pending"
    BY DEF Due
  <2>4. /\ IdleWorker \in WorkerState
        /\ [worker[w] EXCEPT !.pc = "load", !.batch = batch] \in WorkerState
    BY <2>1, <2>3 DEF WorkerState, WorkerPc, IdleWorker
  <2>5. worker' \in [Workers -> WorkerState]
    BY <1>t, <2>2, <2>4 DEF TypeOK
  <2>6. TypeOK'
    BY <1>t, <1>10, <2>5 DEF FetchJobs, TypeOK
  <2>7. HaveAccounts'
    BY <1>t, <1>10 DEF FetchJobs, HaveAccounts
  <2>8. HoldsRows'
    BY <1>t, <1>10, <2>1, <2>2, <2>3
       DEF FetchJobs, HoldsRows, TypeOK, WorkerState, IdleWorker, Generating
  <2> QED
    BY <2>6, <2>7, <2>8 DEF TypeInv
<1>11. ASSUME NEW w \in Workers, LoadAccounts(w) PROVE TypeInv'
  <2>1. TypeOK'
    <3>1. worker' \in [Workers -> WorkerState]
      <4>1. worker[w] \in WorkerState
        BY <1>t DEF TypeOK
      <4> QED
        BY <1>t, <1>11, <4>1, RegenAssumption DEF LoadAccounts, TypeOK, HaveAccounts,
           WorkerState, WorkerPc, IdleWorker
    <3> QED
      BY <1>t, <1>11, <3>1, RegenAssumption DEF LoadAccounts, TypeOK
  <2>2. HaveAccounts'
    BY <1>t, <1>11, RegenAssumption DEF LoadAccounts, TypeOK, HaveAccounts, Job, Status
  <2>3. HoldsRows'
    BY <1>t, <1>11, RegenAssumption DEF LoadAccounts, TypeOK, HoldsRows, WorkerState,
       WorkerPc, IdleWorker, Generating
  <2> QED
    BY <2>1, <2>2, <2>3 DEF TypeInv
<1>12. ASSUME NEW w \in Workers, NextJob(w) PROVE TypeInv'
  <2>1. worker[w] \in WorkerState
    BY <1>t DEF TypeOK
  <2>2. PICK j \in worker[w].batch :
          \/ /\ jobs' = [jobs EXCEPT ![j].status = "failed", ![j].updated = now]
             /\ worker' = [worker EXCEPT ![w].batch = @ \ {j}]
          \/ /\ jobs' = [jobs EXCEPT ![j].status = "running", ![j].updated = now]
             /\ worker' = [worker EXCEPT ![w].pc = "read", ![w].job = j,
                                         ![w].batch = @ \ {j}]
    BY <1>12 DEF NextJob
  <2>3. j \in JobIds /\ jobs[j].status # "absent"
    BY <1>t, <2>1 DEF HoldsRows, WorkerState
  <2>4. /\ jobs' \in [JobIds -> Job]
        /\ jobs'[j].status # "absent"
        /\ RowsKept
    BY <1>t, <2>2, <2>3, StatusUpdate DEF Status, RowsKept
  <2>5. worker' \in [Workers -> WorkerState]
    <3>1. CASE worker' = [worker EXCEPT ![w].batch = @ \ {j}]
      BY <1>t, <2>1, <3>1 DEF TypeOK, WorkerState
    <3>2. CASE worker' = [worker EXCEPT ![w].pc = "read", ![w].job = j,
                                        ![w].batch = @ \ {j}]
      BY <1>t, <2>1, <2>3, <3>2 DEF TypeOK, WorkerState, WorkerPc
    <3> QED
      BY <2>2, <3>1, <3>2
  <2>6. TypeOK'
    BY <1>t, <1>12, <2>4, <2>5 DEF NextJob, TypeOK
  <2>7. HaveAccounts'
    BY <1>t, <1>12, <2>4 DEF NextJob, RowsKept, HaveAccounts
  <2>8. HoldsRows'
    <3>1. worker[w].pc = "next" /\ \A v \in Workers : worker[v] \in WorkerState
      BY <1>t, <1>12 DEF NextJob, TypeOK
    <3>2. \A v \in Workers \ {w} : worker'[v] = worker[v]
      BY <1>t, <2>2 DEF TypeOK
    <3>3. worker'[w].batch \subseteq worker[w].batch
      BY <1>t, <2>1, <2>2 DEF TypeOK, WorkerState
    <3>4. worker'[w].pc = "next" \/ (worker'[w].pc = "read" /\ worker'[w].job = j)
      BY <1>t, <2>1, <2>2, <3>1 DEF TypeOK, WorkerState
    <3> QED
      BY <1>t, <2>3, <2>4, <3>1, <3>2, <3>3, <3>4
         DEF HoldsRows, RowsKept, WorkerState, Generating
  <2> QED
    BY <2>6, <2>7, <2>8 DEF TypeInv
<1>13. ASSUME NEW w \in Workers, EndTick(w) PROVE TypeInv'
  <2>1. TypeOK'
    <3>1. worker' \in [Workers -> WorkerState]
      <4>1. worker[w] \in WorkerState
        BY <1>t DEF TypeOK
      <4> QED
        BY <1>t, <1>13, <4>1, RegenAssumption DEF EndTick, TypeOK, HaveAccounts,
           WorkerState, WorkerPc, IdleWorker
    <3> QED
      BY <1>t, <1>13, <3>1, RegenAssumption DEF EndTick, TypeOK
  <2>2. HaveAccounts'
    BY <1>t, <1>13, RegenAssumption DEF EndTick, TypeOK, HaveAccounts, Job, Status
  <2>3. HoldsRows'
    BY <1>t, <1>13, RegenAssumption DEF EndTick, TypeOK, HoldsRows, WorkerState,
       WorkerPc, IdleWorker, Generating
  <2> QED
    BY <2>1, <2>2, <2>3 DEF TypeInv
<1>14. ASSUME NEW w \in Workers, ReadSignals(w) PROVE TypeInv'
  <2>1. TypeOK'
    <3>1. worker' \in [Workers -> WorkerState]
      <4>1. worker[w] \in WorkerState
        BY <1>t DEF TypeOK
      <4> QED
        BY <1>t, <1>14, <4>1, RegenAssumption DEF ReadSignals, Target, TypeOK,
           HaveAccounts, WorkerState, WorkerPc, IdleWorker, HoldsRows, Generating, Job
    <3> QED
      BY <1>t, <1>14, <3>1, RegenAssumption DEF ReadSignals, Target, TypeOK
  <2>2. HaveAccounts'
    BY <1>t, <1>14, RegenAssumption DEF ReadSignals, Target, TypeOK, HaveAccounts, Job,
       Status
  <2>3. HoldsRows'
    BY <1>t, <1>14, RegenAssumption DEF ReadSignals, Target, TypeOK, HoldsRows,
       WorkerState, WorkerPc, IdleWorker, Generating
  <2> QED
    BY <2>1, <2>2, <2>3 DEF TypeInv
<1>15. ASSUME NEW w \in Workers, BeginGeneration(w) PROVE TypeInv'
  <2>1. TypeOK'
    <3>1. worker' \in [Workers -> WorkerState]
      <4>1. worker[w] \in WorkerState
        BY <1>t DEF TypeOK
      <4> QED
        BY <1>t, <1>15, <4>1, RegenAssumption DEF BeginGeneration, TypeOK,
           HaveAccounts, WorkerState, WorkerPc, IdleWorker
    <3> QED
      BY <1>t, <1>15, <3>1, RegenAssumption DEF BeginGeneration, TypeOK
  <2>2. HaveAccounts'
    BY <1>t, <1>15, RegenAssumption DEF BeginGeneration, TypeOK, HaveAccounts, Job, Status
  <2>3. HoldsRows'
    BY <1>t, <1>15, RegenAssumption DEF BeginGeneration, TypeOK, HoldsRows,
       WorkerState, WorkerPc, IdleWorker, Generating
  <2> QED
    BY <2>1, <2>2, <2>3 DEF TypeInv
<1>16. ASSUME NEW w \in Workers, ModelAnswers(w) PROVE TypeInv'
  <2>1. worker[w] \in WorkerState /\ worker[w].pc = "model"
    BY <1>t, <1>16 DEF ModelAnswers, TypeOK
  <2>2. PICK u \in BOOLEAN :
          worker' = [worker EXCEPT ![w].pc = "supersede", ![w].usable = u]
    BY <1>16 DEF ModelAnswers
  <2>3. worker' \in [Workers -> WorkerState]
    BY <1>t, <2>1, <2>2 DEF TypeOK, WorkerState, WorkerPc
  <2>4. faults' \in Nat
    BY <1>t, <1>16 DEF ModelAnswers, TypeOK
  <2>5. TypeOK'
    BY <1>t, <1>16, <2>3, <2>4 DEF ModelAnswers, TypeOK
  <2>6. HaveAccounts'
    BY <1>t, <1>16 DEF ModelAnswers, HaveAccounts
  <2>7. HoldsRows'
    BY <1>t, <1>16, <2>1, <2>2 DEF ModelAnswers, HoldsRows, TypeOK, Generating
  <2> QED
    BY <2>5, <2>6, <2>7 DEF TypeInv
<1>17. ASSUME NEW w \in Workers, Supersede(w) PROVE TypeInv'
  <2>1. TypeOK'
    <3>1. worker' \in [Workers -> WorkerState]
      <4>1. worker[w] \in WorkerState
        BY <1>t DEF TypeOK
      <4> QED
        BY <1>t, <1>17, <4>1, RegenAssumption DEF Supersede, Target, TypeOK,
           HaveAccounts, WorkerState, WorkerPc, IdleWorker, HoldsRows, Generating, Job
    <3>2. narratives' \in [Accounts -> Seq(Narrative)]
      <4> DEFINE a == Target(w)
      <4>1. worker[w].started \in Nat
        BY <1>t DEF TypeOK, WorkerState
      <4>2. a \in Accounts => narratives'[a] \in Seq(Narrative)
        BY <1>t, <1>17, <4>1, SupersedeRows DEF Supersede, TypeOK
      <4> QED
        BY <1>t, <1>17, <4>2 DEF Supersede, TypeOK
    <3> QED
      BY <1>t, <1>17, <3>1, <3>2, RegenAssumption DEF Supersede, Target, TypeOK
  <2>2. HaveAccounts'
    BY <1>t, <1>17, RegenAssumption DEF Supersede, Target, TypeOK, HaveAccounts, Job, Status
  <2>3. HoldsRows'
    BY <1>t, <1>17, RegenAssumption DEF Supersede, Target, TypeOK, HoldsRows,
       WorkerState, WorkerPc, IdleWorker, Generating
  <2> QED
    BY <2>1, <2>2, <2>3 DEF TypeInv
<1>18. ASSUME NEW w \in Workers, InsertNarrative(w) PROVE TypeInv'
  <2> DEFINE row == [covers |-> worker[w].seen, generated |-> worker[w].started,
                     superseded |-> None]
  <2>1. worker[w] \in WorkerState /\ worker[w].pc = "insert"
    BY <1>t, <1>18 DEF InsertNarrative, TypeOK
  <2>2. PICK c \in {"fail", "conflict", "stamp"} :
          worker' = [worker EXCEPT ![w].pc = c]
    BY <1>18 DEF InsertNarrative
  <2>3. worker' \in [Workers -> WorkerState]
    BY <1>t, <2>1, <2>2 DEF TypeOK, WorkerState, WorkerPc
  <2>4. narratives' \in [Accounts -> Seq(Narrative)]
    <3>1. row \in Narrative
      BY <2>1 DEF WorkerState, Narrative
    <3>2. \A a \in Accounts : Append(narratives[a], row) \in Seq(Narrative)
      BY <1>t, <3>1 DEF TypeOK
    <3>3. \/ UNCHANGED narratives
          \/ narratives' = [narratives EXCEPT ![Target(w)] = Append(@, row)]
      BY <1>18 DEF InsertNarrative
    <3>4. narratives \in [Accounts -> Seq(Narrative)]
      BY <1>t DEF TypeOK
    <3> QED
      BY <3>2, <3>3, <3>4
  <2>5. TypeOK'
    BY <1>t, <1>18, <2>3, <2>4 DEF InsertNarrative, TypeOK
  <2>6. HaveAccounts'
    BY <1>t, <1>18 DEF InsertNarrative, HaveAccounts
  <2>7. HoldsRows'
    BY <1>t, <1>18, <2>1, <2>2 DEF InsertNarrative, HoldsRows, TypeOK, Generating
  <2> QED
    BY <2>5, <2>6, <2>7 DEF TypeInv
<1>19. ASSUME NEW w \in Workers, ResolveConflict(w) PROVE TypeInv'
  <2>1. TypeOK'
    <3>1. worker' \in [Workers -> WorkerState]
      <4>1. worker[w] \in WorkerState
        BY <1>t DEF TypeOK
      <4> QED
        BY <1>t, <1>19, <4>1, RegenAssumption DEF ResolveConflict, TypeOK,
           HaveAccounts, WorkerState, WorkerPc, IdleWorker
    <3> QED
      BY <1>t, <1>19, <3>1, RegenAssumption DEF ResolveConflict, TypeOK
  <2>2. HaveAccounts'
    BY <1>t, <1>19, RegenAssumption DEF ResolveConflict, TypeOK, HaveAccounts, Job, Status
  <2>3. HoldsRows'
    BY <1>t, <1>19, RegenAssumption DEF ResolveConflict, TypeOK, HoldsRows,
       WorkerState, WorkerPc, IdleWorker, Generating
  <2> QED
    BY <2>1, <2>2, <2>3 DEF TypeInv
<1>20. ASSUME NEW w \in Workers, StampAccount(w) PROVE TypeInv'
  <2>1. TypeOK'
    <3>1. worker' \in [Workers -> WorkerState]
      <4>1. worker[w] \in WorkerState
        BY <1>t DEF TypeOK
      <4> QED
        BY <1>t, <1>20, <4>1, RegenAssumption DEF StampAccount, TypeOK, HaveAccounts,
           WorkerState, WorkerPc, IdleWorker
    <3>2. stamped' \in [Accounts -> Nat \cup {None}]
      BY <1>t, <1>20 DEF StampAccount, TypeOK, WorkerState
    <3> QED
      BY <1>t, <1>20, <3>1, <3>2 DEF StampAccount, TypeOK
  <2>2. HaveAccounts'
    BY <1>t, <1>20, RegenAssumption DEF StampAccount, TypeOK, HaveAccounts, Job, Status
  <2>3. HoldsRows'
    BY <1>t, <1>20, RegenAssumption DEF StampAccount, TypeOK, HoldsRows, WorkerState,
       WorkerPc, IdleWorker, Generating
  <2> QED
    BY <2>1, <2>2, <2>3 DEF TypeInv
<1>21. ASSUME NEW w \in Workers, FinishJob(w) PROVE TypeInv'
  <2>1. /\ worker[w] \in WorkerState
        /\ worker[w].job \in JobIds
        /\ jobs[worker[w].job].status # "absent"
    BY <1>t, <1>21 DEF FinishJob, TypeOK, HoldsRows, Generating
  <2>2. jobs' \in [JobIds -> Job] /\ RowsKept
    BY <1>t, <1>21, <2>1, StatusUpdate DEF FinishJob, Status, RowsKept
  <2>3. worker' \in [Workers -> WorkerState]
    BY <1>t, <1>21, <2>1 DEF FinishJob, NextOfBatch, TypeOK, WorkerState, WorkerPc,
       IdleWorker
  <2>4. TypeOK'
    BY <1>t, <1>21, <2>2, <2>3 DEF FinishJob, TypeOK
  <2>5. HaveAccounts'
    BY <1>t, <1>21, <2>2 DEF FinishJob, RowsKept, HaveAccounts
  <2>6. HoldsRows'
    BY <1>t, <1>21, <2>1, <2>2
       DEF FinishJob, NextOfBatch, RowsKept, HoldsRows, TypeOK, WorkerState,
          IdleWorker, Generating
  <2> QED
    BY <2>4, <2>5, <2>6 DEF TypeInv
<1>22. ASSUME NEW w \in Workers, FailJob(w) PROVE TypeInv'
  <2>1. /\ worker[w] \in WorkerState
        /\ worker[w].job \in JobIds
        /\ jobs[worker[w].job].status # "absent"
    BY <1>t, <1>22 DEF FailJob, TypeOK, HoldsRows, Generating
  <2>2. jobs' \in [JobIds -> Job] /\ RowsKept
    BY <1>t, <1>22, <2>1, StatusUpdate DEF FailJob, Status, RowsKept
  <2>3. worker' \in [Workers -> WorkerState]
    BY <1>t, <1>22, <2>1 DEF FailJob, NextOfBatch, TypeOK, WorkerState, WorkerPc, IdleWorker
  <2>4. TypeOK'
    BY <1>t, <1>22, <2>2, <2>3 DEF FailJob, TypeOK
  <2>5. HaveAccounts'
    BY <1>t, <1>22, <2>2 DEF FailJob, RowsKept, HaveAccounts
  <2>6. HoldsRows'
    BY <1>t, <1>22, <2>1, <2>2
       DEF FailJob, NextOfBatch, RowsKept, HoldsRows, TypeOK, WorkerState, IdleWorker,
          Generating
  <2> QED
    BY <2>4, <2>5, <2>6 DEF TypeInv
<1>23. ASSUME NEW w \in Workers, CallRaises(w) PROVE TypeInv'
  <2>1. TypeOK'
    <3>1. worker' \in [Workers -> WorkerState]
      <4>1. worker[w] \in WorkerState
        BY <1>t DEF TypeOK
      <4> QED
        BY <1>t, <1>23, <4>1, RegenAssumption DEF CallRaises, TypeOK, HaveAccounts,
           WorkerState, WorkerPc, IdleWorker
    <3> QED
      BY <1>t, <1>23, <3>1, RegenAssumption DEF CallRaises, TypeOK
  <2>2. HaveAccounts'
    BY <1>t, <1>23, RegenAssumption DEF CallRaises, TypeOK, HaveAccounts, Job, Status
  <2>3. HoldsRows'
    BY <1>t, <1>23, RegenAssumption DEF CallRaises, TypeOK, HoldsRows, WorkerState,
       WorkerPc, IdleWorker, Generating
  <2> QED
    BY <2>1, <2>2, <2>3 DEF TypeInv
<1>24. ASSUME NEW w \in Workers, WorkerCrash(w) PROVE TypeInv'
  <2>1. TypeOK'
    <3>1. worker' \in [Workers -> WorkerState]
      <4>1. worker[w] \in WorkerState
        BY <1>t DEF TypeOK
      <4> QED
        BY <1>t, <1>24, <4>1, RegenAssumption DEF WorkerCrash, TypeOK, HaveAccounts,
           WorkerState, WorkerPc, IdleWorker
    <3> QED
      BY <1>t, <1>24, <3>1, RegenAssumption DEF WorkerCrash, TypeOK
  <2>2. HaveAccounts'
    BY <1>t, <1>24, RegenAssumption DEF WorkerCrash, TypeOK, HaveAccounts, Job, Status
  <2>3. HoldsRows'
    BY <1>t, <1>24, RegenAssumption DEF WorkerCrash, TypeOK, HoldsRows, WorkerState,
       WorkerPc, IdleWorker, Generating
  <2> QED
    BY <2>1, <2>2, <2>3 DEF TypeInv
<1>25. CASE Tick
  BY <1>t, <1>25 DEF Tick, TypeInv, TypeOK, HaveAccounts, HoldsRows
<1>26. CASE UNCHANGED vars
  BY <1>t, <1>26 DEF vars, TypeInv, TypeOK, HaveAccounts, HoldsRows
<1> QED
  BY <1>1, <1>2, <1>3, <1>4, <1>5, <1>6, <1>7, <1>8, <1>9, <1>10, <1>11, <1>12,
     <1>13, <1>14, <1>15, <1>16, <1>17, <1>18, <1>19, <1>20, <1>21, <1>22, <1>23,
     <1>24, <1>25, <1>26, RegenAssumption DEF Next, Enqueue, Drain

\* TypeOK holds in every reachable state, whether or not ticks overlap.
THEOREM TypeCorrect == Spec => []TypeOK
  BY TypeInit, TypeStep, PTL DEF Spec, TypeInv

-----------------------------------------------------------------------------
(* The single lane: DONE means covered. *)

\* The lane invariant holds of the empty queue.
LEMMA LaneInit == Init => LaneInv
<1> SUFFICES ASSUME Init PROVE LaneInv
  OBVIOUS
<1>1. TypeInv
  BY TypeInit
<1>2. SingleLane
  BY DEF Init, SingleLane, Busy, IdleWorker
<1>3. NothingFromTheFuture
  BY DEF Init, NothingFromTheFuture, AbsentJob, Coverage
<1>4. ASSUME NEW w \in Workers PROVE WorkerInv(w)
  BY <1>4 DEF Init, WorkerInv, HoldsItsJobs, ReadsEnough, NoConflict, IdleWorker,
     Generating, AfterRead
<1>5. DoneMeansCovered
  BY DEF Init, DoneMeansCovered, AbsentJob
<1> QED
  BY <1>1, <1>2, <1>3, <1>4, <1>5 DEF LaneInv

\* Coverage is a signal count.
LEMMA CoverageNat ==
  ASSUME TypeOK, NEW a \in Accounts
  PROVE  Coverage(a) \in Nat
<1>1. narratives[a] \in Seq(Narrative)
  BY DEF TypeOK
<1>2. CASE narratives[a] = <<>>
  BY <1>2 DEF Coverage
<1>3. CASE narratives[a] # <<>>
  <2>1. Len(narratives[a]) \in 1..Len(narratives[a])
    BY <1>1, <1>3
  <2>2. narratives[a][Len(narratives[a])] \in Narrative
    BY <1>1, <2>1
  <2> QED
    BY <1>3, <2>2 DEF Coverage, Narrative
<1> QED
  BY <1>2, <1>3

\* A supersede leaves no active row of its account and changes no coverage.
LEMMA SupersedeEffect ==
  ASSUME TypeOK, NEW w \in Workers, Supersede(w)
  PROVE  /\ \A b \in Accounts : Coverage(b)' = Coverage(b)
         /\ \A b \in Accounts : b = Target(w) => ActiveRows(b)' = {}
<1>1. worker[w].started \in Nat
  BY DEF TypeOK, WorkerState
<1>2. ASSUME NEW a \in Accounts, a = Target(w)
      PROVE  Coverage(a)' = Coverage(a) /\ ActiveRows(a)' = {}
  <2>1. narratives[a] \in Seq(Narrative)
    BY DEF TypeOK
  <2>2. narratives'[a] = [i \in 1..Len(narratives[a]) |->
                            IF narratives[a][i].superseded = None
                            THEN [narratives[a][i] EXCEPT !.superseded = worker[w].started]
                            ELSE narratives[a][i]]
    BY <1>2 DEF Supersede, TypeOK
  <2>3. /\ narratives'[a] \in Seq(Narrative)
        /\ Len(narratives'[a]) = Len(narratives[a])
        /\ \A i \in 1..Len(narratives[a]) :
              /\ narratives'[a][i].covers = narratives[a][i].covers
              /\ narratives'[a][i].superseded # None
    BY <1>1, <2>1, <2>2, SupersedeRows
  <2>4. CASE narratives[a] = <<>>
    BY <2>1, <2>3, <2>4 DEF Coverage, ActiveRows
  <2>5. CASE narratives[a] # <<>>
    <3>1. Len(narratives[a]) \in 1..Len(narratives[a]) /\ narratives'[a] # <<>>
      BY <2>1, <2>3, <2>5
    <3> QED
      BY <2>3, <2>5, <3>1 DEF Coverage, ActiveRows
  <2> QED
    BY <2>4, <2>5
<1>3. ASSUME NEW b \in Accounts, b # Target(w) PROVE Coverage(b)' = Coverage(b)
  BY <1>3 DEF Supersede, TypeOK, Coverage
<1> QED
  BY <1>2, <1>3

\* An inserted row becomes the coverage of its account.
LEMMA InsertEffect ==
  ASSUME TypeOK, NEW w \in Workers, NEW a \in Accounts,
         narratives' = [narratives EXCEPT ![a] =
                          Append(@, [covers |-> worker[w].seen,
                                     generated |-> worker[w].started,
                                     superseded |-> None])]
  PROVE  /\ Coverage(a)' = worker[w].seen
         /\ \A b \in Accounts \ {a} : Coverage(b)' = Coverage(b)
<1> DEFINE row == [covers |-> worker[w].seen, generated |-> worker[w].started,
                   superseded |-> None]
<1>1. narratives[a] \in Seq(Narrative) /\ row \in Narrative
  BY DEF TypeOK, WorkerState, Narrative
<1>2. narratives'[a] = Append(narratives[a], row)
  BY DEF TypeOK
<1>3. narratives'[a] # <<>> /\ narratives'[a][Len(narratives'[a])] = row
  BY <1>1, <1>2
<1>4. Coverage(a)' = worker[w].seen
  BY <1>3 DEF Coverage
<1>5. ASSUME NEW b \in Accounts, b # a PROVE Coverage(b)' = Coverage(b)
  BY <1>5 DEF TypeOK, Coverage
<1> QED
  BY <1>4, <1>5

\* A step of a handler or a user, which changes no worker and no narrative: it
\* stores a signal, inserts a pending row or answers with a pending row.
LEMMA HandlerStep ==
  ASSUME LaneInv, TypeInv', UNCHANGED <<worker, narratives>>,
         \A a \in Accounts : arrived[a] <= arrived'[a],
         \A j \in JobIds :
            \/ jobs'[j] = jobs[j]
            \/ /\ jobs[j].status \in {"absent", "pending"}
               /\ jobs'[j].status = "pending"
               /\ jobs'[j].upto <= arrived'[jobs'[j].account]
  PROVE  LaneInv'
<1>0. /\ TypeOK /\ HaveAccounts /\ HoldsRows /\ SingleLane /\ NothingFromTheFuture
      /\ DoneMeansCovered /\ \A w \in Workers : WorkerInv(w)
  BY DEF LaneInv, TypeInv
<1>1. SingleLane'
  BY <1>0 DEF SingleLane, Busy
<1>2. \A a : Coverage(a)' = Coverage(a) /\ ActiveRows(a)' = ActiveRows(a)
  BY DEF Coverage, ActiveRows
<1>3. NothingFromTheFuture'
  <2>1. ASSUME NEW j \in JobIds, jobs'[j].status # "absent"
        PROVE  jobs'[j].upto <= arrived'[jobs'[j].account]
    <3>1. CASE jobs'[j] = jobs[j]
      <4>1. /\ jobs[j].account \in Accounts
            /\ jobs[j].upto \in Nat
            /\ jobs[j].upto <= arrived[jobs[j].account]
        BY <1>0, <2>1, <3>1 DEF HaveAccounts, NothingFromTheFuture, TypeOK, Job
      <4>2. arrived[jobs[j].account] \in Nat /\ arrived'[jobs[j].account] \in Nat
        BY <1>0, <4>1 DEF TypeInv, TypeOK
      <4> QED
        BY <3>1, <4>1, <4>2
    <3> QED
      BY <3>1
  <2>2. ASSUME NEW a \in Accounts PROVE Coverage(a)' <= arrived'[a]
    <3>1. arrived[a] \in Nat /\ arrived'[a] \in Nat /\ Coverage(a) \in Nat
      BY <1>0, CoverageNat DEF TypeInv, TypeOK
    <3> QED
      BY <1>0, <1>2, <3>1 DEF NothingFromTheFuture
  <2> QED
    BY <2>1, <2>2 DEF NothingFromTheFuture
<1>4. ASSUME NEW w \in Workers PROVE WorkerInv(w)'
  <2>1. WorkerInv(w) /\ worker[w] \in WorkerState
    BY <1>0, <1>4 DEF TypeOK
  <2>2. HoldsItsJobs(w)'
    BY <2>1 DEF WorkerInv, HoldsItsJobs, WorkerState
  <2>3. ASSUME worker[w].pc \in Generating \cup {"fail"}
        PROVE  /\ worker[w].job \in JobIds
               /\ jobs'[worker[w].job] = jobs[worker[w].job]
               /\ Target(w)' = Target(w)
               /\ Target(w) \in Accounts
    BY <1>0, <2>1, <2>3 DEF WorkerInv, HoldsItsJobs, Target, HaveAccounts
  <2>4. ReadsEnough(w)'
    <3>1. CASE worker[w].pc \in AfterRead
      <4>1. worker[w].seen \in Nat /\ arrived[Target(w)] \in Nat /\ arrived'[Target(w)] \in Nat
        BY <1>0, <2>1, <2>3, <3>1 DEF AfterRead, Generating, WorkerState, TypeInv, TypeOK
      <4> QED
        BY <1>2, <2>1, <2>3, <3>1, <4>1 DEF WorkerInv, ReadsEnough, AfterRead, Generating
    <3>2. CASE worker[w].pc \in {"stamp", "finish"}
      BY <1>2, <2>1, <2>3, <3>2 DEF WorkerInv, ReadsEnough, AfterRead, Generating
    <3> QED
      BY <3>1, <3>2 DEF ReadsEnough
  <2>5. NoConflict(w)'
    BY <1>2, <2>1, <2>3 DEF WorkerInv, NoConflict, Generating
  <2> QED
    BY <2>2, <2>4, <2>5 DEF WorkerInv
<1>5. DoneMeansCovered'
  BY <1>0, <1>2 DEF DoneMeansCovered
<1> QED
  BY <1>1, <1>3, <1>4, <1>5 DEF LaneInv

\* A step of worker w in the single lane leaves the idle ones as they are.
LEMMA OnlyOneMoves ==
  ASSUME LaneInv, TypeInv', NEW w \in Workers,
         \A v \in Workers \ {w} : worker[v].pc = "idle" /\ worker'[v] = worker[v],
         WorkerInv(w)', NothingFromTheFuture', DoneMeansCovered'
  PROVE  LaneInv'
<1>1. SingleLane'
  BY DEF SingleLane, Busy
<1>2. ASSUME NEW v \in Workers, v # w PROVE WorkerInv(v)'
  <2>1. worker'[v].pc = "idle" /\ worker'[v].batch = {}
    BY <1>2 DEF LaneInv, WorkerInv, HoldsItsJobs
  <2> QED
    BY <2>1 DEF WorkerInv, HoldsItsJobs, ReadsEnough, NoConflict, Generating, AfterRead
<1> QED
  BY <1>1, <1>2 DEF LaneInv

\* A busy worker is alone.
LEMMA Alone ==
  ASSUME LaneInv, NEW w \in Workers, worker[w].pc # "idle"
  PROVE  \A v \in Workers \ {w} : worker[v].pc = "idle"
  BY DEF LaneInv, SingleLane, Busy

\* Without a change to jobs, signals and narratives, what is said of them stays.
LEMMA TablesUnchanged ==
  ASSUME LaneInv, UNCHANGED <<arrived, jobs, narratives>>
  PROVE  /\ NothingFromTheFuture' /\ DoneMeansCovered'
         /\ \A a : Coverage(a)' = Coverage(a) /\ ActiveRows(a)' = ActiveRows(a)
<1>1. \A a : Coverage(a)' = Coverage(a) /\ ActiveRows(a)' = ActiveRows(a)
  BY DEF Coverage, ActiveRows
<1> QED
  BY <1>1 DEF LaneInv, NothingFromTheFuture, DoneMeansCovered

\* While at most one tick drains the queue, every step keeps the lane invariant.
LEMMA LaneStep == ~Overlap /\ LaneInv /\ [Next]_vars => LaneInv'
<1> SUFFICES ASSUME ~Overlap, LaneInv, [Next]_vars PROVE LaneInv'
  OBVIOUS
<1>t. TypeInv' /\ TypeInv /\ TypeOK /\ HaveAccounts /\ HoldsRows
  BY TypeStep DEF LaneInv, TypeInv
<1>n. \A a \in Accounts : arrived[a] \in Nat
  BY <1>t DEF TypeOK
<1>1. ASSUME NEW i \in Ingesters, NEW a \in Accounts, SignalLands(i, a)
      PROVE  LaneInv'
  <2>1. \A b \in Accounts : arrived[b] <= arrived'[b]
    BY <1>1, <1>n, <1>t DEF SignalLands, TypeOK
  <2> QED
    BY <1>1, <1>t, <2>1, HandlerStep DEF SignalLands
<1>2. ASSUME NEW i \in Ingesters, CaptureNow(i) PROVE LaneInv'
  BY <1>2, <1>n, <1>t, HandlerStep DEF CaptureNow
<1>3. ASSUME NEW a \in Accounts, NEW j \in JobIds, jobs[j].status = "pending",
             jobs[j].account = a, jobs' = [jobs EXCEPT ![j].upto = arrived[a]],
             UNCHANGED <<arrived, worker, narratives>>
      PROVE  LaneInv'
  <2>1. /\ jobs'[j].upto = arrived[a]
        /\ \A k \in JobIds : /\ jobs'[k].status = jobs[k].status
                             /\ jobs'[k].account = jobs[k].account
                             /\ k # j => jobs'[k] = jobs[k]
    BY <1>3, <1>t, AnswerUpdate
  <2> QED
    BY <1>3, <1>n, <1>t, <2>1, HandlerStep
<1>4. ASSUME NEW i \in Ingesters, DebounceCheck(i) PROVE LaneInv'
  <2>1. CASE UNCHANGED jobs
    BY <1>4, <1>n, <1>t, <2>1, HandlerStep DEF DebounceCheck
  <2>2. CASE \E j \in Upcoming(ingest[i].account, ingest[i].at) :
                jobs' = [jobs EXCEPT ![j].upto = arrived[ingest[i].account]]
    <3>1. ingest[i].account \in Accounts
      BY <1>4, <1>t DEF DebounceCheck, HaveAccounts
    <3> QED
      BY <1>4, <1>3, <2>2, <3>1 DEF DebounceCheck, Upcoming
  <2> QED
    BY <1>4, <2>1, <2>2 DEF DebounceCheck
<1>5. ASSUME NEW i \in Ingesters, CapCheck(i) PROVE LaneInv'
  BY <1>5, <1>n, <1>t, HandlerStep DEF CapCheck
<1>6. ASSUME NEW i \in Ingesters, InsertJob(i) PROVE LaneInv'
  <2> DEFINE r == [status |-> "pending", account |-> ingest[i].account,
                   scheduled |-> ingest[i].scheduled, updated |-> now,
                   upto |-> arrived[ingest[i].account]]
  <2>1. PICK j \in JobIds : jobs[j].status = "absent" /\ jobs' = [jobs EXCEPT ![j] = r]
    BY <1>6 DEF InsertJob
  <2>2. jobs'[j] = r /\ \A k \in JobIds : k # j => jobs'[k] = jobs[k]
    BY <1>t, <2>1 DEF TypeOK
  <2>3. arrived[ingest[i].account] \in Nat
    BY <1>6, <1>n, <1>t DEF InsertJob, HaveAccounts
  <2> QED
    BY <1>6, <1>n, <1>t, <2>1, <2>2, <2>3, HandlerStep DEF InsertJob
<1>7. ASSUME NEW i \in Ingesters, IngestCrash(i) PROVE LaneInv'
  BY <1>7, <1>n, <1>t, HandlerStep DEF IngestCrash
<1>8. ASSUME NEW a \in Accounts, ManualRegenerate(a) PROVE LaneInv'
  BY <1>8, <1>3 DEF ManualRegenerate, Upcoming
<1>9. ASSUME NEW a \in Accounts, DismissAccount(a) PROVE LaneInv'
  BY <1>9, <1>n, <1>t, HandlerStep DEF DismissAccount
<1>10. CASE Tick
  BY <1>10, <1>n, <1>t, HandlerStep DEF Tick
<1>11. CASE UNCHANGED vars
  BY <1>11, <1>n, <1>t, HandlerStep DEF vars
<1>12. ASSUME NEW w \in Workers, StartTick(w) PROVE LaneInv'
  <2>1. \A v \in Workers : worker[v].pc = "idle" /\ WorkerInv(v)
    BY <1>12 DEF StartTick, LaneInv
  <2>2. \A j \in JobIds : /\ jobs'[j].account = jobs[j].account
                          /\ jobs'[j].upto = jobs[j].upto
                          /\ jobs'[j].status = "done" <=> jobs[j].status = "done"
                          /\ jobs'[j].status = "absent" <=> jobs[j].status = "absent"
    BY <1>12, <1>t DEF StartTick, TypeOK, Job
  <2>a. worker[w] \in WorkerState /\ worker[w].batch = {}
    BY <1>t, <2>1 DEF TypeOK, WorkerInv, HoldsItsJobs
  <2>3. /\ worker'[w].pc = "fetch" /\ worker'[w].batch = {}
        /\ \A v \in Workers \ {w} : worker'[v] = worker[v]
    BY <1>12, <1>t, <2>a DEF StartTick, TypeOK, WorkerState
  <2>4. \A a : Coverage(a)' = Coverage(a)
    BY <1>12 DEF StartTick, Coverage
  <2>5. WorkerInv(w)'
    BY <2>3 DEF WorkerInv, HoldsItsJobs, ReadsEnough, NoConflict, Generating, AfterRead
  <2>6. NothingFromTheFuture'
    BY <1>12, <2>2, <2>4 DEF StartTick, LaneInv, NothingFromTheFuture
  <2>7. DoneMeansCovered'
    BY <2>2, <2>4 DEF LaneInv, DoneMeansCovered
  <2> QED
    BY <1>t, <2>1, <2>3, <2>5, <2>6, <2>7, OnlyOneMoves
\* The steps of a busy worker.
<1>20. ASSUME NEW w \in Workers, worker[w].pc # "idle",
              UNCHANGED <<arrived, jobs, narratives>>,
              \A v \in Workers \ {w} : worker'[v] = worker[v], WorkerInv(w)'
       PROVE  LaneInv'
  BY <1>t, <1>20, Alone, TablesUnchanged, OnlyOneMoves
<1>21. ASSUME NEW w \in Workers, FetchJobs(w) PROVE LaneInv'
  <2>1. worker[w] \in WorkerState /\ WorkerInv(w)
    BY <1>t DEF TypeOK, LaneInv
  <2>2. PICK batch \in SUBSET Due :
          worker' = [worker EXCEPT ![w] =
                       IF batch = {} THEN IdleWorker
                       ELSE [worker[w] EXCEPT !.pc = "load", !.batch = batch]]
    BY <1>21 DEF FetchJobs
  <2>3. \/ worker'[w].pc = "idle" /\ worker'[w].batch = {}
        \/ worker'[w].pc = "load" /\ worker'[w].batch = batch
    BY <1>t, <2>1, <2>2 DEF TypeOK, WorkerState, IdleWorker
  <2>4. WorkerInv(w)'
    BY <1>21, <2>2, <2>3 DEF FetchJobs, Due, WorkerInv, HoldsItsJobs, ReadsEnough,
       NoConflict, Generating, AfterRead
  <2> QED
    BY <1>t, <1>20, <1>21, <2>2, <2>4 DEF FetchJobs, TypeOK
<1>22. ASSUME NEW w \in Workers, LoadAccounts(w) PROVE LaneInv'
  <2>1. worker[w] \in WorkerState /\ WorkerInv(w)
    BY <1>t DEF TypeOK, LaneInv
  <2>2. worker'[w].pc = "next" /\ worker'[w].batch = worker[w].batch
    BY <1>22, <1>t, <2>1 DEF LoadAccounts, TypeOK, WorkerState
  <2>3. WorkerInv(w)'
    BY <1>22, <2>1, <2>2 DEF LoadAccounts, WorkerInv, HoldsItsJobs, ReadsEnough,
       NoConflict, Generating, AfterRead
  <2> QED
    BY <1>t, <1>20, <1>22, <2>3 DEF LoadAccounts, TypeOK
<1>23. ASSUME NEW w \in Workers, EndTick(w) PROVE LaneInv'
  <2>1. WorkerInv(w)'
    BY <1>23, <1>t DEF EndTick, TypeOK, IdleWorker, WorkerInv, HoldsItsJobs, ReadsEnough,
       NoConflict, Generating, AfterRead
  <2> QED
    BY <1>t, <1>20, <1>23, <2>1 DEF EndTick, TypeOK
<1>24. ASSUME NEW w \in Workers, WorkerCrash(w) PROVE LaneInv'
  <2>1. WorkerInv(w)'
    BY <1>24, <1>t DEF WorkerCrash, TypeOK, IdleWorker, WorkerInv, HoldsItsJobs,
       ReadsEnough,
       NoConflict, Generating, AfterRead
  <2> QED
    BY <1>t, <1>20, <1>24, <2>1 DEF WorkerCrash, TypeOK
\* What a generating worker holds.
<1>30. ASSUME NEW w \in Workers, worker[w].pc \in Generating \cup {"fail"}
       PROVE  /\ worker[w] \in WorkerState
              /\ WorkerInv(w)
              /\ worker[w].job \in JobIds
              /\ jobs[worker[w].job].status = "running"
              /\ jobs[worker[w].job].upto \in Nat
              /\ jobs[worker[w].job].upto <= arrived[Target(w)]
              /\ Target(w) \in Accounts
              /\ Coverage(Target(w)) <= arrived[Target(w)]
              /\ worker[w].batch \subseteq JobIds
              /\ \A j \in worker[w].batch : jobs[j].status = "pending"
  <2>1. worker[w] \in WorkerState /\ WorkerInv(w)
    BY <1>t DEF TypeOK, LaneInv
  <2>2. /\ worker[w].job \in JobIds /\ jobs[worker[w].job].status = "running"
        /\ \A j \in worker[w].batch : jobs[j].status = "pending"
    BY <1>30, <2>1 DEF WorkerInv, HoldsItsJobs
  <2>3. jobs[worker[w].job] \in Job /\ Target(w) \in Accounts
    BY <1>t, <2>2 DEF TypeOK, HaveAccounts, Target
  <2> QED
    BY <2>1, <2>2, <2>3 DEF LaneInv, NothingFromTheFuture, Target, Job, WorkerState
<1>31. ASSUME NEW w \in Workers, ReadSignals(w) PROVE LaneInv'
  <2>1. worker[w].pc \in Generating \cup {"fail"}
    BY <1>31 DEF ReadSignals, Generating
  <2>2. /\ worker'[w].pc = "start" /\ worker'[w].batch = worker[w].batch
        /\ worker'[w].job = worker[w].job /\ worker'[w].seen = arrived[Target(w)]
    BY <1>31, <1>30, <1>t, <2>1 DEF ReadSignals, TypeOK, WorkerState
  <2>3. /\ Target(w)' = Target(w) /\ Coverage(Target(w))' = Coverage(Target(w))
        /\ UNCHANGED <<arrived, jobs>>
    BY <1>31, <2>2 DEF ReadSignals, Target, Coverage
  <2>a. HoldsItsJobs(w)' /\ NoConflict(w)'
    BY <1>30, <2>1, <2>2, <2>3 DEF HoldsItsJobs, NoConflict, Generating
  <2>b. ReadsEnough(w)'
    BY <1>30, <1>n, <2>1, <2>2, <2>3 DEF ReadsEnough, AfterRead
  <2>4. WorkerInv(w)'
    BY <2>a, <2>b DEF WorkerInv
  <2> QED
    BY <1>t, <1>20, <1>31, <2>4 DEF ReadSignals, TypeOK
<1>32. ASSUME NEW w \in Workers, BeginGeneration(w) \/ ModelAnswers(w) PROVE LaneInv'
  <2>1. worker[w].pc \in {"start", "model"}
    BY <1>32 DEF BeginGeneration, ModelAnswers
  <2>2. worker[w].pc \in Generating \cup {"fail"}
    BY <2>1 DEF Generating
  <2>3. /\ worker'[w].pc \in {"model", "supersede"} /\ worker'[w].batch = worker[w].batch
        /\ worker'[w].job = worker[w].job /\ worker'[w].seen = worker[w].seen
    BY <1>32, <1>30, <1>t, <2>2 DEF BeginGeneration, ModelAnswers, TypeOK, WorkerState
  <2>4. UNCHANGED <<arrived, jobs, narratives>> /\ \A v \in Workers \ {w} : worker'[v] = worker[v]
    BY <1>32, <1>t DEF BeginGeneration, ModelAnswers, TypeOK
  <2>5. Target(w)' = Target(w) /\ Coverage(Target(w))' = Coverage(Target(w))
    BY <2>3, <2>4 DEF Target, Coverage
  <2>6. WorkerInv(w)'
    BY <1>30, <2>1, <2>2, <2>3, <2>4, <2>5 DEF WorkerInv, HoldsItsJobs,
       ReadsEnough, NoConflict, Generating, AfterRead
  <2> QED
    BY <1>20, <2>1, <2>4, <2>6
<1>33. ASSUME NEW w \in Workers, ResolveConflict(w) PROVE LaneInv'
  BY <1>33 DEF ResolveConflict, LaneInv, WorkerInv, NoConflict
<1>34. ASSUME NEW w \in Workers, StampAccount(w) \/ CallRaises(w) PROVE LaneInv'
  <2>1. worker[w].pc \in Generating \cup {"fail"}
    BY <1>34 DEF StampAccount, CallRaises, Generating
  <2>2. /\ worker'[w].batch = worker[w].batch /\ worker'[w].job = worker[w].job
        /\ worker'[w].pc = "fail" \/ (worker[w].pc = "stamp" /\ worker'[w].pc = "finish")
    BY <1>34, <1>30, <1>t, <2>1 DEF StampAccount, CallRaises, TypeOK, WorkerState
  <2>3. UNCHANGED <<arrived, jobs, narratives>> /\ \A v \in Workers \ {w} : worker'[v] = worker[v]
    BY <1>34, <1>t DEF StampAccount, CallRaises, TypeOK
  <2>4. Target(w)' = Target(w) /\ Coverage(Target(w))' = Coverage(Target(w))
    BY <2>2, <2>3 DEF Target, Coverage
  <2>5. WorkerInv(w)'
    BY <1>30, <2>1, <2>2, <2>3, <2>4 DEF WorkerInv, HoldsItsJobs,
       ReadsEnough, NoConflict, Generating, AfterRead
  <2> QED
    BY <1>20, <2>1, <2>3, <2>5 DEF Generating
<1>40. ASSUME NEW w \in Workers, NextJob(w) PROVE LaneInv'
  <2>1. worker[w] \in WorkerState /\ WorkerInv(w) /\ worker[w].pc = "next"
    BY <1>40, <1>t DEF NextJob, TypeOK, LaneInv
  <2>2. PICK j \in worker[w].batch :
          \/ /\ jobs' = [jobs EXCEPT ![j].status = "failed", ![j].updated = now]
             /\ worker' = [worker EXCEPT ![w].batch = @ \ {j}]
          \/ /\ jobs' = [jobs EXCEPT ![j].status = "running", ![j].updated = now]
             /\ worker' = [worker EXCEPT ![w].pc = "read", ![w].job = j,
                                         ![w].batch = @ \ {j}]
    BY <1>40 DEF NextJob
  <2>3. j \in JobIds /\ jobs[j].status = "pending"
    BY <2>1, <2>2 DEF WorkerState, WorkerInv, HoldsItsJobs
  <2>4. /\ jobs'[j].status \in {"running", "failed"}
        /\ \A k \in JobIds : /\ jobs'[k].account = jobs[k].account
                             /\ jobs'[k].upto = jobs[k].upto
                             /\ k # j => jobs'[k] = jobs[k]
    BY <1>t, <2>2, <2>3, StatusUpdate DEF Status
  <2>5. worker'[w].batch = worker[w].batch \ {j}
    BY <1>t, <2>1, <2>2 DEF TypeOK, WorkerState
  <2>6. \/ worker'[w].pc = "next"
        \/ worker'[w].pc = "read" /\ worker'[w].job = j /\ jobs'[j].status = "running"
    <3>1. CASE worker' = [worker EXCEPT ![w].batch = @ \ {j}]
      BY <1>t, <2>1, <3>1 DEF TypeOK, WorkerState
    <3>2. CASE /\ jobs' = [jobs EXCEPT ![j].status = "running", ![j].updated = now]
               /\ worker' = [worker EXCEPT ![w].pc = "read", ![w].job = j,
                                           ![w].batch = @ \ {j}]
      <4>1. jobs'[j].status = "running"
        BY <1>t, <2>3, <3>2, StatusUpdate DEF Status
      <4> QED
        BY <1>t, <2>1, <3>2, <4>1 DEF TypeOK, WorkerState
    <3> QED
      BY <2>2, <3>1, <3>2
  <2>7. /\ UNCHANGED <<arrived, narratives>>
        /\ \A v \in Workers \ {w} : worker'[v] = worker[v]
        /\ \A a : Coverage(a)' = Coverage(a)
    BY <1>40, <1>t, <2>2 DEF NextJob, TypeOK, Coverage
  <2>8. WorkerInv(w)'
    BY <2>1, <2>3, <2>4, <2>5, <2>6 DEF WorkerInv, HoldsItsJobs, ReadsEnough, NoConflict,
       Generating, AfterRead, WorkerState
  <2>9. NothingFromTheFuture'
    BY <2>3, <2>4, <2>7 DEF LaneInv, NothingFromTheFuture
  <2>10. DoneMeansCovered'
    BY <2>4, <2>7 DEF LaneInv, DoneMeansCovered
  <2> QED
    BY <1>t, <2>1, <2>7, <2>8, <2>9, <2>10, Alone, OnlyOneMoves
<1>41. ASSUME NEW w \in Workers, FinishJob(w) \/ FailJob(w) PROVE LaneInv'
  <2> DEFINE j == worker[w].job
  <2>1. /\ worker[w].pc \in Generating \cup {"fail"}
        /\ worker[w].pc # "idle"
    BY <1>41 DEF FinishJob, FailJob, Generating
  <2>2. PICK st \in {"done", "failed"} :
          /\ st = "done" => worker[w].pc = "finish"
          /\ jobs' = [jobs EXCEPT ![j].status = st, ![j].updated = now]
          /\ worker' = [worker EXCEPT ![w] = NextOfBatch(w)]
          /\ UNCHANGED <<arrived, narratives>>
    BY <1>41 DEF FinishJob, FailJob
  <2>3. /\ jobs'[j].status = st
        /\ \A k \in JobIds : /\ jobs'[k].account = jobs[k].account
                             /\ jobs'[k].upto = jobs[k].upto
                             /\ k # j => jobs'[k] = jobs[k]
    BY <1>30, <1>t, <2>1, <2>2, StatusUpdate DEF Status
  <2>4. /\ worker'[w].pc = "next" /\ worker'[w].batch = worker[w].batch
        /\ \A v \in Workers \ {w} : worker'[v] = worker[v]
    BY <1>t, <2>2 DEF TypeOK, NextOfBatch, IdleWorker
  <2>5. \A a : Coverage(a)' = Coverage(a)
    BY <2>2 DEF Coverage
  <2>6. WorkerInv(w)'
    BY <1>30, <2>1, <2>3, <2>4 DEF WorkerInv, HoldsItsJobs, ReadsEnough, NoConflict,
       Generating, AfterRead
  <2>7. NothingFromTheFuture'
    BY <1>30, <2>1, <2>2, <2>3, <2>5 DEF LaneInv, NothingFromTheFuture
  <2>8. st = "done" => jobs[j].upto <= Coverage(jobs[j].account)
    BY <1>30, <2>1, <2>2 DEF WorkerInv, ReadsEnough, Target
  <2>9. DoneMeansCovered'
    BY <2>3, <2>5, <2>8 DEF LaneInv, DoneMeansCovered
  <2> QED
    BY <1>t, <2>1, <2>4, <2>6, <2>7, <2>9, Alone, OnlyOneMoves
<1>42. ASSUME NEW w \in Workers, Supersede(w) PROVE LaneInv'
  <2>1. worker[w].pc \in Generating \cup {"fail"} /\ worker[w].pc # "idle"
    BY <1>42 DEF Supersede, Generating
  <2>a. PICK a \in Accounts : a = Target(w)
    BY <1>30, <2>1
  <2>5. (\A b \in Accounts : Coverage(b)' = Coverage(b)) /\ ActiveRows(a)' = {}
    BY <1>42, <1>t, <2>a, SupersedeEffect
  <2>6. /\ worker'[w].pc = "insert" /\ worker'[w].batch = worker[w].batch
        /\ worker'[w].job = worker[w].job /\ worker'[w].seen = worker[w].seen
        /\ \A v \in Workers \ {w} : worker'[v] = worker[v]
        /\ UNCHANGED <<arrived, jobs>>
    BY <1>42, <1>30, <1>t, <2>1 DEF Supersede, TypeOK, WorkerState
  <2>7. Target(w)' = a
    BY <2>a, <2>6 DEF Target
  <2>9. HoldsItsJobs(w)' /\ NoConflict(w)'
    BY <1>30, <2>1, <2>5, <2>6, <2>7 DEF HoldsItsJobs, NoConflict, Generating
  <2>10. ReadsEnough(w)'
    BY <1>42, <1>30, <2>a, <2>1, <2>5, <2>6, <2>7
       DEF Supersede, WorkerInv, ReadsEnough, AfterRead
  <2>11. NothingFromTheFuture'
    BY <2>5, <2>6 DEF LaneInv, NothingFromTheFuture
  <2>12. DoneMeansCovered'
    BY <1>t, <2>5, <2>6 DEF LaneInv, DoneMeansCovered, HaveAccounts
  <2> QED
    BY <1>t, <2>1, <2>6, <2>9, <2>10, <2>11, <2>12, Alone, OnlyOneMoves DEF WorkerInv
<1>43. ASSUME NEW w \in Workers, InsertNarrative(w) PROVE LaneInv'
  <2> DEFINE row == [covers |-> worker[w].seen, generated |-> worker[w].started,
                     superseded |-> None]
  <2>1. worker[w].pc = "insert" /\ worker[w].pc \in Generating \cup {"fail"}
    BY <1>43 DEF InsertNarrative, Generating
  <2>a. PICK a \in Accounts : a = Target(w)
    BY <1>30, <2>1
  <2>2. ActiveRows(a) = {} /\ worker[w] \in WorkerState
    BY <1>30, <2>a, <2>1 DEF WorkerInv, NoConflict
  <2>3. UNCHANGED <<arrived, jobs>>
    BY <1>43 DEF InsertNarrative
  <2>4. CASE worker' = [worker EXCEPT ![w].pc = "fail"] /\ UNCHANGED narratives
    <3>1. /\ worker'[w].batch = worker[w].batch /\ worker'[w].job = worker[w].job
          /\ worker'[w].pc = "fail"
          /\ \A v \in Workers \ {w} : worker'[v] = worker[v]
      BY <1>t, <2>2, <2>4 DEF TypeOK, WorkerState
    <3>2. WorkerInv(w)'
      BY <1>30, <2>1, <2>3, <3>1 DEF WorkerInv, HoldsItsJobs, ReadsEnough, NoConflict,
         Generating, AfterRead
    <3> QED
      BY <1>20, <2>1, <2>3, <2>4, <3>1, <3>2
  <2>5. CASE /\ narratives' = [narratives EXCEPT ![a] = Append(@, row)]
             /\ worker' = [worker EXCEPT ![w].pc = "stamp"]
    <3>1. /\ worker'[w].batch = worker[w].batch /\ worker'[w].job = worker[w].job
          /\ worker'[w].pc = "stamp"
          /\ \A v \in Workers \ {w} : worker'[v] = worker[v]
      BY <1>t, <2>2, <2>5 DEF TypeOK, WorkerState
    <3>2. Target(w)' = a
      BY <2>a, <2>3, <3>1 DEF Target
    <3>5. Coverage(a)' = worker[w].seen
      BY <1>t, <2>5, InsertEffect
    <3>6. \A b \in Accounts \ {a} : Coverage(b)' = Coverage(b)
      BY <1>t, <2>5, InsertEffect
    <3>7. /\ jobs[worker[w].job].upto <= worker[w].seen
          /\ Coverage(a) <= worker[w].seen
          /\ worker[w].seen <= arrived[a]
      BY <1>30, <2>a, <2>1 DEF WorkerInv, ReadsEnough, AfterRead
    <3>8. WorkerInv(w)'
      BY <1>30, <2>1, <2>3, <3>1, <3>2, <3>5, <3>7 DEF WorkerInv, HoldsItsJobs, ReadsEnough,
         NoConflict, Generating, AfterRead
    <3>9. NothingFromTheFuture'
      BY <2>3, <3>5, <3>6, <3>7 DEF LaneInv, NothingFromTheFuture
    <3>10. DoneMeansCovered'
      <4>1. ASSUME NEW j \in JobIds, jobs[j].status = "done", NEW b \in Accounts,
                   b = jobs[j].account
            PROVE  jobs[j].upto <= Coverage(b)'
        <5>1. jobs[j].upto \in Nat /\ jobs[j].upto <= Coverage(b)
          BY <1>t, <4>1 DEF TypeOK, Job, LaneInv, DoneMeansCovered
        <5>2. Coverage(a) \in Nat /\ worker[w].seen \in Nat
          BY <1>t, <2>2, CoverageNat DEF WorkerState
        <5>3. CASE b = a
          BY <3>5, <3>7, <5>1, <5>2, <5>3
        <5>4. CASE b # a
          BY <3>6, <5>1, <5>4
        <5> QED
          BY <5>3, <5>4
      <4>2. \A j \in JobIds : jobs[j].status # "absent" => jobs[j].account \in Accounts
        BY <1>t DEF HaveAccounts
      <4> QED
        BY <2>3, <4>1, <4>2 DEF DoneMeansCovered
    <3> QED
      BY <1>t, <2>1, <3>1, <3>8, <3>9, <3>10, Alone, OnlyOneMoves
  <2> QED
    BY <1>43, <2>a, <2>2, <2>4, <2>5 DEF InsertNarrative
<1> QED
  BY <1>1, <1>2, <1>4, <1>5, <1>6, <1>7, <1>8, <1>9, <1>10, <1>11, <1>12, <1>21,
     <1>22, <1>23, <1>24, <1>31, <1>32, <1>33, <1>34, <1>40, <1>41, <1>42, <1>43,
     RegenAssumption DEF Next, Enqueue, Drain

\* With ticks that do not overlap, whatever crashes, fails or is dismissed and
\* however many handlers, accounts and jobs there are, the lane invariant holds.
THEOREM LaneCorrect == ~Overlap => (Spec => []LaneInv)
<1> SUFFICES ASSUME ~Overlap PROVE Spec => []LaneInv
  OBVIOUS
<1>1. LaneInv /\ [Next]_vars => LaneInv'
  BY LaneStep
<1> QED
  BY <1>1, LaneInit, PTL DEF Spec

\* No regeneration reported DONE has lost a signal that was debounced into it
\* (enqueue_regen_job against run_narratives).
THEOREM DoneCovered == ~Overlap => (Spec => []DoneMeansCovered)
<1>1. LaneInv => DoneMeansCovered
  BY DEF LaneInv
<1> QED
  BY <1>1, LaneCorrect, PTL

-----------------------------------------------------------------------------
(* Refinement: the queue implements NarrativePromise. *)

\* The empty queue maps to an initial state of NarrativePromise.
LEMMA PromiseInit == Init => Promise!Init
<1> SUFFICES ASSUME Init PROVE Promise!Init
  OBVIOUS
<1>1. \A a \in Accounts : Coverage(a) = 0
  BY DEF Init, Coverage
<1>2. \A a \in Accounts : DoneJobs(a) = {}
  BY DEF Init, DoneJobs, AbsentJob
<1> QED
  BY <1>1, <1>2 DEF Init, Promise!Init, Told, Settled

\* What the promise sees of a step that stores no signal, leaves coverage alone
\* and neither adds nor changes a DONE row.
LEMMA PromiseStutters ==
  ASSUME UNCHANGED arrived,
         \A a \in Accounts : Coverage(a)' = Coverage(a),
         \A j \in JobIds :
            /\ jobs'[j].status = "done" <=> jobs[j].status = "done"
            /\ jobs[j].status = "done" => /\ jobs'[j].upto = jobs[j].upto
                                          /\ jobs'[j].account = jobs[j].account
  PROVE  UNCHANGED Promise!vars
<1>1. UNCHANGED Told
  BY DEF Told
<1>2. ASSUME NEW a \in Accounts
      PROVE  {jobs'[j].upto : j \in DoneJobs(a)'} = {jobs[j].upto : j \in DoneJobs(a)}
  BY DEF DoneJobs
<1>3. UNCHANGED Settled
  BY <1>2 DEF Settled
<1> QED
  BY <1>1, <1>3 DEF Promise!vars

\* Every step maps to a step of NarrativePromise or to a stutter.
LEMMA PromiseStep ==
  ~Overlap /\ LaneInv /\ LaneInv' /\ [Next]_vars => [Promise!Next]_(Promise!vars)
<1> SUFFICES ASSUME ~Overlap, LaneInv, LaneInv', [Next]_vars
             PROVE  [Promise!Next]_(Promise!vars)
  OBVIOUS
<1>t. TypeOK /\ HaveAccounts /\ HoldsRows /\ TypeOK'
  BY DEF LaneInv, TypeInv
<1>k. ASSUME UNCHANGED <<arrived, narratives>>,
             \A j \in JobIds :
                /\ jobs'[j].status = "done" <=> jobs[j].status = "done"
                /\ jobs[j].status = "done" => jobs'[j] = jobs[j]
      PROVE  [Promise!Next]_(Promise!vars)
  BY <1>k, PromiseStutters DEF Coverage
<1>1. ASSUME NEW i \in Ingesters, NEW a \in Accounts, SignalLands(i, a)
      PROVE  [Promise!Next]_(Promise!vars)
  <2>1. UNCHANGED <<Told, Settled>>
    BY <1>1 DEF SignalLands, Told, Coverage, Settled, DoneJobs
  <2> QED
    BY <1>1, <2>1 DEF SignalLands, Promise!Next, Promise!Land
<1>2. ASSUME NEW i \in Ingesters,
             CaptureNow(i) \/ CapCheck(i) \/ IngestCrash(i)
      PROVE  [Promise!Next]_(Promise!vars)
  BY <1>2, <1>k DEF CaptureNow, CapCheck, IngestCrash
<1>3. ASSUME NEW a \in Accounts, NEW j \in JobIds, jobs[j].status = "pending",
             jobs' = [jobs EXCEPT ![j].upto = arrived[a]],
             UNCHANGED <<arrived, narratives>>
      PROVE  [Promise!Next]_(Promise!vars)
  <2>1. \A k \in JobIds : /\ jobs'[k].status = jobs[k].status
                          /\ k # j => jobs'[k] = jobs[k]
    BY <1>3, <1>t, AnswerUpdate
  <2> QED
    BY <1>3, <1>k, <2>1
<1>4. ASSUME NEW i \in Ingesters, DebounceCheck(i)
      PROVE  [Promise!Next]_(Promise!vars)
  <2>1. CASE UNCHANGED jobs
    BY <1>4, <1>k, <2>1 DEF DebounceCheck
  <2>2. CASE \E j \in Upcoming(ingest[i].account, ingest[i].at) :
                jobs' = [jobs EXCEPT ![j].upto = arrived[ingest[i].account]]
    <3>1. ingest[i].account \in Accounts
      BY <1>4, <1>t DEF DebounceCheck, HaveAccounts
    <3> QED
      BY <1>4, <1>3, <2>2, <3>1 DEF DebounceCheck, Upcoming
  <2> QED
    BY <1>4, <2>1, <2>2 DEF DebounceCheck
<1>5. ASSUME NEW i \in Ingesters, InsertJob(i) PROVE [Promise!Next]_(Promise!vars)
  <2> DEFINE r == [status |-> "pending", account |-> ingest[i].account,
                   scheduled |-> ingest[i].scheduled, updated |-> now,
                   upto |-> arrived[ingest[i].account]]
  <2>1. PICK j \in JobIds : jobs[j].status = "absent" /\ jobs' = [jobs EXCEPT ![j] = r]
    BY <1>5 DEF InsertJob
  <2>2. jobs'[j] = r /\ \A k \in JobIds : k # j => jobs'[k] = jobs[k]
    BY <1>t, <2>1 DEF TypeOK
  <2> QED
    BY <1>5, <1>k, <2>1, <2>2 DEF InsertJob
<1>6. ASSUME NEW a \in Accounts, ManualRegenerate(a) PROVE [Promise!Next]_(Promise!vars)
  BY <1>6, <1>3 DEF ManualRegenerate, Upcoming
<1>7. ASSUME NEW w \in Workers, StartTick(w) PROVE [Promise!Next]_(Promise!vars)
  <2>1. \A j \in JobIds : /\ jobs'[j].status = "done" <=> jobs[j].status = "done"
                          /\ jobs[j].status = "done" => jobs'[j] = jobs[j]
    BY <1>7, <1>t DEF StartTick, TypeOK, Job
  <2> QED
    BY <1>7, <1>k, <2>1 DEF StartTick
<1>8. ASSUME NEW w \in Workers,
             \/ FetchJobs(w) \/ LoadAccounts(w) \/ EndTick(w) \/ ReadSignals(w)
             \/ BeginGeneration(w) \/ ModelAnswers(w) \/ ResolveConflict(w)
             \/ StampAccount(w) \/ CallRaises(w) \/ WorkerCrash(w)
      PROVE  [Promise!Next]_(Promise!vars)
  <2>1. UNCHANGED <<arrived, narratives, jobs>>
    BY <1>8 DEF FetchJobs, LoadAccounts, EndTick, ReadSignals, BeginGeneration,
       ModelAnswers, ResolveConflict, StampAccount, CallRaises, WorkerCrash
  <2> QED
    BY <1>k, <2>1
<1>9. ASSUME NEW w \in Workers, NextJob(w) PROVE [Promise!Next]_(Promise!vars)
  <2>1. worker[w] \in WorkerState /\ WorkerInv(w)
    BY <1>t DEF TypeOK, LaneInv
  <2>2. PICK j \in worker[w].batch, st \in {"failed", "running"} :
          jobs' = [jobs EXCEPT ![j].status = st, ![j].updated = now]
    BY <1>9 DEF NextJob
  <2>3. j \in JobIds /\ jobs[j].status = "pending"
    BY <2>1, <2>2 DEF WorkerState, WorkerInv, HoldsItsJobs
  <2>4. jobs'[j].status = st /\ \A k \in JobIds : k # j => jobs'[k] = jobs[k]
    BY <1>t, <2>2, <2>3, StatusUpdate DEF Status
  <2> QED
    BY <1>9, <1>k, <2>2, <2>3, <2>4 DEF NextJob
<1>10. ASSUME NEW w \in Workers, FailJob(w) PROVE [Promise!Next]_(Promise!vars)
  <2>1. WorkerInv(w)
    BY DEF LaneInv
  <2>2. worker[w].job \in JobIds /\ jobs[worker[w].job].status = "running"
    BY <1>10, <2>1 DEF FailJob, WorkerInv, HoldsItsJobs
  <2>3. /\ jobs'[worker[w].job].status = "failed"
        /\ \A k \in JobIds : k # worker[w].job => jobs'[k] = jobs[k]
    BY <1>10, <1>t, <2>2, StatusUpdate DEF FailJob, Status
  <2> QED
    BY <1>10, <1>k, <2>2, <2>3 DEF FailJob
<1>11. ASSUME NEW w \in Workers, FinishJob(w) PROVE [Promise!Next]_(Promise!vars)
  <2>1. WorkerInv(w)
    BY DEF LaneInv
  <2>2. PICK j \in JobIds : j = worker[w].job /\ jobs[j].status = "running"
    BY <1>11, <2>1 DEF FinishJob, WorkerInv, HoldsItsJobs, Generating
  <2>3. PICK a \in Accounts : a = jobs[j].account
    BY <1>t, <2>2 DEF HaveAccounts
  <2>4. /\ jobs'[j].status = "done" /\ jobs'[j].account = a
        /\ jobs'[j].upto = jobs[j].upto
        /\ \A k \in JobIds : k # j => jobs'[k] = jobs[k]
    <3>1. jobs' = [jobs EXCEPT ![j].status = "done", ![j].updated = now]
      BY <1>11, <2>2 DEF FinishJob
    <3> QED
      BY <1>t, <2>3, <3>1, StatusUpdate DEF Status
  <2>5. jobs[j].upto \in 0 .. Told[a]
    <3>1. jobs[j].upto \in Nat /\ Coverage(a) \in Nat
      BY <1>t, CoverageNat DEF TypeOK, Job
    <3>2. jobs[j].upto <= Coverage(a)
      BY <1>11, <2>1, <2>2, <2>3 DEF FinishJob, WorkerInv, ReadsEnough, Target
    <3> QED
      BY <3>1, <3>2 DEF Told
  <2>6. DoneJobs(a)' = DoneJobs(a) \cup {j} /\ j \notin DoneJobs(a)
    BY <2>2, <2>4 DEF DoneJobs
  <2>7. {jobs'[k].upto : k \in DoneJobs(a)'} =
           {jobs[k].upto : k \in DoneJobs(a)} \cup {jobs[j].upto}
    BY <2>4, <2>6 DEF DoneJobs
  <2>8. ASSUME NEW b \in Accounts, b # a
        PROVE  {jobs'[k].upto : k \in DoneJobs(b)'} = {jobs[k].upto : k \in DoneJobs(b)}
    BY <2>2, <2>3, <2>4, <2>8 DEF DoneJobs
  <2>9. Settled' = [Settled EXCEPT ![a] = @ \cup {jobs[j].upto}]
    BY <2>7, <2>8 DEF Settled
  <2>10. UNCHANGED <<arrived, Told>>
    BY <1>11 DEF FinishJob, Told, Coverage
  <2> QED
    BY <2>5, <2>9, <2>10 DEF Promise!Next, Promise!Settle
<1>12. ASSUME NEW w \in Workers, Supersede(w) PROVE [Promise!Next]_(Promise!vars)
  <2>1. UNCHANGED <<arrived, jobs>>
    BY <1>12 DEF Supersede
  <2> QED
    BY <1>12, <1>t, <2>1, SupersedeEffect, PromiseStutters
<1>13. ASSUME NEW w \in Workers, InsertNarrative(w) PROVE [Promise!Next]_(Promise!vars)
  <2>1. CASE UNCHANGED narratives
    BY <1>13, <1>k, <2>1 DEF InsertNarrative
  <2>2. CASE narratives' # narratives
    <3>1. worker[w].pc = "insert" /\ WorkerInv(w)
      BY <1>13 DEF InsertNarrative, LaneInv
    <3>2. PICK a \in Accounts : a = Target(w)
      BY <1>t, <3>1 DEF WorkerInv, HoldsItsJobs, HaveAccounts, Target, Generating
    <3>3. narratives' = [narratives EXCEPT ![a] =
                           Append(@, [covers |-> worker[w].seen,
                                      generated |-> worker[w].started,
                                      superseded |-> None])]
      BY <1>13, <2>2, <3>2 DEF InsertNarrative
    <3>4. /\ Coverage(a)' = worker[w].seen
          /\ \A b \in Accounts \ {a} : Coverage(b)' = Coverage(b)
      BY <1>t, <3>3, InsertEffect
    <3>5. worker[w].seen \in Told[a] .. arrived[a]
      <4>1. worker[w].seen \in Nat /\ Coverage(a) \in Nat /\ arrived[a] \in Nat
        BY <1>t, CoverageNat DEF TypeOK, WorkerState
      <4> QED
        BY <3>1, <3>2, <4>1 DEF WorkerInv, ReadsEnough, AfterRead, Told
    <3>6. Told' = [Told EXCEPT ![a] = worker[w].seen]
      BY <3>4 DEF Told
    <3>7. UNCHANGED <<arrived, Settled>>
      BY <1>13 DEF InsertNarrative, Settled, DoneJobs
    <3> QED
      BY <3>5, <3>6, <3>7 DEF Promise!Next, Promise!Refresh
  <2> QED
    BY <2>1, <2>2
<1>14. ASSUME NEW a \in Accounts, DismissAccount(a) PROVE [Promise!Next]_(Promise!vars)
  BY <1>14, <1>k DEF DismissAccount
<1>15. CASE Tick
  BY <1>15, <1>k DEF Tick
<1>16. CASE UNCHANGED vars
  BY <1>16, <1>k DEF vars
<1> QED
  BY <1>1, <1>2, <1>4, <1>5, <1>6, <1>7, <1>8, <1>9, <1>10, <1>11, <1>12, <1>13,
     <1>14, <1>15, <1>16, RegenAssumption DEF Next, Enqueue, Drain

\* With ticks that do not overlap the queue implements the promise: coverage
\* never falls back and a settled regeneration is never unsettled.
THEOREM QueueImplementsPromise == ~Overlap => (Spec => ImplementsPromise)
<1> SUFFICES ASSUME ~Overlap PROVE Spec => Promise!Spec
  BY DEF ImplementsPromise
<1>1. LaneInv /\ LaneInv' /\ [Next]_vars => [Promise!Next]_(Promise!vars)
  BY PromiseStep
<1> QED
  BY <1>1, PromiseInit, LaneCorrect, PTL DEF Spec, Promise!Spec

-----------------------------------------------------------------------------
(* What a step leaves alone. *)

\* A job keeps its account once it is inserted.
LEMMA AccountsStay ==
  TypeInv /\ [Next]_vars =>
      \A j \in JobIds : jobs[j].status # "absent" => jobs'[j].account = jobs[j].account
<1> SUFFICES ASSUME TypeInv, [Next]_vars, NEW j \in JobIds, jobs[j].status # "absent"
             PROVE  jobs'[j].account = jobs[j].account
  OBVIOUS
<1>t. TypeOK /\ HaveAccounts /\ HoldsRows /\ \A k \in JobIds : jobs[k] \in Job
  BY DEF TypeInv, TypeOK
<1>1. CASE UNCHANGED jobs
  BY <1>1
<1>2. ASSUME NEW i \in Ingesters, DebounceCheck(i) PROVE jobs'[j].account = jobs[j].account
  <2>1. ingest[i].account \in Accounts
    BY <1>t, <1>2 DEF DebounceCheck, HaveAccounts
  <2> QED
    BY <1>t, <1>2, <2>1, AnswerUpdate DEF DebounceCheck, Upcoming
<1>3. ASSUME NEW i \in Ingesters, InsertJob(i) PROVE jobs'[j].account = jobs[j].account
  BY <1>t, <1>3 DEF InsertJob, TypeOK
<1>4. ASSUME NEW a \in Accounts, ManualRegenerate(a) PROVE jobs'[j].account = jobs[j].account
  BY <1>t, <1>4, AnswerUpdate DEF ManualRegenerate, Upcoming
<1>5. ASSUME NEW w \in Workers, StartTick(w) PROVE jobs'[j].account = jobs[j].account
  BY <1>t, <1>5 DEF StartTick, Job
<1>6. ASSUME NEW w \in Workers, NextJob(w) PROVE jobs'[j].account = jobs[j].account
  <2>1. PICK k \in worker[w].batch :
          \/ jobs' = [jobs EXCEPT ![k].status = "failed", ![k].updated = now]
          \/ jobs' = [jobs EXCEPT ![k].status = "running", ![k].updated = now]
    BY <1>6 DEF NextJob
  <2>2. k \in JobIds
    BY <1>t DEF TypeOK, WorkerState
  <2> QED
    BY <1>t, <2>1, <2>2, StatusUpdate DEF Status
<1>7. ASSUME NEW w \in Workers, FinishJob(w) PROVE jobs'[j].account = jobs[j].account
  <2>1. worker[w].job \in JobIds
    BY <1>t, <1>7 DEF FinishJob, HoldsRows, Generating
  <2> QED
    BY <1>t, <1>7, <2>1, StatusUpdate DEF FinishJob, Status
<1>8. ASSUME NEW w \in Workers, FailJob(w) PROVE jobs'[j].account = jobs[j].account
  <2>1. worker[w].job \in JobIds
    BY <1>t, <1>8 DEF FailJob, HoldsRows, Generating
  <2> QED
    BY <1>t, <1>8, <2>1, StatusUpdate DEF FailJob, Status
<1> QED
  BY <1>1, <1>2, <1>3, <1>4, <1>5, <1>6, <1>7, <1>8, RegenAssumption
     DEF Next, Enqueue, Drain, SignalLands, CaptureNow, CapCheck, IngestCrash,
         DismissAccount, FetchJobs, LoadAccounts, EndTick, ReadSignals, BeginGeneration,
         ModelAnswers, Supersede, InsertNarrative, ResolveConflict, StampAccount,
         CallRaises, WorkerCrash, Tick, vars

\* What a worker that generates works for stays the same.
LEMMA TargetStays ==
  ASSUME TypeInv, [Next]_vars, NEW w \in Workers,
         worker[w].pc \in Generating \cup {"fail"}, worker'[w].job = worker[w].job
  PROVE  Target(w)' = Target(w) /\ Target(w) \in Accounts
<1>1. worker[w].job \in JobIds /\ jobs[worker[w].job].status # "absent"
  BY DEF TypeInv, HoldsRows
<1> QED
  BY <1>1, AccountsStay DEF Target, TypeInv, HaveAccounts

\* Narratives change by a supersede or an insert only.
LEMMA NarrativesStay ==
  [Next]_vars => \/ UNCHANGED narratives
                 \/ \E w \in Workers : Supersede(w) \/ InsertNarrative(w)
  BY DEF Next, Enqueue, Drain, SignalLands, CaptureNow, DebounceCheck, CapCheck, InsertJob,
         IngestCrash, ManualRegenerate, DismissAccount, StartTick, FetchJobs, LoadAccounts,
         NextJob, EndTick, ReadSignals, BeginGeneration, ModelAnswers, ResolveConflict,
         StampAccount, FinishJob, FailJob, CallRaises, WorkerCrash, Tick, vars

-----------------------------------------------------------------------------
(* The history of an account is ordered. *)

Asking == {"model", "supersede", "insert"}

\* No row is dated later than now, or later than a generation under way for its
\* account, which has taken its own date before it asked the model.
DatedBefore ==
    /\ \A a \in Accounts : \A i \in 1..Len(narratives[a]) : narratives[a][i].generated <= now
    /\ \A w \in Workers : worker[w].pc \in Asking =>
          /\ worker[w].started <= now
          /\ \A i \in 1..Len(narratives[Target(w)]) :
                narratives[Target(w)][i].generated <= worker[w].started

HistoryInv == HistoryOrdered /\ DatedBefore

\* A worker that has its date and no row yet was so before the step, or begins.
LEMMA StillAsking ==
  ASSUME TypeInv, [Next]_vars, NEW v \in Workers, worker'[v].pc \in Asking
  PROVE  \/ BeginGeneration(v)
         \/ /\ worker[v].pc \in Asking
            /\ worker'[v].job = worker[v].job
            /\ worker'[v].started = worker[v].started
<1> DEFINE Goal == \/ BeginGeneration(v)
                   \/ /\ worker[v].pc \in Asking
                      /\ worker'[v].job = worker[v].job
                      /\ worker'[v].started = worker[v].started
<1>t. worker \in [Workers -> WorkerState] /\ \A w \in Workers : worker[w] \in WorkerState
  BY DEF TypeInv, TypeOK
<1>1. CASE UNCHANGED worker
  BY <1>1
<1>3. ASSUME NEW w \in Workers, StartTick(w) PROVE Goal
  BY <1>t, <1>3 DEF StartTick, WorkerState, Asking
<1>4. ASSUME NEW w \in Workers, FetchJobs(w) PROVE Goal
  BY <1>t, <1>4 DEF FetchJobs, WorkerState, Asking, IdleWorker
<1>5. ASSUME NEW w \in Workers, LoadAccounts(w) \/ EndTick(w) \/ ReadSignals(w) PROVE Goal
  BY <1>t, <1>5 DEF LoadAccounts, EndTick, ReadSignals, WorkerState, Asking, IdleWorker
<1>6. ASSUME NEW w \in Workers, NextJob(w) PROVE Goal
  BY <1>t, <1>6 DEF NextJob, WorkerState, Asking
<1>7. ASSUME NEW w \in Workers, BeginGeneration(w) PROVE Goal
  BY <1>t, <1>7 DEF BeginGeneration, WorkerState, Asking
<1>8. ASSUME NEW w \in Workers, ModelAnswers(w) PROVE Goal
  BY <1>t, <1>8 DEF ModelAnswers, WorkerState, Asking
<1>9. ASSUME NEW w \in Workers, Supersede(w) PROVE Goal
  BY <1>t, <1>9 DEF Supersede, WorkerState, Asking
<1>10. ASSUME NEW w \in Workers, InsertNarrative(w) PROVE Goal
  BY <1>t, <1>10 DEF InsertNarrative, WorkerState, Asking
<1>11. ASSUME NEW w \in Workers, ResolveConflict(w) \/ StampAccount(w) PROVE Goal
  BY <1>t, <1>11 DEF ResolveConflict, StampAccount, WorkerState, Asking
<1>12. ASSUME NEW w \in Workers, FinishJob(w) \/ FailJob(w) PROVE Goal
  BY <1>t, <1>12 DEF FinishJob, FailJob, NextOfBatch, WorkerState, Asking, IdleWorker
<1>13. ASSUME NEW w \in Workers, CallRaises(w) \/ WorkerCrash(w) PROVE Goal
  BY <1>t, <1>13 DEF CallRaises, WorkerCrash, WorkerState, Asking, IdleWorker
<1> QED
  BY <1>1, <1>3, <1>4, <1>5, <1>6, <1>7, <1>8, <1>9, <1>10, <1>11, <1>12, <1>13
     DEF Next, Enqueue, Drain, SignalLands, CaptureNow, DebounceCheck, CapCheck, InsertJob,
         IngestCrash, ManualRegenerate, DismissAccount, Tick, vars

\* A supersede keeps the rows, their dates and the dates of the old rows, and dates
\* the active ones by the generation it belongs to.
LEMMA SupersedeDates ==
  ASSUME TypeInv, NEW w \in Workers, Supersede(w), NEW a \in Accounts
  PROVE  /\ Len(narratives'[a]) = Len(narratives[a])
         /\ \A i \in 1..Len(narratives[a]) :
               /\ narratives'[a][i].generated = narratives[a][i].generated
               /\ \/ narratives'[a][i].superseded = narratives[a][i].superseded
                  \/ a = Target(w) /\ narratives'[a][i].superseded = worker[w].started
<1>1. narratives[a] \in Seq(Narrative) /\ worker[w].started \in Nat
  BY DEF TypeInv, TypeOK, WorkerState
<1>2. CASE a # Target(w)
  BY <1>2 DEF Supersede, TypeInv, TypeOK
<1>3. CASE a = Target(w)
  <2>1. narratives'[a] = [i \in 1..Len(narratives[a]) |->
                            IF narratives[a][i].superseded = None
                            THEN [narratives[a][i] EXCEPT !.superseded = worker[w].started]
                            ELSE narratives[a][i]]
    BY <1>3 DEF Supersede, TypeInv, TypeOK
  <2>2. \A i \in 1..Len(narratives[a]) : narratives[a][i] \in Narrative
    BY <1>1
  <2>3. Len(narratives'[a]) = Len(narratives[a])
    BY <1>1, <2>1, <2>2, SupersedeRows
  <2>4. ASSUME NEW i \in 1..Len(narratives[a])
        PROVE  /\ narratives'[a][i].generated = narratives[a][i].generated
               /\ \/ narratives'[a][i].superseded = narratives[a][i].superseded
                  \/ narratives'[a][i].superseded = worker[w].started
    BY <2>1, <2>2, <2>4 DEF Narrative
  <2> QED
    BY <1>3, <2>3, <2>4
<1> QED
  BY <1>2, <1>3

\* The empty tables are ordered.
LEMMA HistoryInit == Init => HistoryInv
<1> SUFFICES ASSUME Init PROVE HistoryInv
  OBVIOUS
<1>1. \A a \in Accounts : Len(narratives[a]) = 0
  BY DEF Init
<1>2. \A w \in Workers : worker[w].pc \notin Asking
  BY DEF Init, IdleWorker, Asking
<1> QED
  BY <1>1, <1>2 DEF HistoryInv, HistoryOrdered, DatedBefore

\* The clock only moves forward.
LEMMA ClockMoves == ASSUME TypeInv, [Next]_vars PROVE now \in Nat /\ now' \in Nat /\ now <= now'
<1>1. UNCHANGED now \/ Tick
  BY DEF Next, Enqueue, Drain, SignalLands, CaptureNow, DebounceCheck, CapCheck,
     InsertJob, IngestCrash, ManualRegenerate, DismissAccount, StartTick, FetchJobs,
     LoadAccounts, NextJob, EndTick, ReadSignals, BeginGeneration, ModelAnswers,
     Supersede, InsertNarrative, ResolveConflict, StampAccount, FinishJob, FailJob,
     CallRaises, WorkerCrash, vars
<1>2. Tick => now' = now + 1
  BY DEF Tick
<1> QED
  BY <1>1, <1>2 DEF TypeInv, TypeOK

\* In a single lane every step keeps the history of every account ordered.
LEMMA HistoryStep ==
  LaneInv /\ HistoryInv /\ [Next]_vars => HistoryInv'
<1> SUFFICES ASSUME LaneInv, HistoryInv, [Next]_vars PROVE HistoryInv'
  OBVIOUS
<1>t. /\ TypeInv /\ SingleLane /\ TypeInv' /\ HistoryOrdered /\ DatedBefore
      /\ now \in Nat /\ now' \in Nat
      /\ \A a \in Accounts : narratives[a] \in Seq(Narrative)
      /\ \A w \in Workers : worker[w] \in WorkerState
  BY TypeStep DEF LaneInv, HistoryInv, TypeInv, TypeOK
<1>g. \A a \in Accounts : \A i \in 1..Len(narratives[a]) :
         narratives[a][i] \in Narrative /\ narratives[a][i].generated \in Nat
  <2>1. \A a \in Accounts : \A i \in 1..Len(narratives[a]) : narratives[a][i] \in Narrative
    BY <1>t
  <2> QED
    BY <2>1 DEF Narrative
<1>n. now <= now'
  BY <1>t, ClockMoves
\* A generation under way keeps its date and its account.
<1>w. ASSUME NEW v \in Workers, worker'[v].pc \in Asking, ~BeginGeneration(v)
      PROVE  /\ worker[v].pc \in Asking
             /\ worker'[v].started = worker[v].started
             /\ Target(v)' = Target(v) /\ Target(v) \in Accounts
             /\ worker'[v].started \in Nat /\ worker'[v].started <= now'
  <2>1. /\ worker[v].pc \in Asking
        /\ worker'[v].job = worker[v].job
        /\ worker'[v].started = worker[v].started
    BY <1>t, <1>w, StillAsking
  <2>2. Target(v)' = Target(v) /\ Target(v) \in Accounts
    BY <1>t, <2>1, TargetStays DEF Asking, Generating
  <2>3. worker[v].started \in Nat /\ worker[v].started <= now
    BY <1>t, <2>1 DEF DatedBefore, WorkerState
  <2> QED
    BY <1>t, <1>n, <2>1, <2>2, <2>3
<1>1. CASE UNCHANGED narratives
  <2>1. HistoryOrdered'
    BY <1>t, <1>1 DEF HistoryOrdered
  <2>2. \A a \in Accounts : \A i \in 1..Len(narratives'[a]) : narratives'[a][i].generated <= now'
    BY <1>t, <1>g, <1>n, <1>1 DEF DatedBefore
  <2>3. ASSUME NEW v \in Workers, worker'[v].pc \in Asking
        PROVE  /\ worker'[v].started <= now'
               /\ \A i \in 1..Len(narratives'[Target(v)']) :
                     narratives'[Target(v)'][i].generated <= worker'[v].started
    <3>1. CASE BeginGeneration(v)
      <4>1. worker'[v].started = now /\ worker'[v].job = worker[v].job /\ now' = now
        BY <1>t, <3>1 DEF BeginGeneration, TypeInv, TypeOK, WorkerState
      <4>2. Target(v)' = Target(v) /\ Target(v) \in Accounts
        BY <1>t, <3>1, <4>1, TargetStays DEF BeginGeneration, Generating
      <4> QED
        BY <1>t, <1>1, <4>1, <4>2 DEF DatedBefore
    <3>2. CASE ~BeginGeneration(v)
      BY <1>t, <1>w, <1>1, <2>3, <3>2 DEF DatedBefore
    <3> QED
      BY <3>1, <3>2
  <2> QED
    BY <2>1, <2>2, <2>3 DEF HistoryInv, DatedBefore
<1>2. ASSUME NEW w \in Workers, Supersede(w) PROVE HistoryInv'
  <2>1. /\ worker[w].pc \in Asking /\ Target(w) \in Accounts
        /\ worker[w].started \in Nat /\ now' = now
        /\ \A v \in Workers : ~BeginGeneration(v)
    <3>1. worker[w].pc \in Asking /\ worker[w].started \in Nat /\ Target(w) \in Accounts
      BY <1>t, <1>2 DEF Supersede, Asking, WorkerState, TypeInv, HoldsRows, HaveAccounts,
         Generating, Target
    <3>2. now' = now /\ worker' = [worker EXCEPT ![w].pc = "insert"]
      BY <1>2 DEF Supersede
    <3>3. ASSUME NEW v \in Workers, BeginGeneration(v) PROVE FALSE
      BY <1>t, <1>2, <3>3 DEF BeginGeneration, Supersede, TypeInv, TypeOK, WorkerState
    <3> QED
      BY <3>1, <3>2, <3>3
  <2>2. \A a \in Accounts :
          /\ Len(narratives'[a]) = Len(narratives[a])
          /\ \A i \in 1..Len(narratives[a]) :
               /\ narratives'[a][i].generated = narratives[a][i].generated
               /\ \/ narratives'[a][i].superseded = narratives[a][i].superseded
                  \/ a = Target(w) /\ narratives'[a][i].superseded = worker[w].started
    BY <1>t, <1>2, SupersedeDates
  <2>3. \A i \in 1..Len(narratives[Target(w)]) :
            narratives[Target(w)][i].generated <= worker[w].started
    BY <1>t, <2>1 DEF DatedBefore
  <2>4. HistoryOrdered'
    <3> SUFFICES ASSUME NEW a \in Accounts, NEW i \in 1..Len(narratives[a])
                 PROVE  /\ narratives'[a][i].superseded # None =>
                              narratives'[a][i].generated <= narratives'[a][i].superseded
                        /\ i > 1 => narratives'[a][i-1].generated <= narratives'[a][i].generated
      BY <2>2 DEF HistoryOrdered
    <3>1. i > 1 => i-1 \in 1..Len(narratives[a])
      BY <1>t
    <3> QED
      BY <1>t, <2>2, <2>3, <3>1 DEF HistoryOrdered
  <2>5. DatedBefore'
    BY <1>t, <1>w, <2>1, <2>2 DEF DatedBefore
  <2> QED
    BY <2>4, <2>5 DEF HistoryInv
<1>3. ASSUME NEW w \in Workers, InsertNarrative(w), ~UNCHANGED narratives PROVE HistoryInv'
  <2> DEFINE a == Target(w)
             row == [covers |-> worker[w].seen, generated |-> worker[w].started,
                     superseded |-> None]
  <2>1. /\ worker[w].pc \in Asking /\ a \in Accounts /\ now' = now
        /\ worker[w].started \in Nat /\ row \in Narrative
        /\ \A v \in Workers : ~BeginGeneration(v)
    BY <1>t, <1>3 DEF InsertNarrative, BeginGeneration, Asking, WorkerState, Narrative,
       TypeInv, TypeOK, HoldsRows, HaveAccounts, Generating, Target
  <2>2. /\ narratives'[a] = Append(narratives[a], row)
        /\ \A b \in Accounts \ {a} : narratives'[b] = narratives[b]
        /\ worker'[w].pc = "stamp"
    BY <1>t, <1>3, <2>1 DEF InsertNarrative, TypeInv, TypeOK, WorkerState
  <2>3. /\ worker[w].started <= now
        /\ \A i \in 1..Len(narratives[a]) : narratives[a][i].generated <= worker[w].started
    BY <1>t, <2>1 DEF DatedBefore
  <2>4. /\ Len(narratives'[a]) = Len(narratives[a]) + 1
        /\ \A i \in 1..Len(narratives[a]) : narratives'[a][i] = narratives[a][i]
        /\ narratives'[a][Len(narratives[a]) + 1] = row
    BY <1>t, <2>1, <2>2
  <2>5. HistoryOrdered'
    <3>1. ASSUME NEW i \in 1..Len(narratives'[a])
          PROVE  /\ narratives'[a][i].superseded # None =>
                       narratives'[a][i].generated <= narratives'[a][i].superseded
                 /\ i > 1 => narratives'[a][i-1].generated <= narratives'[a][i].generated
      <4>1. CASE i \in 1..Len(narratives[a])
        <5>1. i > 1 => i-1 \in 1..Len(narratives[a])
          BY <1>t, <2>1, <4>1
        <5> QED
          BY <1>t, <2>1, <2>4, <4>1, <5>1 DEF HistoryOrdered
      <4>2. CASE i = Len(narratives[a]) + 1
        <5>1. i > 1 => i-1 \in 1..Len(narratives[a])
          BY <1>t, <2>1, <4>2
        <5> QED
          BY <2>3, <2>4, <4>2, <5>1
      <4> QED
        BY <1>t, <2>1, <2>4, <4>1, <4>2
    <3> QED
      BY <1>t, <2>2, <3>1 DEF HistoryOrdered
  <2>6. \A b \in Accounts : \A i \in 1..Len(narratives'[b]) : narratives'[b][i].generated <= now'
    <3>1. \A i \in 1..Len(narratives'[a]) : narratives'[a][i].generated <= now'
      BY <1>t, <2>1, <2>3, <2>4 DEF DatedBefore
    <3> QED
      BY <1>t, <2>1, <2>2, <3>1 DEF DatedBefore
  <2>7. \A v \in Workers : worker'[v].pc \notin Asking
    BY <1>t, <1>w, <2>1, <2>2 DEF Asking, SingleLane, Busy
  <2> QED
    BY <2>5, <2>6, <2>7 DEF HistoryInv, DatedBefore
<1> QED
  BY <1>1, <1>2, <1>3, NarrativesStay

\* The rows of an account are a history, for any number of handlers, workers and
\* failures, when ticks do not overlap (generate_narrative's one "now").
THEOREM HistoryIsOrdered == ~Overlap => (Spec => []HistoryOrdered)
<1> SUFFICES ASSUME ~Overlap PROVE Spec => []HistoryOrdered
  OBVIOUS
<1>1. Init => LaneInv /\ HistoryInv
  BY LaneInit, HistoryInit
<1>2. LaneInv /\ HistoryInv /\ [Next]_vars => LaneInv' /\ HistoryInv'
  BY LaneStep, HistoryStep
<1>3. HistoryInv => HistoryOrdered
  BY DEF HistoryInv
<1> QED
  BY <1>1, <1>2, <1>3, PTL DEF Spec

-----------------------------------------------------------------------------
(* One active narrative, when nothing fails. *)

\* No failure has happened, so every model answer at hand is usable, and an account
\* with a history shows one row or is about to.
OneActiveInv ==
    /\ faults = 0
    /\ \A w \in Workers : worker[w].usable
    /\ OneActiveUnlessReplacing

\* The queue starts without failures and without narratives.
LEMMA OneActiveInit == Init => OneActiveInv
  BY DEF Init, OneActiveInv, OneActiveUnlessReplacing, IdleWorker

\* Without failures no step loses the active row for good, whoever else supersedes
\* or inserts meanwhile.
LEMMA OneActiveStep ==
  MaxFaults = 0 /\ TypeInv /\ OneActiveInv /\ [Next]_vars => OneActiveInv'
<1> SUFFICES ASSUME MaxFaults = 0, TypeInv, OneActiveInv, [Next]_vars PROVE OneActiveInv'
  OBVIOUS
<1>t. /\ \A w \in Workers : worker[w] \in WorkerState
      /\ worker \in [Workers -> WorkerState]
      /\ \A a \in Accounts : narratives[a] \in Seq(Narrative)
      /\ \A w \in Workers : worker[w].usable
      /\ faults = 0 /\ ~(faults < MaxFaults) /\ OneActiveUnlessReplacing
  BY DEF TypeInv, TypeOK, OneActiveInv
<1>1. faults' = 0
  BY <1>t DEF Next, Enqueue, Drain, SignalLands, CaptureNow, DebounceCheck, CapCheck,
     InsertJob, IngestCrash, ManualRegenerate, DismissAccount, StartTick, FetchJobs,
     LoadAccounts, NextJob, EndTick, ReadSignals, BeginGeneration, ModelAnswers, Supersede,
     InsertNarrative, ResolveConflict, StampAccount, FinishJob, FailJob, CallRaises,
     WorkerCrash, Tick, vars
\* What a step does to the workers: it leaves their flags, and takes none from "insert"
\* but by an insert.
<1>2. /\ \A v \in Workers : worker'[v].usable
      /\ \A v \in Workers : worker[v].pc = "insert" =>
            \/ InsertNarrative(v)
            \/ worker'[v].pc = "insert" /\ worker'[v].job = worker[v].job
  <2> DEFINE Goal == /\ \A v \in Workers : worker'[v].usable
                     /\ \A v \in Workers : worker[v].pc = "insert" =>
                          \/ InsertNarrative(v)
                          \/ worker'[v].pc = "insert" /\ worker'[v].job = worker[v].job
  <2>1. CASE UNCHANGED worker
    BY <1>t, <2>1
  <2>2. ASSUME NEW w \in Workers, StartTick(w) PROVE Goal
    BY <1>t, <2>2 DEF StartTick, WorkerState
  <2>3. ASSUME NEW w \in Workers, FetchJobs(w) PROVE Goal
    BY <1>t, <2>3 DEF FetchJobs, WorkerState, IdleWorker
  <2>a. ASSUME NEW w \in Workers, NEW r, worker' = [worker EXCEPT ![w] = r],
               worker[w].pc # "insert", r.usable
        PROVE  Goal
    BY <1>t, <2>a
  <2>4. ASSUME NEW w \in Workers, LoadAccounts(w) PROVE Goal
    <3> DEFINE r == [worker[w] EXCEPT !.pc = "next", !.known = Accounts \ dismissed]
    <3>1. worker' = [worker EXCEPT ![w] = r] /\ worker[w].pc # "insert"
      BY <2>4 DEF LoadAccounts
    <3>2. r.usable
      BY <1>t DEF WorkerState, IdleWorker
    <3> HIDE DEF r
    <3> QED
      BY <2>a, <3>1, <3>2
  <2>4b. ASSUME NEW w \in Workers, EndTick(w) PROVE Goal
    <3> DEFINE r == IdleWorker
    <3>1. worker' = [worker EXCEPT ![w] = r] /\ worker[w].pc # "insert"
      BY <2>4b DEF EndTick
    <3>2. r.usable
      BY <1>t DEF WorkerState, IdleWorker
    <3> HIDE DEF r
    <3> QED
      BY <2>a, <3>1, <3>2
  <2>4c. ASSUME NEW w \in Workers, ReadSignals(w) PROVE Goal
    <3> DEFINE r == [worker[w] EXCEPT !.pc = "start", !.seen = arrived[Target(w)]]
    <3>1. worker' = [worker EXCEPT ![w] = r] /\ worker[w].pc # "insert"
      BY <2>4c DEF ReadSignals
    <3>2. r.usable
      BY <1>t DEF WorkerState, IdleWorker
    <3> HIDE DEF r
    <3> QED
      BY <2>a, <3>1, <3>2
  <2>5. ASSUME NEW w \in Workers, NextJob(w) PROVE Goal
    <3>1. PICK j \in worker[w].batch :
             \/ worker' = [worker EXCEPT ![w].batch = @ \ {j}]
             \/ worker' = [worker EXCEPT ![w].pc = "read", ![w].job = j, ![w].batch = @ \ {j}]
      BY <2>5 DEF NextJob
    <3> DEFINE q == [worker[w] EXCEPT !.batch = @ \ {j}]
               r == [worker[w] EXCEPT !.pc = "read", !.job = j, !.batch = @ \ {j}]
    <3>2. worker' = [worker EXCEPT ![w] = q] \/ worker' = [worker EXCEPT ![w] = r]
      BY <3>1
    <3>3. worker[w].pc # "insert"
      BY <2>5 DEF NextJob
    <3>4. q.usable /\ r.usable
      BY <1>t DEF WorkerState
    <3> HIDE DEF q, r
    <3> QED
      BY <2>a, <3>2, <3>3, <3>4
  <2>6. ASSUME NEW w \in Workers, BeginGeneration(w) \/ ModelAnswers(w) PROVE Goal
    BY <1>t, <2>6 DEF BeginGeneration, ModelAnswers, WorkerState
  <2>7. ASSUME NEW w \in Workers, Supersede(w) PROVE Goal
    BY <1>t, <2>7 DEF Supersede, WorkerState
  <2>8. ASSUME NEW w \in Workers, InsertNarrative(w) PROVE Goal
    <3>1. \E pc : worker' = [worker EXCEPT ![w].pc = pc]
      BY <2>8 DEF InsertNarrative
    <3> QED
      BY <1>t, <2>8, <3>1 DEF WorkerState
  <2>9. ASSUME NEW w \in Workers, ResolveConflict(w) PROVE Goal
    <3> DEFINE r == [worker[w] EXCEPT !.pc = IF ActiveRows(Target(w)) = {} THEN "fail" ELSE "finish"]
    <3>1. worker' = [worker EXCEPT ![w] = r] /\ worker[w].pc # "insert"
      BY <2>9 DEF ResolveConflict
    <3>2. r.usable
      BY <1>t DEF WorkerState, IdleWorker
    <3> HIDE DEF r
    <3> QED
      BY <2>a, <3>1, <3>2
  <2>9b. ASSUME NEW w \in Workers, StampAccount(w) PROVE Goal
    <3> DEFINE r == [worker[w] EXCEPT !.pc = "finish"]
    <3>1. worker' = [worker EXCEPT ![w] = r] /\ worker[w].pc # "insert"
      BY <2>9b DEF StampAccount
    <3>2. r.usable
      BY <1>t DEF WorkerState, IdleWorker
    <3> HIDE DEF r
    <3> QED
      BY <2>a, <3>1, <3>2
  <2>10. ASSUME NEW w \in Workers, FinishJob(w) PROVE Goal
    <3> DEFINE r == NextOfBatch(w)
    <3>1. worker' = [worker EXCEPT ![w] = r] /\ worker[w].pc # "insert"
      BY <2>10 DEF FinishJob
    <3>2. r.usable
      BY <1>t DEF NextOfBatch, IdleWorker
    <3> HIDE DEF r
    <3> QED
      BY <2>a, <3>1, <3>2
  <2>10b. ASSUME NEW w \in Workers, FailJob(w) PROVE Goal
    <3> DEFINE r == NextOfBatch(w)
    <3>1. worker' = [worker EXCEPT ![w] = r] /\ worker[w].pc # "insert"
      BY <2>10b DEF FailJob
    <3>2. r.usable
      BY <1>t DEF NextOfBatch, IdleWorker
    <3> HIDE DEF r
    <3> QED
      BY <2>a, <3>1, <3>2
  <2>11. ASSUME NEW w \in Workers, CallRaises(w) \/ WorkerCrash(w) PROVE Goal
    BY <1>t, <2>11 DEF CallRaises, WorkerCrash
  <2> QED
    BY <2>1, <2>2, <2>3, <2>4, <2>4b, <2>4c, <2>5, <2>6, <2>7, <2>8, <2>9, <2>9b, <2>10,
       <2>10b, <2>11
       DEF Next, Enqueue, Drain, SignalLands, CaptureNow, DebounceCheck, CapCheck,
           InsertJob, IngestCrash, ManualRegenerate, DismissAccount, Tick, vars
<1>s. ASSUME NEW v \in Workers, worker[v].pc = "insert",
             worker'[v].pc = "insert", worker'[v].job = worker[v].job
      PROVE  Target(v)' = Target(v)
  BY <1>s, TargetStays DEF Generating
<1>3. ASSUME UNCHANGED narratives PROVE OneActiveUnlessReplacing'
  <2> SUFFICES ASSUME NEW a \in Accounts, narratives[a] # <<>>, Cardinality(ActiveRows(a)) # 1
               PROVE  \E w \in Workers : worker'[w].pc = "insert" /\ Target(w)' = a
    BY <1>3, <1>t DEF OneActiveUnlessReplacing, ActiveRows
  <2>1. ActiveRows(a) = {}
    BY <1>t DEF OneActiveUnlessReplacing
  <2>2. PICK w \in Workers : worker[w].pc = "insert" /\ Target(w) = a
    BY <1>t DEF OneActiveUnlessReplacing
  <2>3. ~InsertNarrative(w)
    <3> SUFFICES ASSUME InsertNarrative(w) PROVE FALSE
      OBVIOUS
    <3>1. narratives' = [narratives EXCEPT ![a] = Append(@, [covers |-> worker[w].seen,
                                 generated |-> worker[w].started, superseded |-> None])]
      BY <1>t, <2>1, <2>2 DEF InsertNarrative
    <3>2. Len(narratives'[a]) = Len(narratives[a]) + 1
      BY <1>t, <3>1 DEF TypeInv, TypeOK
    <3> QED
      BY <1>3, <1>t, <3>2
  <2> QED
    BY <1>2, <1>s, <2>2, <2>3
<1>4. ASSUME NEW w \in Workers, Supersede(w) PROVE OneActiveUnlessReplacing'
  <2>1. worker'[w].pc = "insert" /\ worker[w].pc = "supersede" /\ worker'[w].job = worker[w].job
    BY <1>t, <1>4 DEF Supersede, WorkerState
  <2>2. Target(w)' = Target(w) /\ Target(w) \in Accounts
    BY <2>1, TargetStays DEF Generating
  <2>3. ActiveRows(Target(w))' = {}
    BY <1>4, <2>2, SupersedeEffect DEF TypeInv
  <2>4. ASSUME NEW a \in Accounts, a # Target(w), narratives'[a] # <<>>
        PROVE  \/ Cardinality(ActiveRows(a)') = 1
               \/ /\ ActiveRows(a)' = {}
                  /\ \E v \in Workers : worker'[v].pc = "insert" /\ Target(v)' = a
    <3>1. narratives'[a] = narratives[a]
      BY <1>4, <2>4 DEF Supersede, TypeInv, TypeOK
    <3>2. ActiveRows(a)' = ActiveRows(a)
      BY <3>1 DEF ActiveRows
    <3>3. \A v \in Workers : ~InsertNarrative(v)
      <4> SUFFICES ASSUME NEW v \in Workers, InsertNarrative(v) PROVE FALSE
        OBVIOUS
      <4>1. worker[v].pc = "insert"
        BY DEF InsertNarrative
      <4>2. v # w /\ worker'[v] = worker[v]
        BY <1>t, <1>4, <2>1, <4>1 DEF Supersede
      <4>3. worker'[v].pc # "insert"
        BY <1>t DEF InsertNarrative, WorkerState
      <4> QED
        BY <4>1, <4>2, <4>3
    <3> QED
      BY <1>t, <1>2, <1>s, <2>4, <3>1, <3>2, <3>3 DEF OneActiveUnlessReplacing
  <2> QED
    BY <2>1, <2>2, <2>3, <2>4 DEF OneActiveUnlessReplacing
<1>5. ASSUME NEW w \in Workers, InsertNarrative(w), ~UNCHANGED narratives
      PROVE  OneActiveUnlessReplacing'
  <2>0. PICK a \in Accounts : a = Target(w)
    BY <1>5 DEF InsertNarrative, TypeInv, HoldsRows, HaveAccounts, Generating, Target
  <2> DEFINE row == [covers |-> worker[w].seen, generated |-> worker[w].started,
                     superseded |-> None]
  <2>1. worker[w].pc = "insert"
    BY <1>5 DEF InsertNarrative
  <2>2. /\ ActiveRows(a) = {}
        /\ narratives' = [narratives EXCEPT ![a] = Append(@, row)]
        /\ worker' = [worker EXCEPT ![w].pc = "stamp"]
    BY <1>5, <2>0 DEF InsertNarrative
  <2>3. /\ narratives'[a] = Append(narratives[a], row)
        /\ \A b \in Accounts \ {a} : narratives'[b] = narratives[b]
    BY <2>1, <2>2 DEF TypeInv, TypeOK
  <2>4. ActiveRows(a)' = {Len(narratives[a]) + 1}
    <3>1. /\ Len(narratives'[a]) = Len(narratives[a]) + 1 /\ Len(narratives[a]) \in Nat
          /\ \A i \in 1..Len(narratives[a]) : narratives'[a][i] = narratives[a][i]
          /\ narratives'[a][Len(narratives[a]) + 1].superseded = None
      BY <1>t, <2>1, <2>3
    <3>2. \A i \in 1..Len(narratives[a]) : narratives[a][i].superseded # None
      BY <2>2 DEF ActiveRows
    <3>3. ActiveRows(a)' = {i \in 1..Len(narratives'[a]) : narratives'[a][i].superseded = None}
      BY DEF ActiveRows
    <3> QED
      BY <3>1, <3>2, <3>3
  <2>5. ASSUME NEW b \in Accounts, b # a, narratives'[b] # <<>>
        PROVE  \/ Cardinality(ActiveRows(b)') = 1
               \/ /\ ActiveRows(b)' = {}
                  /\ \E v \in Workers : worker'[v].pc = "insert" /\ Target(v)' = b
    <3>1. narratives'[b] = narratives[b] /\ ActiveRows(b)' = ActiveRows(b)
      BY <2>3, <2>5 DEF ActiveRows
    <3>2. ASSUME NEW v \in Workers, worker[v].pc = "insert", Target(v) = b
          PROVE  worker'[v].pc = "insert" /\ Target(v)' = b
      <4>1. v # w /\ worker'[v] = worker[v]
        BY <1>t, <2>0, <2>2, <2>5, <3>2
      <4> QED
        BY <1>s, <3>2, <4>1
    <3> QED
      BY <1>t, <2>0, <2>5, <3>1, <3>2 DEF OneActiveUnlessReplacing
  <2>6. Cardinality(ActiveRows(a)') = 1
    BY <2>4, FS_Singleton
  <2> QED
    BY <2>5, <2>6 DEF OneActiveUnlessReplacing
<1>6. OneActiveUnlessReplacing'
  BY <1>3, <1>4, <1>5, NarrativesStay
<1> QED
  BY <1>1, <1>2, <1>6 DEF OneActiveInv

\* With any number of workers on the same jobs, overlapping ticks included, a failure-free
\* queue shows one active narrative of an account or is about to insert it.
THEOREM OneActiveNarrative == MaxFaults = 0 => (Spec => []OneActiveUnlessReplacing)
<1> SUFFICES ASSUME MaxFaults = 0 PROVE Spec => []OneActiveUnlessReplacing
  OBVIOUS
<1>1. Init => TypeInv /\ OneActiveInv
  BY TypeInit, OneActiveInit
<1>2. TypeInv /\ OneActiveInv /\ [Next]_vars => TypeInv' /\ OneActiveInv'
  BY TypeStep, OneActiveStep
<1>3. OneActiveInv => OneActiveUnlessReplacing
  BY DEF OneActiveInv
<1> QED
  BY <1>1, <1>2, <1>3, PTL DEF Spec

-----------------------------------------------------------------------------
(* The rate cap, as enqueue_regen_job applies it. *)

\* A handler with a schedule has respected every completion before its own "now".
Spaced(i) ==
    \A k \in JobIds :
        (/\ jobs[k].status = "done" /\ jobs[k].account = ingest[i].account
         /\ jobs[k].updated < ingest[i].at)
        => ingest[i].scheduled >= jobs[k].updated + RateCap

CapInv ==
    \A i \in Ingesters :
        /\ ingest[i].pc \in {"debounce", "cap", "insert"} => ingest[i].at <= now
        /\ ingest[i].pc = "insert" => Spaced(i)

\* A row that is DONE after a step was DONE before, unchanged, or is completed now.
LEMMA DoneRowsStay ==
  ASSUME TypeInv, [Next]_vars, NEW k \in JobIds, jobs'[k].status = "done"
  PROVE  jobs'[k] = jobs[k] \/ jobs'[k].updated = now
<1> DEFINE Goal == jobs'[k] = jobs[k] \/ jobs'[k].updated = now
<1>t. TypeOK /\ HaveAccounts /\ HoldsRows /\ \A j \in JobIds : jobs[j] \in Job
  BY DEF TypeInv, TypeOK
<1>1. CASE UNCHANGED jobs
  BY <1>1
<1>2. ASSUME NEW i \in Ingesters, DebounceCheck(i) PROVE Goal
  <2>1. ingest[i].account \in Accounts
    BY <1>t, <1>2 DEF DebounceCheck, HaveAccounts
  <2> QED
    BY <1>t, <1>2, <2>1, AnswerUpdate DEF DebounceCheck, Upcoming
<1>3. ASSUME NEW i \in Ingesters, InsertJob(i) PROVE Goal
  BY <1>t, <1>3 DEF InsertJob, TypeOK
<1>4. ASSUME NEW a \in Accounts, ManualRegenerate(a) PROVE Goal
  BY <1>t, <1>4, AnswerUpdate DEF ManualRegenerate, Upcoming
<1>5. ASSUME NEW w \in Workers, StartTick(w) PROVE Goal
  BY <1>t, <1>5 DEF StartTick, Job
<1>u. ASSUME NEW j \in JobIds, NEW st \in Status,
             jobs' = [jobs EXCEPT ![j].status = st, ![j].updated = now]
      PROVE  Goal
  BY <1>t, <1>u DEF TypeOK, Job
<1>6. ASSUME NEW w \in Workers, NextJob(w) PROVE Goal
  <2>1. PICK j \in worker[w].batch :
          \/ jobs' = [jobs EXCEPT ![j].status = "failed", ![j].updated = now]
          \/ jobs' = [jobs EXCEPT ![j].status = "running", ![j].updated = now]
    BY <1>6 DEF NextJob
  <2>2. j \in JobIds
    BY <1>t DEF TypeOK, WorkerState
  <2> QED
    BY <1>u, <2>1, <2>2 DEF Status
<1>7. ASSUME NEW w \in Workers, FinishJob(w) PROVE Goal
  <2>1. worker[w].job \in JobIds
    BY <1>t, <1>7 DEF FinishJob, HoldsRows, Generating
  <2> QED
    BY <1>7, <1>u, <2>1 DEF FinishJob, Status
<1>8. ASSUME NEW w \in Workers, FailJob(w) PROVE Goal
  <2>1. worker[w].job \in JobIds
    BY <1>t, <1>8 DEF FailJob, HoldsRows, Generating
  <2> QED
    BY <1>8, <1>u, <2>1 DEF FailJob, Status
<1> QED
  BY <1>1, <1>2, <1>3, <1>4, <1>5, <1>6, <1>7, <1>8, RegenAssumption
     DEF Next, Enqueue, Drain, SignalLands, CaptureNow, CapCheck, IngestCrash,
         DismissAccount, FetchJobs, LoadAccounts, EndTick, ReadSignals, BeginGeneration,
         ModelAnswers, Supersede, InsertNarrative, ResolveConflict, StampAccount,
         CallRaises, WorkerCrash, Tick, vars

\* A handler that has its "now" after a step had it before, or takes it in the step.
LEMMA HandlersMove ==
  ASSUME TypeInv, [Next]_vars, NEW i \in Ingesters,
         ingest'[i].pc \in {"debounce", "cap", "insert"}
  PROVE  \/ ingest'[i].pc = "debounce" /\ ingest'[i].at = now
         \/ /\ ingest[i].pc \in {"debounce", "cap", "insert"}
            /\ ingest'[i].at = ingest[i].at
            /\ ingest'[i].account = ingest[i].account
            /\ ingest'[i].pc = "insert" => ingest'[i] = ingest[i] \/ CapCheck(i)
<1> DEFINE Goal == \/ ingest'[i].pc = "debounce" /\ ingest'[i].at = now
                   \/ /\ ingest[i].pc \in {"debounce", "cap", "insert"}
                      /\ ingest'[i].at = ingest[i].at
                      /\ ingest'[i].account = ingest[i].account
                      /\ ingest'[i].pc = "insert" => ingest'[i] = ingest[i] \/ CapCheck(i)
<1>t. ingest \in [Ingesters -> Handler] /\ \A h \in Ingesters : ingest[h] \in Handler
  BY DEF TypeInv, TypeOK
<1>1. CASE UNCHANGED ingest
  BY <1>1
<1>2. ASSUME NEW h \in Ingesters, NEW a \in Accounts, SignalLands(h, a) PROVE Goal
  BY <1>t, <1>2 DEF SignalLands, Handler, IdleHandler
<1>3. ASSUME NEW h \in Ingesters, CaptureNow(h) PROVE Goal
  BY <1>t, <1>3 DEF CaptureNow, Handler
<1>4. ASSUME NEW h \in Ingesters, DebounceCheck(h) PROVE Goal
  BY <1>t, <1>4 DEF DebounceCheck, Handler, IdleHandler
<1>5. ASSUME NEW h \in Ingesters, CapCheck(h) PROVE Goal
  <2>1. PICK t : ingest' = [ingest EXCEPT ![h].pc = "insert", ![h].scheduled = t]
    BY <1>5 DEF CapCheck
  <2>2. ingest[h].pc = "cap"
    BY <1>5 DEF CapCheck
  <2> QED
    BY <1>t, <1>5, <2>1, <2>2 DEF Handler
<1>6. ASSUME NEW h \in Ingesters, InsertJob(h) PROVE Goal
  BY <1>t, <1>6 DEF InsertJob, Handler, IdleHandler
<1>7. ASSUME NEW h \in Ingesters, IngestCrash(h) PROVE Goal
  BY <1>t, <1>7 DEF IngestCrash, Handler, IdleHandler
<1> QED
  BY <1>1, <1>2, <1>3, <1>4, <1>5, <1>6, <1>7
     DEF Next, Enqueue, Drain, ManualRegenerate, DismissAccount, StartTick, FetchJobs,
         LoadAccounts, NextJob, EndTick, ReadSignals, BeginGeneration, ModelAnswers,
         Supersede, InsertNarrative, ResolveConflict, StampAccount, FinishJob, FailJob,
         CallRaises, WorkerCrash, Tick, vars

\* CapCheck takes a schedule outside the window of every completion it should see.
LEMMA CapCheckSpaces ==
  ASSUME TypeInv, NEW i \in Ingesters, CapCheck(i)
  PROVE  Spaced(i)'
<1>t. /\ ingest \in [Ingesters -> Handler] /\ ingest[i] \in Handler
      /\ ingest[i].at \in Nat /\ jobs' = jobs
      /\ \A k \in JobIds : jobs[k].updated \in Nat
  BY DEF CapCheck, TypeInv, TypeOK, Handler, Job
<1>1. PICK t : ingest' = [ingest EXCEPT ![i].pc = "insert", ![i].scheduled = t]
  BY DEF CapCheck
<1>2. ingest'[i].scheduled = t /\ ingest'[i].at = ingest[i].at /\ ingest'[i].account = ingest[i].account
  BY <1>t, <1>1 DEF Handler
<1> SUFFICES ASSUME NEW k \in JobIds, jobs[k].status = "done",
                    jobs[k].account = ingest[i].account, jobs[k].updated < ingest[i].at
             PROVE  t >= jobs[k].updated + RateCap
  BY <1>t, <1>2 DEF Spaced
<1> DEFINE done == RecentlyDone(ingest[i].account, ingest[i].at)
<1>3. CASE done = {}
  <2>1. t = ingest[i].at + Debounce
    BY <1>t, <1>2, <1>3 DEF CapCheck, Handler
  <2>2. ~(jobs[k].updated > ingest[i].at - RateCap)
    BY <1>3 DEF RecentlyDone
  <2> QED
    BY <1>t, <2>1, <2>2, RegenAssumption
<1>4. CASE done # {}
  <2>1. PICK last \in done :
          /\ \A j \in done : jobs[j].updated <= jobs[last].updated
          /\ ingest' = [ingest EXCEPT ![i].pc = "insert",
                                      ![i].scheduled = jobs[last].updated + RateCap]
    BY <1>4 DEF CapCheck
  <2>2. t = jobs[last].updated + RateCap
    BY <1>t, <1>2, <2>1 DEF Handler
  <2>3. last \in JobIds /\ jobs[last].updated > ingest[i].at - RateCap
    BY DEF RecentlyDone
  <2>4. k \in done \/ ~(jobs[k].updated > ingest[i].at - RateCap)
    BY DEF RecentlyDone
  <2>5. CASE k \in done
    BY <1>t, <2>1, <2>2, <2>3, <2>5, RegenAssumption
  <2>6. CASE ~(jobs[k].updated > ingest[i].at - RateCap)
    BY <1>t, <2>2, <2>3, <2>6, RegenAssumption
  <2> QED
    BY <2>4, <2>5, <2>6
<1> QED
  BY <1>3, <1>4

\* The schedules handlers hold stay outside the cap windows: what completes after
\* CapCheck completes no earlier than the handler's "now".
LEMMA CapStep == TypeInv /\ CapInv /\ [Next]_vars => CapInv'
<1> SUFFICES ASSUME TypeInv, CapInv, [Next]_vars,
                    NEW i \in Ingesters, ingest'[i].pc \in {"debounce", "cap", "insert"}
             PROVE  /\ ingest'[i].at <= now'
                    /\ ingest'[i].pc = "insert" => Spaced(i)'
  BY DEF CapInv
<1>t. /\ now \in Nat /\ now' \in Nat /\ now <= now'
      /\ ingest[i].at \in Nat /\ ingest[i] \in Handler /\ TypeInv'
  BY ClockMoves, TypeStep DEF TypeInv, TypeOK, Handler
<1>1. CASE ingest'[i].pc = "debounce" /\ ingest'[i].at = now
  BY <1>t, <1>1
<1>2. CASE /\ ingest[i].pc \in {"debounce", "cap", "insert"}
           /\ ingest'[i].at = ingest[i].at
           /\ ingest'[i].account = ingest[i].account
           /\ ingest'[i].pc = "insert" => ingest'[i] = ingest[i] \/ CapCheck(i)
  <2>1. ingest[i].at <= now
    BY <1>2 DEF CapInv
  <2>2. ASSUME ingest'[i] = ingest[i], ingest[i].pc = "insert" PROVE Spaced(i)'
    <3> SUFFICES ASSUME NEW k \in JobIds, jobs'[k].status = "done",
                        jobs'[k].account = ingest[i].account, jobs'[k].updated < ingest[i].at
                 PROVE  ingest[i].scheduled >= jobs'[k].updated + RateCap
      BY <2>2 DEF Spaced
    <3>1. jobs'[k] = jobs[k] \/ jobs'[k].updated = now
      BY DoneRowsStay
    <3>2. jobs'[k].updated # now
      BY <1>t, <2>1
    <3> QED
      BY <2>2, <3>1, <3>2 DEF CapInv, Spaced
  <2> QED
    BY <1>t, <1>2, <2>1, <2>2, CapCheckSpaces
<1> QED
  BY <1>1, <1>2, HandlersMove

\* Whatever overlaps or fails, a job is never scheduled inside the cap window of a
\* completion that was there when its handler took its "now" (enqueue_regen_job).
THEOREM CapIsHonoured == Spec => CapHonouredAtEnqueue
<1> DEFINE Honours ==
      \A i \in Ingesters, j, k \in JobIds :
          (/\ ingest[i].pc = "insert" /\ ingest'[i].pc = "idle"
           /\ jobs[j].status = "absent" /\ jobs'[j].status = "pending"
           /\ jobs[k].status = "done" /\ jobs[k].account = ingest[i].account
           /\ jobs[k].updated < ingest[i].at)
          => jobs'[j].scheduled >= jobs[k].updated + RateCap
<1>1. Init => CapInv
  BY DEF Init, CapInv, IdleHandler
<1>2. TypeInv /\ CapInv /\ [Next]_vars => Honours
  <2> SUFFICES ASSUME TypeInv, CapInv, [Next]_vars, NEW i \in Ingesters,
                      NEW j \in JobIds, NEW k \in JobIds,
                      ingest[i].pc = "insert", ingest'[i].pc = "idle",
                      jobs[j].status = "absent", jobs'[j].status = "pending",
                      jobs[k].status = "done", jobs[k].account = ingest[i].account,
                      jobs[k].updated < ingest[i].at
               PROVE  jobs'[j].scheduled >= jobs[k].updated + RateCap
    OBVIOUS
  <2>1. InsertJob(i)
    <3>1. InsertJob(i) \/ UNCHANGED ingest \/ UNCHANGED jobs \/
          \E h \in Ingesters : h # i /\ (InsertJob(h) \/ DebounceCheck(h))
      BY DEF Next, Enqueue, Drain, SignalLands, CaptureNow, DebounceCheck, CapCheck,
         IngestCrash, ManualRegenerate, DismissAccount, StartTick, FetchJobs, LoadAccounts,
         NextJob, EndTick, ReadSignals, BeginGeneration, ModelAnswers, Supersede,
         InsertNarrative, ResolveConflict, StampAccount, FinishJob, FailJob, CallRaises,
         WorkerCrash, Tick, vars
    <3>2. ASSUME NEW h \in Ingesters, h # i, InsertJob(h) \/ DebounceCheck(h) PROVE FALSE
      <4>1. \E r : ingest' = [ingest EXCEPT ![h] = r]
        BY <3>2 DEF InsertJob, DebounceCheck
      <4> QED
        BY <3>2, <4>1 DEF TypeInv, TypeOK
    <3> QED
      BY <3>1, <3>2
  <2>2. jobs'[j].scheduled = ingest[i].scheduled
    BY <2>1 DEF InsertJob, TypeInv, TypeOK
  <2> QED
    BY <2>2 DEF CapInv, Spaced
<1>3. Init => TypeInv /\ CapInv
  BY <1>1, TypeInit
<1>4. TypeInv /\ CapInv /\ [Next]_vars => TypeInv' /\ CapInv'
  BY TypeStep, CapStep
<1> QED
  BY <1>2, <1>3, <1>4, PTL DEF Spec, CapHonouredAtEnqueue
=============================================================================
