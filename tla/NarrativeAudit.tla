--------------------------- MODULE NarrativeAudit ---------------------------
(***************************************************************************)
(* One audit of one narrative, scripts/audit_narratives.py's               *)
(* audit_one_narrative: ask the auditing model, then write one row per     *)
(* criterion and one aggregate row, each by an insert of its own.  The     *)
(* simulator and the audit CLI both call it; the caller takes the result   *)
(* from "auditor" once its pc is "done" or "raised".                       *)
(***************************************************************************)
EXTENDS Integers, Sequences, FiniteSets, Functions

CONSTANTS
    Criteria,       \* the rubric's criteria in the order they are written
    Advisory,       \* those of them that do not block: tone_fit
    Verdicts,       \* sets of criteria the auditing model may find failed
    MaxFaults       \* bound on failed calls and crashes

VARIABLES
    audits,         \* narrative_audits: [row, run, criterion]
    auditRuns,      \* narrative_audit_runs: [row, run, passed]
    auditor,        \* the call of audit_one_narrative in progress
    faults          \* failed calls and crashes so far

ASSUME AuditAssumption ==
    /\ Criteria \in Seq(Range(Criteria)) /\ IsInjective(Criteria)
    /\ Verdicts \subseteq SUBSET Range(Criteria)
    /\ MaxFaults \in Nat

NoAudit == [pc |-> "idle", row |-> 0, run |-> 0, failed |-> {}, wrote |-> 0]

AuditInit ==
    /\ audits = {}
    /\ auditRuns = {}
    /\ auditor = NoAudit
    /\ faults = 0

\* evaluate_gate: only a failed blocking criterion fails the narrative.
GatePassed(failed) == failed \subseteq Advisory

\* evaluate_corpus_gate: strictly more than half of the narratives failed.
CorpusBlocked(outcomes) ==
    2 * Cardinality({i \in DOMAIN outcomes : ~outcomes[i]}) > Len(outcomes)

Begin(row, run) == auditor' = [NoAudit EXCEPT !.pc = "model", !.row = row, !.run = run]

\* fetch_audit_context, the model's answer and parse_audit_response.
AskModel ==
    /\ auditor.pc = "model"
    /\ \E failed \in Verdicts : auditor' = [auditor EXCEPT !.pc = "criteria", !.failed = failed]
    /\ UNCHANGED <<audits, auditRuns, faults>>

WriteCriterion ==
    /\ auditor.pc = "criteria"
    /\ auditor.wrote < Len(Criteria)
    /\ audits' = audits \cup {[row |-> auditor.row, run |-> auditor.run,
                               criterion |-> Criteria[auditor.wrote + 1]]}
    /\ auditor' = [auditor EXCEPT !.wrote = @ + 1]
    /\ UNCHANGED <<auditRuns, faults>>

\* uq_narrative_audit_runs: one aggregate row for a narrative and a run.
WriteAggregate ==
    /\ auditor.pc = "criteria"
    /\ auditor.wrote = Len(Criteria)
    /\ IF \E a \in auditRuns : a.row = auditor.row /\ a.run = auditor.run
       THEN auditor' = [auditor EXCEPT !.pc = "undo"] /\ UNCHANGED auditRuns
       ELSE /\ auditRuns' = auditRuns \cup {[row |-> auditor.row, run |-> auditor.run,
                                             passed |-> GatePassed(auditor.failed)]}
            /\ auditor' = [auditor EXCEPT !.pc = "done"]
    /\ UNCHANGED <<audits, faults>>

\* Mutant: takes back the criteria of every narrative of the run.
UndoRun ==
    /\ auditor.pc = "undo"
    /\ audits' = {a \in audits : a.run # auditor.run}
    /\ auditor' = [auditor EXCEPT !.pc = "raised"]
    /\ UNCHANGED <<auditRuns, faults>>

\* The compensating delete, of this narrative's rows of this run.
Undo ==
    /\ auditor.pc = "undo"
    /\ audits' = {a \in audits : ~(a.row = auditor.row /\ a.run = auditor.run)}
    /\ auditor' = [auditor EXCEPT !.pc = "raised"]
    /\ UNCHANGED <<auditRuns, faults>>

\* A call fails.  Only the aggregate's failure is compensated: a criterion that
\* cannot be written, its details over 64 KB included, leaves those before it.
CallFails ==
    /\ auditor.pc \in {"model", "criteria", "undo"}
    /\ faults < MaxFaults
    /\ faults' = faults + 1
    /\ auditor' = [auditor EXCEPT !.pc = IF @ = "criteria" /\ auditor.wrote = Len(Criteria)
                                         THEN "undo" ELSE "raised"]
    /\ UNCHANGED <<audits, auditRuns>>

Auditing == AskModel \/ WriteCriterion \/ WriteAggregate \/ Undo

AuditTypeOK ==
    /\ audits \subseteq [row : Nat, run : Nat, criterion : Range(Criteria)]
    /\ auditRuns \subseteq [row : Nat, run : Nat, passed : BOOLEAN]
    /\ auditor \in [pc : {"idle", "model", "criteria", "undo", "done", "raised"}, row : Nat,
                    run : Nat, failed : Verdicts \cup {{}}, wrote : 0 .. Len(Criteria)]
    /\ faults \in 0 .. MaxFaults
=============================================================================
