---------------------------- MODULE GranolaPoll ----------------------------
(***************************************************************************)
(* POST /run-polls (src/server/routes/polls.py), which the scheduler calls *)
(* every quarter of an hour, and poll_workspace_granola, which it runs for *)
(* each active credential.  A run may still be at work when the next one   *)
(* starts.  The cursor of a credential is the id of the last note handled; *)
(* ids stand for the place of the note in the list Granola serves.         *)
(***************************************************************************)
EXTENDS SignalNormalizer

CONSTANTS
    Polls,          \* runs of /run-polls that may be under way at once
    Credentials,
    Notes,          \* Notes[c]: what Granola will ever serve for credential c
    Blank,          \* notes without a summary: skipped
    Unparsable,     \* notes without an owner's address: parse_granola_note raises
    PageSize,
    MaxErrors       \* integrations.max_consecutive_errors

ASSUME PollAssumption ==
    /\ Polls \subseteq Workers
    /\ Notes \in [Credentials -> Seq(Items \ Keyless)]
    /\ Blank \subseteq Items /\ Unparsable \subseteq Items
    /\ PageSize \in Nat \ {0}
    /\ MaxErrors \in Nat \ {0}

VARIABLES
    published,      \* published[c]: how many notes Granola serves by now
    integration,    \* integration[c]: the row of integration_state
    credential,     \* credential[c]: the row of external_credentials
    poll,           \* poll[p]: run p
    failures        \* history: failures[c]: errors of c counted since its last success

pollVars == <<published, integration, credential, poll, failures>>

-----------------------------------------------------------------------------

Integration == [exists : BOOLEAN, cursor : Nat, errors : Nat]
Credential == [active : BOOLEAN, error : BOOLEAN]

\* "base" is the consecutive_errors of the row when the poll began, "read" its value
\* when the poll came to count its own error.
Poll == [pc : {"idle", "next", "create", "fetch", "note", "normalize", "schedule",
               "success", "clear", "mark", "count", "record", "deactivate"},
         todo : SUBSET Credentials, cred : Maybe(Credentials), base : Nat, after : Nat,
         note : Nat, upto : Nat, more : BOOLEAN, kind : {"none", "rate", "auth", "other"},
         read : Nat]

NoPoll == [pc |-> "idle", todo |-> {}, cred |-> None, base |-> 0, after |-> 0, note |-> 0,
           upto |-> 0, more |-> FALSE, kind |-> "none", read |-> 0]

PollTypeOK ==
    /\ published \in [Credentials -> Nat]
    /\ \A c \in Credentials : published[c] <= Len(Notes[c])
    /\ integration \in [Credentials -> Integration]
    /\ credential \in [Credentials -> Credential]
    /\ poll \in [Polls -> Poll]
    /\ failures \in [Credentials -> Nat]

PollInit ==
    /\ published = [c \in Credentials |-> 0]
    /\ integration = [c \in Credentials |-> [exists |-> FALSE, cursor |-> 0, errors |-> 0]]
    /\ credential = [c \in Credentials |-> [active |-> TRUE, error |-> FALSE]]
    /\ poll = [p \in Polls |-> NoPoll]
    /\ failures = [c \in Credentials |-> 0]

On(p, pc) == poll[p].pc = pc
Step(p, pc) == poll' = [poll EXCEPT ![p].pc = pc]

\* The credential is done with; the run turns to the next one.
Leave(p) == poll' = [poll EXCEPT ![p] = [NoPoll EXCEPT !.pc = "next", !.todo = poll[p].todo]]

\* An except clause of poll_workspace_granola.
Except(p, kind) == poll' = [poll EXCEPT ![p].kind = kind,
                                        ![p].pc = IF kind = "auth" THEN "mark" ELSE "count"]

rows == <<integration, credential, failures>>
rest == <<published, normalizerVars>>

Publish(c) ==
    /\ published[c] < Len(Notes[c])
    /\ published' = [published EXCEPT ![c] = @ + 1]
    /\ UNCHANGED <<rows, poll, faults, normalizerVars>>

-----------------------------------------------------------------------------
(* The run: every active credential in turn. *)

BeginRun(p) ==
    /\ On(p, "idle")
    /\ \E c \in Credentials : credential[c].active
    /\ poll' = [poll EXCEPT ![p].pc = "next",
                            ![p].todo = {c \in Credentials : credential[c].active}]
    /\ UNCHANGED <<rows, faults, rest>>

EndRun(p) ==
    /\ On(p, "next")
    /\ poll[p].todo = {}
    /\ poll' = [poll EXCEPT ![p] = NoPoll]
    /\ UNCHANGED <<rows, faults, rest>>

\* The poll works with the cursor and the error count it reads here.
Take(p, c) ==
    poll' = [poll EXCEPT ![p].pc = "fetch", ![p].cred = c, ![p].todo = @ \ {c},
                         ![p].base = integration[c].errors,
                         ![p].after = integration[c].cursor]

NextCredential(p) ==
    /\ On(p, "next")
    /\ \E c \in poll[p].todo :
         IF integration[c].exists THEN Take(p, c)
         ELSE poll' = [poll EXCEPT ![p].pc = "create", ![p].cred = c]
    /\ UNCHANGED <<rows, faults, rest>>

\* The credential has one row: a run that finds it inserted by another dies of the
\* unique violation, which nothing catches, with the credentials it had still to do.
CreateState(p) ==
    LET c == poll[p].cred IN
    /\ On(p, "create")
    /\ IF integration[c].exists
       THEN poll' = [poll EXCEPT ![p] = NoPoll] /\ UNCHANGED integration
       ELSE /\ Take(p, c)
            /\ integration' = [integration EXCEPT ![c].exists = TRUE]
    /\ UNCHANGED <<credential, failures, faults, rest>>

\* get_or_create_integration_state raises: it stands outside the try as well.
StateRaises(p) ==
    /\ On(p, "next") \/ On(p, "create")
    /\ Fault
    /\ poll' = [poll EXCEPT ![p] = NoPoll]
    /\ UNCHANGED <<rows, rest>>

\* decrypt_secret raises before the poll's own try: counted nowhere.
Undecryptable(p) ==
    /\ On(p, "next")
    /\ Fault
    /\ \E c \in poll[p].todo : integration[c].exists
                             /\ poll' = [poll EXCEPT ![p].todo = @ \ {c}]
    /\ UNCHANGED <<rows, rest>>

-----------------------------------------------------------------------------
(* The poll: page after page. *)

\* Mutant: the cursor moves when a page is fetched, before its notes are stored.
FetchAndAdvance(p) ==
    LET c == poll[p].cred
        n == published[c] - poll[p].after
        upto == IF n > PageSize THEN poll[p].after + PageSize ELSE published[c]
    IN
    /\ On(p, "fetch")
    /\ IF n = 0 THEN Step(p, "success")
       ELSE poll' = [poll EXCEPT ![p].pc = "note", ![p].note = poll[p].after + 1,
                                 ![p].upto = upto, ![p].more = upto < published[c]]
    /\ integration' = [integration EXCEPT ![c].cursor = upto]
    /\ UNCHANGED <<credential, failures, faults, rest>>

FetchPage(p) ==
    LET c == poll[p].cred
        n == published[c] - poll[p].after
        upto == IF n > PageSize THEN poll[p].after + PageSize ELSE published[c]
    IN
    /\ On(p, "fetch")
    /\ IF n = 0 THEN Step(p, "success")
       ELSE poll' = [poll EXCEPT ![p].pc = "note", ![p].note = poll[p].after + 1,
                                 ![p].upto = upto, ![p].more = upto < published[c]]
    /\ UNCHANGED <<rows, faults, rest>>

\* Granola answers with 429, with 401 or 403, with 5xx, or not in time.
FetchFails(p) ==
    /\ On(p, "fetch")
    /\ Fault
    /\ \E kind \in {"rate", "auth", "other"} : Except(p, kind)
    /\ UNCHANGED <<rows, rest>>

Note(p) == Notes[poll[p].cred][poll[p].note]
InPage(p) == poll[p].note <= poll[p].upto

ParseNote(p) ==
    /\ On(p, "note")
    /\ InPage(p)
    /\ CASE Note(p) \in Blank ->
              poll' = [poll EXCEPT ![p].note = @ + 1] /\ UNCHANGED work
         [] Note(p) \in Unparsable \ Blank -> Except(p, "other") /\ UNCHANGED work
         [] OTHER -> Step(p, "normalize") /\ Called(p, Note(p), 1)
    /\ UNCHANGED <<rows, faults, published, tables, signals, triggers, lost>>

CollectNote(p) ==
    /\ On(p, "normalize")
    /\ \/ /\ work[p].pc = "stored"
          /\ IF NewlyRouted(p) THEN Step(p, "schedule")
             ELSE poll' = [poll EXCEPT ![p].pc = "note", ![p].note = @ + 1]
       \/ work[p].pc = "raised" /\ Except(p, "other")
    /\ Returned(p)
    /\ UNCHANGED <<rows, faults, published, tables, signals, triggers, lost>>

NoteKey(p) == Key(Note(p), 1)

ScheduleNote(p) ==
    /\ On(p, "schedule")
    /\ poll' = [poll EXCEPT ![p].pc = "note", ![p].note = @ + 1]
    /\ \/ Schedule(NoteKey(p)) /\ UNCHANGED faults
       \/ Fault /\ ScheduleFails({NoteKey(p)})
    /\ UNCHANGED <<rows, published, work>>

\* The whole page is written: the cursor moves, whatever another poll made of it.
AdvanceCursor(p) ==
    /\ On(p, "note")
    /\ ~InPage(p)
    /\ integration' = [integration EXCEPT ![poll[p].cred].cursor = poll[p].upto]
    /\ poll' = [poll EXCEPT ![p].after = poll[p].upto,
                            ![p].pc = IF poll[p].more THEN "fetch" ELSE "success"]
    /\ UNCHANGED <<credential, failures, faults, rest>>

RecordPollSuccess(p) ==
    /\ On(p, "success")
    /\ integration' = [integration EXCEPT ![poll[p].cred].errors = 0]
    /\ failures' = [failures EXCEPT ![poll[p].cred] = 0]
    /\ Step(p, "clear")
    /\ UNCHANGED <<credential, faults, rest>>

ClearCredentialError(p) ==
    /\ On(p, "clear")
    /\ credential' = [credential EXCEPT ![poll[p].cred].error = FALSE]
    /\ Leave(p)
    /\ UNCHANGED <<integration, failures, faults, rest>>

\* One of these three writes raises.
WriteRaises(p) ==
    /\ \/ On(p, "note") /\ ~InPage(p)
       \/ On(p, "success")
       \/ On(p, "clear")
    /\ Fault
    /\ Except(p, "other")
    /\ UNCHANGED <<rows, rest>>

-----------------------------------------------------------------------------
(* The except clauses. *)

MarkCredentialError(p) ==
    /\ On(p, "mark")
    /\ credential' = [credential EXCEPT ![poll[p].cred].error = TRUE]
    /\ Step(p, "count")
    /\ UNCHANGED <<integration, failures, faults, rest>>

\* Mutant: no error ever leads to a deactivation.
CountOnly(p) ==
    LET c == poll[p].cred IN
    /\ On(p, "record")
    /\ integration' = [integration EXCEPT ![c].errors = IF @ < MaxErrors THEN @ + 1 ELSE @]
    /\ Leave(p)
    /\ UNCHANGED <<credential, failures, faults, rest>>

\* record_poll_error reads the counter and then writes it, one more.
ReadErrors(p) ==
    /\ On(p, "count")
    /\ poll' = [poll EXCEPT ![p].pc = "record",
                            ![p].read = integration[poll[p].cred].errors]
    /\ UNCHANGED <<rows, faults, rest>>

RecordPollError(p) ==
    LET c == poll[p].cred IN
    /\ On(p, "record")
    /\ integration' = [integration EXCEPT ![c].errors = poll[p].read + 1]
    /\ failures' = [failures EXCEPT ![c] = IF @ < MaxErrors THEN @ + 1 ELSE @]
    /\ IF poll[p].kind = "rate" THEN Leave(p) ELSE Step(p, "deactivate")
    /\ UNCHANGED <<credential, faults, rest>>

\* _maybe_deactivate compares the count the poll began with, plus one.
MaybeDeactivate(p) ==
    /\ On(p, "deactivate")
    /\ credential' = [credential EXCEPT ![poll[p].cred].active =
                        @ /\ poll[p].base + 1 < MaxErrors]
    /\ Leave(p)
    /\ UNCHANGED <<integration, failures, faults, rest>>

\* A write of an except clause raises: run_polls catches it and goes on.
ExceptRaises(p) ==
    /\ poll[p].pc \in {"mark", "count", "record", "deactivate"}
    /\ Fault
    /\ Leave(p)
    /\ UNCHANGED <<rows, rest>>

PollOwes(p) == Owing(p) \cup (IF On(p, "schedule") THEN {NoteKey(p)} ELSE {})

\* The process that works on the run dies.
RunDies(p) ==
    /\ ~On(p, "idle")
    /\ Fault
    /\ poll' = [poll EXCEPT ![p] = NoPoll]
    /\ Returned(p)
    /\ ScheduleFails(PollOwes(p))
    /\ UNCHANGED <<rows, published>>

NormalizeNote(p) == Normalize(p) /\ UNCHANGED <<pollVars, faults>>
NormalizeRaises(p) == Raise(p) /\ Fault /\ UNCHANGED pollVars

RunPoll(p) ==
    \/ EndRun(p) \/ NextCredential(p) \/ CreateState(p) \/ FetchPage(p) \/ ParseNote(p)
    \/ NormalizeNote(p) \/ CollectNote(p) \/ ScheduleNote(p) \/ AdvanceCursor(p)
    \/ RecordPollSuccess(p) \/ ClearCredentialError(p) \/ MarkCredentialError(p)
    \/ ReadErrors(p) \/ RecordPollError(p) \/ MaybeDeactivate(p)

PollFault(p) ==
    \/ StateRaises(p) \/ Undecryptable(p) \/ FetchFails(p) \/ WriteRaises(p)
    \/ ExceptRaises(p) \/ NormalizeRaises(p) \/ RunDies(p)

PollNext == \E p \in Polls : BeginRun(p) \/ RunPoll(p) \/ PollFault(p)

\* The scheduler calls again and again, and a run at work goes on.
PollFairness ==
    \A p \in Polls : WF_<<pollVars, normalizerVars>>(BeginRun(p))
                     /\ WF_<<pollVars, normalizerVars>>(RunPoll(p))

-----------------------------------------------------------------------------

Stored(c, n) == Notes[c][n] \in Blank \/ signals[Key(Notes[c][n], 1)].stored

\* Every note the cursor has passed is a signal, unless it has nothing to store:
\* after a crash between a page and its cursor, with two runs at once, and when a
\* slow run puts the cursor back.
CursorCoversStored ==
    \A c \in Credentials : \A n \in 1 .. integration[c].cursor : Stored(c, n)

\* A credential is switched off only after MaxErrors errors of it since its last
\* success.  The poll compares the count it began with: its own success, followed by a
\* failing clear_credential_error, or that of an overlapping run has reset it since.
DeactivatedAfterFailures ==
    [][\A c \in Credentials :
          credential[c].active /\ ~credential'[c].active => failures[c] >= MaxErrors]_pollVars

\* A note that Granola serves becomes a signal, or its credential is switched off.
PublishedIsStored ==
    \A c \in Credentials : \A n \in 1 .. Len(Notes[c]) :
        published[c] >= n ~> Stored(c, n) \/ ~credential[c].active
=============================================================================
