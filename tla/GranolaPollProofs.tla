------------------------- MODULE GranolaPollProofs --------------------------
(***************************************************************************)
(* Proofs about the poller within StructuredIntake, for any number of      *)
(* overlapping runs, credentials, notes and faults: the cursor passes only *)
(* what is stored.                                                         *)
(***************************************************************************)
EXTENDS StructuredIntakeProofs

-----------------------------------------------------------------------------
(* The cursor.  A run knows that the notes before the one it works on are     *)
(* stored, and moves the cursor no further.                                   *)

Covered(c, n) == n <= Len(Notes[c]) /\ \A m \in 1 .. n : Stored(c, m)

RunCovers(q) ==
    /\ q.pc = "fetch" => Covered(q.cred, q.after)
    /\ q.pc \in {"note", "normalize", "schedule"} => Covered(q.cred, q.note - 1)
    /\ q.pc = "schedule" => Stored(q.cred, q.note)

CursorInv ==
    /\ \A c \in Credentials : Covered(c, integration[c].cursor)
    /\ \A p \in Polls : RunCovers(poll[p])

NotesStay == \A k \in SignalKeys : signals[k].stored => signals'[k].stored

\* What is stored stays stored, so what is covered stays covered.
LEMMA CoveredStays ==
  ASSUME TypeInv, NotesStay, NEW c \in Credentials, NEW n \in Int, Covered(c, n)
  PROVE  Covered(c, n)'
<1> SUFFICES ASSUME NEW m \in 1 .. n PROVE Stored(c, m)'
  BY DEF Covered
<1>1. Stored(c, m) /\ m \in 1 .. Len(Notes[c])
  <2>1. Len(Notes[c]) \in Nat
    BY PollAssumption
  <2> QED
    BY <2>1 DEF Covered
<1>2. Notes[c][m] \in Items
  BY <1>1, PollAssumption
<1>3. Key(Notes[c][m], 1) \in SignalKeys
  BY <1>2, KeyTypes
<1> QED
  BY <1>1, <1>3 DEF Stored, NotesStay

LEMMA StoredStays ==
  ASSUME NotesStay, NEW c \in Credentials, NEW m \in 1 .. Len(Notes[c]), Stored(c, m)
  PROVE  Stored(c, m)'
<1>1. Notes[c][m] \in Items
  BY PollAssumption
<1>2. Key(Notes[c][m], 1) \in SignalKeys
  BY <1>1, KeyTypes
<1> QED
  BY <1>2 DEF Stored, NotesStay

LEMMA CoversStays ==
  ASSUME TypeInv, NotesStay, NEW p \in Polls, RunCovers(poll[p]), poll'[p] = poll[p]
  PROVE  RunCovers(poll[p])'
<1>1. poll[p] \in Poll /\ RunOK(poll[p])
  BY RunType DEF TypeInv
<1>2. poll[p].after \in Int /\ poll[p].note - 1 \in Int /\ poll[p].note \in Nat
      /\ poll[p].upto \in Nat
  BY <1>1 DEF Poll
<1>3. poll[p].pc = "schedule" => poll[p].cred \in Credentials
        /\ poll[p].note \in 1 .. Len(Notes[poll[p].cred])
  <2>1. \A c \in Credentials : Len(Notes[c]) \in Nat
    BY PollAssumption
  <2> QED
    BY <1>1, <1>2, <2>1 DEF RunOK
<1>4. poll[p].pc \notin {"idle", "next"} => poll[p].cred \in Credentials
  BY <1>1 DEF RunOK
<1> QED
  BY <1>2, <1>3, <1>4, CoveredStays, StoredStays DEF RunCovers

LEMMA CursorInit == Init => CursorInv
<1> SUFFICES ASSUME Init PROVE CursorInv
  OBVIOUS
<1>1. \A c \in Credentials : integration[c].cursor = 0 /\ Len(Notes[c]) \in Nat
  BY PollAssumption DEF Init, PollInit
<1>2. \A p \in Polls : poll[p].pc = "idle"
  BY DEF Init, PollInit, NoPoll
<1> QED
  BY <1>1, <1>2 DEF CursorInv, Covered, RunCovers

\* A step of run p keeps the invariant if it does so for p and for the cursor it writes.
LEMMA CursorMoves ==
  ASSUME TypeInv, CursorInv, NotesStay, NEW p \in Polls,
         \A r \in Polls \ {p} : poll'[r] = poll[r],
         RunCovers(poll[p])',
         \A c \in Credentials :
            integration'[c].cursor = integration[c].cursor \/ Covered(c, integration[c].cursor)'
  PROVE  CursorInv'
<1>1. \A c \in Credentials : integration[c].cursor \in Int
  BY DEF TypeInv, PollsOK, PollTypeOK, Integration
<1>2. \A c \in Credentials : Covered(c, integration[c].cursor)'
  <2> SUFFICES ASSUME NEW c \in Credentials, integration'[c].cursor = integration[c].cursor
               PROVE  Covered(c, integration[c].cursor)'
    OBVIOUS
  <2>1. Covered(c, integration[c].cursor)
    BY DEF CursorInv
  <2> DEFINE n == integration[c].cursor
  <2>2. n' = n /\ n \in Int
    BY <1>1
  <2>3. \A m \in 1 .. n : Stored(c, m)'
    <3> SUFFICES ASSUME NEW m \in 1 .. n PROVE Stored(c, m)'
      OBVIOUS
    <3>1. Stored(c, m) /\ m \in 1 .. Len(Notes[c])
      <4>1. Len(Notes[c]) \in Nat
        BY PollAssumption
      <4> QED
        BY <2>1, <2>2, <4>1 DEF Covered
    <3> QED
      BY <3>1, StoredStays
  <2> QED
    BY <2>1, <2>2, <2>3 DEF Covered
<1>3. \A r \in Polls : RunCovers(poll[r])'
  BY CoversStays DEF CursorInv
<1> QED
  BY <1>2, <1>3 DEF CursorInv

\* Outside its pages a run claims nothing.
LEMMA NoClaim ==
  ASSUME NEW p \in Polls, poll'[p].pc \notin {"fetch", "note", "normalize", "schedule"}
  PROVE  RunCovers(poll[p])'
BY DEF RunCovers

LEMMA PullCovers ==
  ASSUME DutyIInv, StoredInv, CursorInv, NotesStay, Pull
  PROVE  CursorInv'
<1>0. TypeInv /\ PlaceInv /\ DutyInv
  BY DEF DutyIInv
<1>t. /\ integration \in [Credentials -> Integration] /\ poll \in [Polls -> Poll]
      /\ \A c \in Credentials : Len(Notes[c]) \in Nat
  BY <1>0, PollAssumption DEF TypeInv, PollsOK, PollTypeOK
<1>q. ASSUME NEW p \in Polls, UNCHANGED integration,
             \A r \in Polls \ {p} : poll'[r] = poll[r],
             poll'[p].pc \notin {"fetch", "note", "normalize", "schedule"}
      PROVE  CursorInv'
  BY <1>0, <1>q, CursorMoves, NoClaim
<1>1. ASSUME NEW c \in Credentials, Publish(c) PROVE CursorInv'
  <2>1. UNCHANGED <<integration, poll>>
    BY <1>1 DEF Publish, rows
  <2>2. \A p \in Polls : RunCovers(poll[p])'
    BY <1>0, <2>1, CoversStays DEF CursorInv
  <2>3. \A d \in Credentials : Covered(d, integration[d].cursor)'
    <3> SUFFICES ASSUME NEW d \in Credentials PROVE Covered(d, integration[d].cursor)'
      OBVIOUS
    <3>1. Covered(d, integration[d].cursor) /\ integration[d].cursor \in Int
      BY <1>t DEF CursorInv, Integration
    <3> QED
      BY <1>0, <2>1, <3>1, CoveredStays
  <2> QED
    BY <2>2, <2>3 DEF CursorInv
<1>2. ASSUME NEW p \in Polls, BeginRun(p) PROVE CursorInv'
  <2>1. poll'[p].pc = "next" /\ \A r \in Polls \ {p} : poll'[r] = poll[r]
    BY <1>t, <1>2 DEF BeginRun, Poll
  <2> QED
    BY <1>2, <1>q, <2>1 DEF BeginRun, rows
<1>3. ASSUME NEW p \in Polls, RunPoll(p) PROVE CursorInv'
  <2> DEFINE q == poll[p]
             c == q.cred
             moved == \A r \in Polls \ {p} : poll'[r] = poll[r]
  <2>0. /\ q \in Poll /\ RunOK(q) /\ RunCovers(q) /\ RunPlace(p) /\ p \in Callers
        /\ q.after \in Nat /\ q.note \in Nat /\ q.upto \in Nat
    BY <1>0, CallersApart, RunType DEF TypeInv, CursorInv, PlaceInv, Poll
  \* The run takes a credential with the cursor as it is.
  <2>t. ASSUME NEW d \in Credentials, Take(p, d), UNCHANGED <<published, normalizerVars>>,
               \A e \in Credentials : integration'[e].cursor = integration[e].cursor
        PROVE  CursorInv'
    <3>1. poll' = [poll EXCEPT ![p] = [q EXCEPT !.pc = "fetch", !.cred = d, !.todo = @ \ {d},
                     !.base = integration[d].errors, !.after = integration[d].cursor]]
      BY <2>t DEF Take
    <3>2. poll'[p].pc = "fetch" /\ poll'[p].cred = d /\ poll'[p].after = integration[d].cursor
          /\ moved
      BY <1>t, <2>0, <3>1 DEF Poll
    <3>3. Covered(d, integration[d].cursor) /\ integration[d].cursor \in Int
      BY <1>t DEF CursorInv, Integration
    <3>4. Covered(poll[p].cred, poll[p].after)'
      <4> DEFINE n == integration[d].cursor
      <4>1. Covered(d, n) /\ n \in Int /\ poll'[p].after = n /\ poll'[p].cred = d
        BY <3>2, <3>3
      <4>2. signals' = signals
        BY <2>t DEF normalizerVars
      <4> HIDE DEF n
      <4> QED
        BY <4>1, <4>2 DEF Covered, Stored
    <3>5. RunCovers(poll[p])'
      BY <3>2, <3>4 DEF RunCovers
    <3> QED
      BY <1>0, <2>t, <3>2, <3>5, CursorMoves
  <2>1. CASE EndRun(p)
    BY <1>0, <1>q, <2>1, LeaveFacts DEF EndRun, rows
  <2>2. CASE NextCredential(p)
    <3>1. PICK d \in q.todo :
            IF integration[d].exists THEN Take(p, d)
            ELSE poll' = [poll EXCEPT ![p] = [q EXCEPT !.pc = "create", !.cred = d]]
      BY <2>2 DEF NextCredential
    <3>2. d \in Credentials /\ UNCHANGED <<integration, published, normalizerVars>>
      BY <2>0, <2>2 DEF NextCredential, rows, rest, Poll
    <3>3. CASE integration[d].exists
      BY <2>t, <3>1, <3>2, <3>3
    <3>4. CASE ~integration[d].exists
      <4>1. poll' = [poll EXCEPT ![p] = [q EXCEPT !.pc = "create", !.cred = d]]
        BY <3>1, <3>4
      <4>2. poll'[p].pc = "create" /\ moved
        BY <1>t, <2>0, <4>1 DEF Poll
      <4> QED
        BY <1>q, <3>2, <4>2
    <3> QED
      BY <3>3, <3>4
  <2>3. CASE CreateState(p)
    <3>1. c \in Credentials /\ UNCHANGED <<published, normalizerVars>>
      BY <2>0, <2>3 DEF CreateState, rest, On, RunOK
    <3>2. CASE integration[c].exists
      BY <1>0, <1>q, <2>3, <3>2, LeaveFacts DEF CreateState
    <3>3. CASE ~integration[c].exists
      <4>1. Take(p, c) /\ integration' = [integration EXCEPT ![c].exists = TRUE]
        BY <2>3, <3>3 DEF CreateState
      <4>2. \A e \in Credentials : integration'[e].cursor = integration[e].cursor
        BY <1>t, <4>1 DEF Integration
      <4> QED
        BY <2>t, <3>1, <4>1, <4>2
    <3> QED
      BY <3>2, <3>3
  <2>4. CASE FetchPage(p)
    <3>1. q.pc = "fetch" /\ integration' = integration
      BY <2>4 DEF FetchPage, On, rows
    <3>2. CASE Step(p, "success")
      BY <1>0, <1>q, <3>1, <3>2, LeaveFacts
    <3>3. CASE ~Step(p, "success")
      <4> DEFINE upto == IF published[c] - q.after > PageSize THEN q.after + PageSize
                         ELSE published[c]
      <4>1. poll' = [poll EXCEPT ![p] = [q EXCEPT !.pc = "note", !.note = q.after + 1,
                                          !.upto = upto, !.more = upto < published[c]]]
        BY <2>4, <3>3 DEF FetchPage
      <4> HIDE DEF upto
      <4>2. PICK d \in Credentials, n \in Int : d = q.cred /\ n = q.after
        BY <2>0, <3>1 DEF RunOK
      <4>3. /\ poll'[p].pc = "note" /\ poll'[p].cred = d /\ poll'[p].note - 1 = n /\ moved
        BY <1>t, <2>0, <4>1, <4>2 DEF Poll
      <4>4. Covered(d, n)'
        BY <1>0, <2>0, <3>1, <4>2, CoveredStays DEF RunCovers
      <4>5. RunCovers(poll[p])'
        BY <4>3, <4>4 DEF RunCovers
      <4> QED
        BY <1>0, <3>1, <4>3, <4>5, CursorMoves
    <3> QED
      BY <3>2, <3>3
  \* Within a page: the notes before this one, and this one, are stored.
  <2>p. ASSUME q.pc \in {"note", "normalize", "schedule"}
        PROVE  c \in Credentials /\ Covered(c, q.note - 1) /\ q.note >= 1 /\ q.upto <= Len(Notes[c])
               /\ (InPage(p) => NoteKey(p) = Key(Notes[c][q.note], 1))
    BY <2>0, <2>p DEF RunCovers, RunOK, NoteKey, Note
  <2>d. ASSUME q.pc \in {"note", "normalize", "schedule"}, InPage(p), integration' = integration,
               Stored(c, q.note), poll' = [poll EXCEPT ![p] = [q EXCEPT !.pc = "note", !.note = @ + 1]]
        PROVE  CursorInv'
    <3>1. PICK d \in Credentials, n \in Int : d = q.cred /\ n = q.note
      BY <2>0, <2>p, <2>d
    <3>2. poll'[p].pc = "note" /\ poll'[p].cred = d /\ poll'[p].note - 1 = n /\ moved
      BY <1>t, <2>0, <2>d, <3>1 DEF Poll
    <3>3. Covered(d, n)
      <4>1. Covered(d, n - 1) /\ Stored(d, n) /\ n >= 1 /\ n <= Len(Notes[d])
        BY <2>0, <2>p, <2>d, <3>1, <1>t DEF InPage
      <4>2. \A m \in 1 .. n : m \in 1 .. n - 1 \/ m = n
        OBVIOUS
      <4> QED
        BY <4>1, <4>2 DEF Covered
    <3>4. Covered(d, n)'
      BY <1>0, <3>3, CoveredStays
    <3>5. RunCovers(poll[p])'
      BY <3>2, <3>4 DEF RunCovers
    <3> QED
      BY <1>0, <2>d, <3>2, <3>5, CursorMoves
  \* A run that stays on its note.
  <2>s. ASSUME q.pc \in {"note", "normalize"}, InPage(p), integration' = integration,
               NEW pc \in {"normalize", "schedule"}, Step(p, pc),
               pc = "schedule" => Stored(c, q.note)
        PROVE  CursorInv'
    <3>1. PICK d \in Credentials, n \in Int : d = q.cred /\ n = q.note
      BY <2>0, <2>p, <2>s
    <3>2. poll' = [poll EXCEPT ![p] = [q EXCEPT !.pc = pc]]
      BY <2>s DEF Step
    <3>3. poll'[p].pc = pc /\ poll'[p].cred = d /\ poll'[p].note = n /\ moved
      BY <1>t, <2>0, <3>1, <3>2 DEF Poll
    <3>4. Covered(d, n - 1) /\ n \in 1 .. Len(Notes[d])
      BY <2>0, <2>p, <2>s, <3>1, <1>t DEF InPage
    <3>5. Covered(d, n - 1)'
      BY <1>0, <3>4, CoveredStays
    <3>6. pc = "schedule" => Stored(d, n)'
      BY <2>s, <3>1, <3>4, StoredStays
    <3>7. RunCovers(poll[p])'
      BY <3>3, <3>5, <3>6 DEF RunCovers
    <3> QED
      BY <1>0, <2>s, <3>3, <3>7, CursorMoves
  <2>5. CASE ParseNote(p)
    <3>1. q.pc = "note" /\ InPage(p) /\ integration' = integration
      BY <2>5 DEF ParseNote, On, rows
    <3>2. CASE Note(p) \in Blank
      <4>1. poll' = [poll EXCEPT ![p] = [q EXCEPT !.note = @ + 1]]
        BY <2>5, <3>2 DEF ParseNote
      <4>2. [q EXCEPT !.note = @ + 1] = [q EXCEPT !.pc = "note", !.note = @ + 1]
        BY <2>0, <3>1 DEF Poll
      <4>3. Stored(c, q.note)
        BY <3>2 DEF Stored, Note
      <4> QED
        BY <2>d, <3>1, <4>1, <4>2, <4>3
    <3>3. CASE Note(p) \in Unparsable \ Blank
      <4>1. Except(p, "other")
        BY <2>5, <3>3 DEF ParseNote
      <4> QED
        BY <1>0, <1>q, <3>1, <4>1, LeaveFacts
    <3>4. CASE Note(p) \notin Unparsable /\ Note(p) \notin Blank
      <4>1. Step(p, "normalize")
        BY <2>5, <3>4 DEF ParseNote
      <4> QED
        BY <2>s, <3>1, <4>1
    <3> QED
      BY <3>2, <3>3, <3>4
  <2>6. CASE NormalizeNote(p)
    <3>1. UNCHANGED <<integration, poll>>
      BY <2>6 DEF NormalizeNote, pollVars
    <3>2. RunCovers(poll[p])'
      BY <1>0, <2>0, <3>1, CoversStays
    <3> QED
      BY <1>0, <3>1, <3>2, CursorMoves
  <2>7. CASE CollectNote(p)
    <3>1. q.pc = "normalize" /\ InPage(p) /\ integration' = integration
      BY <2>0, <2>7 DEF CollectNote, On, rows, RunOK, InPage
    <3>2. work[p].pc = "stored" => Stored(c, q.note)
      <4>1. work[p].pc = "stored" => signals[work[p].key].stored /\ work[p].key = NoteKey(p)
        BY <2>0 DEF StoredInv, RunPlace
      <4> QED
        BY <2>p, <3>1, <4>1 DEF Stored
    <3>3. CASE work[p].pc = "stored" /\ Step(p, "schedule")
      BY <2>s, <3>1, <3>2, <3>3
    <3>4. CASE work[p].pc = "stored" /\ poll' = [poll EXCEPT ![p].pc = "note", ![p].note = @ + 1]
      BY <2>d, <3>1, <3>2, <3>4
    <3>5. CASE Except(p, "other")
      BY <1>0, <1>q, <3>1, <3>5, LeaveFacts
    <3> QED
      BY <2>7, <3>3, <3>4, <3>5 DEF CollectNote
  <2>8. CASE ScheduleNote(p)
    <3>1. /\ q.pc = "schedule" /\ InPage(p) /\ integration' = integration
          /\ poll' = [poll EXCEPT ![p].pc = "note", ![p].note = @ + 1]
      BY <2>0, <2>8 DEF ScheduleNote, On, rows, RunOK, InPage
    <3> QED
      BY <2>0, <2>d, <3>1 DEF RunCovers
  <2>9. CASE AdvanceCursor(p)
    <3>1. /\ q.pc = "note" /\ ~InPage(p)
          /\ integration' = [integration EXCEPT ![c].cursor = q.upto]
          /\ poll' = [poll EXCEPT ![p] = [q EXCEPT !.after = q.upto,
                                            !.pc = IF q.more THEN "fetch" ELSE "success"]]
      BY <2>9 DEF AdvanceCursor, On
    <3>2. PICK d \in Credentials, n \in Int : d = q.cred /\ n = q.upto
      BY <2>0, <2>p, <3>1
    <3>3. Covered(d, n)
      <4>1. Covered(d, q.note - 1) /\ n <= q.note - 1 /\ n <= Len(Notes[d])
        BY <2>0, <2>p, <3>1, <3>2 DEF InPage
      <4> QED
        BY <2>0, <4>1 DEF Covered
    <3>4. Covered(d, n)'
      BY <1>0, <3>3, CoveredStays
    <3>5. /\ poll'[p].pc \in {"fetch", "success"} /\ poll'[p].cred = d /\ poll'[p].after = n
          /\ moved
      BY <1>t, <2>0, <3>1, <3>2 DEF Poll
    <3>6. RunCovers(poll[p])'
      BY <3>4, <3>5 DEF RunCovers
    <3>7. \A e \in Credentials :
            integration'[e].cursor = integration[e].cursor \/ Covered(e, integration[e].cursor)'
      <4> SUFFICES ASSUME NEW e \in Credentials
                   PROVE  integration'[e].cursor = integration[e].cursor
                            \/ Covered(e, integration[e].cursor)'
        OBVIOUS
      <4>1. CASE e = d
        <5>1. integration'[d].cursor = n
          BY <1>t, <3>1, <3>2 DEF Integration
        <5> QED
          BY <3>4, <4>1, <5>1 DEF Covered
      <4>2. CASE e # d
        BY <1>t, <3>1, <3>2, <4>2
      <4> QED
        BY <4>1, <4>2
    <3> QED
      BY <1>0, <3>5, <3>6, <3>7, CursorMoves
  <2>10. CASE RecordPollSuccess(p)
    <3>1. poll'[p].pc = "clear" /\ moved
      BY <1>0, <2>10, LeaveFacts DEF RecordPollSuccess
    <3>2. \A e \in Credentials : integration'[e].cursor = integration[e].cursor
      BY <1>t, <2>10 DEF RecordPollSuccess, Integration
    <3> QED
      BY <1>0, <3>1, <3>2, CursorMoves, NoClaim
  <2>11. CASE ClearCredentialError(p)
    BY <1>0, <1>q, <2>11, LeaveFacts DEF ClearCredentialError
  <2>12. CASE MarkCredentialError(p)
    BY <1>0, <1>q, <2>12, LeaveFacts DEF MarkCredentialError
  <2>13. CASE ReadErrors(p)
    <3>1. poll'[p].pc = "record" /\ moved
      BY <1>t, <2>0, <2>13 DEF ReadErrors, Poll
    <3> QED
      BY <1>q, <2>13, <3>1 DEF ReadErrors, rows
  <2>14. CASE RecordPollError(p)
    <3>1. poll'[p].pc \in {"next", "deactivate"} /\ moved
      BY <1>0, <2>14, LeaveFacts DEF RecordPollError
    <3>2. \A e \in Credentials : integration'[e].cursor = integration[e].cursor
      BY <1>t, <2>14 DEF RecordPollError, Integration
    <3> QED
      BY <1>0, <3>1, <3>2, CursorMoves, NoClaim
  <2>15. CASE MaybeDeactivate(p)
    BY <1>0, <1>q, <2>15, LeaveFacts DEF MaybeDeactivate
  <2> QED
    BY <1>3, <2>1, <2>2, <2>3, <2>4, <2>5, <2>6, <2>7, <2>8, <2>9, <2>10, <2>11, <2>12, <2>13,
       <2>14, <2>15 DEF RunPoll
<1>4. ASSUME NEW p \in Polls, PollFault(p) PROVE CursorInv'
  <2> DEFINE moved == \A r \in Polls \ {p} : poll'[r] = poll[r]
  <2>1. CASE StateRaises(p)
    BY <1>0, <1>q, <2>1, LeaveFacts DEF StateRaises, rows
  <2>2. CASE Undecryptable(p)
    <3>1. poll'[p].pc = "next" /\ moved
      BY <1>t, <2>2 DEF Undecryptable, On, Poll
    <3> QED
      BY <1>q, <2>2, <3>1 DEF Undecryptable, rows
  <2>3. CASE FetchFails(p)
    BY <1>0, <1>q, <2>3, LeaveFacts DEF FetchFails, rows
  <2>4. CASE WriteRaises(p)
    BY <1>0, <1>q, <2>4, LeaveFacts DEF WriteRaises, rows
  <2>5. CASE ExceptRaises(p)
    BY <1>0, <1>q, <2>5, LeaveFacts DEF ExceptRaises, rows
  <2>6. CASE NormalizeRaises(p)
    <3>1. UNCHANGED <<integration, poll>>
      BY <2>6 DEF NormalizeRaises, pollVars
    <3>2. RunCovers(poll[p])'
      BY <1>0, <3>1, CoversStays DEF CursorInv
    <3> QED
      BY <1>0, <3>1, <3>2, CursorMoves
  <2>7. CASE RunDies(p)
    BY <1>0, <1>q, <2>7, LeaveFacts DEF RunDies, rows
  <2> QED
    BY <1>4, <2>1, <2>2, <2>3, <2>4, <2>5, <2>6, <2>7 DEF PollFault
<1> QED
  BY <1>1, <1>2, <1>3, <1>4 DEF Pull, PollNext

LEMMA CursorStep ==
  ASSUME DutyIInv, StoredInv, CursorInv, [Next]_vars
  PROVE  CursorInv'
<1>1. TypeInv /\ NotesStay
  BY PlaceStep, RowsStay DEF DutyIInv, NotesStay
<1>2. CASE Pull
  BY <1>1, <1>2, PullCovers
<1>3. ASSUME UNCHANGED pollVars PROVE CursorInv'
  <2>1. UNCHANGED <<integration, poll>>
    BY <1>3 DEF pollVars
  <2>2. \A p \in Polls : RunCovers(poll[p])'
    BY <1>1, <2>1, CoversStays DEF CursorInv
  <2>3. \A c \in Credentials : Covered(c, integration[c].cursor)'
    <3> SUFFICES ASSUME NEW c \in Credentials PROVE Covered(c, integration[c].cursor)'
      OBVIOUS
    <3>1. Covered(c, integration[c].cursor) /\ integration[c].cursor \in Int
      BY <1>1 DEF CursorInv, TypeInv, PollsOK, PollTypeOK, Integration
    <3> QED
      BY <1>1, <2>1, <3>1, CoveredStays
  <2> QED
    BY <2>2, <2>3 DEF CursorInv
<1>4. CASE Push
  BY <1>3, <1>4 DEF Push
<1>5. CASE UNCHANGED vars
  BY <1>3, <1>5 DEF vars
<1> QED
  BY <1>2, <1>4, <1>5 DEF Next

\* However many runs of /run-polls overlap, crash or put the cursor back, every note
\* that advance_cursor has passed is stored or has nothing to store.
THEOREM CursorIsCovered == Spec => []CursorCoversStored
<1>1. CursorInv => CursorCoversStored
  BY DEF CursorInv, Covered, CursorCoversStored
<1> QED
  BY <1>1, DutyIInit, DutyIStep, StoredInit, StoredStep, CursorInit, CursorStep, PTL DEF Spec
=============================================================================
