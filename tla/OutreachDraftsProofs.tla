------------------------ MODULE OutreachDraftsProofs ------------------------
(***************************************************************************)
(* Proofs about OutreachDrafts, for every set of tabs, requests and drafts *)
(* and any number of edits, page loads and faults: the type invariant, and *)
(* that what is recorded as sent was mailed, by one send of a tab at a     *)
(* time.                                                                   *)
(***************************************************************************)
EXTENDS OutreachDrafts, TLAPS

-----------------------------------------------------------------------------
(* The inductive invariant. *)

Sending == {"load", "mail", "mark", "signal"}

\* A request has a tab, and a draft once it has found or been given one.
RequestsKnow ==
    \A r \in Requests :
        /\ request[r].pc # "none" => request[r].tab \in Tabs
        /\ request[r].pc \in {"update"} \cup Sending => request[r].draft \in DraftIds

\* A tab waits for its request while it is loading or sending, and for no other.
TabsWait ==
    \A t \in Tabs :
        /\ tab[t].request # None => tab[t].status \in {"loading", "sending"}
        /\ tab[t].request # None => /\ request[tab[t].request].pc # "none"
                                    /\ request[tab[t].request].tab = t

\* A request no tab waits for is abandoned.
RequestsAwaited ==
    /\ \A r \in abandoned : request[r].pc # "none"
    /\ \A r \in Requests \ abandoned :
           request[r].pc # "none" => tab[request[r].tab].request = r

\* A handler that goes on to mark and to record has mailed its text.
MailedBefore ==
    \A r \in Requests : request[r].pc \in {"mark", "signal"} =>
        request[r].text \in mailed[request[r].draft]

OutreachInv ==
    /\ TypeOK
    /\ RequestsKnow
    /\ TabsWait
    /\ RequestsAwaited
    /\ MailedBefore
    /\ SentWasMailed
    /\ SignalSaysWhatWasMailed

LEMMA OutreachInitInv == Init => OutreachInv
<1> SUFFICES ASSUME Init PROVE OutreachInv
  OBVIOUS
<1> USE DEF Init
<1>1. TypeOK
  BY OutreachAssumption
     DEF TypeOK, DraftRow, TabState, Request, NoRequest, Text, Template
<1>2. RequestsKnow /\ RequestsAwaited /\ MailedBefore
  BY DEF RequestsKnow, RequestsAwaited, MailedBefore, NoRequest, Sending
<1>3. TabsWait
  BY DEF TabsWait
<1>4. SentWasMailed /\ SignalSaysWhatWasMailed
  BY DEF SentWasMailed, SignalSaysWhatWasMailed
<1> QED
  BY <1>1, <1>2, <1>3, <1>4 DEF OutreachInv

-----------------------------------------------------------------------------
(* The tab waits and the requests are awaited: what Ask and Answer preserve. *)

Links == RequestsKnow /\ TabsWait /\ RequestsAwaited

\* A fetch ties a free request to a tab; a request the tab waited for is abandoned.
LEMMA AskLinks ==
  ASSUME TypeOK, Links, NEW t \in Tabs, NEW r \in Requests, NEW pc, NEW fields \in TabState,
         Ask(t, r, pc, fields),
         \/ pc = "check" /\ fields.status = "loading"
         \/ pc = "load" /\ fields.status = "sending" /\ fields.draft # None,
         abandoned' = abandoned \cup ({tab[t].request} \ {None})
  PROVE  /\ Links'
         /\ request' \in [Requests -> Request] /\ tab' \in [Tabs -> TabState]
         /\ abandoned' \in SUBSET Requests
<1>1. /\ request[r].pc = "none"
      /\ request' = [request EXCEPT ![r] = [NoRequest EXCEPT
                       !.pc = pc, !.tab = t, !.draft = fields.draft]]
      /\ tab' = [tab EXCEPT ![t] = [fields EXCEPT !.request = r]]
  BY DEF Ask
<1>2. fields.draft \in DraftIds \cup {None}
  BY DEF TabState
<1>3. request' \in [Requests -> Request] /\ tab' \in [Tabs -> TabState]
  BY <1>1, <1>2 DEF TypeOK, Request, TabState, NoRequest, Text, Template
<1>4. abandoned' \in SUBSET Requests
  BY DEF TypeOK, TabState
<1>5. /\ request'[r].pc = pc /\ request'[r].tab = t /\ request'[r].draft = fields.draft
      /\ \A q \in Requests \ {r} : request'[q] = request[q]
      /\ tab'[t].request = r /\ tab'[t].status = fields.status
      /\ \A u \in Tabs \ {t} : tab'[u] = tab[u]
  BY <1>1 DEF TypeOK, TabState, NoRequest
<1>6. pc # "none" /\ r \notin abandoned /\ r # None
  BY <1>1, OutreachAssumption DEF Links, RequestsAwaited
<1>7. \A u \in Tabs : tab[u].request # r
  BY <1>1, <1>6 DEF Links, TabsWait
<1>8. RequestsKnow'
  <2> SUFFICES ASSUME NEW q \in Requests
               PROVE  /\ request'[q].pc # "none" => request'[q].tab \in Tabs
                      /\ request'[q].pc \in {"update"} \cup Sending => request'[q].draft \in DraftIds
    BY DEF RequestsKnow
  <2>1. CASE q = r
    BY <1>2, <1>5, <2>1 DEF Sending
  <2>2. CASE q # r
    BY <1>5, <2>2 DEF Links, RequestsKnow
  <2> QED
    BY <2>1, <2>2
<1>9. TabsWait'
  <2> SUFFICES ASSUME NEW u \in Tabs, tab'[u].request # None
               PROVE  /\ tab'[u].status \in {"loading", "sending"}
                      /\ request'[tab'[u].request].pc # "none"
                      /\ request'[tab'[u].request].tab = u
    BY DEF TabsWait
  <2>1. CASE u = t
    BY <1>5, <1>6, <2>1
  <2>2. CASE u # t
    <3>1. tab'[u] = tab[u] /\ tab[u].request \in Requests \ {r}
      BY <1>5, <1>7, <2>2 DEF TypeOK, TabState
    <3> QED
      BY <1>5, <3>1 DEF Links, TabsWait
  <2> QED
    BY <2>1, <2>2
<1>10. RequestsAwaited'
  <2>1. \A q \in abandoned' : request'[q].pc # "none"
    <3> TAKE q \in abandoned'
    <3>1. q \in Requests /\ q # r
      BY <1>4, <1>6, <1>7
    <3>2. request[q].pc # "none"
      BY <3>1 DEF Links, RequestsAwaited, TabsWait
    <3> QED
      BY <1>5, <3>1, <3>2
  <2>2. ASSUME NEW q \in Requests \ abandoned', request'[q].pc # "none"
        PROVE  tab'[request'[q].tab].request = q
    <3>1. CASE q = r
      BY <1>5, <3>1
    <3>2. CASE q # r
      <4>1. request'[q] = request[q] /\ q \notin abandoned /\ q # tab[t].request
        BY <1>5, <3>2, OutreachAssumption
      <4>2. request[q].tab \in Tabs /\ tab[request[q].tab].request = q
        BY <2>2, <4>1 DEF Links, RequestsKnow, RequestsAwaited
      <4> QED
        BY <1>5, <4>1, <4>2
    <3> QED
      BY <3>1, <3>2
  <2> QED
    BY <2>1, <2>2 DEF RequestsAwaited
<1> QED
  BY <1>3, <1>4, <1>8, <1>9, <1>10 DEF Links

\* An answer frees its request and the tab that waited for it.
LEMMA AnswerLinks ==
  ASSUME TypeOK, Links, NEW r \in Requests, request[r].pc # "none",
         NEW shown, shown \in TabState, Answer(r, shown)
  PROVE  /\ Links'
         /\ request' \in [Requests -> Request] /\ tab' \in [Tabs -> TabState]
         /\ abandoned' \in SUBSET Requests
<1>1. /\ request' = [request EXCEPT ![r] = NoRequest]
      /\ abandoned' = abandoned \ {r}
      /\ tab' = [t \in Tabs |-> IF tab[t].request = r
                                THEN [shown EXCEPT !.request = None] ELSE tab[t]]
  BY DEF Answer
<1>2. /\ request' \in [Requests -> Request] /\ tab' \in [Tabs -> TabState]
      /\ abandoned' \in SUBSET Requests
  BY <1>1 DEF TypeOK, Request, TabState, NoRequest, Text, Template
<1>3. /\ request'[r].pc = "none"
      /\ \A q \in Requests \ {r} : request'[q] = request[q]
      /\ \A t \in Tabs : tab[t].request = r => tab'[t].request = None
      /\ \A t \in Tabs : tab[t].request # r => tab'[t] = tab[t]
  BY <1>1 DEF TypeOK, TabState, NoRequest
<1>4. RequestsKnow'
  <2> SUFFICES ASSUME NEW q \in Requests
               PROVE  /\ request'[q].pc # "none" => request'[q].tab \in Tabs
                      /\ request'[q].pc \in {"update"} \cup Sending => request'[q].draft \in DraftIds
    BY DEF RequestsKnow
  <2>1. CASE q = r
    BY <1>3, <2>1 DEF Sending
  <2>2. CASE q # r
    BY <1>3, <2>2 DEF Links, RequestsKnow
  <2> QED
    BY <2>1, <2>2
<1>5. TabsWait'
  <2> SUFFICES ASSUME NEW u \in Tabs, tab'[u].request # None
               PROVE  /\ tab'[u].status \in {"loading", "sending"}
                      /\ request'[tab'[u].request].pc # "none"
                      /\ request'[tab'[u].request].tab = u
    BY DEF TabsWait
  <2>1. tab'[u] = tab[u] /\ tab[u].request \in Requests \ {r}
    BY <1>3 DEF TypeOK, TabState
  <2> QED
    BY <1>3, <2>1 DEF Links, TabsWait
<1>6. RequestsAwaited'
  <2>1. \A q \in abandoned' : request'[q].pc # "none"
    BY <1>1, <1>3 DEF TypeOK, Links, RequestsAwaited
  <2>2. ASSUME NEW q \in Requests \ abandoned', request'[q].pc # "none"
        PROVE  tab'[request'[q].tab].request = q
    <3>1. q # r /\ request'[q] = request[q] /\ q \notin abandoned
      BY <1>1, <1>3, <2>2
    <3>2. request[q].tab \in Tabs /\ tab[request[q].tab].request = q
      BY <2>2, <3>1 DEF Links, RequestsKnow, RequestsAwaited
    <3> QED
      BY <1>3, <3>1, <3>2
  <2> QED
    BY <2>1, <2>2 DEF RequestsAwaited
<1> QED
  BY <1>2, <1>4, <1>5, <1>6 DEF Links

\* A handler goes on: its request stays with its tab.
LEMMA GotoLinks ==
  ASSUME TypeOK, Links, NEW r \in Requests, request[r].pc # "none",
         NEW next \in Request, request' = [request EXCEPT ![r] = next],
         UNCHANGED <<tab, abandoned>>,
         next.pc # "none", next.tab = request[r].tab,
         next.pc \in {"update"} \cup Sending => next.draft \in DraftIds
  PROVE  /\ Links'
         /\ request' \in [Requests -> Request] /\ tab' \in [Tabs -> TabState]
         /\ abandoned' \in SUBSET Requests
<1>1. /\ request'[r] = next
      /\ \A q \in Requests \ {r} : request'[q] = request[q]
      /\ \A q \in Requests : request'[q].tab = request[q].tab
      /\ \A q \in Requests : request'[q].pc = "none" <=> request[q].pc = "none"
  BY DEF TypeOK
<1>2. \A t \in Tabs : tab[t].request \in Requests \cup {None}
  BY DEF TypeOK, TabState
<1>3. RequestsKnow'
  BY <1>1 DEF Links, RequestsKnow
<1>4. TabsWait'
  BY <1>1, <1>2 DEF Links, TabsWait
<1>5. RequestsAwaited'
  BY <1>1 DEF TypeOK, Links, RequestsAwaited
<1> QED
  BY <1>3, <1>4, <1>5 DEF Links, TypeOK

-----------------------------------------------------------------------------
(* The steps. *)

Evidence == MailedBefore /\ SentWasMailed /\ SignalSaysWhatWasMailed

\* A step that frees or leaves requests, takes no mail back, and marks and records
\* nothing, leaves the evidence.
LEMMA EvidenceKept ==
  ASSUME TypeOK, RequestsKnow, Evidence,
         \A q \in Requests : request'[q] = request[q] \/ request'[q].pc \notin {"mark", "signal"},
         \A d \in DraftIds : mailed[d] \subseteq mailed'[d],
         \A d \in DraftIds : drafts'[d].status = "sent" => drafts[d].status = "sent",
         UNCHANGED signals
  PROVE  Evidence'
<1>1. MailedBefore'
  <2> SUFFICES ASSUME NEW q \in Requests, request'[q].pc \in {"mark", "signal"}
               PROVE  request'[q].text \in mailed'[request'[q].draft]
    BY DEF MailedBefore
  <2>1. request'[q] = request[q]
    OBVIOUS
  <2>2. request[q].text \in mailed[request[q].draft] /\ request[q].draft \in DraftIds
    BY <2>1 DEF Evidence, MailedBefore, RequestsKnow, Sending
  <2> QED
    BY <2>1, <2>2
<1>2. SentWasMailed'
  BY DEF Evidence, SentWasMailed
<1>3. SignalSaysWhatWasMailed'
  BY DEF Evidence, SignalSaysWhatWasMailed
<1> QED
  BY <1>1, <1>2, <1>3 DEF Evidence

OutreachParts == TypeOK /\ Links /\ Evidence

LEMMA TabSteps ==
  ASSUME OutreachParts, NEW t \in Tabs,
         \/ \E r \in Requests : OpenTab(t, r) \/ ClickSend(t, r)
         \/ EditField(t) \/ PickTemplate(t) \/ LoseConnection(t)
  PROVE  OutreachParts'
<1> USE DEF OutreachParts
<1>1. ASSUME NEW r \in Requests, OpenTab(t, r) PROVE OutreachParts'
  <2> DEFINE fields == [status |-> "loading", draft |-> None, text |-> Template, request |-> r]
  <2>1. /\ Ask(t, r, "check", fields) /\ fields \in TabState
        /\ abandoned' = abandoned \cup ({tab[t].request} \ {None})
        /\ opens' = opens + 1
        /\ UNCHANGED <<drafts, saves, mailed, signals, edits, faults>>
    BY <1>1 DEF OpenTab, NoFault, TabState, Text, Template
  <2>2. /\ Links' /\ request' \in [Requests -> Request] /\ tab' \in [Tabs -> TabState]
        /\ abandoned' \in SUBSET Requests
    BY <2>1, AskLinks
  <2>3. TypeOK'
    BY <2>1, <2>2 DEF TypeOK
  <2>4. \A q \in Requests : request'[q] = request[q] \/ request'[q].pc = "check"
    BY <2>1 DEF Ask, NoRequest, TypeOK
  <2>5. Evidence'
    BY <2>1, <2>4, EvidenceKept DEF Links
  <2> QED
    BY <2>2, <2>3, <2>5
<1>2. ASSUME NEW r \in Requests, ClickSend(t, r) PROVE OutreachParts'
  <2> DEFINE fields == [tab[t] EXCEPT !.status = "sending"]
  <2>1. /\ Ask(t, r, "load", fields) /\ tab[t].draft # None
        /\ tab[t].status \in {"idle", "error"}
        /\ UNCHANGED <<drafts, saves, mailed, signals, abandoned, edits, opens, faults>>
    BY <1>2 DEF ClickSend, NoFault
  <2>2. fields \in TabState /\ fields.draft # None /\ fields.status = "sending"
    BY <2>1 DEF TypeOK, TabState
  <2>3. abandoned' = abandoned \cup ({tab[t].request} \ {None})
    BY <2>1 DEF Links, TabsWait
  <2> HIDE DEF fields
  <2>4. /\ Links' /\ request' \in [Requests -> Request] /\ tab' \in [Tabs -> TabState]
        /\ abandoned' \in SUBSET Requests
    BY <2>1, <2>2, <2>3, AskLinks
  <2>5. TypeOK'
    BY <2>1, <2>4 DEF TypeOK
  <2>6. \A q \in Requests : request'[q] = request[q] \/ request'[q].pc = "load"
    BY <2>1 DEF Ask, NoRequest, TypeOK
  <2>7. Evidence'
    BY <2>1, <2>6, EvidenceKept DEF Links
  <2> QED
    BY <2>4, <2>5, <2>7
<1>3. ASSUME EditField(t) \/ PickTemplate(t) PROVE OutreachParts'
  <2>1. PICK text \in Text :
          /\ tab' = [tab EXCEPT ![t].text = text]
          /\ saves' = saves \cup {<<tab[t].draft, text>>}
          /\ tab[t].draft # None
          /\ edits' \in Nat
          /\ UNCHANGED <<drafts, request, mailed, signals, abandoned, opens, faults>>
    <3>1. CASE EditField(t)
      <4>1. edits' \in Nat
        BY <3>1 DEF EditField, TypeOK
      <4> QED
        BY <3>1, <4>1 DEF EditField, NoFault, Text
    <3>2. CASE PickTemplate(t)
      BY <3>2 DEF PickTemplate, NoFault, TypeOK, Text, Template
    <3> QED
      BY <1>3, <3>1, <3>2
  <2>2. tab' \in [Tabs -> TabState] /\ saves' \in SUBSET (DraftIds \X Text)
    BY <2>1 DEF TypeOK, TabState
  <2>3. TypeOK'
    BY <2>1, <2>2 DEF TypeOK
  <2>4. \A u \in Tabs : tab'[u].status = tab[u].status /\ tab'[u].request = tab[u].request
    BY <2>1 DEF TypeOK, TabState
  <2>5. Links'
    BY <2>1, <2>4 DEF Links, RequestsKnow, TabsWait, RequestsAwaited
  <2>6. Evidence'
    BY <2>1 DEF Evidence, MailedBefore, SentWasMailed, SignalSaysWhatWasMailed
  <2> QED
    BY <2>3, <2>5, <2>6
<1>4. ASSUME LoseConnection(t) PROVE OutreachParts'
  <2>1. /\ tab[t].request # None
        /\ abandoned' = abandoned \cup {tab[t].request}
        /\ tab' = [tab EXCEPT ![t].status = "error", ![t].request = None]
        /\ faults' = faults + 1
        /\ UNCHANGED <<drafts, saves, request, mailed, signals, edits, opens>>
    BY <1>4 DEF LoseConnection, Fault
  <2>2. tab' \in [Tabs -> TabState] /\ abandoned' \in SUBSET Requests
    BY <2>1 DEF TypeOK, TabState
  <2>3. TypeOK'
    BY <2>1, <2>2 DEF TypeOK
  <2>4. tab'[t].request = None /\ \A u \in Tabs \ {t} : tab'[u] = tab[u]
    BY <2>1 DEF TypeOK, TabState
  <2>5. RequestsKnow' /\ TabsWait'
    BY <2>1, <2>4 DEF Links, RequestsKnow, TabsWait
  <2>6. RequestsAwaited'
    <3>1. \A q \in abandoned' : request[q].pc # "none"
      BY <2>1 DEF Links, TabsWait, RequestsAwaited
    <3>2. ASSUME NEW q \in Requests \ abandoned', request[q].pc # "none"
          PROVE  tab'[request[q].tab].request = q
      <4>1. q \notin abandoned /\ q # tab[t].request
        BY <2>1
      <4>2. request[q].tab \in Tabs /\ tab[request[q].tab].request = q
        BY <3>2, <4>1 DEF Links, RequestsKnow, RequestsAwaited
      <4> QED
        BY <2>4, <4>1, <4>2
    <3> QED
      BY <2>1, <3>1, <3>2 DEF RequestsAwaited
  <2>7. Evidence'
    BY <2>1 DEF Evidence, MailedBefore, SentWasMailed, SignalSaysWhatWasMailed
  <2> QED
    BY <2>3, <2>5, <2>6, <2>7 DEF Links
<1> QED
  BY <1>1, <1>2, <1>3, <1>4

LEMMA SaveSteps ==
  ASSUME OutreachParts, NEW d \in DraftIds, NEW text \in Text,
         SaveLands(d, text) \/ SaveFails(d, text)
  PROVE  OutreachParts'
<1> USE DEF OutreachParts
<1>1. /\ drafts' \in [DraftIds -> DraftRow]
      /\ \A x \in DraftIds : drafts'[x].status = drafts[x].status
  <2>1. drafts' = [drafts EXCEPT ![d].text = text] \/ drafts' = drafts
    BY DEF SaveLands, SaveFails
  <2>2. drafts \in [DraftIds -> DraftRow]
    BY DEF TypeOK
  <2>3. CASE drafts' = drafts
    BY <2>2, <2>3
  <2>4. CASE drafts' = [drafts EXCEPT ![d].text = text]
    BY <2>2, <2>4 DEF DraftRow
  <2> QED
    BY <2>1, <2>3, <2>4
<1>2. saves' \in SUBSET (DraftIds \X Text) /\ faults' \in Nat
  BY DEF SaveLands, SaveFails, TypeOK, Fault, NoFault
<1>3. UNCHANGED <<tab, request, mailed, signals, abandoned, edits, opens>>
  BY DEF SaveLands, SaveFails
<1>4. TypeOK'
  BY <1>1, <1>2, <1>3 DEF TypeOK
<1>5. Links'
  BY <1>3 DEF Links, RequestsKnow, TabsWait, RequestsAwaited
<1>6. Evidence'
  BY <1>1, <1>3 DEF Evidence, MailedBefore, SentWasMailed, SignalSaysWhatWasMailed
<1> QED
  BY <1>4, <1>5, <1>6

\* A handler that answers with a fresh record for its tab, or goes on, and neither
\* marks nor records.
LEMMA AnswerParts ==
  ASSUME OutreachParts, NEW r \in Requests, request[r].pc # "none",
         NEW shown \in TabState, Answer(r, shown),
         drafts' \in [DraftIds -> DraftRow], mailed' = mailed, faults' \in Nat,
         \A d \in DraftIds : drafts'[d].status = "sent" => drafts[d].status = "sent",
         UNCHANGED <<saves, signals, edits, opens>>
  PROVE  OutreachParts'
<1> USE DEF OutreachParts
<1>1. /\ Links' /\ request' \in [Requests -> Request] /\ tab' \in [Tabs -> TabState]
      /\ abandoned' \in SUBSET Requests
  BY AnswerLinks
<1>2. TypeOK'
  BY <1>1 DEF TypeOK
<1>3. \A q \in Requests : request'[q] = request[q] \/ request'[q].pc = "none"
  BY DEF Answer, NoRequest, TypeOK
<1>4. Evidence'
  BY <1>3, EvidenceKept DEF Links
<1> QED
  BY <1>1, <1>2, <1>4

LEMMA GotoParts ==
  ASSUME OutreachParts, NEW r \in Requests, request[r].pc # "none",
         NEW next \in Request, request' = [request EXCEPT ![r] = next],
         next.pc # "none", next.tab = request[r].tab,
         next.pc \in {"update"} \cup Sending => next.draft \in DraftIds,
         next.pc \notin {"mark", "signal"},
         UNCHANGED <<tab, abandoned, drafts, saves, mailed, signals, edits, opens, faults>>
  PROVE  OutreachParts'
<1> USE DEF OutreachParts
<1>1. /\ Links' /\ request' \in [Requests -> Request] /\ tab' \in [Tabs -> TabState]
      /\ abandoned' \in SUBSET Requests
  BY GotoLinks
<1>2. TypeOK'
  BY <1>1 DEF TypeOK
<1>3. \A q \in Requests : request'[q] = request[q] \/ request'[q].pc \notin {"mark", "signal"}
  BY DEF TypeOK
<1>4. Evidence'
  BY <1>3, EvidenceKept DEF Links
<1> QED
  BY <1>1, <1>2, <1>4

\* What a handler shows its tab is a state of a tab.
LEMMA ShownType ==
  ASSUME OutreachParts, NEW r \in Requests, request[r].pc # "none"
  PROVE  /\ Failed(r) \in TabState
         /\ [tab[request[r].tab] EXCEPT !.status = "sent"] \in TabState
         /\ \A d \in DraftIds, text \in Text : Shown(r, d, text) \in TabState
<1>1. request[r].tab \in Tabs
  BY DEF OutreachParts, Links, RequestsKnow
<1>2. tab[request[r].tab] \in TabState
  BY <1>1 DEF OutreachParts, TypeOK
<1> QED
  BY <1>2 DEF Failed, Shown, TabState

LEMMA ContextSteps ==
  ASSUME OutreachParts, NEW r \in Requests,
         \/ CheckDraft(r) \/ RecheckDraft(r) \/ UpdateDraft(r)
         \/ InsertDraft(r) \/ ReadWinner(r)
  PROVE  OutreachParts'
<1>1. /\ request \in [Requests -> Request] /\ drafts \in [DraftIds -> DraftRow]
      /\ ActiveDrafts \subseteq DraftIds /\ \A d \in DraftIds : drafts[d].text \in Text
      /\ Template \in Text /\ faults \in Nat
  BY DEF OutreachParts, TypeOK, ActiveDrafts, DraftRow, Text, Template
<1>2. ASSUME Answer(r, Failed(r)), request[r].pc # "none",
             UNCHANGED <<drafts, saves, mailed, signals, edits, opens, faults>>
      PROVE  OutreachParts'
  <2>1. Failed(r) \in TabState
    BY <1>2, ShownType
  <2> QED
    BY <1>1, <1>2, <2>1, AnswerParts
<1>3. ASSUME NEW d \in DraftIds, NEW text \in Text, Answer(r, Shown(r, d, text)),
             request[r].pc # "none", drafts' \in [DraftIds -> DraftRow],
             \A x \in DraftIds : drafts'[x].status = "sent" => drafts[x].status = "sent",
             UNCHANGED <<saves, mailed, signals, edits, opens, faults>>
      PROVE  OutreachParts'
  <2>1. Shown(r, d, text) \in TabState
    BY <1>3, ShownType
  <2> QED
    BY <1>1, <1>3, <2>1, AnswerParts
<1>4. ASSUME NEW pc \in {"recheck", "insert", "winner"}, Goto(r, pc), request[r].pc # "none",
             UNCHANGED <<drafts, saves, mailed, signals, edits, opens, faults>>
      PROVE  OutreachParts'
  <2> DEFINE next == [request[r] EXCEPT !.pc = pc]
  <2>1. next \in Request /\ next.pc = pc /\ next.tab = request[r].tab
    BY <1>1 DEF Request
  <2>2. request' = [request EXCEPT ![r] = next]
    BY <1>1, <1>4 DEF Goto
  <2> HIDE DEF next
  <2> QED
    BY <1>4, <2>1, <2>2, GotoParts DEF Goto, Sending
<1>5. CASE CheckDraft(r)
  <2>1. /\ request[r].pc # "none"
        /\ UNCHANGED <<drafts, saves, mailed, signals, edits, opens, faults>>
    BY <1>5 DEF CheckDraft, NoFault
  <2>2. \/ \E d \in ActiveDrafts : Answer(r, Shown(r, d, drafts[d].text))
        \/ Goto(r, "recheck")
    BY <1>5 DEF CheckDraft
  <2> QED
    BY <1>1, <1>3, <1>4, <2>1, <2>2
<1>6. CASE RecheckDraft(r)
  <2>1. /\ request[r].pc # "none"
        /\ UNCHANGED <<drafts, saves, mailed, signals, edits, opens, faults>>
    BY <1>6 DEF RecheckDraft, NoFault
  <2>2. ASSUME NEW d \in ActiveDrafts,
               request' = [request EXCEPT ![r].pc = "update", ![r].draft = d],
               UNCHANGED <<tab, abandoned>>
        PROVE  OutreachParts'
    <3> DEFINE next == [request[r] EXCEPT !.pc = "update", !.draft = d]
    <3>1. next \in Request /\ next.pc = "update" /\ next.tab = request[r].tab /\ next.draft = d
      BY <1>1 DEF Request
    <3>2. request' = [request EXCEPT ![r] = next]
      BY <1>1, <2>2 DEF Request
    <3> HIDE DEF next
    <3> QED
      BY <1>1, <2>1, <2>2, <3>1, <3>2, GotoParts
  <2> QED
    BY <1>4, <1>6, <2>1, <2>2 DEF RecheckDraft
<1>7. CASE UpdateDraft(r)
  <2> DEFINE d == request[r].draft
  <2>1. /\ request[r].pc # "none" /\ d \in DraftIds
        /\ UNCHANGED <<saves, mailed, signals, edits, opens, faults>>
    BY <1>7 DEF UpdateDraft, NoFault, OutreachParts, Links, RequestsKnow
  <2>2. \/ /\ drafts' = [drafts EXCEPT ![d] = [status |-> "draft", text |-> Template]]
           /\ Answer(r, Shown(r, d, Template))
        \/ Answer(r, Failed(r)) /\ UNCHANGED drafts
    BY <1>7 DEF UpdateDraft
  <2> HIDE DEF d
  <2>3. ASSUME drafts' = [drafts EXCEPT ![d] = [status |-> "draft", text |-> Template]]
        PROVE  /\ drafts' \in [DraftIds -> DraftRow]
               /\ \A x \in DraftIds : drafts'[x].status = "sent" => drafts[x].status = "sent"
    BY <1>1, <2>1, <2>3 DEF DraftRow
  <2> QED
    BY <1>1, <1>2, <1>3, <2>1, <2>2, <2>3
<1>8. CASE InsertDraft(r)
  <2>1. /\ request[r].pc # "none"
        /\ UNCHANGED <<saves, mailed, signals, edits, opens, faults>>
    BY <1>8 DEF InsertDraft, NoFault
  <2>2. ASSUME NEW d \in DraftIds, drafts' = [drafts EXCEPT ![d].status = "draft"]
        PROVE  /\ drafts' \in [DraftIds -> DraftRow]
               /\ \A x \in DraftIds : drafts'[x].status = "sent" => drafts[x].status = "sent"
    BY <1>1, <2>2 DEF DraftRow
  <2>3. \/ \E d \in DraftIds : /\ drafts' = [drafts EXCEPT ![d].status = "draft"]
                              /\ Answer(r, Shown(r, d, Template))
        \/ Goto(r, "winner") /\ UNCHANGED drafts
    BY <1>8 DEF InsertDraft
  <2> QED
    BY <1>1, <1>3, <1>4, <2>1, <2>2, <2>3
<1>9. CASE ReadWinner(r)
  <2>1. /\ request[r].pc # "none"
        /\ UNCHANGED <<drafts, saves, mailed, signals, edits, opens, faults>>
    BY <1>9 DEF ReadWinner, NoFault
  <2>2. \/ \E d \in ActiveDrafts : Answer(r, Shown(r, d, drafts[d].text))
        \/ Answer(r, Failed(r))
    BY <1>9 DEF ReadWinner
  <2> QED
    BY <1>1, <1>2, <1>3, <2>1, <2>2
<1> QED
  BY <1>5, <1>6, <1>7, <1>8, <1>9

LEMMA SendSteps ==
  ASSUME OutreachParts, NEW r \in Requests,
         LoadDraft(r) \/ SendMail(r) \/ MarkSent(r) \/ RecordSignal(r) \/ HandlerDies(r)
  PROVE  OutreachParts'
<1> DEFINE d == request[r].draft
           text == request[r].text
<1>1. /\ request \in [Requests -> Request] /\ drafts \in [DraftIds -> DraftRow]
      /\ mailed \in [DraftIds -> SUBSET Text] /\ signals \in [DraftIds -> Text \cup {None}]
      /\ text \in Text /\ faults \in Nat
  BY DEF OutreachParts, TypeOK, Request
<1>2. request[r].pc \in Sending => d \in DraftIds
  BY DEF OutreachParts, Links, RequestsKnow
<1>3. ASSUME Answer(r, Failed(r)), request[r].pc # "none", faults' \in Nat,
             UNCHANGED <<drafts, saves, mailed, signals, edits, opens>>
      PROVE  OutreachParts'
  <2>1. Failed(r) \in TabState
    BY <1>3, ShownType
  <2> QED
    BY <1>1, <1>3, <2>1, AnswerParts
<1>4. CASE LoadDraft(r)
  <2>1. /\ request[r].pc = "load" /\ d \in DraftIds
        /\ UNCHANGED <<drafts, saves, mailed, signals, edits, opens, faults>>
    BY <1>2, <1>4 DEF LoadDraft, NoFault, Sending
  <2>2. ASSUME request' = [request EXCEPT ![r].pc = "mail", ![r].text = drafts[d].text],
               UNCHANGED <<tab, abandoned>>
        PROVE  OutreachParts'
    <3> DEFINE next == [request[r] EXCEPT !.pc = "mail", !.text = drafts[d].text]
    <3>1. drafts[d].text \in Text
      BY <1>1, <2>1 DEF DraftRow
    <3>2. /\ next \in Request /\ next.pc = "mail" /\ next.tab = request[r].tab
          /\ next.draft = d
      BY <1>1, <3>1 DEF Request
    <3>3. request' = [request EXCEPT ![r] = next]
      BY <1>1, <2>2 DEF Request
    <3> HIDE DEF next, d
    <3> QED
      BY <2>1, <2>2, <3>2, <3>3, GotoParts
  <2> QED
    BY <1>1, <1>3, <1>4, <2>1, <2>2 DEF LoadDraft
<1>5. ASSUME SendMail(r), Goto(r, "mark"),
             mailed' = [mailed EXCEPT ![d] = @ \cup {text}]
      PROVE  OutreachParts'
  <2> DEFINE next == [request[r] EXCEPT !.pc = "mark"]
  <2>1. /\ request[r].pc = "mail" /\ d \in DraftIds
        /\ UNCHANGED <<drafts, saves, signals, edits, opens, tab, abandoned>>
        /\ faults' \in Nat
    BY <1>1, <1>2, <1>5 DEF SendMail, Goto, NoFault, Fault, Sending
  <2>2. /\ next \in Request /\ next.pc = "mark" /\ next.tab = request[r].tab
        /\ next.draft = d /\ next.text = text
    BY <1>1 DEF Request
  <2>3. request' = [request EXCEPT ![r] = next]
    BY <1>1, <1>5 DEF Goto
  <2>4. /\ mailed' \in [DraftIds -> SUBSET Text] /\ text \in mailed'[d]
        /\ \A x \in DraftIds : mailed[x] \subseteq mailed'[x]
    BY <1>1, <1>5, <2>1
  <2> HIDE DEF next, d, text
  <2>5. /\ Links' /\ request' \in [Requests -> Request]
    BY <2>1, <2>2, <2>3, GotoLinks DEF OutreachParts
  <2>6. TypeOK'
    BY <2>1, <2>4, <2>5 DEF OutreachParts, TypeOK
  <2>7. MailedBefore'
    <3> SUFFICES ASSUME NEW q \in Requests, request'[q].pc \in {"mark", "signal"}
                 PROVE  request'[q].text \in mailed'[request'[q].draft]
      BY DEF MailedBefore
    <3>1. CASE q = r
      BY <1>1, <2>2, <2>3, <2>4, <3>1
    <3>2. CASE q # r
      <4>1. request'[q] = request[q]
        BY <1>1, <2>3, <3>2
      <4>2. request[q].draft \in DraftIds /\ request[q].text \in mailed[request[q].draft]
        BY <4>1 DEF OutreachParts, Links, RequestsKnow, Sending, Evidence, MailedBefore
      <4> QED
        BY <2>4, <4>1, <4>2
    <3> QED
      BY <3>1, <3>2
  <2>8. SentWasMailed' /\ SignalSaysWhatWasMailed'
    BY <2>1, <2>4 DEF OutreachParts, Evidence, SentWasMailed, SignalSaysWhatWasMailed
  <2> QED
    BY <2>5, <2>6, <2>7, <2>8 DEF OutreachParts, Evidence
<1>6. CASE SendMail(r)
  <2>1. /\ request[r].pc # "none" /\ faults' \in Nat
        /\ UNCHANGED <<drafts, saves, signals, edits, opens>>
    BY <1>1, <1>6 DEF SendMail, NoFault, Fault
  <2> QED
    BY <1>3, <1>5, <1>6, <2>1 DEF SendMail
<1>7. ASSUME MarkSent(r), drafts' = [drafts EXCEPT ![d].status = "sent"], Goto(r, "signal")
      PROVE  OutreachParts'
  <2> DEFINE next == [request[r] EXCEPT !.pc = "signal"]
  <2>1. /\ request[r].pc = "mark" /\ d \in DraftIds
        /\ UNCHANGED <<saves, mailed, signals, edits, opens, tab, abandoned, faults>>
    BY <1>2, <1>7 DEF MarkSent, Goto, NoFault, Sending
  <2>2. /\ next \in Request /\ next.pc = "signal" /\ next.tab = request[r].tab
        /\ next.draft = d /\ next.text = text
    BY <1>1 DEF Request
  <2>3. request' = [request EXCEPT ![r] = next]
    BY <1>1, <1>7 DEF Goto
  <2>4. /\ drafts' \in [DraftIds -> DraftRow]
        /\ \A x \in DraftIds \ {d} : drafts'[x] = drafts[x]
    BY <1>1, <1>7, <2>1 DEF DraftRow
  <2>5. text \in mailed[d]
    BY <2>1 DEF OutreachParts, Evidence, MailedBefore
  <2> HIDE DEF next, d, text
  <2>6. Links' /\ request' \in [Requests -> Request]
    BY <2>1, <2>2, <2>3, GotoLinks DEF OutreachParts
  <2>7. TypeOK'
    BY <2>1, <2>4, <2>6 DEF OutreachParts, TypeOK
  <2>8. MailedBefore'
    <3> SUFFICES ASSUME NEW q \in Requests, request'[q].pc \in {"mark", "signal"}
                 PROVE  request'[q].text \in mailed[request'[q].draft]
      BY <2>1 DEF MailedBefore
    <3>1. CASE q = r
      BY <1>1, <2>2, <2>3, <2>5, <3>1
    <3>2. CASE q # r
      BY <1>1, <2>3, <3>2 DEF OutreachParts, Evidence, MailedBefore
    <3> QED
      BY <3>1, <3>2
  <2>9. SentWasMailed' /\ SignalSaysWhatWasMailed'
    BY <2>1, <2>4, <2>5 DEF OutreachParts, Evidence, SentWasMailed, SignalSaysWhatWasMailed
  <2> QED
    BY <2>6, <2>7, <2>8, <2>9 DEF OutreachParts, Evidence
<1>8. CASE MarkSent(r)
  <2>1. /\ request[r].pc # "none" /\ faults' \in Nat
        /\ UNCHANGED <<saves, mailed, signals, edits, opens>>
    BY <1>1, <1>8 DEF MarkSent, NoFault
  <2> QED
    BY <1>3, <1>7, <1>8, <2>1 DEF MarkSent
<1>9. CASE RecordSignal(r)
  <2> DEFINE shown == [tab[request[r].tab] EXCEPT !.status = "sent"]
  <2>1. /\ request[r].pc = "signal" /\ d \in DraftIds /\ faults' \in Nat
        /\ UNCHANGED <<drafts, saves, mailed, edits, opens>>
        /\ Answer(r, shown)
    BY <1>1, <1>2, <1>9 DEF RecordSignal, NoFault, Fault, Sending
  <2>2. \/ signals' = [signals EXCEPT ![d] = IF @ = None THEN text ELSE @]
        \/ signals' = signals
    BY <1>9 DEF RecordSignal
  <2>3. text \in mailed[d]
    BY <2>1 DEF OutreachParts, Evidence, MailedBefore
  <2>4. shown \in TabState
    BY <2>1, ShownType
  <2> HIDE DEF shown, d, text
  <2>5. /\ Links' /\ request' \in [Requests -> Request] /\ tab' \in [Tabs -> TabState]
        /\ abandoned' \in SUBSET Requests
    BY <2>1, <2>4, AnswerLinks DEF OutreachParts
  <2>6. /\ signals' \in [DraftIds -> Text \cup {None}]
        /\ \A x \in DraftIds : signals'[x] = signals[x] \/ (x = d /\ signals'[x] = text)
    BY <1>1, <2>1, <2>2
  <2>7. TypeOK'
    BY <2>1, <2>5, <2>6 DEF OutreachParts, TypeOK
  <2>8. MailedBefore'
    <3>1. \A q \in Requests : request'[q] = request[q] \/ request'[q].pc = "none"
      BY <1>1, <2>1 DEF Answer, NoRequest
    <3> QED
      BY <2>1, <3>1 DEF OutreachParts, Evidence, MailedBefore
  <2>9. SentWasMailed' /\ SignalSaysWhatWasMailed'
    BY <2>1, <2>3, <2>6 DEF OutreachParts, Evidence, SentWasMailed, SignalSaysWhatWasMailed
  <2> QED
    BY <2>5, <2>7, <2>8, <2>9 DEF OutreachParts, Evidence
<1>10. CASE HandlerDies(r)
  <2>1. /\ request[r].pc # "none" /\ faults' \in Nat /\ Answer(r, Failed(r))
        /\ UNCHANGED <<drafts, saves, mailed, signals, edits, opens>>
    BY <1>1, <1>10 DEF HandlerDies, Fault
  <2> QED
    BY <1>3, <2>1
<1> QED
  BY <1>4, <1>6, <1>8, <1>9, <1>10

LEMMA OutreachStepInv == OutreachInv /\ [Next]_vars => OutreachInv'
<1> SUFFICES ASSUME OutreachInv, [Next]_vars PROVE OutreachInv'
  OBVIOUS
<1>1. OutreachParts
  BY DEF OutreachInv, OutreachParts, Links, Evidence
<1>2. OutreachParts'
  <2>1. ASSUME NEW t \in Tabs,
               \/ \E r \in Requests : OpenTab(t, r) \/ ClickSend(t, r)
               \/ EditField(t) \/ PickTemplate(t) \/ LoseConnection(t)
        PROVE  OutreachParts'
    BY <1>1, <2>1, TabSteps
  <2>2. ASSUME NEW save \in saves,
               SaveLands(save[1], save[2]) \/ SaveFails(save[1], save[2])
        PROVE  OutreachParts'
    <3>1. save[1] \in DraftIds /\ save[2] \in Text
      BY <1>1 DEF OutreachParts, TypeOK
    <3> QED
      BY <1>1, <2>2, <3>1, SaveSteps
  <2>3. ASSUME NEW r \in Requests, Handle(r) \/ HandlerDies(r) PROVE OutreachParts'
    BY <1>1, <2>3, ContextSteps, SendSteps DEF Handle
  <2>4. CASE UNCHANGED vars
    BY <1>1, <2>4
       DEF vars, OutreachParts, TypeOK, Links, RequestsKnow, TabsWait, RequestsAwaited,
           Evidence, MailedBefore, SentWasMailed, SignalSaysWhatWasMailed
  <2> QED
    BY <2>1, <2>2, <2>3, <2>4 DEF Next
<1> QED
  BY <1>2 DEF OutreachInv, OutreachParts, Links, Evidence

-----------------------------------------------------------------------------
(* The theorems. *)

\* The table, the tabs, the requests and the saves keep their types.
THEOREM OutreachTypeCorrect == Spec => []TypeOK
<1>1. OutreachInv => TypeOK
  BY DEF OutreachInv
<1> QED
  BY <1>1, OutreachInitInv, OutreachStepInv, PTL DEF Spec

\* No crash or race leaves a draft marked as sent that SendGrid has not accepted.
THEOREM SentDraftsWereMailed == Spec => []SentWasMailed
<1>1. OutreachInv => SentWasMailed
  BY DEF OutreachInv
<1> QED
  BY <1>1, OutreachInitInv, OutreachStepInv, PTL DEF Spec

\* The outbound signal quotes a text that was mailed, whatever autosave has made of
\* the row since.
THEOREM SignalsQuoteMails == Spec => []SignalSaysWhatWasMailed
<1>1. OutreachInv => SignalSaysWhatWasMailed
  BY DEF OutreachInv
<1> QED
  BY <1>1, OutreachInitInv, OutreachStepInv, PTL DEF Spec

\* A tab has one send under way at most: both requests would be the one it awaits.
THEOREM OneSendPerTab == Spec => []OneSendInFlight
<1>1. OutreachInv => OneSendInFlight
  BY DEF OutreachInv, RequestsAwaited, OneSendInFlight
<1> QED
  BY <1>1, OutreachInitInv, OutreachStepInv, PTL DEF Spec
=============================================================================
