--------------------------- MODULE OutreachDrafts ---------------------------
(***************************************************************************)
(* The outreach draft of one account: the browser tabs that edit and send  *)
(* it (frontend OutreachTab.tsx), the database function                    *)
(* update_outreach_draft that autosave calls, and the request handlers of  *)
(* the server (src/server/routes/outreach.py) over outreach_drafts.        *)
(*                                                                         *)
(* A tab talks to two hosts at once: autosaves go to the database, Send to *)
(* the server, and nothing orders them.  Handlers run on several server    *)
(* instances; each of their calls is a step of its own.                    *)
(*                                                                         *)
(* Subject and body are one value: Template, with its [...] slots still to *)
(* fill, or the number of a user's edit, which fills them.  The recipient, *)
(* saved the same way as the body, is not modelled, nor are the handlers'  *)
(* early answers for a missing account, contact, sender or key, which      *)
(* change nothing.                                                         *)
(***************************************************************************)
EXTENDS Integers, FiniteSets

CONSTANTS
    Tabs,           \* browser tabs on the account page
    Requests,       \* requests that can be in flight at once (bound)
    DraftIds,       \* identities of outreach_drafts rows (bound)
    MaxEdits,       \* bound on edits, over all tabs
    MaxOpens,       \* bound on page loads, over all tabs
    MaxFaults,      \* bound on crashes, failed calls and lost answers
    None

ASSUME OutreachAssumption ==
    /\ {MaxEdits, MaxOpens, MaxFaults} \subseteq Nat
    /\ None \notin DraftIds \cup Requests \cup Tabs \cup Nat

VARIABLES
    drafts,         \* the outreach_drafts table
    tab,            \* what each tab shows
    saves,          \* update_outreach_draft calls on their way: <<draft, text>>
    request,        \* the requests the server is working on
    mailed,         \* mailed[d]: the texts SendGrid has accepted for draft d
    signals,        \* signals[d]: the text of the outbound signal of draft d
    abandoned,      \* history: requests whose tab no longer waits for them
    edits, opens, faults    \* counters for the bounds

vars == <<drafts, tab, saves, request, mailed, signals, abandoned, edits, opens, faults>>

Template == 0
Text == Nat

DraftRow == [status : {"absent", "draft", "sent"}, text : Text]

TabState == [status : {"closed", "loading", "idle", "sending", "sent", "error"},
             draft : DraftIds \cup {None}, text : Text,
             request : Requests \cup {None}]

\* pc "none": no request; "check" to "winner": /context; "load" to "signal": /send.
Request == [pc : {"none", "check", "recheck", "update", "insert", "winner",
                  "load", "mail", "mark", "signal"},
            tab : Tabs \cup {None}, draft : DraftIds \cup {None}, text : Text]

NoRequest == [pc |-> "none", tab |-> None, draft |-> None, text |-> Template]

TypeOK ==
    /\ drafts \in [DraftIds -> DraftRow]
    /\ tab \in [Tabs -> TabState]
    /\ saves \in SUBSET (DraftIds \X Text)
    /\ request \in [Requests -> Request]
    /\ mailed \in [DraftIds -> SUBSET Text]
    /\ signals \in [DraftIds -> Text \cup {None}]
    /\ abandoned \in SUBSET Requests
    /\ {edits, opens, faults} \subseteq Nat

Init ==
    /\ drafts = [d \in DraftIds |-> [status |-> "absent", text |-> Template]]
    /\ tab = [t \in Tabs |-> [status |-> "closed", draft |-> None,
                              text |-> Template, request |-> None]]
    /\ saves = {}
    /\ request = [r \in Requests |-> NoRequest]
    /\ mailed = [d \in DraftIds |-> {}]
    /\ signals = [d \in DraftIds |-> None]
    /\ abandoned = {}
    /\ edits = 0 /\ opens = 0 /\ faults = 0

-----------------------------------------------------------------------------
(* Helpers. *)

\* The unique index keeps this set from growing beyond one.
ActiveDrafts == {d \in DraftIds : drafts[d].status = "draft"}

\* The tab's fetch.
Ask(t, r, pc, fields) ==
    /\ request[r].pc = "none"
    /\ request' = [request EXCEPT ![r] = [NoRequest EXCEPT
                     !.pc = pc, !.tab = t, !.draft = fields.draft]]
    /\ tab' = [tab EXCEPT ![t] = [fields EXCEPT !.request = r]]

\* The request is over; its tab shows "shown" if it still waits for the answer.
Answer(r, shown) ==
    /\ request' = [request EXCEPT ![r] = NoRequest]
    /\ abandoned' = abandoned \ {r}
    /\ tab' = [t \in Tabs |-> IF tab[t].request = r
                              THEN [shown EXCEPT !.request = None] ELSE tab[t]]

Failed(r) == [tab[request[r].tab] EXCEPT !.status = "error"]

Goto(r, pc) ==
    /\ request' = [request EXCEPT ![r].pc = pc]
    /\ UNCHANGED <<tab, abandoned>>

Fault == faults < MaxFaults /\ faults' = faults + 1

NoFault == UNCHANGED faults

-----------------------------------------------------------------------------
(* The tab. *)

\* The page loads, or reloads, and asks for the outreach context; a request of
\* the old page is abandoned.
OpenTab(t, r) ==
    /\ opens < MaxOpens
    /\ opens' = opens + 1
    /\ Ask(t, r, "check", [status |-> "loading", draft |-> None,
                           text |-> Template, request |-> r])
    /\ abandoned' = abandoned \cup ({tab[t].request} \ {None})
    /\ NoFault
    /\ UNCHANGED <<drafts, saves, mailed, signals, edits>>

\* The user edits a field, which stays editable while a send is under way; the
\* field saves itself when it loses the focus, before any button is clicked.
EditField(t) ==
    /\ tab[t].status \in {"idle", "sending", "error"}
    /\ tab[t].draft # None
    /\ edits < MaxEdits
    /\ edits' = edits + 1
    /\ tab' = [tab EXCEPT ![t].text = edits']
    /\ saves' = saves \cup {<<tab[t].draft, edits'>>}
    /\ NoFault
    /\ UNCHANGED <<drafts, request, mailed, signals, abandoned, opens>>

\* handleTemplateSelect: the radio buttons work even after the mail is sent.
PickTemplate(t) ==
    /\ tab[t].status \in {"idle", "sending", "sent", "error"}
    /\ tab[t].draft # None
    /\ tab[t].text # Template
    /\ tab' = [tab EXCEPT ![t].text = Template]
    /\ saves' = saves \cup {<<tab[t].draft, Template>>}
    /\ NoFault
    /\ UNCHANGED <<drafts, request, mailed, signals, abandoned, edits, opens>>

\* handleSend, behind sendDisabled.
ClickSend(t, r) ==
    /\ tab[t].status \in {"idle", "error"}
    /\ tab[t].draft # None
    /\ tab[t].text # Template
    /\ Ask(t, r, "load", [tab[t] EXCEPT !.status = "sending"])
    /\ NoFault
    /\ UNCHANGED <<drafts, saves, mailed, signals, abandoned, edits, opens>>

\* Mutant: autosave reports into the status of the tab.
SaveResolvesIntoStatus(d, text) ==
    /\ <<d, text>> \in saves
    /\ saves' = saves \ {<<d, text>>}
    /\ drafts' = [drafts EXCEPT ![d].text = text]
    /\ tab' = [t \in Tabs |-> IF tab[t].draft = d /\ tab[t].status = "sending"
                              THEN [tab[t] EXCEPT !.status = "idle"] ELSE tab[t]]
    /\ NoFault
    /\ UNCHANGED <<request, mailed, signals, abandoned, edits, opens>>

\* Mutant: a field the caller does not pass is overwritten with NULL.
SaveLandsWithoutCoalesce(d, text) ==
    /\ <<d, text>> \in saves
    /\ saves' = saves \ {<<d, text>>}
    /\ drafts' = [drafts EXCEPT ![d].text = None]
    /\ NoFault
    /\ UNCHANGED <<tab, request, mailed, signals, abandoned, edits, opens>>

\* update_outreach_draft: whatever the status of the draft, in any order.
SaveLands(d, text) ==
    /\ <<d, text>> \in saves
    /\ saves' = saves \ {<<d, text>>}
    /\ drafts' = [drafts EXCEPT ![d].text = text]
    /\ NoFault
    /\ UNCHANGED <<tab, request, mailed, signals, abandoned, edits, opens>>

\* A save fails; the tab says so and Send stays enabled.
SaveFails(d, text) ==
    /\ <<d, text>> \in saves
    /\ saves' = saves \ {<<d, text>>}
    /\ Fault
    /\ UNCHANGED <<drafts, tab, request, mailed, signals, abandoned, edits, opens>>

\* The connection drops: the tab gives up, the handler goes on.
LoseConnection(t) ==
    /\ tab[t].request # None
    /\ abandoned' = abandoned \cup {tab[t].request}
    /\ tab' = [tab EXCEPT ![t].status = "error", ![t].request = None]
    /\ Fault
    /\ UNCHANGED <<drafts, saves, request, mailed, signals, edits, opens>>

-----------------------------------------------------------------------------
(* POST /outreach/{account_slug}/context *)

\* The tab is shown draft d with this text.
Shown(r, d, text) ==
    [tab[request[r].tab] EXCEPT !.status = "idle", !.draft = d, !.text = text]

\* get_active_draft in the handler.
CheckDraft(r) ==
    /\ request[r].pc = "check"
    /\ \/ \E d \in ActiveDrafts : Answer(r, Shown(r, d, drafts[d].text))
       \/ ActiveDrafts = {} /\ Goto(r, "recheck")
    /\ NoFault
    /\ UNCHANGED <<drafts, saves, mailed, signals, edits, opens>>

\* save_draft looks again.
RecheckDraft(r) ==
    /\ request[r].pc = "recheck"
    /\ \/ \E d \in ActiveDrafts :
            /\ request' = [request EXCEPT ![r].pc = "update", ![r].draft = d]
            /\ UNCHANGED <<tab, abandoned>>
       \/ ActiveDrafts = {} /\ Goto(r, "insert")
    /\ NoFault
    /\ UNCHANGED <<drafts, saves, mailed, signals, edits, opens>>

\* The row found a moment ago is reset to the template by its id, whatever has
\* become of it; the unique index may refuse to make it a draft again.
UpdateDraft(r) ==
    LET d == request[r].draft IN
    /\ request[r].pc = "update"
    /\ \/ /\ ActiveDrafts \subseteq {d}
          /\ drafts' = [drafts EXCEPT ![d] = [status |-> "draft", text |-> Template]]
          /\ Answer(r, Shown(r, d, Template))
       \/ /\ ~ActiveDrafts \subseteq {d}
          /\ Answer(r, Failed(r))
          /\ UNCHANGED drafts
    /\ NoFault
    /\ UNCHANGED <<saves, mailed, signals, edits, opens>>

InsertDraft(r) ==
    /\ request[r].pc = "insert"
    /\ \/ /\ ActiveDrafts = {}
          /\ \E d \in DraftIds :
               /\ drafts[d].status = "absent"
               /\ drafts' = [drafts EXCEPT ![d].status = "draft"]
               /\ Answer(r, Shown(r, d, Template))
       \/ /\ ActiveDrafts # {}
          /\ Goto(r, "winner")
          /\ UNCHANGED drafts
    /\ NoFault
    /\ UNCHANGED <<saves, mailed, signals, edits, opens>>

\* After the conflict: the winner's row, unless it is already sent.
ReadWinner(r) ==
    /\ request[r].pc = "winner"
    /\ \/ \E d \in ActiveDrafts : Answer(r, Shown(r, d, drafts[d].text))
       \/ ActiveDrafts = {} /\ Answer(r, Failed(r))
    /\ NoFault
    /\ UNCHANGED <<drafts, saves, mailed, signals, edits, opens>>

-----------------------------------------------------------------------------
(* POST /outreach/send/{draft_id} *)

\* Mutant: a draft that is already sent is never answered for.
LoadWithoutAnswer(r) ==
    LET d == request[r].draft IN
    /\ request[r].pc = "load"
    /\ drafts[d].status = "draft"
    /\ request' = [request EXCEPT ![r].pc = "mail", ![r].text = drafts[d].text]
    /\ UNCHANGED <<tab, abandoned>>
    /\ NoFault
    /\ UNCHANGED <<drafts, saves, mailed, signals, edits, opens>>

LoadDraft(r) ==
    LET d == request[r].draft IN
    /\ request[r].pc = "load"
    /\ \/ /\ drafts[d].status = "draft"
          /\ request' = [request EXCEPT ![r].pc = "mail", ![r].text = drafts[d].text]
          /\ UNCHANGED <<tab, abandoned>>
       \/ drafts[d].status # "draft" /\ Answer(r, Failed(r))
    /\ NoFault
    /\ UNCHANGED <<drafts, saves, mailed, signals, edits, opens>>

\* Mutant: a mail that SendGrid refuses is marked as sent all the same.
SendMailIgnoringErrors(r) ==
    /\ request[r].pc = "mail"
    /\ \/ /\ mailed' = [mailed EXCEPT ![request[r].draft] = @ \cup {request[r].text}]
          /\ NoFault
       \/ Fault /\ UNCHANGED mailed
    /\ Goto(r, "mark")
    /\ UNCHANGED <<drafts, saves, signals, edits, opens>>

SendMail(r) ==
    /\ request[r].pc = "mail"
    /\ \/ /\ mailed' = [mailed EXCEPT ![request[r].draft] = @ \cup {request[r].text}]
          /\ Goto(r, "mark")
          /\ NoFault
       \/ Fault /\ Answer(r, Failed(r)) /\ UNCHANGED mailed
    /\ UNCHANGED <<drafts, saves, signals, edits, opens>>

\* mark_draft_sent updates only a draft that is still one, else 409.
MarkSent(r) ==
    LET d == request[r].draft IN
    /\ request[r].pc = "mark"
    /\ \/ /\ drafts[d].status = "draft"
          /\ drafts' = [drafts EXCEPT ![d].status = "sent"]
          /\ Goto(r, "signal")
       \/ /\ drafts[d].status # "draft"
          /\ Answer(r, Failed(r))
          /\ UNCHANGED drafts
    /\ NoFault
    /\ UNCHANGED <<saves, mailed, signals, edits, opens>>

\* Mutant: records the text the row has by now.
RecordCurrentText(r) ==
    LET d == request[r].draft IN
    /\ request[r].pc = "signal"
    /\ signals' = [signals EXCEPT ![d] = IF @ = None THEN drafts[d].text ELSE @]
    /\ NoFault
    /\ Answer(r, [tab[request[r].tab] EXCEPT !.status = "sent"])
    /\ UNCHANGED <<drafts, saves, mailed, edits, opens>>

\* insert_signal keeps the first signal of a draft; a failure is only logged.
RecordSignal(r) ==
    LET d == request[r].draft IN
    /\ request[r].pc = "signal"
    /\ \/ /\ signals' = [signals EXCEPT ![d] =
                           IF @ = None THEN request[r].text ELSE @]
          /\ NoFault
       \/ Fault /\ UNCHANGED signals
    /\ Answer(r, [tab[request[r].tab] EXCEPT !.status = "sent"])
    /\ UNCHANGED <<drafts, saves, mailed, edits, opens>>

\* An instance dies, or a call raises, at any step of a handler.
HandlerDies(r) ==
    /\ request[r].pc # "none"
    /\ Fault
    /\ Answer(r, Failed(r))
    /\ UNCHANGED <<drafts, saves, mailed, signals, edits, opens>>

Handle(r) == \/ CheckDraft(r)
             \/ RecheckDraft(r)
             \/ UpdateDraft(r)
             \/ InsertDraft(r)
             \/ ReadWinner(r)
             \/ LoadDraft(r)
             \/ SendMail(r)
             \/ MarkSent(r)
             \/ RecordSignal(r)

Next ==
    \/ \E t \in Tabs : \/ \E r \in Requests : OpenTab(t, r) \/ ClickSend(t, r)
                       \/ EditField(t)
                       \/ PickTemplate(t)
                       \/ LoseConnection(t)
    \/ \E save \in saves : \/ SaveLands(save[1], save[2])
                           \/ SaveFails(save[1], save[2])
    \/ \E r \in Requests : Handle(r) \/ HandlerDies(r)

\* A request on a live instance is worked on to its end.
Spec == /\ Init
        /\ [][Next]_vars
        /\ \A r \in Requests : WF_vars(Handle(r))

-----------------------------------------------------------------------------
(* Properties. *)

\* A draft shown as sent was mailed, although handlers race and an attempt may die
\* half way (send_draft mails before mark_draft_sent).
SentWasMailed == \A d \in DraftIds : drafts[d].status = "sent" => mailed[d] # {}

\* The account's history has at most one signal for a draft, which says what a mail
\* did say, although tabs edit the row while send_draft is mailing it.
SignalSaysWhatWasMailed ==
    \A d \in DraftIds : signals[d] # None => signals[d] \in mailed[d]

\* What OutreachTab guards with its own isSaving flag: no autosave re-enables
\* Send in mid-flight, so a tab waits for one send at a time.
OneSendInFlight ==
    \A t \in Tabs, q, r \in Requests \ abandoned :
        (/\ request[q].tab = t /\ request[q].pc \in {"load", "mail", "mark", "signal"}
         /\ request[r].tab = t /\ request[r].pc \in {"load", "mail", "mark", "signal"})
        => q = r

\* Every click on Send is answered: the tab does not stay on "sending".
EverySendAnswered ==
    \A t \in Tabs : tab[t].status = "sending" ~> tab[t].status # "sending"

\* docs/architecture.md: Send is blocked until all [...] slots are filled.
SlotsFilledBeforeMail == \A d \in DraftIds : Template \notin mailed[d]
=============================================================================
