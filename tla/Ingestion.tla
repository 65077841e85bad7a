----------------------------- MODULE Ingestion -----------------------------
(***************************************************************************)
(* Inbound e-mail: SendGrid posts a message to /inbound                    *)
(* (src/server/routes/inbound.py) until it is answered with 200, and each  *)
(* post runs process_event (src/pipeline/run.py) from the beginning:       *)
(* contacts, signal, routing, candidate account, regeneration trigger.     *)
(* Beside it a manager confirms and dismisses the candidates.              *)
(*                                                                         *)
(* Every call to the database is a step.  The handler awaits nothing once  *)
(* it has the form, so a server instance works on one post at a time; the  *)
(* posts on different instances interleave, each deciding with the list of *)
(* accounts it read at its start.                                          *)
(*                                                                         *)
(* A mail is stored as one signal, by its Message-ID.  A company writes    *)
(* from one address, so the contacts of its domain are one row.  The       *)
(* identity of a discovered account is a hash of its domain: the domain    *)
(* itself stands for it.  The raw_inbound_events rows and the audit log    *)
(* are left out: nothing reads them, and a post inserts its event under a  *)
(* new id, so that no post is ever answered as a duplicate.                *)
(***************************************************************************)
EXTENDS Routing, FiniteSets

CONSTANTS
    Mails,          \* messages; at most MaxMails of them are sent
    Header,         \* Header[m]: from, to, plus, forwarded and thread of m
    Malformed,      \* messages that InboundPayload rejects
    Seeds,          \* accounts an operator has created: id, slug and domain
    Referenced,     \* seeds that other tables refer to
    Instances,      \* number of server processes
    MaxMails, MaxDeliveries, MaxDecisions, MaxFaults

Ids == Domains \cup {s.id : s \in Seeds}
Slugs == {SlugOf[d] : d \in Domains} \cup {s.slug : s \in Seeds}
Maybe(S) == S \cup {None}

Message == [from : Domains, to : Seq(Domains), plus : Maybe(Slugs),
            forwarded : Maybe(Domains), thread : Maybe(Nat)]

Methods == {"outbound_bcc", "plus_addressing", "header_domain", "forward_parse",
            "thread_inherit", "thread_inherit_split", "auto_discovery", "unmatched"}

ASSUME IngestionAssumption ==
    /\ IsFiniteSet(Mails)
    /\ Malformed \subseteq Mails
    /\ Header \in [Mails -> Message]
    /\ \A s \in Seeds : s.id \notin Domains /\ s.domain \in Maybe(Domains)
    /\ Referenced \subseteq {s.id : s \in Seeds}
    /\ {Instances, MaxMails, MaxDeliveries, MaxDecisions, MaxFaults} \subseteq Nat
    /\ None \notin Ids \cup Slugs \cup Mails \cup Methods

VARIABLES
    mailbox,        \* what SendGrid still has to deliver
    delivery,       \* the handlers, one for each post
    accounts,       \* the accounts table, by slug
    contact,        \* contact[d]: the account_id of the contacts of domain d
    signals,        \* the signals table
    triggers,       \* <<m, a>>: schedule_regen has asked for account a on m
    decisions, faults

vars == <<mailbox, delivery, accounts, contact, signals, triggers, decisions, faults>>

-----------------------------------------------------------------------------
(* Rows and handlers. *)

Mailbox == [state : {"unsent", "queued", "posted", "acked"}, by : Nat]

NoAccount == [status |-> "none", id |-> None, domain |-> None, deleted |-> FALSE]

Account == {NoAccount} \cup [status : {"candidate", "active"}, id : Ids,
                             domain : Maybe(Domains), deleted : BOOLEAN]

\* "born" orders the rows by created_at; 0 is a row not inserted yet.
SignalRow == [born : Nat, account : Maybe(Ids), method : Maybe(Methods)]

Listed == [id : Ids, slug : Slugs, domain : Maybe(Domains)]

Thread == [latest : Maybe(Ids), split : BOOLEAN]

Working == {"list", "reject", "lookup", "contact", "store", "thread", "route", "update",
            "schedule", "audit"}

\* A post that fails after SendGrid gave it up is "lost"; "done" is any other end.
Handler == [pc : Working \cup {"none", "done", "lost"}, mail : Maybe(Mails),
            listed : SUBSET Listed, step : Nat, found : Maybe(Ids), thread : Thread,
            target : Maybe(Ids), method : Maybe(Methods)]

NoThread == [latest |-> None, split |-> FALSE]

NoHandler == [pc |-> "none", mail |-> None, listed |-> {}, step |-> 0, found |-> None,
              thread |-> NoThread, target |-> None, method |-> None]

Posts == 1 .. MaxDeliveries

TypeOK ==
    /\ mailbox \in [Mails -> Mailbox]
    /\ delivery \in [Posts -> Handler]
    /\ accounts \in [Slugs -> Account]
    /\ contact \in [Domains -> Maybe(Ids)]
    /\ signals \in [Mails -> SignalRow]
    /\ triggers \subseteq Mails \X Ids
    /\ {decisions, faults} \subseteq Nat

SeedAt(slug) ==
    IF \E s \in Seeds : s.slug = slug
    THEN LET s == CHOOSE s \in Seeds : s.slug = slug
         IN  [status |-> "active", id |-> s.id, domain |-> s.domain, deleted |-> FALSE]
    ELSE NoAccount

Init ==
    /\ mailbox = [m \in Mails |-> [state |-> "unsent", by |-> 0]]
    /\ delivery = [x \in Posts |-> NoHandler]
    /\ accounts = [slug \in Slugs |-> SeedAt(slug)]
    /\ contact = [d \in Domains |-> None]
    /\ signals = [m \in Mails |-> [born |-> 0, account |-> None, method |-> None]]
    /\ triggers = {}
    /\ decisions = 0
    /\ faults = 0

-----------------------------------------------------------------------------
(* State functions and steps common to the actions. *)

Live == {slug \in Slugs : accounts[slug].status # "none" /\ ~accounts[slug].deleted}

\* What get_accounts_for_workspace returns, as far as routing looks at it.
AccountList == {[id |-> accounts[slug].id, slug |-> slug, domain |-> accounts[slug].domain] :
                    slug \in Live}

\* Foreign keys: a reference needs its row, deleted or not, and a row that is
\* referred to keeps its id.
Exists(id) == id = None \/ \E slug \in Slugs : accounts[slug].id = id

InUse(id) ==
    /\ id # None
    /\ \/ id \in Referenced
       \/ \E m \in Mails : signals[m].account = id
       \/ \E d \in Domains : contact[d] = id
       \/ \E t \in triggers : t[2] = id

Mail(x) == Header[delivery[x].mail]

\* Contacts to upsert, in order: the sender, unless staff, and the recipients.
Participants(x) ==
    IF IsInternal(Mail(x).from) THEN Mail(x).to ELSE <<Mail(x).from>> \o Mail(x).to

At(x, pc) == delivery[x].pc = pc
Goto(x, pc) == delivery' = [delivery EXCEPT ![x].pc = pc]

\* The response, which SendGrid hears only if it still waits for this post.
Respond(x, state) ==
    LET m == delivery[x].mail
        heard == mailbox[m] = [state |-> "posted", by |-> x]
        end == IF heard \/ state = "acked" THEN "done" ELSE "lost"
    IN
    /\ delivery' = [delivery EXCEPT ![x] = [NoHandler EXCEPT !.pc = end, !.mail = m]]
    /\ mailbox' = IF heard THEN [mailbox EXCEPT ![m].state = state] ELSE mailbox

Status200(x) == Respond(x, "acked")
Status500(x) == Respond(x, "queued")

tables == <<accounts, contact, signals, triggers>>
counters == <<decisions, faults>>

-----------------------------------------------------------------------------
(* SendGrid and the handler. *)

Write(m) ==
    /\ mailbox[m].state = "unsent"
    /\ Cardinality({n \in Mails : mailbox[n].state # "unsent"}) < MaxMails
    /\ mailbox' = [mailbox EXCEPT ![m].state = "queued"]
    /\ UNCHANGED <<delivery, tables, counters>>

Busy == {x \in Posts : delivery[x].pc \in Working}

\* Mutant: the raw event's id comes from the Message-ID, so that a second post
\* of a mail meets the unique violation that is answered with "duplicate".
PostOnce(m) ==
    LET x == Cardinality({y \in Posts : ~At(y, "none")}) + 1 IN
    /\ mailbox[m].state = "queued"
    /\ x \in Posts
    /\ Cardinality(Busy) < Instances
    /\ IF \E y \in Posts : delivery[y].mail = m
       THEN mailbox' = [mailbox EXCEPT ![m].state = "acked"] /\ UNCHANGED delivery
       ELSE /\ mailbox' = [mailbox EXCEPT ![m] = [state |-> "posted", by |-> x]]
            /\ delivery' = [delivery EXCEPT ![x].pc = "list", ![x].mail = m]
    /\ UNCHANGED <<tables, counters>>

Post(m) ==
    LET x == Cardinality({y \in Posts : ~At(y, "none")}) + 1 IN
    /\ mailbox[m].state = "queued"
    /\ x \in Posts
    /\ Cardinality(Busy) < Instances
    /\ mailbox' = [mailbox EXCEPT ![m] = [state |-> "posted", by |-> x]]
    /\ delivery' = [delivery EXCEPT ![x].pc = "list", ![x].mail = m]
    /\ UNCHANGED <<tables, counters>>

\* SendGrid stops waiting for the answer; the handler goes on.
TimeOut(m) ==
    /\ mailbox[m].state = "posted"
    /\ faults < MaxFaults
    /\ faults' = faults + 1
    /\ mailbox' = [mailbox EXCEPT ![m] = [state |-> "queued", by |-> 0]]
    /\ UNCHANGED <<delivery, tables, decisions>>

ListAccounts(x) ==
    /\ At(x, "list")
    /\ delivery' = [delivery EXCEPT
         ![x].listed = AccountList,
         ![x].step = 1,
         ![x].pc = IF delivery[x].mail \in Malformed THEN "reject"
                   ELSE IF Participants(x) = <<>> THEN "store" ELSE "lookup"]
    /\ UNCHANGED <<mailbox, tables, counters>>

\* The one live account with exactly this domain.
AccountOf(d) ==
    LET owners == {slug \in Live : accounts[slug].domain = d}
    IN  IF Cardinality(owners) = 1 THEN accounts[CHOOSE slug \in owners : TRUE].id ELSE None

LookUpAccount(x) ==
    /\ At(x, "lookup")
    /\ delivery' = [delivery EXCEPT
         ![x].pc = "contact",
         ![x].found = AccountOf(Participants(x)[delivery[x].step])]
    /\ UNCHANGED <<mailbox, tables, counters>>

NextParticipant(x) ==
    delivery' = [delivery EXCEPT
      ![x].pc = IF delivery[x].step < Len(Participants(x)) THEN "lookup" ELSE "store",
      ![x].step = @ + 1,
      ![x].found = None]

\* Mutant: overwrites the link without COALESCE.
OverwriteContact(x) ==
    /\ At(x, "contact")
    /\ contact' = [contact EXCEPT ![Participants(x)[delivery[x].step]] = delivery[x].found]
    /\ NextParticipant(x)
    /\ UNCHANGED <<mailbox, accounts, signals, triggers, counters>>

UpsertContact(x) ==
    LET found == delivery[x].found IN
    /\ At(x, "contact")
    /\ IF Exists(found)
       THEN /\ contact' = [contact EXCEPT ![Participants(x)[delivery[x].step]] =
                             IF found = None THEN @ ELSE found]
            /\ NextParticipant(x)
            /\ UNCHANGED mailbox
       ELSE Status500(x) /\ UNCHANGED contact
    /\ UNCHANGED <<accounts, signals, triggers, counters>>

\* insert_signal: a mail stored before keeps its row.
StoreSignal(x) ==
    LET m == delivery[x].mail
        stored == {n \in Mails : signals[n].born > 0}
    IN
    /\ At(x, "store")
    /\ signals' = [signals EXCEPT ![m].born = IF @ > 0 THEN @ ELSE Cardinality(stored) + 1]
    /\ Goto(x, IF Mail(x).thread = None THEN "route" ELSE "thread")
    /\ UNCHANGED <<mailbox, accounts, contact, triggers, counters>>

\* A payload that InboundPayload rejects is answered with 200, lest it come back.
RejectMalformed(x) ==
    /\ At(x, "reject")
    /\ Status200(x)
    /\ UNCHANGED <<tables, counters>>

\* The thread's routed signals: the account of the newest, and whether others differ.
ReadThread(x) ==
    LET routed == {m \in Mails : /\ Header[m].thread = Mail(x).thread
                                 /\ signals[m].account # None}
    IN
    /\ At(x, "thread")
    /\ IF routed = {} THEN Goto(x, "route")
       ELSE \E m \in routed :
              /\ \A n \in routed : signals[n].born <= signals[m].born
              /\ delivery' = [delivery EXCEPT
                   ![x].pc = "route",
                   ![x].thread.latest = signals[m].account,
                   ![x].thread.split = \E n \in routed :
                                          signals[n].account # signals[m].account]
    /\ UNCHANGED <<mailbox, tables, counters>>

\* Step 5 of process_event: what no stage could place goes to _unmatched.
Fallback(x, id) ==
    LET pseudo == {a \in delivery[x].listed : a.slug = UNMATCHED_ACCOUNT_SLUG}
    IN  IF id = None /\ pseudo # {} THEN (CHOOSE a \in pseudo : TRUE).id ELSE id

Routes(x) == Route(Mail(x), delivery[x].listed, delivery[x].thread)

Discovered(d) == [status |-> "candidate", id |-> d, domain |-> d, deleted |-> FALSE]

\* The companies the router would discover, and how.
Discoveries(x) == {r \in Routes(x) : r.discover # None}

GotCandidate(x, r) ==
    LET row == [id |-> r.discover, slug |-> SlugOf[r.discover], domain |-> r.discover] IN
    delivery' = [delivery EXCEPT ![x].pc = "update", ![x].listed = @ \cup {row},
                                 ![x].target = r.discover, ![x].method = r.method]

\* Mutant: inserts the candidate without ON CONFLICT.
InsertCandidate(x) ==
    /\ At(x, "route")
    /\ \E r \in Discoveries(x) :
         IF accounts[SlugOf[r.discover]].status = "none"
         THEN /\ accounts' = [accounts EXCEPT ![SlugOf[r.discover]] = Discovered(r.discover)]
              /\ GotCandidate(x, r)
              /\ UNCHANGED mailbox
         ELSE Status500(x) /\ UNCHANGED accounts
    /\ UNCHANGED <<contact, signals, triggers, counters>>

\* upsert_account overwrites every column of the row with the candidate's slug,
\* unless that changes an id some row refers to.
UpsertCandidate(x) ==
    /\ At(x, "route")
    /\ \E r \in Discoveries(x) :
         LET slug == SlugOf[r.discover] IN
         IF accounts[slug].id = r.discover \/ ~InUse(accounts[slug].id)
         THEN /\ accounts' = [accounts EXCEPT ![slug] = Discovered(r.discover)]
              /\ GotCandidate(x, r)
              /\ UNCHANGED mailbox
         ELSE Status500(x) /\ UNCHANGED accounts
    /\ UNCHANGED <<contact, signals, triggers, counters>>

\* The account and the method to write on the signal.
Routing(x) ==
    IF At(x, "update") THEN {[target |-> delivery[x].target, method |-> delivery[x].method]}
    ELSE {[target |-> Fallback(x, r.account), method |-> r.method] :
             r \in Routes(x) \ Discoveries(x)}

\* Mutant: a signal that already has an account needs no further work.
SkipRoutedSignal(x) ==
    LET m == delivery[x].mail IN
    /\ delivery[x].pc \in {"route", "update"}
    /\ \E r \in Routing(x) :
         IF signals[m].account = None
         THEN /\ signals' = [signals EXCEPT ![m].account = r.target, ![m].method = r.method]
              /\ delivery' = [delivery EXCEPT ![x].pc = "schedule", ![x].target = r.target,
                                              ![x].method = r.method]
              /\ UNCHANGED mailbox
         ELSE Status200(x) /\ UNCHANGED signals
    /\ UNCHANGED <<accounts, contact, triggers, counters>>

UpdateRouting(x) ==
    LET m == delivery[x].mail IN
    /\ delivery[x].pc \in {"route", "update"}
    /\ \E r \in Routing(x) :
         IF Exists(r.target)
         THEN /\ signals' = [signals EXCEPT ![m].account = r.target, ![m].method = r.method]
              /\ delivery' = [delivery EXCEPT ![x].pc = "schedule", ![x].target = r.target,
                                              ![x].method = r.method]
              /\ UNCHANGED mailbox
         ELSE Status500(x) /\ UNCHANGED signals
    /\ UNCHANGED <<accounts, contact, triggers, counters>>

\* The target is the pseudo-account of the list the handler holds.
ToPseudoAccount(x) ==
    \E a \in delivery[x].listed : /\ a.id = delivery[x].target
                                  /\ a.slug = UNMATCHED_ACCOUNT_SLUG

\* schedule_regen, and the answer, unless a split thread is still to be audited.
ScheduleRegen(x) ==
    LET id == delivery[x].target IN
    /\ At(x, "schedule")
    /\ triggers' = IF id = None \/ ToPseudoAccount(x) THEN triggers
                   ELSE triggers \cup {<<delivery[x].mail, id>>}
    /\ IF delivery[x].method = "thread_inherit_split"
       THEN Goto(x, "audit") /\ UNCHANGED mailbox
       ELSE Status200(x)
    /\ UNCHANGED <<accounts, contact, signals, counters>>

AuditSplit(x) ==
    /\ At(x, "audit")
    /\ Status200(x)
    /\ UNCHANGED <<tables, counters>>

\* A call raises or the instance dies: the post ends without a 200.
HandlerDies(x) ==
    /\ x \in Busy
    /\ faults < MaxFaults
    /\ faults' = faults + 1
    /\ Status500(x)
    /\ UNCHANGED <<tables, decisions>>

Handle(x) == \/ ListAccounts(x)
             \/ RejectMalformed(x)
             \/ LookUpAccount(x)
             \/ UpsertContact(x)
             \/ StoreSignal(x)
             \/ ReadThread(x)
             \/ UpsertCandidate(x)
             \/ UpdateRouting(x)
             \/ ScheduleRegen(x)
             \/ AuditSplit(x)

-----------------------------------------------------------------------------
(* Managers.  A sidebar may show a list as old as one likes, so a click can  *)
(* name any discovered account.                                              *)

Decide(slug) ==
    /\ slug \in Live
    /\ accounts[slug].id \in Domains
    /\ decisions < MaxDecisions
    /\ decisions' = decisions + 1
    /\ UNCHANGED <<mailbox, delivery, contact, signals, triggers, faults>>

Confirm(slug) ==
    /\ accounts[slug].status = "candidate"
    /\ accounts' = [accounts EXCEPT ![slug].status = "active"]
    /\ Decide(slug)

\* Mutant: keeps the decision in the status.
DismissByStatus(slug) ==
    /\ accounts' = [accounts EXCEPT ![slug].status = "dismissed"]
    /\ Decide(slug)

\* The function looks at the workspace of the row, not at its status.
Dismiss(slug) ==
    /\ accounts' = [accounts EXCEPT ![slug].deleted = TRUE]
    /\ Decide(slug)

Next ==
    \/ \E m \in Mails : Write(m) \/ Post(m) \/ TimeOut(m)
    \/ \E x \in Posts : Handle(x) \/ HandlerDies(x)
    \/ \E slug \in Slugs : Confirm(slug) \/ Dismiss(slug)

Spec == Init /\ [][Next]_vars

\* SendGrid posts what is queued; a handler on a live instance runs to its end.
FairSpec ==
    /\ Spec
    /\ \A m \in Mails : WF_vars(Post(m))
    /\ \A x \in Posts : WF_vars(Handle(x))

-----------------------------------------------------------------------------
(* Properties. *)

\* SendGrid forgets a mail only when its signal has been routed: no failure
\* between mark_processed and update_signal_routing leaves a stored signal
\* without an account behind an answer of 200.
AckedIsRouted ==
    \A m \in Mails \ Malformed : mailbox[m].state = "acked" => signals[m].method # None

\* ... and when a regeneration was asked for on the account it went to, unless
\* that is the pseudo-account or a post SendGrid gave up on, which may route the
\* signal once more, is still at work or has failed.
UnmatchedIds == {accounts[slug].id : slug \in Slugs \cap {UNMATCHED_ACCOUNT_SLUG}}

AckedIsTriggered ==
    \A m \in Mails \ Malformed :
        mailbox[m].state = "acked" =>
            \/ signals[m].account \in UnmatchedIds \cup {None}
            \/ <<m, signals[m].account>> \in triggers
            \/ \E x \in Posts : delivery[x].mail = m /\ ~At(x, "done")

\* Two companies whose domains have the same first label, and so one slug.
Named(m) == {Header[m].from} \cup DomainsOf(Header[m].to)

Rivals(m) ==
    \E d \in Named(m), e \in Domains :
        /\ e # d /\ SlugOf[e] = SlugOf[d]
        /\ \/ \E s \in Seeds : s.domain = e
           \/ \E n \in Mails : mailbox[n].state # "unsent" /\ e \in Named(n)

\* Every mail is answered with 200 in the end, so that again and again none is
\* left to deliver, however often its handler fails half way and starts again
\* over what it left, and whatever managers do with the account meanwhile.
\* Not so for two companies of one slug: the second is answered with 500 each
\* time once anything refers to the account of the first.
EveryMailAcked ==
    []<>(\A m \in Mails : mailbox[m].state \in {"unsent", "acked"} \/ Rivals(m))

\* upsert_contact_safe: a link of a contact to its account is never lost to a
\* handler that looked the account up before it existed, or after its dismissal.
LinkKept ==
    [][\A d \in Domains : contact[d] # None => contact'[d] # None]_vars

\* docs/architecture.md:82 on auto-discovery: "Stage 5 creates a candidate ...;
\* the other stages route to existing accounts".
DiscoveryOnlyCreates ==
    [][\A x \in Posts : UpsertCandidate(x) =>
          \A slug \in Live : accounts[slug].status = "active" =>
              accounts'[slug] = accounts[slug]]_vars
=============================================================================
