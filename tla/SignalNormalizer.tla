------------------------- MODULE SignalNormalizer -------------------------
(***************************************************************************)
(* normalize_structured_signal (src/pipeline/structured_signal.py) and its *)
(* twin for product events: from the participants of an item to contacts,  *)
(* an account, and one row of signals.  The handlers of the push routes    *)
(* and the Granola poller call it; each call to the database is a step, so *)
(* that callers on different server processes interleave.                  *)
(*                                                                         *)
(* An item is one vendor event, note or product event.  A product event    *)
(* has at most one participant, and without an event_id it is stored under *)
(* a fresh id by every post.  Bodies, subjects and metadata are left out.  *)
(***************************************************************************)
EXTENDS Integers, Sequences, FiniteSets

CONSTANTS
    Workers,        \* those that call the normalizer: server processes and polls
    Items,
    Participants,   \* Participants[i]: the e-mail addresses of item i
    Keyless,        \* product events sent without an event_id
    MaxPosts,       \* how often one request is sent
    MaxFaults,      \* how many calls fail, processes die and clients give up
    Emails, Accounts,
    Opened,         \* accounts that exist at the start
    DomainOwner,    \* DomainOwner[e]: the account whose domains hold that of e
    None

Maybe(S) == S \cup {None}

ASSUME NormalizerAssumption ==
    /\ Participants \in [Items -> Seq(Emails)]
    /\ Keyless \subseteq Items
    /\ MaxPosts \in Nat \ {0} /\ MaxFaults \in Nat
    /\ DomainOwner \in [Emails -> Maybe(Accounts)]
    /\ Opened \subseteq Accounts
    /\ None \notin Accounts \cup Items

VARIABLES
    accounts,       \* ids of the accounts that exist
    contact,        \* contact[e]: the contact with address e
    signals,        \* signals[k]: the row stored under external id k
    work,           \* work[w]: the call of the normalizer by w
    faults,         \* faults that have happened
    triggers,       \* history: triggers[k]: calls of schedule_regen with signal k
    lost            \* history: signals whose trigger a fault has swallowed

tables == <<accounts, contact>>
normalizerVars == <<accounts, contact, signals, work, triggers, lost>>

Fault == faults < MaxFaults /\ faults' = faults + 1

-----------------------------------------------------------------------------

\* The external id: a keyless event gets one of its own for each post of it.
Key(i, post) == <<i, IF i \in Keyless THEN post ELSE 0>>
SignalKeys == {Key(i, post) : i \in Items, post \in 1 .. MaxPosts}

Methods == {"api_key_identity", "auto_discovery", "unmatched"}

Contact == [known : BOOLEAN, account : Maybe(Accounts)]
NoContact == [known |-> FALSE, account |-> None]

\* "heard" is history: schedule_regen was called for the row's account since.
SignalRow == [stored : BOOLEAN, account : Maybe(Accounts), method : Methods, heard : BOOLEAN]
NoSignal == [stored |-> FALSE, account |-> None, method |-> "unmatched", heard |-> FALSE]

Call == [pc : {"none", "lookup", "upsert", "stored", "raised"},
         key : SignalKeys \cup {<<>>}, step : Nat, found : Maybe(Accounts),
         method : Methods, account : Maybe(Accounts), duplicate : BOOLEAN]

NoCall == [pc |-> "none", key |-> <<>>, step |-> 1, found |-> None,
           method |-> "unmatched", account |-> None, duplicate |-> FALSE]

NormalizerTypeOK ==
    /\ accounts \subseteq Accounts
    /\ contact \in [Emails -> Contact]
    /\ signals \in [SignalKeys -> SignalRow]
    /\ work \in [Workers -> Call]
    /\ triggers \in [SignalKeys -> Nat]
    /\ lost \subseteq SignalKeys
    /\ faults \in Nat

NormalizerInit ==
    /\ accounts = Opened
    /\ contact = [e \in Emails |-> NoContact]
    /\ signals = [k \in SignalKeys |-> NoSignal]
    /\ work = [w \in Workers |-> NoCall]
    /\ triggers = [k \in SignalKeys |-> 0]
    /\ lost = {}
    /\ faults = 0

Called(w, i, post) ==
    work' = [work EXCEPT ![w] = [NoCall EXCEPT !.pc = "lookup", !.key = Key(i, post)]]

Returned(w) == work' = [work EXCEPT ![w] = NoCall]

-----------------------------------------------------------------------------
(* The steps of a call. *)

EmailsOf(w) == Participants[work[w].key[1]]
Email(w) == EmailsOf(w)[work[w].step]

\* The call goes on to its next participant; the first account found stays.
Resolve(w, method, account) ==
    work' = [work EXCEPT ![w].pc = "lookup",
                         ![w].step = @ + 1,
                         ![w].found = None,
                         ![w].method = method,
                         ![w].account = IF @ = None THEN account ELSE @]

\* Mutant: the contact's own id is taken for that of its account.
FindContactId(w) ==
    /\ work[w].pc = "lookup"
    /\ work[w].step <= Len(EmailsOf(w))
    /\ contact[Email(w)].known
    /\ Resolve(w, "api_key_identity", Email(w))
    /\ UNCHANGED <<tables, signals, triggers, lost>>

\* get_contact_by_email: a known contact brings its account, whatever its domain.
FindContact(w) ==
    /\ work[w].pc = "lookup"
    /\ work[w].step <= Len(EmailsOf(w))
    /\ contact[Email(w)].known
    /\ Resolve(w, "api_key_identity", contact[Email(w)].account)
    /\ UNCHANGED <<tables, signals, triggers, lost>>

\* No such contact: get_account_by_email_domain looks for the owner of its domain.
DiscoverAccount(w) ==
    LET owner == DomainOwner[Email(w)] IN
    /\ work[w].pc = "lookup"
    /\ work[w].step <= Len(EmailsOf(w))
    /\ ~contact[Email(w)].known
    /\ work' = [work EXCEPT ![w].pc = "upsert",
                            ![w].found = IF owner \in accounts THEN owner ELSE None]
    /\ UNCHANGED <<tables, signals, triggers, lost>>

\* upsert_contact_safe keeps the account a contact has when none is offered.
UpsertNewContact(w) ==
    LET found == work[w].found
        method == IF work[w].method = "unmatched" THEN "auto_discovery" ELSE work[w].method
    IN
    /\ work[w].pc = "upsert"
    /\ contact' = [contact EXCEPT ![Email(w)].known = TRUE,
                                  ![Email(w)].account = IF found = None THEN @ ELSE found]
    /\ Resolve(w, method, found)
    /\ UNCHANGED <<accounts, signals, triggers, lost>>

\* Mutant: a second delivery of the item overwrites its row and counts as new.
InsertBlindly(w) ==
    /\ work[w].pc = "lookup"
    /\ work[w].step > Len(EmailsOf(w))
    /\ signals' = [signals EXCEPT ![work[w].key] =
                     [NoSignal EXCEPT !.stored = TRUE, !.account = work[w].account,
                                      !.method = work[w].method]]
    /\ work' = [work EXCEPT ![w].pc = "stored"]
    /\ UNCHANGED <<tables, triggers, lost>>

\* insert_signal: the row that is there already is returned unchanged.
InsertSignal(w) ==
    LET row == signals[work[w].key] IN
    /\ work[w].pc = "lookup"
    /\ work[w].step > Len(EmailsOf(w))
    /\ IF row.stored
       THEN /\ work' = [work EXCEPT ![w].pc = "stored", ![w].duplicate = TRUE,
                                    ![w].account = row.account]
            /\ UNCHANGED signals
       ELSE /\ signals' = [signals EXCEPT ![work[w].key] =
                             [NoSignal EXCEPT !.stored = TRUE, !.account = work[w].account,
                                              !.method = work[w].method]]
            /\ work' = [work EXCEPT ![w].pc = "stored"]
    /\ UNCHANGED <<tables, triggers, lost>>

Normalize(w) == \/ FindContact(w)
                \/ DiscoverAccount(w)
                \/ UpsertNewContact(w)
                \/ InsertSignal(w)

\* The row a call has just inserted asks for a regeneration.
NewlyRouted(w) ==
    work[w].pc = "stored" /\ ~work[w].duplicate /\ work[w].account # None

Owing(w) == IF NewlyRouted(w) THEN {work[w].key} ELSE {}

\* A call to the database raises; the insert may have been committed by then.
Raise(w) ==
    /\ work[w].pc \in {"lookup", "upsert", "stored"}
    /\ work' = [work EXCEPT ![w].pc = "raised"]
    /\ lost' = lost \cup Owing(w)
    /\ UNCHANGED <<tables, signals, triggers>>

\* schedule_regen with signal k: the job will read every signal the account has by
\* now.  A call that raises is logged and nothing more.
Schedule(k) ==
    /\ triggers' = [triggers EXCEPT ![k] = @ + 1]
    /\ signals' = [j \in SignalKeys |->
                     IF signals[j].stored /\ signals[j].account = signals[k].account
                     THEN [signals[j] EXCEPT !.heard = TRUE]
                     ELSE signals[j]]
    /\ UNCHANGED <<tables, lost>>

ScheduleFails(keys) ==
    /\ lost' = lost \cup keys
    /\ UNCHANGED <<tables, signals, triggers>>

\* An operator creates an account.
CreateAccount(a) ==
    /\ a \notin accounts
    /\ accounts' = accounts \cup {a}
    /\ UNCHANGED <<contact, signals, work, triggers, lost>>

-----------------------------------------------------------------------------

\* However often an item is sent, fetched or stored, its signal asks for a
\* regeneration at most once: insert_signal reports every later one a duplicate.
TriggeredOnce == \A k \in SignalKeys : triggers[k] <= 1
=============================================================================
