------------------------------ MODULE MCIntake ------------------------------
(* A Pylon ticket and a batch of three product events, one of them invalid and   *)
(* one keyless, reach two server processes, which also see a request nobody       *)
(* signed.  The ticket and an event come from one address, the other event from   *)
(* a second one of the same account.                                             *)
EXTENDS StructuredIntake, Adapters, TLC

CONSTANTS ann, bob, acme, ticket, login, click, bad, s1, s2, webhook, batch, odd

MCInstances == {s1, s2}
MCItems == {ticket, login, click, bad}
MCOwner == [e \in {ann, bob} |-> acme]

Delivery ==
    [kind |-> "ticket", json |-> TRUE, secret |-> "pylon",
     headers |-> {"X-Pylon-Signature", "Pylon-Webhook-Timestamp"},
     payload |-> [type |-> "issue.message_added", has |-> {"workspace", "id", "issue"},
                  requester |-> ann, messages |-> <<[agent |-> TRUE, email |-> bob]>>]]
Unsigned == [Delivery EXCEPT !.headers = {}]

Event(name) ==
    CASE name = login -> [time |-> "now", named |-> TRUE, contact_email |-> ann]
      [] name = click -> [time |-> "now", named |-> TRUE, contact_email |-> bob]
      [] name = bad   -> [time |-> "future", named |-> TRUE, contact_email |-> ann]
Body == [bearer |-> TRUE, scopes |-> {"ingest"}, large |-> FALSE, json |-> TRUE,
         shape |-> "events", valid |-> TRUE, events |-> <<bad, login, click>>]

MCInvalid == {i \in {login, click, bad} : InvalidEvent(Event(i))}
MCParticipants == [i \in MCItems |-> IF i = ticket THEN TicketOf(Delivery).people
                                     ELSE EventPeople(Event(i))]
MCRequest == [r \in {webhook, batch, odd} |->
    IF r = webhook THEN [route |-> RouteOf(Delivery), flaw |-> TicketFlaw(Delivery),
                         items |-> <<ticket>>, posts |-> 2]
    ELSE IF r = batch THEN [route |-> "event", flaw |-> EventFlaw(Body),
                            items |-> EventsOf(Body), posts |-> 2]
    ELSE [route |-> RouteOf(Unsigned), flaw |-> TicketFlaw(Unsigned),
          items |-> <<ticket>>, posts |-> 1]]
Symmetry == Permutations(MCInstances)
MCNotes == [c \in Credentials |-> <<>>]
=============================================================================
