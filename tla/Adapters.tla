------------------------------ MODULE Adapters ------------------------------
(***************************************************************************)
(* What the senders' payloads become: a webhook of Plain or Pylon, a note  *)
(* of Granola, the body of POST /event.  Each adapter either skips a       *)
(* payload, finds it malformed, or names its participants, and a handler   *)
(* goes through its checks in an order.  A payload is the set of required  *)
(* fields it has and the addresses in it; texts, names and ids are left    *)
(* out.  An address is Missing when its field is, Null when it is null.    *)
(***************************************************************************)
EXTENDS Naturals, Sequences

CONSTANTS Null, Missing

Skipped == [result |-> "skipped", people |-> <<>>, direction |-> "none"]
Malformed == [result |-> "malformed", people |-> <<>>, direction |-> "none"]

\* A participant without an address is passed over by the normalizer.
Parsed(email, direction) ==
    IF email = Missing THEN Malformed
    ELSE [result |-> "none", people |-> IF email = Null THEN <<>> ELSE <<email>>,
          direction |-> direction]

-----------------------------------------------------------------------------

\* integrations/plain/adapter.py: one customer for each of the three event types.
PlainCustomer(p) ==
    CASE p.type = "thread.created" -> IF "thread" \in p.has THEN p.customer ELSE Missing
      [] p.type = "email.received" -> p.sender
      [] p.type = "email.sent"     -> IF p.to = <<>> THEN Missing ELSE p.to[1]

PlainTicket(p) ==
    IF p.type \notin {"thread.created", "email.received", "email.sent"} THEN Skipped
    ELSE IF ~({"id", "timestamp", "payload"} \subseteq p.has) THEN Malformed
    ELSE Parsed(PlainCustomer(p), IF p.type = "email.sent" THEN "outbound" ELSE "inbound")

\* integrations/pylon/adapter.py: the last message is the one that was added; the
\* customer of an agent's message is the requester, or the agent without one.
Last(messages) == messages[Len(messages)]

AddedBy(p) ==
    IF p.messages = <<>> \/ Last(p.messages).email = Missing THEN Missing
    ELSE IF Last(p.messages).agent /\ p.requester \notin {Null, Missing} THEN p.requester
    ELSE Last(p.messages).email

PylonTicket(p) ==
    IF p.type \notin {"issue.created", "issue.message_added"} THEN Skipped
    ELSE IF ~({"id", "issue"} \subseteq p.has) THEN Malformed
    ELSE IF p.type = "issue.created" THEN Parsed(p.requester, "inbound")
    ELSE Parsed(AddedBy(p), IF p.messages # <<>> /\ Last(p.messages).agent
                            THEN "outbound" ELSE "inbound")

\* integrations/granola/adapter.py: the owner is the one participant of a note, and the
\* address is put in lower case: an address that is null raises like a missing one.
GranolaNote(n) ==
    IF "summary" \notin n.has THEN Skipped
    ELSE IF ~({"id", "createdAt"} \subseteq n.has) \/ n.owner = Null THEN Malformed
    ELSE Parsed(n.owner, "internal")

-----------------------------------------------------------------------------

\* Which handler: Plain's header first; a kind other than "ticket" has no adapter.
RouteOf(d) ==
    IF d.kind # "ticket" THEN "note"
    ELSE IF "Plain-Request-Signature" \in d.headers THEN "plain"
    ELSE IF "X-Pylon-Signature" \in d.headers THEN "pylon"
    ELSE "unsigned"

\* The key of both signatures is the credential's secret; Pylon's covers a timestamp.
Signed(d) ==
    CASE RouteOf(d) = "plain" -> d.secret = "plain"
      [] RouteOf(d) = "pylon" -> d.secret = "pylon" /\ "Pylon-Webhook-Timestamp" \in d.headers

TicketOf(d) == IF RouteOf(d) = "plain" THEN PlainTicket(d.payload) ELSE PylonTicket(d.payload)

\* The first check of _handle_plain_ticket and _handle_pylon_ticket that fails.
TicketFlaw(d) ==
    IF RouteOf(d) \notin {"plain", "pylon"} THEN "none"
    ELSE IF ~d.json THEN "not_json"
    ELSE IF "workspace" \notin d.payload.has THEN "no_workspace"
    ELSE IF ~Signed(d) THEN "bad_signature"
    ELSE IF d.payload.type = "" THEN "no_type"
    ELSE TicketOf(d).result

-----------------------------------------------------------------------------

\* The four shapes of a body of POST /event; Segment's has its own field names.
MaxEventsPerBatch == 500

EventsOf(b) ==
    CASE b.shape \in {"segment", "single"} -> IF b.valid THEN <<b.event>> ELSE <<>>
      [] b.shape \in {"events", "batch"}   -> IF b.valid THEN b.events ELSE <<>>
      [] OTHER                             -> <<>>

\* The checks of the handler before its loop: the key, then size, form and number.
EventFlaw(b) ==
    IF ~b.bearer THEN "no_bearer"
    ELSE IF "ingest" \notin b.scopes THEN "no_scope"
    ELSE IF b.large THEN "too_large"
    ELSE IF ~b.json THEN "not_json"
    ELSE IF b.shape = "other" \/ ~b.valid THEN "unknown_shape"
    ELSE IF Len(EventsOf(b)) > MaxEventsPerBatch THEN "too_many"
    ELSE "none"

\* An event that the loop rejects: a time it cannot read or more than five minutes
\* ahead, or a name outside [A-Za-z0-9._-]{1,100}.
InvalidEvent(ev) == ev.time \in {"unreadable", "future"} \/ ~ev.named

EventPeople(ev) == IF ev.contact_email = Null THEN <<>> ELSE <<ev.contact_email>>
=============================================================================
