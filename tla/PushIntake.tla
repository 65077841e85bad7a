----------------------------- MODULE PushIntake -----------------------------
(***************************************************************************)
(* The routes that senders push to: POST /event for product events         *)
(* (src/server/routes/event.py) and POST /signal/ticket for the webhooks   *)
(* of Plain and Pylon (src/server/routes/signal.py).                       *)
(*                                                                         *)
(* A handler awaits nothing once it has the body, so a server process      *)
(* works on one request at a time; the processes interleave.  What a       *)
(* request looks like is abstracted to its flaw: the first check of the    *)
(* handler that its form fails, if any.  Whether its credential is known   *)
(* and whether its key has requests left depend on the state.              *)
(***************************************************************************)
EXTENDS SignalNormalizer, RateLimiter

CONSTANTS
    Instances,      \* server processes
    Requests,
    Request,        \* Request[r]: route, flaw and items of r, and how often it is sent
    Connected,      \* routes whose API key or webhook credential is active at the start
    Invalid         \* events with a bad occurred_at or event name

Routes == {"event", "plain", "pylon", "note", "unsigned"}

\* The checks that look at the form of a request, in the order of the handlers.
\* The first two of /event come before its rate limit, the others after it.
KeyFlaws == {"no_bearer", "no_scope"}
BodyFlaws == {"too_large", "not_json", "unknown_shape", "too_many"}
TicketFlaws == {"not_json", "no_workspace", "bad_signature", "no_type", "malformed", "skipped"}

ASSUME PushAssumption ==
    /\ Instances \subseteq Workers
    /\ Keys = Instances
    /\ \A r \in Requests :
         /\ Request[r].route \in Routes
         /\ Request[r].items \in Seq(Items)
         /\ Request[r].posts \in 0 .. MaxPosts
         /\ Request[r].flaw \in {"none"} \cup
              (IF Request[r].route = "event" THEN KeyFlaws \cup BodyFlaws ELSE TicketFlaws)
         /\ Request[r].route # "event" => Len(Request[r].items) = 1
    /\ Connected \subseteq Routes
    /\ Invalid \subseteq Items

VARIABLES
    connected,      \* routes whose API key or webhook credential is active
    sender,         \* sender[r]: the client that sends request r
    handler         \* handler[i]: the request process i works on

pushVars == <<connected, sender, handler>>

-----------------------------------------------------------------------------

\* "accepted": answered with the results; "dropped": answered 200 and ignored;
\* "failed": an error or no answer, and the sender may try again.
Sender == [state : {"new", "waiting", "accepted", "dropped", "failed"},
           posts : 0 .. MaxPosts, reported : SUBSET SignalKeys]

Handler == [pc : {"idle", "check", "items", "normalize"},
            request : Maybe(Requests), post : 0 .. MaxPosts, index : Nat,
            accepted : SUBSET SignalKeys, affected : SUBSET SignalKeys]

Idle == [pc |-> "idle", request |-> None, post |-> 0, index |-> 1,
         accepted |-> {}, affected |-> {}]

PushTypeOK ==
    /\ connected \subseteq Routes
    /\ sender \in [Requests -> Sender]
    /\ handler \in [Instances -> Handler]

PushInit ==
    /\ connected = Connected
    /\ sender = [r \in Requests |-> [state |-> "new", posts |-> 0, reported |-> {}]]
    /\ handler = [i \in Instances |-> Idle]

At(i, pc) == handler[i].pc = pc
Goto(i, pc) == handler' = [handler EXCEPT ![i].pc = pc]
Req(i) == Request[handler[i].request]

\* The answer counts only for a sender that still waits for this post.
Respond(i, state, reported) ==
    LET r == handler[i].request
        waits == sender[r].state = "waiting" /\ sender[r].posts = handler[i].post
    IN
    /\ handler' = [handler EXCEPT ![i] = Idle]
    /\ sender' = IF waits THEN [sender EXCEPT ![r].state = state, ![r].reported = reported]
                 ELSE sender

Refusal(i) == Respond(i, "failed", {}) /\ UNCHANGED <<connected, faults>>
Shrug(i) == Respond(i, "dropped", {}) /\ UNCHANGED <<connected, faults>>

-----------------------------------------------------------------------------
(* Senders. *)

Post(r, i) ==
    /\ sender[r].state \in {"new", "failed"}
    /\ sender[r].posts < Request[r].posts
    /\ At(i, "idle")
    /\ sender' = [sender EXCEPT ![r].state = "waiting", ![r].posts = @ + 1]
    /\ handler' = [handler EXCEPT ![i].pc = "check", ![i].request = r,
                                  ![i].post = sender[r].posts + 1]
    /\ UNCHANGED <<connected, faults, normalizerVars, limiterVars>>

TimeOut(r) ==
    /\ sender[r].state = "waiting"
    /\ Fault
    /\ sender' = [sender EXCEPT ![r].state = "failed"]
    /\ UNCHANGED <<connected, handler, normalizerVars, limiterVars>>

\* The credential of a route is revoked or deactivated.
Disconnect(route) ==
    /\ route \in connected
    /\ connected' = connected \ {route}
    /\ UNCHANGED <<sender, handler, faults, normalizerVars, limiterVars>>

-----------------------------------------------------------------------------
(* POST /event, up to the loop over its events. *)

\* verify_api_key: no key, a key unknown, revoked or expired, or without the scope.
RejectKey(i) ==
    /\ At(i, "check")
    /\ Req(i).route = "event"
    /\ Req(i).flaw \in KeyFlaws \/ "event" \notin connected
    /\ Refusal(i)
    /\ UNCHANGED <<normalizerVars, limiterVars>>

AcceptsKey(i) ==
    /\ At(i, "check")
    /\ Req(i).route = "event"
    /\ Req(i).flaw \notin KeyFlaws /\ "event" \in connected

RateLimited(i) ==
    /\ AcceptsKey(i)
    /\ Refuse(i)
    /\ Refusal(i)
    /\ UNCHANGED normalizerVars

\* A request with a body that cannot be used has taken its place in the window.
AdmitBatch(i) ==
    /\ AcceptsKey(i)
    /\ Admit(i)
    /\ IF Req(i).flaw \in BodyFlaws
       THEN Refusal(i)
       ELSE Goto(i, "items") /\ UNCHANGED <<connected, sender, faults>>
    /\ UNCHANGED normalizerVars

-----------------------------------------------------------------------------
(* POST /signal/{kind}, up to the normalizer.  The vendor is told by the header *)
(* of its signature; "note" has no adapter.                                     *)

RejectTicket(i) ==
    /\ At(i, "check")
    /\ \/ Req(i).route \in {"note", "unsigned"}
       \/ /\ Req(i).route \in {"plain", "pylon"}
          /\ \/ Req(i).flaw \in {"not_json", "no_workspace"}
             \/ /\ Req(i).route \in connected
                /\ Req(i).flaw \in {"bad_signature", "no_type", "malformed"}
    /\ Refusal(i)
    /\ UNCHANGED <<normalizerVars, limiterVars>>

\* An unknown workspace and an event type without a handler are answered with 200,
\* lest the vendor send them again.
IgnoreTicket(i) ==
    /\ At(i, "check")
    /\ Req(i).route \in {"plain", "pylon"}
    /\ \/ Req(i).route \notin connected /\ Req(i).flaw \notin {"not_json", "no_workspace"}
       \/ Req(i).route \in connected /\ Req(i).flaw = "skipped"
    /\ Shrug(i)
    /\ UNCHANGED <<normalizerVars, limiterVars>>

AcceptTicket(i) ==
    /\ At(i, "check")
    /\ Req(i).route \in {"plain", "pylon"} \cap connected
    /\ Req(i).flaw = "none"
    /\ Goto(i, "items")
    /\ UNCHANGED <<connected, sender, faults, normalizerVars, limiterVars>>

-----------------------------------------------------------------------------
(* The items of a request, one call of the normalizer each. *)

Remaining(i) == handler[i].index <= Len(Req(i).items)
Item(i) == Req(i).items[handler[i].index]

SkipInvalid(i) ==
    /\ At(i, "items")
    /\ Remaining(i)
    /\ Item(i) \in Invalid
    /\ handler' = [handler EXCEPT ![i].index = @ + 1]
    /\ UNCHANGED <<connected, sender, faults, normalizerVars, limiterVars>>

NormalizeNext(i) ==
    /\ At(i, "items")
    /\ Remaining(i)
    /\ Item(i) \notin Invalid
    /\ Called(i, Item(i), handler[i].post)
    /\ Goto(i, "normalize")
    /\ UNCHANGED <<connected, sender, faults, tables, signals, triggers, lost, limiterVars>>

Collect(i) ==
    /\ At(i, "normalize")
    /\ work[i].pc = "stored"
    /\ handler' = [handler EXCEPT ![i].pc = "items", ![i].index = @ + 1,
                     ![i].accepted = @ \cup {work[i].key},
                     ![i].affected = IF NewlyRouted(i) THEN @ \cup {work[i].key} ELSE @]
    /\ Returned(i)
    /\ UNCHANGED <<connected, sender, faults, tables, signals, triggers, lost, limiterVars>>

\* Mutant: one event that cannot be stored fails the batch.
FailBatch(i) ==
    /\ At(i, "normalize")
    /\ work[i].pc = "raised"
    /\ Returned(i)
    /\ Refusal(i)
    /\ UNCHANGED <<tables, signals, triggers, lost, limiterVars>>

\* Mutant: an event that could not be stored is counted as accepted.
CountFailure(i) ==
    /\ At(i, "normalize")
    /\ work[i].pc = "raised"
    /\ Returned(i)
    /\ handler' = [handler EXCEPT ![i].pc = "items", ![i].index = @ + 1,
                                  ![i].accepted = @ \cup {work[i].key}]
    /\ UNCHANGED <<connected, sender, faults, tables, signals, triggers, lost, limiterVars>>

\* An event that could not be stored is reported and the batch goes on; a ticket
\* is answered with 500.
CollectFailure(i) ==
    /\ At(i, "normalize")
    /\ work[i].pc = "raised"
    /\ Returned(i)
    /\ IF Req(i).route = "event"
       THEN /\ handler' = [handler EXCEPT ![i].pc = "items", ![i].index = @ + 1]
            /\ UNCHANGED <<connected, sender, faults>>
       ELSE Refusal(i)
    /\ UNCHANGED <<tables, signals, triggers, lost, limiterVars>>

-----------------------------------------------------------------------------
(* One regeneration for each account, and the answer.  The accounts come in the *)
(* order of the batch; any order is allowed here, since no call depends on it.  *)

OfAccount(i, a) == {k \in handler[i].affected : signals[k].account = a}

ScheduleBatch(i) ==
    /\ At(i, "items") /\ ~Remaining(i)
    /\ \E k \in handler[i].affected :
         LET same == OfAccount(i, signals[k].account) IN
         /\ handler' = [handler EXCEPT ![i].affected = @ \ same]
         /\ \/ Schedule(k) /\ UNCHANGED faults
            \/ Fault /\ ScheduleFails(same)
    /\ UNCHANGED <<connected, sender, work, limiterVars>>

Answer(i) ==
    /\ At(i, "items") /\ ~Remaining(i)
    /\ handler[i].affected = {}
    /\ Respond(i, "accepted", handler[i].accepted)
    /\ UNCHANGED <<connected, faults, normalizerVars, limiterVars>>

\* Signals whose regeneration this process has still to ask for.
OwedBy(i) == handler[i].affected \cup Owing(i)

\* The process dies: the sender hears nothing, and the next process in its place
\* starts with an empty window.
Die(i) ==
    /\ ~At(i, "idle")
    /\ Fault
    /\ Respond(i, "failed", {})
    /\ Returned(i)
    /\ ColdStart(i)
    /\ ScheduleFails(OwedBy(i))
    /\ UNCHANGED connected

NormalizerStep(i) ==
    /\ Normalize(i)
    /\ UNCHANGED <<pushVars, faults, limiterVars>>

NormalizerRaises(i) ==
    /\ Fault
    /\ Raise(i)
    /\ UNCHANGED <<pushVars, limiterVars>>

HandleRequest(i) ==
    \/ RejectKey(i) \/ RateLimited(i) \/ AdmitBatch(i)
    \/ RejectTicket(i) \/ IgnoreTicket(i) \/ AcceptTicket(i)
    \/ SkipInvalid(i) \/ NormalizeNext(i) \/ NormalizerStep(i)
    \/ Collect(i) \/ CollectFailure(i)
    \/ ScheduleBatch(i) \/ Answer(i)

PassTime == Tick /\ UNCHANGED <<pushVars, faults, normalizerVars>>

OpenAccount(a) == CreateAccount(a) /\ UNCHANGED <<pushVars, faults, limiterVars>>

-----------------------------------------------------------------------------

\* A sender that was told an item is accepted finds it stored, whatever happened
\* between the insert and the answer and however many posts were under way.
AcceptedIsStored ==
    \A r \in Requests : \A k \in sender[r].reported : signals[k].stored
=============================================================================
