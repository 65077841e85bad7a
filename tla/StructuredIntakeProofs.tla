----------------------- MODULE StructuredIntakeProofs -----------------------
(***************************************************************************)
(* Proofs about StructuredIntake, for any number of processes, polls,      *)
(* requests, notes and faults: types, the rate limiter within the whole,   *)
(* that every stored signal is triggered once and heard of by whoever owes *)
(* it, and that an accepted item is stored.                                *)
(***************************************************************************)
EXTENDS StructuredIntake, RateLimiterProofs

-----------------------------------------------------------------------------
(* Type correctness.  Whoever is at work knows its request or credential, and *)
(* stays inside its page.                                                     *)

CallOK(c) ==
    /\ c \in Call
    /\ c.step >= 1
    /\ c.pc # "none" => c.key \in SignalKeys
    /\ c.pc = "upsert" => c.step <= Len(Participants[c.key[1]])
    /\ c.pc \in {"lookup", "upsert"} => ~c.duplicate

NormalizerOK ==
    /\ accounts \subseteq Accounts
    /\ contact \in [Emails -> Contact]
    /\ signals \in [SignalKeys -> SignalRow]
    /\ triggers \in [SignalKeys -> Nat]
    /\ lost \subseteq SignalKeys
    /\ work \in [Workers -> Call]
    /\ \A w \in Workers : CallOK(work[w])

HandlerOK(h) ==
    /\ h.index >= 1
    /\ h.pc # "idle" => h.request \in Requests /\ h.post \in 1 .. MaxPosts

PushOK == PushTypeOK /\ \A i \in Instances : HandlerOK(handler[i])

RunOK(q) ==
    /\ q.pc \notin {"idle", "next"} => q.cred \in Credentials
    /\ q.pc \in {"note", "normalize", "schedule"} =>
         /\ q.note >= 1
         /\ q.upto <= Len(Notes[q.cred])
    /\ q.pc \in {"normalize", "schedule"} => q.note <= q.upto

PollsOK == PollTypeOK /\ \A p \in Polls : RunOK(poll[p])

TypeInv == NormalizerOK /\ faults \in Nat /\ PushOK /\ PollsOK

LEMMA KeyTypes ==
  /\ \A i \in Items : \A post \in 1 .. MaxPosts : Key(i, post) \in SignalKeys
  /\ \A k \in SignalKeys : k[1] \in Items /\ Participants[k[1]] \in Seq(Emails)
  /\ 1 \in 1 .. MaxPosts
<1>1. \A i \in Items : \A post \in 1 .. MaxPosts : Key(i, post) \in SignalKeys
  BY DEF SignalKeys
<1>2. ASSUME NEW k \in SignalKeys PROVE k[1] \in Items
  BY DEF SignalKeys, Key
<1>3. \A i \in Items : Participants[i] \in Seq(Emails)
  BY NormalizerAssumption
<1>4. 1 \in 1 .. MaxPosts
  BY NormalizerAssumption
<1> QED
  BY <1>1, <1>2, <1>3, <1>4

LEMMA NoCallOK == CallOK(NoCall)
BY DEF CallOK, NoCall, Call, Maybe, Methods

LEMMA CalledOK ==
  ASSUME NormalizerOK, NEW w \in Workers, NEW i \in Items, NEW post \in 1 .. MaxPosts,
         Called(w, i, post), UNCHANGED <<tables, signals, triggers, lost>>
  PROVE  NormalizerOK'
<1>0. Key(i, post) \in SignalKeys
  BY KeyTypes
<1> DEFINE c == [NoCall EXCEPT !.pc = "lookup", !.key = Key(i, post)]
<1>1. NoCall \in Call /\ NoCall.step = 1
  BY NoCallOK DEF CallOK, NoCall
<1>2. c \in Call
  BY <1>0, <1>1 DEF Call
<1>3. c.pc = "lookup" /\ c.key \in SignalKeys /\ c.step = 1 /\ ~c.duplicate
  BY <1>0, <1>1 DEF Call, NoCall
<1>4. CallOK(c)
  BY <1>2, <1>3 DEF CallOK
<1>5. work' = [work EXCEPT ![w] = c]
  BY DEF Called
<1> HIDE DEF c
<1> QED
  BY <1>4, <1>5 DEF NormalizerOK, tables, CallOK

LEMMA ReturnedOK ==
  ASSUME NormalizerOK, NEW w \in Workers, Returned(w), UNCHANGED <<tables, signals, triggers>>,
         lost' \subseteq SignalKeys
  PROVE  NormalizerOK'
BY NoCallOK DEF NormalizerOK, Returned, tables, CallOK

LEMMA OwingType ==
  ASSUME NormalizerOK, NEW w \in Workers
  PROVE  Owing(w) \subseteq SignalKeys
BY DEF NormalizerOK, CallOK, Owing, NewlyRouted

LEMMA ScheduleOK ==
  ASSUME NormalizerOK, NEW k \in SignalKeys, Schedule(k), UNCHANGED work
  PROVE  NormalizerOK'
<1>1. \A j \in SignalKeys : [signals[j] EXCEPT !.heard = TRUE] \in SignalRow
  BY DEF NormalizerOK, SignalRow
<1> QED
  BY <1>1 DEF NormalizerOK, Schedule, tables

LEMMA RaiseOK ==
  ASSUME NormalizerOK, NEW w \in Workers, Raise(w)
  PROVE  NormalizerOK'
<1>1. CallOK([work[w] EXCEPT !.pc = "raised"])
  BY DEF NormalizerOK, CallOK, Call, Raise
<1>2. work' = [work EXCEPT ![w] = [work[w] EXCEPT !.pc = "raised"]]
  BY DEF Raise
<1> QED
  BY <1>1, <1>2, OwingType DEF NormalizerOK, Raise, tables, CallOK

LEMMA NormalizeOK ==
  ASSUME NormalizerOK, NEW w \in Workers, Normalize(w)
  PROVE  NormalizerOK'
<1> DEFINE c == work[w]
<1>1. c \in Call /\ CallOK(c) /\ c.step \in Nat \ {0}
  BY DEF NormalizerOK, CallOK, Call
<1>2. ASSUME c.pc \in {"lookup", "upsert"}, NEW method \in Methods,
             NEW account \in Maybe(Accounts), Resolve(w, method, account)
      PROVE  work' \in [Workers -> Call] /\ \A v \in Workers : CallOK(work'[v])
  <2> DEFINE d == [c EXCEPT !.pc = "lookup", !.step = @ + 1, !.found = None,
                            !.method = method, !.account = IF @ = None THEN account ELSE @]
  <2>1. work' = [work EXCEPT ![w] = d]
    BY <1>2 DEF Resolve
  <2>2. /\ c.key \in SignalKeys /\ c.step + 1 \in Nat /\ c.step + 1 >= 1
        /\ (IF c.account = None THEN account ELSE c.account) \in Maybe(Accounts)
    BY <1>1, <1>2 DEF CallOK, Call
  <2>3. d \in Call
    BY <1>1, <1>2, <2>2 DEF Call, Maybe
  <2>4. CallOK(d)
    <3>1. d.pc = "lookup" /\ d.key = c.key /\ d.step = c.step + 1 /\ d.duplicate = c.duplicate
      BY <1>1 DEF Call
    <3>2. ~c.duplicate
      BY <1>1, <1>2 DEF CallOK
    <3> QED
      BY <2>2, <2>3, <3>1, <3>2 DEF CallOK
  <2> HIDE DEF d
  <2> QED
    BY <2>1, <2>3, <2>4 DEF NormalizerOK
<1>3. ASSUME c.pc = "lookup", c.step <= Len(EmailsOf(w))
      PROVE  Email(w) \in Emails
  BY <1>1, <1>3, KeyTypes DEF CallOK, EmailsOf, Email
<1>4. CASE FindContact(w)
  <2>1. contact[Email(w)].account \in Maybe(Accounts)
    BY <1>3, <1>4 DEF FindContact, NormalizerOK, Contact
  <2>2. "api_key_identity" \in Methods
    BY DEF Methods
  <2> QED
    BY <1>2, <1>4, <2>1, <2>2 DEF FindContact, NormalizerOK, tables
<1>5. CASE DiscoverAccount(w)
  <2> DEFINE owner == DomainOwner[Email(w)]
             d == [c EXCEPT !.pc = "upsert", !.found = IF owner \in accounts THEN owner ELSE None]
  <2>1. work' = [work EXCEPT ![w] = d]
    BY <1>5 DEF DiscoverAccount
  <2>2. d \in Call /\ CallOK(d)
    BY <1>1, <1>5 DEF CallOK, Call, Maybe, DiscoverAccount, NormalizerOK, EmailsOf
  <2> HIDE DEF d
  <2> QED
    BY <1>5, <2>1, <2>2 DEF DiscoverAccount, NormalizerOK, tables
<1>6. CASE UpsertNewContact(w)
  <2>1. c.found \in Maybe(Accounts) /\ c.method \in Methods
    BY <1>1 DEF Call
  <2>2. (IF c.method = "unmatched" THEN "auto_discovery" ELSE c.method) \in Methods
    BY <2>1 DEF Methods
  <2>3. contact' \in [Emails -> Contact]
    BY <1>6, <2>1 DEF UpsertNewContact, NormalizerOK, Contact, Maybe
  <2> QED
    BY <1>2, <1>6, <2>1, <2>2, <2>3 DEF UpsertNewContact, NormalizerOK, tables
<1>7. CASE InsertSignal(w)
  <2> DEFINE row == signals[c.key]
             new == [NoSignal EXCEPT !.stored = TRUE, !.account = c.account,
                                     !.method = c.method]
  <2>1. c.key \in SignalKeys /\ row \in SignalRow
    BY <1>1, <1>7 DEF CallOK, InsertSignal, NormalizerOK
  <2>2. new \in SignalRow
    BY <1>1 DEF Call, SignalRow, NoSignal
  <2>3. CASE row.stored
    <3> DEFINE d == [c EXCEPT !.pc = "stored", !.duplicate = TRUE, !.account = row.account]
    <3>1. work' = [work EXCEPT ![w] = d] /\ UNCHANGED signals
      BY <1>7, <2>3 DEF InsertSignal
    <3>2. d \in Call /\ CallOK(d)
      BY <1>1, <2>1 DEF CallOK, Call, SignalRow
    <3> HIDE DEF d
    <3> QED
      BY <1>7, <3>1, <3>2 DEF InsertSignal, NormalizerOK, tables
  <2>4. CASE ~row.stored
    <3> DEFINE d == [c EXCEPT !.pc = "stored"]
    <3>1. work' = [work EXCEPT ![w] = d] /\ signals' = [signals EXCEPT ![c.key] = new]
      BY <1>7, <2>4 DEF InsertSignal
    <3>2. d \in Call /\ CallOK(d)
      BY <1>1, <2>1 DEF CallOK, Call
    <3> HIDE DEF d, new
    <3> QED
      BY <1>7, <2>2, <3>1, <3>2 DEF InsertSignal, NormalizerOK, tables
  <2> QED
    BY <2>3, <2>4
<1> QED
  BY <1>4, <1>5, <1>6, <1>7 DEF Normalize

LEMMA TypeInit == Init => TypeInv
<1> SUFFICES ASSUME Init PROVE TypeInv
  OBVIOUS
<1> USE DEF Init
<1>1. NormalizerOK /\ faults \in Nat
  BY NoCallOK, NormalizerAssumption
     DEF NormalizerInit, NormalizerOK, CallOK, NoContact, Contact, NoSignal, SignalRow,
         Methods, Maybe
<1>2. PushOK
  <2>1. Idle \in Handler /\ HandlerOK(Idle)
    BY NormalizerAssumption DEF Idle, Handler, HandlerOK, Maybe
  <2>2. [state |-> "new", posts |-> 0, reported |-> {}] \in Sender
    BY NormalizerAssumption DEF Sender
  <2> QED
    BY <2>1, <2>2, PushAssumption DEF PushInit, PushOK, PushTypeOK
<1>3. PollsOK
  <2>1. NoPoll \in Poll /\ RunOK(NoPoll)
    BY DEF NoPoll, Poll, RunOK, Maybe
  <2>2. \A c \in Credentials : 0 <= Len(Notes[c])
    BY PollAssumption
  <2> QED
    BY <2>1, <2>2 DEF PollInit, PollsOK, PollTypeOK, Integration, Credential
<1> QED
  BY <1>1, <1>2, <1>3 DEF TypeInv

LEMMA FaultOK == ASSUME faults \in Nat, Fault PROVE faults' \in Nat
BY DEF Fault

LEMMA RespondOK ==
  ASSUME PushOK, NEW i \in Instances, ~At(i, "idle"), UNCHANGED connected,
         NEW state \in {"accepted", "dropped", "failed"}, NEW reported \in SUBSET SignalKeys,
         Respond(i, state, reported)
  PROVE  PushOK'
<1> DEFINE r == handler[i].request
<1>1. r \in Requests
  BY DEF PushOK, HandlerOK, At
<1>2. Idle \in Handler /\ HandlerOK(Idle)
  BY NormalizerAssumption DEF Idle, Handler, HandlerOK, Maybe
<1>3. sender' \in [Requests -> Sender]
  <2>1. [sender[r] EXCEPT !.state = state, !.reported = reported] \in Sender
    BY <1>1 DEF PushOK, PushTypeOK, Sender
  <2>2. [sender EXCEPT ![r].state = state, ![r].reported = reported]
          = [sender EXCEPT ![r] = [sender[r] EXCEPT !.state = state, !.reported = reported]]
    BY <1>1 DEF PushOK, PushTypeOK
  <2> QED
    BY <1>1, <2>1, <2>2 DEF Respond, PushOK, PushTypeOK
<1> QED
  BY <1>2, <1>3 DEF Respond, PushOK, PushTypeOK, HandlerOK

\* A handler that goes on keeps its request.
LEMMA HandlerGoesOn ==
  ASSUME PushOK, NEW i \in Instances, NEW h \in Handler, HandlerOK(h),
         handler' = [handler EXCEPT ![i] = h], UNCHANGED <<connected, sender>>
  PROVE  PushOK'
BY DEF PushOK, PushTypeOK, HandlerOK

LEMMA GotoOK ==
  ASSUME PushOK, NEW i \in Instances, NEW pc \in {"check", "items", "normalize"}, ~At(i, "idle"),
         Goto(i, pc), UNCHANGED <<connected, sender>>
  PROVE  PushOK'
<1>1. [handler[i] EXCEPT !.pc = pc] \in Handler /\ HandlerOK([handler[i] EXCEPT !.pc = pc])
  BY DEF PushOK, PushTypeOK, HandlerOK, Handler, At
<1> QED
  BY <1>1, HandlerGoesOn DEF Goto

LEMMA ItemsOfRequest ==
  ASSUME PushOK, NEW i \in Instances, ~At(i, "idle")
  PROVE  /\ Req(i).items \in Seq(Items)
         /\ handler[i].index \in Nat \ {0}
         /\ handler[i].post \in 1 .. MaxPosts
         /\ Remaining(i) => Item(i) \in Items
<1>1. handler[i].request \in Requests /\ handler[i].index \in Nat \ {0}
      /\ handler[i].post \in 1 .. MaxPosts
  BY DEF PushOK, PushTypeOK, HandlerOK, Handler, At
<1>2. Req(i).items \in Seq(Items)
  BY <1>1, PushAssumption DEF Req
<1> QED
  BY <1>1, <1>2 DEF Remaining, Item

LEMMA SenderType ==
  ASSUME PushOK, NEW i \in Instances, NEW r \in Requests, Post(r, i)
  PROVE  PushOK'
<1>1. Request[r].posts \in 0 .. MaxPosts /\ MaxPosts \in Nat
  BY PushAssumption, NormalizerAssumption
<1>2. sender[r] \in Sender /\ sender[r].posts \in Nat
  BY DEF PushOK, PushTypeOK, Sender
<1>3. sender[r].posts + 1 \in 1 .. MaxPosts
  BY <1>1, <1>2 DEF Post
<1>4. [sender[r] EXCEPT !.state = "waiting", !.posts = @ + 1] \in Sender
  <2>1. sender[r].posts + 1 \in 0 .. MaxPosts
    BY <1>1, <1>3
  <2> QED
    BY <1>2, <2>1 DEF Sender
<1> DEFINE h == [handler[i] EXCEPT !.pc = "check", !.request = r, !.post = sender[r].posts + 1]
<1>5. h \in Handler /\ HandlerOK(h)
  <2>1. handler[i] \in Handler /\ handler[i].index >= 1
    BY DEF PushOK, PushTypeOK, HandlerOK
  <2>2. sender[r].posts + 1 \in 0 .. MaxPosts
    BY <1>1, <1>3
  <2>3. h \in Handler
    BY <2>1, <2>2 DEF Handler, Maybe
  <2>4. h.index >= 1 /\ h.request = r /\ h.post = sender[r].posts + 1
    BY <2>1 DEF Handler
  <2> QED
    BY <1>3, <2>3, <2>4 DEF HandlerOK
<1>6. /\ handler' = [handler EXCEPT ![i] = h]
      /\ sender' = [sender EXCEPT ![r] = [sender[r] EXCEPT !.state = "waiting", !.posts = @ + 1]]
  BY DEF Post
<1> HIDE DEF h
<1>7. sender' \in [Requests -> Sender]
  BY <1>4, <1>6 DEF PushOK, PushTypeOK
<1>8. handler' \in [Instances -> Handler] /\ \A j \in Instances : HandlerOK(handler'[j])
  BY <1>5, <1>6 DEF PushOK, PushTypeOK
<1>9. connected' = connected
  BY DEF Post
<1> QED
  BY <1>7, <1>8, <1>9 DEF PushOK, PushTypeOK, HandlerOK

LEMMA SetAsideType ==
  ASSUME NormalizerOK, PushOK, NEW i \in Instances
  PROVE  OwedBy(i) \subseteq SignalKeys
BY OwingType, PushAssumption DEF OwedBy, PushOK, PushTypeOK, Handler

LEMMA PushKeepsTypes ==
  ASSUME TypeInv, Push
  PROVE  TypeInv'
<1> USE DEF TypeInv
<1>0. PollsOK'
  BY DEF Push, pollVars, PollsOK, PollTypeOK
<1> SUFFICES NormalizerOK' /\ faults' \in Nat /\ PushOK'
  BY <1>0
<1>i. Instances \subseteq Workers
  BY PushAssumption
<1>n. ASSUME UNCHANGED normalizerVars PROVE NormalizerOK'
  BY <1>n DEF normalizerVars, NormalizerOK
<1>p. ASSUME UNCHANGED pushVars PROVE PushOK'
  BY <1>p DEF pushVars, PushOK, PushTypeOK
<1>f. ASSUME NEW i \in Instances, Refusal(i) \/ Shrug(i), ~At(i, "idle")
      PROVE  PushOK' /\ faults' \in Nat
  BY <1>f, RespondOK DEF Refusal, Shrug
<1>1. ASSUME NEW r \in Requests, TimeOut(r) PROVE NormalizerOK' /\ faults' \in Nat /\ PushOK'
  <2>1. [sender[r] EXCEPT !.state = "failed"] \in Sender
    BY DEF PushOK, PushTypeOK, Sender
  <2>2. PushOK'
    BY <1>1, <2>1 DEF TimeOut, PushOK, PushTypeOK
  <2> QED
    BY <1>1, <1>n, <2>2, FaultOK DEF TimeOut
<1>2. ASSUME NEW r \in Requests, NEW i \in Instances, Post(r, i)
      PROVE  NormalizerOK' /\ faults' \in Nat /\ PushOK'
  BY <1>2, <1>n, SenderType DEF Post
<1>3. ASSUME NEW i \in Instances, HandleRequest(i)
      PROVE  NormalizerOK' /\ faults' \in Nat /\ PushOK'
  <2>1. CASE RejectKey(i)
    BY <2>1, <1>n, <1>f DEF RejectKey, At
  <2>2. CASE RateLimited(i)
    BY <2>2, <1>n, <1>f DEF RateLimited, AcceptsKey, At
  <2>3. CASE AdmitBatch(i)
    BY <2>3, <1>n, <1>f, GotoOK DEF AdmitBatch, AcceptsKey, At
  <2>4. CASE RejectTicket(i)
    BY <2>4, <1>n, <1>f DEF RejectTicket, At
  <2>5. CASE IgnoreTicket(i)
    BY <2>5, <1>n, <1>f DEF IgnoreTicket, At
  <2>6. CASE AcceptTicket(i)
    BY <2>6, <1>n, GotoOK DEF AcceptTicket, At
  <2>7. CASE SkipInvalid(i)
    <3> DEFINE h == [handler[i] EXCEPT !.index = @ + 1]
    <3>1. h \in Handler /\ HandlerOK(h)
      BY DEF PushOK, PushTypeOK, Handler, HandlerOK
    <3> QED
      BY <2>7, <1>n, <3>1, HandlerGoesOn DEF SkipInvalid
  <2>8. CASE NormalizeNext(i)
    <3>1. ~At(i, "idle")
      BY <2>8 DEF NormalizeNext, At
    <3>2. NormalizerOK'
      BY <2>8, <1>i, <3>1, CalledOK, ItemsOfRequest DEF NormalizeNext, tables
    <3> QED
      BY <2>8, <3>1, <3>2, GotoOK DEF NormalizeNext
  <2>9. CASE NormalizerStep(i)
    BY <2>9, <1>i, <1>p, NormalizeOK DEF NormalizerStep
  <2>10. CASE Collect(i)
    <3> DEFINE h == [handler[i] EXCEPT !.pc = "items", !.index = @ + 1,
                       !.accepted = @ \cup {work[i].key},
                       !.affected = IF NewlyRouted(i) THEN @ \cup {work[i].key} ELSE @]
    <3>1. work[i].key \in SignalKeys
      BY <2>10, <1>i DEF Collect, NormalizerOK, CallOK
    <3>2. h \in Handler /\ HandlerOK(h)
      BY <2>10, <3>1 DEF Collect, At, PushOK, PushTypeOK, Handler, HandlerOK
    <3>3. handler' = [handler EXCEPT ![i] = h]
      BY <2>10 DEF Collect
    <3> HIDE DEF h
    <3>4. PushOK'
      BY <2>10, <3>2, <3>3, HandlerGoesOn DEF Collect
    <3> QED
      BY <2>10, <1>i, <3>4, ReturnedOK DEF Collect, NormalizerOK
  <2>11. CASE CollectFailure(i)
    <3>1. NormalizerOK'
      BY <2>11, <1>i, ReturnedOK DEF CollectFailure, NormalizerOK
    <3> DEFINE h == [handler[i] EXCEPT !.pc = "items", !.index = @ + 1]
    <3>2. h \in Handler /\ HandlerOK(h)
      <4>1. handler[i].pc = "normalize"
        BY <2>11 DEF CollectFailure, At
      <4>2. handler[i] \in Handler /\ HandlerOK(handler[i]) /\ handler[i].index + 1 \in Nat \ {0}
        BY DEF PushOK, PushTypeOK, Handler
      <4>3. h \in Handler
        BY <4>2 DEF Handler
      <4> QED
        BY <4>1, <4>2, <4>3 DEF HandlerOK, Handler
    <3>3. CASE Req(i).route = "event"
      <4>1. handler' = [handler EXCEPT ![i] = h] /\ UNCHANGED <<connected, sender, faults>>
        BY <2>11, <3>3 DEF CollectFailure
      <4> HIDE DEF h
      <4> QED
        BY <3>1, <3>2, <4>1, HandlerGoesOn
    <3>4. CASE Req(i).route # "event"
      BY <2>11, <3>1, <3>4, <1>f DEF CollectFailure, At
    <3> QED
      BY <3>3, <3>4
  <2>12. CASE ScheduleBatch(i)
    <3>1. PICK k \in handler[i].affected :
            LET same == OfAccount(i, signals[k].account) IN
            /\ handler' = [handler EXCEPT ![i].affected = @ \ same]
            /\ \/ Schedule(k) /\ UNCHANGED faults
               \/ Fault /\ ScheduleFails(same)
      BY <2>12 DEF ScheduleBatch
    <3> DEFINE same == OfAccount(i, signals[k].account)
               h == [handler[i] EXCEPT !.affected = @ \ same]
    <3>2. handler[i].affected \subseteq SignalKeys /\ same \subseteq SignalKeys
      BY DEF PushOK, PushTypeOK, Handler, OfAccount
    <3>3. h \in Handler /\ HandlerOK(h)
      BY DEF PushOK, PushTypeOK, Handler, HandlerOK
    <3>4. handler' = [handler EXCEPT ![i] = h]
      BY <3>1
    <3> HIDE DEF h
    <3>5. PushOK'
      BY <2>12, <3>3, <3>4, HandlerGoesOn DEF ScheduleBatch
    <3>6. CASE Schedule(k) /\ UNCHANGED faults
      BY <2>12, <3>2, <3>5, <3>6, ScheduleOK DEF ScheduleBatch
    <3>7. CASE Fault /\ ScheduleFails(same)
      <4>1. NormalizerOK'
        BY <2>12, <3>2, <3>7 DEF ScheduleBatch, ScheduleFails, NormalizerOK, tables
      <4> QED
        BY <3>5, <3>7, <4>1, FaultOK
    <3> QED
      BY <3>1, <3>6, <3>7
  <2>13. CASE Answer(i)
    <3>1. ~At(i, "idle") /\ handler[i].accepted \in SUBSET SignalKeys
      BY <2>13 DEF Answer, At, PushOK, PushTypeOK, Handler
    <3> QED
      BY <2>13, <3>1, <1>n, RespondOK DEF Answer
  <2> QED
    BY <1>3, <2>1, <2>2, <2>3, <2>4, <2>5, <2>6, <2>7, <2>8, <2>9, <2>10, <2>11, <2>12, <2>13
       DEF HandleRequest
<1>4. ASSUME NEW i \in Instances, NormalizerRaises(i)
      PROVE  NormalizerOK' /\ faults' \in Nat /\ PushOK'
  BY <1>4, <1>i, <1>p, RaiseOK, FaultOK DEF NormalizerRaises
<1>5. ASSUME NEW i \in Instances, Die(i) PROVE NormalizerOK' /\ faults' \in Nat /\ PushOK'
  <2>1. PushOK' /\ faults' \in Nat
    BY <1>5, RespondOK, FaultOK DEF Die
  <2>2. NormalizerOK'
    BY <1>5, <1>i, ReturnedOK, SetAsideType DEF Die, ScheduleFails, NormalizerOK
  <2> QED
    BY <2>1, <2>2
<1>6. ASSUME NEW route \in connected, Disconnect(route)
      PROVE  NormalizerOK' /\ faults' \in Nat /\ PushOK'
  BY <1>6, <1>n DEF Disconnect, PushOK, PushTypeOK
<1>7. ASSUME NEW a \in Accounts, OpenAccount(a)
      PROVE  NormalizerOK' /\ faults' \in Nat /\ PushOK'
  BY <1>7, <1>p DEF OpenAccount, CreateAccount, NormalizerOK
<1>8. CASE PassTime
  BY <1>8, <1>p, <1>n DEF PassTime
<1> QED
  BY <1>1, <1>2, <1>3, <1>4, <1>5, <1>6, <1>7, <1>8 DEF Push

\* A run that goes on keeps its place; the rows may change.
LEMMA RunGoesOn ==
  ASSUME PollsOK, NEW p \in Polls, NEW q \in Poll, RunOK(q), poll' = [poll EXCEPT ![p] = q],
         UNCHANGED published,
         integration' \in [Credentials -> Integration],
         credential' \in [Credentials -> Credential],
         failures' \in [Credentials -> Nat]
  PROVE  PollsOK'
<1>1. poll' \in [Polls -> Poll] /\ \A r \in Polls : RunOK(poll'[r])
  BY DEF PollsOK, PollTypeOK
<1> QED
  BY <1>1 DEF PollsOK, PollTypeOK, RunOK

LEMMA RunType ==
  ASSUME PollsOK, NEW p \in Polls
  PROVE  poll[p] \in Poll /\ RunOK(poll[p])
BY DEF PollsOK, PollTypeOK

LEMMA RunTypes ==
  ASSUME PollsOK, NEW p \in Polls
  PROVE  /\ poll[p] \in Poll /\ RunOK(poll[p])
         /\ \A pc \in {"success", "clear", "mark", "count", "record", "deactivate"} :
              poll[p].pc \notin {"idle", "next"}
                => [poll[p] EXCEPT !.pc = pc] \in Poll /\ RunOK([poll[p] EXCEPT !.pc = pc])
<1>1. poll[p] \in Poll /\ RunOK(poll[p])
  BY DEF PollsOK, PollTypeOK
<1>2. ASSUME NEW pc \in {"success", "clear", "mark", "count", "record", "deactivate"},
             poll[p].pc \notin {"idle", "next"}
      PROVE  [poll[p] EXCEPT !.pc = pc] \in Poll /\ RunOK([poll[p] EXCEPT !.pc = pc])
  BY <1>1, <1>2 DEF Poll, RunOK
<1> QED
  BY <1>1, <1>2

LEMMA LeaveType ==
  ASSUME PollsOK, NEW p \in Polls
  PROVE  /\ NoPoll \in Poll /\ RunOK(NoPoll)
         /\ [NoPoll EXCEPT !.pc = "next", !.todo = poll[p].todo] \in Poll
         /\ RunOK([NoPoll EXCEPT !.pc = "next", !.todo = poll[p].todo])
<1>1. poll[p].todo \subseteq Credentials
  BY DEF PollsOK, PollTypeOK, Poll
<1> QED
  BY <1>1 DEF NoPoll, Poll, RunOK, Maybe

LEMMA ExceptType ==
  ASSUME PollsOK, NEW p \in Polls, poll[p].pc \notin {"idle", "next"},
         NEW kind \in {"rate", "auth", "other"}, Except(p, kind), UNCHANGED <<published, rows>>
  PROVE  PollsOK'
<1> DEFINE q == [poll[p] EXCEPT !.kind = kind, !.pc = IF kind = "auth" THEN "mark" ELSE "count"]
<1>1. q \in Poll /\ RunOK(q)
  <2>1. q \in Poll
    BY RunType DEF Poll
  <2>2. RunOK(q)
    BY RunType DEF Poll, RunOK
  <2> QED
    BY <2>1, <2>2
<1>2. poll' = [poll EXCEPT ![p] = q]
  BY DEF Except
<1> HIDE DEF q
<1> QED
  BY <1>1, <1>2, RunGoesOn DEF rows, PollsOK, PollTypeOK

\* The note a run works on is one of the list, and its key does not depend on the post.
LEMMA NoteFacts ==
  ASSUME PollsOK, NEW p \in Polls, poll[p].pc \in {"note", "normalize", "schedule"}, InPage(p)
  PROVE  /\ Note(p) \in Items \ Keyless
         /\ NoteKey(p) = <<Note(p), 0>>
         /\ NoteKey(p) \in SignalKeys
<1> DEFINE c == poll[p].cred
<1>1. c \in Credentials /\ poll[p].note >= 1 /\ poll[p].upto <= Len(Notes[c])
      /\ poll[p].note \in Nat /\ poll[p].upto \in Nat
  BY RunTypes DEF RunOK, Poll
<1>2. Notes[c] \in Seq(Items \ Keyless)
  BY <1>1, PollAssumption
<1>3. poll[p].note \in 1 .. Len(Notes[c])
  BY <1>1, <1>2 DEF InPage
<1>4. Note(p) \in Items \ Keyless
  BY <1>2, <1>3 DEF Note
<1>5. NoteKey(p) = <<Note(p), 0>>
  BY <1>4 DEF NoteKey, Key
<1>6. Key(Note(p), 1) \in SignalKeys
  BY <1>4, KeyTypes
<1> QED
  BY <1>4, <1>5, <1>6 DEF NoteKey

LEMMA PollOwesType ==
  ASSUME NormalizerOK, PollsOK, NEW p \in Polls
  PROVE  PollOwes(p) \subseteq SignalKeys
<1>1. p \in Workers
  BY PollAssumption
<1>2. On(p, "schedule") => InPage(p)
  BY RunTypes DEF RunOK, On, InPage
<1> QED
  BY <1>1, <1>2, OwingType, NoteFacts DEF PollOwes, On

LEMMA PullKeepsTypes ==
  ASSUME TypeInv, Pull
  PROVE  TypeInv'
<1> USE DEF TypeInv
<1>0. PushOK'
  BY DEF Pull, pushVars, PushOK, PushTypeOK
<1> SUFFICES NormalizerOK' /\ faults' \in Nat /\ PollsOK'
  BY <1>0
<1>w. Polls \subseteq Workers
  BY PollAssumption
<1>n. ASSUME UNCHANGED normalizerVars PROVE NormalizerOK'
  BY <1>n DEF normalizerVars, NormalizerOK
<1>p. ASSUME UNCHANGED pollVars PROVE PollsOK'
  BY <1>p DEF pollVars, PollsOK, PollTypeOK
<1>r. /\ integration \in [Credentials -> Integration]
      /\ credential \in [Credentials -> Credential]
      /\ failures \in [Credentials -> Nat]
  BY DEF PollsOK, PollTypeOK
<1>g. ASSUME NEW p \in Polls, NEW q \in Poll, RunOK(q), poll' = [poll EXCEPT ![p] = q],
             UNCHANGED <<published, rows>>
      PROVE  PollsOK'
  BY <1>g, <1>r, RunGoesOn DEF rows
<1>1. ASSUME NEW c \in Credentials, Publish(c)
      PROVE  NormalizerOK' /\ faults' \in Nat /\ PollsOK'
  <2>1. published' \in [Credentials -> Nat]
        /\ \A d \in Credentials : published'[d] <= Len(Notes[d])
    <3>1. Len(Notes[c]) \in Nat /\ published[c] \in Nat
      BY PollAssumption DEF PollsOK, PollTypeOK
    <3> QED
      BY <1>1, <3>1 DEF Publish, PollsOK, PollTypeOK
  <2> QED
    BY <1>1, <1>n, <2>1 DEF Publish, rows, PollsOK, PollTypeOK
<1>2. ASSUME NEW p \in Polls, BeginRun(p)
      PROVE  NormalizerOK' /\ faults' \in Nat /\ PollsOK'
  <2> DEFINE q == [poll[p] EXCEPT !.pc = "next",
                                  !.todo = {c \in Credentials : credential[c].active}]
  <2>1. q \in Poll /\ RunOK(q)
    <3>1. q \in Poll
      BY RunType DEF Poll
    <3>2. RunOK(q)
      BY RunType DEF Poll, RunOK
    <3> QED
      BY <3>1, <3>2
  <2>2. poll' = [poll EXCEPT ![p] = q]
    BY <1>2 DEF BeginRun
  <2> HIDE DEF q
  <2> QED
    BY <1>2, <1>n, <1>g, <2>1, <2>2 DEF BeginRun, rest
<1>3. ASSUME NEW p \in Polls, RunPoll(p)
      PROVE  NormalizerOK' /\ faults' \in Nat /\ PollsOK'
  <2> DEFINE c == poll[p].cred
             Row == integration[c]
  <2>t. ASSUME NEW d \in Credentials, NEW integration2 \in [Credentials -> Integration],
               poll[p].pc \in {"next", "create"}
        PROVE  LET q == [poll[p] EXCEPT !.pc = "fetch", !.cred = d, !.todo = @ \ {d},
                                        !.base = integration2[d].errors,
                                        !.after = integration2[d].cursor]
               IN  q \in Poll /\ RunOK(q)
    <3> DEFINE q == [poll[p] EXCEPT !.pc = "fetch", !.cred = d, !.todo = @ \ {d},
                                    !.base = integration2[d].errors,
                                    !.after = integration2[d].cursor]
    <3>1. integration2[d].errors \in Nat /\ integration2[d].cursor \in Nat
      BY DEF Integration
    <3>2. q \in Poll
      BY <3>1, RunType DEF Poll, Maybe
    <3>3. q.pc = "fetch" /\ q.cred = d
      BY RunType DEF Poll
    <3> QED
      BY <3>2, <3>3 DEF RunOK
  <2>1. CASE EndRun(p)
    BY <2>1, <1>n, <1>g, LeaveType DEF EndRun, rest
  <2>2. CASE NextCredential(p)
    <3>1. PICK d \in poll[p].todo :
            IF integration[d].exists THEN Take(p, d)
            ELSE poll' = [poll EXCEPT ![p].pc = "create", ![p].cred = d]
      BY <2>2 DEF NextCredential
    <3>2. d \in Credentials /\ poll[p].pc = "next"
      BY <2>2, RunTypes DEF Poll, NextCredential, On
    <3>3. CASE integration[d].exists
      <4> DEFINE q == [poll[p] EXCEPT !.pc = "fetch", !.cred = d, !.todo = @ \ {d},
                                      !.base = integration[d].errors,
                                      !.after = integration[d].cursor]
      <4>1. q \in Poll /\ RunOK(q)
        BY <2>t, <1>r, <3>2
      <4>2. poll' = [poll EXCEPT ![p] = q]
        BY <3>1, <3>3 DEF Take
      <4> HIDE DEF q
      <4> QED
        BY <2>2, <1>n, <1>g, <4>1, <4>2 DEF NextCredential, rest
    <3>4. CASE ~integration[d].exists
      <4> DEFINE q == [poll[p] EXCEPT !.pc = "create", !.cred = d]
      <4>1. q \in Poll /\ RunOK(q)
        <5>1. q \in Poll
          BY <3>2, RunType DEF Poll, Maybe
        <5>2. RunOK(q)
          BY <3>2, RunType DEF Poll, RunOK, Maybe
        <5> QED
          BY <5>1, <5>2
      <4>2. poll' = [poll EXCEPT ![p] = q]
        BY <3>1, <3>4
      <4> HIDE DEF q
      <4> QED
        BY <2>2, <1>n, <1>g, <4>1, <4>2 DEF NextCredential, rest
    <3> QED
      BY <3>3, <3>4
  <2>3. CASE CreateState(p)
    <3>1. c \in Credentials /\ poll[p].pc = "create"
      BY <2>3, RunTypes DEF CreateState, On, RunOK
    <3>2. CASE Row.exists
      BY <2>3, <1>n, <1>g, <3>2, LeaveType DEF CreateState, rest, rows
    <3>3. CASE ~Row.exists
      <4>1. integration' \in [Credentials -> Integration]
        BY <2>3, <1>r, <3>1, <3>3 DEF CreateState, Integration
      <4> DEFINE q == [poll[p] EXCEPT !.pc = "fetch", !.cred = c, !.todo = @ \ {c},
                                      !.base = integration[c].errors,
                                      !.after = integration[c].cursor]
      <4>2. q \in Poll /\ RunOK(q)
        BY <2>t, <1>r, <3>1
      <4>3. poll' = [poll EXCEPT ![p] = q]
        BY <2>3, <3>3 DEF CreateState, Take
      <4> HIDE DEF q
      <4> QED
        BY <2>3, <1>n, <1>r, <4>1, <4>2, <4>3, RunGoesOn DEF CreateState, rest
    <3> QED
      BY <3>2, <3>3
  <2>4. CASE FetchPage(p)
    <3>1. c \in Credentials /\ poll[p].pc = "fetch"
      BY <2>4, RunTypes DEF FetchPage, On, RunOK
    <3> DEFINE n == published[c] - poll[p].after
               upto == IF n > PageSize THEN poll[p].after + PageSize ELSE published[c]
    <3>2. /\ poll[p].after \in Nat /\ published[c] \in Nat /\ PageSize \in Nat
          /\ published[c] <= Len(Notes[c]) /\ Len(Notes[c]) \in Nat
      <4>1. poll[p].after \in Nat
        BY RunType DEF Poll
      <4>2. PageSize \in Nat /\ Len(Notes[c]) \in Nat
        BY <3>1, PollAssumption
      <4> QED
        BY <3>1, <4>1, <4>2 DEF PollsOK, PollTypeOK
    <3>3. CASE n = 0
      <4>1. poll' = [poll EXCEPT ![p] = [poll[p] EXCEPT !.pc = "success"]]
        BY <2>4, <3>3 DEF FetchPage, Step
      <4> QED
        BY <2>4, <1>n, <1>g, <3>1, <4>1, RunTypes DEF FetchPage, rest
    <3>4. CASE n # 0
      <4> DEFINE q == [poll[p] EXCEPT !.pc = "note", !.note = poll[p].after + 1,
                                      !.upto = upto, !.more = upto < published[c]]
      <4>1. upto \in Nat /\ upto <= Len(Notes[c]) /\ poll[p].after + 1 \in Nat \ {0}
        BY <3>2
      <4>2. (upto < published[c]) \in BOOLEAN
        OBVIOUS
      <4>3. poll' = [poll EXCEPT ![p] = q]
        BY <2>4, <3>4 DEF FetchPage
      <4> HIDE DEF upto
      <4>4. q \in Poll
        BY <4>1, <4>2, RunType DEF Poll
      <4>5. q.pc = "note" /\ q.note >= 1 /\ q.upto = upto /\ q.cred = c
        BY <4>1, RunTypes DEF Poll
      <4>6. RunOK(q)
        BY <3>1, <4>1, <4>5 DEF RunOK
      <4> HIDE DEF q
      <4> QED
        BY <2>4, <1>n, <1>g, <4>3, <4>4, <4>6 DEF FetchPage, rest
    <3> QED
      BY <3>3, <3>4
  <2>n. ASSUME poll[p].pc \in {"note", "normalize", "schedule"}, InPage(p)
        PROVE  [poll[p] EXCEPT !.pc = "note", !.note = @ + 1] \in Poll
               /\ RunOK([poll[p] EXCEPT !.pc = "note", !.note = @ + 1])
    <3> DEFINE q == [poll[p] EXCEPT !.pc = "note", !.note = @ + 1]
    <3>1. poll[p] \in Poll /\ poll[p].note + 1 \in Nat
      BY RunType DEF Poll
    <3>2. q \in Poll
      BY <3>1 DEF Poll
    <3>3. /\ q.pc = "note" /\ q.note = poll[p].note + 1
          /\ q.upto = poll[p].upto /\ q.cred = poll[p].cred
      BY <3>1 DEF Poll
    <3>4. poll[p].note \in Nat
      BY <3>1 DEF Poll
    <3> QED
      BY <2>n, <3>2, <3>3, <3>4, RunType DEF RunOK
  <2>i. poll[p].pc \in {"normalize", "schedule"} => InPage(p)
    BY RunTypes DEF RunOK, InPage
  <2>s. ASSUME NEW pc \in {"normalize", "schedule"}, poll[p].pc \in {"note", "normalize"}, InPage(p)
        PROVE  [poll[p] EXCEPT !.pc = pc] \in Poll /\ RunOK([poll[p] EXCEPT !.pc = pc])
    <3> DEFINE q == [poll[p] EXCEPT !.pc = pc]
    <3>1. poll[p] \in Poll
      BY RunType
    <3>2. q \in Poll
      BY <3>1 DEF Poll
    <3>3. /\ q.pc = pc /\ q.note = poll[p].note
          /\ q.upto = poll[p].upto /\ q.cred = poll[p].cred
      BY <3>1 DEF Poll
    <3> QED
      BY <2>s, <3>2, <3>3, RunType DEF RunOK, InPage
  <2>5. CASE ParseNote(p)
    <3>1. poll[p].pc = "note" /\ InPage(p) /\ UNCHANGED <<rows, faults, published>>
      BY <2>5 DEF ParseNote, On
    <3>2. CASE Note(p) \in Blank
      <4>1. poll' = [poll EXCEPT ![p] = [poll[p] EXCEPT !.pc = "note", !.note = @ + 1]]
        <5>1. poll' = [poll EXCEPT ![p].note = @ + 1]
          BY <2>5, <3>2 DEF ParseNote
        <5>2. [poll[p] EXCEPT !.note = @ + 1] = [poll[p] EXCEPT !.pc = "note", !.note = @ + 1]
          BY <3>1, RunType DEF Poll
        <5> QED
          BY <5>1, <5>2
      <4>2. UNCHANGED normalizerVars
        BY <2>5, <3>2 DEF ParseNote, normalizerVars, tables
      <4> QED
        BY <1>n, <1>g, <2>n, <3>1, <4>1, <4>2
    <3>3. CASE Note(p) \in Unparsable \ Blank
      <4>1. Except(p, "other") /\ UNCHANGED normalizerVars
        BY <2>5, <3>3 DEF ParseNote, normalizerVars, tables
      <4> QED
        BY <1>n, <3>1, <4>1, ExceptType
    <3>4. CASE Note(p) \notin Unparsable /\ Note(p) \notin Blank
      <4>1. /\ Step(p, "normalize") /\ Called(p, Note(p), 1)
            /\ UNCHANGED <<tables, signals, triggers, lost>>
        BY <2>5, <3>4 DEF ParseNote
      <4>2. NormalizerOK'
        BY <1>w, <3>1, <4>1, CalledOK, NoteFacts, KeyTypes DEF tables
      <4>3. PollsOK'
        BY <1>g, <2>s, <3>1, <4>1 DEF Step
      <4> QED
        BY <3>1, <4>2, <4>3
    <3> QED
      BY <3>2, <3>3, <3>4
  <2>6. CASE NormalizeNote(p)
    BY <2>6, <1>w, <1>p, NormalizeOK DEF NormalizeNote
  <2>7. CASE CollectNote(p)
    <3>1. poll[p].pc = "normalize" /\ InPage(p) /\ UNCHANGED <<rows, faults, published>>
      BY <2>7, <2>i DEF CollectNote, On
    <3>2. NormalizerOK'
      BY <2>7, <1>w, ReturnedOK DEF CollectNote, NormalizerOK
    <3>3. CASE Except(p, "other")
      BY <3>1, <3>2, <3>3, ExceptType
    <3>4. CASE Step(p, "schedule")
      BY <1>g, <2>s, <3>1, <3>2, <3>4 DEF Step
    <3>5. CASE poll' = [poll EXCEPT ![p].pc = "note", ![p].note = @ + 1]
      BY <1>g, <2>n, <3>1, <3>2, <3>5
    <3> QED
      BY <2>7, <3>3, <3>4, <3>5 DEF CollectNote
  <2>8. CASE ScheduleNote(p)
    <3>1. poll[p].pc = "schedule" /\ InPage(p) /\ UNCHANGED <<rows, published, work>>
          /\ poll' = [poll EXCEPT ![p].pc = "note", ![p].note = @ + 1]
      BY <2>8, <2>i DEF ScheduleNote, On
    <3>2. PollsOK'
      BY <1>g, <2>n, <3>1
    <3>3. NoteKey(p) \in SignalKeys
      BY <3>1, NoteFacts
    <3>4. CASE Schedule(NoteKey(p)) /\ UNCHANGED faults
      BY <3>1, <3>2, <3>3, <3>4, ScheduleOK
    <3>5. CASE Fault /\ ScheduleFails({NoteKey(p)})
      <4>1. NormalizerOK'
        BY <3>1, <3>3, <3>5 DEF ScheduleFails, NormalizerOK, tables
      <4> QED
        BY <3>2, <3>5, <4>1, FaultOK
    <3> QED
      BY <2>8, <3>4, <3>5 DEF ScheduleNote
  <2>9. CASE AdvanceCursor(p)
    <3>1. poll[p].pc = "note" /\ c \in Credentials /\ poll[p].upto \in Nat
      BY <2>9, RunTypes DEF AdvanceCursor, On, RunOK, Poll
    <3>2. integration' \in [Credentials -> Integration]
      BY <2>9, <1>r, <3>1 DEF AdvanceCursor, Integration
    <3> DEFINE q == [poll[p] EXCEPT !.after = poll[p].upto,
                                    !.pc = IF poll[p].more THEN "fetch" ELSE "success"]
    <3>3. q \in Poll /\ RunOK(q)
      <4>1. q \in Poll
        BY <3>1, RunType DEF Poll
      <4>2. RunOK(q)
        BY <3>1, RunType DEF Poll, RunOK
      <4> QED
        BY <4>1, <4>2
    <3>4. poll' = [poll EXCEPT ![p] = q]
      BY <2>9 DEF AdvanceCursor
    <3> HIDE DEF q
    <3> QED
      BY <2>9, <1>n, <1>r, <3>2, <3>3, <3>4, RunGoesOn DEF AdvanceCursor, rest
  <2>10. CASE RecordPollSuccess(p)
    <3>1. poll[p].pc = "success" /\ c \in Credentials
      BY <2>10, RunTypes DEF RecordPollSuccess, On, RunOK
    <3>2. integration' \in [Credentials -> Integration]
      BY <2>10, <1>r, <3>1 DEF RecordPollSuccess, Integration
    <3>3. poll' = [poll EXCEPT ![p] = [poll[p] EXCEPT !.pc = "clear"]]
      BY <2>10 DEF RecordPollSuccess, Step
    <3> QED
      BY <2>10, <1>n, <1>r, <3>1, <3>2, <3>3, RunGoesOn, RunTypes DEF RecordPollSuccess, rest
  <2>11. CASE ClearCredentialError(p)
    <3>1. credential' \in [Credentials -> Credential]
      BY <2>11, <1>r, RunTypes DEF ClearCredentialError, Credential, On, RunOK
    <3> QED
      BY <2>11, <1>n, <1>r, <3>1, RunGoesOn, LeaveType DEF ClearCredentialError, Leave, rest
  <2>12. CASE MarkCredentialError(p)
    <3>1. poll[p].pc = "mark"
      BY <2>12 DEF MarkCredentialError, On
    <3>2. credential' \in [Credentials -> Credential]
      BY <2>12, <1>r, RunTypes DEF MarkCredentialError, Credential, On, RunOK
    <3>3. poll' = [poll EXCEPT ![p] = [poll[p] EXCEPT !.pc = "count"]]
      BY <2>12 DEF MarkCredentialError, Step
    <3> QED
      BY <2>12, <1>n, <1>r, <3>1, <3>2, <3>3, RunGoesOn, RunTypes DEF MarkCredentialError, rest
  <2>13. CASE ReadErrors(p)
    <3>1. poll[p].pc = "count" /\ c \in Credentials
      BY <2>13, RunTypes DEF ReadErrors, On, RunOK
    <3> DEFINE q == [poll[p] EXCEPT !.pc = "record", !.read = integration[c].errors]
    <3>2. q \in Poll /\ RunOK(q)
      <4>1. q \in Poll
        BY <1>r, <3>1, RunType DEF Poll, Integration
      <4>2. RunOK(q)
        BY <1>r, <3>1, RunType DEF Poll, RunOK, Integration
      <4> QED
        BY <4>1, <4>2
    <3>3. poll' = [poll EXCEPT ![p] = q]
      BY <2>13 DEF ReadErrors
    <3> HIDE DEF q
    <3> QED
      BY <2>13, <1>n, <1>g, <3>2, <3>3 DEF ReadErrors, rest
  <2>14. CASE RecordPollError(p)
    <3>1. poll[p].pc = "record" /\ c \in Credentials /\ poll[p].read + 1 \in Nat
      <4>1. poll[p].pc = "record"
        BY <2>14 DEF RecordPollError, On
      <4>2. poll[p].read \in Nat
        BY RunType DEF Poll
      <4> QED
        BY <4>1, <4>2, RunType DEF RunOK
    <3>2. integration' \in [Credentials -> Integration]
      BY <2>14, <1>r, <3>1 DEF RecordPollError, Integration
    <3>3. failures' \in [Credentials -> Nat]
      BY <2>14, <1>r, <3>1 DEF RecordPollError
    <3>4. UNCHANGED <<credential, published>> /\ UNCHANGED normalizerVars /\ faults' = faults
      BY <2>14 DEF RecordPollError, rest
    <3>5. CASE Leave(p)
      BY <1>n, <1>r, <3>2, <3>3, <3>4, <3>5, RunGoesOn, LeaveType DEF Leave
    <3>6. CASE Step(p, "deactivate")
      BY <1>n, <1>r, <3>1, <3>2, <3>3, <3>4, <3>6, RunGoesOn, RunTypes DEF Step
    <3> QED
      BY <2>14, <3>5, <3>6 DEF RecordPollError
  <2>15. CASE MaybeDeactivate(p)
    <3>1. credential' \in [Credentials -> Credential]
      BY <2>15, <1>r, RunTypes DEF MaybeDeactivate, Credential, On, RunOK
    <3> QED
      BY <2>15, <1>n, <1>r, <3>1, RunGoesOn, LeaveType DEF MaybeDeactivate, Leave, rest
  <2> QED
    BY <1>3, <2>1, <2>2, <2>3, <2>4, <2>5, <2>6, <2>7, <2>8, <2>9, <2>10, <2>11, <2>12,
       <2>13, <2>14, <2>15 DEF RunPoll
<1>4. ASSUME NEW p \in Polls, PollFault(p)
      PROVE  NormalizerOK' /\ faults' \in Nat /\ PollsOK'
  <2>1. CASE StateRaises(p)
    BY <2>1, <1>n, <1>g, LeaveType, FaultOK DEF StateRaises, rest
  <2>2. CASE Undecryptable(p)
    <3>1. PICK d \in poll[p].todo : poll' = [poll EXCEPT ![p].todo = @ \ {d}]
      BY <2>2 DEF Undecryptable
    <3> DEFINE q == [poll[p] EXCEPT !.todo = @ \ {d}]
    <3>2. q \in Poll /\ RunOK(q)
      <4>1. q \in Poll
        BY RunType DEF Poll
      <4>2. RunOK(q)
        BY RunType DEF Poll, RunOK
      <4> QED
        BY <4>1, <4>2
    <3>3. poll' = [poll EXCEPT ![p] = q]
      BY <3>1
    <3> HIDE DEF q
    <3> QED
      BY <2>2, <1>n, <1>g, <3>2, <3>3, FaultOK DEF Undecryptable, rest
  <2>3. CASE FetchFails(p)
    BY <2>3, <1>n, ExceptType, FaultOK DEF FetchFails, rest, On
  <2>4. CASE WriteRaises(p)
    BY <2>4, <1>n, ExceptType, FaultOK DEF WriteRaises, rest, On
  <2>5. CASE ExceptRaises(p)
    BY <2>5, <1>n, <1>g, LeaveType, FaultOK DEF ExceptRaises, Leave, rest
  <2>6. CASE NormalizeRaises(p)
    BY <2>6, <1>w, <1>p, RaiseOK, FaultOK DEF NormalizeRaises
  <2>7. CASE RunDies(p)
    <3>1. NormalizerOK'
      BY <2>7, <1>w, ReturnedOK, PollOwesType DEF RunDies, ScheduleFails, NormalizerOK
    <3> QED
      BY <2>7, <1>g, <3>1, LeaveType, FaultOK DEF RunDies
  <2> QED
    BY <1>4, <2>1, <2>2, <2>3, <2>4, <2>5, <2>6, <2>7 DEF PollFault
<1> QED
  BY <1>1, <1>2, <1>3, <1>4 DEF Pull, PollNext

LEMMA TypeStep == TypeInv /\ [Next]_vars => TypeInv'
<1> SUFFICES ASSUME TypeInv, [Next]_vars PROVE TypeInv'
  OBVIOUS
<1>1. CASE Next
  BY <1>1, PushKeepsTypes, PullKeepsTypes DEF Next
<1>2. CASE UNCHANGED vars
  <2>1. UNCHANGED <<accounts, contact, signals, work, triggers, lost, faults>>
    BY <1>2 DEF vars, normalizerVars
  <2>2. UNCHANGED <<pushVars, pollVars>>
    BY <1>2 DEF vars
  <2>3. NormalizerOK' /\ faults' \in Nat
    BY <2>1 DEF TypeInv, NormalizerOK
  <2>4. PushOK'
    BY <2>2 DEF TypeInv, pushVars, PushOK, PushTypeOK
  <2>5. PollsOK'
    BY <2>2 DEF TypeInv, pollVars, PollsOK, PollTypeOK
  <2> QED
    BY <2>3, <2>4, <2>5 DEF TypeInv
<1> QED
  BY <1>1, <1>2

\* Every variable of the tables, the processes and the polls keeps its type, for any
\* number of processes, requests, polls, notes and faults.
THEOREM IntakeTypeCorrect == Spec => []TypeOK
<1>1. TypeInv => TypeOK
  BY DEF TypeInv, NormalizerOK, PushOK, PollsOK, TypeOK, NormalizerTypeOK
<1> QED
  BY <1>1, TypeInit, TypeStep, PTL DEF Spec

-----------------------------------------------------------------------------
(* The rate limit.  A step of the routes is a step of the limiter or none. *)

LEMMA PushIsLimited == Push => [LimiterNext]_limiterVars
<1> SUFFICES ASSUME Push PROVE [LimiterNext]_limiterVars
  OBVIOUS
<1>1. ASSUME NEW i \in Instances, HandleRequest(i) PROVE [LimiterNext]_limiterVars
  <2>1. i \in Keys
    BY PushAssumption
  <2>2. CASE RateLimited(i)
    BY <2>1, <2>2 DEF RateLimited, LimiterNext
  <2>3. CASE AdmitBatch(i)
    BY <2>1, <2>3 DEF AdmitBatch, LimiterNext
  <2>4. CASE ~RateLimited(i) /\ ~AdmitBatch(i)
    BY <1>1, <2>4
       DEF HandleRequest, RejectKey, RejectTicket, IgnoreTicket, AcceptTicket, SkipInvalid,
           NormalizeNext, NormalizerStep, Collect, CollectFailure, ScheduleBatch, Answer
  <2> QED
    BY <2>2, <2>3, <2>4
<1>2. ASSUME NEW i \in Instances, Die(i) PROVE [LimiterNext]_limiterVars
  <2>1. i \in Keys /\ ColdStart(i)
    BY <1>2, PushAssumption DEF Die
  <2> QED
    BY <2>1 DEF LimiterNext
<1>3. ASSUME NEW i \in Instances, NormalizerRaises(i) PROVE UNCHANGED limiterVars
  BY <1>3 DEF NormalizerRaises
<1>4. ASSUME NEW r \in Requests, NEW i \in Instances, Post(r, i) PROVE UNCHANGED limiterVars
  BY <1>4 DEF Post
<1>5. ASSUME NEW r \in Requests, TimeOut(r) PROVE UNCHANGED limiterVars
  BY <1>5 DEF TimeOut
<1>6. ASSUME NEW route \in connected, Disconnect(route) PROVE UNCHANGED limiterVars
  BY <1>6 DEF Disconnect
<1>7. ASSUME NEW a \in Accounts, OpenAccount(a) PROVE UNCHANGED limiterVars
  BY <1>7 DEF OpenAccount
<1>8. CASE PassTime
  BY <1>8 DEF PassTime, LimiterNext
<1> QED
  BY <1>1, <1>2, <1>3, <1>4, <1>5, <1>6, <1>7, <1>8 DEF Push

\* The bound of check_rate_limit holds behind POST /event as well, although processes
\* die, keys are revoked and batches are refused after they were counted.
THEOREM IntakeIsLimited == Spec => []WindowBound
<1>1. Init => LimiterInv
  BY LimiterInitInv DEF Init
<1>2. [Next]_vars => [LimiterNext]_limiterVars
  <2>1. Pull => UNCHANGED limiterVars
    BY DEF Pull
  <2>2. UNCHANGED vars => UNCHANGED limiterVars
    BY DEF vars
  <2> QED
    BY <2>1, <2>2, PushIsLimited DEF Next
<1>3. LimiterInv => WindowBound
  BY DEF LimiterInv, Spaced, WindowBound
<1> QED
  BY <1>1, <1>2, <1>3, LimiterStepInv, PTL DEF Spec

-----------------------------------------------------------------------------
(* Who is where.  A call of the normalizer belongs to a caller that waits for it; *)
(* a request has no signal to schedule before its first item, and the one item of *)
(* a ticket is its first.                                                         *)

Callers == Instances \cup Polls

HandlerPlace(i) ==
    /\ work[i].pc # "none" => handler[i].pc = "normalize"
    /\ handler[i].pc = "normalize" => handler[i].index <= Len(Req(i).items)
    /\ handler[i].pc \in {"idle", "check"} => handler[i].index = 1
    /\ handler[i].index = 1 => handler[i].affected = {}

RunPlace(p) ==
    work[p].pc # "none" => On(p, "normalize") /\ work[p].key = NoteKey(p)

PlaceInv == (\A i \in Instances : HandlerPlace(i)) /\ (\A p \in Polls : RunPlace(p))

\* The signals whose regeneration caller w has still to ask for.
Owes(w) ==
    Owing(w) \cup (IF w \in Instances THEN handler[w].affected ELSE {})
             \cup (IF w \in Polls /\ On(w, "schedule") THEN {NoteKey(w)} ELSE {})

LEMMA CallersApart ==
  /\ \A i \in Instances : i \in Callers /\ i \in Workers /\ i \notin Polls
  /\ \A p \in Polls : p \in Callers /\ p \in Workers /\ p \notin Instances
  /\ Callers \subseteq Workers
BY PushAssumption, PollAssumption, IntakeAssumption DEF Callers

LEMMA OwesParts ==
  /\ \A i \in Instances : Owes(i) = Owing(i) \cup handler[i].affected /\ Owes(i) = OwedBy(i)
  /\ \A p \in Polls : /\ Owes(p) = Owing(p) \cup (IF On(p, "schedule") THEN {NoteKey(p)} ELSE {})
                      /\ Owes(p) = PollOwes(p)
BY CallersApart DEF Owes, OwedBy, PollOwes

LEMMA OwesPartsNext ==
  /\ \A i \in Instances : Owes(i)' = Owing(i)' \cup handler'[i].affected
  /\ \A p \in Polls : Owes(p)' = Owing(p)' \cup (IF On(p, "schedule")' THEN {NoteKey(p)'} ELSE {})
BY CallersApart DEF Owes

LEMMA OwingStays ==
  ASSUME NEW w \in Workers, work'[w] = work[w]
  PROVE  Owing(w)' = Owing(w)
BY DEF Owing, NewlyRouted

LEMMA OwingNothing ==
  ASSUME NEW w \in Workers
  PROVE  /\ work[w].pc # "stored" => Owing(w) = {}
         /\ work'[w].pc # "stored" => Owing(w)' = {}
         /\ work'[w] = NoCall => Owing(w)' = {}
BY DEF Owing, NewlyRouted, NoCall

\* What caller w owes changes only when w, or the call it waits for, moves.
OthersOwe(w) == \A v \in Callers \ {w} : Owes(v)' = Owes(v)

LEMMA PushLeavesOthers ==
  ASSUME TypeInv, NEW i \in Instances, UNCHANGED pollVars,
         \A w \in Workers \ {i} : work'[w] = work[w],
         \A j \in Instances \ {i} : handler'[j].affected = handler[j].affected
  PROVE  OthersOwe(i)
<1> SUFFICES ASSUME NEW v \in Callers, v # i PROVE Owes(v)' = Owes(v)
  BY DEF OthersOwe
<1>1. v \in Workers /\ work'[v] = work[v] /\ poll' = poll
  BY CallersApart DEF pollVars
<1> QED
  BY <1>1, OwingStays DEF Owes, On, NoteKey, Note

LEMMA PullLeavesOthers ==
  ASSUME TypeInv, NEW p \in Polls, UNCHANGED pushVars,
         \A w \in Workers \ {p} : work'[w] = work[w],
         \A q \in Polls \ {p} : poll'[q] = poll[q]
  PROVE  OthersOwe(p)
<1> SUFFICES ASSUME NEW v \in Callers, v # p PROVE Owes(v)' = Owes(v)
  BY DEF OthersOwe
<1>1. v \in Workers /\ work'[v] = work[v] /\ handler' = handler
  BY CallersApart DEF pushVars
<1>2. v \in Polls => poll'[v] = poll[v]
  OBVIOUS
<1> QED
  BY <1>1, <1>2, OwingStays DEF Owes, On, NoteKey, Note

-----------------------------------------------------------------------------
(* The effects.  As far as signals and their triggers go, a step does one of   *)
(* four things.                                                                *)

Quiet == UNCHANGED <<signals, triggers, lost>> /\ \A w \in Callers : Owes(w)' = Owes(w)

Inserts(w) ==
    \E k \in SignalKeys : \E row \in SignalRow :
        /\ ~signals[k].stored
        /\ row.stored /\ ~row.heard
        /\ signals' = [signals EXCEPT ![k] = row]
        /\ UNCHANGED <<triggers, lost>>
        /\ Owes(w)' = Owes(w) \cup (IF row.account = None THEN {} ELSE {k})
        /\ OthersOwe(w)

Drops(w) ==
    /\ UNCHANGED <<signals, triggers>>
    /\ lost \subseteq lost'
    /\ Owes(w)' \subseteq Owes(w) /\ Owes(w) \subseteq Owes(w)' \cup lost'
    /\ OthersOwe(w)

Hears(w) ==
    \E k \in Owes(w) :
        /\ Schedule(k)
        /\ Owes(w)' \subseteq Owes(w) \ {k}
        /\ \A j \in Owes(w) \ Owes(w)' : signals[j].account = signals[k].account
        /\ OthersOwe(w)

Effect == Quiet \/ \E w \in Callers : Inserts(w) \/ Drops(w) \/ Hears(w)

\* Nobody's debt changes if no call is collected and no handler or run moves on.
LEMMA QuietStep ==
  ASSUME NEW w \in Callers, OthersOwe(w), Owes(w)' = Owes(w), UNCHANGED <<signals, triggers, lost>>
  PROVE  Effect
BY DEF Effect, Quiet, OthersOwe

LEMMA NormalizeEffect ==
  ASSUME TypeInv, NEW w \in Callers, Normalize(w), OthersOwe(w),
         NEW S, Owes(w) = Owing(w) \cup S, Owes(w)' = Owing(w)' \cup S
  PROVE  Effect
<1>1. w \in Workers /\ work \in [Workers -> Call] /\ work[w] \in Call
  BY CallersApart DEF TypeInv, NormalizerOK
<1>2. Owing(w) = {}
  BY <1>1, OwingNothing DEF Normalize, FindContact, DiscoverAccount, UpsertNewContact, InsertSignal
<1>3. ASSUME Owing(w)' = {}, UNCHANGED <<signals, triggers, lost>> PROVE Effect
  <2>1. Owes(w)' = Owes(w)
    BY <1>2, <1>3
  <2> QED
    BY <1>3, <2>1, QuietStep
<1>4. CASE FindContact(w)
  <2>1. work'[w].pc = "lookup"
    BY <1>1, <1>4 DEF FindContact, Resolve, Call
  <2> QED
    BY <1>1, <1>3, <1>4, <2>1, OwingNothing DEF FindContact
<1>5. CASE DiscoverAccount(w)
  <2>1. work'[w].pc = "upsert"
    BY <1>1, <1>5 DEF DiscoverAccount, Call
  <2> QED
    BY <1>1, <1>3, <1>5, <2>1, OwingNothing DEF DiscoverAccount
<1>6. CASE UpsertNewContact(w)
  <2>1. work'[w].pc = "lookup"
    BY <1>1, <1>6 DEF UpsertNewContact, Resolve, Call
  <2> QED
    BY <1>1, <1>3, <1>6, <2>1, OwingNothing DEF UpsertNewContact
<1>7. CASE InsertSignal(w)
  <2> DEFINE k == work[w].key
             row == [NoSignal EXCEPT !.stored = TRUE, !.account = work[w].account,
                                     !.method = work[w].method]
  <2>1. k \in SignalKeys /\ work[w].pc = "lookup"
    BY <1>1, <1>7 DEF InsertSignal, TypeInv, NormalizerOK, CallOK
  <2>2. CASE signals[k].stored
    <3>1. work'[w].duplicate = TRUE
      BY <1>1, <1>7, <2>2 DEF InsertSignal, Call
    <3>2. Owing(w)' = {}
      BY <3>1 DEF Owing, NewlyRouted
    <3> QED
      BY <1>3, <1>7, <2>2, <3>2 DEF InsertSignal
  <2>3. CASE ~signals[k].stored
    <3>1. /\ signals' = [signals EXCEPT ![k] = row]
          /\ work' = [work EXCEPT ![w].pc = "stored"]
          /\ UNCHANGED <<triggers, lost>>
      BY <1>7, <2>3 DEF InsertSignal
    <3>2. row \in SignalRow /\ row.stored /\ ~row.heard /\ row.account = work[w].account
      BY <1>1 DEF SignalRow, NoSignal, Call
    <3>3. work[w].duplicate = FALSE
      BY <1>1, <2>1 DEF Call, TypeInv, NormalizerOK, CallOK
    <3>4. Owing(w)' = IF work[w].account = None THEN {} ELSE {k}
      BY <1>1, <3>1, <3>3 DEF Owing, NewlyRouted, Call
    <3> HIDE DEF row, k
    <3>5. Owes(w)' = Owes(w) \cup (IF row.account = None THEN {} ELSE {k})
      BY <1>2, <3>2, <3>4
    <3>6. Inserts(w)
      BY <2>1, <2>3, <3>1, <3>2, <3>5 DEF Inserts
    <3> QED
      BY <3>6 DEF Effect
  <2> QED
    BY <2>2, <2>3
<1> QED
  BY <1>4, <1>5, <1>6, <1>7 DEF Normalize

LEMMA PlaceInit == Init => PlaceInv
<1> SUFFICES ASSUME Init PROVE PlaceInv
  OBVIOUS
<1>1. \A i \in Instances : handler[i] = Idle
  BY DEF Init, PushInit
<1>2. \A w \in Workers : work[w].pc = "none"
  BY DEF Init, NormalizerInit, NoCall
<1> QED
  BY <1>1, <1>2, CallersApart DEF PlaceInv, HandlerPlace, RunPlace, Idle

\* A step of process i leaves the others, and the polls, in their places.
LEMMA PushPlace ==
  ASSUME TypeInv, PlaceInv, NEW i \in Instances, UNCHANGED pollVars,
         \A w \in Workers \ {i} : work'[w] = work[w],
         \A j \in Instances \ {i} : handler'[j] = handler[j],
         HandlerPlace(i)'
  PROVE  PlaceInv'
<1>1. ASSUME NEW j \in Instances PROVE HandlerPlace(j)'
  <2>1. CASE j # i
    <3>1. work'[j] = work[j] /\ handler'[j] = handler[j]
      BY <2>1, CallersApart
    <3> QED
      BY <3>1 DEF PlaceInv, HandlerPlace, Req
  <2> QED
    BY <2>1
<1>2. ASSUME NEW p \in Polls PROVE RunPlace(p)'
  <2>1. work'[p] = work[p] /\ poll' = poll
    BY CallersApart DEF pollVars
  <2> QED
    BY <2>1 DEF PlaceInv, RunPlace, On, NoteKey, Note
<1> QED
  BY <1>1, <1>2 DEF PlaceInv

LEMMA PullPlace ==
  ASSUME TypeInv, PlaceInv, NEW p \in Polls, UNCHANGED pushVars,
         \A w \in Workers \ {p} : work'[w] = work[w],
         \A q \in Polls \ {p} : poll'[q] = poll[q],
         RunPlace(p)'
  PROVE  PlaceInv'
<1>1. ASSUME NEW j \in Instances PROVE HandlerPlace(j)'
  <2>1. work'[j] = work[j] /\ handler' = handler
    BY CallersApart DEF pushVars
  <2> QED
    BY <2>1 DEF PlaceInv, HandlerPlace, Req
<1>2. ASSUME NEW q \in Polls PROVE RunPlace(q)'
  <2>1. CASE q # p
    <3>1. work'[q] = work[q] /\ poll'[q] = poll[q]
      BY <2>1, CallersApart
    <3> QED
      BY <3>1 DEF PlaceInv, RunPlace, On, NoteKey, Note
  <2> QED
    BY <2>1
<1> QED
  BY <1>1, <1>2 DEF PlaceInv

\* A handler that is done, or has just begun.
LEMMA IdlePlace ==
  ASSUME NEW i \in Instances, work'[i].pc = "none", handler'[i].index = 1,
         handler'[i].affected = {}, handler'[i].pc # "normalize"
  PROVE  HandlerPlace(i)'
BY DEF HandlerPlace

LEMMA RespondFrees ==
  ASSUME TypeInv, NEW i \in Instances, NEW state, NEW reported, Respond(i, state, reported)
  PROVE  /\ handler'[i] = Idle /\ handler'[i].index = 1 /\ handler'[i].affected = {}
         /\ handler'[i].pc = "idle"
         /\ \A j \in Instances \ {i} : handler'[j] = handler[j]
BY DEF TypeInv, PushOK, PushTypeOK, Respond, Idle

\* A step of process i that neither calls nor collects, and schedules nothing.
LEMMA PushQuiet ==
  ASSUME TypeInv, PlaceInv, NEW i \in Instances, UNCHANGED pollVars, UNCHANGED normalizerVars,
         \A j \in Instances \ {i} : handler'[j] = handler[j],
         handler'[i].affected = handler[i].affected,
         HandlerPlace(i)'
  PROVE  PlaceInv' /\ Effect
<1>1. work' = work /\ UNCHANGED <<signals, triggers, lost>>
  BY DEF normalizerVars
<1>2. PlaceInv'
  BY <1>1, PushPlace
<1>3. OthersOwe(i)
  BY <1>1, PushLeavesOthers
<1>4. Owes(i)' = Owes(i)
  BY <1>1, CallersApart, OwesParts, OwesPartsNext, OwingStays
<1> QED
  BY <1>1, <1>2, <1>3, <1>4, CallersApart, QuietStep

LEMMA HandlerEffect ==
  ASSUME TypeInv, PlaceInv, NEW i \in Instances, HandleRequest(i), UNCHANGED pollVars
  PROVE  PlaceInv' /\ Effect
<1> DEFINE h == handler[i]
<1>0. /\ h \in Handler /\ work[i] \in Call /\ HandlerPlace(i) /\ i \in Workers
      /\ handler \in [Instances -> Handler] /\ work \in [Workers -> Call]
  BY CallersApart DEF TypeInv, PushOK, PushTypeOK, NormalizerOK, PlaceInv
<1>c. Owes(i) = Owing(i) \cup h.affected /\ Owes(i)' = Owing(i)' \cup handler'[i].affected
  BY OwesParts, OwesPartsNext
<1>a. ASSUME h.pc = "check", Refusal(i) \/ Shrug(i), UNCHANGED normalizerVars
      PROVE  PlaceInv' /\ Effect
  <2>1. work'[i].pc = "none" /\ h.affected = {}
    BY <1>0, <1>a DEF HandlerPlace, normalizerVars
  <2>2. /\ handler'[i].index = 1 /\ handler'[i].affected = {} /\ handler'[i].pc = "idle"
        /\ \A j \in Instances \ {i} : handler'[j] = handler[j]
    BY <1>a, RespondFrees DEF Refusal, Shrug
  <2> QED
    BY <1>a, <2>1, <2>2, IdlePlace, PushQuiet
<1>b. ASSUME h.pc = "check", Goto(i, "items"), UNCHANGED normalizerVars
      PROVE  PlaceInv' /\ Effect
  <2>1. work'[i].pc = "none" /\ h.affected = {} /\ h.index = 1
    BY <1>0, <1>b DEF HandlerPlace, normalizerVars
  <2>2. /\ handler'[i].index = 1 /\ handler'[i].affected = {} /\ handler'[i].pc = "items"
        /\ \A j \in Instances \ {i} : handler'[j] = handler[j]
    BY <1>0, <1>b, <2>1 DEF Goto, Handler
  <2> QED
    BY <1>b, <2>1, <2>2, IdlePlace, PushQuiet
<1>1. CASE RejectKey(i)
  BY <1>1, <1>a DEF RejectKey, At
<1>2. CASE RateLimited(i)
  BY <1>2, <1>a DEF RateLimited, AcceptsKey, At
<1>3. CASE AdmitBatch(i)
  BY <1>3, <1>a, <1>b DEF AdmitBatch, AcceptsKey, At
<1>4. CASE RejectTicket(i)
  BY <1>4, <1>a DEF RejectTicket, At
<1>5. CASE IgnoreTicket(i)
  BY <1>5, <1>a DEF IgnoreTicket, At
<1>6. CASE AcceptTicket(i)
  BY <1>6, <1>b DEF AcceptTicket, At
<1>7. CASE SkipInvalid(i)
  <2>1. h.pc = "items" /\ work'[i].pc = "none" /\ UNCHANGED normalizerVars
    BY <1>0, <1>7 DEF SkipInvalid, At, HandlerPlace, normalizerVars
  <2>2. /\ handler'[i].index = h.index + 1 /\ handler'[i].affected = h.affected
        /\ handler'[i].pc = "items"
        /\ \A j \in Instances \ {i} : handler'[j] = handler[j]
    BY <1>0, <1>7, <2>1 DEF SkipInvalid, Handler
  <2>3. handler'[i].index # 1
    BY <2>2, <1>0 DEF TypeInv, PushOK, HandlerOK, Handler
  <2>4. HandlerPlace(i)'
    BY <2>1, <2>2, <2>3 DEF HandlerPlace
  <2> QED
    BY <2>1, <2>2, <2>4, PushQuiet
<1>8. CASE NormalizeNext(i)
  <2>1. h.pc = "items" /\ work[i].pc = "none" /\ UNCHANGED <<signals, triggers, lost>>
    BY <1>0, <1>8 DEF NormalizeNext, At, HandlerPlace
  <2>2. /\ handler' = [handler EXCEPT ![i] = [h EXCEPT !.pc = "normalize"]]
        /\ \A w \in Workers \ {i} : work'[w] = work[w]
        /\ work'[i].pc = "lookup"
    BY <1>0, <1>8 DEF NormalizeNext, Goto, Called, NoCall
  <2>3. /\ handler'[i].pc = "normalize" /\ handler'[i].index = h.index
        /\ handler'[i].affected = h.affected /\ handler'[i].request = h.request
        /\ \A j \in Instances \ {i} : handler'[j] = handler[j]
    BY <1>0, <2>2 DEF Handler
  <2>4. HandlerPlace(i)'
    BY <1>0, <1>8, <2>3 DEF NormalizeNext, Remaining, HandlerPlace, Req
  <2>5. PlaceInv'
    BY <2>2, <2>3, <2>4, PushPlace
  <2>6. Owes(i)' = Owes(i)
    BY <1>0, <1>c, <2>1, <2>2, <2>3, OwingNothing
  <2> QED
    BY <2>1, <2>2, <2>3, <2>5, <2>6, CallersApart, PushLeavesOthers, QuietStep
<1>9. CASE NormalizerStep(i)
  <2>1. Normalize(i) /\ handler' = handler
    BY <1>9 DEF NormalizerStep, pushVars
  <2>2. /\ \A w \in Workers \ {i} : work'[w] = work[w]
        /\ work[i].pc # "none"
    BY <1>0, <2>1 DEF Normalize, FindContact, DiscoverAccount, UpsertNewContact, InsertSignal, Resolve
  <2>3. HandlerPlace(i)'
    BY <1>0, <2>1, <2>2 DEF HandlerPlace, Req
  <2>4. PlaceInv'
    BY <2>1, <2>2, <2>3, PushPlace
  <2>5. OthersOwe(i)
    BY <2>1, <2>2, PushLeavesOthers
  <2>6. Owing(i) = {}
    BY <1>0, <2>1, OwingNothing DEF Normalize, FindContact, DiscoverAccount, UpsertNewContact, InsertSignal
  <2> QED
    BY <1>c, <2>1, <2>4, <2>5, <2>6, CallersApart, NormalizeEffect

<1>10. CASE Collect(i)
  <2> DEFINE g == [h EXCEPT !.pc = "items", !.index = @ + 1,
                     !.accepted = @ \cup {work[i].key},
                     !.affected = IF NewlyRouted(i) THEN @ \cup {work[i].key} ELSE @]
  <2>1. /\ handler' = [handler EXCEPT ![i] = g]
        /\ work' = [work EXCEPT ![i] = NoCall]
        /\ UNCHANGED <<signals, triggers, lost>>
    BY <1>10 DEF Collect, Returned
  <2>2. /\ g.pc = "items" /\ g.index = h.index + 1
        /\ g.affected = IF NewlyRouted(i) THEN h.affected \cup {work[i].key} ELSE h.affected
    BY <1>0 DEF Handler
  <2> HIDE DEF g
  <2>3. /\ handler'[i] = g /\ work'[i] = NoCall
        /\ \A j \in Instances \ {i} : handler'[j] = handler[j]
        /\ \A w \in Workers \ {i} : work'[w] = work[w]
    BY <1>0, <2>1
  <2>4. g.index # 1
    BY <1>0, <2>2 DEF TypeInv, PushOK, HandlerOK, Handler
  <2>5. HandlerPlace(i)'
    BY <2>2, <2>3, <2>4 DEF HandlerPlace, NoCall
  <2>6. PlaceInv'
    BY <2>3, <2>5, PushPlace
  <2>7. Owing(i)' = {}
    BY <1>0, <2>3, OwingNothing
  <2>8. Owes(i)' = Owes(i)
    BY <1>c, <2>2, <2>3, <2>7 DEF Owing
  <2> QED
    BY <2>1, <2>3, <2>6, <2>8, CallersApart, PushLeavesOthers, QuietStep
<1>11. CASE CollectFailure(i)
  <2>1. /\ h.pc = "normalize" /\ work[i].pc = "raised"
        /\ work' = [work EXCEPT ![i] = NoCall]
        /\ UNCHANGED <<signals, triggers, lost>>
    BY <1>11 DEF CollectFailure, At, Returned
  <2>2. /\ work'[i] = NoCall /\ work'[i].pc = "none"
        /\ \A w \in Workers \ {i} : work'[w] = work[w]
    BY <1>0, <2>1 DEF NoCall
  <2>3. Owing(i) = {} /\ Owing(i)' = {}
    BY <1>0, <2>1, <2>2, OwingNothing
  <2>4. /\ handler'[i].affected = h.affected /\ HandlerPlace(i)'
        /\ \A j \in Instances \ {i} : handler'[j] = handler[j]
    <3>1. CASE Req(i).route = "event"
      <4>1. handler' = [handler EXCEPT ![i] = [h EXCEPT !.pc = "items", !.index = @ + 1]]
        BY <1>11, <3>1 DEF CollectFailure
      <4>2. /\ handler'[i].pc = "items" /\ handler'[i].index = h.index + 1
            /\ handler'[i].affected = h.affected
            /\ \A j \in Instances \ {i} : handler'[j] = handler[j]
        BY <1>0, <4>1 DEF Handler
      <4>3. h.index + 1 # 1
        BY <1>0 DEF TypeInv, PushOK, HandlerOK, Handler
      <4> QED
        BY <2>2, <4>2, <4>3 DEF HandlerPlace
    <3>2. CASE Req(i).route # "event"
      <4>1. Respond(i, "failed", {})
        BY <1>11, <3>2 DEF CollectFailure, Refusal
      <4>2. h.request \in Requests /\ h.index \in Nat \ {0}
        BY <1>0, <2>1 DEF TypeInv, PushOK, HandlerOK, Handler
      <4>3. Len(Req(i).items) = 1
        BY <3>2, <4>2, PushAssumption DEF Req
      <4>4. h.index = 1 /\ h.affected = {}
        BY <1>0, <2>1, <4>2, <4>3 DEF HandlerPlace
      <4> QED
        BY <2>2, <4>1, <4>4, RespondFrees, IdlePlace
    <3> QED
      BY <3>1, <3>2
  <2>5. PlaceInv'
    BY <2>2, <2>4, PushPlace
  <2>6. Owes(i)' = Owes(i)
    BY <1>c, <2>3, <2>4
  <2> QED
    BY <2>1, <2>2, <2>4, <2>5, <2>6, CallersApart, PushLeavesOthers, QuietStep
<1>12. CASE ScheduleBatch(i)
  <2>1. PICK k \in h.affected :
          LET same == OfAccount(i, signals[k].account) IN
          /\ handler' = [handler EXCEPT ![i].affected = @ \ same]
          /\ \/ Schedule(k)
             \/ ScheduleFails(same)
    BY <1>12 DEF ScheduleBatch
  <2> DEFINE same == OfAccount(i, signals[k].account)
  <2>2. h.pc = "items" /\ work' = work /\ work[i].pc = "none"
    BY <1>0, <1>12 DEF ScheduleBatch, At, HandlerPlace
  <2>3. /\ handler'[i].affected = h.affected \ same
        /\ handler'[i].pc = "items" /\ handler'[i].index = h.index
        /\ \A j \in Instances \ {i} : handler'[j] = handler[j]
    BY <1>0, <2>1, <2>2 DEF Handler
  <2>4. /\ same \subseteq h.affected /\ k \in same
        /\ \A j \in same : signals[j].account = signals[k].account
    BY DEF OfAccount
  <2> HIDE DEF same
  <2>5. HandlerPlace(i)'
    BY <1>0, <2>2, <2>3 DEF HandlerPlace
  <2>6. PlaceInv' /\ OthersOwe(i)
    BY <2>2, <2>3, <2>5, PushPlace, PushLeavesOthers
  <2>7. Owes(i) = h.affected /\ Owes(i)' = h.affected \ same
    BY <1>0, <1>c, <2>2, <2>3, OwingNothing
  <2>8. CASE Schedule(k)
    <3>1. Hears(i)
      BY <2>4, <2>6, <2>7, <2>8 DEF Hears
    <3> QED
      BY <2>6, <3>1, CallersApart DEF Effect
  <2>9. CASE ScheduleFails(same)
    <3>1. Drops(i)
      BY <2>4, <2>6, <2>7, <2>9 DEF Drops, ScheduleFails
    <3> QED
      BY <2>6, <3>1, CallersApart DEF Effect
  <2> QED
    BY <2>1, <2>8, <2>9 DEF same
<1>13. CASE Answer(i)
  <2>1. /\ h.pc = "items" /\ h.affected = {} /\ UNCHANGED normalizerVars
        /\ Respond(i, "accepted", h.accepted)
    BY <1>13 DEF Answer, At
  <2>2. work'[i].pc = "none"
    BY <1>0, <2>1 DEF HandlerPlace, normalizerVars
  <2> QED
    BY <2>1, <2>2, RespondFrees, IdlePlace, PushQuiet
<1> QED
  BY <1>1, <1>2, <1>3, <1>4, <1>5, <1>6, <1>7, <1>8, <1>9, <1>10, <1>11, <1>12, <1>13
     DEF HandleRequest

\* A call of caller w raises, or w dies: what it owes is recorded as lost.
LEMMA RaiseEffect ==
  ASSUME TypeInv, NEW w \in Callers, Raise(w), OthersOwe(w),
         NEW S, Owes(w) = Owing(w) \cup S, Owes(w)' = Owing(w)' \cup S
  PROVE  Effect
<1>1. w \in Workers /\ work[w] \in Call /\ work \in [Workers -> Call]
  BY CallersApart DEF TypeInv, NormalizerOK
<1>2. work'[w].pc = "raised"
  BY <1>1 DEF Raise, Call
<1>3. Owing(w)' = {}
  BY <1>1, <1>2, OwingNothing
<1>4. Drops(w)
  BY <1>3 DEF Raise, Drops
<1> QED
  BY <1>4 DEF Effect

LEMMA PushEffect ==
  ASSUME TypeInv, PlaceInv, Push
  PROVE  PlaceInv' /\ Effect
<1>p. UNCHANGED pollVars
  BY DEF Push
<1>0. /\ handler \in [Instances -> Handler] /\ work \in [Workers -> Call]
      /\ \A i \in Instances : HandlerPlace(i) /\ i \in Workers
  BY CallersApart DEF TypeInv, PushOK, PushTypeOK, NormalizerOK, PlaceInv
<1>q. ASSUME UNCHANGED <<handler, work, signals, triggers, lost>>
      PROVE  PlaceInv' /\ Effect
  <2>1. \A w \in Callers : Owes(w)' = Owes(w)
    BY <1>p, <1>q, CallersApart, OwingStays DEF Owes, On, NoteKey, Note, pollVars
  <2>2. PlaceInv'
    BY <1>p, <1>q DEF PlaceInv, HandlerPlace, RunPlace, Req, On, NoteKey, Note, pollVars
  <2> QED
    BY <1>q, <2>1, <2>2 DEF Effect, Quiet
<1>1. ASSUME NEW r \in Requests, TimeOut(r) PROVE PlaceInv' /\ Effect
  BY <1>1, <1>q DEF TimeOut, normalizerVars
<1>2. ASSUME NEW r \in Requests, NEW i \in Instances, Post(r, i) PROVE PlaceInv' /\ Effect
  <2>1. /\ handler[i].pc = "idle" /\ UNCHANGED normalizerVars
        /\ handler' = [handler EXCEPT ![i] = [handler[i] EXCEPT
                         !.pc = "check", !.request = r, !.post = sender[r].posts + 1]]
    BY <1>2 DEF Post, At
  <2>2. /\ handler'[i].pc = "check" /\ handler'[i].index = handler[i].index
        /\ handler'[i].affected = handler[i].affected
        /\ \A j \in Instances \ {i} : handler'[j] = handler[j]
    BY <1>0, <2>1 DEF Handler
  <2>3. work'[i].pc = "none" /\ handler[i].index = 1 /\ handler[i].affected = {}
    BY <1>0, <2>1 DEF HandlerPlace, normalizerVars
  <2> QED
    BY <1>p, <2>1, <2>2, <2>3, IdlePlace, PushQuiet
<1>3. ASSUME NEW i \in Instances, HandleRequest(i) PROVE PlaceInv' /\ Effect
  BY <1>3, <1>p, HandlerEffect
<1>4. ASSUME NEW i \in Instances, NormalizerRaises(i) PROVE PlaceInv' /\ Effect
  <2>1. Raise(i) /\ handler' = handler /\ work[i].pc # "none"
    BY <1>4 DEF NormalizerRaises, Raise, pushVars
  <2>2. \A w \in Workers \ {i} : work'[w] = work[w]
    BY <1>0, <2>1 DEF Raise
  <2>3. HandlerPlace(i)'
    BY <1>0, <2>1 DEF HandlerPlace, Req
  <2>4. PlaceInv' /\ OthersOwe(i)
    BY <1>p, <2>1, <2>2, <2>3, PushPlace, PushLeavesOthers
  <2>5. Owes(i) = Owing(i) \cup handler[i].affected /\ Owes(i)' = Owing(i)' \cup handler[i].affected
    BY <2>1, OwesParts, OwesPartsNext
  <2> QED
    BY <2>1, <2>4, <2>5, CallersApart, RaiseEffect
<1>5. ASSUME NEW i \in Instances, Die(i) PROVE PlaceInv' /\ Effect
  <2>1. /\ work' = [work EXCEPT ![i] = NoCall] /\ UNCHANGED <<signals, triggers>>
        /\ lost' = lost \cup OwedBy(i)
        /\ Respond(i, "failed", {})
    BY <1>5 DEF Die, Returned, ScheduleFails
  <2>2. work'[i] = NoCall /\ \A w \in Workers \ {i} : work'[w] = work[w]
    BY <1>0, <2>1
  <2>3. HandlerPlace(i)'
    BY <2>1, <2>2, RespondFrees, IdlePlace DEF NoCall
  <2>4. PlaceInv' /\ OthersOwe(i)
    BY <1>p, <2>1, <2>2, <2>3, RespondFrees, PushPlace, PushLeavesOthers
  <2>5. Owes(i)' = {}
    BY <1>0, <2>1, <2>2, RespondFrees, OwesPartsNext, OwingNothing
  <2>6. Drops(i)
    BY <2>1, <2>4, <2>5, OwesParts DEF Drops
  <2> QED
    BY <2>4, <2>6, CallersApart DEF Effect
<1>6. ASSUME NEW route \in connected, Disconnect(route) PROVE PlaceInv' /\ Effect
  BY <1>6, <1>q DEF Disconnect, normalizerVars
<1>7. ASSUME NEW a \in Accounts, OpenAccount(a) PROVE PlaceInv' /\ Effect
  BY <1>7, <1>q DEF OpenAccount, CreateAccount, pushVars
<1>8. CASE PassTime
  BY <1>8, <1>q DEF PassTime, pushVars, normalizerVars
<1> QED
  BY <1>1, <1>2, <1>3, <1>4, <1>5, <1>6, <1>7, <1>8 DEF Push

-----------------------------------------------------------------------------

\* A step of run p outside the normalizer and outside its schedule.
LEMMA PullQuiet ==
  ASSUME TypeInv, PlaceInv, NEW p \in Polls, UNCHANGED pushVars, UNCHANGED normalizerVars,
         \A q \in Polls \ {p} : poll'[q] = poll[q],
         poll[p].pc \notin {"normalize", "schedule"}, poll'[p].pc # "schedule"
  PROVE  PlaceInv' /\ Effect
<1>1. work' = work /\ UNCHANGED <<signals, triggers, lost>>
  BY DEF normalizerVars
<1>2. RunPlace(p)'
  BY <1>1 DEF PlaceInv, RunPlace, On
<1>3. PlaceInv' /\ OthersOwe(p)
  BY <1>1, <1>2, PullPlace, PullLeavesOthers
<1>4. Owes(p)' = Owes(p)
  BY <1>1, CallersApart, OwesParts, OwesPartsNext, OwingStays DEF On
<1> QED
  BY <1>1, <1>3, <1>4, CallersApart, QuietStep

LEMMA LeaveFacts ==
  ASSUME TypeInv, NEW p \in Polls
  PROVE  /\ Leave(p) => poll'[p].pc = "next" /\ \A q \in Polls \ {p} : poll'[q] = poll[q]
         /\ \A kind : Except(p, kind) => /\ poll'[p].pc \in {"mark", "count"}
                                         /\ \A q \in Polls \ {p} : poll'[q] = poll[q]
         /\ \A pc : Step(p, pc) => poll'[p].pc = pc /\ \A q \in Polls \ {p} : poll'[q] = poll[q]
         /\ poll' = [poll EXCEPT ![p] = NoPoll] =>
              poll'[p] = NoPoll /\ poll'[p].pc = "idle" /\ \A q \in Polls \ {p} : poll'[q] = poll[q]
         /\ \A c : Take(p, c) => poll'[p].pc = "fetch" /\ \A q \in Polls \ {p} : poll'[q] = poll[q]
<1> poll \in [Polls -> Poll] /\ poll[p] \in Poll
  BY DEF TypeInv, PollsOK, PollTypeOK
<1>1. Leave(p) => poll'[p].pc = "next" /\ \A q \in Polls \ {p} : poll'[q] = poll[q]
  BY DEF Leave, NoPoll
<1>2. ASSUME NEW kind, Except(p, kind)
      PROVE  poll'[p].pc \in {"mark", "count"} /\ \A q \in Polls \ {p} : poll'[q] = poll[q]
  BY <1>2 DEF Except, Poll
<1>3. ASSUME NEW pc, Step(p, pc)
      PROVE  poll'[p].pc = pc /\ \A q \in Polls \ {p} : poll'[q] = poll[q]
  BY <1>3 DEF Step, Poll
<1>4. poll' = [poll EXCEPT ![p] = NoPoll] =>
        poll'[p] = NoPoll /\ poll'[p].pc = "idle" /\ \A q \in Polls \ {p} : poll'[q] = poll[q]
  BY DEF NoPoll
<1>5. ASSUME NEW c, Take(p, c)
      PROVE  poll'[p].pc = "fetch" /\ \A q \in Polls \ {p} : poll'[q] = poll[q]
  BY <1>5 DEF Take, Poll
<1> QED
  BY <1>1, <1>2, <1>3, <1>4, <1>5

LEMMA RunEffect ==
  ASSUME TypeInv, PlaceInv, NEW p \in Polls, RunPoll(p), UNCHANGED pushVars
  PROVE  PlaceInv' /\ Effect
<1> DEFINE q == poll[p]
           moved == \A r \in Polls \ {p} : poll'[r] = poll[r]
<1>0. /\ p \in Workers /\ p \in Callers /\ q \in Poll /\ RunOK(q) /\ RunPlace(p)
      /\ poll \in [Polls -> Poll] /\ work \in [Workers -> Call] /\ work[p] \in Call
  BY CallersApart DEF TypeInv, PollsOK, PollTypeOK, NormalizerOK, PlaceInv
<1>c. /\ Owes(p) = Owing(p) \cup (IF On(p, "schedule") THEN {NoteKey(p)} ELSE {})
      /\ Owes(p)' = Owing(p)' \cup (IF On(p, "schedule")' THEN {NoteKey(p)'} ELSE {})
  BY OwesParts, OwesPartsNext
<1>1. CASE EndRun(p)
  BY <1>1, PullQuiet, LeaveFacts DEF EndRun, rest, On
<1>2. CASE NextCredential(p)
  <2>1. q.pc = "next" /\ UNCHANGED normalizerVars
    BY <1>2 DEF NextCredential, rest, On
  <2>2. PICK d : IF integration[d].exists THEN Take(p, d)
                 ELSE poll' = [poll EXCEPT ![p] = [q EXCEPT !.pc = "create", !.cred = d]]
    BY <1>2 DEF NextCredential
  <2>3. poll'[p].pc \in {"fetch", "create"} /\ moved
    <3>1. CASE Take(p, d)
      BY <3>1, LeaveFacts
    <3>2. CASE poll' = [poll EXCEPT ![p] = [q EXCEPT !.pc = "create", !.cred = d]]
      BY <1>0, <3>2 DEF Poll
    <3> QED
      BY <2>2, <3>1, <3>2
  <2> QED
    BY <2>1, <2>3, PullQuiet
<1>3. CASE CreateState(p)
  BY <1>3, PullQuiet, LeaveFacts DEF CreateState, rest, On
<1>4. CASE FetchPage(p)
  <2>1. q.pc = "fetch" /\ UNCHANGED normalizerVars
    BY <1>4 DEF FetchPage, rest, On
  <2>2. poll'[p].pc \in {"success", "note"} /\ moved
    BY <1>0, <1>4, LeaveFacts DEF FetchPage, Poll
  <2> QED
    BY <2>1, <2>2, PullQuiet
<1>5. CASE ParseNote(p)
  <2>1. q.pc = "note" /\ work[p].pc = "none" /\ InPage(p)
        /\ UNCHANGED <<tables, signals, triggers, lost>>
    BY <1>0, <1>5 DEF ParseNote, On, RunPlace
  <2>2. CASE work' = work
    <3>1. poll'[p].pc # "schedule" /\ moved
      <4>1. CASE Note(p) \in Blank
        BY <1>0, <1>5, <2>1, <4>1 DEF ParseNote, Poll
      <4>2. CASE Note(p) \notin Blank /\ Note(p) \in Unparsable
        BY <1>5, <4>2, LeaveFacts DEF ParseNote
      <4>3. CASE Note(p) \notin Blank /\ Note(p) \notin Unparsable
        <5>1. Step(p, "normalize")
          BY <1>5, <4>3 DEF ParseNote
        <5> QED
          BY <5>1, LeaveFacts
      <4> QED
        BY <4>1, <4>2, <4>3
    <3> QED
      BY <2>1, <2>2, <3>1, PullQuiet DEF normalizerVars, tables
  <2>3. CASE Step(p, "normalize") /\ Called(p, Note(p), 1)
    <3>1. poll' = [poll EXCEPT ![p] = [q EXCEPT !.pc = "normalize"]]
      BY <2>3 DEF Step
    <3>2. poll'[p].pc = "normalize" /\ poll'[p].cred = q.cred /\ poll'[p].note = q.note /\ moved
      BY <1>0, <3>1 DEF Poll
    <3>3. /\ work'[p].key = Key(Note(p), 1) /\ work'[p].pc = "lookup"
          /\ \A w \in Workers \ {p} : work'[w] = work[w]
      BY <1>0, <2>3 DEF Called, NoCall
    <3>4. RunPlace(p)'
      BY <3>2, <3>3 DEF RunPlace, On, NoteKey, Note
    <3>5. Owing(p) = {} /\ Owing(p)' = {}
      BY <1>0, <2>1, <3>3, OwingNothing
    <3>6. Owes(p)' = Owes(p)
      BY <1>c, <2>1, <3>2, <3>5 DEF On
    <3> QED
      BY <1>0, <2>1, <3>2, <3>3, <3>4, <3>6, PullPlace, PullLeavesOthers, QuietStep
  <2> QED
    BY <1>5, <2>2, <2>3 DEF ParseNote
<1>6. CASE NormalizeNote(p)
  <2>1. Normalize(p) /\ poll' = poll
    BY <1>6 DEF NormalizeNote, pollVars
  <2>2. /\ \A w \in Workers \ {p} : work'[w] = work[w]
        /\ work[p].pc # "none" /\ work'[p].key = work[p].key
    BY <1>0, <2>1
       DEF Normalize, FindContact, DiscoverAccount, UpsertNewContact, InsertSignal, Resolve, Call
  <2>3. RunPlace(p)' /\ q.pc = "normalize"
    BY <1>0, <2>1, <2>2 DEF RunPlace, On, NoteKey, Note
  <2>4. PlaceInv' /\ OthersOwe(p)
    BY <2>1, <2>2, <2>3, PullPlace, PullLeavesOthers
  <2>5. Owes(p) = Owing(p) \cup {} /\ Owes(p)' = Owing(p)' \cup {}
    BY <1>c, <2>1, <2>3 DEF On
  <2> QED
    BY <1>0, <2>1, <2>4, <2>5, NormalizeEffect
<1>7. CASE CollectNote(p)
  <2>1. /\ q.pc = "normalize" /\ UNCHANGED <<signals, triggers, lost>>
        /\ work' = [work EXCEPT ![p] = NoCall]
    BY <1>7 DEF CollectNote, On, Returned
  <2>2. /\ work'[p] = NoCall /\ work'[p].pc = "none"
        /\ \A w \in Workers \ {p} : work'[w] = work[w]
    BY <1>0, <2>1 DEF NoCall
  <2>3. Owing(p)' = {} /\ RunPlace(p)'
    BY <1>0, <2>2, OwingNothing DEF RunPlace
  <2>4. moved /\ Owes(p)' = Owes(p)
    <3>1. CASE work[p].pc = "stored" /\ NewlyRouted(p) /\ Step(p, "schedule")
      <4>1. poll' = [poll EXCEPT ![p] = [q EXCEPT !.pc = "schedule"]]
        BY <3>1 DEF Step
      <4>2. poll'[p].pc = "schedule" /\ poll'[p].cred = q.cred /\ poll'[p].note = q.note /\ moved
        BY <1>0, <4>1 DEF Poll
      <4>3. NoteKey(p)' = NoteKey(p) /\ work[p].key = NoteKey(p)
        BY <1>0, <3>1, <4>2 DEF NoteKey, Note, RunPlace
      <4> QED
        BY <1>c, <2>1, <2>3, <3>1, <4>2, <4>3 DEF On, Owing
    <3>2. CASE ~NewlyRouted(p) /\ poll' = [poll EXCEPT ![p].pc = "note", ![p].note = @ + 1]
      <4>1. poll'[p].pc = "note" /\ moved
        BY <1>0, <3>2 DEF Poll
      <4> QED
        BY <1>c, <2>1, <2>3, <3>2, <4>1 DEF On, Owing
    <3>3. CASE work[p].pc = "raised" /\ Except(p, "other")
      BY <1>c, <2>1, <2>3, <3>3, LeaveFacts DEF On, Owing, NewlyRouted
    <3> QED
      BY <1>7, <3>1, <3>2, <3>3 DEF CollectNote
  <2> QED
    BY <1>0, <2>1, <2>2, <2>3, <2>4, PullPlace, PullLeavesOthers, QuietStep
<1>8. CASE ScheduleNote(p)
  <2> DEFINE k == NoteKey(p)
  <2>1. /\ q.pc = "schedule" /\ work' = work /\ work[p].pc = "none"
        /\ poll' = [poll EXCEPT ![p] = [q EXCEPT !.pc = "note", !.note = @ + 1]]
        /\ Schedule(k) \/ ScheduleFails({k})
    BY <1>0, <1>8 DEF ScheduleNote, On, RunPlace
  <2>2. poll'[p].pc = "note" /\ moved
    BY <1>0, <2>1 DEF Poll
  <2>3. Owes(p) = {k} /\ Owes(p)' = {}
    BY <1>0, <1>c, <2>1, <2>2, OwingNothing DEF On
  <2>4. RunPlace(p)'
    BY <2>1 DEF RunPlace
  <2>5. PlaceInv' /\ OthersOwe(p)
    BY <2>1, <2>2, <2>4, PullPlace, PullLeavesOthers
  <2>6. CASE Schedule(k)
    <3>1. Hears(p)
      BY <2>3, <2>5, <2>6 DEF Hears
    <3> QED
      BY <1>0, <2>5, <3>1 DEF Effect
  <2>7. CASE ScheduleFails({k})
    <3>1. Drops(p)
      BY <2>3, <2>5, <2>7 DEF Drops, ScheduleFails
    <3> QED
      BY <1>0, <2>5, <3>1 DEF Effect
  <2> QED
    BY <2>1, <2>6, <2>7
<1>9. CASE AdvanceCursor(p)
  <2>1. q.pc = "note" /\ UNCHANGED normalizerVars
    BY <1>9 DEF AdvanceCursor, rest, On
  <2>2. poll'[p].pc \in {"fetch", "success"} /\ moved
    BY <1>0, <1>9 DEF AdvanceCursor, Poll
  <2> QED
    BY <2>1, <2>2, PullQuiet
<1>10. CASE RecordPollSuccess(p)
  BY <1>10, PullQuiet, LeaveFacts DEF RecordPollSuccess, rest, On
<1>11. CASE ClearCredentialError(p)
  BY <1>11, PullQuiet, LeaveFacts DEF ClearCredentialError, rest, On
<1>12. CASE MarkCredentialError(p)
  BY <1>12, PullQuiet, LeaveFacts DEF MarkCredentialError, rest, On
<1>13. CASE ReadErrors(p)
  <2>1. q.pc = "count" /\ UNCHANGED normalizerVars
    BY <1>13 DEF ReadErrors, rest, On
  <2>2. poll'[p].pc = "record" /\ moved
    BY <1>0, <1>13 DEF ReadErrors, Poll
  <2> QED
    BY <2>1, <2>2, PullQuiet
<1>14. CASE RecordPollError(p)
  BY <1>14, PullQuiet, LeaveFacts DEF RecordPollError, rest, On
<1>15. CASE MaybeDeactivate(p)
  BY <1>15, PullQuiet, LeaveFacts DEF MaybeDeactivate, rest, On
<1> QED
  BY <1>1, <1>2, <1>3, <1>4, <1>5, <1>6, <1>7, <1>8, <1>9, <1>10, <1>11, <1>12, <1>13, <1>14,
     <1>15 DEF RunPoll

LEMMA PullEffect ==
  ASSUME TypeInv, PlaceInv, Pull
  PROVE  PlaceInv' /\ Effect
<1>u. UNCHANGED pushVars
  BY DEF Pull
<1>1. ASSUME NEW c \in Credentials, Publish(c) PROVE PlaceInv' /\ Effect
  <2>1. UNCHANGED <<handler, poll, work, signals, triggers, lost>>
    BY <1>1, <1>u DEF Publish, normalizerVars, pushVars
  <2>2. \A w \in Callers : Owes(w)' = Owes(w)
    BY <2>1, CallersApart, OwingStays DEF Owes, On, NoteKey, Note
  <2>3. PlaceInv'
    BY <2>1 DEF PlaceInv, HandlerPlace, RunPlace, Req, On, NoteKey, Note
  <2> QED
    BY <2>1, <2>2, <2>3 DEF Effect, Quiet
<1>2. ASSUME NEW p \in Polls, BeginRun(p) PROVE PlaceInv' /\ Effect
  <2>1. poll \in [Polls -> Poll] /\ UNCHANGED normalizerVars /\ poll[p].pc = "idle"
    BY <1>2 DEF BeginRun, rest, On, TypeInv, PollsOK, PollTypeOK
  <2>2. poll'[p].pc = "next" /\ \A q \in Polls \ {p} : poll'[q] = poll[q]
    BY <1>2, <2>1 DEF BeginRun, Poll
  <2> QED
    BY <1>u, <2>1, <2>2, PullQuiet
<1>3. ASSUME NEW p \in Polls, RunPoll(p) PROVE PlaceInv' /\ Effect
  BY <1>u, <1>3, RunEffect
<1>4. ASSUME NEW p \in Polls, PollFault(p) PROVE PlaceInv' /\ Effect
  <2>0. poll \in [Polls -> Poll] /\ p \in Workers /\ p \in Callers /\ RunPlace(p)
        /\ work \in [Workers -> Call]
    BY CallersApart DEF TypeInv, PollsOK, PollTypeOK, PlaceInv, NormalizerOK
  <2>1. CASE StateRaises(p)
    BY <1>u, <2>1, PullQuiet, LeaveFacts DEF StateRaises, rest, On
  <2>2. CASE Undecryptable(p)
    <3>1. poll[p].pc = "next" /\ UNCHANGED normalizerVars
      BY <2>2 DEF Undecryptable, rest, On
    <3>2. poll'[p].pc = "next" /\ \A q \in Polls \ {p} : poll'[q] = poll[q]
      BY <2>0, <2>2, <3>1 DEF Undecryptable, Poll
    <3> QED
      BY <1>u, <3>1, <3>2, PullQuiet
  <2>3. CASE FetchFails(p)
    BY <1>u, <2>3, PullQuiet, LeaveFacts DEF FetchFails, rest, On
  <2>4. CASE WriteRaises(p)
    BY <1>u, <2>4, PullQuiet, LeaveFacts DEF WriteRaises, rest, On
  <2>5. CASE ExceptRaises(p)
    BY <1>u, <2>5, PullQuiet, LeaveFacts DEF ExceptRaises, rest, On
  <2>6. CASE NormalizeRaises(p)
    <3>1. Raise(p) /\ poll' = poll /\ work[p].pc # "none"
      BY <2>6 DEF NormalizeRaises, Raise, pollVars
    <3>2. work'[p].key = work[p].key /\ \A w \in Workers \ {p} : work'[w] = work[w]
      BY <2>0, <3>1 DEF Raise, Call
    <3>3. RunPlace(p)' /\ On(p, "normalize")
      BY <2>0, <3>1, <3>2 DEF RunPlace, On, NoteKey, Note
    <3>4. PlaceInv' /\ OthersOwe(p)
      BY <1>u, <3>1, <3>2, <3>3, PullPlace, PullLeavesOthers
    <3>5. Owes(p) = Owing(p) \cup {} /\ Owes(p)' = Owing(p)' \cup {}
      BY <3>1, <3>3, OwesParts, OwesPartsNext DEF On
    <3> QED
      BY <2>0, <3>1, <3>4, <3>5, RaiseEffect
  <2>7. CASE RunDies(p)
    <3>1. /\ work' = [work EXCEPT ![p] = NoCall] /\ poll' = [poll EXCEPT ![p] = NoPoll]
          /\ UNCHANGED <<signals, triggers>> /\ lost' = lost \cup PollOwes(p)
      BY <2>7 DEF RunDies, Returned, ScheduleFails
    <3>2. work'[p] = NoCall /\ \A w \in Workers \ {p} : work'[w] = work[w]
      BY <2>0, <3>1
    <3>3. poll'[p].pc = "idle" /\ \A q \in Polls \ {p} : poll'[q] = poll[q]
      BY <3>1, LeaveFacts
    <3>4. RunPlace(p)'
      BY <3>2 DEF RunPlace, NoCall
    <3>5. PlaceInv' /\ OthersOwe(p)
      BY <1>u, <3>2, <3>3, <3>4, PullPlace, PullLeavesOthers
    <3>6. Owes(p)' = {}
      BY <2>0, <3>2, <3>3, OwesPartsNext, OwingNothing DEF On
    <3>7. Drops(p)
      BY <3>1, <3>5, <3>6, OwesParts DEF Drops
    <3> QED
      BY <2>0, <3>5, <3>7 DEF Effect
  <2> QED
    BY <1>4, <2>1, <2>2, <2>3, <2>4, <2>5, <2>6, <2>7 DEF PollFault
<1> QED
  BY <1>1, <1>2, <1>3, <1>4 DEF Pull, PollNext

LEMMA PlaceStep ==
  ASSUME TypeInv, PlaceInv, [Next]_vars
  PROVE  PlaceInv' /\ Effect
<1>1. CASE Next
  BY <1>1, PushEffect, PullEffect DEF Next
<1>2. CASE UNCHANGED vars
  <2>1. UNCHANGED <<handler, poll, work, signals, triggers, lost>>
    BY <1>2 DEF vars, normalizerVars, pushVars, pollVars
  <2>2. \A w \in Callers : Owes(w)' = Owes(w)
    BY <2>1, CallersApart, OwingStays DEF Owes, On, NoteKey, Note
  <2>3. PlaceInv'
    BY <2>1 DEF PlaceInv, HandlerPlace, RunPlace, Req, On, NoteKey, Note
  <2> QED
    BY <2>1, <2>2, <2>3 DEF Effect, Quiet
<1> QED
  BY <1>1, <1>2

-----------------------------------------------------------------------------
(* Triggers.  What is owed is a stored signal that nobody has asked for yet, and *)
(* one caller owes it; what nobody owes any more has been heard or is lost.      *)

DutyInv ==
    /\ \A w \in Callers : \A k \in Owes(w) :
         signals[k].stored /\ signals[k].account # None /\ triggers[k] = 0
    /\ \A v, w \in Callers : v # w => Owes(v) \cap Owes(w) = {}
    /\ \A k \in SignalKeys : ~signals[k].stored => triggers[k] = 0
    /\ TriggeredOnce
    /\ \A k \in SignalKeys :
         signals[k].stored /\ signals[k].account # None
           => signals[k].heard \/ k \in lost \/ \E w \in Callers : k \in Owes(w)

LEMMA OwesType ==
  ASSUME TypeInv, NEW w \in Callers
  PROVE  Owes(w) \subseteq SignalKeys
<1>1. CASE w \in Instances
  BY <1>1, OwesParts, SetAsideType DEF TypeInv
<1>2. CASE w \in Polls
  BY <1>2, OwesParts, PollOwesType DEF TypeInv
<1> QED
  BY <1>1, <1>2 DEF Callers

LEMMA DutyInit == Init => DutyInv
<1> SUFFICES ASSUME Init PROVE DutyInv
  OBVIOUS
<1>1. \A w \in Callers : Owes(w) = {}
  BY CallersApart
     DEF Init, NormalizerInit, PushInit, PollInit, Owes, Owing, NewlyRouted, NoCall, Idle, On, NoPoll
<1>2. \A k \in SignalKeys : ~signals[k].stored /\ triggers[k] = 0
  BY DEF Init, NormalizerInit, NoSignal
<1> QED
  BY <1>1, <1>2 DEF DutyInv, TriggeredOnce

\* A row once stored stays, with its account; so does the record of a loss.
LEMMA RowsStay ==
  ASSUME TypeInv, DutyInv, Effect
  PROVE  /\ \A k \in SignalKeys : signals[k].stored =>
              /\ signals'[k].stored
              /\ signals'[k].account = signals[k].account
              /\ signals[k].heard => signals'[k].heard
         /\ lost \subseteq lost'
<1>0. signals \in [SignalKeys -> SignalRow]
  BY DEF TypeInv, NormalizerOK
<1>1. CASE Quiet
  BY <1>1 DEF Quiet
<1>2. ASSUME NEW w \in Callers, Inserts(w)
      PROVE  /\ \A k \in SignalKeys : signals[k].stored =>
                  /\ signals'[k].stored
                  /\ signals'[k].account = signals[k].account
                  /\ signals[k].heard => signals'[k].heard
             /\ lost \subseteq lost'
  BY <1>0, <1>2 DEF Inserts
<1>3. ASSUME NEW w \in Callers, Drops(w)
      PROVE  signals' = signals /\ lost \subseteq lost'
  BY <1>3 DEF Drops
<1>4. ASSUME NEW w \in Callers, Hears(w)
      PROVE  /\ \A k \in SignalKeys : signals[k].stored =>
                  /\ signals'[k].stored
                  /\ signals'[k].account = signals[k].account
                  /\ signals[k].heard => signals'[k].heard
             /\ lost \subseteq lost'
  <2>1. PICK k \in Owes(w) : Schedule(k)
    BY <1>4 DEF Hears
  <2>2. \A j \in SignalKeys : /\ signals'[j].stored = signals[j].stored
                              /\ signals'[j].account = signals[j].account
                              /\ signals[j].heard => signals'[j].heard
    BY <1>0, <2>1 DEF Schedule, SignalRow
  <2> QED
    BY <2>1, <2>2 DEF Schedule
<1> QED
  BY <1>1, <1>2, <1>3, <1>4 DEF Effect

LEMMA DutyStep ==
  ASSUME TypeInv, DutyInv, Effect
  PROVE  DutyInv'
<1>0. /\ signals \in [SignalKeys -> SignalRow] /\ triggers \in [SignalKeys -> Nat]
      /\ \A w \in Callers : Owes(w) \subseteq SignalKeys
  BY OwesType DEF TypeInv, NormalizerOK
<1>1. CASE Quiet
  BY <1>1 DEF Quiet, DutyInv, TriggeredOnce
<1>2. ASSUME NEW w \in Callers, Inserts(w) PROVE DutyInv'
  <2>1. PICK k \in SignalKeys, row \in SignalRow :
          /\ ~signals[k].stored
          /\ row.stored /\ ~row.heard
          /\ signals' = [signals EXCEPT ![k] = row]
          /\ UNCHANGED <<triggers, lost>>
          /\ Owes(w)' = Owes(w) \cup (IF row.account = None THEN {} ELSE {k})
          /\ \A v \in Callers \ {w} : Owes(v)' = Owes(v)
    BY <1>2 DEF Inserts, OthersOwe
  <2>2. /\ triggers[k] = 0 /\ \A v \in Callers : k \notin Owes(v)
        /\ signals'[k] = row /\ \A j \in SignalKeys \ {k} : signals'[j] = signals[j]
    BY <1>0, <2>1 DEF DutyInv
  <2>3. \A v \in Callers : \A j \in Owes(v)' :
          signals'[j].stored /\ signals'[j].account # None /\ triggers'[j] = 0
    <3> SUFFICES ASSUME NEW v \in Callers, NEW j \in Owes(v)'
                 PROVE  signals'[j].stored /\ signals'[j].account # None /\ triggers'[j] = 0
      OBVIOUS
    <3>1. CASE j \in Owes(v)
      BY <1>0, <2>1, <2>2, <3>1 DEF DutyInv
    <3>2. CASE j \notin Owes(v)
      BY <2>1, <2>2, <3>2
    <3> QED
      BY <3>1, <3>2
  <2>4. \A v, u \in Callers : v # u => Owes(v)' \cap Owes(u)' = {}
    <3> SUFFICES ASSUME NEW v \in Callers, NEW u \in Callers, v # u
                 PROVE  Owes(v)' \cap Owes(u)' = {}
      OBVIOUS
    <3>1. Owes(v) \cap Owes(u) = {} /\ k \notin Owes(v) /\ k \notin Owes(u)
      BY <2>2 DEF DutyInv
    <3>2. CASE v = w
      BY <2>1, <3>1, <3>2
    <3>3. CASE u = w
      BY <2>1, <3>1, <3>3
    <3>4. CASE v # w /\ u # w
      BY <2>1, <3>1, <3>4
    <3> QED
      BY <3>2, <3>3, <3>4
  <2>5. \A j \in SignalKeys : ~signals'[j].stored => triggers'[j] = 0
    BY <2>1, <2>2 DEF DutyInv
  <2>6. TriggeredOnce'
    BY <2>1 DEF DutyInv, TriggeredOnce
  <2>7. \A j \in SignalKeys :
          signals'[j].stored /\ signals'[j].account # None
            => signals'[j].heard \/ j \in lost' \/ \E v \in Callers : j \in Owes(v)'
    <3> SUFFICES ASSUME NEW j \in SignalKeys, signals'[j].stored, signals'[j].account # None
                 PROVE  signals'[j].heard \/ j \in lost' \/ \E v \in Callers : j \in Owes(v)'
      OBVIOUS
    <3>1. CASE j = k
      BY <2>1, <2>2, <3>1
    <3>2. CASE j # k
      <4>1. signals[j].heard \/ j \in lost \/ \E v \in Callers : j \in Owes(v)
        BY <2>2, <3>2 DEF DutyInv
      <4> QED
        BY <2>1, <2>2, <3>2, <4>1
    <3> QED
      BY <3>1, <3>2
  <2> QED
    BY <2>3, <2>4, <2>5, <2>6, <2>7 DEF DutyInv
<1>3. ASSUME NEW w \in Callers, Drops(w) PROVE DutyInv'
  <2>1. /\ UNCHANGED <<signals, triggers>> /\ lost \subseteq lost'
        /\ Owes(w)' \subseteq Owes(w) /\ Owes(w) \subseteq Owes(w)' \cup lost'
        /\ \A v \in Callers \ {w} : Owes(v)' = Owes(v)
    BY <1>3 DEF Drops, OthersOwe
  <2>2. \A v \in Callers : Owes(v)' \subseteq Owes(v) /\ Owes(v) \subseteq Owes(v)' \cup lost'
    BY <2>1
  <2>3. \A v \in Callers : \A k \in Owes(v)' :
          signals'[k].stored /\ signals'[k].account # None /\ triggers'[k] = 0
    BY <2>1, <2>2 DEF DutyInv
  <2>4. \A v, u \in Callers : v # u => Owes(v)' \cap Owes(u)' = {}
    BY <2>2 DEF DutyInv
  <2>5. \A k \in SignalKeys :
          signals'[k].stored /\ signals'[k].account # None
            => signals'[k].heard \/ k \in lost' \/ \E v \in Callers : k \in Owes(v)'
    BY <2>1, <2>2 DEF DutyInv
  <2> QED
    BY <2>1, <2>3, <2>4, <2>5 DEF DutyInv, TriggeredOnce
<1>4. ASSUME NEW w \in Callers, Hears(w) PROVE DutyInv'
  <2>1. PICK k \in Owes(w) :
          /\ Schedule(k)
          /\ Owes(w)' \subseteq Owes(w) \ {k}
          /\ \A j \in Owes(w) \ Owes(w)' : signals[j].account = signals[k].account
          /\ \A v \in Callers \ {w} : Owes(v)' = Owes(v)
    BY <1>4 DEF Hears, OthersOwe
  <2>2. /\ k \in SignalKeys /\ triggers[k] = 0 /\ lost' = lost
        /\ triggers'[k] = 1 /\ \A j \in SignalKeys \ {k} : triggers'[j] = triggers[j]
    BY <1>0, <2>1 DEF DutyInv, Schedule
  <2>3. \A j \in SignalKeys :
          /\ signals'[j].stored = signals[j].stored
          /\ signals'[j].account = signals[j].account
          /\ signals[j].heard => signals'[j].heard
          /\ signals[j].stored /\ signals[j].account = signals[k].account => signals'[j].heard
    BY <1>0, <2>1 DEF Schedule, SignalRow
  <2>4. \A v \in Callers : Owes(v)' \subseteq Owes(v) /\ k \notin Owes(v)'
    BY <2>1 DEF DutyInv
  <2>5. \A v \in Callers : \A j \in Owes(v)' :
          signals'[j].stored /\ signals'[j].account # None /\ triggers'[j] = 0
    <3> SUFFICES ASSUME NEW v \in Callers, NEW j \in Owes(v)'
                 PROVE  signals'[j].stored /\ signals'[j].account # None /\ triggers'[j] = 0
      OBVIOUS
    <3>1. j \in Owes(v) /\ j # k /\ j \in SignalKeys
      BY <1>0, <2>4
    <3> QED
      BY <2>2, <2>3, <3>1 DEF DutyInv
  <2>6. \A v, u \in Callers : v # u => Owes(v)' \cap Owes(u)' = {}
    BY <2>4 DEF DutyInv
  <2>7. \A j \in SignalKeys : ~signals'[j].stored => triggers'[j] = 0
    <3> SUFFICES ASSUME NEW j \in SignalKeys, ~signals'[j].stored PROVE triggers'[j] = 0
      OBVIOUS
    <3>1. ~signals[j].stored /\ j # k
      BY <2>1, <2>3 DEF DutyInv
    <3> QED
      BY <2>2, <3>1 DEF DutyInv
  <2>8. TriggeredOnce'
    <3> SUFFICES ASSUME NEW j \in SignalKeys PROVE triggers'[j] <= 1
      BY DEF TriggeredOnce
    <3> QED
      BY <1>0, <2>2 DEF DutyInv, TriggeredOnce
  <2>9. \A j \in SignalKeys :
          signals'[j].stored /\ signals'[j].account # None
            => signals'[j].heard \/ j \in lost' \/ \E v \in Callers : j \in Owes(v)'
    <3> SUFFICES ASSUME NEW j \in SignalKeys, signals'[j].stored, signals'[j].account # None
                 PROVE  signals'[j].heard \/ j \in lost' \/ \E v \in Callers : j \in Owes(v)'
      OBVIOUS
    <3>1. signals[j].heard \/ j \in lost \/ \E v \in Callers : j \in Owes(v)
      BY <2>3 DEF DutyInv
    <3>2. CASE j \in Owes(w) \ Owes(w)'
      BY <2>1, <2>3, <3>2
    <3>3. CASE j \notin Owes(w) \/ j \in Owes(w)'
      BY <2>1, <2>2, <2>3, <3>1, <3>3
    <3> QED
      BY <3>2, <3>3
  <2> QED
    BY <2>5, <2>6, <2>7, <2>8, <2>9 DEF DutyInv
<1> QED
  BY <1>1, <1>2, <1>3, <1>4 DEF Effect

DutyIInv == TypeInv /\ PlaceInv /\ DutyInv

LEMMA DutyIInit == Init => DutyIInv
BY TypeInit, PlaceInit, DutyInit DEF DutyIInv

LEMMA DutyIStep == DutyIInv /\ [Next]_vars => DutyIInv'
BY TypeStep, PlaceStep, DutyStep DEF DutyIInv

\* insert_signal reports every delivery after the first as a duplicate, and one caller
\* at most holds a new signal: no signal is triggered twice.
THEOREM IntakeTriggersOnce == Spec => []TriggeredOnce
<1>1. DutyIInv => TriggeredOnce
  BY DEF DutyIInv, DutyInv
<1> QED
  BY <1>1, DutyIInit, DutyIStep, PTL DEF Spec

\* Whatever batches, tickets and polls interleave, a routed signal is followed by a
\* call of schedule_regen for its account, is still owed, or a fault swallowed it.
THEOREM IntakeIsHeard == Spec => []RoutedIsHeard
<1>1. DutyIInv => RoutedIsHeard
  <2> SUFFICES ASSUME DutyIInv, NEW k \in SignalKeys, signals[k].stored,
                      signals[k].account # None
               PROVE  signals[k].heard \/ k \in Owed \/ k \in lost
    BY DEF RoutedIsHeard
  <2>1. signals[k].heard \/ k \in lost \/ \E w \in Callers : k \in Owes(w)
    BY DEF DutyIInv, DutyInv
  <2>2. ASSUME NEW w \in Callers, k \in Owes(w) PROVE k \in Owed
    BY <2>2, OwesParts DEF Callers, Owed
  <2> QED
    BY <2>1, <2>2
<1> QED
  BY <1>1, DutyIInit, DutyIStep, PTL DEF Spec

-----------------------------------------------------------------------------
(* What is accepted is stored: the rows a call has stored, a handler has counted *)
(* and a sender was told of.                                                     *)

StoredInv ==
    /\ \A w \in Callers : work[w].pc = "stored" => signals[work[w].key].stored
    /\ \A i \in Instances : \A k \in handler[i].accepted : signals[k].stored
    /\ AcceptedIsStored

\* A call stores its row before it says so.
CallsStore ==
    \A w \in Callers : work'[w].pc = "stored" =>
        \/ work[w].pc = "stored" /\ work'[w].key = work[w].key
        \/ work'[w].key \in SignalKeys /\ signals'[work'[w].key].stored

\* A handler counts what is stored, and tells its sender what it has counted.
HandlersCount ==
    /\ \A i \in Instances : \A k \in handler'[i].accepted :
         k \in handler[i].accepted \/ (work[i].pc = "stored" /\ k = work[i].key)
    /\ \A r \in Requests : \A k \in sender'[r].reported :
         k \in sender[r].reported \/ \E i \in Instances : k \in handler[i].accepted

LEMMA CallStores ==
  ASSUME TypeInv, NEW w \in Callers, Normalize(w)
  PROVE  CallsStore
<1>1. /\ w \in Workers /\ work \in [Workers -> Call] /\ work[w] \in Call /\ Callers \subseteq Workers
      /\ signals \in [SignalKeys -> SignalRow]
  BY CallersApart DEF TypeInv, NormalizerOK
<1>2. CASE FindContact(w) \/ DiscoverAccount(w) \/ UpsertNewContact(w)
  <2>1. work'[w].pc # "stored" /\ \A v \in Workers \ {w} : work'[v] = work[v]
    BY <1>1, <1>2 DEF FindContact, DiscoverAccount, UpsertNewContact, Resolve, Call
  <2> QED
    BY <1>1, <2>1 DEF CallsStore
<1>3. CASE InsertSignal(w)
  <2>1. work[w].key \in SignalKeys
    BY <1>1, <1>3 DEF InsertSignal, TypeInv, NormalizerOK, CallOK
  <2>2. work'[w].key = work[w].key /\ \A v \in Workers \ {w} : work'[v] = work[v]
    BY <1>1, <1>3 DEF InsertSignal, Call
  <2>3. signals'[work[w].key].stored
    BY <1>1, <1>3, <2>1 DEF InsertSignal, NoSignal
  <2> QED
    BY <1>1, <2>1, <2>2, <2>3 DEF CallsStore
<1> QED
  BY <1>2, <1>3 DEF Normalize

\* Other steps end a call, begin one, or leave all of them.
LEMMA CallsRest ==
  ASSUME TypeInv, NEW w \in Workers,
         \/ Returned(w)
         \/ Raise(w)
         \/ \E i \in Items : \E post \in 1 .. MaxPosts : Called(w, i, post)
         \/ UNCHANGED work
  PROVE  CallsStore
<1>1. work \in [Workers -> Call] /\ Callers \subseteq Workers
  BY CallersApart DEF TypeInv, NormalizerOK
<1>2. \/ UNCHANGED work
      \/ work'[w].pc # "stored" /\ \A v \in Workers \ {w} : work'[v] = work[v]
  <2>1. CASE Returned(w)
    BY <1>1, <2>1 DEF Returned, NoCall
  <2>2. CASE Raise(w)
    <3>1. work[w] \in Call
      BY <1>1
    <3>2. work' = [work EXCEPT ![w] = [work[w] EXCEPT !.pc = "raised"]]
      BY <2>2 DEF Raise
    <3> QED
      BY <1>1, <3>1, <3>2 DEF Call
  <2>3. ASSUME NEW i \in Items, NEW post \in 1 .. MaxPosts, Called(w, i, post)
        PROVE  work'[w].pc # "stored" /\ \A v \in Workers \ {w} : work'[v] = work[v]
    BY <1>1, <2>3 DEF Called, NoCall
  <2> QED
    BY <2>1, <2>2, <2>3
<1> QED
  BY <1>1, <1>2 DEF CallsStore

LEMMA RespondCounts ==
  ASSUME TypeInv, NEW i \in Instances, ~At(i, "idle"), NEW state,
         NEW reported \in SUBSET handler[i].accepted, Respond(i, state, reported)
  PROVE  HandlersCount
<1> DEFINE r == handler[i].request
<1>1. /\ r \in Requests /\ sender \in [Requests -> Sender] /\ handler \in [Instances -> Handler]
  BY DEF TypeInv, PushOK, PushTypeOK, HandlerOK, At
<1>2. /\ handler'[i].accepted = {}
      /\ \A j \in Instances \ {i} : handler'[j] = handler[j]
  BY <1>1 DEF Respond, Idle
<1>3. \A x \in Requests : sender'[x].reported = sender[x].reported \/ sender'[x].reported = reported
  <2>1. CASE sender' = sender
    BY <2>1
  <2>2. CASE sender' = [sender EXCEPT ![r].state = state, ![r].reported = reported]
    BY <1>1, <2>2 DEF Sender
  <2> QED
    BY <2>1, <2>2 DEF Respond
<1> QED
  BY <1>2, <1>3 DEF HandlersCount

\* A step that touches neither what is counted nor what was reported.
LEMMA CountsStay ==
  ASSUME \A i \in Instances : handler'[i].accepted = handler[i].accepted,
         \A r \in Requests : sender'[r].reported = sender[r].reported
  PROVE  HandlersCount
BY DEF HandlersCount

LEMMA PushStores ==
  ASSUME TypeInv, Push
  PROVE  CallsStore /\ HandlersCount
<1>0. /\ handler \in [Instances -> Handler] /\ sender \in [Requests -> Sender]
      /\ \A i \in Instances : i \in Workers /\ i \in Callers
  BY CallersApart DEF TypeInv, PushOK, PushTypeOK
<1>f. ASSUME NEW i \in Instances, ~At(i, "idle"), Refusal(i) \/ Shrug(i) PROVE HandlersCount
  BY <1>f, RespondCounts DEF Refusal, Shrug
<1>n. ASSUME UNCHANGED normalizerVars, NEW i \in Instances PROVE CallsStore
  BY <1>0, <1>n, CallsRest DEF normalizerVars
<1>1. ASSUME NEW r \in Requests, TimeOut(r) PROVE CallsStore /\ HandlersCount
  <2>1. work' = work /\ handler' = handler
    BY <1>1 DEF TimeOut, normalizerVars
  <2>2. \A x \in Requests : sender'[x].reported = sender[x].reported
    BY <1>0, <1>1 DEF TimeOut, Sender
  <2> QED
    BY <2>1, <2>2, CountsStay DEF CallsStore
<1>2. ASSUME NEW r \in Requests, NEW i \in Instances, Post(r, i) PROVE CallsStore /\ HandlersCount
  <2>1. \A x \in Requests : sender'[x].reported = sender[x].reported
    BY <1>0, <1>2 DEF Post, Sender
  <2>2. \A j \in Instances : handler'[j].accepted = handler[j].accepted
    BY <1>0, <1>2 DEF Post, Handler
  <2> QED
    BY <1>n, <1>2, <2>1, <2>2, CountsStay DEF Post
<1>3. ASSUME NEW i \in Instances, HandleRequest(i) PROVE CallsStore /\ HandlersCount
  <2>g. ASSUME NEW pc, Goto(i, pc), UNCHANGED sender PROVE HandlersCount
    <3>1. \A j \in Instances : handler'[j].accepted = handler[j].accepted
      BY <1>0, <2>g DEF Goto, Handler
    <3> QED
      BY <2>g, <3>1, CountsStay
  <2>1. CASE RejectKey(i)
    BY <2>1, <1>n, <1>f DEF RejectKey, At
  <2>2. CASE RateLimited(i)
    BY <2>2, <1>n, <1>f DEF RateLimited, AcceptsKey, At
  <2>3. CASE AdmitBatch(i)
    BY <2>3, <1>n, <1>f, <2>g DEF AdmitBatch, AcceptsKey, At
  <2>4. CASE RejectTicket(i)
    BY <2>4, <1>n, <1>f DEF RejectTicket, At
  <2>5. CASE IgnoreTicket(i)
    BY <2>5, <1>n, <1>f DEF IgnoreTicket, At
  <2>6. CASE AcceptTicket(i)
    BY <2>6, <1>n, <2>g DEF AcceptTicket, At
  <2>7. CASE SkipInvalid(i)
    <3>1. \A j \in Instances : handler'[j].accepted = handler[j].accepted
      BY <1>0, <2>7 DEF SkipInvalid, Handler
    <3> QED
      BY <2>7, <1>n, <3>1, CountsStay DEF SkipInvalid
  <2>8. CASE NormalizeNext(i)
    <3>1. ~At(i, "idle")
      BY <2>8 DEF NormalizeNext, At
    <3>2. Item(i) \in Items /\ handler[i].post \in 1 .. MaxPosts
      BY <2>8, <3>1, ItemsOfRequest DEF NormalizeNext, TypeInv
    <3> QED
      BY <1>0, <2>8, <2>g, <3>2, CallsRest DEF NormalizeNext
  <2>9. CASE NormalizerStep(i)
    BY <1>0, <2>9, CallStores, CountsStay DEF NormalizerStep, pushVars
  <2>10. CASE Collect(i)
    <3>1. CallsStore
      BY <1>0, <2>10, CallsRest DEF Collect
    <3> DEFINE g == [handler[i] EXCEPT !.pc = "items", !.index = @ + 1,
                       !.accepted = @ \cup {work[i].key},
                       !.affected = IF NewlyRouted(i) THEN @ \cup {work[i].key} ELSE @]
    <3>2. handler' = [handler EXCEPT ![i] = g] /\ sender' = sender /\ work[i].pc = "stored"
      BY <2>10 DEF Collect
    <3>3. g.accepted = handler[i].accepted \cup {work[i].key}
      BY <1>0 DEF Handler
    <3> HIDE DEF g
    <3>4. /\ handler'[i].accepted = handler[i].accepted \cup {work[i].key}
          /\ \A j \in Instances \ {i} : handler'[j] = handler[j]
      BY <1>0, <3>2, <3>3
    <3> QED
      BY <3>1, <3>2, <3>4 DEF HandlersCount
  <2>11. CASE CollectFailure(i)
    <3>1. CallsStore
      BY <1>0, <2>11, CallsRest DEF CollectFailure
    <3>2. CASE Req(i).route = "event"
      <4>1. /\ handler' = [handler EXCEPT ![i] = [handler[i] EXCEPT !.pc = "items", !.index = @ + 1]]
            /\ sender' = sender
        BY <2>11, <3>2 DEF CollectFailure
      <4>2. \A j \in Instances : handler'[j].accepted = handler[j].accepted
        BY <1>0, <4>1 DEF Handler
      <4> QED
        BY <3>1, <4>1, <4>2, CountsStay
    <3>3. CASE Req(i).route # "event"
      BY <2>11, <3>1, <3>3, <1>f DEF CollectFailure, At
    <3> QED
      BY <3>2, <3>3
  <2>12. CASE ScheduleBatch(i)
    <3>1. PICK S : handler' = [handler EXCEPT ![i] = [handler[i] EXCEPT !.affected = @ \ S]]
      BY <2>12 DEF ScheduleBatch
    <3>2. \A j \in Instances : handler'[j].accepted = handler[j].accepted
      BY <1>0, <3>1 DEF Handler
    <3> QED
      BY <1>0, <2>12, <3>2, CallsRest, CountsStay DEF ScheduleBatch
  <2>13. CASE Answer(i)
    BY <2>13, <1>n, RespondCounts DEF Answer, At
  <2> QED
    BY <1>3, <2>1, <2>2, <2>3, <2>4, <2>5, <2>6, <2>7, <2>8, <2>9, <2>10, <2>11, <2>12, <2>13
       DEF HandleRequest
<1>4. ASSUME NEW i \in Instances, NormalizerRaises(i) PROVE CallsStore /\ HandlersCount
  BY <1>0, <1>4, CallsRest, CountsStay DEF NormalizerRaises, pushVars
<1>5. ASSUME NEW i \in Instances, Die(i) PROVE CallsStore /\ HandlersCount
  BY <1>0, <1>5, CallsRest, RespondCounts DEF Die
<1>6. ASSUME NEW route \in connected, Disconnect(route) PROVE CallsStore /\ HandlersCount
  BY <1>6, CountsStay DEF Disconnect, normalizerVars, CallsStore
<1>7. ASSUME NEW a \in Accounts, OpenAccount(a) PROVE CallsStore /\ HandlersCount
  BY <1>7, CountsStay DEF OpenAccount, CreateAccount, pushVars, CallsStore
<1>8. CASE PassTime
  BY <1>8, CountsStay DEF PassTime, pushVars, normalizerVars, CallsStore
<1> QED
  BY <1>1, <1>2, <1>3, <1>4, <1>5, <1>6, <1>7, <1>8 DEF Push

LEMMA PullStores ==
  ASSUME TypeInv, Pull
  PROVE  CallsStore /\ HandlersCount
<1>1. HandlersCount
  BY CountsStay DEF Pull, pushVars
<1>2. ASSUME NEW p \in Polls,
             \/ Normalize(p) \/ Returned(p) \/ Raise(p) \/ UNCHANGED work
             \/ \E i \in Items : \E post \in 1 .. MaxPosts : Called(p, i, post)
      PROVE  CallsStore
  BY <1>2, CallersApart, CallStores, CallsRest
<1>3. ASSUME NEW p \in Polls, ParseNote(p) PROVE CallsStore
  <2>1. CASE work' = work
    BY <1>2, <2>1
  <2>2. CASE Called(p, Note(p), 1)
    <3>1. Note(p) \in Items
      BY <1>3, NoteFacts DEF ParseNote, On, TypeInv
    <3> QED
      BY <1>2, <2>2, <3>1, KeyTypes
  <2> QED
    BY <1>3, <2>1, <2>2 DEF ParseNote
<1>4. ASSUME NEW p \in Polls, BeginRun(p) \/ RunPoll(p) \/ PollFault(p) PROVE CallsStore
  BY <1>2, <1>3, <1>4
     DEF BeginRun, RunPoll, EndRun, NextCredential, CreateState, FetchPage, NormalizeNote,
         CollectNote, ScheduleNote, AdvanceCursor, RecordPollSuccess, ClearCredentialError,
         MarkCredentialError, ReadErrors, RecordPollError, MaybeDeactivate, PollFault,
         StateRaises, Undecryptable, FetchFails, WriteRaises, ExceptRaises, NormalizeRaises,
         RunDies, rest, normalizerVars
<1>5. ASSUME NEW c \in Credentials, Publish(c) PROVE CallsStore
  BY <1>5 DEF Publish, normalizerVars, CallsStore
<1> QED
  BY <1>1, <1>4, <1>5 DEF Pull, PollNext

LEMMA StoredInit == Init => StoredInv
<1> SUFFICES ASSUME Init PROVE StoredInv
  OBVIOUS
<1>1. \A w \in Callers : work[w].pc = "none"
  BY CallersApart DEF Init, NormalizerInit, NoCall
<1>2. \A i \in Instances : handler[i].accepted = {}
  BY DEF Init, PushInit, Idle
<1>3. \A r \in Requests : sender[r].reported = {}
  BY DEF Init, PushInit
<1> QED
  BY <1>1, <1>2, <1>3 DEF StoredInv, AcceptedIsStored

LEMMA StoredStep ==
  ASSUME DutyIInv, StoredInv, [Next]_vars
  PROVE  StoredInv'
<1>1. TypeInv /\ \A k \in SignalKeys : signals[k].stored => signals'[k].stored
  BY PlaceStep, RowsStay DEF DutyIInv
<1>2. CASE Next
  <2>1. CallsStore /\ HandlersCount
    BY <1>1, <1>2, PushStores, PullStores DEF Next
  <2>2. /\ \A w \in Callers : work[w].pc = "stored" => work[w].key \in SignalKeys
        /\ \A i \in Instances : handler[i].accepted \subseteq SignalKeys
        /\ \A r \in Requests : sender[r].reported \subseteq SignalKeys
    BY <1>1, CallersApart
       DEF TypeInv, NormalizerOK, CallOK, PushOK, PushTypeOK, Handler, Sender
  <2>3. \A i \in Instances : i \in Callers
    BY CallersApart
  <2>4. \A w \in Callers : work'[w].pc = "stored" => signals'[work'[w].key].stored
    BY <1>1, <2>1, <2>2 DEF CallsStore, StoredInv
  <2>5. \A i \in Instances : \A k \in handler'[i].accepted : signals'[k].stored
    BY <1>1, <2>1, <2>2, <2>3 DEF HandlersCount, StoredInv
  <2>6. \A r \in Requests : \A k \in sender'[r].reported : signals'[k].stored
    BY <1>1, <2>1, <2>2 DEF HandlersCount, StoredInv, AcceptedIsStored
  <2> QED
    BY <2>4, <2>5, <2>6 DEF StoredInv, AcceptedIsStored
<1>3. CASE UNCHANGED vars
  BY <1>3 DEF vars, normalizerVars, pushVars, StoredInv, AcceptedIsStored
<1> QED
  BY <1>2, <1>3

\* A sender whose events were counted as accepted finds each of them in the table.
THEOREM IntakeStoresAccepted == Spec => []AcceptedIsStored
<1>1. StoredInv => AcceptedIsStored
  BY DEF StoredInv
<1> QED
  BY <1>1, DutyIInit, DutyIStep, StoredInit, StoredStep, PTL DEF Spec
=============================================================================
