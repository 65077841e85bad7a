-------------------------- MODULE IngestionProofs --------------------------
(***************************************************************************)
(* Proofs about Ingestion, for every set of mails and accounts and any     *)
(* number of posts, failures and decisions: the type invariant, and that   *)
(* SendGrid forgets only mails whose signal has been routed.               *)
(***************************************************************************)
EXTENDS Ingestion, FiniteSetTheorems, TLAPS

-----------------------------------------------------------------------------
(* Routing decisions. *)

Decision == [account : Maybe(Ids), method : Methods, discover : Maybe(Domains)]

LEMMA DecisionTypes ==
  ASSUME NEW k \in Methods
  PROVE  /\ \A id \in Maybe(Ids) : To(id, k) \in Decision
         /\ \A d \in Domains : Discover(d, k) \in Decision
BY DEF Decision, To, Discover, Maybe

\* Every stage decides for a listed account, an inherited one or a known domain.
LEMMA StageTypes ==
  ASSUME NEW mail \in Message, NEW listed \in SUBSET Listed, NEW thread \in Thread
  PROVE  /\ OutboundBcc(mail, listed) \subseteq Decision
         /\ PlusAddressing(mail, listed) \subseteq Decision
         /\ HeaderDomain(mail, listed) \subseteq Decision
         /\ ForwardParse(mail, listed) \subseteq Decision
         /\ ThreadInherit(thread) \subseteq Decision
         /\ AutoDiscovery(mail) \subseteq Decision
         /\ {To(None, "unmatched")} \subseteq Decision
<1>1. \A S \in SUBSET listed, k \in Methods : RoutedTo(S, k) \subseteq Decision
  <2> SUFFICES ASSUME NEW S \in SUBSET listed, NEW k \in Methods, NEW a \in S
               PROVE  To(a.id, k) \in Decision
    BY DEF RoutedTo
  <2>1. a.id \in Maybe(Ids)
    BY DEF Listed, Maybe
  <2> QED
    BY <2>1, DecisionTypes
<1>2. \A D : Owners(D, listed) \in SUBSET listed
  BY DEF Owners
<1>3. mail.from \in Domains /\ \A i \in DOMAIN mail.to : mail.to[i] \in Domains
  BY DEF Message
<1>4. OutboundBcc(mail, listed) \subseteq Decision
  <2> DEFINE outside == {i \in DOMAIN mail.to : ~IsInternal(mail.to[i])}
             first == {i \in outside : \A k \in outside : i <= k}
  <2>1. \A i \in first : Discover(mail.to[i], "outbound_bcc") \in Decision
    BY <1>3, DecisionTypes DEF Methods
  <2>2. RoutedTo(Owners({mail.to[i] : i \in outside}, listed), "outbound_bcc")
           \subseteq Decision
    BY <1>1, <1>2 DEF Methods
  <2> QED
    BY <2>1, <2>2 DEF OutboundBcc
<1>5. PlusAddressing(mail, listed) \subseteq Decision
  BY <1>1 DEF PlusAddressing, Methods
<1>6. \A d : \A k \in Methods : RoutedTo(HeaderOwners(d, mail, listed), k) \subseteq Decision
  BY <1>1, <1>2 DEF HeaderOwners
<1>7. HeaderDomain(mail, listed) \subseteq Decision
  BY <1>6 DEF HeaderDomain, Methods
<1>8. ForwardParse(mail, listed) \subseteq Decision
  BY <1>6 DEF ForwardParse, Methods
<1>9. ThreadInherit(thread) \subseteq Decision
  BY DecisionTypes DEF ThreadInherit, Thread, Methods
<1>10. AutoDiscovery(mail) \subseteq Decision
  BY <1>3, DecisionTypes DEF AutoDiscovery, Methods
<1>11. To(None, "unmatched") \in Decision
  BY DecisionTypes DEF Methods, Maybe
<1> QED
  BY <1>4, <1>5, <1>7, <1>8, <1>9, <1>10, <1>11

\* The last stage always matches, so that some stage is the first to match.
LEMMA RouteType ==
  ASSUME NEW mail \in Message, NEW listed \in SUBSET Listed, NEW thread \in Thread
  PROVE  Route(mail, listed, thread) \subseteq Decision
<1> DEFINE stages == << OutboundBcc(mail, listed),
                        PlusAddressing(mail, listed),
                        HeaderDomain(mail, listed),
                        ForwardParse(mail, listed),
                        ThreadInherit(thread),
                        AutoDiscovery(mail),
                        {To(None, "unmatched")} >>
           First(i) == stages[i] # {} /\ \A k \in 1 .. i - 1 : stages[k] = {}
           first == CHOOSE i \in DOMAIN stages : First(i)
<1>1. DOMAIN stages = 1 .. 7 /\ stages[7] # {}
  OBVIOUS
<1>2. \A i \in 1 .. 7 : stages[i] \subseteq Decision
  BY StageTypes
<1> HIDE DEF stages
<1>3. \E i \in 1 .. 7 : First(i)
  BY <1>1
<1>4. first \in 1 .. 7
  BY <1>1, <1>3
<1>5. Route(mail, listed, thread) = stages[first]
  BY DEF Route, stages
<1> QED
  BY <1>2, <1>4, <1>5

-----------------------------------------------------------------------------
(* Type correctness.  A handler at work has its mail, and only a rejected    *)
(* mail is malformed.                                                        *)

HandlerOK(h) ==
    /\ h \in Handler
    /\ h.pc \in Working => h.mail \in Mails

TypeInv ==
    /\ TypeOK
    /\ \A x \in Posts : HandlerOK(delivery[x])

LEMMA TypeInit == Init => TypeInv
<1> SUFFICES ASSUME Init PROVE TypeInv
  OBVIOUS
<1>1. \A slug \in Slugs : SeedAt(slug) \in Account
  <2> SUFFICES ASSUME NEW slug \in Slugs PROVE SeedAt(slug) \in Account
    OBVIOUS
  <2>1. CASE \E s \in Seeds : s.slug = slug
    <3> DEFINE s == CHOOSE s \in Seeds : s.slug = slug
    <3>1. s \in Seeds
      BY <2>1
    <3> HIDE DEF s
    <3>2. s.id \in Ids /\ s.domain \in Maybe(Domains)
      BY <3>1, IngestionAssumption DEF Ids
    <3>3. SeedAt(slug) = [status |-> "active", id |-> s.id, domain |-> s.domain,
                          deleted |-> FALSE]
      BY <2>1 DEF SeedAt, s
    <3> QED
      BY <3>2, <3>3 DEF Account
  <2>2. CASE ~\E s \in Seeds : s.slug = slug
    BY <2>2 DEF SeedAt, Account
  <2> QED
    BY <2>1, <2>2
<1>2. HandlerOK(NoHandler)
  BY DEF HandlerOK, NoHandler, NoThread, Handler, Thread, Working, Maybe
<1>3. NoHandler \in Handler
  BY <1>2 DEF HandlerOK
<1> QED
  BY <1>1, <1>2, <1>3 DEF Init, TypeInv, TypeOK, Mailbox, SignalRow, Maybe

\* The fields of a handler, and the mail it works on.
LEMMA HandlerFields ==
  ASSUME TypeInv, NEW x \in Posts
  PROVE  /\ delivery[x] \in Handler
         /\ delivery[x].pc \in Working => /\ delivery[x].mail \in Mails
                                          /\ Mail(x) \in Message
BY IngestionAssumption DEF TypeInv, TypeOK, HandlerOK, Mail

\* Replacing the record of one handler.
LEMMA HandlerUpdate ==
  ASSUME TypeInv, NEW x \in Posts, NEW h, HandlerOK(h),
         delivery' = [delivery EXCEPT ![x] = h]
  PROVE  /\ delivery' \in [Posts -> Handler]
         /\ \A y \in Posts : HandlerOK(delivery'[y])
         /\ delivery'[x] = h
         /\ \A y \in Posts \ {x} : delivery'[y] = delivery[y]
BY DEF TypeInv, TypeOK, HandlerOK

\* Moving a handler to another step of its work.
LEMMA GotoType ==
  ASSUME TypeInv, NEW x \in Posts, x \in Busy, NEW pc \in Working, Goto(x, pc)
  PROVE  /\ delivery' \in [Posts -> Handler]
         /\ \A y \in Posts : HandlerOK(delivery'[y])
<1>1. HandlerOK([delivery[x] EXCEPT !.pc = pc])
  BY HandlerFields DEF Busy, HandlerOK, Handler
<1>2. delivery' = [delivery EXCEPT ![x] = [delivery[x] EXCEPT !.pc = pc]]
  BY DEF Goto
<1> QED
  BY <1>1, <1>2, HandlerUpdate

\* The answer to a post.
LEMMA RespondType ==
  ASSUME TypeInv, NEW x \in Busy, NEW state \in {"queued", "acked"}, Respond(x, state)
  PROVE  /\ mailbox' \in [Mails -> Mailbox]
         /\ delivery' \in [Posts -> Handler]
         /\ \A y \in Posts : HandlerOK(delivery'[y])
         /\ delivery'[x].pc \in {"done", "lost"}
         /\ \A y \in Posts \ {x} : delivery'[y] = delivery[y]
         /\ \A m \in Mails : \/ mailbox'[m] = mailbox[m]
                             \/ mailbox'[m].state = state /\ m = delivery[x].mail
<1> DEFINE m == delivery[x].mail
           heard == mailbox[m] = [state |-> "posted", by |-> x]
           end == IF heard \/ state = "acked" THEN "done" ELSE "lost"
           h == [NoHandler EXCEPT !.pc = end, !.mail = m]
<1>1. x \in Posts /\ m \in Mails
  BY HandlerFields DEF Busy
<1>2. \A e \in {"done", "lost"}, n \in Mails :
        LET g == [NoHandler EXCEPT !.pc = e, !.mail = n]
        IN  HandlerOK(g) /\ g.pc = e
  BY DEF NoHandler, HandlerOK, Handler, Working, NoThread, Thread, Maybe
<1>3. HandlerOK(h) /\ h.pc \in {"done", "lost"}
  <2>1. end \in {"done", "lost"}
    OBVIOUS
  <2> HIDE DEF end, m
  <2> QED
    BY <1>1, <1>2, <2>1
<1>4. delivery' = [delivery EXCEPT ![x] = h]
  BY DEF Respond
<1>6. mailbox' \in [Mails -> Mailbox]
  BY <1>1 DEF Respond, TypeInv, TypeOK, Mailbox
<1>7. \A n \in Mails : \/ mailbox'[n] = mailbox[n]
                       \/ mailbox'[n].state = state /\ n = m
  BY <1>1 DEF Respond, TypeInv, TypeOK, Mailbox
<1> HIDE DEF h
<1> QED
  BY <1>1, <1>3, <1>4, <1>6, <1>7, HandlerUpdate

\* What a handler reads: live accounts, and decisions about its mail.
LEMMA Readings ==
  ASSUME TypeInv, NEW x \in Busy
  PROVE  /\ AccountList \subseteq Listed
         /\ \A slug \in Live : accounts[slug].id \in Ids
         /\ \A d : AccountOf(d) \in Maybe(Ids)
         /\ Routes(x) \subseteq Decision
         /\ \A id \in Maybe(Ids) : Fallback(x, id) \in Maybe(Ids)
<1>1. \A slug \in Live : /\ accounts[slug].id \in Ids
                         /\ accounts[slug].domain \in Maybe(Domains)
                         /\ slug \in Slugs
  BY DEF Live, TypeInv, TypeOK, Account, NoAccount
<1>2. AccountList \subseteq Listed
  BY <1>1 DEF AccountList, Listed
<1>3. /\ Mail(x) \in Message
      /\ delivery[x].listed \in SUBSET Listed
      /\ delivery[x].thread \in Thread
  BY HandlerFields DEF Busy, Handler
<1>4. Routes(x) \subseteq Decision
  BY <1>3, RouteType DEF Routes
<1>5. \A id \in Maybe(Ids) : Fallback(x, id) \in Maybe(Ids)
  <2> SUFFICES ASSUME NEW id \in Maybe(Ids) PROVE Fallback(x, id) \in Maybe(Ids)
    OBVIOUS
  <2> DEFINE pseudo == {a \in delivery[x].listed : a.slug = UNMATCHED_ACCOUNT_SLUG}
             a == CHOOSE a \in pseudo : TRUE
  <2>1. pseudo # {} => a \in Listed
    BY <1>3
  <2>2. pseudo # {} => a.id \in Ids
    BY <2>1 DEF Listed
  <2> QED
    BY <2>2 DEF Fallback, Maybe
<1>6. ASSUME NEW d PROVE AccountOf(d) \in Maybe(Ids)
  <2> DEFINE owners == {slug \in Live : accounts[slug].domain = d}
             owner == CHOOSE slug \in owners : TRUE
  <2>1. owners = {} => Cardinality(owners) # 1
    <3>1. Cardinality({}) = 0
      BY FS_EmptySet
    <3> QED
      BY <3>1
  <2>2. CASE Cardinality(owners) = 1
    <3>1. owner \in Live
      BY <2>1, <2>2
    <3> QED
      BY <1>1, <2>2, <3>1 DEF AccountOf, Maybe
  <2>3. CASE Cardinality(owners) # 1
    BY <2>3 DEF AccountOf, Maybe
  <2> QED
    BY <2>2, <2>3
<1> QED
  BY <1>1, <1>2, <1>4, <1>5, <1>6

\* What UpdateRouting writes on the signal.
LEMMA RoutingType ==
  ASSUME TypeInv, NEW x \in Busy, NEW r \in Routing(x)
  PROVE  /\ r.target \in Maybe(Ids)
         /\ r.method \in Maybe(Methods)
         /\ r.method = None => At(x, "update") /\ delivery[x].method = None
<1>1. CASE At(x, "update")
  <2>1. /\ delivery[x].target \in Maybe(Ids)
        /\ delivery[x].method \in Maybe(Methods)
    BY HandlerFields DEF Busy, Handler
  <2> QED
    BY <1>1, <2>1 DEF Routing
<1>2. CASE ~At(x, "update")
  <2>1. PICK d \in Routes(x) : r = [target |-> Fallback(x, d.account), method |-> d.method]
    BY <1>2 DEF Routing
  <2>2. d.account \in Maybe(Ids) /\ d.method \in Methods
    BY Readings DEF Decision
  <2> QED
    BY <2>1, <2>2, Readings, IngestionAssumption DEF Maybe
<1> QED
  BY <1>1, <1>2

\* An upsert of a discovered company leaves a typed row and a typed handler.
LEMMA CandidateType ==
  ASSUME TypeInv, NEW x \in Busy, NEW r \in Discoveries(x)
  PROVE  /\ SlugOf[r.discover] \in Slugs
         /\ Discovered(r.discover) \in Account
         /\ r.method \in Methods
         /\ GotCandidate(x, r) =>
              /\ delivery' \in [Posts -> Handler]
              /\ \A y \in Posts : HandlerOK(delivery'[y])
              /\ delivery'[x].pc = "update"
              /\ delivery'[x].method = r.method
              /\ \A y \in Posts \ {x} : delivery'[y] = delivery[y]
<1>1. r.discover \in Domains /\ r.method \in Methods
  BY Readings DEF Discoveries, Decision, Maybe
<1>2. SlugOf[r.discover] \in Slugs /\ Discovered(r.discover) \in Account
  BY <1>1 DEF Slugs, Discovered, Account, Ids, Maybe
<1>3. ASSUME GotCandidate(x, r)
      PROVE  /\ delivery' \in [Posts -> Handler]
             /\ \A y \in Posts : HandlerOK(delivery'[y])
             /\ delivery'[x].pc = "update"
             /\ delivery'[x].method = r.method
             /\ \A y \in Posts \ {x} : delivery'[y] = delivery[y]
  <2> DEFINE row == [id |-> r.discover, slug |-> SlugOf[r.discover],
                     domain |-> r.discover]
             h == [delivery[x] EXCEPT !.pc = "update", !.listed = @ \cup {row},
                                      !.target = r.discover, !.method = r.method]
  <2>1. row \in Listed
    BY <1>1, <1>2 DEF Listed, Ids, Maybe
  <2>2. /\ delivery[x] \in Handler
        /\ delivery[x].mail \in Mails
    BY HandlerFields DEF Busy
  <2> HIDE DEF row
  <2>3. HandlerOK(h) /\ h.pc = "update" /\ h.method = r.method
    BY <1>1, <2>1, <2>2 DEF HandlerOK, Handler, Working, Maybe, Ids
  <2>4. delivery' = [delivery EXCEPT ![x] = h]
    BY <1>3 DEF GotCandidate, row
  <2> HIDE DEF h
  <2> QED
    BY <2>3, <2>4, HandlerUpdate DEF Busy
<1> QED
  BY <1>1, <1>2, <1>3

\* Every step keeps the types.
LEMMA TypeStep == TypeInv /\ [Next]_vars => TypeInv'
<1> SUFFICES ASSUME TypeInv, [Next]_vars PROVE TypeInv'
  OBVIOUS
<1> USE DEF TypeInv
<1>1. ASSUME NEW m \in Mails, Write(m) PROVE TypeInv'
  BY <1>1 DEF Write, TypeOK, Mailbox, tables, counters
<1>2. ASSUME NEW m \in Mails, Post(m) PROVE TypeInv'
  <2> DEFINE x == Cardinality({y \in Posts : ~At(y, "none")}) + 1
             h == [delivery[x] EXCEPT !.pc = "list", !.mail = m]
  <2>1. x \in Posts
    BY <1>2 DEF Post
  <2>2. /\ delivery' = [delivery EXCEPT ![x] = h]
        /\ mailbox' = [mailbox EXCEPT ![m] = [state |-> "posted", by |-> x]]
        /\ UNCHANGED <<tables, counters>>
    BY <1>2 DEF Post
  <2> HIDE DEF x
  <2>3. HandlerOK(h)
    BY <2>1, HandlerFields DEF HandlerOK, Handler, Working, Maybe
  <2>4. mailbox' \in [Mails -> Mailbox]
    BY <2>1, <2>2 DEF TypeOK, Mailbox, Posts
  <2> HIDE DEF h
  <2> QED
    BY <2>1, <2>2, <2>3, <2>4, HandlerUpdate DEF TypeOK, tables, counters
<1>3. ASSUME NEW m \in Mails, TimeOut(m) PROVE TypeInv'
  BY <1>3 DEF TimeOut, TypeOK, Mailbox, tables
<1>4. ASSUME NEW x \in Posts, ListAccounts(x) PROVE TypeInv'
  <2> DEFINE next == IF delivery[x].mail \in Malformed THEN "reject"
                     ELSE IF Participants(x) = <<>> THEN "store" ELSE "lookup"
             h == [delivery[x] EXCEPT !.listed = AccountList, !.step = 1, !.pc = next]
  <2>1. x \in Busy
    BY <1>4 DEF ListAccounts, At, Busy, Working
  <2>2. next \in Working
    BY DEF Working
  <2>3. delivery' = [delivery EXCEPT ![x] = h]
    BY <1>4 DEF ListAccounts
  <2> HIDE DEF next
  <2>4. HandlerOK(h)
    BY <2>1, <2>2, HandlerFields, Readings DEF HandlerOK, Handler, Busy
  <2> HIDE DEF h
  <2> QED
    BY <1>4, <2>3, <2>4, HandlerUpdate DEF ListAccounts, TypeOK, tables, counters
<1>5. ASSUME NEW x \in Posts, LookUpAccount(x) PROVE TypeInv'
  <2> DEFINE found == AccountOf(Participants(x)[delivery[x].step])
             h == [delivery[x] EXCEPT !.pc = "contact", !.found = found]
  <2>1. x \in Busy
    BY <1>5 DEF LookUpAccount, At, Busy, Working
  <2>2. found \in Maybe(Ids)
    BY <2>1, Readings
  <2>3. delivery' = [delivery EXCEPT ![x] = h]
    BY <1>5 DEF LookUpAccount
  <2> HIDE DEF found
  <2>4. HandlerOK(h)
    BY <2>1, <2>2, HandlerFields DEF HandlerOK, Handler, Busy, Working
  <2> HIDE DEF h
  <2> QED
    BY <1>5, <2>3, <2>4, HandlerUpdate DEF LookUpAccount, TypeOK, tables, counters
<1>6. ASSUME NEW x \in Posts, UpsertContact(x) PROVE TypeInv'
  <2>1. x \in Busy
    BY <1>6 DEF UpsertContact, At, Busy, Working
  <2>2. delivery[x] \in Handler /\ delivery[x].mail \in Mails
    BY <2>1, HandlerFields DEF Busy
  <2>3. CASE Exists(delivery[x].found)
    <3> DEFINE next == IF delivery[x].step < Len(Participants(x))
                       THEN "lookup" ELSE "store"
               h == [delivery[x] EXCEPT !.pc = next, !.step = @ + 1, !.found = None]
    <3>1. delivery' = [delivery EXCEPT ![x] = h]
      BY <1>6, <2>3 DEF UpsertContact, NextParticipant
    <3>2. next \in Working
      BY DEF Working
    <3> HIDE DEF next
    <3>3. HandlerOK(h)
      <4>1. delivery[x].step + 1 \in Nat
        BY <2>2 DEF Handler
      <4> QED
        BY <2>2, <3>2, <4>1 DEF HandlerOK, Handler, Maybe
    <3>4. contact' \in [Domains -> Maybe(Ids)]
      BY <1>6, <2>2, <2>3 DEF UpsertContact, TypeOK, Handler
    <3>5. UNCHANGED <<mailbox, accounts, signals, triggers, counters>>
      BY <1>6, <2>3 DEF UpsertContact
    <3> HIDE DEF h
    <3> QED
      BY <3>1, <3>3, <3>4, <3>5, HandlerUpdate DEF TypeOK, counters
  <2>4. CASE ~Exists(delivery[x].found)
    BY <1>6, <2>1, <2>4, RespondType DEF UpsertContact, Status500, TypeOK, counters
  <2> QED
    BY <2>3, <2>4
<1>7. ASSUME NEW x \in Posts, StoreSignal(x) PROVE TypeInv'
  <2> DEFINE stored == {n \in Mails : signals[n].born > 0}
  <2>1. x \in Busy
    BY <1>7 DEF StoreSignal, At, Busy, Working
  <2>2. Cardinality(stored) \in Nat
    BY IngestionAssumption, FS_Subset, FS_CardinalityType
  <2>3. signals' \in [Mails -> SignalRow]
    <3> DEFINE m == delivery[x].mail
               born == IF signals[m].born > 0 THEN signals[m].born
                       ELSE Cardinality(stored) + 1
    <3>1. m \in Mails
      BY <2>1, HandlerFields DEF Busy
    <3>2. signals' = [signals EXCEPT ![m] = [signals[m] EXCEPT !.born = born]]
      BY <1>7 DEF StoreSignal
    <3> HIDE DEF stored, m
    <3>3. born \in Nat
      BY <2>2, <3>1 DEF TypeOK, SignalRow
    <3> HIDE DEF born
    <3> QED
      BY <3>1, <3>2, <3>3 DEF TypeOK, SignalRow
  <2>4. \E pc \in Working : Goto(x, pc)
    BY <1>7 DEF StoreSignal, Working
  <2> QED
    BY <1>7, <2>1, <2>3, <2>4, GotoType DEF StoreSignal, TypeOK, counters
<1>8. ASSUME NEW x \in Posts, RejectMalformed(x) PROVE TypeInv'
  <2>1. x \in Busy
    BY <1>8 DEF RejectMalformed, At, Busy, Working
  <2> QED
    BY <1>8, <2>1, RespondType DEF RejectMalformed, Status200, TypeOK, tables, counters
<1>9. ASSUME NEW x \in Posts, ReadThread(x) PROVE TypeInv'
  <2>1. x \in Busy
    BY <1>9 DEF ReadThread, At, Busy, Working
  <2>2. CASE Goto(x, "route")
    BY <1>9, <2>1, <2>2, GotoType DEF ReadThread, Working, TypeOK, tables, counters
  <2>3. ASSUME NEW m \in Mails, NEW split \in BOOLEAN,
               delivery' = [delivery EXCEPT ![x].pc = "route",
                              ![x].thread.latest = signals[m].account,
                              ![x].thread.split = split]
        PROVE  TypeInv'
    <3> DEFINE h == [delivery[x] EXCEPT !.pc = "route",
                       !.thread.latest = signals[m].account, !.thread.split = split]
    <3>1. delivery' = [delivery EXCEPT ![x] = h]
      BY <2>3
    <3>2. HandlerOK(h)
      BY <2>1, HandlerFields DEF TypeOK, SignalRow, HandlerOK, Handler, Thread, Working, Busy
    <3> HIDE DEF h
    <3> QED
      BY <1>9, <3>1, <3>2, HandlerUpdate DEF ReadThread, TypeOK, tables, counters
  <2> QED
    BY <1>9, <2>2, <2>3 DEF ReadThread
<1>10. ASSUME NEW x \in Posts, UpsertCandidate(x) PROVE TypeInv'
  <2>1. x \in Busy
    BY <1>10 DEF UpsertCandidate, At, Busy, Working
  <2>2. PICK r \in Discoveries(x) :
          \/ /\ accounts' = [accounts EXCEPT ![SlugOf[r.discover]] = Discovered(r.discover)]
             /\ GotCandidate(x, r)
             /\ UNCHANGED mailbox
          \/ Status500(x) /\ UNCHANGED accounts
    BY <1>10 DEF UpsertCandidate
  <2>3. UNCHANGED <<contact, signals, triggers, counters>>
    BY <1>10 DEF UpsertCandidate
  <2>4. CASE Status500(x) /\ UNCHANGED accounts
    BY <2>1, <2>3, <2>4, RespondType DEF Status500, TypeOK, counters
  <2>5. CASE /\ accounts' = [accounts EXCEPT ![SlugOf[r.discover]] = Discovered(r.discover)]
             /\ GotCandidate(x, r)
             /\ UNCHANGED mailbox
    BY <2>1, <2>3, <2>5, CandidateType DEF TypeOK, counters
  <2> QED
    BY <2>2, <2>4, <2>5
<1>11. ASSUME NEW x \in Posts, UpdateRouting(x) PROVE TypeInv'
  <2>1. x \in Busy
    BY <1>11 DEF UpdateRouting, Busy, Working
  <2>2. UNCHANGED <<accounts, contact, triggers, counters>>
    BY <1>11 DEF UpdateRouting
  <2>3. CASE Status500(x) /\ UNCHANGED signals
    BY <2>1, <2>2, <2>3, RespondType DEF Status500, TypeOK, counters
  <2>4. ASSUME NEW r \in Routing(x),
               signals' = [signals EXCEPT ![delivery[x].mail].account = r.target,
                                          ![delivery[x].mail].method = r.method],
               delivery' = [delivery EXCEPT ![x].pc = "schedule", ![x].target = r.target,
                                            ![x].method = r.method],
               UNCHANGED mailbox
        PROVE  TypeInv'
    <3> DEFINE h == [delivery[x] EXCEPT !.pc = "schedule", !.target = r.target,
                                        !.method = r.method]
    <3>1. HandlerOK(h)
      BY <2>1, HandlerFields, RoutingType DEF HandlerOK, Handler, Working, Busy
    <3>2. delivery' = [delivery EXCEPT ![x] = h]
      BY <2>4
    <3>3. signals' \in [Mails -> SignalRow]
      BY <2>1, <2>4, RoutingType DEF TypeOK, SignalRow
    <3> HIDE DEF h
    <3> QED
      BY <2>2, <2>4, <3>1, <3>2, <3>3, HandlerUpdate DEF TypeOK, counters
  <2> QED
    BY <1>11, <2>3, <2>4 DEF UpdateRouting
<1>12. ASSUME NEW x \in Posts, ScheduleRegen(x) PROVE TypeInv'
  <2>1. x \in Busy
    BY <1>12 DEF ScheduleRegen, At, Busy, Working
  <2>2. delivery[x].mail \in Mails /\ delivery[x].target \in Maybe(Ids)
    BY <2>1, HandlerFields DEF Busy, Handler
  <2>3. triggers' \subseteq Mails \X Ids
    BY <1>12, <2>2 DEF ScheduleRegen, TypeOK, Maybe
  <2>4. UNCHANGED <<accounts, contact, signals, counters>>
    BY <1>12 DEF ScheduleRegen
  <2>5. CASE Goto(x, "audit") /\ UNCHANGED mailbox
    BY <2>1, <2>3, <2>4, <2>5, GotoType DEF Working, TypeOK, counters
  <2>6. CASE Status200(x)
    BY <2>1, <2>3, <2>4, <2>6, RespondType DEF Status200, TypeOK, counters
  <2> QED
    BY <1>12, <2>5, <2>6 DEF ScheduleRegen
<1>13. ASSUME NEW x \in Posts, AuditSplit(x) PROVE TypeInv'
  <2>1. x \in Busy
    BY <1>13 DEF AuditSplit, At, Busy, Working
  <2> QED
    BY <1>13, <2>1, RespondType DEF AuditSplit, Status200, TypeOK, tables, counters
<1>14. ASSUME NEW x \in Posts, HandlerDies(x) PROVE TypeInv'
  BY <1>14, RespondType DEF HandlerDies, Status500, TypeOK, tables
<1>15. ASSUME NEW slug \in Slugs, Confirm(slug) PROVE TypeInv'
  <2>1. accounts[slug] \in [status : {"candidate", "active"}, id : Ids,
                            domain : Maybe(Domains), deleted : BOOLEAN]
    BY <1>15 DEF Confirm, TypeOK, Account, NoAccount
  <2> QED
    BY <1>15, <2>1 DEF Confirm, Decide, TypeOK, Account
<1>16. ASSUME NEW slug \in Slugs, Dismiss(slug) PROVE TypeInv'
  <2>1. accounts[slug] \in [status : {"candidate", "active"}, id : Ids,
                            domain : Maybe(Domains), deleted : BOOLEAN]
    BY <1>16 DEF Dismiss, Decide, Live, TypeOK, Account, NoAccount
  <2>2. [accounts[slug] EXCEPT !.deleted = TRUE] \in Account
    BY <2>1 DEF Account
  <2> QED
    BY <1>16, <2>2 DEF Dismiss, Decide, TypeOK
<1>17. CASE UNCHANGED vars
  BY <1>17 DEF vars, TypeOK
<1> QED
  BY <1>1, <1>2, <1>3, <1>4, <1>5, <1>6, <1>7, <1>8, <1>9, <1>10, <1>11, <1>12,
     <1>13, <1>14, <1>15, <1>16, <1>17 DEF Next, Handle

\* Type correctness, however many posts and instances there are.
THEOREM TypeCorrect == Spec => []TypeOK
<1>1. TypeInv => TypeOK
  BY DEF TypeInv
<1> QED
  BY <1>1, TypeInit, TypeStep, PTL DEF Spec

-----------------------------------------------------------------------------
(* What is answered with 200 has been routed.                                *)
(*                                                                           *)
(* AckedIsRouted is not inductive: the answer follows the routing by one or  *)
(* two steps, in which another post of the mail may work on the same signal. *)
(* A routed signal stays routed, whoever writes it, because no route comes   *)
(* without a method, not even the one a handler carried over the upsert of   *)
(* a candidate; so a handler past its update finds its signal routed.        *)

Routed(m) == signals[m].method # None

PostOK(x) ==
    /\ At(x, "reject") => delivery[x].mail \in Malformed
    /\ At(x, "update") => delivery[x].method # None
    /\ delivery[x].pc \in {"schedule", "audit"} => Routed(delivery[x].mail)

RoutedInv ==
    /\ AckedIsRouted
    /\ \A x \in Posts : PostOK(x)

LEMMA RoutedInit == Init => RoutedInv
BY DEF Init, RoutedInv, AckedIsRouted, PostOK, At, NoHandler

\* A step of one handler that unroutes no signal and answers for a routed one.
LEMMA RoutedByStep ==
  ASSUME TypeInv, RoutedInv, NEW x \in Posts,
         \A m \in Mails : Routed(m) => Routed(m)',
         \A y \in Posts \ {x} : delivery'[y] = delivery[y],
         PostOK(x)',
         \A m \in Mails \ Malformed :
            mailbox'[m].state = "acked" => mailbox[m].state = "acked" \/ Routed(m)'
  PROVE  RoutedInv'
<1>1. ASSUME NEW y \in Posts PROVE PostOK(y)'
  <2>1. CASE y = x
    BY <2>1
  <2>2. CASE y # x
    <3>1. delivery'[y] = delivery[y]
      BY <2>2
    <3>2. delivery[y].pc \in {"schedule", "audit"} => delivery[y].mail \in Mails
      BY HandlerFields DEF Working
    <3> QED
      BY <3>1, <3>2 DEF RoutedInv, PostOK, At
  <2> QED
    BY <2>1, <2>2
<1>2. AckedIsRouted'
  BY DEF RoutedInv, AckedIsRouted, Routed
<1> QED
  BY <1>1, <1>2 DEF RoutedInv

\* A post that fails leaves everything routed as it was.
LEMMA RoutedByFailure ==
  ASSUME TypeInv, RoutedInv, NEW x \in Busy, Status500(x), UNCHANGED signals
  PROVE  RoutedInv'
<1>1. /\ delivery'[x].pc \in {"done", "lost"}
      /\ \A y \in Posts \ {x} : delivery'[y] = delivery[y]
      /\ \A m \in Mails : mailbox'[m] = mailbox[m] \/ mailbox'[m].state = "queued"
  BY RespondType DEF Status500
<1>2. PostOK(x)'
  BY <1>1 DEF PostOK, At
<1> QED
  BY <1>1, <1>2, RoutedByStep DEF Routed, Busy

\* A post that is answered with 200 has routed its signal or rejected its mail.
LEMMA RoutedByAnswer ==
  ASSUME TypeInv, RoutedInv, NEW x \in Busy, Status200(x), UNCHANGED signals,
         delivery[x].pc \in {"reject", "schedule", "audit"}
  PROVE  RoutedInv'
<1>1. /\ delivery'[x].pc \in {"done", "lost"}
      /\ \A y \in Posts \ {x} : delivery'[y] = delivery[y]
      /\ \A m \in Mails : \/ mailbox'[m] = mailbox[m]
                          \/ mailbox'[m].state = "acked" /\ m = delivery[x].mail
  BY RespondType DEF Status200
<1>2. PostOK(x)'
  BY <1>1 DEF PostOK, At
<1>3. delivery[x].mail \in Malformed \/ Routed(delivery[x].mail)
  BY DEF RoutedInv, PostOK, At, Busy
<1> QED
  BY <1>1, <1>2, <1>3, RoutedByStep DEF Routed, Busy

LEMMA RoutedStep == TypeInv /\ RoutedInv /\ [Next]_vars => RoutedInv'
<1> SUFFICES ASSUME TypeInv, RoutedInv, [Next]_vars PROVE RoutedInv'
  OBVIOUS
<1>1. ASSUME NEW m \in Mails, Write(m) \/ TimeOut(m) PROVE RoutedInv'
  <2>1. UNCHANGED <<delivery, signals>>
    BY <1>1 DEF Write, TimeOut, tables
  <2>2. \A n \in Mails : mailbox'[n].state = "acked" => mailbox[n].state = "acked"
    BY <1>1 DEF Write, TimeOut, TypeInv, TypeOK, Mailbox
  <2> QED
    BY <2>1, <2>2 DEF RoutedInv, AckedIsRouted, PostOK, At, Routed
<1>2. ASSUME NEW m \in Mails, Post(m) PROVE RoutedInv'
  <2>1. PICK x \in Posts :
        /\ delivery' = [delivery EXCEPT ![x] = [delivery[x] EXCEPT !.pc = "list",
                                                                   !.mail = m]]
        /\ mailbox' = [mailbox EXCEPT ![m] = [state |-> "posted", by |-> x]]
        /\ UNCHANGED signals
    BY <1>2 DEF Post, tables
  <2>2. /\ delivery'[x].pc = "list"
        /\ \A y \in Posts \ {x} : delivery'[y] = delivery[y]
    BY <2>1, HandlerFields DEF TypeInv, TypeOK, Handler
  <2>3. \A n \in Mails : mailbox'[n].state = "acked" => mailbox[n].state = "acked"
    BY <2>1 DEF TypeInv, TypeOK, Mailbox
  <2>4. PostOK(x)'
    BY <2>2 DEF PostOK, At
  <2> QED
    BY <2>1, <2>2, <2>3, <2>4, RoutedByStep DEF Routed
<1>3. ASSUME NEW x \in Posts, UNCHANGED <<mailbox, signals>>,
             \A y \in Posts \ {x} : delivery'[y] = delivery[y], PostOK(x)'
      PROVE  RoutedInv'
  BY <1>3, RoutedByStep DEF Routed
<1>4. ASSUME NEW x \in Posts, ListAccounts(x) PROVE RoutedInv'
  <2>1. /\ delivery'[x].pc = IF delivery[x].mail \in Malformed THEN "reject"
                             ELSE IF Participants(x) = <<>> THEN "store" ELSE "lookup"
        /\ delivery'[x].mail = delivery[x].mail
        /\ \A y \in Posts \ {x} : delivery'[y] = delivery[y]
        /\ UNCHANGED <<mailbox, signals>>
    BY <1>4, HandlerFields DEF ListAccounts, TypeInv, TypeOK, Handler, tables
  <2>2. PostOK(x)'
    BY <2>1 DEF PostOK, At
  <2> QED
    BY <1>3, <2>1, <2>2
<1>5. ASSUME NEW x \in Posts, LookUpAccount(x) PROVE RoutedInv'
  <2>1. /\ delivery'[x].pc = "contact"
        /\ \A y \in Posts \ {x} : delivery'[y] = delivery[y]
        /\ UNCHANGED <<mailbox, signals>>
    BY <1>5, HandlerFields DEF LookUpAccount, TypeInv, TypeOK, Handler, tables
  <2>2. PostOK(x)'
    BY <2>1 DEF PostOK, At
  <2> QED
    BY <1>3, <2>1, <2>2
<1>6. ASSUME NEW x \in Posts, UpsertContact(x) PROVE RoutedInv'
  <2>1. x \in Busy
    BY <1>6 DEF UpsertContact, At, Busy, Working
  <2>2. CASE Exists(delivery[x].found)
    <3>1. /\ delivery'[x].pc \in {"lookup", "store"}
          /\ \A y \in Posts \ {x} : delivery'[y] = delivery[y]
          /\ UNCHANGED <<mailbox, signals>>
      BY <1>6, <2>2, HandlerFields DEF UpsertContact, NextParticipant, TypeInv, TypeOK, Handler
    <3>2. PostOK(x)'
      BY <3>1 DEF PostOK, At
    <3> QED
      BY <1>3, <3>1, <3>2
  <2>3. CASE ~Exists(delivery[x].found)
    BY <1>6, <2>1, <2>3, RoutedByFailure DEF UpsertContact
  <2> QED
    BY <2>2, <2>3
<1>7. ASSUME NEW x \in Posts, StoreSignal(x) PROVE RoutedInv'
  <2>1. /\ delivery'[x].pc \in {"route", "thread"}
        /\ \A y \in Posts \ {x} : delivery'[y] = delivery[y]
        /\ UNCHANGED mailbox
    BY <1>7, HandlerFields DEF StoreSignal, Goto, TypeInv, TypeOK, Handler
  <2>2. \A m \in Mails : signals'[m].method = signals[m].method
    BY <1>7 DEF StoreSignal, TypeInv, TypeOK, SignalRow
  <2>3. PostOK(x)'
    BY <2>1 DEF PostOK, At
  <2> QED
    BY <2>1, <2>2, <2>3, RoutedByStep DEF Routed
<1>8. ASSUME NEW x \in Posts, RejectMalformed(x) \/ AuditSplit(x) PROVE RoutedInv'
  <2>1. x \in Busy /\ delivery[x].pc \in {"reject", "schedule", "audit"}
    BY <1>8 DEF RejectMalformed, AuditSplit, At, Busy, Working
  <2> QED
    BY <1>8, <2>1, RoutedByAnswer DEF RejectMalformed, AuditSplit, tables
<1>9. ASSUME NEW x \in Posts, ReadThread(x) PROVE RoutedInv'
  <2>1. /\ delivery'[x].pc = "route"
        /\ \A y \in Posts \ {x} : delivery'[y] = delivery[y]
    <3>1. CASE Goto(x, "route")
      BY <3>1, HandlerFields DEF Goto, TypeInv, TypeOK, Handler
    <3>2. ASSUME NEW m \in Mails, NEW split,
                 delivery' = [delivery EXCEPT ![x].pc = "route",
                                ![x].thread.latest = signals[m].account,
                                ![x].thread.split = split]
          PROVE  /\ delivery'[x].pc = "route"
                 /\ \A y \in Posts \ {x} : delivery'[y] = delivery[y]
      BY <3>2, HandlerFields DEF TypeInv, TypeOK, Handler
    <3> QED
      BY <1>9, <3>1, <3>2 DEF ReadThread
  <2>2. PostOK(x)'
    BY <2>1 DEF PostOK, At
  <2>3. UNCHANGED <<mailbox, signals>>
    BY <1>9 DEF ReadThread, tables
  <2> QED
    BY <1>3, <2>1, <2>2, <2>3
<1>10. ASSUME NEW x \in Posts, UpsertCandidate(x) PROVE RoutedInv'
  <2>1. x \in Busy /\ UNCHANGED signals
    BY <1>10 DEF UpsertCandidate, At, Busy, Working
  <2>2. PICK r \in Discoveries(x) : \/ GotCandidate(x, r) /\ UNCHANGED mailbox
                                    \/ Status500(x)
    BY <1>10 DEF UpsertCandidate
  <2>3. CASE Status500(x)
    BY <2>1, <2>3, RoutedByFailure
  <2>4. CASE GotCandidate(x, r) /\ UNCHANGED mailbox
    <3>1. /\ delivery'[x].pc = "update" /\ delivery'[x].method # None
          /\ \A y \in Posts \ {x} : delivery'[y] = delivery[y]
      BY <2>1, <2>4, CandidateType, IngestionAssumption
    <3>2. PostOK(x)'
      BY <3>1 DEF PostOK, At
    <3> QED
      BY <1>3, <2>1, <2>4, <3>1, <3>2
  <2> QED
    BY <2>2, <2>3, <2>4
<1>11. ASSUME NEW x \in Posts, UpdateRouting(x) PROVE RoutedInv'
  <2> DEFINE m == delivery[x].mail
  <2>1. x \in Busy
    BY <1>11 DEF UpdateRouting, Busy, Working
  <2>2. CASE Status500(x) /\ UNCHANGED signals
    BY <2>1, <2>2, RoutedByFailure
  <2>3. ASSUME NEW r \in Routing(x),
               signals' = [signals EXCEPT ![m].account = r.target, ![m].method = r.method],
               delivery' = [delivery EXCEPT ![x].pc = "schedule", ![x].target = r.target,
                                            ![x].method = r.method],
               UNCHANGED mailbox
        PROVE  RoutedInv'
    <3>1. r.method # None
      BY <2>1, RoutingType DEF RoutedInv, PostOK, Busy
    <3>2. m \in Mails
      BY <2>1, HandlerFields DEF Busy
    <3>3. /\ delivery'[x].pc = "schedule" /\ delivery'[x].mail = m
          /\ \A y \in Posts \ {x} : delivery'[y] = delivery[y]
      BY <2>3, HandlerFields DEF TypeInv, TypeOK, Handler
    <3> HIDE DEF m
    <3>4. /\ signals'[m].method = r.method
          /\ \A n \in Mails : n # m => signals'[n] = signals[n]
      BY <2>3, <3>2 DEF TypeInv, TypeOK, SignalRow
    <3>5. PostOK(x)'
      BY <3>1, <3>3, <3>4 DEF PostOK, At, Routed
    <3>6. \A n \in Mails : Routed(n) => Routed(n)'
      BY <3>1, <3>4 DEF Routed
    <3> QED
      BY <2>3, <3>3, <3>5, <3>6, RoutedByStep
  <2> QED
    BY <1>11, <2>2, <2>3 DEF UpdateRouting
<1>12. ASSUME NEW x \in Posts, ScheduleRegen(x) PROVE RoutedInv'
  <2>1. x \in Busy /\ At(x, "schedule") /\ UNCHANGED signals
    BY <1>12 DEF ScheduleRegen, At, Busy, Working
  <2>2. CASE Goto(x, "audit") /\ UNCHANGED mailbox
    <3>1. /\ delivery'[x].pc = "audit" /\ delivery'[x].mail = delivery[x].mail
          /\ \A y \in Posts \ {x} : delivery'[y] = delivery[y]
      BY <2>2, HandlerFields DEF Goto, TypeInv, TypeOK, Handler
    <3>2. PostOK(x)'
      BY <2>1, <3>1 DEF RoutedInv, PostOK, At, Routed
    <3> QED
      BY <1>3, <2>1, <2>2, <3>1, <3>2
  <2>3. CASE Status200(x)
    BY <2>1, <2>3, RoutedByAnswer DEF At
  <2> QED
    BY <1>12, <2>2, <2>3 DEF ScheduleRegen
<1>13. ASSUME NEW x \in Posts, HandlerDies(x) PROVE RoutedInv'
  BY <1>13, RoutedByFailure DEF HandlerDies, tables
<1>14. ASSUME NEW slug \in Slugs, Confirm(slug) \/ Dismiss(slug) PROVE RoutedInv'
  <2>1. UNCHANGED <<mailbox, delivery, signals>>
    BY <1>14 DEF Confirm, Dismiss, Decide
  <2> QED
    BY <2>1 DEF RoutedInv, AckedIsRouted, PostOK, At, Routed
<1>15. CASE UNCHANGED vars
  BY <1>15 DEF vars, RoutedInv, AckedIsRouted, PostOK, At, Routed
<1> QED
  BY <1>1, <1>2, <1>4, <1>5, <1>6, <1>7, <1>8, <1>9, <1>10, <1>11, <1>12, <1>13,
     <1>14, <1>15 DEF Next, Handle

\* SendGrid forgets a mail only when its signal has been routed, whatever fails
\* between the storing of the signal and the answer, and however often.
THEOREM AckedRouted == Spec => []AckedIsRouted
<1>1. RoutedInv => AckedIsRouted
  BY DEF RoutedInv
<1> QED
  BY <1>1, TypeInit, TypeStep, RoutedInit, RoutedStep, PTL DEF Spec

-----------------------------------------------------------------------------
(* What is answered with 200 has asked for a regeneration.                   *)
(*                                                                           *)
(* The account on a signal is that of the post that routed it last.  As long *)
(* as the post that SendGrid waits for has not routed the mail yet, nothing  *)
(* is known: an earlier one may have died after its update.  From then on    *)
(* the account is asked for, or a post will ask or has been given up.        *)

Late == {"schedule", "audit"}

Asked(m) ==
    \/ signals[m].account \in UnmatchedIds \cup {None}
    \/ <<m, signals[m].account>> \in triggers

\* Post x is still to route m, is to ask for the account m has, or is lost.
MayAsk(x, m) ==
    /\ delivery[x].mail = m
    /\ delivery[x].pc \notin {"none", "done", "audit"}
    /\ At(x, "schedule") => delivery[x].target = signals[m].account

\* SendGrid does not wait for a post that has routed m.
Unanswered(m) ==
    \/ mailbox[m].state \in {"unsent", "queued"}
    \/ mailbox[m].state = "posted" /\ delivery[mailbox[m].by].pc \notin Late

AskedOrWill(m) == Unanswered(m) \/ Asked(m) \/ \E x \in Posts : MayAsk(x, m)

Awaited(m) ==
    mailbox[m].state = "posted" =>
        LET x == mailbox[m].by
        IN  x \in Posts /\ delivery[x].mail = m /\ delivery[x].pc \in Working

KnowsPseudo(x) ==
    \A a \in delivery[x].listed : a.slug = UNMATCHED_ACCOUNT_SLUG => a.id \in UnmatchedIds

UsedInOrder ==
    \E k \in 0 .. MaxDeliveries : \A y \in Posts : delivery[y].pc # "none" <=> y <= k

AskedInv ==
    /\ UsedInOrder
    /\ \A m \in Mails : Awaited(m)
    /\ \A x \in Posts : KnowsPseudo(x)
    /\ \A m \in Mails \ Malformed : AskedOrWill(m)

\* The next post takes a handler that has not been used.
LEMMA FreshPost ==
  ASSUME UsedInOrder
  PROVE  LET x == Cardinality({y \in Posts : ~At(y, "none")}) + 1
         IN  /\ x \in Nat
             /\ x \in Posts => /\ At(x, "none")
                               /\ \A y \in Posts : ~At(y, "none") <=> y < x
<1> DEFINE used == {y \in Posts : ~At(y, "none")}
<1>1. PICK k \in 0 .. MaxDeliveries : \A y \in Posts : delivery[y].pc # "none" <=> y <= k
  BY DEF UsedInOrder
<1>2. MaxDeliveries \in Nat
  BY IngestionAssumption
<1>3. used = 1 .. k
  BY <1>1, <1>2 DEF At, Posts
<1>4. Cardinality(used) = k
  <2>1. k \in Int /\ Cardinality(1 .. k) = IF 1 > k THEN 0 ELSE k - 1 + 1
    BY <1>1, <1>2, FS_Interval
  <2> HIDE DEF used
  <2> QED
    BY <1>1, <1>2, <1>3, <2>1
<1> HIDE DEF used
<1>5. Cardinality(used) + 1 = k + 1 /\ k + 1 \in Nat
  BY <1>1, <1>2, <1>4
<1>6. k + 1 \in Posts => /\ At(k + 1, "none")
                         /\ \A y \in Posts : ~At(y, "none") <=> y < k + 1
  BY <1>1, <1>2 DEF At, Posts
<1> QED
  BY <1>5, <1>6 DEF used

LEMMA AskedInit == Init => AskedInv
<1> SUFFICES ASSUME Init PROVE AskedInv
  OBVIOUS
<1>1. UsedInOrder
  <2>1. 0 \in 0 .. MaxDeliveries /\ \A y \in Posts : ~(y <= 0)
    BY IngestionAssumption DEF Posts
  <2> QED
    BY <2>1 DEF Init, NoHandler, UsedInOrder
<1>2. \A x \in Posts : KnowsPseudo(x)
  BY DEF Init, NoHandler, KnowsPseudo
<1> QED
  BY <1>1, <1>2 DEF Init, AskedInv, Awaited, AskedOrWill, Unanswered

-----------------------------------------------------------------------------
(* What a step of handler x, at work on mail m, can do to the mail.          *)

Waits(x) == mailbox[delivery[x].mail] = [state |-> "posted", by |-> x]

\* It comes nearer to the routing.
Moves(x, m) ==
    /\ delivery[x].pc \notin Late
    /\ delivery'[x].pc \in Working \ Late
    /\ mailbox'[m] = mailbox[m]
    /\ signals'[m].account = signals[m].account

\* It routes the signal.
Writes(x, m) ==
    /\ delivery'[x].pc = "schedule"
    /\ delivery'[x].target = signals'[m].account
    /\ mailbox'[m] = mailbox[m]

\* It asks for the account, or has asked, and may answer.
Asks(x, m) ==
    /\ delivery[x].pc \in Late
    /\ At(x, "schedule") => \/ delivery[x].target = None
                            \/ ToPseudoAccount(x)
                            \/ <<m, delivery[x].target>> \in triggers'
    /\ signals'[m].account = signals[m].account
    /\ \/ delivery'[x].pc = "audit" /\ mailbox'[m] = mailbox[m]
       \/ delivery'[x].pc = "done" /\ Waits(x) /\ mailbox'[m].state = "acked"
       \/ delivery'[x].pc = "done" /\ ~Waits(x) /\ mailbox'[m] = mailbox[m]

\* It fails.
Fails(x, m) ==
    /\ signals'[m].account = signals[m].account
    /\ \/ Waits(x) /\ delivery'[x].pc = "done" /\ mailbox'[m].state = "queued"
       \/ ~Waits(x) /\ delivery'[x].pc = "lost" /\ mailbox'[m] = mailbox[m]

\* It rejects the mail.
Rejects(x, m) ==
    /\ m \in Malformed
    /\ delivery'[x].pc = "done"
    /\ \/ mailbox'[m].state = "acked"
       \/ ~Waits(x) /\ mailbox'[m] = mailbox[m]

\* Other handlers and mails are left alone, and the pseudo-account is known.
Alone(x, m) ==
    /\ delivery'[x].mail = m
    /\ \A y \in Posts \ {x} : delivery'[y] = delivery[y]
    /\ \A n \in Mails \ {m} : /\ mailbox'[n] = mailbox[n]
                              /\ signals'[n].account = signals[n].account
    /\ triggers \subseteq triggers'
    /\ UnmatchedIds' = UnmatchedIds
    /\ \A a \in delivery'[x].listed :
         a \in delivery[x].listed \cup AccountList \/ a.slug # UNMATCHED_ACCOUNT_SLUG

Effect(x, m) ==
    /\ Alone(x, m)
    /\ Moves(x, m) \/ Writes(x, m) \/ Asks(x, m) \/ Fails(x, m) \/ Rejects(x, m)

\* The mailbox between a post and its answer.
LEMMA AwaitedStep ==
  ASSUME TypeInv, AskedInv, NEW x \in Busy, Effect(x, delivery[x].mail)
  PROVE  \A m \in Mails : Awaited(m)'
<1> SUFFICES ASSUME NEW m \in Mails PROVE Awaited(m)'
  OBVIOUS
<1>1. Awaited(m) /\ mailbox[m] \in Mailbox
  BY DEF AskedInv, TypeInv, TypeOK
<1>2. x \in Posts /\ delivery[x].pc \in Working
  BY DEF Busy
<1>3. CASE m = delivery[x].mail
  <2>1. CASE mailbox'[m] = mailbox[m] /\ delivery'[x].pc \in Working
    <3>1. ASSUME NEW y \in Posts, delivery[y].mail = m, delivery[y].pc \in Working
          PROVE  delivery'[y].mail = m /\ delivery'[y].pc \in Working
      BY <1>3, <2>1, <3>1 DEF Effect, Alone
    <3> QED
      BY <1>1, <2>1, <3>1 DEF Awaited
  <2>2. CASE ~Waits(x) /\ mailbox'[m] = mailbox[m]
    <3>1. mailbox[m].state = "posted" => mailbox[m].by # x
      BY <1>1, <1>3, <2>2 DEF Waits, Mailbox
    <3> QED
      BY <1>1, <2>2, <3>1 DEF Awaited, Effect, Alone
  <2>3. CASE mailbox'[m].state \in {"acked", "queued"}
    BY <2>3 DEF Awaited
  <2> QED
    BY <1>3, <2>1, <2>2, <2>3
       DEF Effect, Moves, Writes, Asks, Fails, Rejects, Working, Late
<1>4. CASE m # delivery[x].mail
  <2>1. mailbox'[m] = mailbox[m]
    BY <1>4 DEF Effect, Alone
  <2>2. mailbox[m].state = "posted" => mailbox[m].by # x
    BY <1>1, <1>4 DEF Awaited
  <2> QED
    BY <1>1, <2>1, <2>2 DEF Awaited, Effect, Alone
<1> QED
  BY <1>3, <1>4

\* Each effect keeps the account of every mail asked for, or to be.
LEMMA AskedByEffect ==
  ASSUME TypeInv, AskedInv, NEW x \in Busy, Effect(x, delivery[x].mail),
         NEW m \in Mails \ Malformed
  PROVE  AskedOrWill(m)'
<1> DEFINE n == delivery[x].mail
<1>1. /\ Awaited(m) /\ AskedOrWill(m) /\ mailbox[m] \in Mailbox
      /\ x \in Posts /\ delivery[x].pc \in Working
  BY DEF AskedInv, TypeInv, TypeOK, Busy
<1>2. Alone(x, n)
  BY DEF Effect
<1>3. \A y \in Posts \ {x} : signals'[m].account = signals[m].account =>
         (MayAsk(y, m) => MayAsk(y, m)')
  BY <1>2 DEF MayAsk, At, Alone
<1>4. signals'[m].account = signals[m].account => (Asked(m) => Asked(m)')
  BY <1>2 DEF Asked, Alone
<1>5. CASE m # n
  <2>1. mailbox'[m] = mailbox[m] /\ signals'[m].account = signals[m].account
    BY <1>2, <1>5 DEF Alone
  <2>2. Unanswered(m) => Unanswered(m)'
    <3>1. mailbox[m].state = "posted" =>
             /\ mailbox[m].by \in Posts \ {x}
             /\ delivery'[mailbox[m].by] = delivery[mailbox[m].by]
      BY <1>1, <1>2, <1>5 DEF Awaited, Alone
    <3> QED
      BY <2>1, <3>1 DEF Unanswered
  <2>3. ~MayAsk(x, m)
    BY <1>5 DEF MayAsk
  <2> QED
    BY <1>1, <1>3, <1>4, <2>1, <2>2, <2>3 DEF AskedOrWill
<1>6. CASE m = n
  <2>1. Unanswered(m) /\ ~Waits(x) /\ mailbox'[m] = mailbox[m] => Unanswered(m)'
    <3>1. ~Waits(x) /\ mailbox[m].state = "posted" =>
             /\ mailbox[m].by \in Posts \ {x}
             /\ delivery'[mailbox[m].by] = delivery[mailbox[m].by]
      BY <1>1, <1>2, <1>6 DEF Awaited, Alone, Waits, Mailbox
    <3> QED
      BY <3>1 DEF Unanswered
  <2>2. CASE Moves(x, m)
    <3>1. MayAsk(x, m)'
      BY <1>2, <1>6, <2>2 DEF MayAsk, Moves, Alone, At, Working, Late
    <3> QED
      BY <1>1, <3>1 DEF AskedOrWill
  <2>3. CASE Writes(x, m)
    <3>1. MayAsk(x, m)'
      BY <1>2, <1>6, <2>3 DEF MayAsk, Writes, Alone, At
    <3> QED
      BY <1>1, <3>1 DEF AskedOrWill
  <2>4. CASE Asks(x, m)
    <3>1. signals'[m].account = signals[m].account
      BY <2>4 DEF Asks
    <3>2. MayAsk(x, m) => Asked(m)'
      <4> SUFFICES ASSUME MayAsk(x, m) PROVE Asked(m)'
        OBVIOUS
      <4>1. At(x, "schedule") /\ delivery[x].target = signals[m].account
        BY <2>4 DEF MayAsk, Asks, Late, At
      <4>2. ToPseudoAccount(x) => delivery[x].target \in UnmatchedIds
        BY <1>1 DEF ToPseudoAccount, AskedInv, KnowsPseudo
      <4> QED
        BY <1>2, <2>4, <3>1, <4>1, <4>2 DEF Asked, Asks, Alone
    <3>3. CASE Waits(x)
      <4>1. ~Unanswered(m)
        BY <1>6, <2>4, <3>3 DEF Unanswered, Waits, Asks
      <4> QED
        BY <1>1, <1>3, <1>4, <3>1, <3>2, <4>1 DEF AskedOrWill
    <3>4. CASE ~Waits(x)
      <4>1. Unanswered(m) => Unanswered(m)'
        BY <2>1, <2>4, <3>4 DEF Asks
      <4> QED
        BY <1>1, <1>3, <1>4, <3>1, <3>2, <4>1 DEF AskedOrWill
    <3> QED
      BY <3>3, <3>4
  <2>5. CASE Fails(x, m)
    <3>1. CASE Waits(x)
      BY <2>5, <3>1 DEF Fails, AskedOrWill, Unanswered
    <3>2. CASE ~Waits(x)
      <4>1. MayAsk(x, m)'
        BY <1>2, <1>6, <2>5, <3>2 DEF MayAsk, Fails, Alone, At
      <4> QED
        BY <1>1, <4>1 DEF AskedOrWill
    <3> QED
      BY <3>1, <3>2
  <2>6. CASE Rejects(x, m)
    BY <2>6 DEF Rejects
  <2> QED
    BY <1>6, <2>2, <2>3, <2>4, <2>5, <2>6 DEF Effect
<1> QED
  BY <1>5, <1>6

\* Each effect keeps the invariant.
LEMMA EffectKeeps ==
  ASSUME TypeInv, AskedInv, NEW x \in Busy, Effect(x, delivery[x].mail)
  PROVE  AskedInv'
<1>1. UsedInOrder'
  <2>1. x \in Posts /\ delivery[x].pc # "none" /\ delivery'[x].pc # "none"
    BY DEF Busy, Effect, Moves, Writes, Asks, Fails, Rejects, Working
  <2>2. \A y \in Posts : delivery'[y].pc # "none" <=> delivery[y].pc # "none"
    BY <2>1 DEF Effect, Alone
  <2> QED
    BY <2>2 DEF AskedInv, UsedInOrder
<1>2. ASSUME NEW y \in Posts PROVE KnowsPseudo(y)'
  <2>1. \A a \in AccountList : a.slug = UNMATCHED_ACCOUNT_SLUG => a.id \in UnmatchedIds
    BY DEF AccountList, UnmatchedIds, Live
  <2> QED
    BY <2>1 DEF AskedInv, KnowsPseudo, Effect, Alone
<1> QED
  BY <1>1, <1>2, AwaitedStep, AskedByEffect DEF AskedInv

-----------------------------------------------------------------------------
(* Every step of a handler has one of the effects. *)

\* What an answer does, and whether SendGrid hears it.
LEMMA RespondEffect ==
  ASSUME TypeInv, NEW x \in Busy, NEW state \in {"queued", "acked"}, Respond(x, state),
         UNCHANGED signals
  PROVE  LET m == delivery[x].mail IN
         /\ delivery'[x].mail = m
         /\ delivery'[x].listed = {}
         /\ delivery'[x].pc = IF Waits(x) \/ state = "acked" THEN "done" ELSE "lost"
         /\ \A y \in Posts \ {x} : delivery'[y] = delivery[y]
         /\ Waits(x) => mailbox'[m].state = state
         /\ ~Waits(x) => mailbox'[m] = mailbox[m]
         /\ \A n \in Mails \ {m} : mailbox'[n] = mailbox[n]
<1>1. x \in Posts /\ delivery[x].mail \in Mails
  BY HandlerFields DEF Busy
<1>2. delivery \in [Posts -> Handler] /\ mailbox \in [Mails -> Mailbox]
  BY DEF TypeInv, TypeOK
<1> QED
  BY <1>1, <1>2 DEF Respond, Waits, NoHandler, Mailbox

LEMMA FailureEffect ==
  ASSUME TypeInv, NEW x \in Busy, Status500(x), UNCHANGED <<signals, triggers>>,
         UnmatchedIds' = UnmatchedIds
  PROVE  Effect(x, delivery[x].mail)
BY RespondEffect DEF Status500, Effect, Alone, Fails

\* A step short of the routing that leaves all but its own handler as it is.
LEMMA MoveEffect ==
  ASSUME TypeInv, NEW x \in Busy, delivery[x].pc \notin Late,
         delivery'[x].mail = delivery[x].mail,
         delivery'[x].pc \in Working \ Late,
         \A a \in delivery'[x].listed :
            a \in delivery[x].listed \cup AccountList \/ a.slug # UNMATCHED_ACCOUNT_SLUG,
         \A y \in Posts \ {x} : delivery'[y] = delivery[y],
         \A m \in Mails : signals'[m].account = signals[m].account,
         UNCHANGED <<mailbox, triggers>>,
         UnmatchedIds' = UnmatchedIds
  PROVE  Effect(x, delivery[x].mail)
<1>1. delivery[x].mail \in Mails
  BY HandlerFields DEF Busy
<1> QED
  BY <1>1 DEF Effect, Alone, Moves

LEMMA HandlerEffect ==
  ASSUME TypeInv, RoutedInv, NEW x \in Posts, Handle(x) \/ HandlerDies(x)
  PROVE  x \in Busy /\ Effect(x, delivery[x].mail)
<1> DEFINE m == delivery[x].mail
<1>1. delivery \in [Posts -> Handler]
  BY DEF TypeInv, TypeOK
<1>2. UNCHANGED accounts => UnmatchedIds' = UnmatchedIds
  BY DEF UnmatchedIds
<1>3. CASE ListAccounts(x)
  <2>1. x \in Busy /\ delivery[x].pc = "list"
    BY <1>3 DEF ListAccounts, At, Busy, Working
  <2>2. /\ delivery'[x].mail = m
        /\ delivery'[x].pc \in {"reject", "store", "lookup"}
        /\ delivery'[x].listed = AccountList
        /\ \A y \in Posts \ {x} : delivery'[y] = delivery[y]
    BY <1>1, <1>3 DEF ListAccounts, Handler
  <2> QED
    BY <1>2, <1>3, <2>1, <2>2, MoveEffect DEF ListAccounts, tables, Late, Working
<1>4. CASE LookUpAccount(x)
  <2>1. x \in Busy /\ delivery[x].pc = "lookup"
    BY <1>4 DEF LookUpAccount, At, Busy, Working
  <2>2. /\ delivery'[x].mail = m
        /\ delivery'[x].pc = "contact"
        /\ delivery'[x].listed = delivery[x].listed
        /\ \A y \in Posts \ {x} : delivery'[y] = delivery[y]
    BY <1>1, <1>4 DEF LookUpAccount, Handler
  <2> QED
    BY <1>2, <1>4, <2>1, <2>2, MoveEffect DEF LookUpAccount, tables, Late, Working
<1>5. CASE UpsertContact(x)
  <2>1. x \in Busy /\ delivery[x].pc = "contact"
    BY <1>5 DEF UpsertContact, At, Busy, Working
  <2>2. UNCHANGED <<accounts, signals, triggers>>
    BY <1>5 DEF UpsertContact
  <2>3. CASE Exists(delivery[x].found)
    <3>1. /\ delivery'[x].mail = m
          /\ delivery'[x].pc \in {"lookup", "store"}
          /\ delivery'[x].listed = delivery[x].listed
          /\ \A y \in Posts \ {x} : delivery'[y] = delivery[y]
          /\ UNCHANGED mailbox
      BY <1>1, <1>5, <2>3 DEF UpsertContact, NextParticipant, Handler
    <3> QED
      BY <1>2, <2>1, <2>2, <3>1, MoveEffect DEF Late, Working
  <2>4. CASE ~Exists(delivery[x].found)
    BY <1>2, <1>5, <2>1, <2>2, <2>4, FailureEffect DEF UpsertContact
  <2> QED
    BY <2>3, <2>4
<1>6. CASE StoreSignal(x)
  <2>1. x \in Busy /\ delivery[x].pc = "store"
    BY <1>6 DEF StoreSignal, At, Busy, Working
  <2>2. /\ delivery'[x].mail = m
        /\ delivery'[x].pc \in {"route", "thread"}
        /\ delivery'[x].listed = delivery[x].listed
        /\ \A y \in Posts \ {x} : delivery'[y] = delivery[y]
    BY <1>1, <1>6 DEF StoreSignal, Goto, Handler
  <2>3. \A n \in Mails : signals'[n].account = signals[n].account
    BY <1>6 DEF StoreSignal, TypeInv, TypeOK, SignalRow
  <2> QED
    BY <1>2, <1>6, <2>1, <2>2, <2>3, MoveEffect DEF StoreSignal, Late, Working
<1>7. CASE ReadThread(x)
  <2>1. x \in Busy /\ delivery[x].pc = "thread"
    BY <1>7 DEF ReadThread, At, Busy, Working
  <2>2. /\ delivery'[x].mail = m
        /\ delivery'[x].pc = "route"
        /\ delivery'[x].listed = delivery[x].listed
        /\ \A y \in Posts \ {x} : delivery'[y] = delivery[y]
    <3>1. CASE Goto(x, "route")
      BY <1>1, <3>1 DEF Goto, Handler
    <3>2. ASSUME NEW n \in Mails, NEW split,
                 delivery' = [delivery EXCEPT ![x].pc = "route",
                                ![x].thread.latest = signals[n].account,
                                ![x].thread.split = split]
          PROVE  /\ delivery'[x].mail = m
                 /\ delivery'[x].pc = "route"
                 /\ delivery'[x].listed = delivery[x].listed
                 /\ \A y \in Posts \ {x} : delivery'[y] = delivery[y]
      BY <1>1, <3>2 DEF Handler
    <3> QED
      BY <1>7, <3>1, <3>2 DEF ReadThread
  <2> QED
    BY <1>2, <1>7, <2>1, <2>2, MoveEffect DEF ReadThread, tables, Late, Working
<1>8. CASE UpsertCandidate(x)
  <2>1. /\ x \in Busy /\ delivery[x].pc = "route"
        /\ UNCHANGED <<signals, triggers>>
    BY <1>8 DEF UpsertCandidate, At, Busy, Working
  <2>2. CASE Status500(x) /\ UNCHANGED accounts
    BY <1>2, <2>1, <2>2, FailureEffect
  <2>3. ASSUME NEW r \in Discoveries(x), GotCandidate(x, r), UNCHANGED mailbox,
               accounts' = [accounts EXCEPT ![SlugOf[r.discover]] = Discovered(r.discover)]
        PROVE  Effect(x, m)
    <3>1. SlugOf[r.discover] # UNMATCHED_ACCOUNT_SLUG
      <4>1. r.discover \in Domains
        BY <2>1, Readings DEF Discoveries, Decision, Maybe
      <4> QED
        BY <4>1, RoutingAssumption
    <3>2. UnmatchedIds' = UnmatchedIds
      BY <2>3, <3>1 DEF UnmatchedIds, TypeInv, TypeOK
    <3>3. /\ delivery'[x].mail = m
          /\ delivery'[x].pc = "update"
          /\ \A a \in delivery'[x].listed :
               a \in delivery[x].listed \/ a.slug = SlugOf[r.discover]
          /\ \A y \in Posts \ {x} : delivery'[y] = delivery[y]
      BY <1>1, <2>3 DEF GotCandidate, Handler
    <3> QED
      BY <2>1, <2>3, <3>1, <3>2, <3>3, MoveEffect DEF Late, Working
  <2> QED
    BY <1>8, <2>1, <2>2, <2>3 DEF UpsertCandidate
<1>9. CASE UpdateRouting(x)
  <2>1. /\ x \in Busy /\ UNCHANGED <<accounts, triggers>>
    BY <1>9 DEF UpdateRouting, Busy, Working
  <2>2. CASE Status500(x) /\ UNCHANGED signals
    BY <1>2, <2>1, <2>2, FailureEffect
  <2>3. ASSUME NEW r \in Routing(x),
               signals' = [signals EXCEPT ![m].account = r.target, ![m].method = r.method],
               delivery' = [delivery EXCEPT ![x].pc = "schedule", ![x].target = r.target,
                                            ![x].method = r.method],
               UNCHANGED mailbox
        PROVE  Effect(x, m)
    <3>1. m \in Mails
      BY <2>1, HandlerFields DEF Busy
    <3>2. /\ delivery'[x].mail = m
          /\ delivery'[x].pc = "schedule"
          /\ delivery'[x].target = r.target
          /\ delivery'[x].listed = delivery[x].listed
          /\ \A y \in Posts \ {x} : delivery'[y] = delivery[y]
      BY <1>1, <2>3 DEF Handler
    <3> HIDE DEF m
    <3>3. /\ signals'[m].account = r.target
          /\ \A n \in Mails \ {m} : signals'[n] = signals[n]
      BY <2>3, <3>1 DEF TypeInv, TypeOK, SignalRow
    <3> QED
      BY <1>2, <2>1, <2>3, <3>2, <3>3 DEF Effect, Alone, Writes
  <2> QED
    BY <1>9, <2>1, <2>2, <2>3 DEF UpdateRouting
<1>10. CASE ScheduleRegen(x)
  <2>1. /\ x \in Busy /\ delivery[x].pc = "schedule"
        /\ UNCHANGED <<accounts, signals>>
    BY <1>10 DEF ScheduleRegen, At, Busy, Working
  <2>2. /\ triggers \subseteq triggers'
        /\ \/ delivery[x].target = None
           \/ ToPseudoAccount(x)
           \/ <<m, delivery[x].target>> \in triggers'
    BY <1>10 DEF ScheduleRegen
  <2>3. CASE Goto(x, "audit") /\ UNCHANGED mailbox
    <3>1. /\ delivery'[x].mail = m
          /\ delivery'[x].pc = "audit"
          /\ delivery'[x].listed = delivery[x].listed
          /\ \A y \in Posts \ {x} : delivery'[y] = delivery[y]
      BY <1>1, <2>3 DEF Goto, Handler
    <3> QED
      BY <1>2, <2>1, <2>2, <2>3, <3>1 DEF Effect, Alone, Asks, Late
  <2>4. CASE Status200(x)
    BY <1>2, <2>1, <2>2, <2>4, RespondEffect DEF Status200, Effect, Alone, Asks, Late
  <2> QED
    BY <1>10, <2>1, <2>3, <2>4 DEF ScheduleRegen
<1>11. CASE AuditSplit(x)
  <2>1. /\ x \in Busy /\ delivery[x].pc = "audit"
        /\ Status200(x) /\ UNCHANGED <<accounts, signals, triggers>>
    BY <1>11 DEF AuditSplit, At, Busy, Working, tables
  <2> QED
    BY <1>2, <2>1, RespondEffect DEF Status200, Effect, Alone, Asks, Late, At
<1>12. CASE RejectMalformed(x)
  <2>1. /\ x \in Busy /\ delivery[x].pc = "reject" /\ m \in Malformed
        /\ Status200(x) /\ UNCHANGED <<accounts, signals, triggers>>
    BY <1>12 DEF RejectMalformed, At, Busy, Working, tables, RoutedInv, PostOK
  <2> QED
    BY <1>2, <2>1, RespondEffect DEF Status200, Effect, Alone, Rejects
<1>13. CASE HandlerDies(x)
  BY <1>2, <1>13, FailureEffect DEF HandlerDies, tables
<1> QED
  BY <1>3, <1>4, <1>5, <1>6, <1>7, <1>8, <1>9, <1>10, <1>11, <1>12, <1>13 DEF Handle

LEMMA AskedStep == TypeInv /\ RoutedInv /\ AskedInv /\ [Next]_vars => AskedInv'
<1> SUFFICES ASSUME TypeInv, RoutedInv, AskedInv, [Next]_vars PROVE AskedInv'
  OBVIOUS
<1>1. mailbox \in [Mails -> Mailbox] /\ delivery \in [Posts -> Handler]
  BY DEF TypeInv, TypeOK
<1>2. ASSUME NEW m \in Mails, Write(m) \/ TimeOut(m) PROVE AskedInv'
  <2>1. /\ UNCHANGED <<delivery, accounts, signals, triggers>>
        /\ mailbox'[m].state = "queued"
        /\ \A n \in Mails \ {m} : mailbox'[n] = mailbox[n]
    BY <1>1, <1>2 DEF Write, TimeOut, tables, Mailbox
  <2>2. UsedInOrder' /\ \A x \in Posts : KnowsPseudo(x)'
    BY <2>1 DEF AskedInv, UsedInOrder, KnowsPseudo, UnmatchedIds
  <2>3. \A n \in Mails : Awaited(n)'
    BY <2>1 DEF AskedInv, Awaited
  <2>4. \A n \in Mails \ Malformed : AskedOrWill(n)'
    BY <2>1 DEF AskedInv, AskedOrWill, Unanswered, Asked, MayAsk, At, UnmatchedIds
  <2> QED
    BY <2>2, <2>3, <2>4 DEF AskedInv
<1>3. ASSUME NEW m \in Mails, Post(m) PROVE AskedInv'
  <2> DEFINE x == Cardinality({y \in Posts : ~At(y, "none")}) + 1
  <2>1. /\ x \in Posts
        /\ mailbox' = [mailbox EXCEPT ![m] = [state |-> "posted", by |-> x]]
        /\ delivery' = [delivery EXCEPT ![x].pc = "list", ![x].mail = m]
        /\ UNCHANGED <<accounts, signals, triggers>>
    BY <1>3 DEF Post, tables
  <2>2. At(x, "none") /\ \A y \in Posts : ~At(y, "none") <=> y < x
    BY <2>1, FreshPost DEF AskedInv
  <2> HIDE DEF x
  <2>3. /\ delivery'[x].pc = "list" /\ delivery'[x].mail = m
        /\ delivery'[x].listed = delivery[x].listed
        /\ \A y \in Posts \ {x} : delivery'[y] = delivery[y]
    BY <1>1, <2>1 DEF Handler
  <2>4. /\ mailbox'[m] = [state |-> "posted", by |-> x]
        /\ \A n \in Mails \ {m} : mailbox'[n] = mailbox[n]
    BY <1>1, <2>1
  <2>5. UsedInOrder'
    <3>1. x \in 0 .. MaxDeliveries
      BY <2>1, IngestionAssumption DEF Posts
    <3>2. \A y \in Posts : delivery'[y].pc # "none" <=> y <= x
      <4>1. \A y \in Posts : y \in Int
        BY DEF Posts
      <4>2. x <= x /\ \A y \in Posts \ {x} : y <= x <=> y < x
        BY <2>1, <4>1
      <4>3. \A y \in Posts \ {x} : delivery'[y].pc # "none" <=> y <= x
        BY <2>2, <2>3, <4>2 DEF At
      <4>4. delivery'[x].pc # "none"
        BY <2>3
      <4> QED
        BY <4>2, <4>3, <4>4
    <3> QED
      BY <3>1, <3>2 DEF UsedInOrder
  <2>6. \A y \in Posts : KnowsPseudo(y)'
    BY <2>1, <2>3 DEF AskedInv, KnowsPseudo, UnmatchedIds
  <2>7. ASSUME NEW n \in Mails PROVE Awaited(n)'
    <3>1. CASE n = m
      <4>1. mailbox'[n].by = x /\ delivery'[x].mail = n
        BY <2>3, <2>4, <3>1
      <4>2. delivery'[x].pc \in Working
        BY <2>3 DEF Working
      <4> QED
        BY <2>1, <4>1, <4>2 DEF Awaited
    <3>2. CASE n # m
      <4>1. Awaited(n) /\ mailbox'[n] = mailbox[n]
        BY <2>4, <3>2 DEF AskedInv
      <4>2. mailbox[n].state = "posted" => mailbox[n].by # x
        BY <2>2, <4>1 DEF Awaited, At, Working
      <4> QED
        BY <2>3, <4>1, <4>2 DEF Awaited
    <3> QED
      BY <3>1, <3>2
  <2>8. ASSUME NEW n \in Mails \ Malformed PROVE AskedOrWill(n)'
    <3>1. CASE n = m
      BY <2>3, <2>4, <3>1 DEF AskedOrWill, Unanswered, Late
    <3>2. CASE n # m
      <4>1. Awaited(n) /\ AskedOrWill(n) /\ mailbox'[n] = mailbox[n]
        BY <2>4, <3>2 DEF AskedInv
      <4>2. mailbox[n].state = "posted" => mailbox[n].by \in Posts \ {x}
        BY <2>2, <4>1 DEF Awaited, At, Working
      <4>3. Unanswered(n) => Unanswered(n)'
        BY <2>3, <4>1, <4>2 DEF Unanswered
      <4>4. Asked(n) => Asked(n)'
        BY <2>1 DEF Asked, UnmatchedIds
      <4>5. \A y \in Posts : MayAsk(y, n) => MayAsk(y, n)'
        BY <2>1, <2>2, <2>3 DEF MayAsk, At
      <4> QED
        BY <4>1, <4>3, <4>4, <4>5 DEF AskedOrWill
    <3> QED
      BY <3>1, <3>2
  <2> QED
    BY <2>5, <2>6, <2>7, <2>8 DEF AskedInv
<1>4. ASSUME NEW x \in Posts, Handle(x) \/ HandlerDies(x) PROVE AskedInv'
  BY <1>4, HandlerEffect, EffectKeeps
<1>5. ASSUME NEW slug \in Slugs, Confirm(slug) \/ Dismiss(slug) PROVE AskedInv'
  <2>1. UNCHANGED <<mailbox, delivery, signals, triggers>>
    BY <1>5 DEF Confirm, Dismiss, Decide
  <2>2. \A s \in Slugs : accounts'[s].id = accounts[s].id
    <3>1. accounts \in [Slugs -> Account] /\ accounts[slug] # NoAccount
      BY <1>5 DEF Confirm, Dismiss, Decide, Live, NoAccount, TypeInv, TypeOK
    <3>2. accounts[slug] \in [status : {"candidate", "active"}, id : Ids,
                              domain : Maybe(Domains), deleted : BOOLEAN]
      BY <3>1 DEF Account
    <3> QED
      BY <1>5, <3>1, <3>2 DEF Confirm, Dismiss
  <2>3. UnmatchedIds' = UnmatchedIds
    BY <2>2 DEF UnmatchedIds
  <2> QED
    BY <2>1, <2>3 DEF AskedInv, UsedInOrder, Awaited, KnowsPseudo, AskedOrWill, Unanswered,
                      Asked, MayAsk, At
<1>6. CASE UNCHANGED vars
  BY <1>6 DEF vars, AskedInv, UsedInOrder, Awaited, KnowsPseudo, AskedOrWill, Unanswered,
              Asked, MayAsk, At, UnmatchedIds
<1> QED
  BY <1>2, <1>3, <1>4, <1>5, <1>6 DEF Next

\* A mail is forgotten only when a regeneration was asked for on the account its
\* signal went to, whatever posts of it overlap, route it differently and die,
\* unless one of those still has something to do or was given up.
THEOREM AckedTriggered == Spec => []AckedIsTriggered
<1>1. TypeInv /\ AskedInv => AckedIsTriggered
  <2> SUFFICES ASSUME TypeInv, AskedInv, NEW m \in Mails \ Malformed,
                      mailbox[m].state = "acked"
               PROVE  Asked(m) \/ \E x \in Posts : delivery[x].mail = m /\ ~At(x, "done")
    BY DEF AckedIsTriggered, Asked
  <2>1. ~Unanswered(m) /\ AskedOrWill(m)
    BY DEF Unanswered, AskedInv
  <2> QED
    BY <2>1 DEF AskedOrWill, MayAsk, At
<1> QED
  BY <1>1, TypeInit, TypeStep, RoutedInit, RoutedStep, AskedInit, AskedStep, PTL DEF Spec

-----------------------------------------------------------------------------

\* A contact that has an account keeps one: a handler that found none, since the
\* account did not exist when it looked or has been dismissed, writes none over it.
THEOREM LinksStay == Spec => LinkKept
<1> DEFINE Kept == \A d \in Domains : contact[d] # None => contact'[d] # None
<1>1. TypeInv /\ [Next]_vars => [Kept]_vars
  <2> SUFFICES ASSUME TypeInv, [Next]_vars PROVE Kept \/ UNCHANGED vars
    OBVIOUS
  <2>1. contact \in [Domains -> Maybe(Ids)]
    BY DEF TypeInv, TypeOK
  <2>2. ASSUME NEW x \in Posts, UpsertContact(x) PROVE Kept
    BY <2>1, <2>2 DEF UpsertContact
  <2>3. ASSUME NEW x \in Posts, Handle(x), ~UpsertContact(x) PROVE UNCHANGED contact
    BY <2>3 DEF Handle, ListAccounts, RejectMalformed, LookUpAccount, StoreSignal, ReadThread,
                UpsertCandidate, UpdateRouting, ScheduleRegen, AuditSplit, tables
  <2>4. ASSUME NEW x \in Posts, HandlerDies(x) PROVE UNCHANGED contact
    BY <2>4 DEF HandlerDies, tables
  <2>5. ASSUME NEW m \in Mails, Write(m) \/ Post(m) \/ TimeOut(m) PROVE UNCHANGED contact
    BY <2>5 DEF Write, Post, TimeOut, tables
  <2>6. ASSUME NEW slug \in Slugs, Confirm(slug) \/ Dismiss(slug) PROVE UNCHANGED contact
    BY <2>6 DEF Confirm, Dismiss, Decide
  <2> QED
    BY <2>2, <2>3, <2>4, <2>5, <2>6 DEF Next
<1> QED
  BY <1>1, TypeInit, TypeStep, PTL DEF Spec, LinkKept
=============================================================================
