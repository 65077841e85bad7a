------------------------------ MODULE Routing ------------------------------
(***************************************************************************)
(* The routing cascade of src/pipeline/router.py: which account an e-mail  *)
(* belongs to.  An address counts by its domain only; the service's own    *)
(* address, which the code filters out, is left out of the recipients.     *)
(*                                                                         *)
(* The code resolves several matches by the latest updated_at; here any of *)
(* them may be the latest, so each stage is a set of possible results,     *)
(* empty when the stage does not match.                                    *)
(***************************************************************************)
EXTENDS Integers, Sequences

CONSTANTS
    Domains,        \* e-mail domains
    Internal,       \* internal_domains of the workspace
    Personal,       \* PERSONAL_PROVIDER_DOMAINS
    Within,         \* pairs <<d, e>>: d is e or a subdomain of e
    SlugOf,         \* SlugOf[d]: the first label of domain d
    None

UNMATCHED_ACCOUNT_SLUG == "_unmatched"

ASSUME RoutingAssumption ==
    /\ Internal \subseteq Domains
    /\ Personal \subseteq Domains
    /\ Within \subseteq Domains \X Domains
    /\ \A d \in Domains : <<d, d>> \in Within
    /\ None \notin Domains
    /\ \A d \in Domains : SlugOf[d] # UNMATCHED_ACCOUNT_SLUG   \* a label has no "_"

\* A routing decision: an account, or the domain of a candidate to discover.
To(id, method) == [account |-> id, method |-> method, discover |-> None]
Discover(d, method) == [account |-> None, method |-> method, discover |-> d]

IsInternal(d) == d \in Internal

DomainsOf(addresses) == {addresses[i] : i \in DOMAIN addresses}

\* Listed accounts that own one of the domains; [id, slug, domain] each.
Owners(domains, listed) ==
    {a \in listed : /\ a.slug # UNMATCHED_ACCOUNT_SLUG
                    /\ \E d \in domains : <<d, a.domain>> \in Within}

RoutedTo(accounts, method) == {To(a.id, method) : a \in accounts}

\* Stage 0: sent by the workspace's own staff.
OutboundBcc(mail, listed) ==
    LET outside == {i \in DOMAIN mail.to : ~IsInternal(mail.to[i])}
        first == {i \in outside : \A k \in outside : i <= k}
        owners == Owners({mail.to[i] : i \in outside}, listed)
    IN  IF ~IsInternal(mail.from) THEN {}
        ELSE IF owners # {} THEN RoutedTo(owners, "outbound_bcc")
        ELSE {Discover(mail.to[i], "outbound_bcc") :
                 i \in {i \in first : mail.to[i] \notin Personal}}

\* Stage 1: a recipient <workspace>+<slug>.
PlusAddressing(mail, listed) ==
    RoutedTo({a \in listed : a.slug = mail.plus}, "plus_addressing")

\* Stage 2: an outside sender or recipient of a known domain.
HeaderOwners(sender, mail, listed) ==
    Owners(({sender} \cup DomainsOf(mail.to)) \ Internal, listed)

HeaderDomain(mail, listed) ==
    RoutedTo(HeaderOwners(mail.from, mail, listed), "header_domain")

\* Stage 3: staff forwarded a message; its original sender counts as sender.
ForwardParse(mail, listed) ==
    IF ~IsInternal(mail.from) \/ mail.forwarded = None THEN {}
    ELSE RoutedTo(HeaderOwners(mail.forwarded, mail, listed), "forward_parse")

\* Stage 4: the account of the latest of the thread's earlier signals.
ThreadInherit(thread) ==
    IF thread.latest = None THEN {}
    ELSE IF thread.split THEN {To(thread.latest, "thread_inherit_split")}
    ELSE {To(thread.latest, "thread_inherit")}

\* Stage 5: an unknown company writes.
AutoDiscovery(mail) ==
    IF mail.from \in Internal \cup Personal THEN {}
    ELSE {Discover(mail.from, "auto_discovery")}

\* The first stage that matches decides.
Route(mail, listed, thread) ==
    LET stages == << OutboundBcc(mail, listed),
                     PlusAddressing(mail, listed),
                     HeaderDomain(mail, listed),
                     ForwardParse(mail, listed),
                     ThreadInherit(thread),
                     AutoDiscovery(mail),
                     {To(None, "unmatched")} >>
        first == CHOOSE i \in DOMAIN stages :
                    stages[i] # {} /\ \A k \in 1 .. i - 1 : stages[k] = {}
    IN  stages[first]
=============================================================================
