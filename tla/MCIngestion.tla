---------------------------- MODULE MCIngestion ----------------------------
(* One mail for each way through the router, any two of which are sent:     *)
(* "com" and "io" are two companies called acme, "box" a personal provider, *)
(* "us" the workspace itself, "old" a customer an operator entered.         *)
EXTENDS Ingestion

MCDomains == {"com", "io", "box", "us", "old"}
MCWithin == {<<d, d>> : d \in MCDomains}
MCSlugOf == [d \in MCDomains |-> IF d \in {"com", "io"} THEN "acme" ELSE d]

MCSeeds == {[id |-> "u0", slug |-> "_unmatched", domain |-> None],
            [id |-> "o0", slug |-> "old", domain |-> "old"]}

Plain(d, thread) == [from |-> d, to |-> <<>>, plus |-> None, forwarded |-> None,
                     thread |-> thread]

MCHeader ==
    [hello |-> Plain("com", 1),
     rival |-> Plain("io", None),
     reply |-> Plain("box", 1),
     bcc |-> [Plain("us", None) EXCEPT !.to = <<"com">>],
     forward |-> [Plain("us", None) EXCEPT !.forwarded = "old"],
     plus |-> [Plain("box", None) EXCEPT !.plus = "old"],
     broken |-> Plain("old", None)]
MCMails == DOMAIN MCHeader

\* An operator has also entered "io", and nothing refers to it yet.
MCRivalSeeds == MCSeeds \cup {[id |-> "a0", slug |-> "acme", domain |-> "io"]}
=============================================================================
