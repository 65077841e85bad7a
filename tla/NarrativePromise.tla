-------------------------- MODULE NarrativePromise --------------------------
(***************************************************************************)
(* What the regeneration queue promises a reader of an account page, with  *)
(* the queue, the workers and the clock hidden: the newest narrative never *)
(* falls behind an older one, and a regeneration reported as done stands   *)
(* for signals the newest narrative has read.                              *)
(***************************************************************************)
EXTENDS Integers

CONSTANT Accounts

VARIABLES
    landed,     \* landed[a]: signals stored for account a
    told,       \* told[a]: how many of them the newest narrative has read
    settled     \* settled[a]: signal counts for which a regeneration was done

vars == <<landed, told, settled>>

Init ==
    /\ landed = [a \in Accounts |-> 0]
    /\ told = [a \in Accounts |-> 0]
    /\ settled = [a \in Accounts |-> {}]

Land(a) ==
    /\ landed' = [landed EXCEPT ![a] = @ + 1]
    /\ UNCHANGED <<told, settled>>

Refresh(a) ==
    /\ \E n \in told[a] .. landed[a] : told' = [told EXCEPT ![a] = n]
    /\ UNCHANGED <<landed, settled>>

Settle(a) ==
    /\ \E n \in 0 .. told[a] : settled' = [settled EXCEPT ![a] = @ \cup {n}]
    /\ UNCHANGED <<landed, told>>

Next == \E a \in Accounts : Land(a) \/ Refresh(a) \/ Settle(a)

Spec == Init /\ [][Next]_vars
=============================================================================
