-------------------------- MODULE StructuredIntake --------------------------
(***************************************************************************)
(* The push routes and the Granola poller over the same tables: processes  *)
(* and polls interleave, meet on the same new contacts, and owe the        *)
(* narratives a trigger for every signal they route to an account.         *)
(***************************************************************************)
EXTENDS PushIntake, GranolaPoll

ASSUME IntakeAssumption == Polls \cap Instances = {}

vars == <<pushVars, pollVars, faults, normalizerVars, limiterVars>>

Init == NormalizerInit /\ LimiterInit /\ PushInit /\ PollInit

TypeOK == NormalizerTypeOK /\ PushTypeOK /\ PollTypeOK

Push ==
    /\ \/ \E r \in Requests : TimeOut(r) \/ \E i \in Instances : Post(r, i)
       \/ \E i \in Instances : HandleRequest(i) \/ NormalizerRaises(i) \/ Die(i)
       \/ \E route \in connected : Disconnect(route)
       \/ \E a \in Accounts : OpenAccount(a)
       \/ PassTime
    /\ UNCHANGED pollVars

Pull ==
    /\ PollNext \/ \E c \in Credentials : Publish(c)
    /\ UNCHANGED <<pushVars, limiterVars>>

Next == Push \/ Pull

Spec == Init /\ [][Next]_vars /\ PollFairness

-----------------------------------------------------------------------------

Owed == UNION ({OwedBy(i) : i \in Instances} \cup {PollOwes(p) : p \in Polls})

\* A stored signal of an account is followed by a regeneration for that account, or
\* somebody at work still owes it, or a crash or a failing call came between: no
\* order of batches, duplicates, re-fetched pages and concurrent posts loses it.
RoutedIsHeard ==
    \A k \in SignalKeys :
        signals[k].stored /\ signals[k].account # None
            => signals[k].heard \/ k \in Owed \/ k \in lost
=============================================================================
