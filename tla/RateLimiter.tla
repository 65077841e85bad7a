---------------------------- MODULE RateLimiter ----------------------------
(***************************************************************************)
(* The sliding window in front of POST /event (src/server/rate_limit.py).  *)
(* A server process keeps for each API key the times of the requests it    *)
(* let through during the last minute.  "keys" here are the pairs of a     *)
(* process and a key: nothing is shared between processes, and a process   *)
(* that starts anew has forgotten everything.                              *)
(***************************************************************************)
EXTENDS Integers, Sequences

CONSTANTS Keys, Window, LimitPerMinute, MaxTime

ASSUME RateLimiterAssumption ==
    /\ Window \in Nat
    /\ LimitPerMinute \in Nat
    /\ MaxTime \in Nat

VARIABLES
    now,        \* time.monotonic()
    bucket,     \* bucket[k]: the deque of key k
    admitted    \* history: every request of k let through since the process started

limiterVars == <<now, bucket, admitted>>

NoRequests == [k \in Keys |-> <<>>]

LimiterInit ==
    /\ now = 0
    /\ bucket = NoRequests
    /\ admitted = NoRequests

\* What is left of a deque once the entries before the cutoff are popped off its front.
Kept(times, cutoff) ==
    LET kept == {i \in 1 .. Len(times) : times[i] >= cutoff}
    IN  IF kept = {} THEN <<>>
        ELSE SubSeq(times, CHOOSE i \in kept : \A j \in kept : i <= j, Len(times))

\* Mutant: an entry exactly one window old is dropped too.
RecentStrict(k) == Kept(bucket[k], now - Window + 1)

Recent(k) == Kept(bucket[k], now - Window)

Admit(k) ==
    /\ Len(Recent(k)) < LimitPerMinute
    /\ bucket' = [bucket EXCEPT ![k] = Append(Recent(k), now)]
    /\ admitted' = [admitted EXCEPT ![k] = Append(@, now)]
    /\ UNCHANGED now

Refuse(k) ==
    /\ Len(Recent(k)) >= LimitPerMinute
    /\ bucket' = [bucket EXCEPT ![k] = Recent(k)]
    /\ UNCHANGED <<now, admitted>>

ColdStart(k) ==
    /\ bucket' = [bucket EXCEPT ![k] = <<>>]
    /\ admitted' = [admitted EXCEPT ![k] = <<>>]
    /\ UNCHANGED now

Tick ==
    /\ now < MaxTime
    /\ now' = now + 1
    /\ UNCHANGED <<bucket, admitted>>

LimiterNext == Tick \/ \E k \in Keys : Admit(k) \/ Refuse(k) \/ ColdStart(k)

LimiterSpec == LimiterInit /\ [][LimiterNext]_limiterVars

-----------------------------------------------------------------------------

\* No stretch of one window, both ends included, sees more requests let through
\* than the limit: a request and the one LimitPerMinute places after it are more
\* than a window apart.  The deque alone does not show it, since it forgets.
WindowBound ==
    \A k \in Keys : \A i \in 1 .. Len(admitted[k]) :
        i + LimitPerMinute <= Len(admitted[k])
            => admitted[k][i] + Window < admitted[k][i + LimitPerMinute]
=============================================================================
