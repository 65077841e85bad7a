------------------------- MODULE RateLimiterProofs --------------------------
(***************************************************************************)
(* Proof that the deque, which forgets, still enforces the limit over      *)
(* every window of the history, for any limit, window and number of keys.  *)
(***************************************************************************)
EXTENDS RateLimiter, SequenceTheorems, WellFoundedInduction, TLAPS

\* A set of naturals with a member has a least one.
LEMMA LeastNat ==
  ASSUME NEW S \in SUBSET Nat, S # {}
  PROVE  \E i \in S : \A j \in S : i <= j
<1>1. PICK i \in S : \A j \in S : ~ (<<j, i>> \in OpToRel(<, Nat))
  BY WFMin, NatLessThanWellFounded, Zenon
<1>2. \A j \in S : ~ (j < i)
  BY <1>1 DEF OpToRel
<1> QED
  BY <1>2

\* Popping the front leaves a suffix, and pops what is before the cutoff only.
LEMMA KeptIsSuffix ==
  ASSUME NEW s \in Seq(Nat), NEW c \in Int
  PROVE  \E m \in 0 .. Len(s) :
           /\ Kept(s, c) \in Seq(Nat)
           /\ Len(Kept(s, c)) = Len(s) - m
           /\ \A i \in 1 .. Len(s) - m : Kept(s, c)[i] = s[m + i]
           /\ \A i \in 1 .. m : s[i] < c
<1> DEFINE kept == {i \in 1 .. Len(s) : s[i] >= c}
<1>1. CASE kept = {}
  <2>1. Kept(s, c) = <<>>
    BY <1>1 DEF Kept
  <2>2. \A i \in 1 .. Len(s) : s[i] < c
    BY <1>1
  <2> QED
    BY <2>1, <2>2
<1>2. CASE kept # {}
  <2> DEFINE f == CHOOSE i \in kept : \A j \in kept : i <= j
  <2>1. \E i \in kept : \A j \in kept : i <= j
    <3>1. kept \in SUBSET Nat
      OBVIOUS
    <3> HIDE DEF kept
    <3> QED
      BY <1>2, <3>1, LeastNat
  <2>2. f \in kept /\ \A j \in kept : f <= j
    BY <2>1
  <2>3. f \in 1 .. Len(s)
    BY <2>2
  <2>4. \A i \in 1 .. f - 1 : s[i] < c
    <3> HIDE DEF f
    <3> TAKE i \in 1 .. f - 1
    <3>1. i \in 1 .. Len(s) /\ ~(f <= i)
      BY <2>3
    <3>2. i \notin kept /\ s[i] \in Nat
      BY <2>2, <3>1
    <3> QED
      BY <3>1, <3>2
  <2>5. Kept(s, c) = SubSeq(s, f, Len(s))
    BY <1>2 DEF Kept
  <2> HIDE DEF f
  <2>6. \A i \in f .. Len(s) : s[i] \in Nat
    BY <2>3
  <2>7. /\ Kept(s, c) \in Seq(Nat)
        /\ Len(Kept(s, c)) = Len(s) - (f - 1)
        /\ \A i \in 1 .. Len(s) - (f - 1) : Kept(s, c)[i] = s[f - 1 + i]
    <3>1. Len(s) \in Int /\ f \in Int
      BY <2>3
    <3> QED
      BY <2>3, <2>5, <2>6, <3>1, SubSeqProperties
  <2>8. f - 1 \in 0 .. Len(s)
    BY <2>3
  <2> QED
    BY <2>4, <2>7, <2>8
<1> QED
  BY <1>1, <1>2

-----------------------------------------------------------------------------
(* The inductive invariant. *)

LimiterTypeOK ==
    /\ now \in Nat
    /\ bucket \in [Keys -> Seq(Nat)]
    /\ admitted \in [Keys -> Seq(Nat)]

\* The deque b holds the end of the history h; what it has forgotten is more than
\* a window old.
Remembers(b, h) ==
    \E d \in 0 .. Len(h) :
        /\ Len(b) = Len(h) - d
        /\ \A i \in 1 .. Len(b) : b[i] = h[d + i]
        /\ \A i \in 1 .. d : h[i] + Window < now

\* WindowBound for one history.
Spaced(h) ==
    \A i \in 1 .. Len(h) :
        i + LimitPerMinute <= Len(h) => h[i] + Window < h[i + LimitPerMinute]

\* A new process remembers no request, and its history starts anew.
LimiterInv ==
    /\ LimiterTypeOK
    /\ \A k \in Keys : Remembers(bucket[k], admitted[k])
    /\ \A k \in Keys : Spaced(admitted[k])

LEMMA LimiterInitInv == LimiterInit => LimiterInv
<1> SUFFICES ASSUME LimiterInit PROVE LimiterInv
  OBVIOUS
<1>1. LimiterTypeOK
  BY DEF LimiterInit, NoRequests, LimiterTypeOK
<1>2. \A k \in Keys : bucket[k] = <<>> /\ admitted[k] = <<>>
  BY DEF LimiterInit, NoRequests
<1>3. Remembers(<<>>, <<>>) /\ Spaced(<<>>)
  BY DEF Remembers, Spaced
<1> QED
  BY <1>1, <1>2, <1>3 DEF LimiterInv

\* Looking at the deque forgets nothing that still counts.
LEMMA RecentRemembers ==
  ASSUME LimiterInv, NEW k \in Keys
  PROVE  Recent(k) \in Seq(Nat) /\ Remembers(Recent(k), admitted[k])
<1> DEFINE b == bucket[k]
           h == admitted[k]
           r == Recent(k)
<1>1. now \in Nat /\ b \in Seq(Nat) /\ h \in Seq(Nat) /\ Window \in Nat
  BY RateLimiterAssumption DEF LimiterInv, LimiterTypeOK
<1>2. PICK d \in 0 .. Len(h) :
        /\ Len(b) = Len(h) - d
        /\ \A i \in 1 .. Len(b) : b[i] = h[d + i]
        /\ \A i \in 1 .. d : h[i] + Window < now
  BY DEF LimiterInv, Remembers
<1>3. PICK m \in 0 .. Len(b) :
        /\ r \in Seq(Nat)
        /\ Len(r) = Len(b) - m
        /\ \A i \in 1 .. Len(b) - m : r[i] = b[m + i]
        /\ \A i \in 1 .. m : b[i] < now - Window
  <2>1. now - Window \in Int
    BY <1>1
  <2> QED
    BY <1>1, <2>1, KeptIsSuffix DEF Recent
<1> HIDE DEF b, h, r
<1>4. d + m \in 0 .. Len(h) /\ Len(r) = Len(h) - (d + m)
  BY <1>1, <1>2, <1>3
<1>5. \A i \in 1 .. Len(r) : r[i] = h[(d + m) + i]
  <2> TAKE i \in 1 .. Len(r)
  <2>1. m + i \in 1 .. Len(b) /\ d + (m + i) = (d + m) + i
    BY <1>1, <1>2, <1>3
  <2> QED
    BY <1>2, <1>3, <2>1
<1>6. \A i \in 1 .. d + m : h[i] + Window < now
  <2> SUFFICES ASSUME NEW i \in 1 .. d + m, i > d PROVE h[i] + Window < now
    BY <1>2
  <2>1. i - d \in 1 .. m /\ i - d \in 1 .. Len(b) /\ d + (i - d) = i
    BY <1>1, <1>2, <1>3
  <2>2. b[i - d] = h[i] /\ b[i - d] < now - Window
    BY <1>2, <1>3, <2>1
  <2>3. b[i - d] \in Nat
    BY <1>1, <2>1
  <2> QED
    BY <1>1, <2>2, <2>3
<1>7. Remembers(r, h)
  BY <1>4, <1>5, <1>6 DEF Remembers
<1> QED
  BY <1>3, <1>7 DEF r, h

\* A request let through is more than a window after the one it has to be spaced
\* from, because the deque no longer holds that one.
LEMMA AdmitInv ==
  ASSUME LimiterInv, NEW k \in Keys, Admit(k)
  PROVE  LimiterInv'
<1> DEFINE h == admitted[k]
           r == Recent(k)
           n == Len(h)
<1>1. /\ now \in Nat /\ h \in Seq(Nat) /\ n \in Nat
      /\ Window \in Nat /\ LimitPerMinute \in Nat
  BY RateLimiterAssumption DEF LimiterInv, LimiterTypeOK
<1>2. r \in Seq(Nat) /\ Remembers(r, h)
  BY RecentRemembers
<1>3. /\ Len(r) < LimitPerMinute
      /\ bucket' = [bucket EXCEPT ![k] = Append(r, now)]
      /\ admitted' = [admitted EXCEPT ![k] = Append(h, now)]
      /\ now' = now
  BY DEF Admit
<1>4. /\ bucket'[k] = Append(r, now) /\ admitted'[k] = Append(h, now)
      /\ \A x \in Keys \ {k} : bucket'[x] = bucket[x] /\ admitted'[x] = admitted[x]
  BY <1>3 DEF LimiterInv, LimiterTypeOK
<1>5. PICK d \in 0 .. n :
        /\ Len(r) = n - d
        /\ \A i \in 1 .. Len(r) : r[i] = h[d + i]
        /\ \A i \in 1 .. d : h[i] + Window < now
  BY <1>2 DEF Remembers
<1>6. LimiterTypeOK'
  <2> HIDE DEF r, h
  <2>1. Append(r, now) \in Seq(Nat) /\ Append(h, now) \in Seq(Nat)
    BY <1>1, <1>2
  <2> QED
    BY <1>3, <2>1 DEF LimiterInv, LimiterTypeOK
<1> HIDE DEF r, h, n
<1>7. /\ Len(Append(h, now)) = n + 1 /\ Len(Append(r, now)) = Len(r) + 1
      /\ \A i \in 1 .. n : Append(h, now)[i] = h[i]
      /\ Append(h, now)[n + 1] = now
      /\ \A i \in 1 .. Len(r) : Append(r, now)[i] = r[i]
      /\ Append(r, now)[Len(r) + 1] = now
  BY <1>1, <1>2 DEF n
<1>8. Remembers(bucket[k], admitted[k])'
  <2>1. /\ d \in 0 .. Len(Append(h, now))
        /\ Len(Append(r, now)) = Len(Append(h, now)) - d
    BY <1>1, <1>5, <1>7
  <2>2. \A i \in 1 .. Len(Append(r, now)) : Append(r, now)[i] = Append(h, now)[d + i]
    <3> TAKE i \in 1 .. Len(Append(r, now))
    <3>1. CASE i = Len(r) + 1
      BY <1>1, <1>5, <1>7, <3>1
    <3>2. CASE i # Len(r) + 1
      <4>1. i \in 1 .. Len(r) /\ d + i \in 1 .. n
        BY <1>1, <1>2, <1>5, <1>7, <3>2
      <4> QED
        BY <1>5, <1>7, <4>1
    <3> QED
      BY <3>1, <3>2
  <2>3. \A i \in 1 .. d : Append(h, now)[i] + Window < now
    BY <1>1, <1>5, <1>7
  <2> QED
    BY <1>3, <1>4, <2>1, <2>2, <2>3 DEF Remembers
<1>9. Spaced(admitted[k])'
  <2>1. Spaced(h)
    BY DEF LimiterInv, h
  <2> SUFFICES ASSUME NEW i \in 1 .. n + 1, i + LimitPerMinute <= n + 1
               PROVE  Append(h, now)[i] + Window < Append(h, now)[i + LimitPerMinute]
    BY <1>4, <1>7 DEF Spaced
  <2>2. LimitPerMinute > 0
    BY <1>1, <1>2, <1>3
  <2>3. i \in 1 .. n /\ Append(h, now)[i] = h[i]
    BY <1>1, <1>7, <2>2
  <2>4. CASE i + LimitPerMinute <= n
    <3>1. i + LimitPerMinute \in 1 .. n
      BY <1>1, <2>3, <2>4
    <3> QED
      BY <1>7, <2>1, <2>3, <2>4, <3>1 DEF Spaced, n
  <2>5. CASE i + LimitPerMinute = n + 1
    <3>1. i \in 1 .. d
      BY <1>1, <1>2, <1>3, <1>5, <2>3, <2>5
    <3> QED
      BY <1>5, <1>7, <2>3, <2>5, <3>1
  <2>6. i + LimitPerMinute <= n \/ i + LimitPerMinute = n + 1
    <3>1. n \in Nat /\ LimitPerMinute \in Nat /\ i \in Nat
      BY <1>1, <2>3
    <3> QED
      BY <3>1
  <2> QED
    BY <2>4, <2>5, <2>6
<1>10. \A x \in Keys : Remembers(bucket[x], admitted[x])' /\ Spaced(admitted[x])'
  <2> SUFFICES ASSUME NEW x \in Keys, x # k
               PROVE  Remembers(bucket[x], admitted[x])' /\ Spaced(admitted[x])'
    BY <1>8, <1>9
  <2>1. Remembers(bucket[x], admitted[x]) /\ Spaced(admitted[x])
    BY DEF LimiterInv
  <2> QED
    BY <1>3, <1>4, <2>1 DEF Remembers, Spaced
<1> QED
  BY <1>6, <1>10 DEF LimiterInv

LEMMA LimiterStepInv == LimiterInv /\ [LimiterNext]_limiterVars => LimiterInv'
<1> SUFFICES ASSUME LimiterInv, [LimiterNext]_limiterVars PROVE LimiterInv'
  OBVIOUS
<1>1. CASE Tick
  <2>1. now' = now + 1 /\ bucket' = bucket /\ admitted' = admitted
    BY <1>1 DEF Tick
  <2>2. LimiterTypeOK'
    BY <2>1 DEF LimiterInv, LimiterTypeOK
  <2>3. ASSUME NEW k \in Keys PROVE Remembers(bucket[k], admitted[k])'
    <3>1. PICK d \in 0 .. Len(admitted[k]) :
            /\ Len(bucket[k]) = Len(admitted[k]) - d
            /\ \A i \in 1 .. Len(bucket[k]) : bucket[k][i] = admitted[k][d + i]
            /\ \A i \in 1 .. d : admitted[k][i] + Window < now
      BY DEF LimiterInv, Remembers
    <3>2. \A i \in 1 .. d : admitted[k][i] + Window < now + 1
      <4> TAKE i \in 1 .. d
      <4>1. admitted[k] \in Seq(Nat) /\ i \in 1 .. Len(admitted[k])
        BY <3>1 DEF LimiterInv, LimiterTypeOK
      <4>2. admitted[k][i] \in Nat
        BY <4>1
      <4> QED
        BY <3>1, <4>2, RateLimiterAssumption DEF LimiterInv, LimiterTypeOK
    <3> QED
      BY <2>1, <3>1, <3>2 DEF Remembers
  <2>4. \A k \in Keys : Spaced(admitted[k])'
    BY <2>1 DEF LimiterInv, Spaced
  <2> QED
    BY <2>2, <2>3, <2>4 DEF LimiterInv
<1>2. ASSUME NEW k \in Keys, Admit(k) PROVE LimiterInv'
  BY <1>2, AdmitInv
<1>3. ASSUME NEW k \in Keys, Refuse(k) PROVE LimiterInv'
  <2>1. /\ bucket' = [bucket EXCEPT ![k] = Recent(k)]
        /\ now' = now /\ admitted' = admitted
    BY <1>3 DEF Refuse
  <2>2. Recent(k) \in Seq(Nat) /\ Remembers(Recent(k), admitted[k])
    BY RecentRemembers
  <2>3. LimiterTypeOK'
    BY <2>1, <2>2 DEF LimiterInv, LimiterTypeOK
  <2>4. \A x \in Keys : bucket'[x] = IF x = k THEN Recent(k) ELSE bucket[x]
    BY <2>1 DEF LimiterInv, LimiterTypeOK
  <2>5. \A x \in Keys : Remembers(bucket[x], admitted[x])'
    <3> TAKE x \in Keys
    <3>1. Remembers(bucket'[x], admitted[x])
      BY <2>2, <2>4 DEF LimiterInv
    <3> QED
      BY <2>1, <3>1 DEF Remembers
  <2>6. \A x \in Keys : Spaced(admitted[x])'
    BY <2>1 DEF LimiterInv, Spaced
  <2> QED
    BY <2>3, <2>5, <2>6 DEF LimiterInv
<1>4. ASSUME NEW k \in Keys, ColdStart(k) PROVE LimiterInv'
  <2>1. /\ bucket' = [bucket EXCEPT ![k] = <<>>]
        /\ admitted' = [admitted EXCEPT ![k] = <<>>]
        /\ now' = now
    BY <1>4 DEF ColdStart
  <2>2. LimiterTypeOK'
    BY <2>1 DEF LimiterInv, LimiterTypeOK
  <2>3. \A x \in Keys : Remembers(bucket[x], admitted[x])' /\ Spaced(admitted[x])'
    <3> TAKE x \in Keys
    <3>1. CASE x = k
      <4>1. bucket'[x] = <<>> /\ admitted'[x] = <<>>
        BY <2>1, <3>1 DEF LimiterInv, LimiterTypeOK
      <4> QED
        BY <4>1 DEF Remembers, Spaced
    <3>2. CASE x # k
      <4>1. bucket'[x] = bucket[x] /\ admitted'[x] = admitted[x]
        BY <2>1, <3>2 DEF LimiterInv, LimiterTypeOK
      <4>2. Remembers(bucket[x], admitted[x]) /\ Spaced(admitted[x])
        BY DEF LimiterInv
      <4> QED
        BY <2>1, <4>1, <4>2 DEF Remembers, Spaced
    <3> QED
      BY <3>1, <3>2
  <2> QED
    BY <2>2, <2>3 DEF LimiterInv
<1>5. CASE UNCHANGED limiterVars
  BY <1>5 DEF limiterVars, LimiterInv, LimiterTypeOK, Remembers, Spaced
<1> QED
  BY <1>1, <1>2, <1>3, <1>4, <1>5 DEF LimiterNext

\* However requests, boundaries and restarts interleave, no window of a key's
\* history sees more requests than check_rate_limit's limit.
THEOREM WindowIsBounded == LimiterSpec => []WindowBound
<1>1. LimiterInv => WindowBound
  BY DEF LimiterInv, Spaced, WindowBound
<1> QED
  BY <1>1, LimiterInitInv, LimiterStepInv, PTL DEF LimiterSpec
=============================================================================
