-------------------------- MODULE SimulatorProofs ---------------------------
(***************************************************************************)
(* Proofs about Simulator.                                                 *)
(***************************************************************************)
EXTENDS Simulator, FiniteSetTheorems, WellFoundedInduction, TLAPS

-----------------------------------------------------------------------------
(* Numbers and finite sets. *)

\* A set of naturals that holds 0 and the successor of each member holds all.
LEMMA AllNaturals ==
  ASSUME NEW P, 0 \in P, \A n \in Nat : n \in P => n + 1 \in P
  PROVE  Nat \subseteq P
<1> SUFFICES ASSUME NEW n \in Nat, n \notin P PROVE FALSE
  OBVIOUS
<1>1. PICK i \in Nat \ P : \A j \in Nat \ P : ~ (<<j, i>> \in OpToRel(<, Nat))
  <2>1. Nat \ P # {} /\ Nat \ P \in SUBSET Nat
    OBVIOUS
  <2> QED
    BY <2>1, WFMin, NatLessThanWellFounded, Zenon
<1>2. \A j \in Nat \ P : ~ (j < i)
  BY <1>1 DEF OpToRel
<1>3. i # 0
  OBVIOUS
<1>4. i - 1 \in Nat /\ i - 1 < i /\ (i - 1) + 1 = i
  BY <1>3
<1>5. i - 1 \in P
  BY <1>2, <1>4
<1> QED
  BY <1>4, <1>5

\* A finite set of integers that is not empty has a greatest member.
LEMMA Greatest ==
  ASSUME NEW S \in SUBSET Int, IsFiniteSet(S), S # {}
  PROVE  Max(S) \in S /\ \A y \in S : y <= Max(S)
<1> DEFINE Has(s) == \E x \in s : \A y \in s : x >= y
           P == {n \in Nat : \A s \in SUBSET S : Cardinality(s) <= n /\ s # {} => Has(s)}
<1>1. \A s \in SUBSET S : /\ IsFiniteSet(s) /\ Cardinality(s) \in Nat
                          /\ Cardinality(s) = 0 => s = {}
  BY FS_Subset, FS_CardinalityType, FS_EmptySet
<1>2. 0 \in P
  <2>1. ASSUME NEW s \in SUBSET S, Cardinality(s) <= 0 PROVE s = {}
    BY <1>1, <2>1
  <2> QED
    BY <2>1
<1>3. ASSUME NEW n \in Nat, n \in P PROVE n + 1 \in P
  <2> SUFFICES ASSUME NEW s \in SUBSET S, Cardinality(s) <= n + 1, s # {} PROVE Has(s)
    OBVIOUS
  <2>1. PICK x \in s : TRUE
    OBVIOUS
  <2>2. Cardinality(s \ {x}) <= n
    BY <1>1, <2>1, FS_RemoveElement
  <2>3. CASE s \ {x} = {}
    BY <2>1, <2>3
  <2>4. CASE s \ {x} # {}
    <3>1. Has(s \ {x})
      BY <1>3, <2>2, <2>4
    <3>2. PICK m \in s \ {x} : \A y \in s \ {x} : m >= y
      BY <3>1
    <3> QED
      BY <2>1, <3>2
  <2> QED
    BY <2>3, <2>4
<1>4. Cardinality(S) \in P
  <2> HIDE DEF P
  <2> QED
    BY <1>1, <1>2, <1>3, AllNaturals
<1>5. \E x \in S : \A y \in S : x >= y
  BY <1>1, <1>4
<1> QED
  BY <1>5 DEF Max

\* The smaller and the greater of two integers.
LEMMA OfTwo ==
  ASSUME NEW a \in Int, NEW b \in Int
  PROVE  /\ Min({a, b}) = IF a <= b THEN a ELSE b
         /\ Max({a, b}) = IF a <= b THEN b ELSE a
<1>1. \E x \in {a, b} : \A y \in {a, b} : x <= y
  OBVIOUS
<1>2. \E x \in {a, b} : \A y \in {a, b} : x >= y
  OBVIOUS
<1>3. Min({a, b}) \in {a, b} /\ \A y \in {a, b} : Min({a, b}) <= y
  BY <1>1 DEF Min
<1>4. Max({a, b}) \in {a, b} /\ \A y \in {a, b} : Max({a, b}) >= y
  BY <1>2 DEF Max
<1> QED
  BY <1>3, <1>4

\* The members of a sequence form a finite set.
LEMMA FiniteRange ==
  ASSUME NEW s, NEW n \in Nat, DOMAIN s = 1 .. n
  PROVE  IsFiniteSet(ToSet(s))
<1> DEFINE f == [i \in 1 .. n |-> s[i]]
<1>1. IsFiniteSet(1 .. n)
  BY FS_Interval
<1>2. f \in Surjection(1 .. n, ToSet(s))
  BY DEF Surjection, ToSet
<1> QED
  BY <1>1, <1>2, FS_Surjection

\* What a function makes of the members of a finite set is a finite set.
LEMMA FiniteImage ==
  ASSUME NEW S, IsFiniteSet(S), NEW f, DOMAIN f = S
  PROVE  IsFiniteSet({f[x] : x \in S})
<1> DEFINE T == {f[x] : x \in S}
           g == [x \in S |-> f[x]]
<1>1. g \in Surjection(S, T)
  BY DEF Surjection
<1> QED
  BY <1>1, FS_Surjection

\* A finite set as a sequence: each member at one place, and none twice.
LEMMA Listed ==
  ASSUME NEW S, IsFiniteSet(S)
  PROVE  /\ Cardinality(S) \in Nat
         /\ DOMAIN SetToSeq(S) = 1 .. Cardinality(S)
         /\ \A x \in S : \E i \in 1 .. Cardinality(S) : SetToSeq(S)[i] = x
<1> DEFINE n == Cardinality(S)
<1>1. n \in Nat /\ ExistsBijection(1 .. n, S)
  BY FS_CardinalityType
<1>2. PICK b \in Bijection(1 .. n, S) : TRUE
  BY <1>1 DEF ExistsBijection
<1>3. b \in [1 .. n -> S] /\ IsInjective(b)
  BY <1>2 DEF Bijection, Injection, IsInjective
<1>4. SetToSeq(S) \in [1 .. n -> S] /\ IsInjective(SetToSeq(S))
  BY <1>3 DEF SetToSeq
<1>5. SetToSeq(S) \in Injection(1 .. n, S)
  BY <1>4 DEF Injection, IsInjective
<1>6. Cardinality(1 .. n) = n
  BY <1>1, FS_Interval
<1>7. SetToSeq(S) \in Surjection(1 .. n, S)
  BY <1>5, <1>6, FS_Injection
<1> QED
  BY <1>1, <1>4, <1>7 DEF Surjection

-----------------------------------------------------------------------------
(* The spec file.  Three steps change it: an author or --bootstrap adds an entry *)
(* for each account chosen, the executor stamps one, a revert prunes.  Each      *)
(* leaves a file that loads, and says which entries of the new file are old.     *)

\* Entries with params in P and identities in I.
EntryWith(P, I) ==
    [id : I, start : Int, end : Int, primitive : Primitives, params : P, seed : Seeds,
     done : BOOLEAN]

\* A spec that loads, with identities up to n.
IsSpec(spec, n) ==
    /\ DOMAIN spec \subseteq Accounts
    /\ \E P : spec \in [DOMAIN spec -> Seq(EntryWith(P, 1 .. n))]
    /\ WellFormed(spec)

IsFile(spec, n) == spec # Null => IsSpec(spec, n)

\* Entry d is entry e, stamped since or as it was.
Continues(d, e) ==
    /\ d.id = e.id /\ d.start = e.start /\ d.end = e.end
    /\ d.primitive = e.primitive /\ d.params = e.params /\ d.seed = e.seed
    /\ e.done => d.done

\* An account's entries in the spec new are entries it had in old, or have
\* identities over n.
From(new, old, n) ==
    \A a \in DOMAIN new : \A i \in DOMAIN new[a] :
        \/ new[a][i].id > n
        \/ /\ IsSpec(old, n) /\ a \in DOMAIN old
           /\ \E j \in DOMAIN old[a] : Continues(new[a][i], old[a][j])

\* What is generated in the spec new was so in old.
Rests(new, old, n) ==
    \A a \in DOMAIN new : \A i \in DOMAIN new[a] :
        new[a][i].done =>
            IsSpec(old, n) /\ a \in DOMAIN old /\ \E j \in DOMAIN old[a] : new[a][i] = old[a][j]

\* The entries that old has from before a date are in new.
Into(new, old, date) ==
    old # Null =>
        \A a \in DOMAIN old : \A j \in DOMAIN old[a] :
            old[a][j].start < date =>
                a \in DOMAIN new /\ \E i \in DOMAIN new[a] : Continues(new[a][i], old[a][j])

\* What is known of an entry of a spec that loads.
LEMMA EntryKnown ==
  ASSUME NEW spec, NEW n \in Nat, IsSpec(spec, n), NEW a \in DOMAIN spec
  PROVE  /\ a \in Accounts
         /\ Len(spec[a]) \in Nat /\ DOMAIN spec[a] = 1 .. Len(spec[a])
         /\ \A i \in DOMAIN spec[a] :
              /\ spec[a][i] \in EntryWith({spec[a][i].params}, 1 .. n)
              /\ spec[a][i] \in Entries(spec)
              /\ Validates(spec[a][i])
<1>1. PICK P : spec \in [DOMAIN spec -> Seq(EntryWith(P, 1 .. n))]
  BY DEF IsSpec
<1>2. spec[a] \in Seq(EntryWith(P, 1 .. n))
  BY <1>1
<1>3. Len(spec[a]) \in Nat /\ DOMAIN spec[a] = 1 .. Len(spec[a])
  BY <1>2
<1>4. ASSUME NEW i \in DOMAIN spec[a]
      PROVE  /\ spec[a][i] \in EntryWith({spec[a][i].params}, 1 .. n)
             /\ spec[a][i] \in Entries(spec)
  <2>1. spec[a][i] \in EntryWith(P, 1 .. n)
    BY <1>2, <1>4
  <2>2. spec[a][i] \in Entries(spec)
    BY DEF Entries, ToSet
  <2> QED
    BY <2>1, <2>2 DEF EntryWith
<1> QED
  BY <1>3, <1>4 DEF IsSpec, WellFormed

\* An identity is at one place of a spec that loads.
LEMMA OnePlace ==
  ASSUME NEW spec, NEW n, IsSpec(spec, n),
         NEW a \in DOMAIN spec, NEW i \in DOMAIN spec[a],
         NEW b \in DOMAIN spec, NEW j \in DOMAIN spec[b], spec[a][i].id = spec[b][j].id
  PROVE  a = b /\ i = j
BY DEF IsSpec, WellFormed

\* An entry of a spec is at a place of it.
LEMMA PlaceOf ==
  ASSUME NEW spec, NEW e \in Entries(spec)
  PROVE  \E a \in DOMAIN spec : \E i \in DOMAIN spec[a] : e = spec[a][i]
BY DEF Entries, ToSet

\* A spec is known by its accounts, its sequences and what is at their places.
LEMMA SpecMade ==
  ASSUME NEW spec, NEW n \in Nat, spec = [a \in DOMAIN spec |-> spec[a]],
         DOMAIN spec \subseteq Accounts,
         NEW P, \A a \in DOMAIN spec : spec[a] \in Seq(EntryWith(P, 1 .. n)),
         \A a \in DOMAIN spec : \A i \in DOMAIN spec[a] : Validates(spec[a][i]),
         \A a, b \in DOMAIN spec : \A i \in DOMAIN spec[a], j \in DOMAIN spec[b] :
            spec[a][i].id = spec[b][j].id => a = b /\ i = j
  PROVE  IsSpec(spec, n)
<1>1. spec \in [DOMAIN spec -> Seq(EntryWith(P, 1 .. n))]
  OBVIOUS
<1>2. ASSUME NEW e \in Entries(spec) PROVE Validates(e)
  BY PlaceOf
<1> QED
  BY <1>1, <1>2 DEF IsSpec, WellFormed

\* The new entries of a step: valid, not generated yet, each with an identity of its own over n.
NewEntries(made, n, m) ==
    /\ DOMAIN made \subseteq Accounts
    /\ \A a \in DOMAIN made :
         /\ made[a] \in EntryWith({made[a].params}, n + 1 .. m)
         /\ Validates(made[a]) /\ ~made[a].done
    /\ \A a, b \in DOMAIN made : made[a].id = made[b].id => a = b

\* The sequence of an account in a spec with new entries.
LEMMA WithEntriesOf ==
  ASSUME NEW spec, NEW n \in Nat, NEW m \in Nat, n <= m, IsFile(spec, n),
         NEW made, DOMAIN made \subseteq Accounts, NEW a \in DOMAIN WithEntries(spec, made)
  PROVE  LET old == EntriesOf(spec, a)
             new == WithEntries(spec, made)[a]
             size == IF a \in DOMAIN made THEN Len(old) + 1 ELSE Len(old)
         IN /\ a \in Accounts
            /\ Len(old) \in Nat /\ DOMAIN old = 1 .. Len(old)
            /\ old # <<>> => spec # Null /\ a \in DOMAIN spec /\ old = spec[a]
            /\ Len(new) = size /\ DOMAIN new = 1 .. size
            /\ \A i \in 1 .. Len(old) : new[i] = old[i]
            /\ a \in DOMAIN made => new[Len(old) + 1] = made[a]
            /\ \A P : /\ \A i \in DOMAIN old : old[i] \in EntryWith(P, 1 .. m)
                      /\ a \in DOMAIN made => made[a] \in EntryWith(P, 1 .. m)
                      => new \in Seq(EntryWith(P, 1 .. m))
<1> DEFINE old == EntriesOf(spec, a)
           new == WithEntries(spec, made)[a]
           all == (IF a \in DOMAIN made THEN <<made[a]>> ELSE <<>>)
<1>1. new = old \o all /\ (a \in DOMAIN made \/ (spec # Null /\ a \in DOMAIN spec))
  <2> DEFINE D == DOMAIN made \cup (IF spec = Null THEN {} ELSE DOMAIN spec)
  <2>1. WithEntries(spec, made) = [b \in D |->
          EntriesOf(spec, b) \o (IF b \in DOMAIN made THEN <<made[b]>> ELSE <<>>)]
    BY DEF WithEntries
  <2>2. a \in D
    BY <2>1
  <2>3. new = old \o all
    BY <2>1, <2>2
  <2>4. a \in DOMAIN made \/ (spec # Null /\ a \in DOMAIN spec)
    BY <2>2
  <2> HIDE DEF old, new, all, D
  <2> QED
    BY <2>3, <2>4
<1>2. a \in Accounts
  BY <1>1 DEF IsFile, IsSpec
<1>3. Len(old) \in Nat /\ DOMAIN old = 1 .. Len(old) /\ \E S : old \in Seq(S)
  <2>1. CASE spec # Null /\ a \in DOMAIN spec
    <3>1. IsSpec(spec, n) /\ old = spec[a]
      BY <2>1 DEF IsFile, EntriesOf
    <3> QED
      BY <2>1, <3>1, EntryKnown DEF IsSpec
  <2>2. CASE ~(spec # Null /\ a \in DOMAIN spec)
    <3>1. old = <<>> /\ <<>> \in Seq({})
      BY <2>2 DEF EntriesOf
    <3> QED
      BY <3>1
  <2> QED
    BY <2>1, <2>2
<1>4. old # <<>> => spec # Null /\ a \in DOMAIN spec /\ old = spec[a]
  BY DEF EntriesOf
<1> HIDE DEF old, new
<1>5. PICK S : old \in Seq(S)
  BY <1>3
<1>6. all \in Seq({made[a]}) /\ Len(all) = IF a \in DOMAIN made THEN 1 ELSE 0
  <2>1. CASE a \in DOMAIN made
    <3>1. all = <<made[a]>>
      BY <2>1
    <3> QED
      BY <2>1, <3>1
  <2>2. CASE a \notin DOMAIN made
    <3>1. all = <<>>
      BY <2>2
    <3> QED
      BY <2>2, <3>1
  <2> QED
    BY <2>1, <2>2
<1>7. /\ old \in Seq(S \cup {made[a]}) /\ all \in Seq(S \cup {made[a]})
  BY <1>5, <1>6
<1>8. /\ Len(new) = Len(old) + Len(all) /\ DOMAIN new = 1 .. Len(old) + Len(all)
      /\ \A i \in 1 .. Len(old) : new[i] = old[i]
      /\ a \in DOMAIN made => new[Len(old) + 1] = made[a]
      /\ new \in Seq(S \cup {made[a]})
  BY <1>1, <1>6, <1>7
<1>9. ASSUME NEW P, \A i \in DOMAIN old : old[i] \in EntryWith(P, 1 .. m),
             a \in DOMAIN made => made[a] \in EntryWith(P, 1 .. m)
      PROVE  new \in Seq(EntryWith(P, 1 .. m))
  <2>1. \A i \in 1 .. Len(new) : new[i] \in EntryWith(P, 1 .. m)
    BY <1>3, <1>6, <1>8, <1>9
  <2> QED
    BY <1>8, <2>1
<1> QED
  BY <1>2, <1>3, <1>4, <1>6, <1>8, <1>9 DEF old, new

\* An entry of a spec with new entries is an old one in its place or a new one.
LEMMA AddedPlaces ==
  ASSUME NEW spec, NEW n \in Nat, NEW m \in Nat, n <= m, IsFile(spec, n),
         NEW made, NewEntries(made, n, m),
         NEW a \in DOMAIN WithEntries(spec, made), NEW i \in DOMAIN WithEntries(spec, made)[a]
  PROVE  LET e == WithEntries(spec, made)[a][i]
         IN /\ a \in Accounts
            /\ \/ /\ spec # Null /\ a \in DOMAIN spec /\ i \in DOMAIN spec[a] /\ e = spec[a][i]
                  /\ e.id \in 1 .. n
               \/ /\ a \in DOMAIN made /\ e = made[a] /\ i = Len(EntriesOf(spec, a)) + 1
                  /\ e.id \in n + 1 .. m
<1> DEFINE old == EntriesOf(spec, a)
           new == WithEntries(spec, made)[a]
<1>1. /\ a \in Accounts
      /\ Len(old) \in Nat /\ DOMAIN old = 1 .. Len(old)
      /\ old # <<>> => spec # Null /\ a \in DOMAIN spec /\ old = spec[a]
      /\ DOMAIN new = 1 .. IF a \in DOMAIN made THEN Len(old) + 1 ELSE Len(old)
      /\ \A k \in 1 .. Len(old) : new[k] = old[k]
      /\ a \in DOMAIN made => new[Len(old) + 1] = made[a]
  BY WithEntriesOf DEF NewEntries
<1> HIDE DEF old, new
<1>2. CASE i \in 1 .. Len(old)
  <2>1. old # <<>>
    BY <1>1, <1>2
  <2>2. spec # Null /\ a \in DOMAIN spec /\ old = spec[a] /\ i \in DOMAIN spec[a]
    BY <1>1, <1>2, <2>1
  <2>3. IsSpec(spec, n)
    BY <2>2 DEF IsFile
  <2>4. spec[a][i] \in EntryWith({spec[a][i].params}, 1 .. n)
    BY <2>2, <2>3, EntryKnown
  <2>5. spec[a][i].id \in 1 .. n
    BY <2>4 DEF EntryWith
  <2> QED
    BY <1>1, <1>2, <2>2, <2>5 DEF new
<1>3. CASE i \notin 1 .. Len(old)
  <2>1. i \in DOMAIN new
    BY DEF new
  <2>2. a \in DOMAIN made /\ i = Len(old) + 1
    BY <1>1, <1>3, <2>1
  <2>3. new[i] = made[a]
    BY <1>1, <2>2
  <2>4. made[a].id \in n + 1 .. m
    BY <2>2 DEF NewEntries, EntryWith
  <2> QED
    BY <1>1, <2>2, <2>3, <2>4 DEF new, old
<1> QED
  BY <1>2, <1>3

\* A spec with new entries loads, has the old entries where they were, and no
\* others but the new ones.
LEMMA AddedSpec ==
  ASSUME NEW spec, NEW n \in Nat, NEW m \in Nat, n <= m, IsFile(spec, n),
         NEW made, NewEntries(made, n, m)
  PROVE  LET new == WithEntries(spec, made)
         IN /\ IsSpec(new, m) /\ From(new, spec, n) /\ Rests(new, spec, n)
            /\ \A date : Into(new, spec, date)
<1> DEFINE new == WithEntries(spec, made)
           Old(a, i, e) == /\ spec # Null /\ a \in DOMAIN spec /\ i \in DOMAIN spec[a]
                           /\ e = spec[a][i] /\ e.id \in 1 .. n
           Made(a, i, e) == /\ a \in DOMAIN made /\ e = made[a] /\ i = Len(EntriesOf(spec, a)) + 1
                            /\ e.id \in n + 1 .. m
<1> DOMAIN made \subseteq Accounts
  BY DEF NewEntries
<1>1. \A a \in DOMAIN new : a \in Accounts
  BY WithEntriesOf
<1>2. \A a \in DOMAIN new : \A i \in DOMAIN new[a] :
         Old(a, i, new[a][i]) \/ Made(a, i, new[a][i])
  BY AddedPlaces
<1>3. spec # Null => IsSpec(spec, n)
  BY DEF IsFile
<1>4. ASSUME spec # Null
      PROVE  \A a \in DOMAIN spec : \A i \in DOMAIN spec[a] :
               a \in DOMAIN new /\ i \in DOMAIN new[a] /\ new[a][i] = spec[a][i]
  <2> SUFFICES ASSUME NEW a \in DOMAIN spec, NEW i \in DOMAIN spec[a]
               PROVE  a \in DOMAIN new /\ i \in DOMAIN new[a] /\ new[a][i] = spec[a][i]
    OBVIOUS
  <2>1. a \in DOMAIN new
    BY <1>4 DEF WithEntries
  <2>2. EntriesOf(spec, a) = spec[a] /\ DOMAIN spec[a] = 1 .. Len(spec[a]) /\ Len(spec[a]) \in Nat
    BY <1>3, <1>4, EntryKnown DEF EntriesOf
  <2>3. LET old == EntriesOf(spec, a)
        IN /\ DOMAIN new[a] = 1 .. IF a \in DOMAIN made THEN Len(old) + 1 ELSE Len(old)
           /\ \A k \in 1 .. Len(old) : new[a][k] = old[k]
    BY <2>1, WithEntriesOf
  <2> HIDE DEF new
  <2> QED
    BY <2>1, <2>2, <2>3
<1>5. new = [a \in DOMAIN new |-> new[a]]
  BY DEF WithEntries
<1> HIDE DEF new
<1>6. \A date : Into(new, spec, date)
  <2> SUFFICES ASSUME NEW date, spec # Null, NEW a \in DOMAIN spec, NEW j \in DOMAIN spec[a]
               PROVE  a \in DOMAIN new /\ \E i \in DOMAIN new[a] : Continues(new[a][i], spec[a][j])
    BY DEF Into
  <2> QED
    BY <1>4 DEF Continues
<1>7. From(new, spec, n)
  <2> SUFFICES ASSUME NEW a \in DOMAIN new, NEW i \in DOMAIN new[a]
               PROVE  \/ new[a][i].id > n
                      \/ /\ IsSpec(spec, n) /\ a \in DOMAIN spec
                         /\ \E j \in DOMAIN spec[a] : Continues(new[a][i], spec[a][j])
    BY DEF From
  <2>1. CASE Old(a, i, new[a][i])
    BY <1>3, <2>1 DEF Continues
  <2>2. CASE Made(a, i, new[a][i])
    BY <2>2
  <2> HIDE DEF Old, Made
  <2> QED
    BY <1>2, <2>1, <2>2
<1>8. ASSUME NEW a \in DOMAIN new, NEW i \in DOMAIN new[a],
             NEW b \in DOMAIN new, NEW j \in DOMAIN new[b], new[a][i].id = new[b][j].id
      PROVE  a = b /\ i = j
  <2>1. CASE Old(a, i, new[a][i]) /\ Old(b, j, new[b][j])
    <3>1. spec[a][i].id = spec[b][j].id
      BY <1>8, <2>1
    <3> QED
      BY <1>3, <2>1, <3>1, OnePlace
  <2>2. CASE Made(a, i, new[a][i]) /\ Made(b, j, new[b][j])
    <3>1. a = b
      BY <1>8, <2>2 DEF NewEntries
    <3> QED
      BY <2>2, <3>1
  <2>3. CASE Old(a, i, new[a][i]) /\ Made(b, j, new[b][j])
    BY <1>8, <2>3
  <2>4. CASE Made(a, i, new[a][i]) /\ Old(b, j, new[b][j])
    BY <1>8, <2>4
  <2> HIDE DEF Old, Made
  <2> QED
    BY <1>2, <2>1, <2>2, <2>3, <2>4
<1>9. ASSUME NEW a \in DOMAIN new, NEW i \in DOMAIN new[a] PROVE Validates(new[a][i])
  <2>1. CASE Old(a, i, new[a][i])
    BY <1>3, <2>1, EntryKnown
  <2>2. CASE Made(a, i, new[a][i])
    BY <2>2 DEF NewEntries
  <2> HIDE DEF Old, Made
  <2> QED
    BY <1>2, <2>1, <2>2
<1>10. PICK Q : spec # Null => spec \in [DOMAIN spec -> Seq(EntryWith(Q, 1 .. n))]
  BY <1>3 DEF IsSpec
<1> DEFINE P == Q \cup {made[a].params : a \in DOMAIN made}
<1>11. ASSUME NEW a \in DOMAIN new PROVE new[a] \in Seq(EntryWith(P, 1 .. m))
  <2>1. ASSUME NEW i \in DOMAIN EntriesOf(spec, a)
        PROVE  EntriesOf(spec, a)[i] \in EntryWith(P, 1 .. m)
    <3>1. spec # Null /\ a \in DOMAIN spec /\ EntriesOf(spec, a) = spec[a]
      BY <2>1 DEF EntriesOf
    <3>2. spec[a] \in Seq(EntryWith(Q, 1 .. n))
      BY <1>10, <3>1
    <3>3. spec[a][i] \in EntryWith(Q, 1 .. n)
      BY <2>1, <3>1, <3>2
    <3> QED
      BY <3>1, <3>3 DEF EntryWith
  <2>2. ASSUME a \in DOMAIN made PROVE made[a] \in EntryWith(P, 1 .. m)
    <3>1. made[a] \in EntryWith({made[a].params}, n + 1 .. m)
      BY <2>2 DEF NewEntries
    <3> QED
      BY <2>2, <3>1 DEF EntryWith
  <2> HIDE DEF P
  <2> QED
    BY <2>1, <2>2, WithEntriesOf DEF new
<1> HIDE DEF P
<1>12. IsSpec(new, m)
  <2>1. \A a, b \in DOMAIN new : \A i \in DOMAIN new[a], j \in DOMAIN new[b] :
           new[a][i].id = new[b][j].id => a = b /\ i = j
    BY <1>8
  <2>2. DOMAIN new \subseteq Accounts
    BY <1>1
  <2> QED
    BY <1>5, <1>9, <1>11, <2>1, <2>2, SpecMade
<1>13. Rests(new, spec, n)
  <2> SUFFICES ASSUME NEW a \in DOMAIN new, NEW i \in DOMAIN new[a], new[a][i].done
               PROVE  /\ IsSpec(spec, n) /\ a \in DOMAIN spec
                      /\ \E j \in DOMAIN spec[a] : new[a][i] = spec[a][j]
    BY DEF Rests
  <2>1. CASE Old(a, i, new[a][i])
    BY <1>3, <2>1
  <2>2. CASE Made(a, i, new[a][i])
    BY <2>2 DEF NewEntries
  <2> HIDE DEF Old, Made
  <2> QED
    BY <1>2, <2>1, <2>2
<1> QED
  BY <1>6, <1>7, <1>12, <1>13 DEF new

\* A spec with the entry at a place stamped.
StampedAt(spec, a, i) == [spec EXCEPT ![a][i].done = TRUE]

\* What stamping changes: that entry's stamp.
LEMMA StampedPlaces ==
  ASSUME NEW spec, NEW n \in Nat, IsSpec(spec, n), NEW a \in DOMAIN spec, NEW i \in DOMAIN spec[a],
         NEW P, spec \in [DOMAIN spec -> Seq(EntryWith(P, 1 .. n))]
  PROVE  LET new == StampedAt(spec, a, i)
         IN /\ new \in [DOMAIN spec -> Seq(EntryWith(P, 1 .. n))]
            /\ \A b \in DOMAIN spec : /\ DOMAIN new[b] = DOMAIN spec[b]
                                      /\ \A j \in DOMAIN spec[b] : Continues(new[b][j], spec[b][j])
            /\ new[a][i].done
            /\ \A b \in DOMAIN spec : \A j \in DOMAIN spec[b] :
                 b # a \/ j # i => new[b][j] = spec[b][j]
<1> DEFINE stamped == [spec[a][i] EXCEPT !.done = TRUE]
           seq == [spec[a] EXCEPT ![i] = stamped]
           new == StampedAt(spec, a, i)
<1>1. new = [spec EXCEPT ![a] = seq]
  BY DEF StampedAt
<1>2. \A b \in DOMAIN spec : \A j \in DOMAIN spec[b] :
        spec[b] \in Seq(EntryWith(P, 1 .. n)) /\ spec[b][j] \in EntryWith(P, 1 .. n)
  <2> SUFFICES ASSUME NEW b \in DOMAIN spec, NEW j \in DOMAIN spec[b]
               PROVE  spec[b] \in Seq(EntryWith(P, 1 .. n)) /\ spec[b][j] \in EntryWith(P, 1 .. n)
    OBVIOUS
  <2>1. spec[b] \in Seq(EntryWith(P, 1 .. n))
    OBVIOUS
  <2> QED
    BY <2>1
<1>3. /\ stamped \in EntryWith(P, 1 .. n) /\ Continues(stamped, spec[a][i])
      /\ stamped.done = TRUE
  <2>1. spec[a][i] \in EntryWith(P, 1 .. n)
    BY <1>2
  <2> QED
    BY <2>1 DEF EntryWith, Continues
<1>4. \A b \in DOMAIN spec : \A j \in DOMAIN spec[b] : Continues(spec[b][j], spec[b][j])
  BY DEF Continues
<1> HIDE DEF stamped
<1>5. /\ seq \in Seq(EntryWith(P, 1 .. n)) /\ DOMAIN seq = DOMAIN spec[a] /\ seq[i] = stamped
      /\ \A j \in DOMAIN spec[a] : j # i => seq[j] = spec[a][j]
  BY <1>2, <1>3
<1> HIDE DEF seq
<1>6. /\ new \in [DOMAIN spec -> Seq(EntryWith(P, 1 .. n))]
      /\ new[a] = seq /\ \A b \in DOMAIN spec : b # a => new[b] = spec[b]
  BY <1>1, <1>5
<1> HIDE DEF new
<1>7. ASSUME NEW b \in DOMAIN spec
      PROVE  /\ DOMAIN new[b] = DOMAIN spec[b]
             /\ \A j \in DOMAIN spec[b] : Continues(new[b][j], spec[b][j])
  BY <1>3, <1>4, <1>5, <1>6
<1>8. new[a][i].done
  BY <1>3, <1>5, <1>6
<1>9. ASSUME NEW b \in DOMAIN spec, NEW j \in DOMAIN spec[b], b # a \/ j # i
      PROVE  new[b][j] = spec[b][j]
  BY <1>5, <1>6, <1>9
<1> QED
  BY <1>6, <1>7, <1>8, <1>9 DEF new

\* A stamped spec loads and has the same entries at the same places.
LEMMA StampedSpec ==
  ASSUME NEW spec, NEW n \in Nat, IsSpec(spec, n), NEW a \in DOMAIN spec, NEW i \in DOMAIN spec[a]
  PROVE  LET new == StampedAt(spec, a, i)
         IN /\ IsSpec(new, n) /\ From(new, spec, n)
            /\ \A date : Into(new, spec, date)
            /\ DOMAIN new = DOMAIN spec
            /\ \A b \in DOMAIN spec : /\ DOMAIN new[b] = DOMAIN spec[b]
                                      /\ \A j \in DOMAIN spec[b] : Continues(new[b][j], spec[b][j])
            /\ new[a][i].done
            /\ \A b \in DOMAIN spec : \A j \in DOMAIN spec[b] :
                 b # a \/ j # i => new[b][j] = spec[b][j]
<1> DEFINE new == StampedAt(spec, a, i)
<1>1. PICK P : spec \in [DOMAIN spec -> Seq(EntryWith(P, 1 .. n))]
  BY DEF IsSpec
<1>2. /\ new \in [DOMAIN spec -> Seq(EntryWith(P, 1 .. n))]
      /\ \A b \in DOMAIN spec : /\ DOMAIN new[b] = DOMAIN spec[b]
                                /\ \A j \in DOMAIN spec[b] : Continues(new[b][j], spec[b][j])
      /\ new[a][i].done
      /\ \A b \in DOMAIN spec : \A j \in DOMAIN spec[b] :
           b # a \/ j # i => new[b][j] = spec[b][j]
  BY <1>1, StampedPlaces
<1> HIDE DEF new
<1>3. DOMAIN new = DOMAIN spec /\ new = [b \in DOMAIN new |-> new[b]]
  BY <1>2
<1>4. ASSUME NEW b \in DOMAIN new PROVE new[b] \in Seq(EntryWith(P, 1 .. n))
  BY <1>2
<1>5. ASSUME NEW b \in DOMAIN new, NEW j \in DOMAIN new[b] PROVE Validates(new[b][j])
  <2>1. Continues(new[b][j], spec[b][j]) /\ Validates(spec[b][j])
    BY <1>2, <1>3, EntryKnown
  <2> QED
    BY <2>1 DEF Continues, Validates
<1>6. ASSUME NEW b \in DOMAIN new, NEW j \in DOMAIN new[b],
             NEW c \in DOMAIN new, NEW k \in DOMAIN new[c], new[b][j].id = new[c][k].id
      PROVE  b = c /\ j = k
  <2>1. spec[b][j].id = spec[c][k].id
    BY <1>2, <1>3, <1>6 DEF Continues
  <2> QED
    BY <1>2, <1>3, <2>1, OnePlace
<1>7. DOMAIN new \subseteq Accounts
  BY <1>3 DEF IsSpec
<1>8. IsSpec(new, n)
  BY <1>3, <1>4, <1>5, <1>6, <1>7, SpecMade
<1>9. \A date : Into(new, spec, date)
  BY <1>2, <1>3 DEF Into
<1>10. From(new, spec, n)
  BY <1>2, <1>3 DEF From
<1> QED
  BY <1>2, <1>3, <1>8, <1>9, <1>10 DEF new

\* The places of a sequence that are kept, counted in their order.
KeptOf(entries, date) == {i \in DOMAIN entries : entries[i].start < date}
Ahead(entries, date, i) == {j \in KeptOf(entries, date) : j <= i}

\* Every kept place has a number of its own, from 1 to how many are kept.
LEMMA Numbered ==
  ASSUME NEW entries, NEW n \in Nat, DOMAIN entries = 1 .. n, NEW date
  PROVE  LET kept == KeptOf(entries, date)
         IN /\ IsFiniteSet(kept) /\ Cardinality(kept) \in Nat
            /\ \A k \in 1 .. Cardinality(kept) : \E i \in kept : Cardinality(Ahead(entries, date, i)) = k
            /\ \A i \in kept : Cardinality(Ahead(entries, date, i)) \in 1 .. Cardinality(kept)
            /\ \A i, j \in kept :
                 Cardinality(Ahead(entries, date, i)) = Cardinality(Ahead(entries, date, j)) => i = j
<1> DEFINE kept == KeptOf(entries, date)
           Rank(i) == Ahead(entries, date, i)
           f == [i \in kept |-> Cardinality(Rank(i))]
<1>1. IsFiniteSet(1 .. n) /\ kept \in SUBSET (1 .. n)
  BY FS_Interval DEF KeptOf
<1>2. IsFiniteSet(kept) /\ Cardinality(kept) \in Nat
  BY <1>1, FS_Subset, FS_CardinalityType
<1>3. ASSUME NEW i \in kept
      PROVE  /\ IsFiniteSet(Rank(i)) /\ Cardinality(Rank(i)) \in Nat
             /\ Cardinality(Rank(i)) \in 1 .. Cardinality(kept)
  <2>1. Rank(i) \in SUBSET kept /\ i \in Rank(i)
    BY <1>1 DEF Ahead
  <2>2. IsFiniteSet(Rank(i)) /\ Cardinality(Rank(i)) <= Cardinality(kept)
    BY <1>2, <2>1, FS_Subset
  <2>3. Cardinality(Rank(i)) \in Nat /\ Cardinality(Rank(i)) # 0
    BY <2>1, <2>2, FS_CardinalityType, FS_EmptySet
  <2> QED
    BY <1>2, <2>2, <2>3
<1>4. ASSUME NEW i \in kept, NEW j \in kept, i < j PROVE Cardinality(Rank(i)) < Cardinality(Rank(j))
  <2>1. Rank(i) \in SUBSET Rank(j) /\ j \in Rank(j) /\ j \notin Rank(i)
    BY <1>1, <1>4 DEF Ahead
  <2>2. Cardinality(Rank(i)) <= Cardinality(Rank(j)) /\ Cardinality(Rank(i)) # Cardinality(Rank(j))
    BY <1>3, <2>1, FS_Subset
  <2> QED
    BY <1>3, <2>2
<1>5. ASSUME NEW i \in kept, NEW j \in kept, i # j PROVE Cardinality(Rank(i)) # Cardinality(Rank(j))
  <2>1. i \in Nat /\ j \in Nat /\ (i < j \/ j < i)
    BY <1>1, <1>5
  <2>2. Cardinality(Rank(i)) \in Nat /\ Cardinality(Rank(j)) \in Nat
    BY <1>3
  <2> QED
    BY <1>4, <2>1, <2>2
<1>6. f \in Injection(kept, 1 .. Cardinality(kept))
  <2>1. f \in [kept -> 1 .. Cardinality(kept)]
    BY <1>3
  <2>2. \A i, j \in kept : f[i] = f[j] => i = j
    BY <1>5
  <2> HIDE DEF f
  <2> QED
    BY <2>1, <2>2 DEF Injection, IsInjective
<1>7. IsFiniteSet(1 .. Cardinality(kept)) /\ Cardinality(1 .. Cardinality(kept)) = Cardinality(kept)
  BY <1>2, FS_Interval
<1>8. f \in Surjection(kept, 1 .. Cardinality(kept))
  <2> HIDE DEF f, kept
  <2> QED
    BY <1>6, <1>7, FS_Injection
<1>9. \A k \in 1 .. Cardinality(kept) : \E i \in kept : f[i] = k
  <2> HIDE DEF f, kept
  <2> QED
    BY <1>8 DEF Surjection
<1> QED
  BY <1>2, <1>3, <1>5, <1>9

\* What is left of a sequence: the entries from before the date, each once.
LEMMA LeftBefore ==
  ASSUME NEW entries, NEW S, entries \in Seq(S), NEW date
  PROVE  LET left == StartBefore(entries, date)
         IN /\ left \in Seq(S)
            /\ \A k \in DOMAIN left : \E i \in KeptOf(entries, date) :
                 left[k] = entries[i] /\ Cardinality(Ahead(entries, date, i)) = k
            /\ \A i \in KeptOf(entries, date) :
                 Cardinality(Ahead(entries, date, i)) \in DOMAIN left
<1> DEFINE kept == KeptOf(entries, date)
           nth(k) == CHOOSE i \in kept : Cardinality(Ahead(entries, date, i)) = k
           left == StartBefore(entries, date)
<1>1. DOMAIN entries = 1 .. Len(entries) /\ Len(entries) \in Nat
  OBVIOUS
<1>2. left = [k \in 1 .. Cardinality(kept) |-> entries[nth(k)]]
  BY DEF StartBefore, KeptOf, Ahead
<1>3. /\ Cardinality(kept) \in Nat
      /\ \A k \in 1 .. Cardinality(kept) : \E i \in kept : Cardinality(Ahead(entries, date, i)) = k
      /\ \A i \in kept : Cardinality(Ahead(entries, date, i)) \in 1 .. Cardinality(kept)
  BY <1>1, Numbered
<1>4. \A k \in 1 .. Cardinality(kept) :
         nth(k) \in kept /\ Cardinality(Ahead(entries, date, nth(k))) = k
  BY <1>3
<1>5. DOMAIN left = 1 .. Cardinality(kept)
  BY <1>2
<1>6. \A k \in 1 .. Cardinality(kept) : left[k] = entries[nth(k)]
  BY <1>2
<1>7. kept \subseteq DOMAIN entries
  BY DEF KeptOf
<1>8. \A k \in 1 .. Cardinality(kept) : entries[nth(k)] \in S
  BY <1>4, <1>7
<1>9. left \in Seq(S)
  <2>1. left \in [1 .. Cardinality(kept) -> S]
    BY <1>2, <1>8
  <2> HIDE DEF left, kept
  <2> QED
    BY <1>3, <2>1
<1> HIDE DEF left, nth
<1> QED
  BY <1>3, <1>4, <1>5, <1>6, <1>9 DEF left

\* A spec without the entries that start at a date or later.
PrunedFrom(spec, date) == [a \in DOMAIN spec |-> StartBefore(spec[a], date)]

\* A pruned spec loads, and has the entries from before the date and no others.
LEMMA PrunedSpec ==
  ASSUME NEW spec, NEW n \in Nat, IsSpec(spec, n), NEW date
  PROVE  LET new == PrunedFrom(spec, date)
         IN /\ IsSpec(new, n) /\ From(new, spec, n) /\ Rests(new, spec, n)
            /\ Into(new, spec, date)
<1> DEFINE new == PrunedFrom(spec, date)
           Index(a, i) == Cardinality(Ahead(spec[a], date, i))
<1>1. PICK P : spec \in [DOMAIN spec -> Seq(EntryWith(P, 1 .. n))]
  BY DEF IsSpec
<1>2. DOMAIN new = DOMAIN spec /\ new = [a \in DOMAIN new |-> new[a]]
  BY DEF PrunedFrom
<1>3. ASSUME NEW a \in DOMAIN spec
      PROVE  /\ new[a] \in Seq(EntryWith(P, 1 .. n))
             /\ \A k \in DOMAIN new[a] : \E i \in KeptOf(spec[a], date) :
                  new[a][k] = spec[a][i] /\ Index(a, i) = k
             /\ \A i \in KeptOf(spec[a], date) : Index(a, i) \in DOMAIN new[a]
  <2>1. new[a] = StartBefore(spec[a], date)
    BY DEF PrunedFrom
  <2>2. spec[a] \in Seq(EntryWith(P, 1 .. n))
    BY <1>1
  <2> HIDE DEF new
  <2> QED
    BY <2>1, <2>2, LeftBefore
<1> HIDE DEF new, Index
<1>4. \A a \in DOMAIN spec : \A i \in KeptOf(spec[a], date) :
         i \in DOMAIN spec[a] /\ spec[a][i].start < date
  BY DEF KeptOf
<1>5. ASSUME NEW a \in DOMAIN new, NEW k \in DOMAIN new[a]
      PROVE  \E i \in DOMAIN spec[a] : new[a][k] = spec[a][i] /\ Index(a, i) = k
  BY <1>2, <1>3, <1>4
<1>6. ASSUME NEW a \in DOMAIN new, NEW k \in DOMAIN new[a] PROVE Validates(new[a][k])
  <2>1. PICK i \in DOMAIN spec[a] : new[a][k] = spec[a][i]
    BY <1>5
  <2>2. Validates(spec[a][i])
    BY <1>2, EntryKnown
  <2> QED
    BY <2>1, <2>2
<1>7. ASSUME NEW a \in DOMAIN new, NEW k \in DOMAIN new[a],
             NEW b \in DOMAIN new, NEW l \in DOMAIN new[b], new[a][k].id = new[b][l].id
      PROVE  a = b /\ k = l
  <2>1. PICK i \in DOMAIN spec[a] : new[a][k] = spec[a][i] /\ Index(a, i) = k
    BY <1>5
  <2>2. PICK j \in DOMAIN spec[b] : new[b][l] = spec[b][j] /\ Index(b, j) = l
    BY <1>5
  <2>3. a = b /\ i = j
    BY <1>2, <1>7, <2>1, <2>2, OnePlace
  <2> QED
    BY <2>1, <2>2, <2>3
<1>8. DOMAIN new \subseteq Accounts
  BY <1>2 DEF IsSpec
<1>9. \A a \in DOMAIN new : new[a] \in Seq(EntryWith(P, 1 .. n))
  BY <1>2, <1>3
<1>10. IsSpec(new, n)
  <2>1. \A a, b \in DOMAIN new : \A i \in DOMAIN new[a], j \in DOMAIN new[b] :
           new[a][i].id = new[b][j].id => a = b /\ i = j
    BY <1>7
  <2>2. new = [a \in DOMAIN new |-> new[a]]
    BY <1>2
  <2> QED
    BY <1>6, <1>8, <1>9, <2>1, <2>2, SpecMade
<1>11. From(new, spec, n)
  BY <1>2, <1>5 DEF From, Continues
<1>12. Into(new, spec, date)
  <2> SUFFICES ASSUME NEW a \in DOMAIN spec, NEW j \in DOMAIN spec[a], spec[a][j].start < date
               PROVE  a \in DOMAIN new /\ \E i \in DOMAIN new[a] : Continues(new[a][i], spec[a][j])
    BY DEF Into
  <2>1. j \in KeptOf(spec[a], date)
    BY DEF KeptOf
  <2>2. Index(a, j) \in DOMAIN new[a]
    BY <1>3, <2>1
  <2>3. PICK i \in KeptOf(spec[a], date) :
           new[a][Index(a, j)] = spec[a][i] /\ Index(a, i) = Index(a, j)
    BY <1>3, <2>2
  <2>4. i = j
    <3>1. DOMAIN spec[a] = 1 .. Len(spec[a]) /\ Len(spec[a]) \in Nat
      BY EntryKnown
    <3> QED
      BY <2>1, <2>3, <3>1, Numbered DEF Index
  <2> QED
    BY <1>2, <2>2, <2>3, <2>4 DEF Continues
<1>13. Rests(new, spec, n)
  BY <1>2, <1>5 DEF Rests
<1> QED
  BY <1>10, <1>11, <1>12, <1>13 DEF new

-----------------------------------------------------------------------------
(* The weeks of an entry and their events. *)

\* The weeks of a valid entry, counted from 1.
LEMMA WeeksCounted ==
  ASSUME NEW e, e.start \in Int, e.end \in Int, Validates(e)
  PROVE  /\ Len(WeekStarts(e)) \in Nat /\ Len(WeekStarts(e)) >= 1
         /\ Weeks(e) = 1 .. Len(WeekStarts(e))
         /\ \A w \in Weeks(e) : WeekEnd(e, w) = e.start + (w - 1) * 7 + 6 /\ WeekEnd(e, w) \in Int
<1> DEFINE n == (e.end - e.start) \div Week + 1
<1>1. n \in Nat /\ n >= 1
  BY DEF Validates, Week
<1>2. WeekStarts(e) = [w \in 1 .. n |-> e.start + (w - 1) * Week]
  BY DEF WeekStarts
<1>3. \A w \in 1 .. n : e.start + (w - 1) * Week \in Int
  BY <1>1 DEF Week
<1> HIDE DEF n
<1>4. WeekStarts(e) \in [1 .. n -> Int]
  BY <1>2, <1>3
<1>5. Len(WeekStarts(e)) = n /\ DOMAIN WeekStarts(e) = 1 .. n
  <2>1. WeekStarts(e) \in Seq(Int)
    BY <1>1, <1>4
  <2>2. DOMAIN WeekStarts(e) = 1 .. n
    BY <1>4
  <2> QED
    BY <1>1, <2>1, <2>2
<1>6. ASSUME NEW w \in 1 .. n
      PROVE  WeekEnd(e, w) = e.start + (w - 1) * 7 + 6 /\ WeekEnd(e, w) \in Int
  <2>1. WeekStarts(e)[w] = e.start + (w - 1) * 7
    BY <1>2 DEF Week
  <2> QED
    BY <1>1, <2>1 DEF WeekEnd, Week
<1> QED
  BY <1>1, <1>5, <1>6 DEF Weeks

\* The events of a week, of what they depend on.
EventsOf(salt, start, health) ==
    LET anchor == start - (IF Jitter[salt] THEN 1 ELSE 0)
        yielded == YieldEvents[<<PickBand(health), High[salt]>>]
    IN [i \in DOMAIN yielded |-> [yielded[i] EXCEPT !.day = yielded[i].day + anchor]]

\* Stamping an entry leaves its weeks and their events as they are.
LEMMA WeeksStay ==
  ASSUME NEW d, NEW e, Continues(d, e)
  PROVE  /\ WeekStarts(d) = WeekStarts(e) /\ Weeks(d) = Weeks(e)
         /\ \A w : WeekEnd(d, w) = WeekEnd(e, w) /\ Events(d, w) = Events(e, w)
<1>1. /\ d.start = e.start /\ d.end = e.end /\ d.primitive = e.primitive
      /\ d.params = e.params /\ d.seed = e.seed
  BY DEF Continues
<1>2. WeekStarts(d) = WeekStarts(e)
  BY <1>1 DEF WeekStarts
<1>3. \A w : Target(d, w) = Target(e, w)
  BY <1>1, <1>2 DEF Target
<1>4. ASSUME NEW w PROVE Events(d, w) = Events(e, w)
  <2>1. /\ Events(d, w) = EventsOf(d.seed.salt, WeekStarts(d)[w], Target(d, w))
        /\ Events(e, w) = EventsOf(e.seed.salt, WeekStarts(e)[w], Target(e, w))
    BY Zenon DEF Events, EventsOf
  <2> QED
    BY <1>1, <1>2, <1>3, <2>1
<1> QED
  BY <1>2, <1>4 DEF Weeks, WeekEnd

\* A signal spec adds its signals to a sequence, or leaves it alone.
LEMMA YieldedSpec ==
  ASSUME NEW acc, NEW S, acc.out \in Seq(S), acc = [now |-> acc.now, index |-> acc.index, out |-> acc.out],
         NEW s, s.count \in Nat, NEW high
  PROVE  LET new == YieldSpec(acc, s, high)
         IN /\ \E T : new.out \in Seq(T)
            /\ new = [now |-> new.now, index |-> new.index, out |-> new.out]
<1>1. CASE s.count = 0 \/ s.cadence = "silence"
  BY <1>1 DEF YieldSpec
<1>2. CASE ~(s.count = 0 \/ s.cadence = "silence") /\ s.kind \notin Dispatch
  <2>1. YieldSpec(acc, s, high) = [acc EXCEPT !.index = @ + s.count]
    BY <1>2 DEF YieldSpec
  <2> QED
    BY <2>1
<1>3. CASE ~(s.count = 0 \/ s.cadence = "silence") /\ s.kind \in Dispatch
  <2> DEFINE day == CHOOSE day : day = [i \in 0 .. s.count - 1 |->
                      IF i = 0 THEN acc.now ELSE day[i - 1] + Advance(s.cadence, i, high)]
             added == [i \in 1 .. s.count |->
                        [kind |-> s.kind, index |-> acc.index + i - 1, day |-> day[i - 1]]]
  <2>1. YieldSpec(acc, s, high) =
          [now |-> day[s.count - 1] + Draw(<<0, 2>>, high), index |-> acc.index + s.count,
           out |-> acc.out \o added]
    BY <1>3 DEF YieldSpec
  <2>2. DOMAIN added = 1 .. s.count /\ added = [i \in 1 .. s.count |-> added[i]]
    OBVIOUS
  <2> HIDE DEF added, day
  <2> DEFINE T == S \cup {added[i] : i \in 1 .. s.count}
  <2>3. added \in [1 .. s.count -> T]
    BY <2>2
  <2>4. added \in Seq(T) /\ acc.out \in Seq(T)
    BY <2>3
  <2> HIDE DEF T
  <2>5. acc.out \o added \in Seq(T)
    BY <2>4
  <2> QED
    BY <2>1, <2>5
<1> QED
  BY <1>1, <1>2, <1>3

\* yield_events gives a sequence.
LEMMA YieldedEvents ==
  ASSUME NEW b \in DOMAIN Bands, NEW high \in BOOLEAN
  PROVE  \E T : YieldEvents[<<b, high>>] \in Seq(T)
<1> DEFINE scenario == Scenario(Bands[b], high)
           empty == [now |-> 0, index |-> 0, out |-> <<>>]
           mails == YieldSpec(empty, scenario.mails, high)
<1>1. YieldEvents[<<b, high>>] = YieldSpec(mails, scenario.events, high).out
  <2> DEFINE x == <<b, high>>
  <2>1. x \in (DOMAIN Bands) \X BOOLEAN /\ x[1] = b /\ x[2] = high
    OBVIOUS
  <2> HIDE DEF x
  <2>2. YieldEvents[x] =
          YieldSpec(YieldSpec(empty, Scenario(Bands[x[1]], x[2]).mails, x[2]),
                    Scenario(Bands[x[1]], x[2]).events, x[2]).out
    BY <2>1 DEF YieldEvents
  <2> QED
    BY <2>1, <2>2 DEF x
<1>2. scenario.mails.count \in Nat /\ scenario.events.count \in Nat
  BY DEF Scenario, Bands, Draw
<1>3. empty.out \in Seq({}) /\ empty = [now |-> empty.now, index |-> empty.index, out |-> empty.out]
  OBVIOUS
<1> HIDE DEF scenario, empty
<1>4. /\ \E T : mails.out \in Seq(T)
      /\ mails = [now |-> mails.now, index |-> mails.index, out |-> mails.out]
  BY <1>2, <1>3, YieldedSpec
<1> HIDE DEF mails
<1>5. PICK T : mails.out \in Seq(T)
  BY <1>4
<1>6. \E U : YieldSpec(mails, scenario.events, high).out \in Seq(U)
  BY <1>2, <1>4, <1>5, YieldedSpec
<1> QED
  BY <1>1, <1>6

\* The events of a week are numbered from 1.
LEMMA EventsCounted ==
  ASSUME NEW e, e.seed.salt \in Salts, NEW w
  PROVE  Len(Events(e, w)) \in Nat /\ DOMAIN Events(e, w) = 1 .. Len(Events(e, w))
<1> DEFINE health == Target(e, w)
           anchor == WeekStarts(e)[w] - (IF Jitter[e.seed.salt] THEN 1 ELSE 0)
           yielded == YieldEvents[<<PickBand(health), High[e.seed.salt]>>]
           at(i) == [yielded[i] EXCEPT !.day = yielded[i].day + anchor]
<1>1. High[e.seed.salt] \in BOOLEAN
  BY SimulatorAssumption
<1>2. PickBand(health) \in DOMAIN Bands
  BY DEF PickBand, Bands
<1>3. PICK T : yielded \in Seq(T)
  BY <1>1, <1>2, YieldedEvents
<1>4. Events(e, w) = [i \in DOMAIN yielded |-> at(i)]
  BY DEF Events
<1> HIDE DEF yielded, at
<1> DEFINE n == Len(yielded)
           U == {at(i) : i \in 1 .. n}
<1>5. n \in Nat /\ DOMAIN yielded = 1 .. n
  BY <1>3
<1>6. Events(e, w) \in [1 .. n -> U]
  BY <1>4, <1>5
<1> HIDE DEF n, U
<1>7. Events(e, w) \in Seq(U)
  BY <1>5, <1>6
<1> QED
  BY <1>7

-----------------------------------------------------------------------------
(* What an author or --bootstrap adds. *)

\* The entries of a spec that loads are finitely many.
LEMMA FiniteEntries ==
  ASSUME NEW spec, NEW n \in Nat, IsSpec(spec, n)
  PROVE  IsFiniteSet(Entries(spec)) /\ \A e \in Entries(spec) : e.end \in Int
<1> DEFINE f == [a \in DOMAIN spec |-> ToSet(spec[a])]
<1>1. IsFiniteSet(DOMAIN spec)
  BY SimulatorAssumption, FS_Subset DEF IsSpec
<1>2. DOMAIN f = DOMAIN spec /\ \A a \in DOMAIN spec : f[a] = ToSet(spec[a])
  OBVIOUS
<1>3. \A a \in DOMAIN spec : IsFiniteSet(ToSet(spec[a]))
  BY EntryKnown, FiniteRange
<1>4. Entries(spec) = UNION {f[a] : a \in DOMAIN spec}
  BY <1>2 DEF Entries
<1> HIDE DEF f
<1>5. IsFiniteSet({f[a] : a \in DOMAIN spec})
  BY <1>1, <1>2, FiniteImage
<1>6. IsFiniteSet(Entries(spec))
  BY <1>2, <1>3, <1>4, <1>5, FS_UNION
<1>7. ASSUME NEW e \in Entries(spec) PROVE e.end \in Int
  <2>1. PICK a \in DOMAIN spec : \E i \in DOMAIN spec[a] : e = spec[a][i]
    BY PlaceOf
  <2>2. e \in EntryWith({e.params}, 1 .. n)
    BY <2>1, EntryKnown
  <2> QED
    BY <2>2 DEF EntryWith
<1> QED
  BY <1>6, <1>7

\* The last days of finitely many entries have a latest.
LEMMA LatestEnd ==
  ASSUME NEW S, IsFiniteSet(S), S # {}, \A e \in S : e.end \in Int
  PROVE  LET latest == Max({e.end : e \in S})
         IN latest \in Int /\ \A e \in S : e.end <= latest
<1> DEFINE f == [e \in S |-> e.end]
           T == {f[e] : e \in S}
<1>1. DOMAIN f = S /\ \A e \in S : f[e] = e.end
  OBVIOUS
<1>2. T = {e.end : e \in S}
  BY <1>1
<1> HIDE DEF f
<1>3. IsFiniteSet(T)
  BY <1>1, FiniteImage
<1>4. T \in SUBSET Int /\ T # {} /\ \A e \in S : e.end \in T
  BY <1>1
<1> HIDE DEF T
<1>5. Max(T) \in T /\ \A y \in T : y <= Max(T)
  BY <1>3, <1>4, Greatest
<1> QED
  BY <1>2, <1>4, <1>5

\* The default start date is a date.
LEMMA StartAvailable ==
  ASSUME NEW n \in Nat, IsFile(file, n)
  PROVE  NextAvailableStart(file, Today) \in Int
<1>1. CASE file = Null \/ Entries(file) = {}
  BY <1>1, SimulatorAssumption DEF NextAvailableStart
<1>2. CASE ~(file = Null \/ Entries(file) = {})
  <2>1. IsFiniteSet(Entries(file)) /\ \A e \in Entries(file) : e.end \in Int
    BY <1>2, FiniteEntries DEF IsFile
  <2>2. Max({e.end : e \in Entries(file)}) \in Int
    BY <1>2, <2>1, LatestEnd
  <2> QED
    BY <1>2, <2>2 DEF NextAvailableStart
<1> QED
  BY <1>1, <1>2

\* The entries an account has in a file that loads, none without a file.
LEMMA EntriesKnown ==
  ASSUME NEW n \in Nat, IsFile(file, n), NEW a
  PROVE  LET entries == EntriesOf(file, a)
         IN /\ IsFiniteSet(ToSet(entries))
            /\ \A e \in ToSet(entries) : e.start \in Int /\ e.end \in Int
            /\ \A i \in DOMAIN entries : entries[i] \in ToSet(entries)
            /\ entries = <<>> <=> ToSet(entries) = {}
<1> DEFINE entries == EntriesOf(file, a)
<1>1. \A i \in DOMAIN entries : entries[i] \in ToSet(entries)
  BY DEF ToSet
<1>2. CASE file # Null /\ a \in DOMAIN file
  <2>1. entries = file[a] /\ IsSpec(file, n)
    BY <1>2 DEF EntriesOf, IsFile
  <2>2. /\ DOMAIN entries = 1 .. Len(entries) /\ Len(entries) \in Nat
        /\ \A i \in DOMAIN entries : entries[i] \in EntryWith({entries[i].params}, 1 .. n)
    BY <1>2, <2>1, EntryKnown
  <2>3. \A e \in ToSet(entries) : e.start \in Int /\ e.end \in Int
    BY <2>2 DEF ToSet, EntryWith
  <2>4. IsFiniteSet(ToSet(entries))
    BY <2>2, FiniteRange
  <2>5. PICK P : file \in [DOMAIN file -> Seq(EntryWith(P, 1 .. n))]
    BY <2>1 DEF IsSpec
  <2>6. entries \in Seq(EntryWith(P, 1 .. n))
    BY <1>2, <2>1, <2>5
  <2>7. entries = <<>> <=> ToSet(entries) = {}
    <3>1. ASSUME entries # <<>> PROVE ToSet(entries) # {}
      <4>1. 1 \in DOMAIN entries
        BY <2>2, <2>6, <3>1
      <4> QED
        BY <1>1, <4>1
    <3>2. ToSet(<<>>) = {}
      BY DEF ToSet
    <3> QED
      BY <3>1, <3>2
  <2> QED
    BY <1>1, <2>3, <2>4, <2>7
<1>3. CASE ~(file # Null /\ a \in DOMAIN file)
  <2>1. entries = <<>>
    BY <1>3 DEF EntriesOf
  <2>2. ToSet(<<>>) = {}
    BY DEF ToSet
  <2> QED
    BY <2>1, <2>2, FS_EmptySet
<1> QED
  BY <1>2, <1>3

\* check_collision says None exactly when no entry overlaps.
LEMMA CollisionTold ==
  ASSUME NEW n \in Nat, IsFile(file, n), NEW a, NEW start, NEW end,
         CheckCollision(EntriesOf(file, a), start, end) = Null
  PROVE  \A i \in DOMAIN EntriesOf(file, a) : ~Overlaps(EntriesOf(file, a)[i], start, end)
<1> DEFINE entries == EntriesOf(file, a)
           S == {x \in ToSet(entries) : Overlaps(x, start, end)}
<1>1. /\ IsFiniteSet(ToSet(entries)) /\ \A e \in ToSet(entries) : e.end \in Int
      /\ \A i \in DOMAIN entries : entries[i] \in ToSet(entries)
  BY EntriesKnown
<1>2. S \in SUBSET ToSet(entries)
  OBVIOUS
<1> SUFFICES ASSUME S # {} PROVE FALSE
  BY <1>1
<1>3. IsFiniteSet(S) /\ \A e \in S : e.end \in Int
  BY <1>1, <1>2, FS_Subset
<1> DEFINE latest == Max({e.end : e \in S})
<1>4. latest \in Int
  BY <1>3, LatestEnd
<1>5. {e.end : e \in S} # {}
  OBVIOUS
<1>6. CheckCollision(entries, start, end) = latest + 1
  BY <1>5 DEF CheckCollision
<1> HIDE DEF latest, S
<1>7. latest + 1 \in Int
  BY <1>4
<1> QED
  BY <1>6, <1>7, SimulatorAssumption

\* The identities of the new entries are the next ones, one for each account.
LEMMA Identities ==
  ASSUME entryIds \in Nat, NEW chosen \in SUBSET Accounts
  PROVE  /\ Cardinality(chosen) \in Nat
         /\ \A a \in chosen :
              NewId(chosen, a) \in entryIds + 1 .. entryIds + Cardinality(chosen)
         /\ \A a, b \in chosen : NewId(chosen, a) = NewId(chosen, b) => a = b
<1> DEFINE f == SetToSeq(chosen)
           at(a) == CHOOSE i \in DOMAIN f : f[i] = a
<1>1. IsFiniteSet(chosen)
  BY SimulatorAssumption, FS_Subset
<1>2. /\ Cardinality(chosen) \in Nat /\ DOMAIN f = 1 .. Cardinality(chosen)
      /\ \A a \in chosen : \E i \in 1 .. Cardinality(chosen) : f[i] = a
  BY <1>1, Listed
<1>3. \A a \in chosen : NewId(chosen, a) = entryIds + at(a)
  BY DEF NewId
<1> HIDE DEF f
<1>4. \A a \in chosen : at(a) \in 1 .. Cardinality(chosen) /\ f[at(a)] = a
  BY <1>2
<1> HIDE DEF at
<1>5. ASSUME NEW a \in chosen
      PROVE  NewId(chosen, a) \in entryIds + 1 .. entryIds + Cardinality(chosen)
  BY <1>2, <1>3, <1>4
<1>6. ASSUME NEW a \in chosen, NEW b \in chosen, NewId(chosen, a) = NewId(chosen, b)
      PROVE  a = b
  <2>1. at(a) = at(b)
    BY <1>2, <1>3, <1>4, <1>6
  <2> QED
    BY <1>4, <2>1
<1> QED
  BY <1>2, <1>5, <1>6

\* An entry as it is made.
LEMMA EntryMade ==
  ASSUME NEW I, NEW id \in I, NEW start \in Int, NEW end \in Int, NEW primitive \in Primitives,
         NEW params, NEW seed \in Seeds
  PROVE  [id |-> id, start |-> start, end |-> end, primitive |-> primitive, params |-> params,
          seed |-> seed, done |-> FALSE] \in EntryWith({params}, I)
BY DEF EntryWith

\* No entry an account has overlaps a new one.
Clear(spec, a, e) ==
    \A i \in DOMAIN EntriesOf(spec, a) : ~Overlaps(EntriesOf(spec, a)[i], e.start, e.end)

\* What a step that adds entries does to the file and to what was consented to.
Adds(made) ==
    /\ entryIds' \in Nat /\ entryIds <= entryIds'
    /\ NewEntries(made, entryIds, entryIds')
    /\ file' = WithEntries(file, made)
    /\ consented \subseteq consented'
    /\ consented' \subseteq consented \cup (entryIds + 1 .. entryIds')
    /\ \A a \in DOMAIN made : made[a].id \in consented' \/ Clear(file, a, made[a])

\* An author adds entries, and is asked for consent where they overlap or have dates
\* of their own.
LEMMA AuthorAdds ==
  ASSUME entryIds \in Nat, IsFile(file, entryIds), Author
  PROVE  \E made : Adds(made)
<1>1. PICK chosen \in (SUBSET Offered) \ {{}}, shape \in Shapes, salt \in Salts,
           start \in {NextAvailableStart(file, Today)} \cup TypedStarts, span \in Spans,
           generate \in BOOLEAN :
         LET asked == <<start, start + span>>
         IN \E own \in Customized(chosen, asked, shape) :
              LET new == WithEntries(file, [a \in chosen |->
                             Authored(NewId(chosen, a), own[a].shape, asked, own[a].dates, salt)])
                  told == {e \in Entries(new) :
                             /\ e.id > entryIds
                             /\ Collides(chosen, asked) \/ <<e.start, e.end>> # asked}
              IN /\ SaveAuthored(new, generate)
                 /\ entryIds' = entryIds + Cardinality(chosen)
                 /\ consented' = consented \cup {e.id : e \in told}
  BY DEF Author
<1> DEFINE asked == <<start, start + span>>
<1>2. PICK own \in Customized(chosen, asked, shape) :
        LET new == WithEntries(file, [a \in chosen |->
                       Authored(NewId(chosen, a), own[a].shape, asked, own[a].dates, salt)])
            told == {e \in Entries(new) :
                       /\ e.id > entryIds
                       /\ Collides(chosen, asked) \/ <<e.start, e.end>> # asked}
        IN /\ SaveAuthored(new, generate)
           /\ entryIds' = entryIds + Cardinality(chosen)
           /\ consented' = consented \cup {e.id : e \in told}
  BY <1>1
<1> DEFINE made == [a \in chosen |->
                      Authored(NewId(chosen, a), own[a].shape, asked, own[a].dates, salt)]
           new == WithEntries(file, made)
           told == {e \in Entries(new) :
                      /\ e.id > entryIds
                      /\ Collides(chosen, asked) \/ <<e.start, e.end>> # asked}
<1>3. /\ \A e \in Entries(new) : Validates(e)
      /\ file' = new
      /\ entryIds' = entryIds + Cardinality(chosen)
      /\ consented' = consented \cup {e.id : e \in told}
  BY <1>2 DEF SaveAuthored
<1>4. chosen \in SUBSET Accounts
  BY DEF Offered
<1>5. /\ Cardinality(chosen) \in Nat
      /\ \A a \in chosen : NewId(chosen, a) \in entryIds + 1 .. entryIds'
      /\ \A a, b \in chosen : NewId(chosen, a) = NewId(chosen, b) => a = b
  BY <1>3, <1>4, Identities
<1>6. start \in Int /\ span \in Int /\ start + span \in Int
  <2>1. start \in Int /\ span \in Int
    BY StartAvailable, SimulatorAssumption
  <2> QED
    BY <2>1
<1>7. ASSUME NEW a \in chosen
      PROVE  /\ own[a].dates[1] \in Int /\ own[a].dates[2] \in Int
  <2>1. own[a] \in {[dates |-> asked, shape |-> shape]} \cup Overrides
    BY <1>2 DEF Customized
  <2>2. CASE own[a] = [dates |-> asked, shape |-> shape]
    BY <1>6, <2>2
  <2>3. CASE own[a] \in Overrides
    BY <2>3, SimulatorAssumption
  <2> QED
    BY <2>1, <2>2, <2>3
<1>8. ASSUME NEW a \in chosen
      PROVE  /\ made[a].id = NewId(chosen, a)
             /\ made[a].primitive = own[a].shape.primitive
             /\ made[a].start = own[a].dates[1] /\ made[a].end = own[a].dates[2] /\ ~made[a].done
             /\ /\ own[a].shape.primitive \in Primitives
                /\ own[a].dates[1] \in Int /\ own[a].dates[2] \in Int
                /\ NewId(chosen, a) \in entryIds + 1 .. entryIds'
                => made[a] \in EntryWith({made[a].params}, entryIds + 1 .. entryIds')
  <2> DEFINE e == Authored(NewId(chosen, a), own[a].shape, asked, own[a].dates, salt)
  <2>1. made[a] = e
    OBVIOUS
  <2> HIDE DEF made
  <2>2. e = [id |-> NewId(chosen, a), start |-> own[a].dates[1], end |-> own[a].dates[2],
             primitive |-> own[a].shape.primitive, params |-> Typed(own[a].shape),
             seed |-> [start |-> start, salt |-> salt], done |-> FALSE]
    BY DEF Authored, DeriveSeed
  <2>3. [start |-> start, salt |-> salt] \in Seeds
    BY <1>6 DEF Seeds
  <2> HIDE DEF e
  <2>4. /\ e.id = NewId(chosen, a) /\ e.primitive = own[a].shape.primitive
        /\ e.start = own[a].dates[1] /\ e.end = own[a].dates[2]
        /\ e.params = Typed(own[a].shape) /\ ~e.done
    BY <2>2
  <2>5. ASSUME own[a].shape.primitive \in Primitives,
               own[a].dates[1] \in Int, own[a].dates[2] \in Int,
               NewId(chosen, a) \in entryIds + 1 .. entryIds'
        PROVE  e \in EntryWith({e.params}, entryIds + 1 .. entryIds')
    <3>1. e \in EntryWith({Typed(own[a].shape)}, entryIds + 1 .. entryIds')
      BY <2>2, <2>3, <2>5, EntryMade
    <3> QED
      BY <2>4, <3>1
  <2> QED
    BY <2>1, <2>4, <2>5
<1>9. DOMAIN made = chosen
  OBVIOUS
<1> HIDE DEF made, new, told
<1>10. ASSUME NEW a \in chosen PROVE made[a] \in Entries(new)
  <2>1. a \in DOMAIN new
    BY <1>9 DEF new, WithEntries
  <2>2. LET old == EntriesOf(file, a)
        IN /\ Len(old) \in Nat /\ DOMAIN new[a] = 1 .. Len(old) + 1
           /\ new[a][Len(old) + 1] = made[a]
    BY <1>4, <1>9, <2>1, WithEntriesOf DEF new
  <2>3. Len(EntriesOf(file, a)) + 1 \in DOMAIN new[a]
    BY <2>2
  <2>4. made[a] \in ToSet(new[a])
    BY <2>2, <2>3 DEF ToSet
  <2> QED
    BY <2>1, <2>4 DEF Entries
<1>11. ASSUME NEW a \in chosen
       PROVE  /\ made[a] \in EntryWith({made[a].params}, entryIds + 1 .. entryIds')
              /\ Validates(made[a]) /\ ~made[a].done
  <2>1. Validates(made[a])
    BY <1>3, <1>10
  <2>3. own[a].shape.primitive \in Primitives
    BY <1>8, <2>1 DEF Validates
  <2>4. made[a] \in EntryWith({made[a].params}, entryIds + 1 .. entryIds')
    BY <1>5, <1>7, <1>8, <2>3
  <2> QED
    BY <1>8, <2>1, <2>4
<1>12. NewEntries(made, entryIds, entryIds')
  <2>1. \A a \in chosen : made[a].id = NewId(chosen, a)
    BY <1>8
  <2> QED
    BY <1>4, <1>5, <1>9, <1>11, <2>1 DEF NewEntries
<1>13. entryIds' \in Nat /\ entryIds <= entryIds'
  BY <1>3, <1>5
<1>14. consented' \subseteq consented \cup (entryIds + 1 .. entryIds')
  <2>1. IsSpec(new, entryIds')
    BY <1>12, <1>13, AddedSpec DEF new
  <2>2. ASSUME NEW e \in told PROVE e.id \in entryIds + 1 .. entryIds'
    <3>1. e \in Entries(new) /\ e.id > entryIds
      BY DEF told
    <3>2. PICK a \in DOMAIN new : \E i \in DOMAIN new[a] : e = new[a][i]
      BY <3>1, PlaceOf
    <3>3. e.id \in 1 .. entryIds'
      BY <1>13, <2>1, <3>2, EntryKnown DEF EntryWith
    <3> QED
      BY <1>13, <3>1, <3>3
  <2> QED
    BY <1>3, <2>2
<1>15. ASSUME NEW a \in chosen PROVE made[a].id \in consented' \/ Clear(file, a, made[a])
  <2>1. made[a].id > entryIds
    <3>1. made[a].id = NewId(chosen, a)
      BY <1>8
    <3> QED
      BY <1>5, <1>13, <3>1
  <2>2. CASE Collides(chosen, asked) \/ <<made[a].start, made[a].end>> # asked
    <3>1. made[a] \in told
      BY <1>10, <2>1, <2>2 DEF told
    <3> QED
      BY <1>3, <3>1
  <2>3. CASE ~Collides(chosen, asked) /\ <<made[a].start, made[a].end>> = asked
    <3>1. made[a].start = asked[1] /\ made[a].end = asked[2]
      BY <2>3
    <3>2. CheckCollision(EntriesOf(file, a), asked[1], asked[2]) = Null
      BY <2>3 DEF Collides
    <3>3. \A i \in DOMAIN EntriesOf(file, a) : ~Overlaps(EntriesOf(file, a)[i], asked[1], asked[2])
      BY <3>2, CollisionTold
    <3> QED
      BY <3>1, <3>3 DEF Clear
  <2> QED
    BY <2>2, <2>3
<1>16. Adds(made)
  BY <1>3, <1>9, <1>12, <1>13, <1>14, <1>15 DEF Adds, new
<1> QED
  BY <1>16

\* The dates that --bootstrap gives an entry are after all the account's entries.
LEMMA DatesResolved ==
  ASSUME NEW n \in Nat, IsFile(file, n), NEW a, NEW weeks \in BootWeeks,
         ResolveDates(EntriesOf(file, a), Today, weeks) # Null
  PROVE  LET dates == ResolveDates(EntriesOf(file, a), Today, weeks)
         IN /\ dates[1] \in Int /\ dates[2] \in Int
            /\ \A i \in DOMAIN EntriesOf(file, a) : EntriesOf(file, a)[i].end < dates[1]
<1> DEFINE entries == EntriesOf(file, a)
           dates == ResolveDates(entries, Today, weeks)
           latest == Max({e.end : e \in ToSet(entries)})
<1>1. Today \in Int /\ weeks \in Int /\ weeks * Week \in Int
  <2>1. Today \in Int /\ weeks \in Int
    BY SimulatorAssumption
  <2> QED
    BY <2>1 DEF Week
<1>2. CASE entries = <<>>
  <2>1. dates = <<Today - weeks * Week, Today - 1>>
    BY <1>2 DEF ResolveDates
  <2>2. dates[1] = Today - weeks * Week /\ dates[2] = Today - 1
    BY <2>1
  <2>3. DOMAIN entries = {}
    BY <1>2
  <2> HIDE DEF entries, dates
  <2>4. dates[1] \in Int /\ dates[2] \in Int
    BY <1>1, <2>2
  <2> QED
    BY <2>3, <2>4 DEF entries, dates
<1>3. CASE entries # <<>>
  <2>1. /\ IsFiniteSet(ToSet(entries)) /\ ToSet(entries) # {}
        /\ \A e \in ToSet(entries) : e.end \in Int
        /\ \A i \in DOMAIN entries : entries[i] \in ToSet(entries)
    BY <1>3, EntriesKnown
  <2>2. latest \in Int /\ \A e \in ToSet(entries) : e.end <= latest
    BY <2>1, LatestEnd
  <2>3. dates = <<latest + 1, latest + 1 + weeks * Week - 1>>
    BY <1>3 DEF ResolveDates
  <2> HIDE DEF entries, dates, latest
  <2>4. dates[1] = latest + 1 /\ dates[2] = latest + 1 + weeks * Week - 1
    BY <2>3
  <2>5. dates[1] \in Int /\ dates[2] \in Int
    BY <1>1, <2>2, <2>4
  <2>6. \A i \in DOMAIN entries : entries[i].end < dates[1]
    BY <2>1, <2>2, <2>4
  <2> QED
    BY <2>5, <2>6 DEF entries, dates
<1> QED
  BY <1>2, <1>3

\* What --bootstrap proposes under one identity it proposes under any other.
LEMMA ProposedEntry ==
  ASSUME NEW n \in Nat, IsFile(file, n), NEW a, NEW weeks \in BootWeeks, NEW salt \in Salts,
         Proposed(a, EntriesOf(file, a), 0, Today, weeks, salt) # Null,
         Validates(Proposed(a, EntriesOf(file, a), 0, Today, weeks, salt)),
         NEW I, NEW id \in I
  PROVE  LET e == Proposed(a, EntriesOf(file, a), id, Today, weeks, salt)
         IN /\ e \in EntryWith({e.params}, I) /\ e.id = id /\ e.done = FALSE
            /\ Validates(e) /\ Clear(file, a, e)
<1> DEFINE entries == EntriesOf(file, a)
           dates == ResolveDates(entries, Today, weeks)
           shape == Proposal(Profile[a], dates[1], dates[2])
           clash == CheckCollision(entries, dates[1], dates[2])
           Made(k) == [id |-> k, start |-> dates[1], end |-> dates[2], primitive |-> shape.primitive,
                       params |-> shape.params, seed |-> [start |-> dates[1], salt |-> salt],
                       done |-> FALSE]
           of(k) == Proposed(a, entries, k, Today, weeks, salt)
<1>1. \A k : of(k) = IF dates = Null \/ (clash # Null /\ clash > dates[2]) THEN Null ELSE Made(k)
  BY DEF Proposed, DeriveSeed
<1> HIDE DEF of, dates, shape, clash
<1>2. dates # Null /\ \A k : of(k) = Made(k)
  <2>1. of(0) # Null
    BY DEF of
  <2>2. ~(dates = Null \/ (clash # Null /\ clash > dates[2]))
    BY <1>1, <2>1
  <2> QED
    BY <1>1, <2>2
<1>3. /\ dates[1] \in Int /\ dates[2] \in Int
      /\ \A i \in DOMAIN entries : entries[i].end < dates[1]
  BY <1>2, DatesResolved DEF dates
<1>4. Validates(Made(0))
  BY <1>2 DEF of
<1>5. /\ Made(0).primitive = shape.primitive /\ Made(0).start = dates[1] /\ Made(0).end = dates[2]
      /\ Made(0).params = shape.params
      /\ Made(id).primitive = shape.primitive /\ Made(id).start = dates[1] /\ Made(id).end = dates[2]
      /\ Made(id).params = shape.params /\ Made(id).id = id /\ Made(id).done = FALSE
  OBVIOUS
<1>6. [start |-> dates[1], salt |-> salt] \in Seeds
  BY <1>3 DEF Seeds
<1>7. shape.primitive \in Primitives
  BY <1>4, <1>5 DEF Validates
<1>8. Made(id) \in EntryWith({shape.params}, I)
  BY <1>3, <1>6, <1>7, EntryMade
<1> HIDE DEF Made, entries
<1>9. Validates(Made(id))
  BY <1>4, <1>5 DEF Validates
<1>10. Clear(file, a, Made(id))
  <2>1. ASSUME NEW i \in DOMAIN entries PROVE ~Overlaps(entries[i], Made(id).start, Made(id).end)
    <3>1. entries[i].end \in Int
      BY EntriesKnown DEF entries
    <3> QED
      BY <1>3, <1>5, <3>1 DEF Overlaps
  <2> QED
    BY <2>1 DEF Clear, entries
<1>11. of(id) = Made(id)
  BY <1>2
<1> QED
  BY <1>5, <1>8, <1>9, <1>10, <1>11 DEF of, entries

\* --bootstrap adds entries that overlap none.
LEMMA BootstrapAdds ==
  ASSUME entryIds \in Nat, IsFile(file, entryIds), Bootstrap
  PROVE  \E made : Adds(made)
<1>1. PICK weeks \in BootWeeks, salt \in Salts, known \in {Eligible, {}} :
         LET entry(a, id) == Proposed(a, EntriesOf(file, a), id, Today, weeks, salt)
             chosen == {a \in known : entry(a, 0) # Null}
         IN /\ \A a \in chosen : Validates(entry(a, 0))
            /\ file' = WithEntries(file, [a \in chosen |-> entry(a, NewId(chosen, a))])
            /\ entryIds' = entryIds + Cardinality(chosen)
  BY DEF Bootstrap
<1> DEFINE entry(a, id) == Proposed(a, EntriesOf(file, a), id, Today, weeks, salt)
           chosen == {a \in known : entry(a, 0) # Null}
           made == [a \in chosen |-> entry(a, NewId(chosen, a))]
<1>2. /\ \A a \in chosen : Validates(entry(a, 0))
      /\ file' = WithEntries(file, made)
      /\ entryIds' = entryIds + Cardinality(chosen)
  BY <1>1
<1>3. chosen \in SUBSET Accounts /\ \A a \in chosen : entry(a, 0) # Null
  BY DEF Eligible
<1>4. consented' = consented
  BY DEF Bootstrap, history
<1>5. DOMAIN made = chosen /\ \A a \in chosen : made[a] = entry(a, NewId(chosen, a))
  OBVIOUS
<1> HIDE DEF made, chosen
<1>6. /\ Cardinality(chosen) \in Nat
      /\ \A a \in chosen : NewId(chosen, a) \in entryIds + 1 .. entryIds'
      /\ \A a, b \in chosen : NewId(chosen, a) = NewId(chosen, b) => a = b
  BY <1>2, <1>3, Identities
<1>7. entryIds' \in Nat /\ entryIds <= entryIds'
  BY <1>2, <1>6
<1>8. ASSUME NEW a \in chosen
      PROVE  /\ made[a] \in EntryWith({made[a].params}, entryIds + 1 .. entryIds')
             /\ made[a].id = NewId(chosen, a) /\ ~made[a].done
             /\ Validates(made[a]) /\ Clear(file, a, made[a])
  <2>1. /\ NewId(chosen, a) \in entryIds + 1 .. entryIds'
        /\ Proposed(a, EntriesOf(file, a), 0, Today, weeks, salt) # Null
        /\ Validates(Proposed(a, EntriesOf(file, a), 0, Today, weeks, salt))
    BY <1>2, <1>3, <1>6
  <2> DEFINE I == entryIds + 1 .. entryIds'
             id == NewId(chosen, a)
  <2>2. id \in I
    BY <2>1
  <2> HIDE DEF I, id
  <2> DEFINE e == Proposed(a, EntriesOf(file, a), id, Today, weeks, salt)
  <2>3. /\ e \in EntryWith({e.params}, I) /\ e.id = id /\ e.done = FALSE
        /\ Validates(e) /\ Clear(file, a, e)
    BY <2>1, <2>2, ProposedEntry
  <2>4. made[a] = e
    BY <1>5 DEF id
  <2> HIDE DEF e
  <2> QED
    BY <2>3, <2>4 DEF I, id
<1>9. NewEntries(made, entryIds, entryIds')
  <2>1. DOMAIN made \subseteq Accounts /\ DOMAIN made = chosen
    BY <1>3, <1>5
  <2> HIDE DEF entry
  <2>2. \A a \in chosen : made[a].id = NewId(chosen, a)
    BY <1>8
  <2>3. \A a, b \in DOMAIN made : made[a].id = made[b].id => a = b
    BY <1>6, <2>1, <2>2
  <2> QED
    BY <1>8, <2>1, <2>3 DEF NewEntries
<1>10. Adds(made)
  BY <1>2, <1>4, <1>5, <1>7, <1>8, <1>9 DEF Adds
<1> QED
  BY <1>10

-----------------------------------------------------------------------------
(* Which steps change what. *)

\* The file: an author, --bootstrap, a stamp and a prune.
LEMMA FileChanges ==
  ASSUME Next
  PROVE  \/ Author \/ Bootstrap \/ Stamp \/ Prune
         \/ UNCHANGED <<file, entryIds, consented>>
BY DEF Next, Works, Run, Resume, Revert, Audit, NextEntry, NextWeek, IngestSignal, Supersede,
   InsertNarrative, InsertConflict, ReadWinner, Backdate, AuditReturns, DeleteAudits,
   DeleteAuditRuns, DeleteSignals, DeleteNarratives, DeleteScores,
   DeleteSnapshots, AuditNext, Collect, AuditExits,
   Audits, IngestClash, AttemptFails, AuditCallFails, Crash, WorkerSupersedes, WorkerInserts,
   history, tables, production

\* The narratives: a supersede, an insert, a backdate and a revert's delete.
LEMMA NarrativeChanges ==
  ASSUME Next
  PROVE  \/ Supersede \/ InsertNarrative \/ Backdate \/ DeleteNarratives
         \/ WorkerSupersedes \/ WorkerInserts
         \/ UNCHANGED <<narratives, rows>>
BY DEF Next, Works, Author, Bootstrap, Stamp, Prune, Run, Resume, Revert, Audit, NextEntry,
   NextWeek, IngestSignal, InsertConflict, ReadWinner, AuditReturns, DeleteAudits,
   DeleteAuditRuns, DeleteSignals, DeleteScores, DeleteSnapshots, AuditNext, Collect, AuditExits,
   Audits, IngestClash, AttemptFails, AuditCallFails, Crash, tables

\* The audits: the call in progress, its callers and a revert.
LEMMA AuditChanges ==
  ASSUME Next
  PROVE  \/ Backdate \/ AuditReturns \/ DeleteAudits \/ DeleteAuditRuns \/ AuditNext \/ Collect
         \/ Audits \/ AuditCallFails \/ Crash
         \/ UNCHANGED <<audits, auditRuns, auditor>>
BY DEF Next, Works, Author, Bootstrap, Stamp, Prune, Run, Resume, Revert, Audit, NextEntry,
   NextWeek, IngestSignal, Supersede, InsertNarrative, InsertConflict, ReadWinner,
   DeleteSignals, DeleteNarratives, DeleteScores, DeleteSnapshots, AuditExits,
   IngestClash, AttemptFails, WorkerSupersedes, WorkerInserts

-----------------------------------------------------------------------------
(* The type invariant: what the tables and the command in progress hold. *)

Options == [force : BOOLEAN, dry : BOOLEAN, limit : Nat \cup {Null},
            audit : {"none", "final", "all"}, retries : Nat, only : SUBSET Accounts]

FileTyped == entryIds \in Nat /\ IsFile(file, entryIds)

NarrativeRow ==
    [row : 1 .. rows, account : Accounts, entry : (1 .. entryIds) \cup {Null}, week : Nat,
     dated : Int, active : BOOLEAN, read : Nat]

NarrativesTyped ==
    /\ rows \in Nat
    /\ narratives \subseteq NarrativeRow
    /\ \A r, s \in narratives : r.row = s.row => r = s

CountersTyped ==
    /\ commands \in Nat /\ snapshots \in Nat /\ commands + snapshots \in 0 .. MaxEvents
    /\ cut \in Int
    /\ consented \subseteq 1 .. entryIds /\ finished \subseteq 1 .. entryIds
    /\ scored \subseteq {"scores", "snapshots"} \X Accounts
    /\ due \subseteq Accounts /\ worker \in Accounts \cup {Null}
    /\ \A s \in signals : s.key.account \in Accounts /\ s.key.seed \in Seeds

RunPcs == {"next", "week", "ingest", "insert", "conflict", "backdate", "audit", "stamp"}

IsRun(c) ==
    c \in [kind : {"run"}, pc : RunPcs, run : 0 .. commands, spec : {file}, opts : Options,
           queue : SUBSET (Accounts \X Nat), at : (Accounts \X Nat) \cup {Null},
           week : Nat \ {0}, attempt : Nat, events : {c.events}, next : Nat, got : Nat,
           row : Nat]

RevertPcs == {"audits", "runs", "signals", "narratives", "scores", "snapshots", "prune"}

IsRevert(c) ==
    c \in [kind : {"revert"}, pc : RevertPcs, run : {0}, spec : {file}, date : RevertDates,
           rows : {c.rows}]

IsAudit(c) ==
    c \in [kind : {"audit"}, pc : {"pick", "wait"}, run : 0 .. commands, tuning : BOOLEAN,
           corpus : SUBSET (1 .. rows), todo : SUBSET c.corpus, outcomes : Seq(BOOLEAN)]

CommandTyped ==
    \/ cmd = NoCommand
    \/ cmd.kind = "run" /\ IsRun(cmd) /\ IsSpec(file, entryIds)
    \/ cmd.kind = "revert" /\ IsRevert(cmd) /\ IsSpec(file, entryIds)
    \/ cmd.kind = "audit" /\ IsAudit(cmd)

\* Where the run is: its places are entries of the file, its events the week's.
IsPlace(x) == x \in Accounts \X Nat /\ x[1] \in DOMAIN file /\ x[2] \in DOMAIN file[x[1]]

Working == {"week", "ingest", "insert", "conflict", "backdate", "audit", "stamp"}
Generating == {"ingest", "insert", "conflict", "backdate", "audit"}

PlacesKnown ==
    cmd.kind = "run" =>
        /\ \A x \in cmd.queue : IsPlace(x)
        /\ cmd.pc \in Working => IsPlace(cmd.at) /\ cmd.at \notin cmd.queue
        /\ cmd.pc \in Generating => ~cmd.opts.dry /\ cmd.week <= NWeeks
        /\ cmd.pc = "ingest" => cmd.events = Events(Entry, cmd.week)
        /\ cmd.pc = "stamp" => cmd.week > NWeeks

\* An audit is in progress exactly where a command waits for one.
Awaited == \/ cmd.kind = "run" /\ cmd.pc = "audit"
           \/ cmd.kind = "audit" /\ cmd.pc = "wait"

AuditorPlaced ==
    /\ AuditTypeOK
    /\ Awaited => /\ auditor.pc # "idle"
                  /\ auditor.run = cmd.run
                  /\ cmd.kind = "audit" => auditor.row \in cmd.corpus \ cmd.todo
    /\ ~Awaited => auditor = NoAudit

ExitTyped ==
    /\ exit.code \in {Null, 0, 1, 2}
    /\ exit.code # Null => cmd = NoCommand

TypeInv == /\ FileTyped /\ NarrativesTyped /\ CountersTyped /\ CommandTyped
           /\ PlacesKnown /\ AuditorPlaced /\ ExitTyped

\* The entry at a place.
LEMMA PlaceKnown ==
  ASSUME FileTyped, IsSpec(file, entryIds), NEW x, IsPlace(x)
  PROVE  LET e == file[x[1]][x[2]]
         IN /\ x[1] \in Accounts /\ x[1] \in DOMAIN file /\ x[2] \in DOMAIN file[x[1]]
            /\ e \in EntryWith({e.params}, 1 .. entryIds) /\ e \in Entries(file) /\ Validates(e)
            /\ e.id \in 1 .. entryIds /\ e.start \in Int /\ e.end \in Int /\ e.done \in BOOLEAN
            /\ e.seed \in Seeds /\ e.seed.salt \in Salts
<1> DEFINE e == file[x[1]][x[2]]
<1>1. /\ x[1] \in Accounts /\ x[1] \in DOMAIN file /\ x[2] \in DOMAIN file[x[1]]
  BY DEF IsPlace
<1>2. e \in EntryWith({e.params}, 1 .. entryIds) /\ e \in Entries(file) /\ Validates(e)
  BY <1>1, EntryKnown DEF FileTyped
<1> HIDE DEF e
<1>3. /\ e.id \in 1 .. entryIds /\ e.start \in Int /\ e.end \in Int /\ e.done \in BOOLEAN
      /\ e.seed \in Seeds
  BY <1>2 DEF EntryWith
<1>4. e.seed.salt \in Salts
  BY <1>3 DEF Seeds
<1> QED
  BY <1>1, <1>2, <1>3, <1>4 DEF e

\* The entry a run is at, and its weeks.
LEMMA AtEntry ==
  ASSUME TypeInv, cmd.kind = "run", cmd.pc \in Working
  PROVE  /\ IsRun(cmd) /\ IsSpec(file, entryIds) /\ IsPlace(cmd.at)
         /\ Account = cmd.at[1] /\ Account \in Accounts /\ Account \in DOMAIN file
         /\ Entry = file[cmd.at[1]][cmd.at[2]] /\ Entry \in Entries(file) /\ Validates(Entry)
         /\ Entry.id \in 1 .. entryIds /\ Entry.start \in Int /\ Entry.end \in Int
         /\ Entry.seed \in Seeds /\ Entry.seed.salt \in Salts
         /\ Weeks(Entry) = 1 .. Len(WeekStarts(Entry)) /\ Len(WeekStarts(Entry)) \in Nat
         /\ NWeeks \in Nat /\ NWeeks <= Len(WeekStarts(Entry))
<1>1. IsRun(cmd) /\ IsSpec(file, entryIds)
  BY DEF TypeInv, CommandTyped, NoCommand
<1>2. IsPlace(cmd.at)
  BY DEF TypeInv, PlacesKnown
<1>3. Entry = file[cmd.at[1]][cmd.at[2]]
  BY <1>1 DEF Entry, IsRun
<1>4. /\ Account \in Accounts /\ Account \in DOMAIN file
      /\ Entry \in Entries(file) /\ Validates(Entry)
      /\ Entry.id \in 1 .. entryIds /\ Entry.start \in Int /\ Entry.end \in Int
      /\ Entry.seed \in Seeds /\ Entry.seed.salt \in Salts
  BY <1>1, <1>2, <1>3, PlaceKnown DEF TypeInv, Account
<1>5. /\ Weeks(Entry) = 1 .. Len(WeekStarts(Entry)) /\ Len(WeekStarts(Entry)) \in Nat
  BY <1>4, WeeksCounted
<1>6. cmd.opts.limit \in Nat \cup {Null}
  BY <1>1 DEF IsRun, Options
<1>7. NWeeks \in Nat /\ NWeeks <= Len(WeekStarts(Entry))
  BY <1>5, <1>6, OfTwo DEF NWeeks
<1> QED
  BY <1>1, <1>2, <1>3, <1>4, <1>5, <1>7 DEF Account

\* A stamp on the file, and the entry it is for.
LEMMA StampEffect ==
  ASSUME TypeInv, Stamp
  PROVE  /\ cmd.kind = "run" /\ cmd.pc = "stamp" /\ IsRun(cmd) /\ IsSpec(file, entryIds)
         /\ IsPlace(cmd.at) /\ cmd.at[1] \in DOMAIN file /\ cmd.at[2] \in DOMAIN file[cmd.at[1]]
         /\ Stamped = StampedAt(file, cmd.at[1], cmd.at[2])
         /\ file' = StampedAt(file, cmd.at[1], cmd.at[2])
         /\ UNCHANGED <<entryIds, consented>>
<1>1. cmd.kind = "run" /\ cmd.pc = "stamp" /\ UNCHANGED <<entryIds, consented>> /\ file' = Stamped
  BY DEF Stamp, Now
<1>2. IsRun(cmd) /\ IsSpec(file, entryIds) /\ IsPlace(cmd.at)
  BY <1>1, AtEntry DEF Working
<1>3. Stamped = StampedAt(file, cmd.at[1], cmd.at[2])
  BY <1>2 DEF IsRun, Stamped, StampedAt
<1> QED
  BY <1>1, <1>2, <1>3 DEF IsPlace

\* A revert in progress.
LEMMA RevertKnown ==
  ASSUME TypeInv, cmd.kind = "revert"
  PROVE  /\ IsRevert(cmd) /\ IsSpec(file, entryIds) /\ cmd.spec = file /\ cmd.pc \in RevertPcs
         /\ cmd.date \in RevertDates /\ cmd.date \in Int /\ Reverted = DOMAIN file
<1>1. IsRevert(cmd) /\ IsSpec(file, entryIds)
  BY DEF TypeInv, CommandTyped, NoCommand
<1>2. cmd.spec = file /\ cmd.date \in RevertDates /\ cmd.pc \in RevertPcs
  BY <1>1 DEF IsRevert
<1> QED
  BY <1>1, <1>2, SimulatorAssumption DEF Reverted

\* A prune of the file.
LEMMA PruneEffect ==
  ASSUME TypeInv, Prune
  PROVE  /\ cmd.kind = "revert" /\ cmd.pc = "prune" /\ IsSpec(file, entryIds)
         /\ file' = PrunedFrom(file, cmd.date)
         /\ UNCHANGED <<entryIds, consented>>
<1>1. /\ cmd.kind = "revert" /\ cmd.pc = "prune" /\ UNCHANGED <<entryIds, consented>>
      /\ file' = Kept
  BY DEF Prune, Reverting, history
<1>2. IsSpec(file, entryIds) /\ cmd.spec = file
  BY <1>1, RevertKnown
<1> QED
  BY <1>1, <1>2 DEF Kept, PrunedFrom

\* What a step does to the file.
LEMMA FileSteps ==
  ASSUME TypeInv, Next
  PROVE  \/ UNCHANGED <<file, entryIds, consented>>
         \/ cmd = NoCommand /\ (Author \/ Bootstrap) /\ \E made : Adds(made)
         \/ Stamp
         \/ Prune
<1>1. CASE Author
  BY <1>1, AuthorAdds DEF TypeInv, FileTyped, Author, Issue, Idle
<1>2. CASE Bootstrap
  BY <1>2, BootstrapAdds DEF TypeInv, FileTyped, Bootstrap, Issue, Idle
<1> QED
  BY <1>1, <1>2, FileChanges

\* The file loads after every step, and identities are never given up.
LEMMA FileStays ==
  ASSUME TypeInv, Next
  PROVE  /\ FileTyped' /\ entryIds <= entryIds' /\ consented' \subseteq 1 .. entryIds'
         /\ consented \subseteq consented'
         /\ IsSpec(file, entryIds) => IsSpec(file', entryIds')
         /\ UNCHANGED <<file, entryIds>> \/ From(file', file, entryIds)
         /\ UNCHANGED <<file, entryIds>> \/ Stamp \/ Rests(file', file, entryIds)
         /\ \/ UNCHANGED file \/ (Prune /\ Into(file', file, cmd.date))
            \/ \A date : Into(file', file, date)
<1> USE DEF FileTyped, IsFile
<1>1. /\ entryIds \in Nat /\ consented \subseteq 1 .. entryIds
      /\ FileTyped
  BY DEF TypeInv, CountersTyped
<1>2. CASE UNCHANGED <<file, entryIds, consented>>
  BY <1>1, <1>2
<1>3. CASE cmd = NoCommand /\ \E made : Adds(made)
  <2>1. PICK made : Adds(made)
    BY <1>3
  <2>2. /\ entryIds' \in Nat /\ entryIds <= entryIds'
        /\ NewEntries(made, entryIds, entryIds') /\ file' = WithEntries(file, made)
        /\ consented \subseteq consented'
        /\ consented' \subseteq consented \cup (entryIds + 1 .. entryIds')
    BY <2>1 DEF Adds
  <2>3. /\ IsSpec(file', entryIds') /\ From(file', file, entryIds) /\ Rests(file', file, entryIds)
        /\ \A date : Into(file', file, date)
    BY <1>1, <2>2, AddedSpec
  <2>4. consented' \subseteq 1 .. entryIds'
    BY <1>1, <2>2
  <2> QED
    BY <2>2, <2>3, <2>4
<1>4. CASE Stamp
  <2>1. /\ IsSpec(file, entryIds) /\ cmd.at[1] \in DOMAIN file /\ cmd.at[2] \in DOMAIN file[cmd.at[1]]
        /\ file' = StampedAt(file, cmd.at[1], cmd.at[2])
        /\ UNCHANGED <<entryIds, consented>>
    BY <1>4, StampEffect
  <2>2. IsSpec(file', entryIds) /\ From(file', file, entryIds) /\ \A date : Into(file', file, date)
    BY <1>1, <2>1, StampedSpec
  <2> QED
    BY <1>1, <1>4, <2>1, <2>2
<1>5. CASE Prune
  <2>1. /\ IsSpec(file, entryIds) /\ file' = PrunedFrom(file, cmd.date)
        /\ UNCHANGED <<entryIds, consented>>
    BY <1>5, PruneEffect
  <2>2. /\ IsSpec(file', entryIds) /\ From(file', file, entryIds) /\ Rests(file', file, entryIds)
        /\ Into(file', file, cmd.date)
    BY <1>1, <2>1, PrunedSpec
  <2> QED
    BY <1>1, <1>5, <2>1, <2>2
<1> QED
  BY <1>2, <1>3, <1>4, <1>5, FileSteps

\* Narrative s is narrative r, whatever its date and whether it is active.
SameNarrative(s, r) ==
    s.row = r.row /\ s.account = r.account /\ s.entry = r.entry /\ s.week = r.week /\ s.read = r.read

\* Deactivating an account's narratives changes nothing else of them.
LEMMA DeactivatedRows ==
  ASSUME NarrativesTyped, NEW a
  PROVE  /\ Deactivated(a) \subseteq NarrativeRow
         /\ \A s \in Deactivated(a) : \E r \in narratives :
              /\ SameNarrative(s, r) /\ s.dated = r.dated
              /\ s.active => r.active /\ r.account # a
         /\ \A r \in narratives : \E s \in Deactivated(a) :
              SameNarrative(s, r) /\ s.dated = r.dated /\ (s.active => r.active)
<1> DEFINE of(r) == IF r.account = a THEN [r EXCEPT !.active = FALSE] ELSE r
<1>1. ASSUME NEW r \in narratives
      PROVE  /\ of(r) \in NarrativeRow /\ SameNarrative(of(r), r) /\ of(r).dated = r.dated
             /\ of(r).active => r.active /\ r.account # a
  <2>1. r \in NarrativeRow
    BY DEF NarrativesTyped
  <2>2. CASE r.account = a
    <3>1. of(r) = [r EXCEPT !.active = FALSE]
      BY <2>2
    <3> HIDE DEF of
    <3> QED
      BY <2>1, <3>1 DEF NarrativeRow, SameNarrative
  <2>3. CASE r.account # a
    <3>1. of(r) = r
      BY <2>3
    <3> HIDE DEF of
    <3> QED
      BY <2>1, <2>3, <3>1 DEF SameNarrative
  <2> QED
    BY <2>2, <2>3
<1>2. Deactivated(a) = {of(r) : r \in narratives}
  BY DEF Deactivated
<1> HIDE DEF of
<1> QED
  BY <1>1, <1>2

\* Deactivating narratives keeps their types.
LEMMA DeactivatedTyped ==
  ASSUME NarrativesTyped, entryIds \in Nat, UNCHANGED <<entryIds, rows>>,
         NEW a, narratives' = Deactivated(a)
  PROVE  NarrativesTyped'
<1> DEFINE of(r) == IF r.account = a THEN [r EXCEPT !.active = FALSE] ELSE r
<1>1. narratives' = {of(r) : r \in narratives}
  BY DEF Deactivated
<1>2. ASSUME NEW r \in narratives PROVE of(r).row = r.row
  <2>1. r \in NarrativeRow
    BY DEF NarrativesTyped
  <2> QED
    BY <2>1 DEF NarrativeRow
<1> HIDE DEF of
<1>3. \A s, t \in narratives' : s.row = t.row => s = t
  BY <1>1, <1>2 DEF NarrativesTyped
<1>4. narratives' \subseteq NarrativeRow
  BY DeactivatedRows
<1>5. NarrativeRow' = NarrativeRow
  BY DEF NarrativeRow
<1> QED
  BY <1>3, <1>4, <1>5 DEF NarrativesTyped

\* A new row with the next number keeps the types.
LEMMA InsertedTyped ==
  ASSUME NarrativesTyped, entryIds \in Nat, UNCHANGED entryIds, rows' = rows + 1,
         NEW new, new \in NarrativeRow', new.row = rows + 1, narratives' = narratives \cup {new}
  PROVE  NarrativesTyped'
<1>1. rows \in Nat /\ rows' \in Nat
  BY DEF NarrativesTyped
<1>2. \A r \in narratives : r \in NarrativeRow' /\ r.row # rows + 1
  BY <1>1 DEF NarrativesTyped, NarrativeRow
<1>3. \A r, s \in narratives' : r.row = s.row => r = s
  BY <1>2 DEF NarrativesTyped
<1> QED
  BY <1>1, <1>2, <1>3 DEF NarrativesTyped

\* The narratives with the one of a row dated.
Redated(n, day) == {IF r.row = n THEN [r EXCEPT !.dated = day] ELSE r : r \in narratives}

\* A backdate dates one row and leaves the others.
LEMMA BackdatedRows ==
  ASSUME NarrativesTyped, NEW day \in Int, NEW n
  PROVE  LET new == Redated(n, day)
         IN /\ new \subseteq NarrativeRow
            /\ \A s \in new : \E r \in narratives :
                 /\ SameNarrative(s, r) /\ s.active = r.active
                 /\ s.dated = IF r.row = n THEN day ELSE r.dated
            /\ \A r \in narratives : \E s \in new :
                 /\ SameNarrative(s, r) /\ s.active = r.active
                 /\ s.dated = IF r.row = n THEN day ELSE r.dated
            /\ \A s, t \in new : s.row = t.row => s = t
<1> DEFINE of(r) == IF r.row = n THEN [r EXCEPT !.dated = day] ELSE r
           new == Redated(n, day)
<1>1. new = {of(r) : r \in narratives}
  BY DEF Redated
<1>2. ASSUME NEW r \in narratives
      PROVE  /\ of(r) \in NarrativeRow /\ SameNarrative(of(r), r) /\ of(r).active = r.active
             /\ of(r).dated = IF r.row = n THEN day ELSE r.dated
  <2>1. r \in NarrativeRow
    BY DEF NarrativesTyped
  <2>2. CASE r.row = n
    <3>1. of(r) = [r EXCEPT !.dated = day]
      BY <2>2
    <3> HIDE DEF of
    <3> QED
      BY <2>1, <2>2, <3>1 DEF NarrativeRow, SameNarrative
  <2>3. CASE r.row # n
    <3>1. of(r) = r
      BY <2>3
    <3> HIDE DEF of
    <3> QED
      BY <2>1, <2>3, <3>1 DEF SameNarrative
  <2> QED
    BY <2>2, <2>3
<1> HIDE DEF of, new
<1>3. \A s, t \in new : s.row = t.row => s = t
  <2>1. \A r \in narratives : of(r).row = r.row
    BY <1>2 DEF SameNarrative
  <2> QED
    BY <1>1, <2>1 DEF NarrativesTyped
<1>4. new \subseteq NarrativeRow
  BY <1>1, <1>2
<1>5. \A s \in new : \E r \in narratives :
        /\ SameNarrative(s, r) /\ s.active = r.active
        /\ s.dated = IF r.row = n THEN day ELSE r.dated
  BY <1>1, <1>2
<1>6. \A r \in narratives : \E s \in new :
        /\ SameNarrative(s, r) /\ s.active = r.active
        /\ s.dated = IF r.row = n THEN day ELSE r.dated
  BY <1>1, <1>2
<1> QED
  BY <1>3, <1>4, <1>5, <1>6 DEF new, of

\* The week of a backdate ends on a day.
LEMMA BackdateEffect ==
  ASSUME TypeInv, Backdate
  PROVE  /\ cmd.kind = "run" /\ cmd.pc = "backdate"
         /\ cmd.week \in Weeks(Entry) /\ WeekEnd(Entry, cmd.week) \in Int
         /\ UNCHANGED <<file, entryIds, rows, finished, cut, commands, auditRuns, audits>>
         /\ \/ /\ narratives' = Redated(cmd.row, WeekEnd(Entry, cmd.week))
               /\ excused' = excused
            \/ /\ narratives' = narratives
               /\ excused' = excused \cup {<<Entry.id, cmd.week>>}
<1>1. cmd.kind = "run" /\ cmd.pc = "backdate"
  BY DEF Backdate, Now
<1>2. /\ Validates(Entry) /\ Entry.start \in Int /\ Entry.end \in Int
      /\ Weeks(Entry) = 1 .. Len(WeekStarts(Entry)) /\ Len(WeekStarts(Entry)) \in Nat
      /\ NWeeks \in Nat /\ NWeeks <= Len(WeekStarts(Entry)) /\ IsRun(cmd)
  BY <1>1, AtEntry DEF Working
<1>3. cmd.week \in Nat \ {0} /\ cmd.week <= NWeeks
  BY <1>1, <1>2 DEF TypeInv, PlacesKnown, Generating, IsRun
<1>4. cmd.week \in Weeks(Entry)
  BY <1>2, <1>3
<1>5. WeekEnd(Entry, cmd.week) \in Int
  BY <1>2, <1>4, WeeksCounted
<1>6. /\ UNCHANGED <<file, entryIds, rows, finished, cut, commands, auditRuns, audits>>
      /\ \/ /\ narratives' = Redated(cmd.row, WeekEnd(Entry, cmd.week))
            /\ excused' = excused
         \/ /\ narratives' = narratives
            /\ excused' = excused \cup {<<Entry.id, cmd.week>>}
  BY DEF Backdate, Redated
<1> QED
  BY <1>1, <1>4, <1>5, <1>6

\* The row a run inserts.
LEMMA InsertEffect ==
  ASSUME TypeInv, InsertNarrative
  PROVE  LET new == [row |-> rows + 1, account |-> Account, entry |-> Entry.id, week |-> cmd.week,
                     dated |-> Today, active |-> TRUE, read |-> cmd.got]
         IN /\ cmd.kind = "run" /\ cmd.pc = "insert"
            /\ rows' = rows + 1 /\ new \in NarrativeRow' /\ narratives' = narratives \cup {new}
            /\ new.row = rows + 1 /\ new.account = Account /\ new.entry = Entry.id
            /\ new.week = cmd.week /\ new.read = cmd.got /\ new.dated = Today
            /\ cmd.week \in Weeks(Entry)
            /\ Active(Account) = {}
            /\ UNCHANGED <<file, entryIds, excused, finished, cut, commands, auditRuns, audits, auditor>>
<1> DEFINE new == [row |-> rows + 1, account |-> Account, entry |-> Entry.id, week |-> cmd.week,
                   dated |-> Today, active |-> TRUE, read |-> cmd.got]
<1>1. /\ cmd.kind = "run" /\ cmd.pc = "insert" /\ rows' = rows + 1
      /\ narratives' = narratives \cup {new} /\ Active(Account) = {}
      /\ UNCHANGED <<file, entryIds, excused, finished, cut, commands, auditRuns, audits, auditor>>
  BY DEF InsertNarrative, Now, history
<1>2. /\ Account \in Accounts /\ Entry.id \in 1 .. entryIds /\ IsRun(cmd)
      /\ Weeks(Entry) = 1 .. Len(WeekStarts(Entry)) /\ Len(WeekStarts(Entry)) \in Nat
      /\ NWeeks \in Nat /\ NWeeks <= Len(WeekStarts(Entry))
  BY <1>1, AtEntry DEF Working
<1>3. cmd.week \in Nat \ {0} /\ cmd.week <= NWeeks /\ cmd.got \in Nat
  BY <1>1, <1>2 DEF TypeInv, PlacesKnown, Generating, IsRun
<1>4. rows \in Nat
  BY DEF TypeInv, NarrativesTyped
<1>5. new \in NarrativeRow'
  BY <1>1, <1>2, <1>3, <1>4, SimulatorAssumption DEF NarrativeRow
<1> QED
  BY <1>1, <1>2, <1>3, <1>5

\* The narratives have their types after every step, and no number is given up.
LEMMA NarrativesStay ==
  ASSUME TypeInv, Next
  PROVE  NarrativesTyped' /\ rows <= rows'
<1>1. NarrativesTyped /\ entryIds \in Nat /\ rows \in Nat
  BY DEF TypeInv, FileTyped, NarrativesTyped
<1>2. CASE UNCHANGED <<narratives, rows>>
  <2>1. entryIds' \in Nat /\ entryIds <= entryIds'
    BY FileStays DEF FileTyped
  <2>2. NarrativeRow \subseteq NarrativeRow'
    BY <1>1, <1>2, <2>1 DEF NarrativeRow
  <2> QED
    BY <1>1, <1>2, <2>2 DEF NarrativesTyped
<1>3. CASE Supersede
  <2>1. UNCHANGED <<entryIds, rows>> /\ narratives' = Deactivated(Account)
    BY <1>3 DEF Supersede
  <2> QED
    BY <1>1, <2>1, DeactivatedTyped
<1>4. CASE InsertNarrative
  <2> DEFINE new == [row |-> rows + 1, account |-> Account, entry |-> Entry.id, week |-> cmd.week,
                     dated |-> Today, active |-> TRUE, read |-> cmd.got]
  <2>1. /\ rows' = rows + 1 /\ new \in NarrativeRow' /\ narratives' = narratives \cup {new}
        /\ new.row = rows + 1 /\ UNCHANGED entryIds
    BY <1>4, InsertEffect
  <2> HIDE DEF new
  <2> QED
    BY <1>1, <2>1, InsertedTyped
<1>5. CASE Backdate
  <2> DEFINE new == Redated(cmd.row, WeekEnd(Entry, cmd.week))
  <2>1. /\ WeekEnd(Entry, cmd.week) \in Int /\ UNCHANGED <<entryIds, rows>>
        /\ narratives' = new \/ narratives' = narratives
    BY <1>5, BackdateEffect
  <2>2. NarrativeRow' = NarrativeRow
    BY <2>1 DEF NarrativeRow
  <2>3. new \subseteq NarrativeRow /\ \A s, t \in new : s.row = t.row => s = t
    BY <1>1, <2>1, BackdatedRows
  <2> HIDE DEF new
  <2> QED
    BY <1>1, <2>1, <2>2, <2>3 DEF NarrativesTyped
<1>6. CASE DeleteNarratives
  <2>1. UNCHANGED <<entryIds, rows>> /\ narratives' \subseteq narratives
    BY <1>6 DEF DeleteNarratives
  <2>2. NarrativeRow' = NarrativeRow
    BY <2>1 DEF NarrativeRow
  <2> QED
    BY <1>1, <2>1, <2>2 DEF NarrativesTyped
<1>7. CASE WorkerSupersedes
  <2>1. UNCHANGED <<entryIds, rows>> /\ \E a \in due : narratives' = Deactivated(a)
    BY <1>7 DEF WorkerSupersedes
  <2> QED
    BY <1>1, <2>1, DeactivatedTyped
<1>8. CASE WorkerInserts
  <2> DEFINE new == [row |-> rows + 1, account |-> worker, entry |-> Null, week |-> 0,
                     dated |-> Today, active |-> TRUE, read |-> 0]
  <2>1. /\ UNCHANGED entryIds /\ worker # Null
        /\ \/ UNCHANGED <<narratives, rows>>
           \/ rows' = rows + 1 /\ narratives' = narratives \cup {new}
    BY <1>8 DEF WorkerInserts
  <2>2. CASE UNCHANGED <<narratives, rows>>
    BY <1>2, <2>2
  <2>3. CASE rows' = rows + 1 /\ narratives' = narratives \cup {new}
    <3>1. worker \in Accounts
      BY <2>1 DEF TypeInv, CountersTyped
    <3>2. new \in NarrativeRow' /\ new.row = rows + 1
      BY <1>1, <2>3, <3>1, SimulatorAssumption DEF NarrativeRow
    <3> HIDE DEF new
    <3> QED
      BY <1>1, <2>1, <2>3, <3>2, InsertedTyped
  <2> QED
    BY <2>1, <2>2, <2>3
<1> QED
  BY <1>1, <1>2, <1>3, <1>4, <1>5, <1>6, <1>7, <1>8, NarrativeChanges

\* An insert writes to the tables of its account's scores, or not.
LEMMA ScoresWritten ==
  ASSUME InsertNarrative
  PROVE  scored' \subseteq scored \cup ({"scores", "snapshots"} \X {Account})
<1> DEFINE New == {"scores", "snapshots"} \X {Account}
<1>1. \/ scored' = scored \cup New
      \/ scored' \in {scored, scored \cup {<<"scores", Account>>}}
  BY Zenon DEF InsertNarrative
<1>2. <<"scores", Account>> \in New
  OBVIOUS
<1> HIDE DEF New
<1>3. scored' \subseteq scored \cup New
  BY ONLY <1>1, <1>2
<1> QED
  BY <1>3 DEF New

\* What a step may change of the counters and of the other tables.
LEMMA CounterChanges ==
  ASSUME Next
  PROVE  /\ \/ UNCHANGED <<commands, snapshots>>
            \/ /\ commands + snapshots < MaxEvents
               /\ \/ cmd = NoCommand /\ commands' = commands + 1 /\ snapshots' = snapshots
                  \/ commands' = commands /\ snapshots' = snapshots + 1
         /\ cut' = cut \/ \E d \in RevertDates : cut' = Min({cut, d})
         /\ finished' = finished \/ (Stamp /\ finished' = finished \cup {Entry.id})
         /\ \/ scored' \subseteq scored
            \/ /\ InsertNarrative
               /\ scored' \subseteq scored \cup ({"scores", "snapshots"} \X {Account})
         /\ \/ UNCHANGED <<due, worker>>
            \/ IngestSignal /\ due' \subseteq due \cup {Account} /\ worker' = worker
            \/ due' \subseteq due /\ worker' \in due \cup {Null}
         /\ \/ signals' \subseteq signals
            \/ /\ IngestSignal
               /\ signals' = signals \cup {[key |-> Key(Account, Entry, cmd.week, cmd.events[cmd.next]),
                                            day |-> cmd.events[cmd.next].day]}
<1> USE DEF Next, Works, Issue, Idle, Author, Bootstrap, Stamp, Prune, Run, Resume, Revert, Audit,
      NextEntry, NextWeek, IngestSignal, Supersede, InsertNarrative, InsertConflict, ReadWinner,
      Backdate, AuditReturns, DeleteAudits, DeleteAuditRuns, DeleteSignals, DeleteNarratives,
      DeleteScores,
      DeleteSnapshots, AuditNext, Collect, AuditExits, Audits, IngestClash, AttemptFails,
      AuditCallFails, Crash, WorkerSupersedes, WorkerInserts, production, history, tables
<1>1. \/ UNCHANGED <<commands, snapshots>>
      \/ /\ commands + snapshots < MaxEvents
         /\ \/ cmd = NoCommand /\ commands' = commands + 1 /\ snapshots' = snapshots
            \/ commands' = commands /\ snapshots' = snapshots + 1
  OBVIOUS
<1>2. cut' = cut \/ \E d \in RevertDates : cut' = Min({cut, d})
  OBVIOUS
<1>3. finished' = finished \/ (Stamp /\ finished' = finished \cup {Entry.id})
  OBVIOUS
<1>4. \/ scored' \subseteq scored
      \/ /\ InsertNarrative
         /\ scored' \subseteq scored \cup ({"scores", "snapshots"} \X {Account})
  <2>1. InsertNarrative => scored' \subseteq scored \cup ({"scores", "snapshots"} \X {Account})
    BY ONLY ScoresWritten
  <2>2. DeleteScores \/ DeleteSnapshots => scored' \subseteq scored
    BY DEF DeleteScores, DeleteSnapshots, Cleared
  <2>3. ~(InsertNarrative \/ DeleteScores \/ DeleteSnapshots) => scored' = scored
    OBVIOUS
  <2> QED
    BY ONLY <2>1, <2>2, <2>3
<1>5. \/ UNCHANGED <<due, worker>>
      \/ IngestSignal /\ due' \subseteq due \cup {Account} /\ worker' = worker
      \/ due' \subseteq due /\ worker' \in due \cup {Null}
  OBVIOUS
<1>6. \/ signals' \subseteq signals
      \/ /\ IngestSignal
         /\ signals' = signals \cup {[key |-> Key(Account, Entry, cmd.week, cmd.events[cmd.next]),
                                      day |-> cmd.events[cmd.next].day]}
  OBVIOUS
<1> QED
  BY ONLY <1>1, <1>2, <1>3, <1>4, <1>5, <1>6

\* The counters and the other tables have their types after every step.
LEMMA CountersStay ==
  ASSUME TypeInv, Next
  PROVE  /\ CountersTyped' /\ commands <= commands'
         /\ cmd # NoCommand => commands' = commands
<1>1. /\ CountersTyped /\ entryIds \in Nat /\ entryIds' \in Nat /\ entryIds <= entryIds'
      /\ consented' \subseteq 1 .. entryIds'
  BY FileStays DEF TypeInv, FileTyped
<1>2. /\ commands' \in Nat /\ snapshots' \in Nat /\ commands' + snapshots' \in 0 .. MaxEvents
      /\ commands <= commands'
      /\ cmd # NoCommand => commands' = commands
  <2>1. /\ commands \in Nat /\ snapshots \in Nat /\ commands + snapshots \in 0 .. MaxEvents
        /\ MaxEvents \in Nat
    BY <1>1, SimulatorAssumption DEF CountersTyped
  <2> QED
    BY <2>1, CounterChanges
<1>3. cut' \in Int
  <2>1. cut \in Int /\ RevertDates \subseteq Int
    BY <1>1, SimulatorAssumption DEF CountersTyped
  <2>2. cut' = cut \/ \E d \in RevertDates : cut' = Min({cut, d})
    BY CounterChanges
  <2> QED
    BY <2>1, <2>2, OfTwo
<1>4. finished' \subseteq 1 .. entryIds'
  <2>1. Stamp => Entry.id \in 1 .. entryIds
    BY AtEntry DEF Stamp, Now, Working
  <2>2. finished' = finished \/ (Stamp /\ finished' = finished \cup {Entry.id})
    BY CounterChanges
  <2>3. finished' \subseteq 1 .. entryIds
    BY <1>1, <2>1, <2>2 DEF CountersTyped
  <2>4. 1 .. entryIds \subseteq 1 .. entryIds'
    BY <1>1
  <2> QED
    BY <2>3, <2>4
<1>5. scored' \subseteq {"scores", "snapshots"} \X Accounts
  <2>1. InsertNarrative => Account \in Accounts
    BY AtEntry DEF InsertNarrative, Now, Working
  <2>2. \/ scored' \subseteq scored
        \/ /\ InsertNarrative
           /\ scored' \subseteq scored \cup ({"scores", "snapshots"} \X {Account})
    BY CounterChanges
  <2> QED
    BY <1>1, <2>1, <2>2 DEF CountersTyped
<1>6. IngestSignal => Account \in Accounts /\ Entry.seed \in Seeds
  BY AtEntry DEF IngestSignal, Now, Working
<1>7. due' \subseteq Accounts /\ worker' \in Accounts \cup {Null}
  <2>1. \/ UNCHANGED <<due, worker>>
        \/ IngestSignal /\ due' \subseteq due \cup {Account} /\ worker' = worker
        \/ due' \subseteq due /\ worker' \in due \cup {Null}
    BY CounterChanges
  <2> QED
    BY <1>1, <1>6, <2>1 DEF CountersTyped
<1>8. \A s \in signals' : s.key.account \in Accounts /\ s.key.seed \in Seeds
  <2>1. \/ signals' \subseteq signals
        \/ /\ IngestSignal
           /\ signals' = signals \cup {[key |-> Key(Account, Entry, cmd.week, cmd.events[cmd.next]),
                                        day |-> cmd.events[cmd.next].day]}
    BY CounterChanges
  <2>2. \A event : /\ Key(Account, Entry, cmd.week, event).account = Account
                   /\ Key(Account, Entry, cmd.week, event).seed = Entry.seed
    BY DEF Key
  <2> QED
    BY <1>1, <1>6, <2>1, <2>2 DEF CountersTyped
<1> QED
  BY <1>1, <1>2, <1>3, <1>4, <1>5, <1>7, <1>8 DEF CountersTyped

-----------------------------------------------------------------------------
(* The command in progress keeps its type. *)

\* The places a run is asked for are places of its spec.
LEMMA PlacesAsked ==
  ASSUME NEW spec, NEW n \in Nat, IsSpec(spec, n), NEW o, NEW x \in Places(spec, o)
  PROVE  x \in Accounts \X Nat /\ x[1] \in DOMAIN spec /\ x[2] \in DOMAIN spec[x[1]]
<1>1. PICK a \in DOMAIN spec : x \in {a} \X DOMAIN spec[a]
  BY DEF Places
<1>2. x = <<x[1], x[2]>> /\ x[1] = a /\ x[2] \in DOMAIN spec[a]
  BY <1>1
<1>3. a \in Accounts /\ DOMAIN spec[a] \subseteq Nat
  BY EntryKnown
<1> QED
  BY <1>2, <1>3

\* A run as it starts.
LEMMA RunStarts ==
  ASSUME FileTyped', IsSpec(file', entryIds'), commands' \in Nat, NEW o \in Options,
         cmd' = Running(file', o)
  PROVE  CommandTyped' /\ PlacesKnown'
<1>1. PendingOf(file', o) \subseteq Places(file', o)
  BY DEF PendingOf
<1>2. \A x \in PendingOf(file', o) : IsPlace(x)'
  BY <1>1, PlacesAsked DEF IsPlace, FileTyped
<1>3. PendingOf(file', o) \subseteq Accounts \X Nat
  BY <1>2 DEF IsPlace
<1> DEFINE queue == PendingOf(file', o)
<1>4. cmd' = [kind |-> "run", pc |-> "next", run |-> commands', spec |-> file', opts |-> o,
              queue |-> queue, at |-> Null, week |-> 1, attempt |-> 0, events |-> <<>>,
              next |-> 1, got |-> 0, row |-> 0]
  BY DEF Running
<1> HIDE DEF queue
<1>5. IsRun(cmd)' /\ cmd'.kind = "run" /\ cmd'.queue = queue /\ cmd'.pc = "next"
  BY <1>3, <1>4 DEF IsRun, RunPcs, queue
<1>6. CommandTyped'
  BY <1>5 DEF CommandTyped
<1>7. PlacesKnown'
  BY <1>2, <1>5 DEF PlacesKnown, Working, Generating, queue
<1> QED
  BY <1>6, <1>7

\* The options of a resumed run and of one that an author asked for.
LEMMA DefaultKnown == DefaultOptions \in Options
BY DEF DefaultOptions, Options

\* Those of a run command.
LEMMA OptionsKnown == RunOptions \subseteq Options
BY SimulatorAssumption DEF Options

\* A run goes from one step to the next: its spec, options, queue and place stay.
Moved(c) ==
    c \in [kind : {"run"}, pc : RunPcs, run : {cmd.run}, spec : {cmd.spec}, opts : {cmd.opts},
           queue : {cmd.queue}, at : {cmd.at}, week : Nat \ {0}, attempt : Nat,
           events : {c.events}, next : Nat, got : Nat, row : Nat]

\* What a step of a run makes sure of.
Moving == /\ Moved(cmd')
          /\ cmd'.pc \in Working => cmd.pc \in Working
          /\ cmd'.pc \in Generating => ~cmd.opts.dry /\ cmd'.week <= NWeeks
          /\ cmd'.pc = "ingest" => cmd'.events = Events(Entry, cmd'.week)
          /\ cmd'.pc = "stamp" => cmd'.week > NWeeks
          /\ cmd'.pc = "audit" => Backdate

\* The number of weeks a run goes through is that of its place and its options.
LEMMA MovedOn ==
  ASSUME TypeInv, cmd.kind = "run", UNCHANGED <<file, entryIds, commands>>, Moving
  PROVE  CommandTyped' /\ PlacesKnown'
<1>1. IsRun(cmd) /\ IsSpec(file, entryIds)
  BY DEF TypeInv, CommandTyped, NoCommand
<1>2. /\ cmd'.kind = "run" /\ cmd'.spec = cmd.spec /\ cmd'.at = cmd.at /\ cmd'.opts = cmd.opts
      /\ cmd'.queue = cmd.queue
  BY DEF Moved, Moving
<1>3. NWeeks' = NWeeks /\ Entry' = Entry
  BY <1>2 DEF NWeeks, Entry
<1>4. IsRun(cmd)'
  BY <1>1 DEF Moved, IsRun, Moving
<1>5. CommandTyped'
  BY <1>1, <1>2, <1>4 DEF CommandTyped
<1>6. PlacesKnown'
  <2>1. /\ \A x \in cmd.queue : IsPlace(x)
        /\ cmd.pc \in Working => IsPlace(cmd.at) /\ cmd.at \notin cmd.queue
    BY DEF TypeInv, PlacesKnown
  <2>2. \A x : IsPlace(x)' <=> IsPlace(x)
    BY DEF IsPlace
  <2>3. /\ \A x \in cmd'.queue : IsPlace(x)'
        /\ cmd'.pc \in Working => IsPlace(cmd.at)' /\ cmd'.at \notin cmd'.queue
    BY <1>2, <2>1, <2>2 DEF Moving
  <2> QED
    BY <1>2, <1>3, <2>3 DEF Moving, PlacesKnown
<1> QED
  BY <1>5, <1>6

\* What a run keeps in hand at one of its steps.
LEMMA RunKnown ==
  ASSUME TypeInv, cmd.kind = "run"
  PROVE  /\ IsRun(cmd) /\ IsSpec(file, entryIds) /\ cmd.pc \in RunPcs /\ cmd.spec = file
         /\ cmd.opts \in Options /\ cmd.queue \subseteq Accounts \X Nat
         /\ cmd.week \in Nat \ {0} /\ cmd.attempt \in Nat /\ cmd.next \in Nat /\ cmd.got \in Nat
         /\ cmd.row \in Nat /\ cmd.run \in 0 .. commands
         /\ cmd.opts.retries \in Nat /\ cmd.opts.dry \in BOOLEAN
<1>1. IsRun(cmd) /\ IsSpec(file, entryIds)
  BY DEF TypeInv, CommandTyped, NoCommand
<1>2. /\ cmd.pc \in RunPcs /\ cmd.spec = file /\ cmd.opts \in Options
      /\ cmd.queue \subseteq Accounts \X Nat
      /\ cmd.week \in Nat \ {0} /\ cmd.attempt \in Nat /\ cmd.next \in Nat /\ cmd.got \in Nat
      /\ cmd.row \in Nat /\ cmd.run \in 0 .. commands
  BY <1>1 DEF IsRun
<1>3. cmd.opts.retries \in Nat /\ cmd.opts.dry \in BOOLEAN
  BY <1>2 DEF Options
<1> QED
  BY <1>1, <1>2, <1>3

\* Setting the run's step.
LEMMA StepMoves ==
  ASSUME TypeInv, cmd.kind = "run", NEW pc \in RunPcs, cmd' = [cmd EXCEPT !.pc = pc]
  PROVE  Moved(cmd') /\ cmd'.pc = pc /\ cmd'.week = cmd.week /\ cmd'.events = cmd.events
<1>1. IsRun(cmd)
  BY RunKnown
<1> QED
  BY <1>1 DEF IsRun, Moved

\* Beginning a week's attempt.
LEMMA AttemptMoves ==
  ASSUME TypeInv, cmd.kind = "run", NEW n \in Nat, cmd' = Attempt(n)
  PROVE  /\ Moved(cmd') /\ cmd'.pc = "ingest" /\ cmd'.week = cmd.week
         /\ cmd'.events = Events(Entry, cmd.week) /\ cmd'.next = 1 /\ cmd'.got = 0
<1> DEFINE events == Events(Entry, cmd.week)
           c1 == [cmd EXCEPT !.pc = "ingest", !.attempt = n]
           c2 == [c1 EXCEPT !.next = 1, !.got = 0]
<1>1. IsRun(cmd)
  BY RunKnown
<1>2. cmd' = [c2 EXCEPT !.row = 0, !.events = events]
  BY DEF Attempt
<1> HIDE DEF events
<1>3. Moved(c1) /\ c1.pc = "ingest" /\ c1.week = cmd.week
  BY <1>1 DEF IsRun, Moved, RunPcs
<1> HIDE DEF c1
<1>4. Moved(c2) /\ c2.pc = "ingest" /\ c2.week = cmd.week /\ c2.next = 1 /\ c2.got = 0
  BY <1>3 DEF Moved
<1> HIDE DEF c2
<1>5. /\ Moved(cmd') /\ cmd'.pc = "ingest" /\ cmd'.week = cmd.week /\ cmd'.events = events
      /\ cmd'.next = 1 /\ cmd'.got = 0
  BY <1>2, <1>4 DEF Moved
<1> QED
  BY <1>5 DEF events

\* Being done with a week.
LEMMA WeekDoneMoves ==
  ASSUME TypeInv, cmd.kind = "run", cmd' = WeekDone
  PROVE  Moved(cmd') /\ cmd'.pc = "week" /\ cmd'.week = cmd.week + 1
<1> DEFINE c1 == [cmd EXCEPT !.week = cmd.week + 1]
           c2 == [c1 EXCEPT !.pc = "week"]
<1>1. IsRun(cmd) /\ cmd.week + 1 \in Nat \ {0}
  BY RunKnown
<1>2. cmd' = [c2 EXCEPT !.events = <<>>]
  BY DEF WeekDone
<1>3. Moved(c1) /\ c1.week = cmd.week + 1
  BY <1>1 DEF IsRun, Moved
<1> HIDE DEF c1
<1>4. Moved(c2) /\ c2.week = cmd.week + 1 /\ c2.pc = "week"
  BY <1>3 DEF Moved, RunPcs
<1> HIDE DEF c2
<1> QED
  BY <1>2, <1>4 DEF Moved

AtEvent(n, g) == [cmd EXCEPT !.next = n, !.got = g]
AtRow(n) == [cmd EXCEPT !.pc = "backdate", !.row = n]

\* Going through a week's events.
LEMMA EventMoves ==
  ASSUME TypeInv, cmd.kind = "run", NEW n \in Nat, NEW g \in Nat, cmd' = AtEvent(n, g)
  PROVE  /\ Moved(cmd') /\ cmd'.pc = cmd.pc /\ cmd'.week = cmd.week /\ cmd'.events = cmd.events
         /\ cmd'.next = n /\ cmd'.got = g
<1> DEFINE c1 == [cmd EXCEPT !.next = n]
<1>1. IsRun(cmd)
  BY RunKnown
<1>2. cmd' = [c1 EXCEPT !.got = g]
  BY DEF AtEvent
<1>3. /\ Moved(c1) /\ c1.pc = cmd.pc /\ c1.week = cmd.week /\ c1.events = cmd.events
      /\ c1.next = n
  BY <1>1 DEF IsRun, Moved
<1> HIDE DEF c1
<1> QED
  BY <1>2, <1>3 DEF Moved

\* Going on to backdate a row.
LEMMA RowMoves ==
  ASSUME TypeInv, cmd.kind = "run", NEW n \in Nat, cmd' = AtRow(n)
  PROVE  Moved(cmd') /\ cmd'.pc = "backdate" /\ cmd'.week = cmd.week /\ cmd'.row = n
<1> DEFINE c1 == [cmd EXCEPT !.pc = "backdate"]
<1>1. IsRun(cmd)
  BY RunKnown
<1>2. cmd' = [c1 EXCEPT !.row = n]
  BY DEF AtRow
<1>3. Moved(c1) /\ c1.pc = "backdate" /\ c1.week = cmd.week
  BY <1>1 DEF IsRun, Moved, RunPcs
<1> HIDE DEF c1
<1> QED
  BY <1>2, <1>3 DEF Moved

\* A step of a run keeps the command's type and its places.
LEMMA RunMoves ==
  ASSUME TypeInv,
         \/ NextWeek \/ IngestSignal \/ IngestClash \/ Supersede \/ InsertNarrative
         \/ InsertConflict \/ ReadWinner \/ Backdate \/ AuditReturns \/ AttemptFails
  PROVE  Moving /\ cmd.kind = "run" /\ UNCHANGED <<file, entryIds, commands>>
<1>1. cmd.kind = "run" /\ UNCHANGED <<file, entryIds, commands>>
  BY DEF NextWeek, IngestSignal, IngestClash, Supersede, InsertNarrative, InsertConflict, ReadWinner,
     Backdate, AuditReturns, AttemptFails, Now
<1>2. /\ cmd.pc \in RunPcs /\ cmd.week \in Nat \ {0} /\ cmd.attempt \in Nat /\ cmd.next \in Nat
      /\ cmd.got \in Nat /\ cmd.opts.retries \in Nat /\ IsRun(cmd)
  BY <1>1, RunKnown
<1>3. /\ cmd.pc \in Generating => ~cmd.opts.dry /\ cmd.week <= NWeeks
      /\ cmd.pc = "ingest" => cmd.events = Events(Entry, cmd.week)
  BY <1>1 DEF TypeInv, PlacesKnown
<1>4. ASSUME NEW pc \in RunPcs, cmd' = [cmd EXCEPT !.pc = pc],
             cmd.pc \in Generating, pc \in Generating, pc # "ingest", pc = "audit" => Backdate
      PROVE  Moving
  <2>1. Moved(cmd') /\ cmd'.pc = pc /\ cmd'.week = cmd.week
    BY <1>1, <1>4, StepMoves
  <2> QED
    BY <1>3, <1>4, <2>1 DEF Moving, Working, Generating
<1>5. ASSUME cmd' = WeekDone, cmd.pc \in Generating
      PROVE  Moving
  <2>1. Moved(cmd') /\ cmd'.pc = "week"
    BY <1>1, <1>5, WeekDoneMoves
  <2> QED
    BY <1>5, <2>1 DEF Moving, Working, Generating
<1>6. ASSUME NextWeek PROVE Moving
  <2>1. cmd.pc = "week" /\ cmd' = IF cmd.week > NWeeks THEN [cmd EXCEPT !.pc = "stamp"]
                                  ELSE IF cmd.opts.dry THEN [cmd EXCEPT !.week = @ + 1]
                                  ELSE Attempt(0)
    BY <1>6 DEF NextWeek, Now
  <2>2. CASE cmd.week > NWeeks
    <3>1. cmd' = [cmd EXCEPT !.pc = "stamp"]
      BY <2>1, <2>2
    <3>2. Moved(cmd') /\ cmd'.pc = "stamp" /\ cmd'.week = cmd.week
      BY <1>1, <3>1, StepMoves DEF RunPcs
    <3> QED
      BY <2>1, <2>2, <3>2 DEF Moving, Working, Generating
  <2>3. CASE ~(cmd.week > NWeeks) /\ cmd.opts.dry
    <3>1. cmd' = [cmd EXCEPT !.week = @ + 1]
      BY <2>1, <2>3
    <3>2. Moved(cmd') /\ cmd'.pc = "week"
      BY <1>2, <2>1, <3>1 DEF IsRun, Moved
    <3> QED
      BY <2>1, <3>2 DEF Moving, Working, Generating
  <2>4. CASE ~(cmd.week > NWeeks) /\ ~cmd.opts.dry
    <3>1. cmd' = Attempt(0)
      BY <2>1, <2>4
    <3>2. /\ Moved(cmd') /\ cmd'.pc = "ingest" /\ cmd'.week = cmd.week
          /\ cmd'.events = Events(Entry, cmd.week)
      BY <1>1, <3>1, AttemptMoves
    <3>3. cmd'.week <= NWeeks
      <4>1. NWeeks \in Nat
        BY <1>1, <2>1, AtEntry DEF Working
      <4> QED
        BY <1>2, <2>4, <3>2, <4>1
    <3> QED
      BY <2>1, <2>4, <3>2, <3>3 DEF Moving, Working, Generating
  <2> QED
    BY <2>2, <2>3, <2>4
<1>7. ASSUME IngestSignal PROVE Moving
  <2>1. cmd.pc = "ingest" /\ cmd' = AtEvent(cmd.next + 1, cmd.got + 1)
    BY <1>7 DEF IngestSignal, Now, Returned, AtEvent
  <2>2. Moved(cmd') /\ cmd'.pc = "ingest" /\ cmd'.week = cmd.week /\ cmd'.events = cmd.events
    <3>1. cmd.next + 1 \in Nat /\ cmd.got + 1 \in Nat
      BY <1>2
    <3> QED
      BY <1>1, <2>1, <3>1, EventMoves
  <2> QED
    BY <1>3, <2>1, <2>2 DEF Moving, Working, Generating
<1>8. ASSUME IngestClash PROVE Moving
  <2>1. cmd.pc = "ingest" /\ cmd' = AtEvent(Len(cmd.events) + 1, 0)
    BY <1>8 DEF IngestClash, Now, AtEvent
  <2>2. Len(cmd.events) \in Nat
    <3>1. Entry.seed.salt \in Salts /\ cmd.events = Events(Entry, cmd.week)
      BY <1>1, <1>3, <2>1, AtEntry DEF Working
    <3> QED
      BY <3>1, EventsCounted
  <2>3. Moved(cmd') /\ cmd'.pc = "ingest" /\ cmd'.week = cmd.week /\ cmd'.events = cmd.events
    <3>1. Len(cmd.events) + 1 \in Nat
      BY <2>2
    <3> QED
      BY <1>1, <2>1, <3>1, EventMoves
  <2> QED
    BY <1>3, <2>1, <2>3 DEF Moving, Working, Generating
<1>9. ASSUME Supersede PROVE Moving
  BY <1>4, <1>9 DEF Supersede, Now, Goto, RunPcs, Generating
<1>10. ASSUME InsertNarrative PROVE Moving
  <2>1. cmd.pc = "insert" /\ cmd' = AtRow(rows + 1)
    BY <1>10 DEF InsertNarrative, Now, AtRow
  <2>2. rows + 1 \in Nat
    BY DEF TypeInv, NarrativesTyped
  <2>3. Moved(cmd') /\ cmd'.pc = "backdate" /\ cmd'.week = cmd.week
    BY <1>1, <2>1, <2>2, RowMoves
  <2> QED
    BY <1>3, <2>1, <2>3 DEF Moving, Working, Generating
<1>11. ASSUME InsertConflict PROVE Moving
  BY <1>4, <1>11 DEF InsertConflict, Now, Goto, RunPcs, Generating
<1>12. ASSUME ReadWinner PROVE Moving
  <2> DEFINE won == (CHOOSE r \in Active(Account) : TRUE).row
  <2>1. cmd.pc = "conflict" /\ cmd' = IF Active(Account) = {} THEN WeekDone
                                      ELSE AtRow(won)
    BY <1>12 DEF ReadWinner, Now, AtRow
  <2>2. CASE Active(Account) = {}
    BY <1>5, <2>1, <2>2 DEF Generating
  <2>3. CASE Active(Account) # {}
    <3>1. won \in Nat
      <4>1. (CHOOSE r \in Active(Account) : TRUE) \in narratives
        BY <2>3 DEF Active
      <4>2. \A r \in narratives : r.row \in 1 .. rows
        BY DEF TypeInv, NarrativesTyped, NarrativeRow
      <4> QED
        BY <4>1, <4>2
    <3> HIDE DEF won
    <3>2. cmd' = AtRow(won)
      BY <2>1, <2>3
    <3>3. Moved(cmd') /\ cmd'.pc = "backdate" /\ cmd'.week = cmd.week
      BY <1>1, <3>1, <3>2, RowMoves
    <3> QED
      BY <1>3, <2>1, <3>3 DEF Moving, Working, Generating
  <2> QED
    BY <2>2, <2>3
<1>13. ASSUME Backdate PROVE Moving
  <2>1. cmd.pc = "backdate" /\ cmd' \in {[cmd EXCEPT !.pc = "audit"], WeekDone}
    BY <1>13 DEF Backdate, Now, Written
  <2>2. CASE cmd' = WeekDone
    BY <1>5, <2>1, <2>2 DEF Generating
  <2>3. CASE cmd' = [cmd EXCEPT !.pc = "audit"]
    BY <1>4, <1>13, <2>1, <2>3 DEF RunPcs, Generating
  <2> QED
    BY <2>1, <2>2, <2>3
<1>14. ASSUME AuditReturns PROVE Moving
  BY <1>5, <1>14 DEF AuditReturns, Now, Generating
<1>15. ASSUME AttemptFails PROVE Moving
  <2>1. cmd.pc \in {"ingest", "insert", "conflict", "backdate"} /\ cmd' = AfterFailure
    BY <1>15 DEF AttemptFails
  <2>2. CASE cmd.attempt < cmd.opts.retries
    <3>1. cmd' = Attempt(cmd.attempt + 1) /\ cmd.attempt + 1 \in Nat
      BY <1>2, <2>1, <2>2 DEF AfterFailure
    <3>2. /\ Moved(cmd') /\ cmd'.pc = "ingest" /\ cmd'.week = cmd.week
          /\ cmd'.events = Events(Entry, cmd.week)
      BY <1>1, <3>1, AttemptMoves
    <3> QED
      BY <1>3, <2>1, <3>2 DEF Moving, Working, Generating
  <2>3. CASE ~(cmd.attempt < cmd.opts.retries)
    <3>1. cmd' = [cmd EXCEPT !.pc = "next", !.events = <<>>]
      BY <2>1, <2>3 DEF AfterFailure
    <3>2. Moved(cmd') /\ cmd'.pc = "next"
      BY <1>2, <3>1 DEF IsRun, Moved, RunPcs
    <3> QED
      BY <3>2 DEF Moving, Working, Generating
  <2> QED
    BY <2>2, <2>3
<1> QED
  BY <1>1, <1>6, <1>7, <1>8, <1>9, <1>10, <1>11, <1>12, <1>13, <1>14, <1>15

\* An added entry makes a file of none.
LEMMA AddsSpec ==
  ASSUME FileTyped, NEW made, Adds(made)
  PROVE  IsSpec(file', entryIds')
<1>1. /\ entryIds \in Nat /\ entryIds' \in Nat /\ entryIds <= entryIds' /\ IsFile(file, entryIds)
      /\ NewEntries(made, entryIds, entryIds') /\ file' = WithEntries(file, made)
  BY DEF Adds, FileTyped
<1> QED
  BY <1>1, AddedSpec

\* What a step may do to the command in progress.
LEMMA CommandChanges ==
  ASSUME Next
  PROVE  \/ cmd' = NoCommand
         \/ Author /\ cmd' = Running(file', DefaultOptions)
         \/ Run \/ Resume \/ Revert \/ Audit
         \/ NextEntry /\ cmd.queue # {}
         \/ NextWeek \/ IngestSignal \/ IngestClash \/ Supersede \/ InsertNarrative
         \/ InsertConflict \/ ReadWinner \/ Backdate \/ AuditReturns \/ AttemptFails
         \/ Stamp
         \/ DeleteAudits \/ DeleteAuditRuns \/ DeleteSignals \/ DeleteNarratives \/ DeleteScores
         \/ DeleteSnapshots
         \/ AuditNext \/ Collect
         \/ cmd # NoCommand /\ UNCHANGED <<file, entryIds, cmd>>
<1>1. Author => cmd' = NoCommand \/ cmd' = Running(file', DefaultOptions)
  BY DEF Author, SaveAuthored
<1>2. Bootstrap => cmd' = NoCommand
  BY DEF Bootstrap, Issue, Idle
<1>3. NextEntry /\ cmd.queue = {} => cmd' = NoCommand
  BY DEF NextEntry, Finish
<1>4. Prune \/ AuditExits \/ Crash => cmd' = NoCommand
  BY DEF Prune, AuditExits, Returns, Crash, Finish
<1>5. Audits \/ AuditCallFails \/ WorkerSupersedes \/ WorkerInserts =>
        UNCHANGED <<file, entryIds, cmd>>
  BY DEF Audits, AuditCallFails, WorkerSupersedes, WorkerInserts
<1> QED
  BY <1>1, <1>2, <1>3, <1>4, <1>5 DEF Next, Works

\* A run takes up its next entry.
LEMMA NextMoves ==
  ASSUME TypeInv, NextEntry, cmd.queue # {}
  PROVE  /\ cmd.kind = "run" /\ cmd.pc = "next" /\ UNCHANGED <<file, entryIds, commands>>
         /\ IsRun(cmd)' /\ cmd'.kind = "run" /\ cmd'.pc = "week" /\ cmd'.week = 1
         /\ cmd'.at \in cmd.queue /\ cmd'.queue = cmd.queue \ {cmd'.at}
         /\ cmd'.opts = cmd.opts /\ cmd'.spec = cmd.spec
<1>1. cmd.kind = "run" /\ cmd.pc = "next" /\ UNCHANGED <<file, entryIds, commands>>
  BY DEF NextEntry, Now
<1>2. PICK x \in cmd.queue :
        cmd' = [cmd EXCEPT !.at = x, !.queue = @ \ {x}, !.week = 1, !.pc = "week"]
  BY DEF NextEntry
<1>3. IsRun(cmd) /\ cmd.queue \subseteq Accounts \X Nat
  BY <1>1, RunKnown
<1> DEFINE c1 == [cmd EXCEPT !.at = x, !.queue = cmd.queue \ {x}]
           c2 == [c1 EXCEPT !.week = 1]
<1>4. cmd' = [c2 EXCEPT !.pc = "week"]
  BY <1>2
<1>5. x \in (Accounts \X Nat) \cup {Null} /\ cmd.queue \ {x} \in SUBSET (Accounts \X Nat)
  BY <1>3
<1> HIDE <1>2
<1>6. /\ IsRun(c1) /\ c1.at = x /\ c1.queue = cmd.queue \ {x} /\ c1.opts = cmd.opts
      /\ c1.spec = cmd.spec
  BY <1>3, <1>5 DEF IsRun
<1> HIDE DEF c1
<1>7. /\ IsRun(c2) /\ c2.at = x /\ c2.queue = cmd.queue \ {x} /\ c2.opts = cmd.opts
      /\ c2.spec = cmd.spec /\ c2.week = 1
  BY <1>6 DEF IsRun
<1> HIDE DEF c2
<1>8. /\ IsRun(cmd') /\ cmd'.at = x /\ cmd'.queue = cmd.queue \ {x} /\ cmd'.opts = cmd.opts
      /\ cmd'.spec = cmd.spec /\ cmd'.week = 1 /\ cmd'.pc = "week" /\ cmd'.kind = "run"
  BY <1>4, <1>7 DEF IsRun, RunPcs
<1>9. IsRun(cmd)'
  BY <1>1, <1>8 DEF IsRun
<1> QED
  BY <1>1, <1>8, <1>9

\* A stamp leaves the run with the stamped spec.
LEMMA StampMoves ==
  ASSUME TypeInv, Stamp
  PROVE  /\ cmd'.kind = "run" /\ cmd'.pc = "next" /\ UNCHANGED <<entryIds, commands>>
         /\ cmd'.queue = cmd.queue /\ cmd'.opts = cmd.opts /\ IsRun(cmd)'
         /\ cmd'.spec = file'
<1>1. cmd.kind = "run" /\ IsRun(cmd) /\ UNCHANGED <<entryIds, commands>>
  BY StampEffect DEF Stamp
<1>2. cmd' = [cmd EXCEPT !.spec = file', !.pc = "next"]
  BY DEF Stamp
<1> DEFINE new == file'
           c1 == [cmd EXCEPT !.spec = new]
           R == [kind : {"run"}, pc : RunPcs, run : 0 .. commands, spec : {new}, opts : Options,
                 queue : SUBSET (Accounts \X Nat), at : (Accounts \X Nat) \cup {Null},
                 week : Nat \ {0}, attempt : Nat, events : {cmd.events}, next : Nat, got : Nat,
                 row : Nat]
<1>3. cmd' = [c1 EXCEPT !.pc = "next"]
  BY <1>2
<1> HIDE DEF new
<1>4. /\ c1 \in R /\ c1.queue = cmd.queue /\ c1.opts = cmd.opts /\ c1.kind = "run"
      /\ c1.spec = new
  BY <1>1 DEF IsRun, RunPcs
<1> HIDE DEF c1
<1>5. /\ cmd'.pc = "next" /\ cmd'.queue = cmd.queue /\ cmd'.opts = cmd.opts /\ cmd'.kind = "run"
      /\ cmd'.spec = new /\ cmd' \in R
  BY <1>3, <1>4 DEF RunPcs
<1> USE DEF new
<1>6. IsRun(cmd)'
  BY <1>1, <1>5 DEF IsRun
<1> QED
  BY <1>1, <1>5, <1>6

\* A revert goes from one delete to the next.
LEMMA RevertMoves ==
  ASSUME TypeInv,
         DeleteAudits \/ DeleteAuditRuns \/ DeleteSignals \/ DeleteNarratives \/ DeleteScores
         \/ DeleteSnapshots
  PROVE  /\ cmd.kind = "revert" /\ UNCHANGED <<file, entryIds, cut, commands>>
         /\ IsRevert(cmd)' /\ cmd'.kind = "revert" /\ cmd'.date = cmd.date /\ cmd'.rows = cmd.rows
         /\ cmd'.spec = cmd.spec
<1>1. cmd.kind = "revert" /\ UNCHANGED <<file, entryIds, cut, commands>>
  BY DEF DeleteAudits, DeleteAuditRuns, DeleteSignals, DeleteNarratives, DeleteScores,
     DeleteSnapshots, Reverting,
     history
<1>2. \E pc \in RevertPcs : cmd' = [cmd EXCEPT !.pc = pc]
  BY DEF DeleteAudits, DeleteAuditRuns, DeleteSignals, DeleteNarratives, DeleteScores,
     DeleteSnapshots, Goto,
     RevertPcs
<1>3. IsRevert(cmd)
  BY <1>1, RevertKnown
<1>4. PICK pc \in RevertPcs : cmd' = [cmd EXCEPT !.pc = pc]
  BY <1>2
<1>5. /\ IsRevert(cmd') /\ cmd'.kind = "revert" /\ cmd'.date = cmd.date /\ cmd'.rows = cmd.rows
      /\ cmd'.spec = cmd.spec
  BY <1>3, <1>4 DEF IsRevert
<1> QED
  BY <1>1, <1>5 DEF IsRevert

\* An audit command in progress.
LEMMA AuditKnown ==
  ASSUME TypeInv, cmd.kind = "audit"
  PROVE  /\ IsAudit(cmd) /\ cmd.pc \in {"pick", "wait"} /\ cmd.run \in 0 .. commands
         /\ cmd.tuning \in BOOLEAN /\ cmd.corpus \subseteq 1 .. rows /\ cmd.todo \subseteq cmd.corpus
         /\ cmd.outcomes \in Seq(BOOLEAN)
<1>1. IsAudit(cmd)
  BY DEF TypeInv, CommandTyped, NoCommand
<1> QED
  BY <1>1 DEF IsAudit

\* An audit command picks its next narrative.
LEMMA PickMoves ==
  ASSUME TypeInv, AuditNext
  PROVE  /\ cmd.kind = "audit" /\ cmd.pc = "pick" /\ UNCHANGED <<file, entryIds, rows, commands>>
         /\ IsAudit(cmd)' /\ cmd'.kind = "audit" /\ cmd'.pc = "wait" /\ cmd'.run = cmd.run
         /\ cmd'.corpus = cmd.corpus /\ cmd'.outcomes = cmd.outcomes /\ cmd'.tuning = cmd.tuning
         /\ \E n \in cmd.todo : Begin(n, cmd.run) /\ cmd'.todo = cmd.todo \ {n}
<1>1. cmd.kind = "audit" /\ cmd.pc = "pick" /\ UNCHANGED <<file, entryIds, rows, commands>>
  BY DEF AuditNext, tables
<1>2. PICK n \in cmd.todo : Begin(n, cmd.run) /\ cmd' = [cmd EXCEPT !.pc = "wait", !.todo = @ \ {n}]
  BY Zenon DEF AuditNext
<1>3. IsAudit(cmd) /\ cmd.todo \subseteq cmd.corpus
  BY <1>1, AuditKnown
<1> DEFINE c1 == [cmd EXCEPT !.pc = "wait"]
<1>4. cmd' = [c1 EXCEPT !.todo = cmd.todo \ {n}] /\ Begin(n, cmd.run)
  BY <1>2
<1>5. /\ IsAudit(c1) /\ c1.pc = "wait" /\ c1.run = cmd.run /\ c1.corpus = cmd.corpus
      /\ c1.outcomes = cmd.outcomes /\ c1.tuning = cmd.tuning
  BY <1>3 DEF IsAudit
<1> HIDE DEF c1
<1>6. cmd.todo \ {n} \in SUBSET cmd.corpus
  BY <1>3
<1>7. /\ IsAudit(cmd') /\ cmd'.pc = "wait" /\ cmd'.run = cmd.run /\ cmd'.corpus = cmd.corpus
      /\ cmd'.outcomes = cmd.outcomes /\ cmd'.tuning = cmd.tuning /\ cmd'.kind = "audit"
      /\ cmd'.todo = cmd.todo \ {n}
  BY <1>4, <1>5, <1>6 DEF IsAudit
<1>8. IsAudit(cmd)'
  BY <1>1, <1>7 DEF IsAudit
<1> QED
  BY <1>1, <1>4, <1>7, <1>8

\* An audit command takes an audit's result.
LEMMA CollectMoves ==
  ASSUME TypeInv, Collect, auditor.pc # "raised"
  PROVE  /\ cmd.kind = "audit" /\ cmd.pc = "wait" /\ UNCHANGED <<file, entryIds, rows, commands>>
         /\ auditor.pc = "done" /\ auditor' = NoAudit
         /\ IsAudit(cmd)' /\ cmd'.kind = "audit" /\ cmd'.pc = "pick" /\ cmd'.run = cmd.run
         /\ cmd'.corpus = cmd.corpus /\ cmd'.tuning = cmd.tuning /\ cmd'.todo = cmd.todo
         /\ cmd'.outcomes = Append(cmd.outcomes, GatePassed(auditor.failed))
<1>1. /\ cmd.kind = "audit" /\ cmd.pc = "wait" /\ UNCHANGED <<file, entryIds, rows, commands>>
      /\ auditor.pc = "done" /\ auditor' = NoAudit
  BY DEF Collect, tables
<1> DEFINE outcomes == Append(cmd.outcomes, GatePassed(auditor.failed))
           c1 == [cmd EXCEPT !.pc = "pick"]
<1>2. cmd' = [c1 EXCEPT !.outcomes = outcomes]
  BY DEF Collect
<1>3. IsAudit(cmd) /\ cmd.outcomes \in Seq(BOOLEAN)
  BY <1>1, AuditKnown
<1>4. outcomes \in Seq(BOOLEAN)
  <2>1. GatePassed(auditor.failed) \in BOOLEAN
    BY DEF GatePassed
  <2> QED
    BY <1>3, <2>1
<1> HIDE DEF outcomes
<1>5. /\ IsAudit(c1) /\ c1.pc = "pick" /\ c1.run = cmd.run /\ c1.corpus = cmd.corpus
      /\ c1.tuning = cmd.tuning /\ c1.todo = cmd.todo
  BY <1>3 DEF IsAudit
<1> HIDE DEF c1
<1>6. /\ IsAudit(cmd') /\ cmd'.pc = "pick" /\ cmd'.run = cmd.run /\ cmd'.corpus = cmd.corpus
      /\ cmd'.tuning = cmd.tuning /\ cmd'.kind = "audit" /\ cmd'.todo = cmd.todo
      /\ cmd'.outcomes = outcomes
  BY <1>2, <1>4, <1>5 DEF IsAudit
<1>7. IsAudit(cmd)'
  BY <1>1, <1>6 DEF IsAudit
<1> QED
  BY <1>1, <1>6, <1>7 DEF outcomes

\* The command in progress keeps its type.
LEMMA CommandStays ==
  ASSUME TypeInv, Next
  PROVE  CommandTyped' /\ PlacesKnown'
<1>1. /\ FileTyped /\ FileTyped' /\ CountersTyped' /\ NarrativesTyped /\ NarrativesTyped'
      /\ rows <= rows'
      /\ cmd # NoCommand => commands' = commands
      /\ IsSpec(file, entryIds) => IsSpec(file', entryIds')
  BY FileStays, CountersStay, NarrativesStay DEF TypeInv
<1>2. ASSUME cmd' = NoCommand
      PROVE  CommandTyped' /\ PlacesKnown'
  BY <1>2 DEF CommandTyped, PlacesKnown, NoCommand
<1>3. ASSUME IsSpec(file', entryIds'), NEW o \in Options, cmd' = Running(file', o)
      PROVE  CommandTyped' /\ PlacesKnown'
  BY <1>1, <1>3, RunStarts DEF CountersTyped
<1>4. CASE Author /\ cmd' = Running(file', DefaultOptions)
  <2>1. PICK made : Adds(made)
    BY <1>1, <1>4, AuthorAdds DEF FileTyped
  <2>2. IsSpec(file', entryIds')
    BY <1>1, <2>1, AddsSpec
  <2> QED
    BY <1>3, <1>4, <2>2, DefaultKnown
<1>5. CASE Run \/ Resume
  <2>1. file # Null /\ UNCHANGED <<file, entryIds>>
    BY <1>5 DEF Run, Resume, Unfinished
  <2>2. IsSpec(file', entryIds')
    BY <1>1, <2>1 DEF FileTyped, IsFile
  <2>3. \E o \in Options : cmd' = Running(file', o)
    BY <1>5, <2>1, DefaultKnown, OptionsKnown DEF Run, Resume
  <2> QED
    BY <1>3, <2>2, <2>3
<1>6. CASE Revert
  <2>1. file # Null /\ UNCHANGED <<file, entryIds>>
    BY <1>6 DEF Revert
  <2>2. IsSpec(file', entryIds')
    BY <1>1, <2>1 DEF FileTyped, IsFile
  <2> DEFINE doomed(d) == {r.row : r \in {x \in narratives : x.account \in DOMAIN file /\ x.dated >= d}}
  <2>3. PICK d \in RevertDates :
          cmd' = [kind |-> "revert", pc |-> "audits", run |-> 0, spec |-> file, date |-> d,
                  rows |-> doomed(d)]
    BY <1>6 DEF Revert
  <2> HIDE DEF doomed
  <2>4. IsRevert(cmd)' /\ cmd'.kind = "revert"
    BY <2>1, <2>3 DEF IsRevert, RevertPcs
  <2> QED
    BY <2>2, <2>4 DEF CommandTyped, PlacesKnown
<1>7. CASE Audit
  <2> DEFINE corpus == {r.row : r \in {x \in narratives : x.active}}
  <2>1. PICK source \in Sources, tuning \in BOOLEAN :
          cmd' = [kind |-> "audit", pc |-> "pick", run |-> RunId(source), tuning |-> tuning,
                  corpus |-> corpus, todo |-> corpus, outcomes |-> <<>>]
    BY <1>7 DEF Audit
  <2>2. rows' = rows /\ commands' \in Nat
    BY <1>1, <1>7 DEF Audit, tables, CountersTyped
  <2>3. RunId(source) \in 0 .. commands'
    BY <2>2 DEF RunId, Nightly
  <2>4. corpus \subseteq 1 .. rows'
    BY <1>1, <2>2 DEF NarrativesTyped, NarrativeRow
  <2> HIDE DEF corpus
  <2>5. IsAudit(cmd)' /\ cmd'.kind = "audit"
    BY <2>1, <2>3, <2>4 DEF IsAudit
  <2> QED
    BY <2>5 DEF CommandTyped, PlacesKnown
<1>8. CASE NextEntry /\ cmd.queue # {}
  <2>1. /\ cmd.kind = "run" /\ cmd.pc = "next" /\ UNCHANGED <<file, entryIds, commands>>
        /\ IsRun(cmd)' /\ cmd'.kind = "run" /\ cmd'.pc = "week"
        /\ cmd'.at \in cmd.queue /\ cmd'.queue = cmd.queue \ {cmd'.at}
    BY <1>8, NextMoves
  <2>2. IsSpec(file', entryIds') /\ \A x \in cmd.queue : IsPlace(x)'
    BY <2>1, RunKnown DEF TypeInv, PlacesKnown, IsPlace
  <2>3. CommandTyped'
    BY <2>1, <2>2 DEF CommandTyped
  <2>4. PlacesKnown'
    BY <2>1, <2>2 DEF PlacesKnown, Working, Generating
  <2> QED
    BY <2>3, <2>4
<1>9. CASE \/ NextWeek \/ IngestSignal \/ IngestClash \/ Supersede \/ InsertNarrative
           \/ InsertConflict \/ ReadWinner \/ Backdate \/ AuditReturns \/ AttemptFails
  BY <1>9, RunMoves, MovedOn
<1>10. CASE Stamp
  <2>1. /\ cmd'.kind = "run" /\ cmd'.pc = "next" /\ UNCHANGED entryIds
        /\ cmd'.queue = cmd.queue /\ IsRun(cmd)'
    BY <1>10, StampMoves
  <2>2. /\ IsSpec(file, entryIds) /\ cmd.at[1] \in DOMAIN file /\ cmd.at[2] \in DOMAIN file[cmd.at[1]]
        /\ file' = StampedAt(file, cmd.at[1], cmd.at[2]) /\ cmd.kind = "run"
    BY <1>10, StampEffect
  <2>3. /\ DOMAIN file' = DOMAIN file
        /\ \A b \in DOMAIN file : DOMAIN file'[b] = DOMAIN file[b]
    BY <1>1, <2>2, StampedSpec DEF FileTyped
  <2>4. \A x \in cmd'.queue : IsPlace(x)'
    BY <2>1, <2>2, <2>3 DEF TypeInv, PlacesKnown, IsPlace
  <2>5. CommandTyped'
    BY <1>1, <2>1, <2>2 DEF CommandTyped
  <2>6. PlacesKnown'
    BY <2>1, <2>4 DEF PlacesKnown, Working, Generating
  <2> QED
    BY <2>5, <2>6
<1>11. CASE DeleteAudits \/ DeleteAuditRuns \/ DeleteSignals \/ DeleteNarratives \/ DeleteScores
            \/ DeleteSnapshots
  <2>1. /\ cmd.kind = "revert" /\ UNCHANGED <<file, entryIds>> /\ IsRevert(cmd)'
        /\ cmd'.kind = "revert"
    BY <1>11, RevertMoves
  <2>2. IsSpec(file', entryIds')
    BY <1>1, <2>1, RevertKnown
  <2> QED
    BY <2>1, <2>2 DEF CommandTyped, PlacesKnown
<1>12. CASE AuditNext \/ (Collect /\ auditor.pc # "raised")
  <2>1. IsAudit(cmd)' /\ cmd'.kind = "audit"
    BY <1>12, PickMoves, CollectMoves
  <2> QED
    BY <2>1 DEF CommandTyped, PlacesKnown
<1>13. CASE Collect /\ auditor.pc = "raised"
  BY <1>2, <1>13 DEF Collect, Returns, Finish
<1>14. CASE cmd # NoCommand /\ UNCHANGED <<file, entryIds, cmd>>
  <2>1. commands' = commands /\ 1 .. rows \subseteq 1 .. rows'
    BY <1>1, <1>14 DEF NarrativesTyped
  <2>2. IsRun(cmd) => IsRun(cmd)'
    BY <1>14, <2>1 DEF IsRun
  <2>3. IsRevert(cmd) => IsRevert(cmd)'
    BY <1>14, <2>1 DEF IsRevert
  <2>4. IsAudit(cmd) => IsAudit(cmd)'
    BY <1>14, <2>1 DEF IsAudit
  <2>5. CommandTyped'
    BY <1>14, <2>2, <2>3, <2>4 DEF TypeInv, CommandTyped
  <2>6. PlacesKnown'
    BY <1>14 DEF TypeInv, PlacesKnown, IsPlace, NWeeks, Entry
  <2> QED
    BY <2>5, <2>6
<1> QED
  BY <1>2, <1>4, <1>5, <1>6, <1>7, <1>8, <1>9, <1>10, <1>11, <1>12, <1>13, <1>14, CommandChanges

-----------------------------------------------------------------------------
(* The audit in progress and the exit of an audit command. *)

\* The rubric's criteria in their order.
LEMMA CriteriaKnown ==
  /\ Len(Criteria) \in Nat /\ DOMAIN Criteria = 1 .. Len(Criteria)
  /\ \A i \in 1 .. Len(Criteria) : Criteria[i] \in Range(Criteria)
  /\ MaxFaults \in Nat
BY AuditAssumption DEF Range

\* A begun audit has its type.
LEMMA BegunTyped ==
  ASSUME AuditTypeOK, NEW row \in Nat, NEW run \in Nat, Begin(row, run),
         UNCHANGED <<audits, auditRuns>>, faults' \in 0 .. MaxFaults
  PROVE  AuditTypeOK' /\ auditor'.pc = "model" /\ auditor'.row = row /\ auditor'.run = run
<1> DEFINE c1 == [NoAudit EXCEPT !.pc = "model"]
           c2 == [c1 EXCEPT !.row = row]
<1>1. auditor' = [c2 EXCEPT !.run = run]
  BY DEF Begin
<1>2. c1 = [pc |-> "model", row |-> 0, run |-> 0, failed |-> {}, wrote |-> 0]
  BY DEF NoAudit
<1> HIDE DEF c1
<1>3. c2 = [pc |-> "model", row |-> row, run |-> 0, failed |-> {}, wrote |-> 0]
  BY <1>2
<1> HIDE DEF c2
<1>4. auditor' = [pc |-> "model", row |-> row, run |-> run, failed |-> {}, wrote |-> 0]
  BY <1>1, <1>3
<1> QED
  BY <1>4, CriteriaKnown DEF AuditTypeOK

\* No audit has its type.
LEMMA NoneTyped ==
  ASSUME auditor' = NoAudit, AuditTypeOK, faults' \in 0 .. MaxFaults,
         audits' \subseteq audits, auditRuns' \subseteq auditRuns
  PROVE  AuditTypeOK'
BY CriteriaKnown DEF NoAudit, AuditTypeOK

\* A call of the audit in progress keeps the types, its narrative and its run.
LEMMA AuditingTyped ==
  ASSUME AuditTypeOK, Auditing \/ CallFails
  PROVE  /\ AuditTypeOK' /\ auditor.pc # "idle" /\ auditor'.pc # "idle"
         /\ auditor'.row = auditor.row /\ auditor'.run = auditor.run
<1>1. /\ audits \subseteq [row : Nat, run : Nat, criterion : Range(Criteria)]
      /\ auditRuns \subseteq [row : Nat, run : Nat, passed : BOOLEAN]
      /\ auditor \in [pc : {"idle", "model", "criteria", "undo", "done", "raised"}, row : Nat,
                      run : Nat, failed : Verdicts \cup {{}}, wrote : 0 .. Len(Criteria)]
      /\ faults \in 0 .. MaxFaults
  BY DEF AuditTypeOK
<1>2. CASE AskModel
  <2>1. PICK failed \in Verdicts : auditor' = [auditor EXCEPT !.pc = "criteria", !.failed = failed]
    BY <1>2, Zenon DEF AskModel
  <2>2. auditor.pc = "model" /\ UNCHANGED <<audits, auditRuns, faults>>
    BY <1>2 DEF AskModel
  <2> DEFINE c1 == [auditor EXCEPT !.pc = "criteria"]
  <2>3. auditor' = [c1 EXCEPT !.failed = failed]
    BY <2>1
  <2>4. /\ c1 \in [pc : {"idle", "model", "criteria", "undo", "done", "raised"}, row : Nat,
                   run : Nat, failed : Verdicts \cup {{}}, wrote : 0 .. Len(Criteria)]
        /\ c1.pc = "criteria" /\ c1.row = auditor.row /\ c1.run = auditor.run
    BY <1>1
  <2> HIDE DEF c1
  <2>5. /\ auditor' \in [pc : {"idle", "model", "criteria", "undo", "done", "raised"}, row : Nat,
                         run : Nat, failed : Verdicts \cup {{}}, wrote : 0 .. Len(Criteria)]
        /\ auditor'.pc = "criteria" /\ auditor'.row = auditor.row /\ auditor'.run = auditor.run
    BY <2>3, <2>4
  <2> QED
    BY <1>1, <2>2, <2>5 DEF AuditTypeOK
<1>3. CASE WriteCriterion
  <2>1. /\ auditor.pc = "criteria" /\ auditor.wrote < Len(Criteria)
        /\ auditor' = [auditor EXCEPT !.wrote = @ + 1] /\ UNCHANGED <<auditRuns, faults>>
        /\ audits' = audits \cup {[row |-> auditor.row, run |-> auditor.run,
                                   criterion |-> Criteria[auditor.wrote + 1]]}
    BY <1>3 DEF WriteCriterion
  <2>2. auditor.wrote + 1 \in 0 .. Len(Criteria) /\ Criteria[auditor.wrote + 1] \in Range(Criteria)
    <3>1. auditor.wrote \in 0 .. Len(Criteria)
      BY <1>1
    <3>2. auditor.wrote + 1 \in 1 .. Len(Criteria)
      BY <2>1, <3>1, CriteriaKnown
    <3> QED
      BY <3>2, CriteriaKnown
  <2>3. auditor.row \in Nat /\ auditor.run \in Nat
    BY <1>1
  <2>4. audits' \subseteq [row : Nat, run : Nat, criterion : Range(Criteria)]
    BY <1>1, <2>1, <2>2, <2>3
  <2>5. /\ auditor' \in [pc : {"idle", "model", "criteria", "undo", "done", "raised"}, row : Nat,
                         run : Nat, failed : Verdicts \cup {{}}, wrote : 0 .. Len(Criteria)]
        /\ auditor'.pc = "criteria" /\ auditor'.row = auditor.row /\ auditor'.run = auditor.run
    BY <1>1, <2>1, <2>2
  <2> QED
    BY <1>1, <2>1, <2>4, <2>5 DEF AuditTypeOK
<1>4. CASE WriteAggregate
  <2>1. auditor.pc = "criteria" /\ UNCHANGED <<audits, faults>>
    BY <1>4 DEF WriteAggregate
  <2>2. \E pc \in {"undo", "done"} : auditor' = [auditor EXCEPT !.pc = pc]
    BY <1>4 DEF WriteAggregate
  <2>3. auditRuns' \subseteq auditRuns \cup {[row |-> auditor.row, run |-> auditor.run,
                                              passed |-> GatePassed(auditor.failed)]}
    BY <1>4 DEF WriteAggregate
  <2>4. auditor.row \in Nat /\ auditor.run \in Nat /\ GatePassed(auditor.failed) \in BOOLEAN
    BY <1>1 DEF GatePassed
  <2>5. auditRuns' \subseteq [row : Nat, run : Nat, passed : BOOLEAN]
    BY <1>1, <2>3, <2>4
  <2>6. /\ auditor' \in [pc : {"idle", "model", "criteria", "undo", "done", "raised"}, row : Nat,
                         run : Nat, failed : Verdicts \cup {{}}, wrote : 0 .. Len(Criteria)]
        /\ auditor'.pc # "idle" /\ auditor'.row = auditor.row /\ auditor'.run = auditor.run
    BY <1>1, <2>2
  <2> QED
    BY <1>1, <2>1, <2>5, <2>6 DEF AuditTypeOK
<1>5. CASE Undo \/ CallFails
  <2>1. /\ auditor.pc \in {"model", "criteria", "undo"} /\ audits' \subseteq audits
        /\ auditRuns' = auditRuns
    BY <1>5 DEF Undo, CallFails
  <2>2. \E pc \in {"undo", "raised"} : auditor' = [auditor EXCEPT !.pc = pc]
    BY <1>5 DEF Undo, CallFails
  <2>3. faults' \in 0 .. MaxFaults
    BY <1>1, <1>5, CriteriaKnown DEF Undo, CallFails
  <2>4. /\ auditor' \in [pc : {"idle", "model", "criteria", "undo", "done", "raised"}, row : Nat,
                         run : Nat, failed : Verdicts \cup {{}}, wrote : 0 .. Len(Criteria)]
        /\ auditor'.pc # "idle" /\ auditor'.row = auditor.row /\ auditor'.run = auditor.run
    BY <1>1, <2>2
  <2> QED
    BY <1>1, <2>1, <2>3, <2>4 DEF AuditTypeOK
<1> QED
  BY <1>2, <1>3, <1>4, <1>5 DEF Auditing

FaultCounted == faults < MaxFaults /\ faults' = faults + 1

\* The failures of a step are counted.
LEMMA FaultsStay ==
  ASSUME AuditTypeOK, Next
  PROVE  faults' \in 0 .. MaxFaults
<1>1. Bootstrap \/ IngestClash \/ InsertNarrative \/ Backdate \/ AttemptFails \/ Crash =>
        FaultCounted \/ faults' = faults
  BY DEF Bootstrap, IngestClash, InsertNarrative, Backdate, AttemptFails, Crash, FaultCounted
<1>2. AuditCallFails => FaultCounted
  BY DEF AuditCallFails, CallFails, FaultCounted
<1>3. Audits => faults' = faults
  BY Zenon DEF Audits, Auditing, AskModel, WriteCriterion, WriteAggregate, Undo
<1>4. Author \/ Run \/ Resume \/ Revert \/ Audit \/ WorkerSupersedes \/ WorkerInserts =>
        faults' = faults
  BY DEF Author, Run, Resume, Revert, Audit, WorkerSupersedes, WorkerInserts
<1>5. NextEntry => faults' = faults
  BY Zenon DEF NextEntry
<1>6. (NextWeek \/ IngestSignal \/ Supersede \/ InsertConflict \/ ReadWinner \/ AuditReturns
       \/ Stamp) => faults' = faults
  BY DEF NextWeek, IngestSignal, Supersede, InsertConflict, ReadWinner, AuditReturns, Stamp
<1>7. (DeleteAudits \/ DeleteAuditRuns \/ DeleteSignals \/ DeleteNarratives \/ DeleteScores
       \/ DeleteSnapshots
       \/ Prune \/ AuditNext \/ Collect \/ AuditExits) => faults' = faults
  BY Zenon DEF DeleteAudits, DeleteAuditRuns, DeleteSignals, DeleteNarratives, DeleteScores,
     DeleteSnapshots, Prune,
     AuditNext, Collect, AuditExits
<1>8. FaultCounted \/ faults' = faults
  BY <1>1, <1>2, <1>3, <1>4, <1>5, <1>6, <1>7 DEF Next, Works
<1>9. faults \in 0 .. MaxFaults /\ MaxFaults \in Nat
  BY CriteriaKnown DEF AuditTypeOK
<1> QED
  BY <1>8, <1>9 DEF FaultCounted

\* What a step may do to the audit in progress.
LEMMA AuditorChanges ==
  ASSUME Next
  PROVE  \/ Backdate \/ AuditReturns \/ AuditNext \/ Collect \/ Audits \/ AuditCallFails \/ Crash
         \/ /\ auditor' = auditor /\ audits' \subseteq audits /\ auditRuns' \subseteq auditRuns
            /\ ~Backdate /\ ~AuditReturns /\ ~AuditNext /\ ~Collect /\ ~Crash
<1>1. DeleteAudits \/ DeleteAuditRuns =>
        auditor' = auditor /\ audits' \subseteq audits /\ auditRuns' \subseteq auditRuns
  BY DEF DeleteAudits, DeleteAuditRuns
<1> QED
  BY <1>1, AuditChanges

\* Where a command is when it takes a step.
LEMMA StepsAt ==
  /\ NextEntry => cmd.kind = "run" /\ cmd.pc = "next"
  /\ NextWeek => cmd.kind = "run" /\ cmd.pc = "week"
  /\ IngestSignal \/ IngestClash \/ Supersede => cmd.kind = "run" /\ cmd.pc = "ingest"
  /\ InsertNarrative \/ InsertConflict => cmd.kind = "run" /\ cmd.pc = "insert"
  /\ ReadWinner => cmd.kind = "run" /\ cmd.pc = "conflict"
  /\ Backdate => cmd.kind = "run" /\ cmd.pc = "backdate"
  /\ AuditReturns => cmd.kind = "run" /\ cmd.pc = "audit"
  /\ Stamp => cmd.kind = "run" /\ cmd.pc = "stamp"
  /\ AttemptFails => cmd.kind = "run" /\ cmd.pc \in {"ingest", "insert", "conflict", "backdate"}
  /\ DeleteAudits => cmd.kind = "revert" /\ cmd.pc = "audits"
  /\ DeleteAuditRuns => cmd.kind = "revert" /\ cmd.pc = "runs"
  /\ DeleteSignals => cmd.kind = "revert" /\ cmd.pc = "signals"
  /\ DeleteNarratives => cmd.kind = "revert" /\ cmd.pc = "narratives"
  /\ DeleteScores => cmd.kind = "revert" /\ cmd.pc = "scores"
  /\ DeleteSnapshots => cmd.kind = "revert" /\ cmd.pc = "snapshots"
  /\ Prune => cmd.kind = "revert" /\ cmd.pc = "prune"
  /\ AuditNext \/ AuditExits => cmd.kind = "audit" /\ cmd.pc = "pick"
  /\ Collect => cmd.kind = "audit" /\ cmd.pc = "wait"
<1>1. NextEntry => cmd.kind = "run" /\ cmd.pc = "next"
  BY Zenon DEF NextEntry, Now
<1>2. /\ NextWeek => cmd.kind = "run" /\ cmd.pc = "week"
      /\ IngestSignal \/ IngestClash \/ Supersede => cmd.kind = "run" /\ cmd.pc = "ingest"
      /\ InsertNarrative \/ InsertConflict => cmd.kind = "run" /\ cmd.pc = "insert"
  BY DEF NextWeek, IngestSignal, IngestClash, Supersede, InsertNarrative, InsertConflict, Now
<1>3. /\ ReadWinner => cmd.kind = "run" /\ cmd.pc = "conflict"
      /\ Backdate => cmd.kind = "run" /\ cmd.pc = "backdate"
      /\ AuditReturns => cmd.kind = "run" /\ cmd.pc = "audit"
      /\ Stamp => cmd.kind = "run" /\ cmd.pc = "stamp"
      /\ AttemptFails => cmd.kind = "run" /\ cmd.pc \in {"ingest", "insert", "conflict", "backdate"}
  BY DEF ReadWinner, Backdate, AuditReturns, Stamp, AttemptFails, Now
<1>4. /\ DeleteAudits => cmd.kind = "revert" /\ cmd.pc = "audits"
      /\ DeleteAuditRuns => cmd.kind = "revert" /\ cmd.pc = "runs"
      /\ DeleteSignals => cmd.kind = "revert" /\ cmd.pc = "signals"
      /\ DeleteNarratives => cmd.kind = "revert" /\ cmd.pc = "narratives"
      /\ DeleteScores => cmd.kind = "revert" /\ cmd.pc = "scores"
      /\ DeleteSnapshots => cmd.kind = "revert" /\ cmd.pc = "snapshots"
      /\ Prune => cmd.kind = "revert" /\ cmd.pc = "prune"
  BY Zenon DEF DeleteAudits, DeleteAuditRuns, DeleteSignals, DeleteNarratives, DeleteScores,
     DeleteSnapshots, Prune,
     Reverting
<1>5. /\ AuditNext \/ AuditExits => cmd.kind = "audit" /\ cmd.pc = "pick"
      /\ Collect => cmd.kind = "audit" /\ cmd.pc = "wait"
  BY Zenon DEF AuditNext, AuditExits, Collect
<1> QED
  BY <1>1, <1>2, <1>3, <1>4, <1>5

\* A waiting command goes on waiting until its audit is over.
LEMMA WaitingStays ==
  ASSUME Awaited, Next, ~AuditReturns, ~Collect, ~Crash
  PROVE  cmd' = cmd
<1>1. ~Author /\ ~Bootstrap /\ ~Run /\ ~Resume /\ ~Revert /\ ~Audit
  BY DEF Awaited, NoCommand, Idle, Issue, Author, Bootstrap, Run, Resume, Revert, Audit
<1>2. /\ cmd.kind = "run" => cmd.pc = "audit"
      /\ cmd.kind # "revert"
      /\ cmd.kind = "audit" => cmd.pc = "wait"
  BY DEF Awaited
<1>3. /\ ~NextEntry /\ ~NextWeek /\ ~IngestSignal /\ ~Supersede /\ ~InsertNarrative
      /\ ~InsertConflict /\ ~ReadWinner /\ ~Backdate /\ ~Stamp /\ ~IngestClash /\ ~AttemptFails
      /\ ~DeleteAudits /\ ~DeleteAuditRuns /\ ~DeleteSignals /\ ~DeleteNarratives /\ ~DeleteScores
      /\ ~DeleteSnapshots
      /\ ~Prune /\ ~AuditNext /\ ~AuditExits
  BY <1>2, StepsAt
<1>4. Audits \/ AuditCallFails \/ WorkerSupersedes \/ WorkerInserts => cmd' = cmd
  BY DEF Audits, AuditCallFails, WorkerSupersedes, WorkerInserts
<1> QED
  BY <1>1, <1>2, <1>3, <1>4 DEF Next, Works

\* A command waits for an audit from a backdate or a pick on.
LEMMA WaitStarts ==
  ASSUME TypeInv, Next, ~Awaited, ~Backdate, ~AuditNext
  PROVE  ~Awaited'
<1>1. CASE cmd' = NoCommand
  BY <1>1 DEF NoCommand, Awaited
<1>2. CASE cmd' = Running(file', DefaultOptions) \/ Run \/ Resume
  <2>1. cmd'.kind = "run" /\ cmd'.pc = "next"
    BY <1>2 DEF Run, Resume, Running
  <2> QED
    BY <2>1 DEF Awaited
<1>3. CASE Revert
  <2>1. cmd'.kind = "revert"
    BY <1>3 DEF Revert
  <2> QED
    BY <2>1 DEF Awaited
<1>4. CASE Audit
  <2>1. cmd'.kind = "audit" /\ cmd'.pc = "pick"
    BY <1>4 DEF Audit
  <2> QED
    BY <2>1 DEF Awaited
<1>5. CASE NextEntry /\ cmd.queue # {}
  BY <1>5, NextMoves DEF Awaited
<1>6. CASE \/ NextWeek \/ IngestSignal \/ IngestClash \/ Supersede \/ InsertNarrative
           \/ InsertConflict \/ ReadWinner \/ AuditReturns \/ AttemptFails
  <2>1. cmd'.kind = "run" /\ cmd'.pc # "audit"
    BY <1>6, RunMoves DEF Moving, Moved
  <2> QED
    BY <2>1 DEF Awaited
<1>7. CASE Stamp
  BY <1>7, StampMoves DEF Awaited
<1>8. CASE DeleteAudits \/ DeleteAuditRuns \/ DeleteSignals \/ DeleteNarratives \/ DeleteScores
           \/ DeleteSnapshots
  BY <1>8, RevertMoves DEF Awaited
<1>9. CASE Collect
  <2>1. Awaited
    BY <1>9 DEF Collect, Awaited
  <2> QED
    BY <2>1
<1>10. CASE UNCHANGED cmd
  BY <1>10 DEF Awaited
<1> QED
  BY <1>1, <1>2, <1>3, <1>4, <1>5, <1>6, <1>7, <1>8, <1>9, <1>10, CommandChanges

\* An audit is in progress exactly where a command waits for one, after every step.
LEMMA AuditorStays ==
  ASSUME TypeInv, Next
  PROVE  AuditorPlaced'
<1>2. /\ AuditTypeOK /\ CommandTyped'
      /\ Awaited => /\ auditor.pc # "idle" /\ auditor.run = cmd.run
                    /\ cmd.kind = "audit" => auditor.row \in cmd.corpus \ cmd.todo
      /\ ~Awaited => auditor = NoAudit
  BY CommandStays DEF TypeInv, AuditorPlaced
<1>1. faults' \in 0 .. MaxFaults
  BY <1>2, FaultsStay
<1>3. CASE Backdate
  <2>1. /\ cmd.kind = "run" /\ cmd.pc = "backdate" /\ faults' \in 0 .. MaxFaults
        /\ UNCHANGED <<audits, auditRuns>>
        /\ IF ShouldAudit THEN Begin(cmd.row, cmd.run) ELSE auditor' = auditor
        /\ cmd' = IF ShouldAudit THEN [cmd EXCEPT !.pc = "audit"] ELSE WeekDone
    BY <1>1, <1>3 DEF Backdate, Now, Written
  <2>2. /\ cmd.row \in Nat /\ cmd.run \in 0 .. commands /\ commands \in Nat
    BY <2>1, RunKnown DEF TypeInv, CountersTyped
  <2>3. CASE ShouldAudit
    <3>1. Begin(cmd.row, cmd.run) /\ cmd' = [cmd EXCEPT !.pc = "audit"]
      BY <2>1, <2>3
    <3>2. cmd.run \in Nat
      BY <2>2
    <3>3. AuditTypeOK' /\ auditor'.pc = "model" /\ auditor'.run = cmd.run
      BY <1>2, <2>1, <2>2, <3>1, <3>2, BegunTyped
    <3>4. Moved(cmd') /\ cmd'.pc = "audit"
      BY <2>1, <3>1, StepMoves DEF RunPcs
    <3>5. cmd'.kind = "run" /\ cmd'.run = cmd.run
      BY <3>4 DEF Moved
    <3> QED
      BY <3>3, <3>4, <3>5 DEF AuditorPlaced, Awaited
  <2>4. CASE ~ShouldAudit
    <3>1. auditor' = auditor /\ cmd' = WeekDone /\ auditor = NoAudit
      BY <1>2, <2>1, <2>4 DEF Awaited
    <3>2. Moved(cmd') /\ cmd'.pc = "week"
      BY <2>1, <3>1, WeekDoneMoves
    <3>3. cmd'.kind = "run"
      BY <3>2 DEF Moved
    <3>4. AuditTypeOK'
      BY <1>2, <2>1, <3>1, NoneTyped
    <3> QED
      BY <3>1, <3>2, <3>3, <3>4 DEF AuditorPlaced, Awaited
  <2> QED
    BY <2>3, <2>4
<1>4. CASE AuditReturns
  <2>1. /\ cmd.kind = "run" /\ auditor' = NoAudit /\ UNCHANGED <<audits, auditRuns, faults>>
        /\ cmd' = WeekDone
    BY <1>4 DEF AuditReturns, Now
  <2>2. Moved(cmd') /\ cmd'.pc = "week"
    BY <2>1, WeekDoneMoves
  <2>3. cmd'.kind = "run"
    BY <2>2 DEF Moved
  <2>4. AuditTypeOK'
    BY <1>2, <2>1, NoneTyped DEF AuditTypeOK
  <2> QED
    BY <2>1, <2>2, <2>3, <2>4 DEF AuditorPlaced, Awaited
<1>5. CASE AuditNext
  <2>1. /\ cmd.kind = "audit" /\ UNCHANGED rows /\ cmd'.kind = "audit" /\ cmd'.pc = "wait"
        /\ cmd'.run = cmd.run /\ cmd'.corpus = cmd.corpus
    BY <1>5, PickMoves
  <2>2. PICK n \in cmd.todo : Begin(n, cmd.run) /\ cmd'.todo = cmd.todo \ {n}
    BY <1>5, PickMoves
  <2>3. n \in cmd.corpus /\ n \in 1 .. rows /\ cmd.run \in 0 .. commands
    BY <2>1, AuditKnown
  <2>4. n \in Nat /\ cmd.run \in Nat
    BY <2>3 DEF TypeInv, NarrativesTyped, CountersTyped
  <2>5. UNCHANGED <<audits, auditRuns, faults>> /\ faults \in 0 .. MaxFaults
    BY <1>2, <1>5 DEF AuditNext, AuditTypeOK
  <2>6. AuditTypeOK' /\ auditor'.pc = "model" /\ auditor'.row = n /\ auditor'.run = cmd.run
    BY <1>2, <2>2, <2>4, <2>5, BegunTyped
  <2> QED
    BY <2>1, <2>2, <2>3, <2>6 DEF AuditorPlaced, Awaited
<1>6. CASE Collect
  <2>1. auditor' = NoAudit /\ UNCHANGED <<audits, auditRuns, faults>>
    BY <1>6 DEF Collect
  <2>2. ~Awaited'
    <3>1. CASE auditor.pc = "raised"
      BY <1>6, <3>1 DEF Collect, Returns, Finish, NoCommand, Awaited
    <3>2. CASE auditor.pc # "raised"
      BY <1>6, <3>2, CollectMoves DEF Awaited
    <3> QED
      BY <3>1, <3>2
  <2>3. AuditTypeOK'
    BY <1>2, <2>1, NoneTyped DEF AuditTypeOK
  <2> QED
    BY <2>1, <2>2, <2>3 DEF AuditorPlaced
<1>7. CASE Audits \/ AuditCallFails
  <2>1. (Auditing \/ CallFails) /\ cmd' = cmd
    BY <1>7 DEF Audits, AuditCallFails
  <2>2. /\ AuditTypeOK' /\ auditor.pc # "idle" /\ auditor'.pc # "idle"
        /\ auditor'.row = auditor.row /\ auditor'.run = auditor.run
    BY <1>2, <2>1, AuditingTyped
  <2>3. Awaited /\ Awaited'
    BY <1>2, <2>1, <2>2 DEF NoAudit, Awaited
  <2> QED
    BY <1>2, <2>1, <2>2, <2>3 DEF AuditorPlaced
<1>8. CASE Crash
  <2>1. cmd' = NoCommand /\ UNCHANGED <<audits, auditRuns>> /\ auditor' = NoAudit
    BY <1>8 DEF Crash, Finish
  <2>2. AuditTypeOK'
    BY <1>1, <1>2, <2>1, NoneTyped
  <2> QED
    BY <2>1, <2>2 DEF AuditorPlaced, Awaited, NoCommand
<1>9. CASE /\ auditor' = auditor /\ audits' \subseteq audits /\ auditRuns' \subseteq auditRuns
           /\ ~Backdate /\ ~AuditReturns /\ ~AuditNext /\ ~Collect /\ ~Crash
  <2>1. AuditTypeOK'
    BY <1>1, <1>2, <1>9 DEF AuditTypeOK
  <2>2. CASE Awaited
    <3>1. auditor # NoAudit
      BY <1>2, <2>2 DEF NoAudit
    <3>2. cmd' = cmd
      BY <1>9, <2>2, WaitingStays
    <3> QED
      BY <1>2, <1>9, <2>1, <2>2, <3>2 DEF AuditorPlaced, Awaited
  <2>3. CASE ~Awaited
    <3>1. ~Awaited'
      BY <1>9, <2>3, WaitStarts
    <3> QED
      BY <1>2, <1>9, <2>1, <2>3, <3>1 DEF AuditorPlaced
  <2> QED
    BY <2>2, <2>3
<1> QED
  BY <1>3, <1>4, <1>5, <1>6, <1>7, <1>8, <1>9, AuditorChanges

\* Only an audit command leaves an exit code, and it is gone with the next command.
LEMMA ExitStays ==
  ASSUME TypeInv, Next
  PROVE  ExitTyped'
<1>1. ExitTyped
  BY DEF TypeInv
<1>2. CASE exit' = NoExit
  BY <1>2 DEF NoExit, ExitTyped
<1>3. CASE exit' = exit /\ (cmd = NoCommand => cmd' = NoCommand)
  BY <1>1, <1>3 DEF ExitTyped
<1>4. CASE cmd' = NoCommand /\ exit'.code \in {0, 1, 2}
  BY <1>4 DEF ExitTyped
<1>5. Author \/ Bootstrap \/ Run \/ Resume \/ Revert \/ Audit => exit' = NoExit
  BY DEF Author, Bootstrap, Run, Resume, Revert, Audit, Issue
<1>6. AuditExits => cmd' = NoCommand /\ exit'.code \in {0, 1, 2}
  BY DEF AuditExits, Returns, Finish
<1>7. Collect => \/ cmd' = NoCommand /\ exit'.code \in {0, 1, 2}
                 \/ exit' = exit /\ cmd # NoCommand
  BY DEF Collect, Returns, Finish, NoCommand
<1>8. NextEntry => exit' = exit
  BY Zenon DEF NextEntry
<1>9. (NextWeek \/ IngestSignal \/ Supersede \/ InsertNarrative \/ InsertConflict \/ ReadWinner
       \/ Backdate \/ AuditReturns \/ Stamp \/ IngestClash \/ AttemptFails) => exit' = exit
  BY DEF NextWeek, IngestSignal, Supersede, InsertNarrative, InsertConflict, ReadWinner, Backdate,
     AuditReturns, Stamp, IngestClash, AttemptFails
<1>13. (DeleteAudits \/ DeleteAuditRuns \/ DeleteSignals \/ DeleteNarratives \/ DeleteScores
        \/ DeleteSnapshots
        \/ Prune \/ AuditNext \/ Crash) => exit' = exit
  BY Zenon DEF DeleteAudits, DeleteAuditRuns, DeleteSignals, DeleteNarratives, DeleteScores,
     DeleteSnapshots, Prune,
     AuditNext, Crash
<1>10. /\ (NextEntry \/ NextWeek \/ IngestSignal \/ Supersede \/ InsertNarrative \/ InsertConflict
           \/ ReadWinner \/ Backdate \/ AuditReturns \/ Stamp \/ IngestClash \/ AttemptFails
           \/ DeleteAudits \/ DeleteAuditRuns \/ DeleteSignals \/ DeleteNarratives \/ DeleteScores
           \/ DeleteSnapshots
           \/ Prune \/ AuditNext) => cmd # NoCommand
       /\ Crash => cmd' = NoCommand
  BY StepsAt DEF NoCommand, Crash, Finish
<1>11. Audits \/ AuditCallFails \/ WorkerSupersedes \/ WorkerInserts => exit' = exit /\ cmd' = cmd
  BY DEF Audits, AuditCallFails, WorkerSupersedes, WorkerInserts
<1>12. Works \/ IngestClash \/ AttemptFails \/ Crash =>
          \/ cmd' = NoCommand /\ exit'.code \in {0, 1, 2}
          \/ exit' = exit /\ cmd # NoCommand
          \/ exit' = exit /\ cmd' = NoCommand
          \/ exit' = exit /\ cmd' = cmd
  BY <1>6, <1>7, <1>8, <1>9, <1>10, <1>11, <1>13 DEF Works
<1> QED
  BY <1>2, <1>3, <1>4, <1>5, <1>11, <1>12 DEF Next

\* The type invariant holds from the start.
LEMMA TypeInit ==
  ASSUME Init
  PROVE  TypeInv
<1>1. FileTyped
  BY DEF Init, FileTyped, IsFile
<1>2. NarrativesTyped /\ CountersTyped
  BY SimulatorAssumption DEF Init, NarrativesTyped, CountersTyped
<1>3. CommandTyped /\ PlacesKnown /\ ~Awaited
  BY DEF Init, CommandTyped, PlacesKnown, NoCommand, Awaited
<1>4. AuditorPlaced
  BY <1>3, CriteriaKnown DEF Init, AuditInit, AuditorPlaced, AuditTypeOK, NoAudit
<1>5. ExitTyped
  BY DEF Init, ExitTyped, NoExit
<1> QED
  BY <1>1, <1>2, <1>3, <1>4, <1>5 DEF TypeInv

\* A step that changes nothing keeps it.
LEMMA TypeStutters ==
  ASSUME TypeInv, UNCHANGED vars
  PROVE  TypeInv'
<1> USE DEF vars, tables, production, history
<1>1. FileTyped' /\ NarrativesTyped' /\ CountersTyped'
  BY DEF TypeInv, FileTyped, NarrativesTyped, NarrativeRow, CountersTyped
<1>2. CommandTyped'
  BY DEF TypeInv, CommandTyped, IsRun, IsRevert, IsAudit
<1>3. PlacesKnown'
  BY DEF TypeInv, PlacesKnown, IsPlace, NWeeks, Entry
<1>4. AuditorPlaced' /\ ExitTyped'
  BY DEF TypeInv, AuditorPlaced, AuditTypeOK, Awaited, ExitTyped
<1> QED
  BY <1>1, <1>2, <1>3, <1>4 DEF TypeInv

\* Every step keeps it.
LEMMA TypeStays ==
  ASSUME TypeInv, Next
  PROVE  TypeInv'
BY FileStays, NarrativesStay, CountersStay, CommandStays, AuditorStays, ExitStays DEF TypeInv

\* The tables, the file and the command hold what they should in every state.
THEOREM SimulatorTyped == Spec => []TypeInv
<1>1. Init => TypeInv
  BY TypeInit
<1>2. TypeInv /\ [Next]_vars => TypeInv'
  BY TypeStays, TypeStutters
<1> QED
  BY <1>1, <1>2, PTL DEF Spec

\* The state has its type: whatever the operator types, whatever fails and wherever
\* a command dies, the spec file it leaves loads again, no entry id twice, and the
\* audit tables and the audit in progress have their types.
THEOREM FileLoads == Spec => []TypeOK
<1>1. TypeInv => TypeOK
  <2> SUFFICES ASSUME TypeInv PROVE TypeOK
    OBVIOUS
  <2>1. file # Null => DOMAIN file \subseteq Accounts /\ WellFormed(file)
    BY DEF TypeInv, FileTyped, IsFile, IsSpec
  <2>2. /\ \A s \in signals : s.key.account \in Accounts /\ s.key.seed \in Seeds
        /\ scored \subseteq {"scores", "snapshots"} \X Accounts
    /\ due \subseteq Accounts /\ worker \in Accounts \cup {Null}
        /\ commands + snapshots \in 0 .. MaxEvents
        /\ consented \cup finished \subseteq 1 .. entryIds
    BY DEF TypeInv, CountersTyped
  <2>3. \A r \in narratives : r.row \in 1 .. rows /\ r.account \in Accounts
    BY DEF TypeInv, NarrativesTyped, NarrativeRow
  <2>4. cmd.kind \in {"none", "run", "revert", "audit"}
    BY DEF TypeInv, CommandTyped, NoCommand
  <2>5. exit.code \in {Null, 0, 1, 2} /\ AuditTypeOK
    BY DEF TypeInv, ExitTyped, AuditorPlaced
  <2> QED
    BY <2>1, <2>2, <2>3, <2>4, <2>5 DEF TypeOK
<1> QED
  BY <1>1, SimulatorTyped, PTL

-----------------------------------------------------------------------------
(* A narrative's slice of signals. *)

\* Where a run goes with the step that it takes.
LEMMA StepPcs ==
  ASSUME TypeInv
  PROVE  /\ InsertNarrative => cmd'.pc = "backdate"
         /\ InsertConflict => cmd'.pc = "conflict"
         /\ ReadWinner => cmd'.pc \in {"week", "backdate"}
         /\ Backdate => cmd'.pc \in {"week", "audit"}
         /\ AuditReturns => cmd'.pc = "week"
         /\ AttemptFails => cmd'.pc = IF cmd.attempt < cmd.opts.retries THEN "ingest" ELSE "next"
<1>1. (InsertNarrative \/ InsertConflict \/ ReadWinner \/ Backdate \/ AuditReturns \/ AttemptFails)
        => IsRun(cmd)
  BY StepsAt, RunKnown
<1>2. /\ InsertNarrative => cmd'.pc = "backdate"
      /\ InsertConflict => cmd'.pc = "conflict"
  BY <1>1 DEF InsertNarrative, InsertConflict, Goto, IsRun
<1>3. ReadWinner => cmd'.pc \in {"week", "backdate"}
  BY <1>1 DEF ReadWinner, WeekDone, IsRun
<1>4. /\ Backdate => cmd'.pc \in {"week", "audit"}
      /\ AuditReturns => cmd'.pc = "week"
  BY <1>1 DEF Backdate, AuditReturns, Written, WeekDone, IsRun
<1>5. AttemptFails => cmd'.pc = IF cmd.attempt < cmd.opts.retries THEN "ingest" ELSE "next"
  BY <1>1 DEF AttemptFails, AfterFailure, Attempt, IsRun
<1> QED
  BY <1>2, <1>3, <1>4, <1>5

\* The week a run inserts the narrative of, as the row has it.
Inserted(s) == /\ InsertNarrative
               /\ s.row = rows + 1 /\ s.account = Account /\ s.entry = Entry.id
               /\ s.week = cmd.week /\ s.read = cmd.got /\ s.dated = Today

\* A narrative the production worker inserts.
Produced(s) == WorkerInserts /\ s.entry = Null /\ s.row = rows + 1 /\ s.dated = Today

\* Narrative s was there as r: it is not activated, and only a backdate changes its date.
Carried(s, r) ==
    /\ SameNarrative(s, r)
    /\ s.active => r.active
    /\ \/ s.dated = r.dated
       \/ Backdate /\ r.row = cmd.row /\ s.dated = WeekEnd(Entry, cmd.week)

\* Where the narratives of a state come from.
LEMMA RowsCome ==
  ASSUME TypeInv, Next
  PROVE  \A s \in narratives' :
            (\E r \in narratives : Carried(s, r)) \/ Produced(s) \/ Inserted(s)
<1>1. NarrativesTyped
  BY DEF TypeInv
<1>2. CASE UNCHANGED <<narratives, rows>>
  BY <1>2 DEF Carried, SameNarrative
<1>3. CASE Supersede \/ WorkerSupersedes
  <2>1. PICK a : narratives' = Deactivated(a)
    BY <1>3 DEF Supersede, WorkerSupersedes
  <2> QED
    BY <1>1, <2>1, DeactivatedRows DEF Carried
<1>4. CASE InsertNarrative
  <2> DEFINE new == [row |-> rows + 1, account |-> Account, entry |-> Entry.id, week |-> cmd.week,
                     dated |-> Today, active |-> TRUE, read |-> cmd.got]
  <2>1. narratives' = narratives \cup {new}
    BY <1>4 DEF InsertNarrative
  <2>2. Inserted(new)
    BY <1>4 DEF Inserted
  <2> HIDE DEF new
  <2> QED
    BY <2>1, <2>2 DEF Carried, SameNarrative
<1>5. CASE Backdate
  <2>1. /\ WeekEnd(Entry, cmd.week) \in Int
        /\ narratives' = Redated(cmd.row, WeekEnd(Entry, cmd.week)) \/ narratives' = narratives
    BY <1>5, BackdateEffect
  <2>2. CASE narratives' = narratives
    BY <2>2 DEF Carried, SameNarrative
  <2>3. CASE narratives' = Redated(cmd.row, WeekEnd(Entry, cmd.week))
    <3>1. \A s \in narratives' : \E r \in narratives :
             /\ SameNarrative(s, r) /\ s.active = r.active
             /\ s.dated = IF r.row = cmd.row THEN WeekEnd(Entry, cmd.week) ELSE r.dated
      BY <1>1, <2>1, <2>3, BackdatedRows
    <3> QED
      BY <1>5, <3>1 DEF Carried
  <2> QED
    BY <2>1, <2>2, <2>3
<1>6. CASE DeleteNarratives
  <2>1. narratives' \subseteq narratives
    BY <1>6 DEF DeleteNarratives
  <2> QED
    BY <2>1 DEF Carried, SameNarrative
<1>7. CASE WorkerInserts
  <2> DEFINE new == [row |-> rows + 1, account |-> worker, entry |-> Null, week |-> 0,
                     dated |-> Today, active |-> TRUE, read |-> 0]
  <2>1. narratives' \subseteq narratives \cup {new}
    BY <1>7 DEF WorkerInserts
  <2>2. Produced(new)
    BY <1>7 DEF Produced
  <2> HIDE DEF new
  <2> QED
    BY <2>1, <2>2 DEF Carried, SameNarrative
<1> QED
  BY <1>2, <1>3, <1>4, <1>5, <1>6, <1>7, NarrativeChanges

\* Only a revert's delete takes a narrative away.
LEMMA RowsStay ==
  ASSUME TypeInv, Next
  PROVE  \A r \in narratives :
            (\E s \in narratives' : Carried(s, r)) \/ (DeleteNarratives /\ r \in Doomed)
<1>1. NarrativesTyped
  BY DEF TypeInv
<1>2. CASE UNCHANGED <<narratives, rows>>
  BY <1>2 DEF Carried, SameNarrative
<1>3. CASE Supersede \/ WorkerSupersedes
  <2>1. PICK a : narratives' = Deactivated(a)
    BY <1>3 DEF Supersede, WorkerSupersedes
  <2> QED
    BY <1>1, <2>1, DeactivatedRows DEF Carried
<1>4. CASE InsertNarrative \/ WorkerInserts
  <2>1. narratives \subseteq narratives'
    BY <1>4 DEF InsertNarrative, WorkerInserts
  <2> QED
    BY <2>1 DEF Carried, SameNarrative
<1>5. CASE Backdate
  <2>1. /\ WeekEnd(Entry, cmd.week) \in Int
        /\ narratives' = Redated(cmd.row, WeekEnd(Entry, cmd.week)) \/ narratives' = narratives
    BY <1>5, BackdateEffect
  <2>2. CASE narratives' = narratives
    BY <2>2 DEF Carried, SameNarrative
  <2>3. CASE narratives' = Redated(cmd.row, WeekEnd(Entry, cmd.week))
    <3>1. \A r \in narratives : \E s \in narratives' :
             /\ SameNarrative(s, r) /\ s.active = r.active
             /\ s.dated = IF r.row = cmd.row THEN WeekEnd(Entry, cmd.week) ELSE r.dated
      BY <1>1, <2>1, <2>3, BackdatedRows
    <3> QED
      BY <1>5, <3>1 DEF Carried
  <2> QED
    BY <2>1, <2>2, <2>3
<1>6. CASE DeleteNarratives
  <2>1. narratives' = narratives \ Doomed
    BY <1>6 DEF DeleteNarratives
  <2> QED
    BY <1>6, <2>1 DEF Carried, SameNarrative
<1> QED
  BY <1>2, <1>3, <1>4, <1>5, <1>6, NarrativeChanges

\* A week in progress has seen all of its events before the next, or none after a
\* clash.
SliceSoFar ==
    cmd.kind = "run" =>
        /\ cmd.pc = "ingest" =>
             \/ cmd.next \in 1 .. Len(cmd.events) + 1 /\ cmd.got = cmd.next - 1
             \/ cmd.next = Len(cmd.events) + 1 /\ cmd.got = 0
        /\ cmd.pc = "insert" => cmd.got \in {0, Len(Events(Entry, cmd.week))}

\* Before there is a file, no narrative is of an entry.
NoneBefore == ~IsSpec(file, entryIds) => \A r \in narratives : r.entry = Null

SliceInv == NoneBefore /\ SliceIsWhole /\ SliceSoFar

\* The events of a run's week are a list.
LEMMA AtEvents ==
  ASSUME TypeInv, cmd.kind = "run", cmd.pc \in Working
  PROVE  Len(Events(Entry, cmd.week)) \in Nat
BY AtEntry, EventsCounted

\* The week in progress stays whole.
LEMMA SliceGoesOn ==
  ASSUME TypeInv, SliceSoFar, Next
  PROVE  SliceSoFar'
<1>1. ASSUME cmd'.kind # "run" \/ cmd'.pc \notin {"ingest", "insert"}
      PROVE  SliceSoFar'
  BY <1>1 DEF SliceSoFar
<1>2. ASSUME NEW n \in Nat, cmd.kind = "run", cmd.pc \in Working, cmd' = Attempt(n)
      PROVE  SliceSoFar'
  <2>1. /\ cmd'.pc = "ingest" /\ cmd'.events = Events(Entry, cmd.week)
        /\ cmd'.next = 1 /\ cmd'.got = 0
    BY <1>2, AttemptMoves
  <2>2. Len(Events(Entry, cmd.week)) \in Nat
    BY <1>2, AtEvents
  <2> QED
    BY <2>1, <2>2 DEF SliceSoFar
<1>3. CASE cmd' = NoCommand \/ Revert \/ Audit
  <2>1. cmd' = NoCommand => cmd'.kind # "run"
    BY DEF NoCommand
  <2>2. Revert => cmd'.kind # "run"
    BY DEF Revert
  <2>3. Audit => cmd'.kind # "run"
    BY DEF Audit
  <2> QED
    BY <1>1, <1>3, <2>1, <2>2, <2>3
<1>4. CASE cmd' = Running(file', DefaultOptions) \/ Run \/ Resume
  <2>1. cmd'.pc = "next"
    BY <1>4 DEF Run, Resume, Running
  <2> QED
    BY <1>1, <2>1
<1>5. CASE (NextEntry /\ cmd.queue # {}) \/ Stamp
  BY <1>1, <1>5, NextMoves, StampMoves
<1>6. CASE NextWeek
  <2>1. cmd.kind = "run" /\ cmd.pc = "week"
    BY <1>6, StepsAt
  <2>2. \/ cmd' = [cmd EXCEPT !.pc = "stamp"] \/ cmd' = [cmd EXCEPT !.week = @ + 1]
        \/ cmd' = Attempt(0)
    BY <1>6 DEF NextWeek
  <2>3. CASE cmd' = [cmd EXCEPT !.pc = "stamp"]
    BY <1>1, <2>1, <2>3, StepMoves DEF RunPcs
  <2>4. CASE cmd' = [cmd EXCEPT !.week = @ + 1]
    BY <1>1, <2>1, <2>4
  <2>5. CASE cmd' = Attempt(0)
    BY <1>2, <2>1, <2>5 DEF Working
  <2> QED
    BY <2>2, <2>3, <2>4, <2>5
<1>7. CASE IngestSignal
  <2>1. /\ cmd.kind = "run" /\ cmd.pc = "ingest" /\ cmd.next <= Len(cmd.events)
        /\ cmd' = AtEvent(cmd.next + 1, cmd.got + 1)
    BY <1>7 DEF IngestSignal, Now, Returned, AtEvent
  <2>2. cmd.next \in Nat /\ cmd.got \in Nat
    BY <2>1, RunKnown
  <2>3. cmd.next + 1 \in Nat /\ cmd.got + 1 \in Nat
    BY <2>2
  <2>4. /\ cmd'.pc = "ingest" /\ cmd'.events = cmd.events
        /\ cmd'.next = cmd.next + 1 /\ cmd'.got = cmd.got + 1
    BY <2>1, <2>3, EventMoves
  <2>5. Len(cmd.events) \in Nat
    BY <2>1, AtEvents DEF TypeInv, PlacesKnown, Working
  <2>6. cmd.next \in 1 .. Len(cmd.events) + 1 /\ cmd.got = cmd.next - 1
    BY <2>1, <2>2, <2>5 DEF SliceSoFar
  <2>7. cmd'.next \in 1 .. Len(cmd'.events) + 1 /\ cmd'.got = cmd'.next - 1
    BY <2>1, <2>2, <2>4, <2>5, <2>6
  <2> QED
    BY <2>4, <2>7 DEF SliceSoFar
<1>8. CASE IngestClash
  <2>1. /\ cmd.kind = "run" /\ cmd.pc = "ingest" /\ cmd' = AtEvent(Len(cmd.events) + 1, 0)
    BY <1>8 DEF IngestClash, Now, AtEvent
  <2>2. Len(cmd.events) \in Nat
    BY <2>1, AtEvents DEF TypeInv, PlacesKnown, Working
  <2>3. Len(cmd.events) + 1 \in Nat /\ 0 \in Nat
    BY <2>2
  <2>4. /\ cmd'.pc = "ingest" /\ cmd'.events = cmd.events
        /\ cmd'.next = Len(cmd.events) + 1 /\ cmd'.got = 0
    BY <2>1, <2>3, EventMoves
  <2> QED
    BY <2>4 DEF SliceSoFar
<1>9. CASE Supersede
  <2>1. /\ cmd.kind = "run" /\ cmd.pc = "ingest" /\ cmd' = [cmd EXCEPT !.pc = "insert"]
        /\ cmd.next > Len(cmd.events)
    BY <1>9 DEF Supersede, Now, Goto
  <2>2. IsRun(cmd) /\ cmd.next \in Nat
    BY <2>1, RunKnown
  <2>3. Len(cmd.events) \in Nat /\ cmd.events = Events(Entry, cmd.week)
    BY <2>1, AtEvents DEF TypeInv, PlacesKnown, Working
  <2>4. cmd.got \in {0, Len(Events(Entry, cmd.week))}
    BY <2>1, <2>2, <2>3 DEF SliceSoFar
  <2>5. /\ cmd'.pc = "insert" /\ cmd'.got = cmd.got /\ cmd'.week = cmd.week /\ cmd'.at = cmd.at
        /\ cmd'.spec = cmd.spec
    BY <2>1, <2>2 DEF IsRun
  <2>6. Entry' = Entry
    BY <2>5 DEF Entry
  <2>7. cmd'.got \in {0, Len(Events(Entry, cmd.week))'}
    BY <2>4, <2>5, <2>6
  <2> QED
    BY <2>5, <2>7 DEF SliceSoFar
<1>10. CASE InsertNarrative \/ InsertConflict \/ ReadWinner \/ Backdate \/ AuditReturns
  <2>1. cmd'.pc \in {"backdate", "conflict", "week", "audit"}
    BY <1>10, StepPcs
  <2> QED
    BY <1>1, <2>1
<1>11. CASE AttemptFails
  <2>1. cmd.kind = "run" /\ cmd.pc \in Working /\ cmd' = AfterFailure
    BY <1>11 DEF AttemptFails, Working
  <2>2. cmd.attempt \in Nat
    BY <2>1, RunKnown
  <2>3. CASE cmd.attempt < cmd.opts.retries
    <3>1. cmd' = Attempt(cmd.attempt + 1) /\ cmd.attempt + 1 \in Nat
      BY <2>1, <2>2, <2>3 DEF AfterFailure
    <3> QED
      BY <1>2, <2>1, <3>1
  <2>4. CASE ~(cmd.attempt < cmd.opts.retries)
    <3>1. cmd'.pc = "next"
      BY <1>11, <2>4, StepPcs
    <3> QED
      BY <1>1, <3>1
  <2> QED
    BY <2>3, <2>4
<1>12. CASE DeleteAudits \/ DeleteAuditRuns \/ DeleteSignals \/ DeleteNarratives \/ DeleteScores
            \/ DeleteSnapshots
  BY <1>1, <1>12, RevertMoves
<1>13. CASE AuditNext
  BY <1>1, <1>13, PickMoves
<1>14. CASE Collect
  <2>1. cmd'.kind # "run"
    <3>1. CASE auditor.pc = "raised"
      BY <1>14, <3>1 DEF Collect, Returns, Finish, NoCommand
    <3>2. CASE auditor.pc # "raised"
      BY <1>14, <3>2, CollectMoves
    <3> QED
      BY <3>1, <3>2
  <2> QED
    BY <1>1, <2>1
<1>15. CASE UNCHANGED cmd
  BY <1>15 DEF SliceSoFar, Entry
<1> QED
  BY <1>3, <1>4, <1>5, <1>6, <1>7, <1>8, <1>9, <1>10, <1>11, <1>12, <1>13, <1>14, <1>15,
     CommandChanges

\* A narrative's slice stays whole.
LEMMA SliceStays ==
  ASSUME TypeInv, SliceInv, Next
  PROVE  NoneBefore' /\ SliceIsWhole'
<1>1. /\ FileTyped /\ NarrativesTyped /\ entryIds \in Nat
      /\ IsSpec(file, entryIds) => IsSpec(file', entryIds')
      /\ UNCHANGED file \/ From(file', file, entryIds)
  BY FileStays DEF TypeInv, FileTyped
<1>2. ASSUME NEW s \in narratives', s.entry # Null
      PROVE  /\ IsSpec(file, entryIds) /\ s.entry \in 1 .. entryIds
             /\ \A a \in DOMAIN file : \A i \in DOMAIN file[a] :
                  file[a][i].id = s.entry => s.read \in {0, Len(Events(file[a][i], s.week))}
  <2>1. CASE \E r \in narratives : Carried(s, r)
    <3>1. PICK r \in narratives : SameNarrative(s, r)
      BY <2>1 DEF Carried
    <3>2. r.entry # Null /\ r.entry \in 1 .. entryIds
      BY <1>1, <1>2, <3>1 DEF SameNarrative, NarrativesTyped, NarrativeRow
    <3>3. IsSpec(file, entryIds)
      BY <3>2 DEF SliceInv, NoneBefore
    <3>4. \A a \in DOMAIN file : \A i \in DOMAIN file[a] : file[a][i] \in ToSet(file[a])
      BY DEF ToSet
    <3>5. \A a \in DOMAIN file : \A i \in DOMAIN file[a] :
            file[a][i].id = r.entry => r.read \in {0, Len(Events(file[a][i], r.week))}
      BY <3>2, <3>4 DEF SliceInv, SliceIsWhole
    <3> QED
      BY <3>1, <3>2, <3>3, <3>5 DEF SameNarrative
  <2>2. CASE Inserted(s)
    <3>1. cmd.kind = "run" /\ cmd.pc = "insert"
      BY <2>2, StepsAt DEF Inserted
    <3>2. /\ IsSpec(file, entryIds) /\ IsPlace(cmd.at) /\ Entry = file[cmd.at[1]][cmd.at[2]]
          /\ Entry.id \in 1 .. entryIds
      BY <3>1, AtEntry DEF Working
    <3>3. s.entry = Entry.id /\ s.week = cmd.week /\ s.read \in {0, Len(Events(Entry, cmd.week))}
      BY <2>2, <3>1 DEF Inserted, SliceInv, SliceSoFar
    <3>4. ASSUME NEW a \in DOMAIN file, NEW i \in DOMAIN file[a], file[a][i].id = s.entry
          PROVE  file[a][i] = Entry
      BY <1>1, <3>2, <3>3, <3>4, OnePlace DEF IsPlace
    <3> QED
      BY <3>2, <3>3, <3>4
  <2> QED
    BY <1>2, <2>1, <2>2, RowsCome DEF Produced
<1>3. NoneBefore'
  BY <1>1, <1>2 DEF NoneBefore
<1>4. ASSUME NEW s \in narratives', s.entry # Null,
             NEW a \in DOMAIN file', NEW e \in ToSet(file'[a]), e.id = s.entry
      PROVE  s.read \in {0, Len(Events(e, s.week))}
  <2>1. PICK i \in DOMAIN file'[a] : e = file'[a][i]
    BY <1>4 DEF ToSet
  <2>2. PICK j \in DOMAIN file[a] : a \in DOMAIN file /\ Continues(e, file[a][j])
    <3>1. CASE UNCHANGED file
      BY <2>1, <3>1 DEF Continues
    <3>2. CASE From(file', file, entryIds)
      <4>1. s.entry \in 1 .. entryIds
        BY <1>2, <1>4
      <4>2. ~(e.id > entryIds)
        BY <1>1, <1>4, <4>1
      <4> QED
        BY <2>1, <3>2, <4>2 DEF From
    <3> QED
      BY <1>1, <3>1, <3>2
  <2>3. Events(e, s.week) = Events(file[a][j], s.week) /\ file[a][j].id = s.entry
    BY <1>4, <2>2, WeeksStay DEF Continues
  <2> QED
    BY <1>2, <1>4, <2>2, <2>3
<1>5. SliceIsWhole'
  BY <1>4 DEF SliceIsWhole
<1> QED
  BY <1>3, <1>5

\* A narrative of a simulated week was generated from all of the week's signals, or
\* from none after a unique violation: a retry or a second run that finds part of the
\* week stored reads that part again and does not generate from the rest alone.
THEOREM SlicesAreWhole == Spec => []SliceIsWhole
<1>1. Init => SliceInv
  BY DEF Init, SliceInv, NoneBefore, SliceIsWhole, SliceSoFar, NoCommand
<1>2. TypeInv /\ SliceInv /\ [Next]_vars => SliceInv'
  <2>1. CASE UNCHANGED vars
    BY <2>1 DEF vars, tables, SliceInv, NoneBefore, SliceIsWhole, SliceSoFar, Entry
  <2> QED
    BY <2>1, SliceGoesOn, SliceStays DEF SliceInv
<1>3. SliceInv => SliceIsWhole
  BY DEF SliceInv
<1> QED
  BY <1>1, <1>2, <1>3, SimulatorTyped, PTL DEF Spec

-----------------------------------------------------------------------------
(* What is finished is not generated again. *)

DoneAt(x) == file[x[1]][x[2]].done

\* What a run has taken through all its weeks is done in the file.
StampsStand ==
    IsSpec(file, entryIds) =>
        \A a \in DOMAIN file : \A i \in DOMAIN file[a] :
            file[a][i].id \in finished => file[a][i].done

\* A run that is not forced has nothing done ahead of it, nor in hand.
UndoneAhead ==
    cmd.kind = "run" /\ ~cmd.opts.force =>
        /\ \A x \in cmd.queue : ~DoneAt(x)
        /\ cmd.pc \in Working => ~DoneAt(cmd.at)

RedoInv == StampsStand /\ UndoneAhead

\* A step leaves what is finished done, and what it finishes it stamps.
LEMMA StampsStay ==
  ASSUME TypeInv, StampsStand, Next
  PROVE  StampsStand'
<1>1. /\ entryIds \in Nat /\ FileTyped /\ finished \subseteq 1 .. entryIds
  BY DEF TypeInv, FileTyped, CountersTyped
<1>2. CASE ~Stamp
  <2>1. finished' = finished
    BY <1>2, CounterChanges
  <2>2. UNCHANGED <<file, entryIds>> \/ From(file', file, entryIds)
    BY FileStays
  <2>3. CASE UNCHANGED <<file, entryIds>>
    BY <2>1, <2>3 DEF StampsStand
  <2>4. CASE From(file', file, entryIds)
    <3>1. ASSUME NEW a \in DOMAIN file', NEW i \in DOMAIN file'[a], file'[a][i].id \in finished
          PROVE  file'[a][i].done
      <4> DEFINE n == file'[a][i].id
      <4>1. n \in 1 .. entryIds /\ entryIds \in Nat
        BY <1>1, <3>1
      <4> HIDE DEF n
      <4>2. ~(n > entryIds)
        BY <4>1
      <4> USE DEF n
      <4>3. ~(file'[a][i].id > entryIds)
        BY <4>2
      <4>4. /\ IsSpec(file, entryIds) /\ a \in DOMAIN file
            /\ \E j \in DOMAIN file[a] : Continues(file'[a][i], file[a][j])
        BY <2>4, <4>3 DEF From
      <4> QED
        BY <3>1, <4>4 DEF StampsStand, Continues
    <3> QED
      BY <2>1, <3>1 DEF StampsStand
  <2> QED
    BY <2>2, <2>3, <2>4
<1>3. CASE Stamp
  <2>1. /\ IsSpec(file, entryIds) /\ cmd.at[1] \in DOMAIN file /\ cmd.at[2] \in DOMAIN file[cmd.at[1]]
        /\ file' = StampedAt(file, cmd.at[1], cmd.at[2]) /\ UNCHANGED entryIds
        /\ cmd.kind = "run" /\ cmd.pc = "stamp"
    BY <1>3, StampEffect
  <2>2. Entry = file[cmd.at[1]][cmd.at[2]]
    BY <2>1, AtEntry DEF Working
  <2>3. finished' = finished \cup {Entry.id}
    BY <1>3, CounterChanges DEF Stamp
  <2>4. /\ DOMAIN file' = DOMAIN file /\ IsSpec(file', entryIds')
        /\ \A b \in DOMAIN file : /\ DOMAIN file'[b] = DOMAIN file[b]
                                  /\ \A j \in DOMAIN file[b] : Continues(file'[b][j], file[b][j])
        /\ file'[cmd.at[1]][cmd.at[2]].done
    BY <1>1, <2>1, StampedSpec
  <2>5. ASSUME NEW a \in DOMAIN file', NEW i \in DOMAIN file'[a], file'[a][i].id \in finished'
        PROVE  file'[a][i].done
    <3>1. /\ a \in DOMAIN file /\ i \in DOMAIN file[a] /\ Continues(file'[a][i], file[a][i])
          /\ file[a][i].id = file'[a][i].id
      BY <2>4 DEF Continues
    <3>2. CASE file[a][i].id \in finished
      BY <2>1, <3>1, <3>2 DEF StampsStand, Continues
    <3>3. CASE file[a][i].id = Entry.id
      <4>1. a = cmd.at[1] /\ i = cmd.at[2]
        BY <2>1, <2>2, <3>1, <3>3, OnePlace
      <4> QED
        BY <2>4, <4>1
    <3> QED
      BY <2>3, <2>5, <3>1, <3>2, <3>3
  <2> QED
    BY <2>5 DEF StampsStand
<1> QED
  BY <1>2, <1>3

\* A run that starts without --force is to generate what is not done.
LEMMA StartsUndone ==
  ASSUME NEW o, cmd' = Running(file', o)
  PROVE  UndoneAhead'
<1>1. /\ cmd'.queue = PendingOf(file', o) /\ cmd'.opts = o /\ cmd'.pc = "next"
  BY DEF Running
<1>2. ~o.force => \A x \in PendingOf(file', o) : ~DoneAt(x)'
  BY DEF PendingOf, DoneAt
<1> QED
  BY <1>1, <1>2 DEF UndoneAhead, Working

\* What is ahead of a run stays undone until it is its turn.
LEMMA UndoneStays ==
  ASSUME TypeInv, UndoneAhead, Next
  PROVE  UndoneAhead'
<1>1. ASSUME cmd'.kind # "run"
      PROVE  UndoneAhead'
  BY <1>1 DEF UndoneAhead
<1>2. CASE cmd' = NoCommand \/ Revert \/ Audit
  <2>1. cmd' = NoCommand => cmd'.kind # "run"
    BY DEF NoCommand
  <2>2. Revert => cmd'.kind # "run"
    BY DEF Revert
  <2>3. Audit => cmd'.kind # "run"
    BY DEF Audit
  <2> QED
    BY <1>1, <1>2, <2>1, <2>2, <2>3
<1>3. CASE Author /\ cmd' = Running(file', DefaultOptions)
  BY <1>3, StartsUndone
<1>4. CASE Run \/ Resume
  <2>1. \E o : cmd' = Running(file', o)
    BY <1>4 DEF Run, Resume
  <2> QED
    BY <2>1, StartsUndone
<1>5. CASE NextEntry /\ cmd.queue # {}
  BY <1>5, NextMoves DEF UndoneAhead, DoneAt
<1>6. CASE \/ NextWeek \/ IngestSignal \/ IngestClash \/ Supersede \/ InsertNarrative
           \/ InsertConflict \/ ReadWinner \/ Backdate \/ AuditReturns \/ AttemptFails
  <2>1. Moving /\ cmd.kind = "run" /\ UNCHANGED file
    BY <1>6, RunMoves
  <2>2. /\ cmd'.queue = cmd.queue /\ cmd'.at = cmd.at /\ cmd'.opts = cmd.opts
        /\ cmd'.pc \in Working => cmd.pc \in Working
    BY <2>1 DEF Moving, Moved
  <2> QED
    BY <2>1, <2>2 DEF UndoneAhead, DoneAt
<1>7. CASE Stamp
  <2>1. /\ IsSpec(file, entryIds) /\ cmd.at[1] \in DOMAIN file /\ cmd.at[2] \in DOMAIN file[cmd.at[1]]
        /\ file' = StampedAt(file, cmd.at[1], cmd.at[2]) /\ IsPlace(cmd.at)
        /\ cmd.kind = "run" /\ cmd.pc = "stamp"
    BY <1>7, StampEffect
  <2>2. \A b \in DOMAIN file : \A j \in DOMAIN file[b] :
          b # cmd.at[1] \/ j # cmd.at[2] => file'[b][j] = file[b][j]
    BY <2>1, StampedSpec DEF TypeInv, FileTyped
  <2>3. cmd'.queue = cmd.queue /\ cmd'.opts = cmd.opts /\ cmd'.pc = "next"
    BY <1>7, StampMoves
  <2>4. ASSUME NEW x \in cmd.queue
        PROVE  DoneAt(x)' = DoneAt(x)
    <3>1. IsPlace(x) /\ x # cmd.at
      BY <2>1 DEF TypeInv, PlacesKnown, Working
    <3>2. x[1] # cmd.at[1] \/ x[2] # cmd.at[2]
      BY <2>1, <3>1 DEF IsPlace
    <3> QED
      BY <2>2, <3>1, <3>2 DEF IsPlace, DoneAt
  <2> QED
    BY <2>1, <2>3, <2>4 DEF UndoneAhead, Working
<1>8. CASE DeleteAudits \/ DeleteAuditRuns \/ DeleteSignals \/ DeleteNarratives \/ DeleteScores
           \/ DeleteSnapshots
  BY <1>1, <1>8, RevertMoves
<1>9. CASE AuditNext \/ (Collect /\ auditor.pc # "raised")
  BY <1>1, <1>9, PickMoves, CollectMoves
<1>10. CASE Collect /\ auditor.pc = "raised"
  BY <1>2, <1>10 DEF Collect, Returns, Finish
<1>11. CASE cmd # NoCommand /\ UNCHANGED <<file, entryIds, cmd>>
  BY <1>11 DEF UndoneAhead, DoneAt
<1> QED
  BY <1>2, <1>3, <1>4, <1>5, <1>6, <1>7, <1>8, <1>9, <1>10, <1>11, CommandChanges

\* An entry that a run has taken to its end is not generated a second time, by a
\* resumed run or a later command, unless the operator forces it: what is finished is
\* done in the file, and a run has nothing done ahead of it.
THEOREM FinishedStays == Spec => CompletedNotRedone
<1>1. Init => RedoInv
  BY DEF Init, RedoInv, StampsStand, UndoneAhead, NoCommand
<1>2. TypeInv /\ RedoInv /\ [Next]_vars => RedoInv'
  <2>1. CASE UNCHANGED vars
    BY <2>1 DEF vars, history, RedoInv, StampsStand, UndoneAhead, DoneAt
  <2> QED
    BY <2>1, StampsStay, UndoneStays DEF RedoInv
<1>3. TypeInv /\ RedoInv /\ [Next]_vars =>
        [\A r \in narratives' \ narratives :
            r.row > rows /\ r.entry \in finished => cmd.opts.force]_vars
  <2> SUFFICES ASSUME TypeInv, RedoInv, Next,
                      NEW s \in narratives', s.row > rows, s.entry \in finished
               PROVE  cmd.opts.force
    OBVIOUS
  <2>1. NarrativesTyped /\ finished \subseteq 1 .. entryIds /\ entryIds \in Nat
    BY DEF TypeInv, CountersTyped, FileTyped
  <2>2. s.entry # Null
    <3>1. s.entry \in 1 .. entryIds
      BY <2>1
    <3>2. s.entry \in Int
      BY <3>1
    <3> QED
      BY <3>2, SimulatorAssumption
  <2>3. Inserted(s)
    <3>1. ASSUME NEW r \in narratives, SameNarrative(s, r) PROVE FALSE
      <4>1. r.row \in 1 .. rows /\ rows \in Nat
        BY <2>1 DEF NarrativesTyped, NarrativeRow
      <4> QED
        BY <3>1, <4>1 DEF SameNarrative
    <3> QED
      BY <2>2, <3>1, RowsCome DEF Carried, Produced
  <2>4. cmd.kind = "run" /\ cmd.pc = "insert"
    BY <2>3, StepsAt DEF Inserted
  <2>5. /\ IsSpec(file, entryIds) /\ IsPlace(cmd.at) /\ Entry = file[cmd.at[1]][cmd.at[2]]
    BY <2>4, AtEntry DEF Working
  <2>6. DoneAt(cmd.at)
    BY <2>3, <2>5 DEF RedoInv, StampsStand, Inserted, IsPlace, DoneAt
  <2>7. cmd.opts \in Options
    BY <2>4, RunKnown
  <2> QED
    BY <2>4, <2>6, <2>7 DEF RedoInv, UndoneAhead, Working, Options
<1> QED
  BY <1>1, <1>2, <1>3, SimulatorTyped, PTL DEF Spec, CompletedNotRedone

-----------------------------------------------------------------------------
(* Overlapping entries of an account. *)

\* Two entries of an account are apart in time, or one of them was consented to.
Apart ==
    IsSpec(file, entryIds) =>
        \A a \in DOMAIN file : \A i, j \in DOMAIN file[a] :
            i # j /\ Overlaps(file[a][i], file[a][j].start, file[a][j].end) =>
                file[a][i].id \in consented \/ file[a][j].id \in consented

\* Entries are added apart from those there are, or with consent.
LEMMA ApartAdded ==
  ASSUME TypeInv, Apart, NEW made, Adds(made)
  PROVE  Apart'
<1>1. /\ entryIds \in Nat /\ entryIds' \in Nat /\ entryIds <= entryIds' /\ IsFile(file, entryIds)
      /\ NewEntries(made, entryIds, entryIds') /\ file' = WithEntries(file, made)
      /\ consented \subseteq consented'
      /\ \A a \in DOMAIN made : made[a].id \in consented' \/ Clear(file, a, made[a])
  BY DEF Adds, TypeInv, FileTyped
<1> SUFFICES ASSUME NEW a \in DOMAIN file', NEW i \in DOMAIN file'[a], NEW j \in DOMAIN file'[a],
                    i # j, Overlaps(file'[a][i], file'[a][j].start, file'[a][j].end)
             PROVE  file'[a][i].id \in consented' \/ file'[a][j].id \in consented'
  BY DEF Apart
<1> DEFINE Old(k) == /\ file # Null /\ a \in DOMAIN file /\ k \in DOMAIN file[a]
                     /\ file'[a][k] = file[a][k]
           New(k) == /\ a \in DOMAIN made /\ file'[a][k] = made[a]
                     /\ k = Len(EntriesOf(file, a)) + 1
<1>2. (Old(i) \/ New(i)) /\ (Old(j) \/ New(j))
  BY <1>1, AddedPlaces
<1>3. CASE Old(i) /\ Old(j)
  <2>1. IsSpec(file, entryIds)
    BY <1>1, <1>3 DEF IsFile
  <2> QED
    BY <1>1, <1>3, <2>1 DEF Apart
<1>4. ASSUME NEW k, NEW l, Old(k), New(l), made[a].id \notin consented',
             Overlaps(file'[a][k], file'[a][l].start, file'[a][l].end)
      PROVE  FALSE
  <2>1. Clear(file, a, made[a])
    BY <1>1, <1>4
  <2>2. EntriesOf(file, a) = file[a]
    BY <1>4 DEF EntriesOf
  <2> QED
    BY <1>4, <2>1, <2>2 DEF Clear
<1>5. Overlaps(file'[a][j], file'[a][i].start, file'[a][i].end)
  BY DEF Overlaps
<1> QED
  BY <1>2, <1>3, <1>4, <1>5

\* Entries stay apart: a stamp or a revert changes no dates and adds no entries.
LEMMA ApartStays ==
  ASSUME TypeInv, Apart, Next
  PROVE  Apart'
<1>1. CASE UNCHANGED <<file, entryIds, consented>>
  BY <1>1 DEF Apart
<1>2. CASE \E made : Adds(made)
  BY <1>2, ApartAdded
<1>3. CASE Stamp \/ Prune
  <2>1. /\ IsSpec(file, entryIds) /\ UNCHANGED <<entryIds, consented>>
    BY <1>3, StampEffect, PruneEffect
  <2>2. /\ entryIds \in Nat /\ IsSpec(file', entryIds)
        /\ UNCHANGED file \/ From(file', file, entryIds)
    BY <2>1, FileStays DEF TypeInv, FileTyped
  <2>3. CASE UNCHANGED file
    BY <2>1, <2>3 DEF Apart
  <2>4. CASE From(file', file, entryIds)
    <3> SUFFICES ASSUME NEW a \in DOMAIN file', NEW i \in DOMAIN file'[a], NEW j \in DOMAIN file'[a],
                        i # j, Overlaps(file'[a][i], file'[a][j].start, file'[a][j].end)
                 PROVE  file'[a][i].id \in consented \/ file'[a][j].id \in consented
      BY <2>1 DEF Apart
    <3>1. ASSUME NEW k \in DOMAIN file'[a]
          PROVE  a \in DOMAIN file /\ \E l \in DOMAIN file[a] : Continues(file'[a][k], file[a][l])
      <4>1. file'[a][k].id \in 1 .. entryIds
        <5>1. file'[a][k] \in EntryWith({file'[a][k].params}, 1 .. entryIds)
          BY <2>2, EntryKnown
        <5> QED
          BY <5>1 DEF EntryWith
      <4>2. ~(file'[a][k].id > entryIds)
        BY <2>2, <4>1
      <4> QED
        BY <2>4, <4>2 DEF From
    <3>2. PICK k \in DOMAIN file[a] : Continues(file'[a][i], file[a][k])
      BY <3>1
    <3>3. PICK l \in DOMAIN file[a] : Continues(file'[a][j], file[a][l])
      BY <3>1
    <3>4. k # l
      <4>1. file'[a][i].id # file'[a][j].id
        BY <2>2, OnePlace
      <4> QED
        BY <3>2, <3>3, <4>1 DEF Continues
    <3>5. Overlaps(file[a][k], file[a][l].start, file[a][l].end)
      BY <3>2, <3>3 DEF Overlaps, Continues
    <3>6. file[a][k].id \in consented \/ file[a][l].id \in consented
      BY <2>1, <3>1, <3>4, <3>5 DEF Apart
    <3> QED
      BY <3>2, <3>3, <3>6 DEF Continues
  <2> QED
    BY <2>2, <2>3, <2>4
<1> QED
  BY <1>1, <1>2, <1>3, FileSteps

\* Entries of one account overlap only where the author was told of an overlap and
\* went on, or typed dates for that account alone: --bootstrap proposes none that
\* does, and nothing the executor or a revert does to the file makes two meet.
THEOREM OverlapsAreTold == Spec => []OverlapOnlyByConsent
<1>1. Init => Apart
  <2> SUFFICES ASSUME Init, IsSpec(file, entryIds), NEW a \in DOMAIN file, NEW i \in DOMAIN file[a]
               PROVE  FALSE
    BY DEF Apart
  <2>1. entryIds = 0 /\ entryIds \in Nat
    BY DEF Init
  <2>2. file[a][i] \in EntryWith({file[a][i].params}, 1 .. entryIds)
    BY <2>1, EntryKnown
  <2>3. file[a][i].id \in 1 .. entryIds
    BY <2>2 DEF EntryWith
  <2> QED
    BY <2>1, <2>3
<1>2. TypeInv /\ Apart /\ [Next]_vars => Apart'
  <2>1. CASE UNCHANGED vars
    BY <2>1 DEF vars, history, Apart
  <2> QED
    BY <2>1, ApartStays
<1>3. TypeInv /\ Apart => OverlapOnlyByConsent
  <2> SUFFICES ASSUME TypeInv, Apart, file # Null,
                      NEW a \in DOMAIN file, NEW i \in DOMAIN file[a], NEW j \in DOMAIN file[a],
                      i < j, Overlaps(file[a][i], file[a][j].start, file[a][j].end)
               PROVE  {file[a][i].id, file[a][j].id} \cap consented # {}
    BY DEF OverlapOnlyByConsent
  <2>1. IsSpec(file, entryIds)
    BY DEF TypeInv, FileTyped, IsFile
  <2>2. i # j
    <3>1. i \in Nat /\ j \in Nat
      BY <2>1, EntryKnown DEF TypeInv, FileTyped
    <3> QED
      BY <3>1
  <2> QED
    BY <2>1, <2>2 DEF Apart
<1> QED
  BY <1>1, <1>2, <1>3, SimulatorTyped, PTL DEF Spec

-----------------------------------------------------------------------------
(* The steps of a run. *)

RunStep == \/ NextWeek \/ IngestSignal \/ IngestClash \/ Supersede \/ InsertNarrative
           \/ InsertConflict \/ ReadWinner \/ Backdate \/ AuditReturns \/ AttemptFails

\* Which step takes a run where, and that its week passes only when it is done.
Progress ==
    /\ cmd'.pc \notin {"week", "next"} => cmd'.week = cmd.week
    /\ cmd'.pc = "week" => /\ cmd'.week = cmd.week + 1
                           /\ \/ NextWeek /\ cmd.opts.dry
                              \/ ReadWinner /\ Active(Account) = {}
                              \/ Backdate \/ AuditReturns
    /\ cmd'.pc = "insert" => Supersede
    /\ cmd'.pc = "conflict" => InsertConflict
    /\ cmd'.pc = "backdate" =>
         \/ InsertNarrative /\ cmd'.row = rows + 1
         \/ ReadWinner /\ \E r \in Active(Account) : cmd'.row = r.row
    /\ cmd'.pc = "audit" => Backdate
    /\ cmd'.pc = "stamp" => NextWeek /\ cmd.pc = "week"

\* A step of a run is progress.
LEMMA Progresses ==
  ASSUME TypeInv, RunStep
  PROVE  Progress
<1>1. cmd.kind = "run"
  BY RunMoves DEF RunStep
<1>2. /\ cmd.pc \in RunPcs /\ cmd.attempt \in Nat /\ cmd.next \in Nat /\ cmd.got \in Nat
      /\ cmd.week \in Nat /\ IsRun(cmd)
  BY <1>1, RunKnown
<1>3. ASSUME NEW n \in Nat, cmd' = Attempt(n)
      PROVE  Progress
  BY <1>1, <1>3, AttemptMoves DEF Progress
<1>4. CASE NextWeek
  <2>1. \/ cmd' = [cmd EXCEPT !.pc = "stamp"]
        \/ cmd.opts.dry /\ cmd' = [cmd EXCEPT !.week = @ + 1]
        \/ cmd' = Attempt(0)
    BY <1>4 DEF NextWeek
  <2>2. cmd.pc = "week"
    BY <1>4, StepsAt
  <2>3. CASE cmd' = [cmd EXCEPT !.pc = "stamp"]
    <3>1. cmd'.pc = "stamp" /\ cmd'.week = cmd.week
      BY <1>1, <2>3, StepMoves DEF RunPcs
    <3> QED
      BY <1>4, <2>2, <3>1 DEF Progress
  <2>4. CASE cmd.opts.dry /\ cmd' = [cmd EXCEPT !.week = @ + 1]
    <3>1. cmd'.pc = "week" /\ cmd'.week = cmd.week + 1
      BY <1>2, <2>2, <2>4 DEF IsRun
    <3> QED
      BY <1>4, <2>4, <3>1 DEF Progress
  <2>5. CASE cmd' = Attempt(0)
    BY <1>3, <2>5
  <2> QED
    BY <2>1, <2>3, <2>4, <2>5
<1>5. CASE IngestSignal \/ IngestClash
  <2>1. cmd.pc = "ingest"
    BY <1>5, StepsAt
  <2>2. Len(cmd.events) \in Nat
    BY <1>1, <2>1, AtEvents DEF TypeInv, PlacesKnown, Working
  <2>3. \/ cmd' = AtEvent(cmd.next + 1, cmd.got + 1)
        \/ cmd' = AtEvent(Len(cmd.events) + 1, 0)
    BY <1>5 DEF IngestSignal, IngestClash, Returned, AtEvent
  <2>4. cmd.next + 1 \in Nat /\ cmd.got + 1 \in Nat /\ Len(cmd.events) + 1 \in Nat /\ 0 \in Nat
    BY <1>2, <2>2
  <2>5. cmd'.pc = "ingest" /\ cmd'.week = cmd.week
    BY <1>1, <2>1, <2>3, <2>4, EventMoves
  <2> QED
    BY <2>5 DEF Progress
<1>6. CASE Supersede \/ InsertConflict
  <2>1. \/ Supersede /\ cmd' = [cmd EXCEPT !.pc = "insert"]
        \/ InsertConflict /\ cmd' = [cmd EXCEPT !.pc = "conflict"]
    BY <1>6 DEF Supersede, InsertConflict, Goto
  <2>2. \/ Supersede /\ cmd'.pc = "insert" /\ cmd'.week = cmd.week
        \/ InsertConflict /\ cmd'.pc = "conflict" /\ cmd'.week = cmd.week
    BY <1>1, <2>1, StepMoves DEF RunPcs
  <2> QED
    BY <2>2 DEF Progress
<1>7. CASE InsertNarrative
  <2>1. cmd' = AtRow(rows + 1) /\ rows + 1 \in Nat
    BY <1>7 DEF InsertNarrative, AtRow, TypeInv, NarrativesTyped
  <2>2. cmd'.pc = "backdate" /\ cmd'.week = cmd.week /\ cmd'.row = rows + 1
    BY <1>1, <2>1, RowMoves
  <2> QED
    BY <1>7, <2>2 DEF Progress
<1>8. CASE ReadWinner
  <2>1. CASE Active(Account) = {}
    <3>1. cmd' = WeekDone
      BY <1>8, <2>1 DEF ReadWinner
    <3>2. cmd'.pc = "week" /\ cmd'.week = cmd.week + 1
      BY <1>1, <3>1, WeekDoneMoves
    <3> QED
      BY <1>8, <2>1, <3>2 DEF Progress
  <2>2. CASE Active(Account) # {}
    <3> DEFINE won == CHOOSE r \in Active(Account) : TRUE
    <3>1. won \in Active(Account)
      BY <2>2
    <3>2. won.row \in Nat
      BY <3>1 DEF Active, TypeInv, NarrativesTyped, NarrativeRow
    <3>3. cmd' = AtRow(won.row)
      BY <1>8, <2>2 DEF ReadWinner, AtRow
    <3> HIDE DEF won
    <3>4. cmd'.pc = "backdate" /\ cmd'.week = cmd.week /\ cmd'.row = won.row
      BY <1>1, <3>2, <3>3, RowMoves
    <3> QED
      BY <1>8, <3>1, <3>4 DEF Progress
  <2> QED
    BY <2>1, <2>2
<1>9. CASE Backdate
  <2>1. cmd' = [cmd EXCEPT !.pc = "audit"] \/ cmd' = WeekDone
    BY <1>9 DEF Backdate, Written
  <2>2. \/ cmd'.pc = "audit" /\ cmd'.week = cmd.week
        \/ cmd'.pc = "week" /\ cmd'.week = cmd.week + 1
    BY <1>1, <2>1, StepMoves, WeekDoneMoves DEF RunPcs
  <2> QED
    BY <1>9, <2>2 DEF Progress
<1>10. CASE AuditReturns
  <2>1. cmd' = WeekDone
    BY <1>10 DEF AuditReturns
  <2>2. cmd'.pc = "week" /\ cmd'.week = cmd.week + 1
    BY <1>1, <2>1, WeekDoneMoves
  <2> QED
    BY <1>10, <2>2 DEF Progress
<1>11. CASE AttemptFails
  <2>1. CASE cmd.attempt < cmd.opts.retries
    <3>1. cmd' = Attempt(cmd.attempt + 1) /\ cmd.attempt + 1 \in Nat
      BY <1>2, <1>11, <2>1 DEF AttemptFails, AfterFailure
    <3> QED
      BY <1>3, <3>1
  <2>2. CASE ~(cmd.attempt < cmd.opts.retries)
    <3>1. cmd'.pc = "next"
      BY <1>11, <2>2, StepPcs
    <3> QED
      BY <3>1 DEF Progress
  <2> QED
    BY <2>1, <2>2
<1> QED
  BY <1>4, <1>5, <1>6, <1>7, <1>8, <1>9, <1>10, <1>11 DEF RunStep

\* A step within a run: its entry, options and number stay.
Onward ==
    /\ RunStep /\ Progress /\ cmd.kind = "run" /\ cmd.pc \in Working
    /\ UNCHANGED <<file, entryIds, commands>>
    /\ cmd'.at = cmd.at /\ cmd'.opts = cmd.opts /\ cmd'.run = cmd.run
    /\ Entry' = Entry /\ Account' = Account /\ NWeeks' = NWeeks

\* How a run gets to work on an entry.
LEMMA RunArrives ==
  ASSUME TypeInv, Next, cmd'.kind = "run", cmd'.pc # "next"
  PROVE  \/ UNCHANGED <<file, entryIds, cmd>>
         \/ NextEntry /\ cmd'.pc = "week" /\ cmd'.week = 1 /\ UNCHANGED <<file, entryIds>>
         \/ Onward
<1>1. cmd' # NoCommand /\ ~Revert /\ ~Audit
  <2>1. cmd' # NoCommand
    BY DEF NoCommand
  <2>2. Revert => cmd'.kind # "run"
    BY DEF Revert
  <2>3. Audit => cmd'.kind # "run"
    BY DEF Audit
  <2> QED
    BY <2>1, <2>2, <2>3
<1>2. cmd' # Running(file', DefaultOptions) /\ ~Run /\ ~Resume
  BY DEF Run, Resume, Running
<1>3. ~Stamp
  BY StampMoves
<1>4. ~(DeleteAudits \/ DeleteAuditRuns \/ DeleteSignals \/ DeleteNarratives \/ DeleteScores
        \/ DeleteSnapshots)
  <2>1. (DeleteAudits \/ DeleteAuditRuns \/ DeleteSignals \/ DeleteNarratives \/ DeleteScores
         \/ DeleteSnapshots) =>
          cmd'.kind = "revert"
    BY RevertMoves
  <2> QED
    BY <2>1
<1>5. ~AuditNext /\ ~Collect
  <2>1. AuditNext => cmd'.kind = "audit"
    BY PickMoves
  <2>2. Collect /\ auditor.pc # "raised" => cmd'.kind = "audit"
    BY CollectMoves
  <2>3. Collect /\ auditor.pc = "raised" => cmd' = NoCommand
    BY DEF Collect, Returns, Finish
  <2> QED
    BY <1>1, <2>1, <2>2, <2>3
<1>6. CASE NextEntry /\ cmd.queue # {}
  BY <1>6, NextMoves
<1>7. CASE RunStep
  <2>1. Moving /\ cmd.kind = "run" /\ UNCHANGED <<file, entryIds, commands>>
    BY <1>7, RunMoves DEF RunStep
  <2>2. /\ cmd'.at = cmd.at /\ cmd'.opts = cmd.opts /\ cmd'.run = cmd.run /\ cmd'.spec = cmd.spec
        /\ cmd'.pc \in RunPcs
    BY <2>1 DEF Moving, Moved
  <2>3. cmd'.pc \in Working /\ cmd.pc \in Working
    BY <2>1, <2>2 DEF Moving, RunPcs, Working
  <2>4. Entry' = Entry /\ Account' = Account
    BY <2>2 DEF Entry, Account
  <2>5. NWeeks' = NWeeks
    BY <2>2, <2>4 DEF NWeeks
  <2>6. Progress
    BY <1>7, Progresses
  <2> QED
    BY <1>7, <2>1, <2>2, <2>3, <2>4, <2>5, <2>6 DEF Onward
<1> QED
  BY <1>1, <1>2, <1>3, <1>4, <1>5, <1>6, <1>7, CommandChanges DEF RunStep

-----------------------------------------------------------------------------
(* The row of a week in progress, and the rows of the verdicts. *)

Unaudited(n) == \A v \in auditRuns : v.row # n
Judged(row, run) == \E v \in auditRuns : v.row = row /\ v.run = run

\* A verdict is on a row that was there, of a run that was there; so is the audit in
\* progress.
VerdictsPlaced ==
    /\ \A v \in auditRuns : v.row \in 1 .. rows /\ v.run \in 0 .. commands
    /\ auditor.pc # "idle" => auditor.row \in 1 .. rows /\ auditor.run \in 0 .. commands

\* A narrative found between a week's supersede and its insert is a production one
\* without a verdict; the row to be dated is the week's own, or such a one.
RowAhead ==
    cmd.kind = "run" =>
        /\ cmd.pc \in {"insert", "conflict"} =>
             \A r \in Active(Account) : r.entry = Null /\ Unaudited(r.row)
        /\ cmd.pc = "conflict" => <<Entry.id, cmd.week>> \in excused
        /\ cmd.pc = "backdate" =>
             /\ Unaudited(cmd.row)
             /\ \E r \in narratives :
                  /\ r.row = cmd.row /\ r.account = Account
                  /\ \/ r.entry = Entry.id /\ r.week = cmd.week
                     \/ r.entry = Null /\ <<Entry.id, cmd.week>> \in excused

RowsInv == VerdictsPlaced /\ RowAhead

\* The verdict the audit in progress is about to write.
Verdict == [row |-> auditor.row, run |-> auditor.run, passed |-> GatePassed(auditor.failed)]

\* A verdict comes from an aggregate, where there was none.
LEMMA VerdictsCome ==
  ASSUME Next
  PROVE  \/ auditRuns' \subseteq auditRuns
         \/ /\ Audits /\ WriteAggregate
            /\ auditor.pc = "criteria" /\ auditor.wrote = Len(Criteria)
            /\ ~Judged(auditor.row, auditor.run)
            /\ auditRuns' = auditRuns \cup {Verdict} /\ auditor' = [auditor EXCEPT !.pc = "done"]
<1>1. CASE Backdate \/ AuditReturns \/ AuditCallFails \/ Crash
  BY <1>1 DEF Backdate, AuditReturns, AuditCallFails, CallFails, Crash
<1>2. CASE AuditNext \/ Collect
  BY <1>2, Zenon DEF AuditNext, Collect
<1>3. CASE Audits
  <2>1. CASE AskModel
    BY <2>1, Zenon DEF AskModel
  <2>2. CASE WriteCriterion \/ Undo
    BY <2>2 DEF WriteCriterion, Undo
  <2>3. CASE WriteAggregate
    BY <1>3, <2>3 DEF WriteAggregate, Judged, Verdict
  <2> QED
    BY <1>3, <2>1, <2>2, <2>3 DEF Audits, Auditing
<1> QED
  BY <1>1, <1>2, <1>3, AuditorChanges

\* No verdict comes while no command waits for an audit.
LEMMA NoVerdictComes ==
  ASSUME TypeInv, Next, ~Awaited
  PROVE  auditRuns' \subseteq auditRuns
BY VerdictsCome DEF TypeInv, AuditorPlaced, NoAudit

\* Losses are not taken back.
LEMMA ExcusedGrows ==
  ASSUME Next
  PROVE  excused \subseteq excused'
<1>1. CASE InsertConflict \/ Backdate \/ Stamp
  BY <1>1 DEF InsertConflict, Backdate, Stamp
<1>2. CASE NextEntry
  BY <1>2, Zenon DEF NextEntry, history
<1>3. CASE AuditNext \/ Collect
  BY <1>3, Zenon DEF AuditNext, Collect, history
<1>4. CASE Audits \/ AuditCallFails
  BY <1>4 DEF Audits, AuditCallFails, history
<1> QED
  BY <1>1, <1>2, <1>3, <1>4 DEF Next, Works, Author, Bootstrap, Prune, Run, Resume, Revert, Audit,
     NextWeek, IngestSignal, IngestClash, Supersede, InsertNarrative, ReadWinner, AuditReturns,
     AttemptFails, DeleteAudits, DeleteAuditRuns, DeleteSignals, DeleteNarratives, DeleteScores,
     DeleteSnapshots,
     AuditExits, Crash, WorkerSupersedes, WorkerInserts, history

\* Verdicts and audits stay on rows that were there.
LEMMA VerdictsPlacedStay ==
  ASSUME TypeInv, RowsInv, Next
  PROVE  VerdictsPlaced'
<1>1. /\ rows \in Nat /\ rows' \in Nat /\ rows <= rows'
      /\ commands \in Nat /\ commands' \in Nat /\ commands <= commands'
  BY NarrativesStay, CountersStay DEF TypeInv, NarrativesTyped, CountersTyped
<1>2. \A n : n \in 1 .. rows => n \in 1 .. rows'
  BY <1>1
<1>3. \A n : n \in 0 .. commands => n \in 0 .. commands'
  BY <1>1
<1>4. \A v \in auditRuns' : v.row \in 1 .. rows' /\ v.run \in 0 .. commands'
  <2>1. CASE auditRuns' \subseteq auditRuns
    BY <1>2, <1>3, <2>1 DEF RowsInv, VerdictsPlaced
  <2>2. CASE auditRuns' = auditRuns \cup {Verdict} /\ auditor.pc = "criteria"
    <3>1. Verdict.row \in 1 .. rows /\ Verdict.run \in 0 .. commands
      BY <2>2 DEF RowsInv, VerdictsPlaced, Verdict
    <3> QED
      BY <1>2, <1>3, <2>2, <3>1 DEF RowsInv, VerdictsPlaced
  <2> QED
    BY <2>1, <2>2, VerdictsCome
<1>5. auditor'.pc # "idle" => auditor'.row \in 1 .. rows /\ auditor'.run \in 0 .. commands
  <2>1. CASE Backdate
    <3>1. /\ cmd.kind = "run" /\ cmd.pc = "backdate"
          /\ Begin(cmd.row, cmd.run) \/ auditor' = auditor
      BY <2>1, StepsAt DEF Backdate
    <3>2. cmd.row \in 1 .. rows
      <4>1. PICK r \in narratives : r.row = cmd.row
        BY <3>1 DEF RowsInv, RowAhead
      <4> QED
        BY <4>1 DEF TypeInv, NarrativesTyped, NarrativeRow
    <3>3. cmd.run \in 0 .. commands
      BY <3>1, RunKnown
    <3>4. Begin(cmd.row, cmd.run) => auditor'.row = cmd.row /\ auditor'.run = cmd.run
      BY DEF Begin, NoAudit
    <3> QED
      BY <3>1, <3>2, <3>3, <3>4 DEF RowsInv, VerdictsPlaced
  <2>2. CASE AuditReturns \/ Collect \/ Crash
    <3>1. auditor' = NoAudit
      BY <2>2 DEF AuditReturns, Collect, Crash
    <3> QED
      BY <3>1 DEF NoAudit
  <2>3. CASE AuditNext
    <3>1. cmd.kind = "audit"
      BY <2>3, StepsAt
    <3>2. PICK n \in cmd.todo : Begin(n, cmd.run)
      BY <2>3, PickMoves
    <3>3. n \in 1 .. rows /\ cmd.run \in 0 .. commands
      BY <3>1, AuditKnown
    <3>4. auditor'.row = n /\ auditor'.run = cmd.run
      BY <3>2 DEF Begin, NoAudit
    <3> QED
      BY <3>3, <3>4
  <2>4. CASE Audits \/ AuditCallFails
    <3>1. Auditing \/ CallFails
      BY <2>4 DEF Audits, AuditCallFails
    <3>2. auditor.pc # "idle" /\ auditor'.row = auditor.row /\ auditor'.run = auditor.run
      BY <3>1, AuditingTyped DEF TypeInv, AuditorPlaced
    <3> QED
      BY <3>2 DEF RowsInv, VerdictsPlaced
  <2>5. CASE auditor' = auditor
    BY <2>5 DEF RowsInv, VerdictsPlaced
  <2> QED
    BY <2>1, <2>2, <2>3, <2>4, <2>5, AuditorChanges
<1> QED
  BY <1>2, <1>3, <1>4, <1>5 DEF VerdictsPlaced

\* The week's row stays what it is to be.
LEMMA RowAheadStays ==
  ASSUME TypeInv, RowsInv, Next
  PROVE  RowAhead'
<1> SUFFICES ASSUME cmd'.kind = "run", cmd'.pc \in {"insert", "conflict", "backdate"}
             PROVE  RowAhead'
  BY DEF RowAhead, Unaudited
<1> DEFINE Still(n) == \A v \in auditRuns' : v.row # n
<1>1. rows \in Nat /\ NarrativesTyped
  BY DEF TypeInv, NarrativesTyped
<1>2. UNCHANGED <<file, entryIds, cmd>> \/ Onward
  BY RunArrives
<1>3. cmd.kind = "run" /\ cmd.pc # "audit"
  <2>1. CASE UNCHANGED <<file, entryIds, cmd>>
    BY <2>1
  <2>2. CASE Onward
    BY <2>2, StepPcs, StepsAt DEF Onward, Progress
  <2> QED
    BY <1>2, <2>1, <2>2
<1>4. auditRuns' \subseteq auditRuns /\ excused \subseteq excused'
  BY <1>3, NoVerdictComes, ExcusedGrows DEF Awaited
<1>5. ASSUME NEW n, Unaudited(n) PROVE Still(n)
  BY <1>4, <1>5 DEF Unaudited
<1>6. Still(rows + 1)
  <2>1. \A v \in auditRuns : v.row \in 1 .. rows
    BY DEF RowsInv, VerdictsPlaced
  <2> QED
    BY <1>1, <1>4, <2>1
<1> HIDE DEF Still
<1>7. CASE UNCHANGED <<file, entryIds, cmd>>
  <2>1. Account' = Account /\ Entry' = Entry
    BY <1>7 DEF Account, Entry
  <2>2. ASSUME cmd.pc \in {"insert", "conflict"}, NEW s \in Active(Account)'
        PROVE  s.entry = Null /\ Still(s.row)
    <3>1. s \in narratives' /\ s.account = Account /\ s.active
      BY <2>1, <2>2 DEF Active
    <3>2. ~InsertNarrative
      BY <1>7, <2>2, StepPcs
    <3>3. CASE \E r \in narratives : Carried(s, r)
      <4>1. PICK r \in narratives : Carried(s, r)
        BY <3>3
      <4>2. r \in Active(Account) /\ s.entry = r.entry /\ s.row = r.row
        BY <3>1, <4>1 DEF Carried, SameNarrative, Active
      <4>3. r.entry = Null /\ Unaudited(r.row)
        BY <1>3, <2>2, <4>2 DEF RowsInv, RowAhead
      <4> QED
        BY <1>5, <4>2, <4>3
    <3>4. CASE Produced(s)
      BY <1>6, <3>4 DEF Produced
    <3> QED
      BY <3>1, <3>2, <3>3, <3>4, RowsCome DEF Inserted
  <2>3. cmd.pc = "conflict" => <<Entry.id, cmd.week>> \in excused'
    BY <1>3, <1>4 DEF RowsInv, RowAhead
  <2>4. ASSUME cmd.pc = "backdate"
        PROVE  /\ Still(cmd.row)
               /\ \E s \in narratives' :
                    /\ s.row = cmd.row /\ s.account = Account
                    /\ \/ s.entry = Entry.id /\ s.week = cmd.week
                       \/ s.entry = Null /\ <<Entry.id, cmd.week>> \in excused'
    <3>1. Unaudited(cmd.row)
      BY <1>3, <2>4 DEF RowsInv, RowAhead
    <3>2. PICK r \in narratives : /\ r.row = cmd.row /\ r.account = Account
                                  /\ \/ r.entry = Entry.id /\ r.week = cmd.week
                                     \/ r.entry = Null /\ <<Entry.id, cmd.week>> \in excused
      BY <1>3, <2>4 DEF RowsInv, RowAhead
    <3>3. ~DeleteNarratives
      BY <1>3, StepsAt
    <3>4. PICK s \in narratives' : Carried(s, r)
      BY <3>3, RowsStay
    <3>5. /\ s.row = cmd.row /\ s.account = Account
          /\ \/ s.entry = Entry.id /\ s.week = cmd.week
             \/ s.entry = Null /\ <<Entry.id, cmd.week>> \in excused'
      BY <1>4, <3>2, <3>4 DEF Carried, SameNarrative
    <3> QED
      BY <1>5, <3>1, <3>5
  <2> QED
    BY <1>7, <2>1, <2>2, <2>3, <2>4 DEF RowAhead, Unaudited, Still
<1>8. CASE Onward /\ cmd'.pc = "insert"
  <2>1. Supersede /\ Account' = Account
    BY <1>8 DEF Onward, Progress
  <2>2. narratives' = Deactivated(Account)
    BY <2>1 DEF Supersede
  <2>3. \A s \in narratives' : s.active => s.account # Account
    BY <1>1, <2>2, DeactivatedRows DEF SameNarrative
  <2>4. Active(Account)' = {}
    BY <2>1, <2>3 DEF Active
  <2> QED
    BY <1>8, <2>4 DEF RowAhead, Unaudited
<1>9. CASE Onward /\ cmd'.pc = "conflict"
  <2>1. InsertConflict /\ Account' = Account /\ Entry' = Entry /\ cmd'.week = cmd.week
    BY <1>9 DEF Onward, Progress
  <2>2. narratives' = narratives /\ cmd.pc = "insert" /\ <<Entry.id, cmd.week>> \in excused'
    BY <2>1, StepsAt DEF InsertConflict, tables
  <2>3. Active(Account)' = Active(Account)
    BY <2>1, <2>2 DEF Active
  <2>4. \A r \in Active(Account) : r.entry = Null /\ Still(r.row)
    BY <1>3, <1>5, <2>2 DEF RowsInv, RowAhead
  <2> QED
    BY <1>9, <2>1, <2>2, <2>3, <2>4 DEF RowAhead, Unaudited, Still
<1>10. CASE Onward /\ InsertNarrative /\ cmd'.pc = "backdate" /\ cmd'.row = rows + 1
  <2>1. Account' = Account /\ Entry' = Entry /\ cmd'.week = cmd.week
    BY <1>10 DEF Onward, Progress
  <2>2. \E s \in narratives' : /\ s.row = rows + 1 /\ s.account = Account
                               /\ s.entry = Entry.id /\ s.week = cmd.week
    BY <1>10, InsertEffect
  <2> QED
    BY <1>6, <1>10, <2>1, <2>2 DEF RowAhead, Unaudited, Still
<1>11. CASE Onward /\ ReadWinner /\ cmd'.pc = "backdate" /\ \E r \in Active(Account) : cmd'.row = r.row
  <2>1. Account' = Account /\ Entry' = Entry /\ cmd'.week = cmd.week
    BY <1>11 DEF Onward, Progress
  <2>2. narratives' = narratives /\ cmd.pc = "conflict"
    BY <1>11, StepsAt DEF ReadWinner, tables
  <2>3. PICK r \in Active(Account) : cmd'.row = r.row
    BY <1>11
  <2>4. r.entry = Null /\ Unaudited(r.row) /\ <<Entry.id, cmd.week>> \in excused'
    BY <1>3, <1>4, <2>2 DEF RowsInv, RowAhead
  <2>5. r \in narratives' /\ r.account = Account
    BY <2>2 DEF Active
  <2> QED
    BY <1>5, <1>11, <2>1, <2>3, <2>4, <2>5 DEF RowAhead, Unaudited, Still
<1> QED
  BY <1>2, <1>7, <1>8, <1>9, <1>10, <1>11 DEF Onward, Progress

\* Every step keeps both.
LEMMA RowsInvStays ==
  ASSUME TypeInv, RowsInv, Next
  PROVE  RowsInv'
BY VerdictsPlacedStay, RowAheadStays DEF RowsInv

\* So does a step that changes nothing.
LEMMA RowsInvStutters ==
  ASSUME RowsInv, UNCHANGED vars
  PROVE  RowsInv'
BY DEF vars, tables, history, RowsInv, VerdictsPlaced, RowAhead, Unaudited, Active, Account, Entry

\* Both hold from the start.
LEMMA RowsInvInit ==
  ASSUME Init
  PROVE  RowsInv
BY DEF Init, AuditInit, NoAudit, NoCommand, RowsInv, VerdictsPlaced, RowAhead

-----------------------------------------------------------------------------
(* The criterion rows behind a verdict. *)

\* A verdict that has all the criterion rows it was computed from.
Backed(v) ==
    \A i \in DOMAIN Criteria :
        [row |-> v.row, run |-> v.run, criterion |-> Criteria[i]] \in audits

\* What the audit in progress has written; its narrative has no verdict of its run yet.
AuditSoFar ==
    /\ auditor.pc \in {"model", "criteria", "undo"} /\ auditor.run # Nightly =>
          ~Judged(auditor.row, auditor.run)
    /\ auditor.pc = "model" => auditor.wrote = 0
    /\ auditor.pc = "criteria" =>
          \A i \in 1 .. auditor.wrote :
             [row |-> auditor.row, run |-> auditor.run, criterion |-> Criteria[i]] \in audits

\* The narratives ahead of an audit command have no verdict of its run.
AuditsAhead ==
    cmd.kind = "audit" /\ cmd.run # Nightly => \A n \in cmd.todo : ~Judged(n, cmd.run)

\* A revert deletes no narrative whose verdict it leaves, and no criteria but of
\* narratives that it is to delete.
RevertSoFar ==
    cmd.kind = "revert" =>
        /\ cut <= cmd.date
        /\ cmd.pc \in {"audits", "runs"} =>
             /\ \A r \in Doomed : r.row \in cmd.rows \/ Unaudited(r.row)
             /\ \A n \in cmd.rows : \E r \in narratives : r.row = n /\ r.dated >= cmd.date
        /\ cmd.pc \in {"signals", "narratives"} => \A r \in Doomed : Unaudited(r.row)

AuditInv == AuditSoFar /\ AuditsAhead /\ RevertSoFar

\* Only a revert changes what is known of the dates reverted.
LEMMA CutByReverts ==
  ASSUME Next, ~Revert
  PROVE  UNCHANGED <<cut, late>>
<1>1. NextEntry \/ AuditNext \/ Collect => UNCHANGED <<cut, late>>
  BY Zenon DEF NextEntry, AuditNext, Collect, history
<1>2. Audits \/ AuditCallFails => UNCHANGED <<cut, late>>
  BY DEF Audits, AuditCallFails, history
<1> QED
  BY <1>1, <1>2 DEF Next, Works, Author, Bootstrap, Prune, Run, Resume, Audit, Stamp,
     NextWeek, IngestSignal, IngestClash, Supersede, InsertNarrative, InsertConflict, ReadWinner,
     Backdate, AuditReturns, AttemptFails, DeleteAudits, DeleteAuditRuns, DeleteSignals,
     DeleteNarratives, DeleteScores, DeleteSnapshots, AuditExits, Crash, WorkerSupersedes,
     WorkerInserts, history

\* The earliest revert date only falls, and with a revert.
LEMMA CutFalls ==
  ASSUME TypeInv, Next
  PROVE  /\ cut \in Int /\ cut' \in Int /\ cut' <= cut
         /\ ~Revert => cut' = cut
         /\ \A d \in RevertDates : cut' = Min({cut, d}) => cut' <= d
<1>1. cut \in Int
  BY DEF TypeInv, CountersTyped
<1>2. \A d \in RevertDates : Min({cut, d}) \in Int /\ Min({cut, d}) <= cut /\ Min({cut, d}) <= d
  <2> SUFFICES ASSUME NEW d \in RevertDates
               PROVE  Min({cut, d}) \in Int /\ Min({cut, d}) <= cut /\ Min({cut, d}) <= d
    OBVIOUS
  <2>1. d \in Int
    BY SimulatorAssumption
  <2>2. Min({cut, d}) = IF cut <= d THEN cut ELSE d
    BY <1>1, <2>1, OfTwo
  <2> QED
    BY <1>1, <2>1, <2>2
<1>3. ~Revert => cut' = cut
  BY CutByReverts
<1>4. cut' = cut \/ \E d \in RevertDates : cut' = Min({cut, d})
  BY CounterChanges
<1>5. cut' \in Int /\ cut' <= cut
  <2>1. CASE cut' = cut
    BY <1>1, <2>1
  <2>2. CASE \E d \in RevertDates : cut' = Min({cut, d})
    BY <1>2, <2>2
  <2> QED
    BY <1>4, <2>1, <2>2
<1>6. \A d \in RevertDates : cut' = Min({cut, d}) => cut' <= d
  <2> SUFFICES ASSUME NEW d \in RevertDates, cut' = Min({cut, d})
               PROVE  cut' <= d
    OBVIOUS
  <2> QED
    BY <1>2
<1> QED
  BY <1>1, <1>3, <1>5, <1>6

\* The steps of a revert in their order.
LEMMA RevertPasses ==
  ASSUME TypeInv
  PROVE  /\ DeleteAudits => cmd'.pc = "runs"
         /\ DeleteAuditRuns => cmd'.pc = "signals"
         /\ DeleteSignals => cmd'.pc = "narratives"
         /\ DeleteNarratives => cmd'.pc = "scores"
         /\ DeleteScores => cmd'.pc = "snapshots"
         /\ DeleteSnapshots => cmd'.pc = "prune"
<1>1. ASSUME cmd.kind = "revert", NEW pc, cmd' = [cmd EXCEPT !.pc = pc]
      PROVE  cmd'.pc = pc
  BY <1>1, RevertKnown DEF IsRevert
<1>2. (DeleteAudits \/ DeleteAuditRuns \/ DeleteSignals \/ DeleteNarratives \/ DeleteScores
       \/ DeleteSnapshots) =>
        cmd.kind = "revert"
  BY StepsAt
<1> QED
  BY <1>1, <1>2 DEF DeleteAudits, DeleteAuditRuns, DeleteSignals, DeleteNarratives, DeleteScores,
     DeleteSnapshots, Goto

\* How a revert comes to be where it is.
LEMMA RevertArrives ==
  ASSUME TypeInv, Next, cmd'.kind = "revert"
  PROVE  \/ /\ UNCHANGED <<cmd, cut>> /\ cmd.kind = "revert"
            /\ ~DeleteAudits /\ ~DeleteAuditRuns /\ ~DeleteSignals /\ ~DeleteNarratives
         \/ Revert
         \/ DeleteAudits \/ DeleteAuditRuns \/ DeleteSignals \/ DeleteNarratives \/ DeleteScores
         \/ DeleteSnapshots
<1>1. cmd' # NoCommand
  BY DEF NoCommand
<1>2. cmd' # Running(file', DefaultOptions) /\ ~Run /\ ~Resume
  BY DEF Run, Resume, Running
<1>3. Audit => cmd'.kind # "revert"
  BY DEF Audit
<1>4. ~(NextEntry /\ cmd.queue # {}) /\ ~Stamp
  BY NextMoves, StampMoves
<1>5. ~AuditNext /\ ~(Collect /\ auditor.pc # "raised") /\ ~(Collect /\ auditor.pc = "raised")
  <2>1. AuditNext => cmd'.kind = "audit"
    BY PickMoves
  <2>2. Collect /\ auditor.pc # "raised" => cmd'.kind = "audit"
    BY CollectMoves
  <2>3. Collect /\ auditor.pc = "raised" => cmd' = NoCommand
    BY DEF Collect, Returns, Finish
  <2> QED
    BY <1>1, <2>1, <2>2, <2>3
<1>6. RunStep => cmd'.kind = "run"
  BY RunMoves DEF RunStep, Moving, Moved
<1>7. ~RunStep
  BY <1>6
<1>8. CASE cmd # NoCommand /\ UNCHANGED <<file, entryIds, cmd>>
  <2>1. ~Revert
    BY <1>8 DEF Revert, Issue, Idle
  <2> QED
    BY <1>8, <2>1, CutFalls
<1> QED
  BY <1>1, <1>2, <1>3, <1>4, <1>5, <1>7, <1>8, CommandChanges DEF RunStep

\* How an audit command comes to be where it is.
LEMMA AuditArrives ==
  ASSUME TypeInv, Next, cmd'.kind = "audit"
  PROVE  \/ cmd' = cmd /\ cmd.kind = "audit"
         \/ Audit \/ AuditNext
         \/ Collect /\ auditor.pc # "raised"
<1>1. cmd' # NoCommand
  BY DEF NoCommand
<1>2. cmd' # Running(file', DefaultOptions) /\ ~Run /\ ~Resume
  BY DEF Run, Resume, Running
<1>3. Revert => cmd'.kind # "audit"
  BY DEF Revert
<1>4. ~(NextEntry /\ cmd.queue # {}) /\ ~Stamp
  BY NextMoves, StampMoves
<1>5. ~(Collect /\ auditor.pc = "raised")
  BY <1>1 DEF Collect, Returns, Finish
<1>6. RunStep => cmd'.kind = "run"
  BY RunMoves DEF RunStep, Moving, Moved
<1>7. ~RunStep
  BY <1>6
<1>8. (DeleteAudits \/ DeleteAuditRuns \/ DeleteSignals \/ DeleteNarratives \/ DeleteScores
       \/ DeleteSnapshots) =>
        cmd'.kind = "revert"
  BY RevertMoves
<1>9. ~(DeleteAudits \/ DeleteAuditRuns \/ DeleteSignals \/ DeleteNarratives \/ DeleteScores
        \/ DeleteSnapshots)
  BY <1>8
<1> QED
  BY <1>1, <1>2, <1>3, <1>4, <1>5, <1>7, <1>9, CommandChanges DEF RunStep

\* Only a revert's delete and an audit's undo take criterion rows away.
LEMMA CriteriaStay ==
  ASSUME Next, ~DeleteAudits, ~(Audits /\ Undo)
  PROVE  audits \subseteq audits'
<1>1. CASE Backdate \/ AuditReturns \/ DeleteAuditRuns \/ AuditCallFails \/ Crash
  BY <1>1 DEF Backdate, AuditReturns, DeleteAuditRuns, AuditCallFails, CallFails, Crash
<1>2. CASE AuditNext \/ Collect
  BY <1>2, Zenon DEF AuditNext, Collect
<1>3. CASE Audits
  <2>1. AskModel => audits' = audits
    BY Zenon DEF AskModel
  <2>2. WriteCriterion \/ WriteAggregate => audits \subseteq audits'
    BY DEF WriteCriterion, WriteAggregate
  <2> QED
    BY <1>3, <2>1, <2>2 DEF Audits, Auditing
<1> QED
  BY <1>1, <1>2, <1>3, AuditChanges

\* A verdict that is not there stays away unless the audit in progress is to give it.
LEMMA NotJudged ==
  ASSUME TypeInv, Next, NEW row, NEW run, ~Judged(row, run),
         Awaited /\ auditor.run = run => auditor.row # row
  PROVE  \A v \in auditRuns' : ~(v.row = row /\ v.run = run)
<1>1. CASE auditRuns' \subseteq auditRuns
  BY <1>1 DEF Judged
<1>2. CASE auditRuns' = auditRuns \cup {Verdict} /\ auditor.pc = "criteria"
  <2>1. Awaited
    BY <1>2 DEF TypeInv, AuditorPlaced, NoAudit
  <2>2. ~(Verdict.row = row /\ Verdict.run = run)
    BY <2>1 DEF Verdict
  <2> QED
    BY <1>2, <2>2 DEF Judged
<1> QED
  BY <1>1, <1>2, VerdictsCome

\* The audit in progress goes on as far as it has come.
LEMMA AuditSoFarStays ==
  ASSUME TypeInv, RowsInv, AuditInv, Next
  PROVE  AuditSoFar'
<1> DEFINE Unjudged(row, run) == \A v \in auditRuns' : ~(v.row = row /\ v.run = run)
           Row(row, run, i) == [row |-> row, run |-> run, criterion |-> Criteria[i]]
<1>1. ASSUME auditor'.pc \in {"model", "criteria", "undo"} /\ auditor'.run # Nightly =>
                Unjudged(auditor'.row, auditor'.run),
             auditor'.pc = "model" => auditor'.wrote = 0,
             auditor'.pc = "criteria" =>
                \A i \in 1 .. auditor'.wrote : Row(auditor'.row, auditor'.run, i) \in audits'
      PROVE  AuditSoFar'
  BY <1>1 DEF AuditSoFar, Judged, Nightly
<1>2. /\ auditor.pc \in {"model", "criteria", "undo"} /\ auditor.run # Nightly =>
             \A v \in auditRuns : ~(v.row = auditor.row /\ v.run = auditor.run)
      /\ auditor.pc = "model" => auditor.wrote = 0
      /\ auditor.pc = "criteria" =>
             \A i \in 1 .. auditor.wrote : Row(auditor.row, auditor.run, i) \in audits
  BY DEF AuditInv, AuditSoFar, Judged
<1>3. auditor.wrote \in Nat /\ Len(Criteria) \in Nat /\ AuditTypeOK
  BY CriteriaKnown DEF TypeInv, AuditorPlaced, AuditTypeOK
<1> HIDE DEF Unjudged, Row
<1>4. ASSUME NEW row, NEW run, Begin(row, run), Unjudged(row, run) PROVE AuditSoFar'
  <2>1. /\ auditor'.pc = "model" /\ auditor'.row = row /\ auditor'.run = run
        /\ auditor'.wrote = 0
    BY <1>4 DEF Begin, NoAudit
  <2> QED
    BY <1>1, <1>4, <2>1
<1>5. ASSUME auditor'.pc \notin {"model", "criteria", "undo"} PROVE AuditSoFar'
  BY <1>1, <1>5
<1>6. CASE Backdate
  <2>1. cmd.kind = "run" /\ cmd.pc = "backdate" /\ auditRuns' = auditRuns
    BY <1>6, StepsAt DEF Backdate
  <2>2. Unjudged(cmd.row, cmd.run)
    BY <2>1 DEF RowsInv, RowAhead, Unaudited, Unjudged
  <2>3. auditor = NoAudit
    BY <2>1 DEF TypeInv, AuditorPlaced, Awaited
  <2>4. Begin(cmd.row, cmd.run) \/ auditor' = auditor
    BY <1>6 DEF Backdate
  <2> QED
    BY <1>4, <1>5, <2>2, <2>3, <2>4 DEF NoAudit
<1>7. CASE AuditReturns \/ Collect \/ Crash
  <2>1. auditor' = NoAudit
    BY <1>7 DEF AuditReturns, Collect, Crash
  <2> QED
    BY <1>5, <2>1 DEF NoAudit
<1>8. CASE AuditNext
  <2>1. PICK n \in cmd.todo : Begin(n, cmd.run)
    BY <1>8, PickMoves
  <2>2. cmd.kind = "audit" /\ auditRuns' = auditRuns
    BY <1>8, Zenon DEF AuditNext
  <2>3. cmd.run # Nightly => Unjudged(n, cmd.run)
    BY <2>1, <2>2 DEF AuditInv, AuditsAhead, Judged, Unjudged
  <2>4. /\ auditor'.pc = "model" /\ auditor'.row = n /\ auditor'.run = cmd.run
        /\ auditor'.wrote = 0
    BY <2>1 DEF Begin, NoAudit
  <2> QED
    BY <1>1, <2>3, <2>4
<1>9. CASE Audits
  <2>1. CASE AskModel
    <3>1. PICK failed \in Verdicts :
             auditor' = [auditor EXCEPT !.pc = "criteria", !.failed = failed]
      BY <2>1, Zenon DEF AskModel
    <3>2. /\ auditor'.row = auditor.row /\ auditor'.run = auditor.run
          /\ auditor'.wrote = auditor.wrote /\ auditor'.pc = "criteria"
      BY <1>3, <3>1 DEF AuditTypeOK
    <3>3. auditor.pc = "model" /\ auditRuns' = auditRuns
      BY <2>1, Zenon DEF AskModel
    <3>4. auditor'.wrote = 0
      BY <1>2, <3>2, <3>3
    <3>5. 1 .. auditor'.wrote = {}
      BY <3>4
    <3>6. auditor'.run # Nightly => Unjudged(auditor'.row, auditor'.run)
      BY <1>2, <3>2, <3>3 DEF Unjudged
    <3> QED
      BY <1>1, <3>2, <3>5, <3>6
  <2>2. CASE WriteCriterion
    <3>1. /\ auditor.pc = "criteria" /\ auditRuns' = auditRuns
          /\ audits' = audits \cup {Row(auditor.row, auditor.run, auditor.wrote + 1)}
          /\ auditor' = [auditor EXCEPT !.wrote = auditor.wrote + 1]
      BY <2>2 DEF WriteCriterion, Row
    <3>2. /\ auditor'.row = auditor.row /\ auditor'.run = auditor.run
          /\ auditor'.wrote = auditor.wrote + 1 /\ auditor'.pc = "criteria"
      BY <1>3, <3>1 DEF AuditTypeOK
    <3>3. \A i \in 1 .. auditor'.wrote : Row(auditor.row, auditor.run, i) \in audits'
      <4> SUFFICES ASSUME NEW i \in 1 .. auditor.wrote + 1
                   PROVE  Row(auditor.row, auditor.run, i) \in audits'
        BY <3>2
      <4>1. i \in 1 .. auditor.wrote \/ i = auditor.wrote + 1
        BY <1>3
      <4> QED
        BY <1>2, <3>1, <4>1
    <3>4. auditor'.run # Nightly => Unjudged(auditor'.row, auditor'.run)
      BY <1>2, <3>1, <3>2 DEF Unjudged
    <3> QED
      BY <1>1, <3>2, <3>3, <3>4
  <2>3. CASE WriteAggregate
    <3>1. CASE auditor' = [auditor EXCEPT !.pc = "undo"] /\ UNCHANGED auditRuns
      <4>1. /\ auditor'.row = auditor.row /\ auditor'.run = auditor.run /\ auditor'.pc = "undo"
            /\ auditor.pc = "criteria"
        BY <1>3, <2>3, <3>1 DEF AuditTypeOK, WriteAggregate
      <4>2. auditor'.run # Nightly => Unjudged(auditor'.row, auditor'.run)
        BY <1>2, <3>1, <4>1 DEF Unjudged
      <4> QED
        BY <1>1, <4>1, <4>2
    <3>2. CASE auditor' = [auditor EXCEPT !.pc = "done"]
      <4>1. auditor'.pc = "done"
        BY <1>3, <3>2 DEF AuditTypeOK
      <4> QED
        BY <1>5, <4>1
    <3> QED
      BY <2>3, <3>1, <3>2 DEF WriteAggregate
  <2>4. CASE Undo
    <3>1. auditor'.pc = "raised"
      BY <1>3, <2>4 DEF AuditTypeOK, Undo
    <3> QED
      BY <1>5, <3>1
  <2> QED
    BY <1>9, <2>1, <2>2, <2>3, <2>4 DEF Audits, Auditing
<1>10. CASE AuditCallFails
  <2>1. /\ auditor.pc \in {"model", "criteria", "undo"} /\ auditRuns' = auditRuns
        /\ \E pc \in {"undo", "raised"} : auditor' = [auditor EXCEPT !.pc = pc]
    BY <1>10 DEF AuditCallFails, CallFails
  <2>2. /\ auditor'.row = auditor.row /\ auditor'.run = auditor.run
        /\ auditor'.pc \in {"undo", "raised"}
    BY <1>3, <2>1 DEF AuditTypeOK
  <2>3. auditor'.run # Nightly => Unjudged(auditor'.row, auditor'.run)
    BY <1>2, <2>1, <2>2 DEF Unjudged
  <2> QED
    BY <1>1, <2>2, <2>3
<1>11. CASE auditor' = auditor /\ auditRuns' \subseteq auditRuns /\ ~Audits
  <2>1. auditor.pc # "idle" => Awaited
    BY DEF TypeInv, AuditorPlaced, NoAudit
  <2>2. auditor.pc # "idle" => audits \subseteq audits'
    <3>1. Awaited => ~DeleteAudits
      BY StepsAt DEF Awaited
    <3> QED
      BY <1>11, <2>1, <3>1, CriteriaStay
  <2>3. auditor'.pc \in {"model", "criteria", "undo"} /\ auditor'.run # Nightly =>
           Unjudged(auditor'.row, auditor'.run)
    BY <1>2, <1>11 DEF Unjudged
  <2>4. auditor'.pc = "criteria" =>
           \A i \in 1 .. auditor'.wrote : Row(auditor'.row, auditor'.run, i) \in audits'
    BY <1>2, <1>11, <2>2
  <2> QED
    BY <1>1, <1>2, <1>11, <2>3, <2>4
<1> QED
  BY <1>6, <1>7, <1>8, <1>9, <1>10, <1>11, AuditorChanges

\* No narrative ahead of an audit command gets a verdict of its run.
LEMMA AuditsAheadStay ==
  ASSUME TypeInv, RowsInv, AuditInv, Next
  PROVE  AuditsAhead'
<1> DEFINE Unjudged(row, run) == \A v \in auditRuns' : ~(v.row = row /\ v.run = run)
<1> SUFFICES ASSUME cmd'.kind = "audit", cmd'.run # Nightly, NEW n \in cmd'.todo
             PROVE  Unjudged(n, cmd'.run)
  BY DEF AuditsAhead, Judged, Nightly
<1>1. CASE cmd' = cmd /\ cmd.kind = "audit"
  <2>1. ~Judged(n, cmd.run)
    BY <1>1 DEF AuditInv, AuditsAhead
  <2>2. Awaited => auditor.row # n
    BY <1>1 DEF TypeInv, AuditorPlaced
  <2> QED
    BY <1>1, <2>1, <2>2, NotJudged
<1>2. CASE Audit
  <2>1. auditRuns' = auditRuns /\ commands' = commands + 1
    BY <1>2 DEF Audit, Issue
  <2>2. cmd'.run \in {Nightly, commands + 1}
    BY <1>2, <2>1 DEF Audit, RunId
  <2>3. \A v \in auditRuns : v.run \in 0 .. commands
    BY DEF RowsInv, VerdictsPlaced
  <2>4. commands \in Nat
    BY DEF TypeInv, CountersTyped
  <2> QED
    BY <2>1, <2>2, <2>3, <2>4
<1>3. CASE AuditNext
  <2>1. cmd.kind = "audit" /\ cmd'.run = cmd.run /\ cmd'.todo \subseteq cmd.todo
    BY <1>3, PickMoves
  <2>2. auditRuns' = auditRuns
    BY <1>3, Zenon DEF AuditNext
  <2> QED
    BY <2>1, <2>2 DEF AuditInv, AuditsAhead, Judged
<1>4. CASE Collect /\ auditor.pc # "raised"
  <2>1. cmd.kind = "audit" /\ cmd'.run = cmd.run /\ cmd'.todo = cmd.todo
    BY <1>4, CollectMoves
  <2>2. auditRuns' = auditRuns
    BY <1>4, Zenon DEF Collect
  <2> QED
    BY <2>1, <2>2 DEF AuditInv, AuditsAhead, Judged
<1> QED
  BY <1>1, <1>2, <1>3, <1>4, AuditArrives

\* A narrative a revert is to delete has lost its verdicts before.
LEMMA RevertSoFarStays ==
  ASSUME TypeInv, RowsInv, AuditInv, Next
  PROVE  RevertSoFar'
<1> DEFINE Still(n) == \A v \in auditRuns' : v.row # n
           Late == {s \in narratives' : s.account \in DOMAIN cmd'.spec /\ s.dated >= cmd'.date}
<1> SUFFICES ASSUME cmd'.kind = "revert"
             PROVE  RevertSoFar'
  BY DEF RevertSoFar
<1>1. ASSUME cut' <= cmd'.date,
             cmd'.pc \in {"audits", "runs"} => /\ \A s \in Late : s.row \in cmd'.rows \/ Still(s.row)
                                               /\ \A n \in cmd'.rows : \E s \in narratives' :
                                                    s.row = n /\ s.dated >= cmd'.date,
             cmd'.pc \in {"signals", "narratives"} => \A s \in Late : Still(s.row)
      PROVE  RevertSoFar'
  BY <1>1 DEF RevertSoFar, Doomed, Reverted, Unaudited
<1>2. CASE Revert
  <2>1. PICK d \in RevertDates :
          /\ cmd' = [kind |-> "revert", pc |-> "audits", run |-> 0, spec |-> file, date |-> d,
                     rows |-> {r.row : r \in {x \in narratives : x.account \in DOMAIN file
                                                                 /\ x.dated >= d}}]
          /\ cut' = Min({cut, d})
    BY <1>2 DEF Revert
  <2>2. narratives' = narratives
    BY <1>2 DEF Revert, tables
  <2>3. cut' <= d
    BY <2>1, CutFalls
  <2> QED
    BY <1>1, <2>1, <2>2, <2>3
<1>3. CASE ~Revert
  <2>1. cut' = cut /\ cut <= cmd.date /\ cmd.kind = "revert"
    BY <1>3, RevertArrives, StepsAt, CutFalls DEF AuditInv, RevertSoFar
  <2>2. auditRuns' \subseteq auditRuns
    BY <2>1, NoVerdictComes DEF Awaited
  <2>3. \A n : Unaudited(n) => Still(n)
    BY <2>2 DEF Unaudited
  <2>4. /\ cmd.pc \in {"audits", "runs"} =>
             /\ \A r \in Doomed : r.row \in cmd.rows \/ Unaudited(r.row)
             /\ \A n \in cmd.rows : \E r \in narratives : r.row = n /\ r.dated >= cmd.date
        /\ cmd.pc \in {"signals", "narratives"} => \A r \in Doomed : Unaudited(r.row)
    BY <2>1 DEF AuditInv, RevertSoFar
  <2>5. Still(rows + 1)
    <3>1. \A v \in auditRuns : v.row \in 1 .. rows
      BY DEF RowsInv, VerdictsPlaced
    <3>2. rows \in Nat
      BY DEF TypeInv, NarrativesTyped
    <3> QED
      BY <2>2, <3>1, <3>2
  <2> HIDE DEF Still
  <2>6. ASSUME cmd'.date = cmd.date, cmd'.spec = cmd.spec, NEW s \in Late
        PROVE  Still(s.row) \/ \E r \in Doomed : r.row = s.row
    <3>1. ~Backdate /\ ~InsertNarrative
      BY <2>1, StepsAt
    <3>2. (\E r \in narratives : Carried(s, r)) \/ Produced(s)
      BY <3>1, RowsCome DEF Inserted
    <3>3. CASE Produced(s)
      BY <2>5, <3>3 DEF Produced
    <3>4. CASE \E r \in narratives : Carried(s, r)
      <4>1. PICK r \in narratives : Carried(s, r)
        BY <3>4
      <4>2. s.dated = r.dated /\ s.account = r.account /\ s.row = r.row
        BY <3>1, <4>1 DEF Carried, SameNarrative
      <4> QED
        BY <2>6, <4>2 DEF Doomed, Reverted
    <3> QED
      BY <3>2, <3>3, <3>4
  <2> HIDE DEF Late
  <2>7. CASE /\ UNCHANGED <<cmd, cut>> /\ ~DeleteAudits /\ ~DeleteAuditRuns /\ ~DeleteSignals
             /\ ~DeleteNarratives
    <3>1. cmd'.pc \in {"audits", "runs"} => \A n \in cmd'.rows : \E s \in narratives' :
                                               s.row = n /\ s.dated >= cmd'.date
      <4> SUFFICES ASSUME cmd.pc \in {"audits", "runs"}, NEW n \in cmd.rows
                   PROVE  \E s \in narratives' : s.row = n /\ s.dated >= cmd.date
        BY <2>7
      <4>1. PICK r \in narratives : r.row = n /\ r.dated >= cmd.date
        BY <2>4
      <4>2. PICK s \in narratives' : Carried(s, r)
        BY <2>7, RowsStay
      <4>3. ~Backdate
        BY <2>1, StepsAt
      <4> QED
        BY <4>1, <4>2, <4>3 DEF Carried, SameNarrative
    <3>2. cmd'.pc \in {"audits", "runs"} => \A s \in Late : s.row \in cmd'.rows \/ Still(s.row)
      BY <2>3, <2>4, <2>6, <2>7
    <3>3. cmd'.pc \in {"signals", "narratives"} => \A s \in Late : Still(s.row)
      BY <2>3, <2>4, <2>6, <2>7
    <3> QED
      BY <1>1, <2>1, <2>7, <3>1, <3>2, <3>3
  <2>8. CASE DeleteAudits \/ DeleteAuditRuns \/ DeleteSignals
    <3>1. /\ cmd'.date = cmd.date /\ cmd'.rows = cmd.rows /\ cmd'.spec = cmd.spec
      BY <2>8, RevertMoves
    <3>2. narratives' = narratives
      BY <2>8 DEF DeleteAudits, DeleteAuditRuns, DeleteSignals, tables
    <3>3. CASE DeleteAudits
      <4>1. cmd'.pc = "runs" /\ cmd.pc = "audits"
        BY <3>3, RevertPasses, StepsAt
      <4> QED
        BY <1>1, <2>1, <2>3, <2>4, <2>6, <3>1, <3>2, <4>1
    <3>4. CASE DeleteAuditRuns
      <4>1. cmd'.pc = "signals" /\ cmd.pc = "runs"
        BY <3>4, RevertPasses, StepsAt
      <4>2. \A n \in cmd.rows : Still(n)
        BY <3>4 DEF DeleteAuditRuns, Still
      <4>3. \A s \in Late : Still(s.row)
        BY <2>3, <2>4, <2>6, <3>1, <4>1, <4>2
      <4> QED
        BY <1>1, <2>1, <3>1, <4>1, <4>3
    <3>5. CASE DeleteSignals
      <4>1. cmd'.pc = "narratives" /\ cmd.pc = "signals"
        BY <3>5, RevertPasses, StepsAt
      <4>2. \A s \in Late : Still(s.row)
        BY <2>3, <2>4, <2>6, <3>1, <4>1
      <4> QED
        BY <1>1, <2>1, <3>1, <4>1, <4>2
    <3> QED
      BY <2>8, <3>3, <3>4, <3>5
  <2>9. CASE DeleteNarratives \/ DeleteScores \/ DeleteSnapshots
    <3>1. cmd'.date = cmd.date /\ cmd'.pc \in {"scores", "snapshots", "prune"}
      BY <2>9, RevertMoves, RevertPasses
    <3> QED
      BY <1>1, <2>1, <3>1
  <2> QED
    BY <1>3, <2>7, <2>8, <2>9, RevertArrives
<1> QED
  BY <1>2, <1>3

\* The row of a week in progress, and what audits and reverts have done so far, are as
\* the invariants say in every state.
THEOREM WorkInOrder == Spec => [](RowsInv /\ AuditInv)
<1>1. Init => RowsInv /\ AuditInv
  <2> SUFFICES ASSUME Init PROVE RowsInv /\ AuditInv
    OBVIOUS
  <2>1. AuditInv
    BY DEF Init, AuditInit, NoAudit, NoCommand, AuditInv, AuditSoFar, AuditsAhead, RevertSoFar
  <2> QED
    BY <2>1, RowsInvInit
<1>2. TypeInv /\ RowsInv /\ AuditInv /\ [Next]_vars => RowsInv' /\ AuditInv'
  <2> SUFFICES ASSUME TypeInv, RowsInv, AuditInv, [Next]_vars
               PROVE  RowsInv' /\ AuditInv'
    OBVIOUS
  <2>1. CASE UNCHANGED vars
    <3>1. AuditSoFar' /\ AuditsAhead'
      BY <2>1 DEF vars, tables, history, AuditInv, AuditSoFar, AuditsAhead, Judged
    <3>2. RevertSoFar'
      BY <2>1 DEF vars, tables, history, AuditInv, RevertSoFar, Doomed, Reverted, Unaudited
    <3> QED
      BY <2>1, <3>1, <3>2, RowsInvStutters DEF AuditInv
  <2>2. CASE Next
    BY <2>2, RowsInvStays, AuditSoFarStays, AuditsAheadStay, RevertSoFarStays DEF AuditInv
  <2> QED
    BY <2>1, <2>2
<1> QED
  BY <1>1, <1>2, SimulatorTyped, PTL DEF Spec

\* Every verdict goes on having its criterion rows.
LEMMA BackedStays ==
  ASSUME TypeInv, RowsInv, AuditInv, AggregateBacked, Next
  PROVE  AggregateBacked'
<1> DEFINE Excepted(v) == v.run = Nightly \/ \E s \in narratives' : s.row = v.row /\ s.dated >= cut'
           Has(v) == \A i \in DOMAIN Criteria :
                        [row |-> v.row, run |-> v.run, criterion |-> Criteria[i]] \in audits'
<1> SUFFICES ASSUME NEW v \in auditRuns'
             PROVE  Excepted(v) \/ Has(v)
  BY DEF AggregateBacked, Nightly
<1>1. ASSUME NEW r \in narratives, v \in auditRuns, r.row = v.row, r.dated >= cut
      PROVE  Excepted(v)
  <2>1. ~Unaudited(r.row)
    BY <1>1 DEF Unaudited
  <2>2. ~(DeleteNarratives /\ r \in Doomed)
    BY <2>1, StepsAt DEF AuditInv, RevertSoFar
  <2>3. PICK s \in narratives' : Carried(s, r)
    BY <2>2, RowsStay
  <2>4. s.dated = r.dated
    <3>1. Backdate => r.row # cmd.row
      BY <2>1, StepsAt DEF RowsInv, RowAhead
    <3> QED
      BY <2>3, <3>1 DEF Carried
  <2>5. s.dated >= cut'
    <3>1. r.dated \in Int
      BY DEF TypeInv, NarrativesTyped, NarrativeRow
    <3> QED
      BY <1>1, <2>4, <3>1, CutFalls
  <2> QED
    BY <1>1, <2>3, <2>5 DEF Carried, SameNarrative
<1>2. CASE v \in auditRuns /\ (\E r \in narratives : r.row = v.row /\ r.dated >= cut)
  BY <1>1, <1>2
<1>3. CASE v \in auditRuns /\ v.run # Nightly /\ Backed(v)
  <2>1. CASE audits \subseteq audits'
    BY <1>3, <2>1 DEF Backed
  <2>2. CASE DeleteAudits
    <3>1. CASE v.row \in cmd.rows
      <4>1. cmd.kind = "revert" /\ cmd.pc = "audits" /\ cmd.date \in Int
        BY <2>2, StepsAt, RevertKnown, SimulatorAssumption
      <4>2. PICK r \in narratives : r.row = v.row /\ r.dated >= cmd.date
        BY <3>1, <4>1 DEF AuditInv, RevertSoFar
      <4>3. r.dated >= cut
        <5>1. cut <= cmd.date /\ cut \in Int
          BY <4>1, CutFalls DEF AuditInv, RevertSoFar
        <5>2. r.dated \in Int
          BY DEF TypeInv, NarrativesTyped, NarrativeRow
        <5> QED
          BY <4>1, <4>2, <5>1, <5>2
      <4> QED
        BY <1>1, <1>3, <4>2, <4>3
    <3>2. CASE v.row \notin cmd.rows
      BY <1>3, <2>2, <3>2 DEF DeleteAudits, Backed
    <3> QED
      BY <3>1, <3>2
  <2>3. CASE Audits /\ Undo
    <3>1. /\ auditor.pc = "undo"
          /\ audits' = {a \in audits : ~(a.row = auditor.row /\ a.run = auditor.run)}
      BY <2>3 DEF Undo
    <3>2. ~(v.row = auditor.row /\ v.run = auditor.run)
      BY <1>3, <3>1 DEF AuditInv, AuditSoFar, Judged
    <3> QED
      BY <1>3, <3>1, <3>2 DEF Backed
  <2> QED
    BY <2>1, <2>2, <2>3, CriteriaStay
<1>4. CASE v \notin auditRuns
  <2>1. /\ Audits /\ WriteAggregate /\ auditor.pc = "criteria" /\ auditor.wrote = Len(Criteria)
        /\ v = Verdict
    BY <1>4, VerdictsCome
  <2>2. audits' = audits
    BY <2>1 DEF WriteAggregate
  <2>3. \A i \in DOMAIN Criteria :
           [row |-> auditor.row, run |-> auditor.run, criterion |-> Criteria[i]] \in audits
    BY <2>1, CriteriaKnown DEF AuditInv, AuditSoFar
  <2> QED
    BY <2>1, <2>2, <2>3 DEF Verdict
<1> QED
  BY <1>2, <1>3, <1>4 DEF AggregateBacked, Backed

\* Every verdict outside the nightly runs has the criterion rows it was computed from,
\* except on a narrative that a revert was asked to delete: the undo of a failed
\* aggregate and the deletes of a revert, in their order, leave none without.
THEOREM VerdictsAreBacked == Spec => []AggregateBacked
<1>1. Init => AggregateBacked
  BY DEF Init, AuditInit, AggregateBacked
<1>2. TypeInv /\ RowsInv /\ AuditInv /\ AggregateBacked /\ [Next]_vars => AggregateBacked'
  <2>1. CASE UNCHANGED vars
    BY <2>1 DEF vars, tables, history, AggregateBacked
  <2> QED
    BY <2>1, BackedStays
<1> QED
  BY <1>1, <1>2, SimulatorTyped, WorkInOrder, PTL DEF Spec

-----------------------------------------------------------------------------
(* The weeks of a stamped entry. *)

\* Week w of entry e has its narrative, dated with the week's end, or is excepted.
Generated(e, w) ==
    \/ <<e.id, w>> \in excused
    \/ WeekEnd(e, w) >= cut
    \/ \E r \in narratives : r.entry = e.id /\ r.week = w /\ r.dated = WeekEnd(e, w)

\* The same of the state after a step.
GeneratedThen(e, w) ==
    \/ <<e.id, w>> \in excused'
    \/ WeekEnd(e, w) >= cut'
    \/ \E r \in narratives' : r.entry = e.id /\ r.week = w /\ r.dated = WeekEnd(e, w)

\* Every entry with a stamp is generated.
StampsTrue ==
    IsSpec(file, entryIds) =>
        \A a \in DOMAIN file : \A i \in DOMAIN file[a] :
            file[a][i].done => \A w \in Weeks(file[a][i]) : Generated(file[a][i], w)

\* The weeks that a run has behind it are generated.
WeeksBehind ==
    cmd.kind = "run" /\ cmd.pc \in Working /\ ~cmd.opts.dry =>
        \A w \in Weeks(Entry) :
            w < cmd.week \/ (cmd.pc = "audit" /\ w = cmd.week) => Generated(Entry, w)

GeneratedInv == StampsTrue /\ WeeksBehind

\* No step takes a week's narrative away, or its date, without an exception.
LEMMA GeneratedStays ==
  ASSUME TypeInv, RowsInv, AuditInv, Next,
         NEW e, NEW w, e.id \in 1 .. entryIds, WeekEnd(e, w) \in Int, Generated(e, w),
         Backdate /\ Entry.id = e.id => WeekEnd(e, cmd.week) = WeekEnd(Entry, cmd.week)
  PROVE  GeneratedThen(e, w)
<1>1. CASE <<e.id, w>> \in excused
  BY <1>1, ExcusedGrows DEF GeneratedThen
<1>2. CASE WeekEnd(e, w) >= cut
  <2>1. WeekEnd(e, w) >= cut'
    BY <1>2, CutFalls
  <2> QED
    BY <2>1 DEF GeneratedThen
<1>3. ASSUME NEW r \in narratives, r.entry = e.id, r.week = w, r.dated = WeekEnd(e, w)
      PROVE  GeneratedThen(e, w)
  <2>1. CASE DeleteNarratives /\ r \in Doomed
    <3>1. cmd.kind = "revert" /\ cmd.date \in Int /\ ~Revert
      <4>1. cmd.kind = "revert" /\ cmd.pc = "narratives"
        BY <2>1, StepsAt
      <4>2. ~Revert
        BY <4>1 DEF Revert, Issue, Idle, NoCommand
      <4> QED
        BY <4>1, <4>2, RevertKnown, SimulatorAssumption
    <3>2. r.dated >= cmd.date /\ cut <= cmd.date /\ cut' = cut /\ cut \in Int
      BY <2>1, <3>1, CutFalls DEF Doomed, AuditInv, RevertSoFar
    <3>3. WeekEnd(e, w) >= cut'
      BY <1>3, <3>1, <3>2
    <3> QED
      BY <3>3 DEF GeneratedThen
  <2>2. CASE ~(DeleteNarratives /\ r \in Doomed)
    <3>1. PICK s \in narratives' : Carried(s, r)
      BY <2>2, RowsStay
    <3>2. s.entry = e.id /\ s.week = w
      BY <1>3, <3>1 DEF Carried, SameNarrative
    <3>3. CASE s.dated = r.dated
      BY <1>3, <3>1, <3>2, <3>3 DEF GeneratedThen
    <3>4. CASE Backdate /\ r.row = cmd.row /\ s.dated = WeekEnd(Entry, cmd.week)
      <4>1. cmd.kind = "run" /\ cmd.pc = "backdate"
        BY <3>4, StepsAt
      <4>2. PICK q \in narratives :
               /\ q.row = cmd.row
               /\ (q.entry = Entry.id /\ q.week = cmd.week) \/ q.entry = Null
        BY <4>1 DEF RowsInv, RowAhead
      <4>3. q = r
        BY <3>4, <4>2 DEF TypeInv, NarrativesTyped
      <4>4. e.id # Null
        <5>1. e.id \in Int
          BY DEF TypeInv, FileTyped
        <5> QED
          BY <5>1, SimulatorAssumption
      <4>5. Entry.id = e.id /\ w = cmd.week
        BY <1>3, <4>2, <4>3, <4>4
      <4>6. s.dated = WeekEnd(e, w)
        BY <3>4, <4>5
      <4> QED
        BY <3>2, <4>6 DEF GeneratedThen
    <3> QED
      BY <3>1, <3>3, <3>4 DEF Carried
  <2> QED
    BY <2>1, <2>2
<1> QED
  BY <1>1, <1>2, <1>3 DEF Generated

\* The same of an entry of the file.
LEMMA FiledStays ==
  ASSUME TypeInv, RowsInv, AuditInv, Next, IsSpec(file, entryIds),
         NEW a \in DOMAIN file, NEW i \in DOMAIN file[a], NEW w \in Weeks(file[a][i]),
         Generated(file[a][i], w)
  PROVE  GeneratedThen(file[a][i], w)
<1> DEFINE e == file[a][i]
<1>1. entryIds \in Nat
  BY DEF TypeInv, FileTyped
<1>2. e \in EntryWith({e.params}, 1 .. entryIds) /\ Validates(e)
  BY <1>1, EntryKnown
<1>3. e.id \in 1 .. entryIds /\ e.start \in Int /\ e.end \in Int
  BY <1>2 DEF EntryWith
<1>4. WeekEnd(e, w) \in Int
  BY <1>2, <1>3, WeeksCounted
<1>5. Backdate /\ Entry.id = e.id => WeekEnd(e, cmd.week) = WeekEnd(Entry, cmd.week)
  <2> SUFFICES ASSUME Backdate, Entry.id = e.id
               PROVE  Entry = e
    OBVIOUS
  <2>1. cmd.kind = "run" /\ cmd.pc \in Working
    BY StepsAt DEF Working
  <2>2. IsPlace(cmd.at) /\ Entry = file[cmd.at[1]][cmd.at[2]]
    BY <2>1, AtEntry
  <2> QED
    BY <2>2, OnePlace DEF IsPlace
<1> QED
  BY <1>3, <1>4, <1>5, GeneratedStays

\* The narrative of a week gets its date, or the week is excepted.
LEMMA DatedNow ==
  ASSUME TypeInv, RowsInv, Backdate
  PROVE  GeneratedThen(Entry, cmd.week)
<1>1. /\ cmd.kind = "run" /\ cmd.pc = "backdate" /\ WeekEnd(Entry, cmd.week) \in Int
      /\ \/ narratives' = Redated(cmd.row, WeekEnd(Entry, cmd.week)) /\ excused' = excused
         \/ excused' = excused \cup {<<Entry.id, cmd.week>>}
  BY BackdateEffect
<1>2. PICK r \in narratives :
         /\ r.row = cmd.row
         /\ \/ r.entry = Entry.id /\ r.week = cmd.week
            \/ r.entry = Null /\ <<Entry.id, cmd.week>> \in excused
  BY <1>1 DEF RowsInv, RowAhead
<1>3. CASE <<Entry.id, cmd.week>> \in excused'
  BY <1>3 DEF GeneratedThen
<1>4. CASE /\ narratives' = Redated(cmd.row, WeekEnd(Entry, cmd.week)) /\ excused' = excused
           /\ r.entry = Entry.id /\ r.week = cmd.week
  <2>1. PICK s \in narratives' : SameNarrative(s, r) /\ s.dated = WeekEnd(Entry, cmd.week)
    BY <1>1, <1>2, <1>4, BackdatedRows DEF TypeInv
  <2> QED
    BY <1>4, <2>1 DEF GeneratedThen, SameNarrative
<1> QED
  BY <1>1, <1>2, <1>3, <1>4

\* A stamp is put on an entry all of whose weeks are generated, and stays true.
LEMMA StampsTrueStay ==
  ASSUME TypeInv, RowsInv, AuditInv, GeneratedInv, Next
  PROVE  StampsTrue'
<1> SUFFICES ASSUME IsSpec(file', entryIds'), NEW a \in DOMAIN file', NEW i \in DOMAIN file'[a],
                    file'[a][i].done, NEW w \in Weeks(file'[a][i])
             PROVE  GeneratedThen(file'[a][i], w)
  BY DEF StampsTrue, Generated, GeneratedThen
<1>1. ASSUME IsSpec(file, entryIds), a \in DOMAIN file, NEW j \in DOMAIN file[a],
             file'[a][i] = file[a][j]
      PROVE  GeneratedThen(file'[a][i], w)
  <2>1. Generated(file[a][j], w)
    BY <1>1 DEF GeneratedInv, StampsTrue
  <2> QED
    BY <1>1, <2>1, FiledStays
<1>2. CASE Stamp
  <2>1. /\ IsSpec(file, entryIds) /\ cmd.at[1] \in DOMAIN file /\ cmd.at[2] \in DOMAIN file[cmd.at[1]]
        /\ file' = StampedAt(file, cmd.at[1], cmd.at[2])
        /\ cmd.kind = "run" /\ cmd.pc = "stamp"
    BY <1>2, StampEffect
  <2>2. entryIds \in Nat
    BY DEF TypeInv, FileTyped
  <2>3. /\ DOMAIN file' = DOMAIN file
        /\ \A b \in DOMAIN file : /\ DOMAIN file'[b] = DOMAIN file[b]
                                  /\ \A j \in DOMAIN file[b] : Continues(file'[b][j], file[b][j])
        /\ \A b \in DOMAIN file : \A j \in DOMAIN file[b] :
             b # cmd.at[1] \/ j # cmd.at[2] => file'[b][j] = file[b][j]
    BY <2>1, <2>2, StampedSpec
  <2>4. CASE a # cmd.at[1] \/ i # cmd.at[2]
    BY <1>1, <2>1, <2>3, <2>4
  <2>5. CASE a = cmd.at[1] /\ i = cmd.at[2]
    <3>1. Entry = file[a][i] /\ Weeks(Entry) = 1 .. Len(WeekStarts(Entry)) /\ NWeeks \in Nat
      BY <2>1, <2>5, AtEntry DEF Working
    <3>2. Continues(file'[a][i], Entry)
      BY <2>1, <2>3, <2>5, <3>1
    <3>3. Weeks(file'[a][i]) = Weeks(Entry) /\ WeekEnd(file'[a][i], w) = WeekEnd(Entry, w)
      BY <3>2, WeeksStay
    <3>4. file'[a][i].id = Entry.id
      BY <3>2 DEF Continues
    <3>5. GeneratedThen(Entry, w)
      <4>1. CASE cmd.opts.dry \/ w > NWeeks
        <5>1. <<Entry.id, w>> \in Skipped
          BY <3>3, <4>1 DEF Skipped
        <5> QED
          BY <1>2, <5>1 DEF Stamp, GeneratedThen
      <4>2. CASE ~cmd.opts.dry /\ ~(w > NWeeks)
        <5>1. w < cmd.week
          <6>1. cmd.week > NWeeks /\ cmd.week \in Nat
            BY <2>1, RunKnown DEF TypeInv, PlacesKnown
          <6>2. w \in Int
            BY <3>1, <3>3
          <6> QED
            BY <3>1, <4>2, <6>1, <6>2
        <5>2. Generated(Entry, w)
          BY <2>1, <3>3, <4>2, <5>1 DEF GeneratedInv, WeeksBehind, Working
        <5> QED
          BY <2>1, <2>5, <3>1, <3>3, <5>2, FiledStays
      <4> QED
        BY <4>1, <4>2
    <3> QED
      BY <3>3, <3>4, <3>5 DEF GeneratedThen
  <2> QED
    BY <2>4, <2>5
<1>3. CASE UNCHANGED <<file, entryIds>>
  BY <1>1, <1>3
<1>4. CASE Rests(file', file, entryIds)
  BY <1>1, <1>4 DEF Rests
<1> QED
  BY <1>2, <1>3, <1>4, FileStays

\* What a run leaves behind is generated.
LEMMA WeeksBehindStay ==
  ASSUME TypeInv, RowsInv, AuditInv, GeneratedInv, Next
  PROVE  WeeksBehind'
<1> SUFFICES ASSUME cmd'.kind = "run", cmd'.pc \in Working, ~cmd'.opts.dry,
                    NEW w \in Weeks(Entry'),
                    w < cmd'.week \/ (cmd'.pc = "audit" /\ w = cmd'.week)
             PROVE  GeneratedThen(Entry', w)
  BY DEF WeeksBehind, Generated, GeneratedThen, Entry, Working, Weeks, WeekStarts, WeekEnd
<1>1. \/ UNCHANGED <<file, entryIds, cmd>>
      \/ NextEntry /\ cmd'.pc = "week" /\ cmd'.week = 1
      \/ Onward
  BY RunArrives DEF Working
<1>2. CASE NextEntry /\ cmd'.pc = "week" /\ cmd'.week = 1
  <2>1. cmd'.kind = "run" /\ IsSpec(file, entryIds) /\ entryIds \in Nat
    BY <1>2, StepsAt, RunKnown DEF TypeInv, FileTyped
  <2>2. Entry' \in Entries(file) /\ Validates(Entry') /\ Entry'.start \in Int /\ Entry'.end \in Int
    <3>1. cmd.queue # {}
      <4>1. cmd.queue = {} => cmd' = NoCommand
        BY <1>2, Zenon DEF NextEntry, Finish
      <4> QED
        BY <4>1 DEF NoCommand
    <3>2. cmd'.at \in cmd.queue /\ cmd'.spec = file /\ cmd.kind = "run"
      BY <1>2, <3>1, NextMoves, RunKnown
    <3>3. IsPlace(cmd'.at) /\ Entry' = file[cmd'.at[1]][cmd'.at[2]]
      BY <3>2 DEF TypeInv, PlacesKnown, Entry, IsPlace
    <3>4. Entry' \in EntryWith({Entry'.params}, 1 .. entryIds) /\ Validates(Entry')
          /\ Entry' \in Entries(file)
      BY <2>1, <3>3, EntryKnown DEF IsPlace
    <3> QED
      BY <3>4 DEF EntryWith
  <2>3. Weeks(Entry') = 1 .. Len(WeekStarts(Entry')) /\ Len(WeekStarts(Entry')) \in Nat
    BY <2>2, WeeksCounted
  <2>4. w \in Nat /\ w >= 1
    BY <2>3
  <2> QED
    BY <1>2, <2>4
<1>3. ASSUME cmd.kind = "run", cmd.pc \in Working, ~cmd.opts.dry, Entry' = Entry,
             w < cmd.week \/ (cmd.pc = "audit" /\ w = cmd.week)
      PROVE  GeneratedThen(Entry', w)
  <2>1. Generated(Entry, w)
    BY <1>3 DEF GeneratedInv, WeeksBehind
  <2>2. IsSpec(file, entryIds) /\ IsPlace(cmd.at) /\ Entry = file[cmd.at[1]][cmd.at[2]]
    BY <1>3, AtEntry
  <2> QED
    BY <1>3, <2>1, <2>2, FiledStays DEF IsPlace
<1>4. CASE UNCHANGED <<file, entryIds, cmd>>
  <2>1. Entry' = Entry
    BY <1>4 DEF Entry
  <2> QED
    BY <1>3, <1>4, <2>1
<1>5. CASE Onward
  <2>1. cmd.kind = "run" /\ cmd.pc \in Working /\ ~cmd.opts.dry /\ Entry' = Entry /\ Progress
    BY <1>5 DEF Onward
  <2>2. cmd.week \in Nat /\ w \in Int
    <3>1. Weeks(Entry) = 1 .. Len(WeekStarts(Entry))
      BY <2>1, AtEntry
    <3> QED
      BY <2>1, <3>1, RunKnown
  <2>3. CASE w < cmd.week
    BY <1>3, <2>1, <2>3
  <2>4. CASE w = cmd.week
    <3>1. CASE Backdate
      BY <2>1, <2>4, <3>1, DatedNow
    <3>2. CASE ReadWinner
      <4>1. <<Entry.id, w>> \in excused
        BY <2>1, <2>4, <3>2, StepsAt DEF RowsInv, RowAhead
      <4>2. <<Entry.id, w>> \in excused'
        BY <4>1, ExcusedGrows
      <4> QED
        BY <2>1, <4>2 DEF GeneratedThen
    <3>3. CASE AuditReturns
      BY <1>3, <2>1, <2>4, <3>3, StepsAt
    <3>4. Backdate \/ ReadWinner \/ AuditReturns
      <4>1. CASE cmd'.pc = "week"
        BY <2>1, <4>1 DEF Progress
      <4>2. CASE cmd'.pc # "week"
        <5>1. cmd'.week = cmd.week
          BY <2>1, <4>2 DEF Progress, Working
        <5>2. cmd'.pc = "audit"
          BY <2>2, <2>4, <5>1
        <5> QED
          BY <2>1, <5>2 DEF Progress
      <4> QED
        BY <4>1, <4>2
    <3> QED
      BY <3>1, <3>2, <3>3, <3>4
  <2>5. w < cmd.week \/ w = cmd.week
    <3>1. cmd'.week \in {cmd.week, cmd.week + 1}
      BY <2>1 DEF Progress, Working
    <3>2. cmd'.pc = "audit" => cmd'.week = cmd.week
      BY <2>1 DEF Progress
    <3> QED
      BY <2>2, <3>1, <3>2
  <2> QED
    BY <2>3, <2>4, <2>5
<1> QED
  BY <1>1, <1>2, <1>4, <1>5

\* An entry that the file says is generated has a narrative for each of its weeks with
\* the week's end as its date, whatever failed or crashed on the way, except where the
\* week was lost knowingly or a revert was asked for: a run stamps an entry only with
\* all of its weeks behind it, and no step takes one back.
THEOREM StampsAreTrue == Spec => []StampedIsGenerated
<1>1. Init => GeneratedInv
  <2> SUFFICES ASSUME Init PROVE GeneratedInv
    OBVIOUS
  <2>1. WeeksBehind
    BY DEF Init, NoCommand, WeeksBehind
  <2>2. StampsTrue
    <3> SUFFICES ASSUME IsSpec(file, entryIds), NEW a \in DOMAIN file, NEW i \in DOMAIN file[a]
                 PROVE  FALSE
      BY DEF StampsTrue
    <3>1. entryIds = 0 /\ entryIds \in Nat
      BY DEF Init
    <3>2. file[a][i] \in EntryWith({file[a][i].params}, 1 .. entryIds)
      BY <3>1, EntryKnown
    <3>3. file[a][i].id \in 1 .. entryIds
      BY <3>2 DEF EntryWith
    <3> QED
      BY <3>1, <3>3
  <2> QED
    BY <2>1, <2>2 DEF GeneratedInv
<1>2. TypeInv /\ RowsInv /\ AuditInv /\ GeneratedInv /\ [Next]_vars => GeneratedInv'
  <2>1. CASE UNCHANGED vars
    BY <2>1 DEF vars, tables, history, GeneratedInv, StampsTrue, WeeksBehind, Generated, Entry
  <2> QED
    BY <2>1, StampsTrueStay, WeeksBehindStay DEF GeneratedInv
<1>3. TypeInv /\ GeneratedInv => StampedIsGenerated
  <2> SUFFICES ASSUME TypeInv, GeneratedInv, file # Null, NEW e \in Entries(file), e.done,
                      NEW w \in Weeks(e)
               PROVE  Generated(e, w)
    BY DEF StampedIsGenerated, Generated
  <2>1. IsSpec(file, entryIds)
    BY DEF TypeInv, FileTyped, IsFile
  <2>2. PICK a \in DOMAIN file : \E i \in DOMAIN file[a] : e = file[a][i]
    BY PlaceOf
  <2> QED
    BY <2>1, <2>2 DEF GeneratedInv, StampsTrue
<1> QED
  BY <1>1, <1>2, <1>3, SimulatorTyped, WorkInOrder, PTL DEF Spec

-----------------------------------------------------------------------------
(* What an audit command has found so far. *)

\* The rows whose audits audit command c has collected, with call a in progress.
Collected(c, a) == (c.corpus \ c.todo) \ (IF c.pc = "wait" THEN {a.row} ELSE {})

FailedOn(verdicts, C, run) == {v \in verdicts : v.run = run /\ v.row \in C /\ ~v.passed}

FailedAt(outcomes) == {i \in DOMAIN outcomes : ~outcomes[i]}

\* The outcomes are those of the verdicts on rows C, one of each row.
Tallied(verdicts, C, run, outcomes) ==
    /\ \A n \in C : \E v \in verdicts : v.row = n /\ v.run = run
    /\ IsFiniteSet(C) /\ Cardinality(C) = Len(outcomes)
    /\ IsFiniteSet(FailedOn(verdicts, C, run))
    /\ Cardinality(FailedOn(verdicts, C, run)) = Cardinality(FailedAt(outcomes))

\* A run gives a narrative one verdict.
VerdictsUnique == \A u, v \in auditRuns : u.row = v.row /\ u.run = v.run => u = v

VerdictDone == auditor.pc = "done" => Verdict \in auditRuns

Tally == cmd.kind = "audit" => Tallied(auditRuns, Collected(cmd, auditor), cmd.run, cmd.outcomes)

JudgedInv == VerdictsUnique /\ VerdictDone /\ Tally

\* A new element makes a finite set larger by one.
LEMMA OneMore ==
  ASSUME NEW S, NEW x, IsFiniteSet(S), x \notin S
  PROVE  /\ IsFiniteSet(S \cup {x}) /\ Cardinality(S \cup {x}) = Cardinality(S) + 1
         /\ Cardinality(S) \in Nat
<1>1. Cardinality(S \cup {x}) = IF x \in S THEN Cardinality(S) ELSE Cardinality(S) + 1
  BY FS_AddElement
<1> QED
  BY <1>1, FS_AddElement, FS_CardinalityType

\* The failures of a command are counted by a natural number.
LEMMA FailuresCounted ==
  ASSUME NEW s \in Seq(BOOLEAN)
  PROVE  Len(s) \in Nat /\ IsFiniteSet(FailedAt(s)) /\ Cardinality(FailedAt(s)) \in Nat
<1>1. Len(s) \in Nat /\ DOMAIN s = 1 .. Len(s)
  OBVIOUS
<1>2. IsFiniteSet(1 .. Len(s))
  BY <1>1, FS_Interval
<1>3. FailedAt(s) \in SUBSET (1 .. Len(s))
  BY <1>1 DEF FailedAt
<1> QED
  BY <1>1, <1>2, <1>3, FS_Subset, FS_CardinalityType

\* One more outcome is one more failure or none.
LEMMA OutcomeAdded ==
  ASSUME NEW s \in Seq(BOOLEAN), NEW b \in BOOLEAN
  PROVE  /\ b => Cardinality(FailedAt(Append(s, b))) = Cardinality(FailedAt(s))
         /\ ~b => Cardinality(FailedAt(Append(s, b))) = Cardinality(FailedAt(s)) + 1
         /\ Len(Append(s, b)) = Len(s) + 1
<1>1. Len(s) \in Nat /\ DOMAIN s = 1 .. Len(s)
  OBVIOUS
<1>3. FailedAt(s) \in SUBSET (1 .. Len(s))
  BY <1>1 DEF FailedAt
<1>4. IsFiniteSet(FailedAt(s)) /\ Cardinality(FailedAt(s)) \in Nat
  BY FailuresCounted
<1>5. /\ DOMAIN Append(s, b) = 1 .. (Len(s) + 1) /\ Append(s, b)[Len(s) + 1] = b
      /\ \A i \in 1 .. Len(s) : Append(s, b)[i] = s[i]
      /\ Len(Append(s, b)) = Len(s) + 1
  BY <1>1
<1>6. 1 .. (Len(s) + 1) = (1 .. Len(s)) \cup {Len(s) + 1} /\ Len(s) + 1 \notin 1 .. Len(s)
  BY <1>1
<1>7. FailedAt(Append(s, b)) = FailedAt(s) \cup (IF b THEN {} ELSE {Len(s) + 1})
  BY <1>1, <1>5, <1>6 DEF FailedAt
<1>8. Len(s) + 1 \notin FailedAt(s)
  BY <1>3, <1>6
<1>9. ~b => Cardinality(FailedAt(Append(s, b))) = Cardinality(FailedAt(s)) + 1
  BY <1>4, <1>7, <1>8, OneMore
<1>10. b => FailedAt(Append(s, b)) = FailedAt(s)
  BY <1>7
<1> QED
  BY <1>4, <1>5, <1>9, <1>10

\* One more verdict is one more outcome.
LEMMA TallyAdded ==
  ASSUME NEW V, NEW C, NEW run, NEW s \in Seq(BOOLEAN), Tallied(V, C, run, s),
         NEW u \in V, u.row \notin C, u.run = run, u.passed \in BOOLEAN,
         \A v \in V : v.row = u.row /\ v.run = u.run => v = u
  PROVE  Tallied(V, C \cup {u.row}, run, Append(s, u.passed))
<1> DEFINE D == C \cup {u.row}
           F == FailedOn(V, C, run)
<1>1. /\ IsFiniteSet(C) /\ Cardinality(C) = Len(s) /\ IsFiniteSet(F)
      /\ Cardinality(F) = Cardinality(FailedAt(s))
      /\ \A n \in C : \E v \in V : v.row = n /\ v.run = run
  BY DEF Tallied
<1>2. IsFiniteSet(D) /\ Cardinality(D) = Len(s) + 1
  BY <1>1, OneMore
<1>3. \A n \in D : \E v \in V : v.row = n /\ v.run = run
  BY <1>1
<1>4. FailedOn(V, D, run) = F \cup (IF u.passed THEN {} ELSE {u}) /\ u \notin F
  BY DEF FailedOn
<1>5. /\ IsFiniteSet(FailedOn(V, D, run))
      /\ u.passed => Cardinality(FailedOn(V, D, run)) = Cardinality(F)
      /\ ~u.passed => Cardinality(FailedOn(V, D, run)) = Cardinality(F) + 1
  <2>1. CASE u.passed
    <3>1. FailedOn(V, D, run) = F
      BY <1>4, <2>1
    <3> QED
      BY <1>1, <2>1, <3>1
  <2>2. CASE ~u.passed
    <3>1. FailedOn(V, D, run) = F \cup {u} /\ u \notin F
      BY <1>4, <2>2
    <3>2. IsFiniteSet(F)
      BY <1>1
    <3> HIDE DEF F
    <3>3. IsFiniteSet(F \cup {u}) /\ Cardinality(F \cup {u}) = Cardinality(F) + 1
      BY <3>1, <3>2, OneMore
    <3> QED
      BY <2>2, <3>1, <3>3
  <2> QED
    BY <2>1, <2>2
<1> HIDE DEF D, F
<1>6. /\ Cardinality(FailedOn(V, D, run)) = Cardinality(FailedAt(Append(s, u.passed)))
      /\ Len(Append(s, u.passed)) = Len(s) + 1
  BY <1>1, <1>5, OutcomeAdded
<1>7. Tallied(V, D, run, Append(s, u.passed))
  BY <1>2, <1>3, <1>5, <1>6 DEF Tallied
<1> QED
  BY <1>7 DEF D

\* Verdicts on other rows change nothing.
LEMMA TallyKept ==
  ASSUME NEW V, NEW W, NEW C, NEW run, NEW s, Tallied(V, C, run, s), V \subseteq W,
         \A v \in W \ V : v.row \notin C
  PROVE  Tallied(W, C, run, s)
<1>1. FailedOn(W, C, run) = FailedOn(V, C, run)
  BY DEF FailedOn
<1> QED
  BY <1>1 DEF Tallied

\* Only a revert takes verdicts away.
LEMMA VerdictsStay ==
  ASSUME Next, ~DeleteAuditRuns
  PROVE  auditRuns \subseteq auditRuns'
<1>1. CASE Backdate \/ AuditReturns \/ DeleteAudits \/ AuditCallFails \/ Crash
  BY <1>1 DEF Backdate, AuditReturns, DeleteAudits, AuditCallFails, CallFails, Crash
<1>2. CASE AuditNext \/ Collect
  BY <1>2, Zenon DEF AuditNext, Collect
<1>3. CASE Audits
  <2>1. AskModel => auditRuns' = auditRuns
    BY Zenon DEF AskModel
  <2>2. WriteCriterion \/ WriteAggregate \/ Undo => auditRuns \subseteq auditRuns'
    BY DEF WriteCriterion, WriteAggregate, Undo
  <2> QED
    BY <1>3, <2>1, <2>2 DEF Audits, Auditing
<1> QED
  BY <1>1, <1>2, <1>3, AuditChanges

\* A run goes on giving a narrative one verdict.
LEMMA UniqueStays ==
  ASSUME VerdictsUnique, Next
  PROVE  VerdictsUnique'
<1>1. CASE auditRuns' \subseteq auditRuns
  BY <1>1 DEF VerdictsUnique
<1>2. CASE auditRuns' = auditRuns \cup {Verdict} /\ ~Judged(auditor.row, auditor.run)
  <2>1. \A v \in auditRuns : ~(v.row = Verdict.row /\ v.run = Verdict.run)
    BY <1>2 DEF Judged, Verdict
  <2> QED
    BY <1>2, <2>1 DEF VerdictsUnique
<1> QED
  BY <1>1, <1>2, VerdictsCome

\* An audit that is done has given its verdict.
LEMMA DoneStays ==
  ASSUME TypeInv, VerdictDone, Next
  PROVE  VerdictDone'
<1> DEFINE New == [row |-> auditor'.row, run |-> auditor'.run, passed |-> GatePassed(auditor'.failed)]
<1>1. ASSUME auditor'.pc = "done" => New \in auditRuns'
      PROVE  VerdictDone'
  BY <1>1 DEF VerdictDone, Verdict, GatePassed
<1> HIDE DEF New
<1>2. CASE auditor'.pc # "done"
  BY <1>1, <1>2
<1>3. CASE auditor' = auditor /\ auditRuns \subseteq auditRuns'
  <2>1. New = Verdict
    BY <1>3 DEF New, Verdict
  <2> QED
    BY <1>1, <1>3, <2>1 DEF VerdictDone
<1>4. CASE Backdate
  <2>1. \/ auditor' = auditor
        \/ Begin(cmd.row, cmd.run)
    BY <1>4 DEF Backdate
  <2>2. Begin(cmd.row, cmd.run) => auditor'.pc = "model"
    BY DEF Begin, NoAudit
  <2>3. auditRuns \subseteq auditRuns'
    BY <1>4 DEF Backdate
  <2> QED
    BY <1>2, <1>3, <2>1, <2>2, <2>3
<1>5. AuditReturns \/ Collect \/ Crash => auditor'.pc # "done"
  BY DEF AuditReturns, Collect, Crash, NoAudit
<1>6. AuditNext => auditor'.pc # "done"
  <2> SUFFICES ASSUME AuditNext PROVE auditor'.pc # "done"
    OBVIOUS
  <2>1. PICK n \in cmd.todo : Begin(n, cmd.run)
    BY Zenon DEF AuditNext
  <2> QED
    BY <2>1 DEF Begin, NoAudit
<1>7. CASE Audits
  <2>1. AuditTypeOK
    BY DEF TypeInv, AuditorPlaced
  <2>2. AskModel => auditor'.pc # "done"
    <3> SUFFICES ASSUME AskModel PROVE auditor'.pc # "done"
      OBVIOUS
    <3>1. PICK failed \in Verdicts :
             auditor' = [auditor EXCEPT !.pc = "criteria", !.failed = failed]
      BY Zenon DEF AskModel
    <3> DEFINE c1 == [auditor EXCEPT !.pc = "criteria"]
    <3>2. auditor' = [c1 EXCEPT !.failed = failed] /\ c1.pc = "criteria"
      BY <2>1, <3>1 DEF AuditTypeOK
    <3> HIDE DEF c1
    <3> QED
      BY <3>2
  <2>3. WriteCriterion \/ Undo => auditor'.pc # "done"
    BY <2>1 DEF WriteCriterion, Undo, AuditTypeOK
  <2>4. CASE WriteAggregate /\ auditor'.pc = "done"
    <3>1. auditRuns' = auditRuns \cup {Verdict} /\ auditor' = [auditor EXCEPT !.pc = "done"]
      BY <2>1, <2>4 DEF WriteAggregate, Verdict, AuditTypeOK
    <3>2. New = Verdict
      BY <2>1, <3>1 DEF New, Verdict, AuditTypeOK
    <3> QED
      BY <1>1, <3>1, <3>2
  <2> QED
    BY <1>2, <1>7, <2>2, <2>3, <2>4 DEF Audits, Auditing
<1>8. AuditCallFails => auditor'.pc # "done"
  BY DEF AuditCallFails, CallFails, TypeInv, AuditorPlaced, AuditTypeOK
<1>9. CASE auditor' = auditor
  <2>1. CASE DeleteAuditRuns
    <3>1. auditor = NoAudit
      BY <2>1, StepsAt DEF TypeInv, AuditorPlaced, Awaited
    <3> QED
      BY <1>2, <1>9, <3>1 DEF NoAudit
  <2> QED
    BY <1>3, <1>9, <2>1, VerdictsStay
<1> QED
  BY <1>2, <1>4, <1>5, <1>6, <1>7, <1>8, <1>9, AuditorChanges

\* An audit command goes on having the outcomes of its verdicts.
LEMMA TallyStays ==
  ASSUME TypeInv, JudgedInv, Next
  PROVE  Tally'
<1> DEFINE C == Collected(cmd, auditor)
           CNew == Collected(cmd', auditor')
<1>1. ASSUME cmd'.kind = "audit" => Tallied(auditRuns', CNew, cmd'.run, cmd'.outcomes)
      PROVE  Tally'
  BY <1>1 DEF Tally, Tallied, Collected, FailedOn, FailedAt
<1>2. CASE cmd' = cmd /\ cmd.kind = "audit"
  <2>1. Tallied(auditRuns, C, cmd.run, cmd.outcomes) /\ cmd.pc \in {"pick", "wait"}
    BY <1>2, AuditKnown DEF JudgedInv, Tally
  <2>2. cmd.pc = "wait" => auditor'.row = auditor.row
    <3> SUFFICES ASSUME cmd.pc = "wait" PROVE auditor'.row = auditor.row
      OBVIOUS
    <3>1. ~Backdate /\ ~AuditReturns /\ ~AuditNext
      BY <1>2, StepsAt
    <3>2. ~Collect
      BY <1>2, CollectMoves DEF Collect, Returns, Finish, NoCommand
    <3>3. ~Crash
      BY <1>2 DEF Crash, Finish, NoCommand
    <3>4. Audits \/ AuditCallFails => auditor'.row = auditor.row
      BY AuditingTyped DEF Audits, AuditCallFails, TypeInv, AuditorPlaced
    <3> QED
      BY <3>1, <3>2, <3>3, <3>4, AuditorChanges
  <2>3. CNew = C
    BY <1>2, <2>2 DEF Collected
  <2>4. auditRuns \subseteq auditRuns'
    BY <1>2, VerdictsStay, StepsAt
  <2>5. \A v \in auditRuns' \ auditRuns : v.row \notin C
    <3> SUFFICES ASSUME NEW v \in auditRuns' \ auditRuns PROVE v.row \notin C
      OBVIOUS
    <3>1. Audits /\ auditor.pc = "criteria" /\ v = Verdict
      BY VerdictsCome
    <3>2. cmd.pc = "wait"
      BY <1>2, <3>1 DEF TypeInv, AuditorPlaced, Awaited, NoAudit
    <3> QED
      BY <3>1, <3>2 DEF Verdict, Collected
  <2> HIDE DEF C, CNew
  <2>6. Tallied(auditRuns', C, cmd.run, cmd.outcomes)
    BY <2>1, <2>4, <2>5, TallyKept
  <2> QED
    BY <1>1, <1>2, <2>3, <2>6
<1>3. CASE Audit
  <2>1. cmd'.corpus = cmd'.todo /\ cmd'.pc = "pick" /\ cmd'.outcomes = <<>>
    BY <1>3 DEF Audit
  <2>2. CNew = {}
    BY <2>1 DEF Collected
  <2>3. FailedOn(auditRuns', {}, cmd'.run) = {} /\ FailedAt(<<>>) = {}
    BY DEF FailedOn, FailedAt
  <2>4. Tallied(auditRuns', {}, cmd'.run, <<>>)
    BY <2>3, FS_EmptySet DEF Tallied
  <2> QED
    BY <1>1, <2>1, <2>2, <2>4
<1>4. CASE AuditNext
  <2>1. /\ cmd.kind = "audit" /\ cmd.pc = "pick" /\ cmd'.pc = "wait" /\ cmd'.run = cmd.run
        /\ cmd'.corpus = cmd.corpus /\ cmd'.outcomes = cmd.outcomes
    BY <1>4, PickMoves
  <2>2. PICK n \in cmd.todo : Begin(n, cmd.run) /\ cmd'.todo = cmd.todo \ {n}
    BY <1>4, PickMoves
  <2>3. auditor'.row = n
    BY <2>2 DEF Begin, NoAudit
  <2>4. CNew = C
    BY <2>1, <2>2, <2>3 DEF Collected
  <2>5. auditRuns' = auditRuns
    BY <1>4, Zenon DEF AuditNext
  <2>6. Tallied(auditRuns, C, cmd.run, cmd.outcomes)
    BY <2>1 DEF JudgedInv, Tally
  <2> HIDE DEF C, CNew
  <2> QED
    BY <1>1, <2>1, <2>4, <2>5, <2>6
<1>5. CASE Collect /\ auditor.pc # "raised"
  <2>1. /\ cmd.kind = "audit" /\ cmd.pc = "wait" /\ auditor.pc = "done"
        /\ cmd'.pc = "pick" /\ cmd'.run = cmd.run /\ cmd'.corpus = cmd.corpus
        /\ cmd'.todo = cmd.todo /\ cmd'.outcomes = Append(cmd.outcomes, GatePassed(auditor.failed))
    BY <1>5, CollectMoves
  <2>2. auditRuns' = auditRuns
    BY <1>5 DEF Collect
  <2>3. auditor.row \in cmd.corpus \ cmd.todo /\ auditor.run = cmd.run
    BY <2>1 DEF TypeInv, AuditorPlaced, Awaited
  <2>4. CNew = C \cup {auditor.row} /\ auditor.row \notin C
    BY <2>1, <2>3 DEF Collected
  <2>5. Tallied(auditRuns, C, cmd.run, cmd.outcomes) /\ cmd.outcomes \in Seq(BOOLEAN)
    BY <2>1, AuditKnown DEF JudgedInv, Tally
  <2>6. /\ Verdict \in auditRuns
        /\ Verdict.row = auditor.row /\ Verdict.run = cmd.run
        /\ Verdict.passed = GatePassed(auditor.failed) /\ Verdict.passed \in BOOLEAN
    BY <2>1, <2>3 DEF JudgedInv, VerdictDone, Verdict, GatePassed
  <2>7. \A v \in auditRuns : v.row = Verdict.row /\ v.run = Verdict.run => v = Verdict
    BY <2>6 DEF JudgedInv, VerdictsUnique
  <2> HIDE DEF C, CNew
  <2>8. Tallied(auditRuns, C \cup {Verdict.row}, cmd.run, Append(cmd.outcomes, Verdict.passed))
    BY <2>4, <2>5, <2>6, <2>7, TallyAdded
  <2> QED
    BY <1>1, <2>1, <2>2, <2>4, <2>6, <2>8
<1> QED
  BY <1>1, <1>2, <1>3, <1>4, <1>5, AuditArrives

\* Success is reported by the end of an audit command only.
LEMMA ExitChanges ==
  ASSUME Next
  PROVE  exit'.code # 0 \/ exit' = exit \/ AuditExits
<1>1. Author \/ Bootstrap \/ Run \/ Resume \/ Revert \/ Audit => exit'.code # 0
  BY SimulatorAssumption DEF Author, Bootstrap, Run, Resume, Revert, Audit, Issue, NoExit
<1>2. Collect => exit'.code # 0 \/ exit' = exit
  BY DEF Collect, Returns
<1>3. NextEntry \/ AuditNext => exit' = exit
  BY Zenon DEF NextEntry, AuditNext
<1>4. (NextWeek \/ IngestSignal \/ Supersede \/ InsertNarrative \/ InsertConflict \/ ReadWinner
       \/ Backdate \/ AuditReturns \/ Stamp \/ IngestClash \/ AttemptFails) => exit' = exit
  BY DEF NextWeek, IngestSignal, Supersede, InsertNarrative, InsertConflict, ReadWinner, Backdate,
     AuditReturns, Stamp, IngestClash, AttemptFails
<1>5. (DeleteAudits \/ DeleteAuditRuns \/ DeleteSignals \/ DeleteNarratives \/ DeleteScores
       \/ DeleteSnapshots
       \/ Prune \/ Crash) => exit' = exit
  BY DEF DeleteAudits, DeleteAuditRuns, DeleteSignals, DeleteNarratives, DeleteScores,
     DeleteSnapshots, Prune, Crash
<1>6. Audits \/ AuditCallFails \/ WorkerSupersedes \/ WorkerInserts => exit' = exit
  BY DEF Audits, AuditCallFails, WorkerSupersedes, WorkerInserts
<1> QED
  BY <1>1, <1>2, <1>3, <1>4, <1>5, <1>6 DEF Next, Works

\* What an audit command has found is behind the success it has reported.
LEMMA GreenStays ==
  ASSUME TypeInv, JudgedInv, GreenMeansAudited, Next
  PROVE  GreenMeansAudited'
<1> DEFINE Green(V, x) ==
             LET verdicts == {v \in V : v.run = x.run /\ v.row \in x.corpus}
                 failed == {v \in verdicts : ~v.passed}
             IN /\ {v.row : v \in verdicts} = x.corpus
                /\ \/ failed = {}
                   \/ x.tuning /\ 2 * Cardinality(failed) <= Cardinality(x.corpus)
<1>1. ASSUME exit'.code = 0 => Green(auditRuns', exit') PROVE GreenMeansAudited'
  BY <1>1, Zenon DEF GreenMeansAudited
<1>2. CASE exit' = exit /\ exit.code = 0
  <2>1. Green(auditRuns, exit)
    BY <1>2, Zenon DEF GreenMeansAudited
  <2>2. cmd = NoCommand
    BY <1>2, SimulatorAssumption DEF TypeInv, ExitTyped
  <2>3. auditRuns' = auditRuns
    BY <2>2, NoVerdictComes, VerdictsStay, StepsAt DEF NoCommand, Awaited
  <2> HIDE DEF Green
  <2> QED
    BY <1>1, <1>2, <2>1, <2>3
<1>3. CASE AuditExits /\ exit'.code = 0
  <2>1. /\ cmd.kind = "audit" /\ cmd.pc = "pick" /\ cmd.todo = {} /\ auditRuns' = auditRuns
        /\ exit'.run = cmd.run /\ exit'.corpus = cmd.corpus /\ exit'.tuning = cmd.tuning
        /\ ~(\/ cmd.tuning /\ CorpusBlocked(cmd.outcomes)
             \/ ~cmd.tuning /\ \E i \in DOMAIN cmd.outcomes : ~cmd.outcomes[i])
    BY <1>3 DEF AuditExits, Returns
  <2>2. Collected(cmd, auditor) = cmd.corpus
    BY <2>1 DEF Collected
  <2>3. Tallied(auditRuns, cmd.corpus, cmd.run, cmd.outcomes)
    BY <2>1, <2>2 DEF JudgedInv, Tally
  <2> DEFINE verdicts == {v \in auditRuns : v.run = cmd.run /\ v.row \in cmd.corpus}
             failed == {v \in verdicts : ~v.passed}
  <2>4. failed = FailedOn(auditRuns, cmd.corpus, cmd.run)
    BY DEF FailedOn
  <2>5. {v.row : v \in verdicts} = cmd.corpus
    BY <2>3 DEF Tallied
  <2>6. CASE cmd.tuning
    <3>1. ~(2 * Cardinality(FailedAt(cmd.outcomes)) > Len(cmd.outcomes))
      BY <2>1, <2>6 DEF CorpusBlocked, FailedAt
    <3>2. cmd.outcomes \in Seq(BOOLEAN)
      BY <2>1, AuditKnown
    <3>3. Len(cmd.outcomes) \in Nat /\ Cardinality(FailedAt(cmd.outcomes)) \in Nat
      BY <3>2, FailuresCounted
    <3>4. 2 * Cardinality(FailedAt(cmd.outcomes)) <= Len(cmd.outcomes)
      BY <3>1, <3>3
    <3>5. 2 * Cardinality(failed) <= Cardinality(cmd.corpus)
      BY <2>3, <2>4, <3>4 DEF Tallied
    <3>6. Green(auditRuns', exit')
      BY <2>1, <2>5, <2>6, <3>5
    <3> QED
      BY <1>1, <3>6
  <2>7. CASE ~cmd.tuning
    <3>1. FailedAt(cmd.outcomes) = {}
      BY <2>1, <2>7 DEF FailedAt
    <3>2. failed = {}
      BY <2>3, <2>4, <3>1, FS_EmptySet DEF Tallied
    <3>3. Green(auditRuns', exit')
      BY <2>1, <2>5, <3>2
    <3> QED
      BY <1>1, <3>3
  <2> QED
    BY <2>6, <2>7
<1> QED
  BY <1>1, <1>2, <1>3, ExitChanges

\* An audit command that reports success has a verdict on every narrative it set out to
\* audit, and none of them failed, or at most half in a tuning run: neither a raised
\* audit nor a verdict of an earlier run of the same name counts as one.
THEOREM GreenIsAudited == Spec => []GreenMeansAudited
<1>1. Init => JudgedInv /\ GreenMeansAudited
  BY SimulatorAssumption DEF Init, AuditInit, NoAudit, NoCommand, NoExit, JudgedInv, VerdictsUnique,
     VerdictDone, Tally, GreenMeansAudited
<1>2. TypeInv /\ JudgedInv /\ GreenMeansAudited /\ [Next]_vars => JudgedInv' /\ GreenMeansAudited'
  <2> SUFFICES ASSUME TypeInv, JudgedInv, GreenMeansAudited, [Next]_vars
               PROVE  JudgedInv' /\ GreenMeansAudited'
    OBVIOUS
  <2>1. CASE UNCHANGED vars
    <3>1. JudgedInv'
      BY <2>1 DEF vars, JudgedInv, VerdictsUnique, VerdictDone, Verdict, GatePassed, Tally, Tallied,
         Collected, FailedOn, FailedAt
    <3>2. GreenMeansAudited'
      BY <2>1, Zenon DEF vars, GreenMeansAudited
    <3> QED
      BY <3>1, <3>2
  <2>2. CASE Next
    BY <2>2, UniqueStays, DoneStays, TallyStays, GreenStays DEF JudgedInv
  <2> QED
    BY <2>1, <2>2
<1> QED
  BY <1>1, <1>2, SimulatorTyped, PTL DEF Spec

-----------------------------------------------------------------------------
(* The entries that narratives belong to. *)

\* Null stands for no value, and is not a function.
NullIsNone == \A S, T : Null \notin [S -> T]

\* Narrative r belongs to an entry of its account, and has today's date or one that is
\* not before the entry's start.
Homed(r, spec) ==
    /\ r.account \in DOMAIN spec
    /\ \E i \in DOMAIN spec[r.account] :
         /\ spec[r.account][i].id = r.entry
         /\ r.dated = Today \/ r.dated >= spec[r.account][i].start

\* A revert from a later date has passed over the narrative, which is dated today.
PassedOver(r) == late /\ r.dated = Today

AtHome ==
    \A r \in narratives : r.entry # Null =>
        (IsSpec(file, entryIds) /\ Homed(r, file)) \/ PassedOver(r)

LateKnown == cmd.kind = "revert" /\ cmd.date > Today => late

\* When a revert prunes the file, the narratives dated from its date on are gone.
PrunedClean ==
    cmd.kind = "revert" /\ cmd.pc \in {"scores", "snapshots", "prune"} =>
        \A r \in narratives : r.entry # Null /\ r.account \in Reverted => r.dated < cmd.date

HomeInv == AtHome /\ LateKnown /\ PrunedClean

\* A spec that loads is one.
LEMMA SpecIsThere ==
  ASSUME NullIsNone, NEW spec, NEW n, IsSpec(spec, n)
  PROVE  spec # Null
<1>1. PICK P : spec \in [DOMAIN spec -> Seq(EntryWith(P, 1 .. n))]
  BY DEF IsSpec
<1> DEFINE D == DOMAIN spec
           V == Seq(EntryWith(P, 1 .. n))
<1>2. spec \in [D -> V]
  BY <1>1
<1> HIDE DEF D, V
<1>3. Null \notin [D -> V]
  BY DEF NullIsNone
<1> QED
  BY <1>2, <1>3

\* That a revert was from a later date is not forgotten.
LEMMA LateStays ==
  ASSUME TypeInv, HomeInv, Next
  PROVE  LateKnown' /\ (late => late')
<1>1. CASE Revert
  <2>1. PICK d \in RevertDates :
           /\ cmd' = [kind |-> "revert", pc |-> "audits", run |-> 0, spec |-> file, date |-> d,
                      rows |-> {r.row : r \in {x \in narratives :
                                                 x.account \in DOMAIN file /\ x.dated >= d}}]
           /\ late' = (late \/ d > Today)
    BY <1>1, Zenon DEF Revert
  <2>2. cmd'.date = d
    BY <2>1
  <2> QED
    BY <2>1, <2>2 DEF LateKnown
<1>2. CASE ~Revert
  <2>1. late' = late
    BY <1>2, CutByReverts
  <2>2. ASSUME cmd'.kind = "revert" PROVE cmd.kind = "revert" /\ cmd'.date = cmd.date
    BY <1>2, <2>2, RevertArrives, RevertMoves
  <2> QED
    BY <2>1, <2>2 DEF HomeInv, LateKnown
<1> QED
  BY <1>1, <1>2

\* A revert goes on having deleted the narratives.
LEMMA PrunedCleanStays ==
  ASSUME TypeInv, HomeInv, Next
  PROVE  PrunedClean'
<1> SUFFICES ASSUME cmd'.kind = "revert", cmd'.pc \in {"scores", "snapshots", "prune"},
                    NEW s \in narratives', s.entry # Null, s.account \in DOMAIN cmd'.spec
             PROVE  s.dated < cmd'.date
  BY DEF PrunedClean, Reverted
<1>1. \/ cmd' = cmd /\ cmd.kind = "revert"
      \/ DeleteNarratives \/ DeleteScores \/ DeleteSnapshots
  <2>1. ~Revert
    <3>1. ASSUME Revert PROVE cmd'.pc = "audits"
      <4>1. PICK d \in RevertDates :
               cmd' = [kind |-> "revert", pc |-> "audits", run |-> 0, spec |-> file, date |-> d,
                       rows |-> {r.row : r \in {x \in narratives :
                                                  x.account \in DOMAIN file /\ x.dated >= d}}]
        BY <3>1, Zenon DEF Revert
      <4> QED
        BY <4>1
    <3> QED
      BY <3>1
  <2>2. ~DeleteAudits /\ ~DeleteAuditRuns /\ ~DeleteSignals
    BY RevertPasses
  <2> QED
    BY <2>1, <2>2, RevertArrives
<1>2. /\ cmd.kind = "revert" /\ cmd'.date = cmd.date /\ cmd'.spec = cmd.spec
      /\ cmd.date \in Int
  BY <1>1, RevertMoves, RevertKnown, SimulatorAssumption
<1>3. ~Backdate /\ ~InsertNarrative
  BY <1>2, StepsAt
<1>4. PICK r \in narratives : Carried(s, r)
  BY <1>3, RowsCome DEF Produced, Inserted
<1>5. s.dated = r.dated /\ r.entry # Null /\ r.account \in Reverted
  BY <1>2, <1>3, <1>4 DEF Carried, SameNarrative, Reverted
<1>6. CASE cmd' = cmd \/ DeleteScores \/ DeleteSnapshots
  <2>1. cmd.pc \in {"scores", "snapshots", "prune"}
    BY <1>6, StepsAt
  <2> QED
    BY <1>2, <1>5, <2>1 DEF HomeInv, PrunedClean
<1>7. CASE DeleteNarratives
  <2>1. PICK q \in narratives \ Doomed : q = s
    BY <1>7 DEF DeleteNarratives
  <2>2. ~(s.dated >= cmd.date)
    BY <1>2, <2>1 DEF Doomed, Reverted
  <2>3. s.dated \in Int
    BY <2>1 DEF TypeInv, NarrativesTyped, NarrativeRow
  <2> QED
    BY <1>2, <2>2, <2>3
<1> QED
  BY <1>1, <1>6, <1>7

\* Backdated or not, a narrative stays within its entry.
LEMMA DatedAtHome ==
  ASSUME TypeInv, RowsInv, HomeInv, Next, NEW r \in narratives, r.entry # Null,
         NEW s \in narratives', Carried(s, r)
  PROVE  (IsSpec(file, entryIds) /\ Homed(s, file)) \/ PassedOver(s)
<1>1. /\ (IsSpec(file, entryIds) /\ Homed(r, file)) \/ PassedOver(r)
      /\ s.account = r.account /\ s.entry = r.entry
  BY DEF HomeInv, AtHome, Carried, SameNarrative
<1>2. CASE s.dated = r.dated
  BY <1>1, <1>2 DEF Homed, PassedOver
<1>3. CASE Backdate /\ r.row = cmd.row /\ s.dated = WeekEnd(Entry, cmd.week)
  <2>1. /\ cmd.kind = "run" /\ cmd.pc = "backdate" /\ cmd.week \in Weeks(Entry)
    BY <1>3, BackdateEffect
  <2>2. /\ IsSpec(file, entryIds) /\ IsPlace(cmd.at) /\ Account = cmd.at[1]
        /\ Entry = file[cmd.at[1]][cmd.at[2]] /\ Validates(Entry)
        /\ Entry.start \in Int /\ Entry.end \in Int
    BY <2>1, AtEntry DEF Working
  <2>3. PICK q \in narratives :
           q.row = cmd.row /\ q.account = Account /\ (q.entry = Entry.id \/ q.entry = Null)
    BY <2>1 DEF RowsInv, RowAhead
  <2>4. q = r
    BY <1>3, <2>3 DEF TypeInv, NarrativesTyped
  <2>5. r.entry = Entry.id
    BY <2>3, <2>4
  <2>6. s.dated >= Entry.start
    <3>1. Weeks(Entry) = 1 .. Len(WeekStarts(Entry)) /\ Len(WeekStarts(Entry)) \in Nat
      BY <2>2, WeeksCounted
    <3>2. cmd.week \in Int /\ cmd.week >= 1
      BY <2>1, <3>1
    <3>3. WeekEnd(Entry, cmd.week) = Entry.start + (cmd.week - 1) * 7 + 6
      BY <2>1, <2>2, WeeksCounted
    <3> QED
      BY <1>3, <2>2, <3>2, <3>3
  <2> QED
    BY <1>1, <2>2, <2>3, <2>4, <2>5, <2>6 DEF Homed, IsPlace
<1> QED
  BY <1>2, <1>3 DEF Carried

\* A narrative's entry stays in the file, unless a revert has deleted the narrative.
LEMMA AtHomeStays ==
  ASSUME NullIsNone, TypeInv, RowsInv, HomeInv, Next
  PROVE  AtHome'
<1> SUFFICES ASSUME NEW s \in narratives', s.entry # Null
             PROVE  \/ IsSpec(file', entryIds') /\ Homed(s, file')
                    \/ late' /\ s.dated = Today
  BY DEF AtHome, Homed, PassedOver
<1>1. CASE Inserted(s)
  <2>1. /\ s.account = Account /\ s.entry = Entry.id /\ s.dated = Today
        /\ UNCHANGED <<file, entryIds>> /\ cmd.kind = "run" /\ cmd.pc = "insert"
    BY <1>1, StepsAt DEF Inserted, InsertNarrative
  <2>2. /\ IsSpec(file, entryIds) /\ IsPlace(cmd.at) /\ Account = cmd.at[1]
        /\ Entry = file[cmd.at[1]][cmd.at[2]]
    BY <2>1, AtEntry DEF Working
  <2>3. Homed(s, file)
    BY <2>1, <2>2 DEF Homed, IsPlace
  <2> QED
    BY <2>1, <2>2, <2>3
<1>2. ASSUME NEW r \in narratives, Carried(s, r), ~(late' /\ s.dated = Today)
      PROVE  IsSpec(file', entryIds') /\ Homed(s, file')
  <2>1. r.entry # Null
    BY <1>2 DEF Carried, SameNarrative
  <2>2. IsSpec(file, entryIds) /\ Homed(s, file)
    <3>1. ~PassedOver(s)
      BY <1>2, LateStays DEF PassedOver
    <3> QED
      BY <1>2, <2>1, <3>1, DatedAtHome
  <2>3. IsSpec(file', entryIds')
    BY <2>2, FileStays
  <2>4. PICK i \in DOMAIN file[s.account] :
           /\ file[s.account][i].id = s.entry
           /\ s.dated = Today \/ s.dated >= file[s.account][i].start
    BY <2>2 DEF Homed
  <2>5. s.account \in DOMAIN file
    BY <2>2 DEF Homed
  <2> DEFINE e == file[s.account][i]
  <2>6. e.start \in Int
    <3>1. entryIds \in Nat
      BY DEF TypeInv, FileTyped
    <3>2. e \in EntryWith({e.params}, 1 .. entryIds)
      BY <2>2, <2>5, <3>1, EntryKnown
    <3> QED
      BY <3>2 DEF EntryWith
  <2>7. ASSUME NEW date, Into(file', file, date), e.start < date
        PROVE  Homed(s, file')
    <3>1. file # Null
      BY <2>2, SpecIsThere
    <3>2. s.account \in DOMAIN file' /\ \E j \in DOMAIN file'[s.account] : Continues(file'[s.account][j], e)
      BY <2>5, <2>7, <3>1 DEF Into
    <3>3. PICK j \in DOMAIN file'[s.account] : Continues(file'[s.account][j], e)
      BY <3>2
    <3>4. file'[s.account][j].id = e.id /\ file'[s.account][j].start = e.start
      BY <3>3 DEF Continues
    <3> QED
      BY <2>4, <3>2, <3>4 DEF Homed
  <2>8. CASE UNCHANGED file
    BY <2>2, <2>3, <2>8
  <2>9. CASE Prune /\ Into(file', file, cmd.date)
    <3>1. /\ cmd.kind = "revert" /\ cmd.pc = "prune" /\ cmd.date \in RevertDates
          /\ Reverted = DOMAIN file
      BY <2>9, StepsAt, RevertKnown
    <3>2. r.account = s.account /\ s.dated = r.dated
      BY <1>2, <3>1, StepsAt DEF Carried, SameNarrative
    <3>3. r.dated < cmd.date
      BY <2>1, <2>5, <3>1, <3>2 DEF HomeInv, PrunedClean
    <3>4. cmd.date \in Int /\ Today \in Int /\ r.dated \in Int
      BY <3>1, SimulatorAssumption DEF TypeInv, NarrativesTyped, NarrativeRow
    <3>5. e.start < cmd.date
      <4>1. s.dated # Today
        <5>1. cmd.date > Today => late'
          BY <3>1, LateStays DEF HomeInv, LateKnown
        <5> QED
          BY <1>2, <3>2, <3>3, <3>4, <5>1
      <4> QED
        BY <2>4, <2>6, <3>2, <3>3, <3>4, <4>1
    <3> QED
      BY <2>3, <2>7, <2>9, <3>5
  <2>10. CASE \A date : Into(file', file, date)
    <3>1. e.start < e.start + 1
      BY <2>6
    <3>2. Into(file', file, e.start + 1)
      BY <2>10
    <3> QED
      BY <2>3, <2>7, <3>1, <3>2
  <2> QED
    BY <2>8, <2>9, <2>10, FileStays
<1> QED
  BY <1>1, <1>2, RowsCome DEF Produced

\* The simulator's narratives belong to an entry of the file, whatever command died or
\* failed, whatever date a revert has, and whatever entry straddles it: the narratives go
\* first, and those an entry has left are dated before the revert.  A row that its run
\* left dated today is the one a revert from a later date may leave without its entry.
THEOREM NarrativesBelong ==
  ASSUME NullIsNone
  PROVE  Spec => []NarrativesHaveEntry
<1>1. Init => HomeInv
  BY DEF Init, NoCommand, HomeInv, AtHome, LateKnown, PrunedClean
<1>2. TypeInv /\ RowsInv /\ HomeInv /\ [Next]_vars => HomeInv'
  <2> SUFFICES ASSUME TypeInv, RowsInv, HomeInv, [Next]_vars PROVE HomeInv'
    OBVIOUS
  <2>1. CASE UNCHANGED vars
    BY <2>1 DEF vars, tables, history, HomeInv, AtHome, Homed, PassedOver, LateKnown, PrunedClean,
       Reverted
  <2>2. CASE Next
    BY <2>2, PrunedCleanStays, LateStays, AtHomeStays DEF HomeInv
  <2> QED
    BY <2>1, <2>2
<1>3. HomeInv => NarrativesHaveEntry
  <2> SUFFICES ASSUME HomeInv, NEW r \in narratives, r.entry # Null, ~PassedOver(r)
               PROVE  file # Null /\ \E e \in Entries(file) : e.id = r.entry
    BY DEF NarrativesHaveEntry, PassedOver
  <2>1. IsSpec(file, entryIds) /\ Homed(r, file)
    BY DEF HomeInv, AtHome
  <2>2. file # Null
    BY <2>1, SpecIsThere
  <2>3. PICK i \in DOMAIN file[r.account] : file[r.account][i].id = r.entry
    BY <2>1 DEF Homed
  <2>4. file[r.account][i] \in Entries(file)
    <3>1. r.account \in DOMAIN file
      BY <2>1 DEF Homed
    <3> QED
      BY <3>1 DEF Entries, ToSet
  <2> QED
    BY <2>2, <2>3, <2>4
<1> QED
  BY <1>1, <1>2, <1>3, SimulatorTyped, WorkInOrder, PTL DEF Spec
=============================================================================
