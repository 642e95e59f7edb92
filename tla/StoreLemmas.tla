------------------------------ MODULE StoreLemmas ------------------------------
(***************************************************************************)
(* What the proofs about the stores have in common: induction for folds,   *)
(* the filter of a sequence, and the lemmas about the decision and the     *)
(* deletion state that every store shares.  A fold is a function on the    *)
(* subsets of a finite set that takes one element away at a time; what it  *)
(* computes is proved from a smallest subset for which it would fail.      *)
(***************************************************************************)
EXTENDS Integers, StorePolicy, SeqFilter, FiniteSetTheorems, FunctionTheorems,
        WellFoundedInduction, TLAPS

-----------------------------------------------------------------------------
\* A set of finite subsets has a smallest one.
LEMMA SmallestSubset ==
  ASSUME NEW S, IsFiniteSet(S), NEW Bad \in SUBSET SUBSET S, Bad # {}
  PROVE  \E t \in Bad : \A u \in Bad : u \subseteq t => u = t
<1>1. IsWellFoundedOn(StrictSubsetOrdering(S), FiniteSubsetsOf(S))
  BY FS_StrictSubsetOrderingWellFounded
<1>2. Bad \subseteq FiniteSubsetsOf(S)
  BY FS_FiniteSubsetsOfFinite
<1>3. \E t \in Bad : \A u \in Bad : <<u, t>> \notin StrictSubsetOrdering(S)
  BY <1>1, <1>2, WFMin
<1> QED
  BY <1>3 DEF StrictSubsetOrdering

\* Good holds of a set when it holds of the set without what pick takes from it.
Climbs(Good, S, pick) ==
  \A s \in SUBSET S : s # {} => pick[s] \in s /\ (s \ {pick[s]} \in Good => s \in Good)

\* What holds of {}, and of a set when it holds of the set without one element,
\* holds of every subset.
LEMMA SubsetInduction ==
  ASSUME NEW S, IsFiniteSet(S), NEW pick, NEW Good, {} \in Good, Climbs(Good, S, pick)
  PROVE  SUBSET S \subseteq Good
<1> DEFINE Bad == {s \in SUBSET S : s \notin Good}
<1> SUFFICES ASSUME Bad # {} PROVE FALSE
  OBVIOUS
<1>0. Bad \in SUBSET SUBSET S
  OBVIOUS
<1>1. PICK t \in Bad : \A u \in Bad : u \subseteq t => u = t
  <2> HIDE DEF Bad
  <2> QED
    BY <1>0, SmallestSubset
<1>2. t # {} /\ pick[t] \in t
  BY DEF Climbs
<1>3. t \ {pick[t]} \in SUBSET S /\ t \ {pick[t]} # t
  BY <1>2
<1>4. t \ {pick[t]} \in Good
  BY <1>1, <1>3
<1> QED
  BY <1>2, <1>4 DEF Climbs

\* The same for the numbers up to n.
LEMMA UpToInduction ==
  ASSUME NEW n \in Nat, NEW Good, 0 \in Good, \A k \in 1..n : k - 1 \in Good => k \in Good
  PROVE  0..n \subseteq Good
<1> DEFINE Bad == {k \in 0..n : k \notin Good}
<1> SUFFICES ASSUME Bad # {} PROVE FALSE
  OBVIOUS
<1>1. Bad \subseteq Nat
  OBVIOUS
<1>2. PICK k \in Bad : \A j \in Bad : <<j, k>> \notin OpToRel(<, Nat)
  <2> HIDE DEF Bad
  <2>1. IsWellFoundedOn(OpToRel(<, Nat), Nat)
    BY NatLessThanWellFounded, Zenon
  <2> QED
    BY <1>1, <2>1, WFMin
<1>3. \A j \in Bad : ~(j < k)
  BY <1>1, <1>2 DEF OpToRel
<1>4. k \in 1..n /\ k - 1 \in 0..n /\ k - 1 < k
  OBVIOUS
<1> QED
  BY <1>3, <1>4

-----------------------------------------------------------------------------
\* iter folds step over the subsets of S, taking pick[s] from s.
Folds(iter, S, base, step, pick) ==
  iter = [s \in SUBSET S |-> IF s = {} THEN base ELSE step[<<iter[s \ {pick[s]}], pick[s]>>]]

\* Two tables of one fold, over different sets, agree on the sets both know.
LEMMA FoldsAgree ==
  ASSUME NEW S, IsFiniteSet(S), NEW base, NEW step, NEW pick,
         \A s \in SUBSET S : s # {} => pick[s] \in s,
         NEW X \in SUBSET S, NEW Y \in SUBSET S, NEW f, NEW g,
         Folds(f, X, base, step, pick), Folds(g, Y, base, step, pick)
  PROVE  \A w \in SUBSET (X \cap Y) : f[w] = g[w]
<1> DEFINE Good == {w \in SUBSET (X \cap Y) : f[w] = g[w]}
<1>1. IsFiniteSet(X \cap Y)
  BY FS_Subset
<1>2. {} \in Good
  BY DEF Folds
<1>3. ASSUME NEW w \in SUBSET (X \cap Y), w # {}, w \ {pick[w]} \in Good
      PROVE  w \in Good
  <2>1. f[w] = step[<<f[w \ {pick[w]}], pick[w]>>]
    BY <1>3 DEF Folds
  <2>2. g[w] = step[<<g[w \ {pick[w]}], pick[w]>>]
    BY <1>3 DEF Folds
  <2> QED
    BY <1>3, <2>1, <2>2
<1>4. \A s \in SUBSET (X \cap Y) : s # {} => pick[s] \in s
  OBVIOUS
<1> HIDE DEF Good
<1>5. Climbs(Good, X \cap Y, pick)
  BY <1>3, <1>4 DEF Climbs
<1>6. SUBSET (X \cap Y) \subseteq Good
  BY ONLY <1>1, <1>2, <1>5, SubsetInduction
<1> QED
  BY <1>6 DEF Good

\* A fold exists: the folds over the strict subsets of a set agree, and one step
\* makes the fold over the set of them.
LEMMA FoldExists ==
  ASSUME NEW S, IsFiniteSet(S), NEW V, NEW base \in V, NEW step \in [V \X S -> V], NEW pick,
         \A s \in SUBSET S : s # {} => pick[s] \in s
  PROVE  \E iter \in [SUBSET S -> V] : Folds(iter, S, base, step, pick)
<1> DEFINE Fold(t, f) == f \in [SUBSET t -> V] /\ Folds(f, t, base, step, pick)
           Bad == {t \in SUBSET S : ~ \E f : Fold(t, f)}
           Of(t) == CHOOSE f : Fold(t, f)
<1> SUFFICES ASSUME Bad # {} PROVE FALSE
  OBVIOUS
<1>0. Bad \in SUBSET SUBSET S
  OBVIOUS
<1>1. PICK t \in Bad : \A u \in Bad : u \subseteq t => u = t
  <2> HIDE DEF Bad
  <2> QED
    BY <1>0, SmallestSubset
<1>2. \A u \in SUBSET t : u # t => Fold(u, Of(u))
  <2> SUFFICES ASSUME NEW u \in SUBSET t, u # t PROVE Fold(u, Of(u))
    OBVIOUS
  <2>1. \E f : Fold(u, f)
    BY <1>1
  <2> HIDE DEF Fold
  <2> QED
    BY <2>1
<1>3. t # {}
  <2> DEFINE f == [s \in SUBSET {} |-> base]
  <2>1. f \in [SUBSET {} -> V]
    OBVIOUS
  <2>2. \A s \in SUBSET {} : s = {}
    OBVIOUS
  <2>3. f = [s \in SUBSET {} |-> IF s = {} THEN base ELSE step[<<f[s \ {pick[s]}], pick[s]>>]]
    BY <2>2
  <2> HIDE DEF f
  <2>4. Fold({}, f)
    BY <2>1, <2>3 DEF Folds
  <2>5. {} \notin Bad
    <3> HIDE DEF Fold
    <3> QED
      BY <2>4
  <2> QED
    BY <2>5
<1>4. pick[t] \in t
  BY <1>3
<1> DEFINE x == pick[t]
           g == [u \in SUBSET t |-> IF u = t THEN step[<<Of(t \ {x})[t \ {x}], x>>] ELSE Of(u)[u]]
<1>5. \A u \in SUBSET t : u # t => Of(u)[u] \in V
  BY <1>2
<1>6. g \in [SUBSET t -> V]
  <2>1. t \ {x} \in SUBSET t /\ t \ {x} # t
    BY <1>4
  <2> HIDE DEF Of
  <2>2. step[<<Of(t \ {x})[t \ {x}], x>>] \in V
    BY <1>4, <1>5, <2>1
  <2> QED
    BY <1>5, <2>2
<1>7. ASSUME NEW u \in SUBSET t, u # {}
      PROVE  g[u] = step[<<g[u \ {pick[u]}], pick[u]>>]
  <2>1. pick[u] \in u /\ u \ {pick[u]} \in SUBSET t /\ u \ {pick[u]} # t
    BY <1>7
  <2>2. g[u \ {pick[u]}] = Of(u \ {pick[u]})[u \ {pick[u]}]
    BY <2>1
  <2>3. CASE u = t
    BY <2>2, <2>3
  <2>4. CASE u # t
    <3>1. Fold(u, Of(u)) /\ Fold(u \ {pick[u]}, Of(u \ {pick[u]}))
      BY <1>2, <2>1, <2>4, ZenonT(30)
    <3>2. Of(u)[u] = step[<<Of(u)[u \ {pick[u]}], pick[u]>>]
      BY <1>7, <3>1 DEF Folds
    <3>3. Of(u)[u \ {pick[u]}] = Of(u \ {pick[u]})[u \ {pick[u]}]
      <4> HIDE DEF Of
      <4>1. u \in SUBSET S /\ u \ {pick[u]} \in SUBSET S /\ u \ {pick[u]} \in SUBSET (u \cap (u \ {pick[u]}))
        OBVIOUS
      <4> QED
        BY <3>1, <4>1, FoldsAgree
    <3>4. g[u] = Of(u)[u]
      BY <2>4
    <3> QED
      BY <2>2, <3>2, <3>3, <3>4
  <2> QED
    BY <2>3, <2>4
<1>8. g[{}] = base
  <2>1. {} \in SUBSET t /\ {} # t
    BY <1>3, ZenonT(30)
  <2>2. Of({})[{}] = base
    BY <1>2, <2>1, ZenonT(30) DEF Folds
  <2> QED
    BY <2>1, <2>2
<1>9. Fold(t, g)
  <2> HIDE DEF g
  <2>1. DOMAIN g = SUBSET t
    BY <1>6
  <2> QED
    BY <1>6, <1>7, <1>8, <2>1 DEF Folds
<1> QED
  BY <1>9

-----------------------------------------------------------------------------
\* The largest element, which the folds over sequences take away.
LEMMA MaxOfPrefix ==
  ASSUME NEW n \in Nat
  PROVE  /\ \A s \in SUBSET (1..n) : s # {} => Max(s) \in s
         /\ \A k \in 1..n : Max(1..k) = k /\ (1..k) \ {k} = 1..(k - 1)
<1> DEFINE HasMax(k) == \A s \in SUBSET (1..k) : s # {} => \E x \in s : \A y \in s : x >= y
           Good == {k \in 0..n : HasMax(k)}
<1>1. 0 \in Good
  <2>1. \A s \in SUBSET (1..0) : s = {}
    OBVIOUS
  <2>2. HasMax(0)
    BY <2>1
  <2> QED
    BY <2>2
<1>2. ASSUME NEW k \in 1..n, k - 1 \in Good PROVE k \in Good
  <2> SUFFICES ASSUME NEW s \in SUBSET (1..k), s # {} PROVE \E x \in s : \A y \in s : x >= y
    OBVIOUS
  <2>1. CASE k \in s
    BY <2>1
  <2>2. CASE k \notin s
    <3>1. s \in SUBSET (1..(k - 1))
      BY <2>2
    <3> QED
      BY <1>2, <3>1
  <2> QED
    BY <2>1, <2>2
<1> HIDE DEF Good
<1>3. n \in Good
  BY <1>1, <1>2, UpToInduction
<1>4. \A s \in SUBSET (1..n) : s # {} => Max(s) \in s
  BY <1>3 DEF Max, Good
<1>5. ASSUME NEW k \in 1..n PROVE Max(1..k) = k /\ (1..k) \ {k} = 1..(k - 1)
  <2>1. k \in 1..k /\ \A y \in 1..k : k >= y
    OBVIOUS
  <2>2. \A x \in 1..k : (\A y \in 1..k : x >= y) => x = k
    BY <2>1
  <2>3. Max(1..k) = k
    BY <2>1, <2>2, Zenon DEF Max
  <2> QED
    BY <2>3
<1> QED
  BY <1>4, <1>5

-----------------------------------------------------------------------------
(* The filter of a sequence.                                               *)
Filtered(acc, seq, S) ==
  /\ acc[0] = <<>>
  /\ \A k \in 1..Len(seq) : acc[k] = IF seq[k] \in S THEN Append(acc[k - 1], seq[k]) ELSE acc[k - 1]
  /\ \A k \in 0..Len(seq) : acc[k] \in Seq(S)
  /\ Only(seq, S) = acc[Len(seq)]

\* The steps of a filter.
LEMMA FilterRuns ==
  ASSUME NEW T, NEW seq \in Seq(T), NEW S
  PROVE  \E acc : Filtered(acc, seq, S)
<1> DEFINE n == Len(seq)
           D == 1..n
           V == Seq(S)
           put(kept, x) == IF x \in S THEN Append(kept, x) ELSE kept
           step == [p \in V \X D |-> put(p[1], seq[p[2]])]
           pick == [s \in SUBSET D |-> Max(s)]
           iter == CHOOSE f : f = [s \in SUBSET D |-> IF s = {} THEN <<>>
                                                      ELSE put(f[s \ {Max(s)}], seq[Max(s)])]
           acc == [k \in 0..n |-> iter[1..k]]
<1>1. n \in Nat /\ IsFiniteSet(D) /\ DOMAIN seq = D
  BY FS_Interval
<1>2. \A s \in SUBSET D : s # {} => pick[s] \in s /\ Max(s) \in s
  BY <1>1, MaxOfPrefix
<1>3. step \in [V \X D -> V]
  <2>1. ASSUME NEW p \in V \X D PROVE put(p[1], seq[p[2]]) \in V
    OBVIOUS
  <2> HIDE DEF D, V, put
  <2> QED
    BY <2>1
<1>4. PICK f \in [SUBSET D -> V] : Folds(f, D, <<>>, step, pick)
  <2>1. <<>> \in V
    OBVIOUS
  <2> HIDE DEF D, V, step, pick
  <2> QED
    BY <1>1, <1>2, <1>3, <2>1, FoldExists
<1>5. f = [s \in SUBSET D |-> IF s = {} THEN <<>> ELSE put(f[s \ {Max(s)}], seq[Max(s)])]
  <2>1. ASSUME NEW s \in SUBSET D, s # {} PROVE f[s] = put(f[s \ {Max(s)}], seq[Max(s)])
    <3>1. s \ {Max(s)} \in SUBSET D /\ Max(s) \in D /\ pick[s] = Max(s)
      BY <1>2, <2>1
    <3>2. f[s \ {Max(s)}] \in V
      BY <1>4, <3>1
    <3>3. f[s] = step[<<f[s \ {Max(s)}], Max(s)>>]
      BY <1>4, <2>1, <3>1 DEF Folds
    <3> HIDE DEF D, V, put
    <3> QED
      BY <3>1, <3>2, <3>3
  <2>2. f[{}] = <<>>
    BY <1>4 DEF Folds
  <2>3. f = [s \in SUBSET D |-> f[s]]
    BY <1>4
  <2> HIDE DEF D, V, put
  <2> QED
    BY <2>1, <2>2, <2>3
<1>6. iter = [s \in SUBSET D |-> IF s = {} THEN <<>> ELSE put(iter[s \ {Max(s)}], seq[Max(s)])]
  BY <1>5
<1>7. Only(seq, S) = iter[D]
  BY <1>1 DEF Only, FoldLeft, MapThenFoldSet
<1> HIDE DEF iter
<1>9. acc[0] = <<>>
  <2>1. 1..0 = {} /\ iter[{}] = <<>>
    BY <1>6
  <2> QED
    BY <1>1, <2>1
<1>10. ASSUME NEW k \in 1..n PROVE acc[k] = put(acc[k - 1], seq[k])
  <2>1. 1..k \in SUBSET D /\ 1..k # {} /\ k - 1 \in 0..n /\ k \in 0..n
    BY <1>1
  <2>2. Max(1..k) = k /\ (1..k) \ {k} = 1..(k - 1)
    BY <1>1, MaxOfPrefix
  <2>3. iter[1..k] = put(iter[(1..k) \ {Max(1..k)}], seq[Max(1..k)])
    BY <1>6, <2>1
  <2>4. iter[1..k] = put(iter[1..(k - 1)], seq[k])
    BY <2>2, <2>3
  <2> QED
    BY <2>1, <2>4
<1>11. \A k \in 0..n : acc[k] \in V
  <2> DEFINE Good == {k \in 0..n : acc[k] \in V}
  <2> HIDE DEF acc
  <2>1. 0 \in Good
    <3>1. <<>> \in V /\ 0 \in 0..n
      BY <1>1
    <3> HIDE DEF V
    <3> QED
      BY <1>9, <3>1
  <2>2. ASSUME NEW k \in 1..n, k - 1 \in Good PROVE k \in Good
    <3>1. acc[k - 1] \in V /\ seq[k] \in T /\ k \in 0..n
      BY <1>1, <2>2
    <3>2. put(acc[k - 1], seq[k]) \in V
      BY <3>1
    <3> HIDE DEF V, put
    <3> QED
      BY <1>10, <3>1, <3>2
  <2> HIDE DEF Good
  <2>3. 0..n \subseteq Good
    BY <1>1, <2>1, <2>2, UpToInduction
  <2> QED
    BY <2>3 DEF Good
<1>12. acc[n] = iter[D]
  BY <1>1
<1> HIDE DEF acc
<1>13. Filtered(acc, seq, S)
  BY <1>7, <1>9, <1>10, <1>11, <1>12 DEF Filtered
<1> QED
  BY <1>13

\* What a filter leaves: the members of the set, each as often and in the order
\* in which they were.
LEMMA OnlyIs ==
  ASSUME NEW T, NEW seq \in Seq(T), NEW S
  PROVE  /\ Only(seq, S) \in Seq(T)
         /\ Only(seq, S) \in Seq(S)
         /\ ToSet(Only(seq, S)) = ToSet(seq) \cap S
         /\ IsInjective(seq) => IsInjective(Only(seq, S))
<1>0. PICK u : u = Only(seq, S)
  OBVIOUS
<1>1. PICK acc : Filtered(acc, seq, S)
  BY FilterRuns
<1> DEFINE n == Len(seq)
           Upto(k) == {seq[i] : i \in 1..k}
           Has(k) == /\ acc[k] \in Seq(T) /\ ToSet(acc[k]) = Upto(k) \cap S
                     /\ IsInjective(seq) => IsInjective(acc[k])
           Good == {k \in 0..n : Has(k)}
<1>2. n \in Nat /\ DOMAIN seq = 1..n /\ \A k \in 1..n : seq[k] \in T
  OBVIOUS
<1>3. 0 \in Good
  <2>1. acc[0] = <<>> /\ Upto(0) = {} /\ 0 \in 0..n
    BY <1>1, <1>2 DEF Filtered
  <2>2. Has(0)
    BY <2>1 DEF ToSet, IsInjective
  <2> HIDE DEF Has
  <2> QED
    BY <2>1, <2>2
<1>4. ASSUME NEW k \in 1..n, k - 1 \in Good PROVE k \in Good
  <2>0. k \in 0..n /\ Has(k - 1)
    BY <1>2, <1>4
  <2>1. PICK x, a : x = seq[k] /\ a = acc[k - 1]
    OBVIOUS
  <2>2. a \in Seq(T) /\ a \in Seq(S) /\ ToSet(a) = Upto(k - 1) \cap S /\ (IsInjective(seq) => IsInjective(a))
    BY <1>1, <1>2, <2>0, <2>1 DEF Filtered
  <2>3. Upto(k) = Upto(k - 1) \cup {x} /\ x \in T
    <3>1. 1..k = (1..(k - 1)) \cup {k}
      BY <1>2
    <3> QED
      BY <1>2, <2>1, <3>1
  <2>4. ASSUME x \notin S PROVE Has(k)
    <3>1. acc[k] = a
      BY <1>1, <2>1, <2>4 DEF Filtered
    <3> HIDE DEF Upto
    <3> QED
      BY <2>2, <2>3, <2>4, <3>1
  <2>5. ASSUME x \in S PROVE Has(k)
    <3>1. acc[k] = Append(a, x)
      BY <1>1, <2>1, <2>5 DEF Filtered
    <3>2. PICK b : b = Append(a, x)
      OBVIOUS
    <3>3. /\ b \in Seq(T) /\ DOMAIN b = 1..(Len(a) + 1) /\ DOMAIN a = 1..Len(a) /\ Len(a) \in Nat
          /\ b[Len(a) + 1] = x /\ \A i \in 1..Len(a) : b[i] = a[i]
      BY <2>2, <2>3, <3>2
    <3>4. ToSet(b) = ToSet(a) \cup {x}
      BY <3>3 DEF ToSet
    <3>5. ASSUME IsInjective(seq) PROVE IsInjective(b)
      <4>1. x \notin Upto(k - 1)
        BY <1>2, <2>1, <3>5 DEF IsInjective
      <4>2. \A i \in 1..Len(a) : a[i] # x
        BY <2>2, <3>3, <4>1 DEF ToSet
      <4> QED
        BY <2>2, <3>3, <3>5, <4>2 DEF IsInjective
    <3> HIDE DEF Upto
    <3> QED
      BY <2>2, <2>3, <2>5, <3>1, <3>2, <3>3, <3>4, <3>5
  <2>6. Has(k)
    BY <2>4, <2>5
  <2> HIDE DEF Has
  <2> QED
    BY <2>0, <2>6
<1> HIDE DEF Good
<1>5. n \in Good
  <2>1. 0..n \subseteq Good
    BY <1>2, <1>3, <1>4, UpToInduction
  <2> QED
    BY <1>2, <2>1
<1>6. u = acc[n] /\ u \in Seq(S)
  BY <1>0, <1>1, <1>2 DEF Filtered
<1>7. ToSet(seq) = Upto(n)
  BY <1>2 DEF ToSet
<1>8. u \in Seq(T) /\ ToSet(u) = ToSet(seq) \cap S /\ (IsInjective(seq) => IsInjective(u))
  BY <1>5, <1>6, <1>7 DEF Good
<1> QED
  BY ONLY <1>0, <1>6, <1>8, Zenon

-----------------------------------------------------------------------------
(* Types of the deletion state, as sets.                                   *)
Partial(S, T) == UNION {[X -> T] : X \in SUBSET S}
Deletions == [ids : SUBSET Ids, pending : Partial(Ids, Authors), until : Partial(Addrs, Nat)]
Plans == [remove : SUBSET Ids, pending : Partial(Ids, Authors), until : Partial(Addrs, Nat)]

\* Membership in a set of partial functions.
LEMMA Partials ==
  ASSUME NEW S, NEW T, NEW f
  PROVE  f \in Partial(S, T) <=> /\ f = [x \in DOMAIN f |-> f[x]]
                                 /\ DOMAIN f \subseteq S
                                 /\ \A x \in DOMAIN f : f[x] \in T
<1>1. ASSUME f \in Partial(S, T)
      PROVE  f = [x \in DOMAIN f |-> f[x]] /\ DOMAIN f \subseteq S /\ \A x \in DOMAIN f : f[x] \in T
  <2>1. PICK X \in SUBSET S : f \in [X -> T]
    BY <1>1 DEF Partial
  <2> QED
    BY <2>1
<1>2. ASSUME f = [x \in DOMAIN f |-> f[x]], DOMAIN f \subseteq S, \A x \in DOMAIN f : f[x] \in T
      PROVE  f \in Partial(S, T)
  <2>1. f \in [DOMAIN f -> T]
    BY <1>2
  <2> QED
    BY <1>2, <2>1 DEF Partial
<1> QED
  BY <1>1, <1>2

\* What Over() and Without() do at a point, and that they keep the type.
LEMMA OverPoint ==
  ASSUME NEW f, NEW g
  PROVE  \A x : At(Over(f, g), x) = IF x \in DOMAIN g THEN g[x] ELSE At(f, x)
BY DEF Over, At

\* Without, at a point: nothing under the removed keys, the rest as before.
LEMMA WithoutPoint ==
  ASSUME NEW f, NEW X
  PROVE  \A x : At(Without(f, X), x) = IF x \in X THEN Nothing ELSE At(f, x)
BY DEF Without, Restrict, At

\* One map laid over another has the type of both.
LEMMA OverType ==
  ASSUME NEW S, NEW T, NEW f \in Partial(S, T), NEW g \in Partial(S, T)
  PROVE  Over(f, g) \in Partial(S, T)
<1>1. DOMAIN f \subseteq S /\ DOMAIN g \subseteq S /\ (\A x \in DOMAIN f : f[x] \in T)
      /\ (\A x \in DOMAIN g : g[x] \in T)
  BY Partials
<1>2. PICK h : h = Over(f, g)
  OBVIOUS
<1>3. /\ h = [x \in DOMAIN h |-> h[x]]
      /\ DOMAIN h \subseteq S
      /\ \A x \in DOMAIN h : h[x] \in T
  BY <1>1, <1>2 DEF Over
<1> QED
  BY <1>2, <1>3, Partials

\* A map without some keys keeps its type.
LEMMA WithoutType ==
  ASSUME NEW S, NEW T, NEW f \in Partial(S, T), NEW X
  PROVE  Without(f, X) \in Partial(S, T)
<1>1. DOMAIN f \subseteq S /\ (\A x \in DOMAIN f : f[x] \in T)
  BY Partials
<1>2. PICK h : h = Without(f, X)
  OBVIOUS
<1>3. /\ h = [x \in DOMAIN h |-> h[x]]
      /\ DOMAIN h \subseteq S
      /\ \A x \in DOMAIN h : h[x] \in T
  BY <1>1, <1>2 DEF Without, Restrict
<1> QED
  BY <1>2, <1>3, Partials

-----------------------------------------------------------------------------
(* The decision and the deletion state.                                    *)

\* The stored event with an id.
LEMMA ByIdIs ==
  ASSUME NEW stored \in SUBSET Events, NEW i
  PROVE  /\ ById(stored, i) = Nothing <=> \A ev \in stored : ev.id # i
         /\ \A ev \in stored : ev.id = i => ById(stored, i) = ev
<1>1. Nothing \notin stored
  BY EventsAssumption
<1>2. \A ev, e2 \in stored : ev.id = e2.id => ev = e2
  BY EventsAssumption
<1>3. CASE \E ev \in stored : ev.id = i
  <2>1. ById(stored, i) \in stored /\ ById(stored, i).id = i
    BY <1>3 DEF ById
  <2> QED
    BY <1>1, <1>2, <2>1
<1>4. CASE \A ev \in stored : ev.id # i
  BY <1>4 DEF ById
<1> QED
  BY <1>3, <1>4

Max2(x, y) == IF x >= y THEN x ELSE y
\* The library's maximum of a pair is the larger of the two.
LEMMA MaxOfTwo ==
  ASSUME NEW x \in Nat, NEW y \in Nat
  PROVE  Max({x, y}) = Max2(x, y)
<1>1. Max2(x, y) \in {x, y} /\ \A z \in {x, y} : Max2(x, y) >= z
  BY DEF Max2
<1>2. \A w \in {x, y} : (\A z \in {x, y} : w >= z) => w = Max2(x, y)
  BY DEF Max2
<1> QED
  BY <1>1, <1>2, Zenon DEF Max

\* A request's plan: what it removes is stored and its author's own.
LEMMA PlanIs ==
  ASSUME NEW req \in Events, NEW stored \in SUBSET Events, NEW plan, plan = Plan(req, stored)
  PROVE  /\ plan.remove \subseteq req.e
         /\ \A i \in plan.remove : \E ev \in stored : ev.id = i /\ ev.kind # "delete" /\ ev.by = req.by
         /\ \A ev \in stored : ev.id \in req.e /\ ev.kind # "delete" /\ ev.by = req.by => ev.id \in plan.remove
         /\ DOMAIN plan.pending = {i \in req.e : \A ev \in stored : ev.id # i}
         /\ \A i \in DOMAIN plan.pending : plan.pending[i] = req.by
         /\ DOMAIN plan.until = {c \in req.a : c[1] = req.by}
         /\ \A c \in DOMAIN plan.until : plan.until[c] = req.at
         /\ plan \in Plans
<1>1. plan.remove \subseteq req.e /\ req.e \subseteq Ids /\ plan.remove \in SUBSET Ids
  BY DEF Plan, Ids
<1>2. \A i \in req.e : i \in plan.remove <=> /\ ById(stored, i) # Nothing
                                             /\ ById(stored, i).kind # "delete"
                                             /\ ById(stored, i).by = req.by
  BY DEF Plan
<1>3. \A i \in plan.remove : \E ev \in stored : ev.id = i /\ ev.kind # "delete" /\ ev.by = req.by
  BY <1>1, <1>2, ByIdIs
<1>4. \A ev \in stored : ev.id \in req.e /\ ev.kind # "delete" /\ ev.by = req.by => ev.id \in plan.remove
  BY <1>2, ByIdIs
<1>5. /\ plan.pending = [i \in DOMAIN plan.pending |-> plan.pending[i]]
      /\ DOMAIN plan.pending = {i \in req.e : \A ev \in stored : ev.id # i}
      /\ \A i \in DOMAIN plan.pending : plan.pending[i] = req.by
  <2>1. plan.pending = [i \in {i \in req.e : ById(stored, i) = Nothing} |-> req.by]
    BY DEF Plan
  <2> QED
    BY <2>1, ByIdIs
<1>6. plan.pending \in Partial(Ids, Authors)
  BY <1>1, <1>5, Partials DEF Authors
<1>7. /\ plan.until = [c \in DOMAIN plan.until |-> plan.until[c]]
      /\ DOMAIN plan.until = {c \in req.a : c[1] = req.by}
      /\ \A c \in DOMAIN plan.until : plan.until[c] = req.at
  <2>1. plan.until = [c \in {c \in req.a : c[1] = req.by} |-> req.at]
    BY DEF Plan
  <2> QED
    BY <2>1
<1>8. plan.until \in Partial(Addrs, Nat)
  BY <1>7, EventsAssumption, Partials DEF Addrs
<1>9. plan \in Plans
  BY <1>1, <1>6, <1>8 DEF Plans, Plan
<1> QED
  BY <1>1, <1>3, <1>4, <1>5, <1>7, <1>9

\* The seconds of a plan, or later ones of a state.
Seconds(f, g) == [c \in DOMAIN g |-> IF c \in DOMAIN f THEN Max({f[c], g[c]}) ELSE g[c]]
Later(f, g) == Over(f, Seconds(f, g))

\* What a plan's cut-offs become when joined with those already known: the
\* later of the two at each address the plan names.
LEMMA SecondsIs ==
  ASSUME NEW f \in Partial(Addrs, Nat), NEW g \in Partial(Addrs, Nat), NEW l, l = Seconds(f, g)
  PROVE  /\ l \in Partial(Addrs, Nat) /\ DOMAIN l = DOMAIN g
         /\ \A c \in DOMAIN g : l[c] = IF c \in DOMAIN f THEN Max2(f[c], g[c]) ELSE g[c]
<1>1. /\ DOMAIN f \subseteq Addrs /\ (\A c \in DOMAIN f : f[c] \in Nat)
      /\ DOMAIN g \subseteq Addrs /\ (\A c \in DOMAIN g : g[c] \in Nat)
  BY Partials
<1>2. \A c \in DOMAIN g : l[c] = IF c \in DOMAIN f THEN Max2(f[c], g[c]) ELSE g[c]
  BY <1>1, MaxOfTwo DEF Seconds
<1>3. \A c \in DOMAIN g : l[c] \in Nat
  BY <1>1, <1>2 DEF Max2
<1>4. DOMAIN l = DOMAIN g /\ l = [c \in DOMAIN l |-> l[c]]
  BY DEF Seconds
<1>5. l \in Partial(Addrs, Nat)
  BY <1>1, <1>3, <1>4, Partials
<1> QED
  BY <1>2, <1>4, <1>5

\* The joined cut-offs are cut-offs.
LEMMA SecondsType ==
  ASSUME NEW f \in Partial(Addrs, Nat), NEW g \in Partial(Addrs, Nat)
  PROVE  Seconds(f, g) \in Partial(Addrs, Nat)
<1>1. PICK l : l = Seconds(f, g)
  OBVIOUS
<1> QED
  BY <1>1, SecondsIs

\* Cut-offs merged into others are cut-offs.
LEMMA LaterType ==
  ASSUME NEW f \in Partial(Addrs, Nat), NEW g \in Partial(Addrs, Nat)
  PROVE  Later(f, g) \in Partial(Addrs, Nat)
BY SecondsType, OverType DEF Later

\* What u is when it joins f and g: at every address the later cut-off.
Joins(u, f, g) ==
  /\ DOMAIN u = DOMAIN f \cup DOMAIN g
  /\ \A c \in DOMAIN u : u[c] = IF c \notin DOMAIN g THEN f[c]
                                ELSE IF c \in DOMAIN f THEN Max2(f[c], g[c]) ELSE g[c]
\* Merging keeps, at every address, the later cut-off of the two maps.
LEMMA LaterIs ==
  ASSUME NEW f \in Partial(Addrs, Nat), NEW g \in Partial(Addrs, Nat)
  PROVE  Joins(Later(f, g), f, g)
<1>1. PICK l, u : l = Seconds(f, g) /\ u = Later(f, g)
  OBVIOUS
<1>2. /\ DOMAIN l = DOMAIN g
      /\ \A c \in DOMAIN g : l[c] = IF c \in DOMAIN f THEN Max2(f[c], g[c]) ELSE g[c]
  BY <1>1, SecondsIs
<1>3. u = [c \in DOMAIN f \cup DOMAIN l |-> IF c \in DOMAIN l THEN l[c] ELSE f[c]]
  BY <1>1 DEF Over, Later
<1>4. Joins(u, f, g)
  BY <1>2, <1>3 DEF Joins
<1> QED
  BY <1>1, <1>4

\* What waits for a deletion request deletes nothing.
RequestIds == {ev.id : ev \in {x \in Events : x.kind = "delete"}}
\* Two states that judge every event alike.
Alike(m, d) == /\ m.ids = d.ids /\ m.until = d.until
               /\ \A i \in Ids \ (d.ids \cup RequestIds) : At(m.pending, i) = At(d.pending, i)
\* r is d after a request with this plan, which deleted the ids gone.
After(r, d, plan, gone) ==
  /\ r \in Deletions
  /\ r.ids = d.ids \cup gone /\ r.until = Later(d.until, plan.until)
  /\ \A i \in Ids \ (r.ids \cup RequestIds) :
       At(r.pending, i) = IF i \in DOMAIN plan.pending THEN plan.pending[i] ELSE At(d.pending, i)

\* Everything that differs for two events is their id: an id names its kind.
LEMMA NoRequest ==
  ASSUME NEW ev \in Events, ev.kind # "delete"
  PROVE  ev.id \in Ids \ RequestIds
BY EventsAssumption DEF Ids, RequestIds

\* Alike tombstones cover the same events.
LEMMA AlikeCovers ==
  ASSUME NEW m, NEW d, Alike(m, d), NEW ev \in Events
  PROVE  Covers(m, ev) <=> Covers(d, ev)
<1>1. CASE ev.kind = "delete" \/ ev.id \in d.ids
  BY <1>1 DEF Alike, Covers
<1>2. CASE ev.kind # "delete" /\ ev.id \notin d.ids
  <2>1. At(m.pending, ev.id) = At(d.pending, ev.id)
    BY <1>2, NoRequest DEF Alike
  <2> QED
    BY <2>1 DEF Alike, Covers
<1> QED
  BY <1>1, <1>2

\* The same plan leaves alike tombstones alike.
LEMMA AfterAlike ==
  ASSUME NEW m, NEW d, Alike(m, d), NEW plan, NEW gone, NEW m2, NEW d2,
         After(m2, m, plan, gone), After(d2, d, plan, gone)
  PROVE  Alike(m2, d2)
BY DEF Alike, After

\* One map of waiting ids over another, both without some ids.
LEMMA Merge ==
  ASSUME NEW f \in Partial(Ids, Authors), NEW g \in Partial(Ids, Authors), NEW X, NEW Y,
         NEW q, q = Over(Without(f, X), Without(g, Y))
  PROVE  /\ q \in Partial(Ids, Authors)
         /\ \A i : i \notin X /\ i \notin Y => At(q, i) = IF i \in DOMAIN g THEN g[i] ELSE At(f, i)
<1>1. q \in Partial(Ids, Authors)
  BY WithoutType, OverType
<1>2. PICK fx : fx = Without(f, X)
  OBVIOUS
<1>3. PICK gy : gy = Without(g, Y)
  OBVIOUS
<1>4. DOMAIN gy = DOMAIN g \ Y /\ (\A i \in DOMAIN g : i \notin Y => gy[i] = g[i])
  BY <1>3 DEF Without, Restrict
<1>5. \A i : i \notin X => At(fx, i) = At(f, i)
  BY <1>2, WithoutPoint
<1>6. \A i : At(q, i) = IF i \in DOMAIN gy THEN gy[i] ELSE At(fx, i)
  BY <1>2, <1>3, OverPoint
<1> QED
  BY <1>1, <1>4, <1>5, <1>6

\* Absorb(), as the stores use it: with a request's id no longer waited for, and
\* with more ids deleted.
LEMMA AbsorbIs ==
  ASSUME NEW del \in Deletions, NEW plan \in Plans, NEW X \in SUBSET RequestIds, NEW more \in SUBSET Ids,
         NEW r, r = [Absorb([del EXCEPT !.pending = Without(@, X)], plan) EXCEPT !.ids = @ \cup more]
  PROVE  After(r, del, plan, plan.remove \cup more)
<1>1. PICK p : p = Without(del.pending, X)
  OBVIOUS
<1>2. p \in Partial(Ids, Authors) /\ \A i : i \notin X => At(p, i) = At(del.pending, i)
  <2>1. del.pending \in Partial(Ids, Authors)
    BY DEF Deletions
  <2> QED
    BY <1>1, <2>1, WithoutType, WithoutPoint
<1>3. PICK q : q = Over(Without(p, plan.remove), Without(plan.pending, del.ids \cup plan.remove))
  OBVIOUS
<1>4. r = [ids |-> (del.ids \cup plan.remove) \cup more, pending |-> q,
           until |-> Later(del.until, plan.until)]
  BY <1>1, <1>3 DEF Absorb, Later, Seconds, Deletions
<1>5. /\ r.ids = (del.ids \cup plan.remove) \cup more /\ r.pending = q
      /\ r.until = Later(del.until, plan.until)
  BY ONLY <1>4
<1>6. /\ plan.remove \in SUBSET Ids /\ plan.pending \in Partial(Ids, Authors)
      /\ plan.until \in Partial(Addrs, Nat) /\ del.until \in Partial(Addrs, Nat) /\ del.ids \in SUBSET Ids
  BY DEF Plans, Deletions
<1>7. /\ q \in Partial(Ids, Authors)
      /\ \A i : i \notin plan.remove /\ i \notin del.ids \cup plan.remove =>
           At(q, i) = IF i \in DOMAIN plan.pending THEN plan.pending[i] ELSE At(p, i)
  BY <1>2, <1>3, <1>6, Merge
<1>8. r \in Deletions
  <2>1. Later(del.until, plan.until) \in Partial(Addrs, Nat)
    BY <1>6, LaterType
  <2>2. (del.ids \cup plan.remove) \cup more \in SUBSET Ids
    BY <1>6
  <2> QED
    BY ONLY <1>4, <1>7, <2>1, <2>2 DEF Deletions
<1>9. \A i \in Ids \ (r.ids \cup RequestIds) :
         At(r.pending, i) = IF i \in DOMAIN plan.pending THEN plan.pending[i] ELSE At(del.pending, i)
  BY <1>2, <1>5, <1>7
<1> QED
  BY <1>5, <1>8, <1>9 DEF After

\* Deleted for good.
LEMMA TombstoneIs ==
  ASSUME NEW d \in Deletions, NEW ids \in SUBSET Ids, NEW r, r = Tombstone(d, ids)
  PROVE  /\ r \in Deletions /\ r.ids = d.ids \cup ids /\ r.until = d.until
         /\ \A i : i \notin ids => At(r.pending, i) = At(d.pending, i)
<1>1. PICK q : q = Without(d.pending, ids)
  OBVIOUS
<1>2. r = [ids |-> d.ids \cup ids, pending |-> q, until |-> d.until]
  BY <1>1 DEF Tombstone, Deletions
<1>3. q \in Partial(Ids, Authors)
  BY <1>1, WithoutType DEF Deletions
<1>4. d.ids \cup ids \in SUBSET Ids /\ d.until \in Partial(Addrs, Nat)
  BY DEF Deletions
<1>5. r \in Deletions
  BY ONLY <1>2, <1>3, <1>4 DEF Deletions
<1>6. \A i : i \notin ids => At(q, i) = At(d.pending, i)
  BY <1>1, WithoutPoint
<1> QED
  BY <1>2, <1>5, <1>6

\* Removals leave alike tombstones alike.
LEMMA TombstoneAlike ==
  ASSUME NEW m \in Deletions, NEW d \in Deletions, Alike(m, d), NEW ids \in SUBSET Ids
  PROVE  Alike(Tombstone(m, ids), Tombstone(d, ids))
<1>1. PICK m2, d2 : m2 = Tombstone(m, ids) /\ d2 = Tombstone(d, ids)
  OBVIOUS
<1>2. /\ m2.ids = m.ids \cup ids /\ m2.until = m.until /\ \A i : i \notin ids => At(m2.pending, i) = At(m.pending, i)
      /\ d2.ids = d.ids \cup ids /\ d2.until = d.until /\ \A i : i \notin ids => At(d2.pending, i) = At(d.pending, i)
  BY <1>1, TombstoneIs
<1> QED
  BY <1>1, <1>2 DEF Alike

-----------------------------------------------------------------------------
(* The decision.                                                           *)

HeldAs(ev) == [id |-> ev.id, at |-> ev.at, evicted |-> FALSE]
\* The fields of an address's holder; a holder is not Nothing.
LEMMA HeldParts ==
  ASSUME NEW ev \in Events
  PROVE  HeldAs(ev).id = ev.id /\ HeldAs(ev).at = ev.at /\ HeldAs(ev).evicted = FALSE /\ HeldAs(ev) # Nothing
<1>1. HeldAs(ev) \in [id : Ids, at : Nat, evicted : BOOLEAN]
  BY EventsAssumption DEF Ids, HeldAs
<1> QED
  BY <1>1, EventsAssumption DEF HeldAs

\* What getReplaceable() returns when no winner was evicted.
HolderOf(h, stored) ==
  /\ h = [c \in Addrs |-> h[c]]
  /\ \A c \in Addrs : (\A ev \in stored : ev.addr # c) => h[c] = Nothing
  /\ \A ev \in stored : ev.addr # Nothing => h[ev.addr] = HeldAs(ev)
Unknown(ev, del, stored) == ev.id \notin del.ids /\ \A x \in stored : x.id # ev.id
AtAddress(stored, addr) == {x.id : x \in {y \in stored : addr # Nothing /\ y.addr = addr}}
Overdue(stored, until) == {x.id : x \in {y \in stored : y.addr \in DOMAIN until /\ y.at <= until[y.addr]}}

\* The stored events determine who holds each address.
LEMMA OneHolder ==
  ASSUME NEW stored, stored \subseteq Events, NEW h, HolderOf(h, stored), NEW g, HolderOf(g, stored)
  PROVE  h = g
<1>1. ASSUME NEW c \in Addrs PROVE h[c] = g[c]
  <2>1. CASE \A ev \in stored : ev.addr # c
    BY <2>1 DEF HolderOf
  <2>2. ASSUME NEW ev \in stored, ev.addr = c PROVE h[c] = g[c]
    <3>1. c # Nothing
      BY DEF Addrs
    <3> QED
      BY <2>2, <3>1 DEF HolderOf
  <2> QED
    BY <2>1, <2>2
<1> QED
  BY <1>1 DEF HolderOf

\* The decision depends on the state only through what it judges.
LEMMA SameDecision ==
  ASSUME NEW ev, NEW m, NEW d, NEW stored, NEW h,
         ev.id \in m.ids <=> ev.id \in d.ids, Covers(m, ev) <=> Covers(d, ev)
  PROVE  Decide(ev, m, stored, h) = Decide(ev, d, stored, h)
BY DEF Decide

HolderFacts(h, stored) ==
  \A c \in Addrs :
     /\ h[c] = Nothing <=> \A x \in stored : x.addr # c
     /\ \A x \in stored : x.addr = c => /\ h[c] = HeldAs(x) /\ h[c] # Nothing
                                        /\ \A y \in stored : y.addr = c => y = x
\* What a holder says of the stored event it stands for.
LEMMA HolderParts ==
  ASSUME NEW stored \in SUBSET Events, NEW h, HolderOf(h, stored)
  PROVE  HolderFacts(h, stored)
<1> SUFFICES ASSUME NEW c \in Addrs
             PROVE  /\ h[c] = Nothing <=> \A x \in stored : x.addr # c
                    /\ \A x \in stored : x.addr = c => /\ h[c] = HeldAs(x) /\ h[c] # Nothing
                                                       /\ \A y \in stored : y.addr = c => y = x
  BY DEF HolderFacts
<1>1. CASE \A x \in stored : x.addr # c
  BY <1>1 DEF HolderOf
<1>2. ASSUME NEW x \in stored, x.addr = c
      PROVE  /\ h[c] = HeldAs(x) /\ h[c] # Nothing
             /\ \A y \in stored : y.addr = c => y = x
  <2>1. c # Nothing
    BY DEF Addrs
  <2>2. \A y \in stored : y.addr = c => h[c] = HeldAs(y)
    BY <2>1 DEF HolderOf
  <2>3. ASSUME NEW y \in stored, y.addr = c PROVE y = x
    <3>1. HeldAs(y) = HeldAs(x)
      BY <1>2, <2>2, <2>3
    <3>2. y.id = x.id
      BY <3>1, HeldParts
    <3> QED
      BY <3>2, EventsAssumption
  <2> QED
    BY <1>2, <2>2, <2>3, HeldParts
<1> QED
  BY <1>1, <1>2

\* The events that a plan's cut-offs remove are the stored ones at its
\* addresses that are not younger, whichever index finds them.
LEMMA CoordsIs ==
  ASSUME NEW stored \in SUBSET Events, NEW h, HolderOf(h, stored), NEW plan, DOMAIN plan.until \subseteq Addrs
  PROVE  CoordinateRemovals(plan, h) = Overdue(stored, plan.until)
<1>0. HolderFacts(h, stored)
  BY HolderParts
<1>1. ASSUME NEW c \in DOMAIN plan.until, h[c] # Nothing, h[c].at <= plan.until[c]
      PROVE  h[c].id \in Overdue(stored, plan.until)
  <2>1. PICK x \in stored : x.addr = c /\ h[c] = HeldAs(x)
    BY <1>0, <1>1 DEF HolderFacts
  <2>2. h[c].id = x.id /\ h[c].at = x.at
    BY <2>1, HeldParts
  <2> QED
    BY <1>1, <2>1, <2>2 DEF Overdue
<1>2. ASSUME NEW x \in stored, x.addr \in DOMAIN plan.until, x.at <= plan.until[x.addr]
      PROVE  x.id \in CoordinateRemovals(plan, h)
  <2>1. h[x.addr] # Nothing /\ h[x.addr] = HeldAs(x)
    <3>1. PICK c \in Addrs : c = x.addr
      BY <1>2
    <3> QED
      BY <1>0, <3>1 DEF HolderFacts
  <2>2. h[x.addr].id = x.id /\ h[x.addr].at = x.at
    BY <2>1, HeldParts
  <2> QED
    BY <1>2, <2>1, <2>2 DEF CoordinateRemovals
<1>3. CoordinateRemovals(plan, h) \subseteq Overdue(stored, plan.until)
  BY <1>1 DEF CoordinateRemovals
<1>4. Overdue(stored, plan.until) \subseteq CoordinateRemovals(plan, h)
  BY <1>2 DEF Overdue
<1> QED
  BY <1>3, <1>4

\* The four outcomes.
Decided(d, ev, del, stored) ==
  \/ d.action = "skip"
  \/ d.action = "tombstone" /\ ev.kind # "delete" /\ Unknown(ev, del, stored)
  \/ /\ d.action = "delete" /\ ev.kind = "delete" /\ Unknown(ev, del, stored)
     /\ d.plan = Plan(ev, stored) /\ d.coords = Overdue(stored, d.plan.until)
  \/ /\ d.action = "insert" /\ ev.kind # "delete" /\ Unknown(ev, del, stored) /\ ~Covers(del, ev)
     /\ d.drop = AtAddress(stored, ev.addr)
\* Decide, by its outcomes: what is dropped, what is replaced and what is
\* tombstoned, in terms of the stored events and the tombstones.
LEMMA DecisionIs ==
  ASSUME NEW ev \in Events, NEW del, NEW stored \in SUBSET Events, NEW h, HolderOf(h, stored),
         NEW d, d = Decide(ev, del, stored, h)
  PROVE  Decided(d, ev, del, stored)
<1> DEFINE known == ev.id \in del.ids \/ ById(stored, ev.id) # Nothing
           prev == IF ev.addr = Nothing THEN Nothing ELSE h[ev.addr]
<1>0. HolderFacts(h, stored)
  BY HolderParts
<1>1. ~known <=> Unknown(ev, del, stored)
  BY ByIdIs DEF Unknown
<1>2. CASE ev.kind = "invalid" \/ known
  BY <1>2 DEF Decide, Decided, Skip
<1>3. CASE ev.kind # "invalid" /\ ~known /\ ev.kind = "delete"
  <2>1. d = [action |-> "delete", result |-> "deleted", plan |-> Plan(ev, stored),
             coords |-> CoordinateRemovals(Plan(ev, stored), h)]
    BY <1>3 DEF Decide
  <2>2. DOMAIN Plan(ev, stored).until \subseteq Addrs
    BY EventsAssumption DEF Plan, Addrs
  <2> QED
    BY <1>1, <1>3, <2>1, <2>2, CoordsIs DEF Decided
<1>4. CASE ev.kind # "invalid" /\ ~known /\ ev.kind # "delete" /\ Covers(del, ev)
  <2>1. d = [action |-> "tombstone", result |-> "duplicate"]
    BY <1>4 DEF Decide
  <2> QED
    BY <1>1, <1>4, <2>1 DEF Decided
<1>5. CASE ev.kind \notin {"invalid", "delete"} /\ ~known /\ ~Covers(del, ev)
  <2>1. CASE prev = Nothing
    <3>1. AtAddress(stored, ev.addr) = {}
      <4>1. CASE ev.addr = Nothing
        BY <4>1 DEF AtAddress
      <4>2. CASE ev.addr # Nothing
        <5>1. ev.addr \in Addrs
          BY <4>2 DEF Addrs
        <5>2. PICK c \in Addrs : c = ev.addr
          BY <5>1
        <5>3. \A x \in stored : x.addr # c
          BY <1>0, <2>1, <4>2, <5>2 DEF HolderFacts
        <5> QED
          BY <5>2, <5>3 DEF AtAddress
      <4> QED
        BY <4>1, <4>2
    <3>2. d.action = "skip" \/ (d.action = "insert" /\ d.drop = {})
      BY <1>5, <2>1 DEF Decide, Skip
    <3> QED
      BY <1>1, <1>5, <3>1, <3>2 DEF Decided
  <2>2. CASE prev # Nothing
    <3>1. ev.addr # Nothing /\ ev.addr \in Addrs /\ prev = h[ev.addr]
      BY <2>2 DEF Addrs
    <3>2. PICK x \in stored : /\ x.addr = ev.addr /\ prev = HeldAs(x)
                              /\ \A y \in stored : y.addr = ev.addr => y = x
      <4>1. PICK c \in Addrs : c = ev.addr
        BY <3>1
      <4> QED
        BY <1>0, <2>2, <3>1, <4>1 DEF HolderFacts
    <3>3. AtAddress(stored, ev.addr) = {x.id}
      BY <3>1, <3>2 DEF AtAddress
    <3>4. prev.id = x.id /\ prev.evicted = FALSE
      BY <3>2, HeldParts
    <3>5. d.action = "skip" \/ (d.action = "insert" /\ d.drop = {prev.id})
      BY <1>5, <2>2, <3>1, <3>4 DEF Decide, Skip
    <3> QED
      BY <1>1, <1>5, <3>3, <3>4, <3>5 DEF Decided
  <2> QED
    BY <2>1, <2>2
<1> QED
  BY <1>2, <1>3, <1>4, <1>5

-----------------------------------------------------------------------------
(* What a deletion request erases, and what it then covers.                *)
OnePerAddress(stored) == \A x, y \in stored : x.addr = y.addr /\ x.addr # Nothing => x = y
Erased(req, stored) == Plan(req, stored).remove \cup Overdue(stored, Plan(req, stored).until)

\* Tombstones of other ids cover nothing more.
LEMMA TombstoneCovers ==
  ASSUME NEW d \in Deletions, NEW ids \in SUBSET Ids, NEW ev \in Events, ev.id \notin ids, ~Covers(d, ev)
  PROVE  ~Covers(Tombstone(d, ids), ev)
<1>1. PICK r : r = Tombstone(d, ids)
  OBVIOUS
<1>2. r.ids = d.ids \cup ids /\ r.until = d.until /\ \A i : i \notin ids => At(r.pending, i) = At(d.pending, i)
  BY <1>1, TombstoneIs
<1> QED
  BY <1>1, <1>2 DEF Covers

\* A deletion that removes what its request erases covers no event that is left.
LEMMA DeletionCovers ==
  ASSUME NEW d \in Deletions, NEW stored \in SUBSET Events, NEW req \in Events,
         NEW gone, Erased(req, stored) \subseteq gone,
         NEW r, After(r, d, Plan(req, stored), gone),
         NEW ev \in stored, ~Covers(d, ev), ev.id \notin gone
  PROVE  ~Covers(r, ev)
<1>1. PICK plan : plan = Plan(req, stored)
  OBVIOUS
<1>2. plan.until \in Partial(Addrs, Nat) /\ d.until \in Partial(Addrs, Nat)
      /\ DOMAIN plan.pending = {i \in req.e : \A x \in stored : x.id # i}
  BY <1>1, PlanIs DEF Plans, Deletions
<1>3. ev.id \notin r.ids
  BY DEF After, Covers
<1>4. CASE ev.kind = "delete"
  BY <1>3, <1>4 DEF Covers
<1>5. CASE ev.kind # "delete"
  <2>1. At(r.pending, ev.id) # ev.by
    <3>1. ev.id \in Ids \ RequestIds /\ ev.id \notin DOMAIN plan.pending
      BY <1>2, <1>5, NoRequest
    <3>2. At(r.pending, ev.id) = At(d.pending, ev.id)
      BY <1>1, <1>3, <3>1 DEF After
    <3> QED
      BY <1>5, <3>2 DEF Covers
  <2>2. ASSUME ev.addr \in DOMAIN r.until, ev.at <= r.until[ev.addr] PROVE FALSE
    <3>1. PICK u : u = Later(d.until, plan.until) /\ u = r.until
      BY <1>1 DEF After
    <3>2. PICK c : c = ev.addr
      OBVIOUS
    <3>3. /\ c \in DOMAIN d.until \cup DOMAIN plan.until
          /\ u[c] = IF c \notin DOMAIN plan.until THEN d.until[c]
                    ELSE IF c \in DOMAIN d.until THEN Max2(d.until[c], plan.until[c])
                    ELSE plan.until[c]
      <4>1. /\ DOMAIN u = DOMAIN d.until \cup DOMAIN plan.until
            /\ \A x \in DOMAIN u : u[x] = IF x \notin DOMAIN plan.until THEN d.until[x]
                                          ELSE IF x \in DOMAIN d.until THEN Max2(d.until[x], plan.until[x])
                                          ELSE plan.until[x]
        <5>1. Joins(u, d.until, plan.until)
          <6>1. d.until \in Partial(Addrs, Nat) /\ plan.until \in Partial(Addrs, Nat) /\ u = Later(d.until, plan.until)
            BY <1>2, <3>1
          <6> QED
            BY ONLY <6>1, LaterIs
        <5> QED
          BY <5>1 DEF Joins
      <4>2. c \in DOMAIN u
        BY <2>2, <3>1, <3>2
      <4> QED
        BY <4>1, <4>2
    <3>4. c \in DOMAIN d.until => ~(ev.at <= d.until[c])
      BY <1>5, <3>2 DEF Covers
    <3>5. c \in DOMAIN plan.until => ~(ev.at <= plan.until[c])
      BY <1>1, <3>2 DEF Erased, Overdue
    <3> QED
      BY <2>2, <3>1, <3>2, <3>3, <3>4, <3>5 DEF Max2
  <2> QED
    BY <1>3, <2>1, <2>2 DEF Covers
<1> QED
  BY <1>4, <1>5

=============================================================================
