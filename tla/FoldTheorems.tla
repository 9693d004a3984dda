---------------------------- MODULE FoldTheorems ----------------------------
(***************************************************************************)
(* What FoldLeft computes, for any operator op: the facts that the proofs  *)
(* about RxPath take from an instance of this module for each of the       *)
(* operators that are folded there.                                        *)
(*                                                                         *)
(* The community modules define FoldLeft by recursion over the subsets of  *)
(* a sequence's domain.  That such a function exists is proved here by     *)
(* induction, which the library states for an arbitrary predicate and this *)
(* module, so that the provers can use it, for a set of numbers.           *)
(***************************************************************************)
EXTENDS SequenceTheorems, WellFoundedInduction, TLAPS

CONSTANT op(_, _)

Largest(u) == CHOOSE x \in u : \A y \in u : x >= y

\* f folds the first n elements of s: the value for a set of indices.
Folds(base, s, f, n) ==
    f = [u \in SUBSET (1 .. n) |->
           IF u = {} THEN base ELSE op(f[u \ {Largest(u)}], s[Largest(u)])]

Fold(base, s) ==
    (CHOOSE f : f = [u \in SUBSET DOMAIN s |->
        IF u = {} THEN base ELSE op(f[u \ {Largest(u)}], s[Largest(u)])])[DOMAIN s]

----------------------------------------------------------------------------
LEMMA NatOrder ==
  \E R : /\ IsWellFoundedOn(R, Nat)
         /\ \A x, y \in Nat : x < y => <<x, y>> \in R
<1>1. \A x, y \in Nat : x < y => <<x, y>> \in OpToRel(<, Nat)
  BY Zenon DEF OpToRel
<1> QED  BY <1>1, NatLessThanWellFounded, Zenon

LEMMA Induction ==
  ASSUME NEW G \in SUBSET Nat, 0 \in G, \A n \in G : n + 1 \in G
  PROVE  G = Nat
<1> SUFFICES ASSUME Nat \ G # {} PROVE FALSE  OBVIOUS
<1>1. PICK R : /\ IsWellFoundedOn(R, Nat)
               /\ \A x, y \in Nat : x < y => <<x, y>> \in R
  BY NatOrder
<1>2. PICK m \in Nat \ G : \A k \in Nat \ G : ~ (<<k, m>> \in R)
  BY <1>1, WFMin
<1>3. m # 0 /\ m - 1 \in Nat /\ m - 1 < m /\ m \in Nat
  OBVIOUS
<1>4. <<m - 1, m>> \in R
  BY <1>1, <1>3
<1>5. m - 1 \in G
  BY <1>2, <1>3, <1>4
<1> QED  BY <1>3, <1>5

\* The same for sequences that are built up by appending.
LEMMA SeqInduction ==
  ASSUME NEW T, NEW G \in SUBSET Seq(T), <<>> \in G,
         \A s \in G, x \in T : Append(s, x) \in G
  PROVE  G = Seq(T)
<1> DEFINE N == {n \in Nat : \A s \in Seq(T) : Len(s) = n => s \in G}
<1>1. 0 \in N
  BY EmptySeq
<1>2. ASSUME NEW n \in N PROVE n + 1 \in N
  <2> SUFFICES ASSUME NEW s \in Seq(T), Len(s) = n + 1 PROVE s \in G
    OBVIOUS
  <2>1. s # <<>>
    BY EmptySeq
  <2>2. PICK r \in Seq(T), x \in T : s = Append(r, x)
    BY <2>1, SequenceEmptyOrAppend
  <2>3. Len(r) = n
    BY <2>2, AppendProperties, LenProperties
  <2> QED  BY <2>2, <2>3
<1>3. N = Nat
  <2> HIDE DEF N
  <2>1. N \subseteq Nat  BY DEF N
  <2> QED  BY <1>1, <1>2, <2>1, Induction
<1> QED  BY <1>3, LenProperties

LEMMA LargestIs ==
  ASSUME NEW n \in Nat, NEW u \in SUBSET (1 .. n + 1), n + 1 \in u
  PROVE  Largest(u) = n + 1
<1>1. \A x \in u : x \in Int /\ n + 1 >= x
  OBVIOUS
<1>2. \E x \in u : \A y \in u : x >= y
  BY <1>1
<1>3. Largest(u) \in u /\ \A y \in u : Largest(u) >= y
  BY <1>2 DEF Largest
<1>4. Largest(u) >= n + 1 /\ Largest(u) \in Int /\ n + 1 >= Largest(u)
  BY <1>1, <1>3
<1> QED  BY <1>4

LEMMA FoldsExists ==
  ASSUME NEW base, NEW s PROVE \A n \in Nat : \E f : Folds(base, s, f, n)
<1> DEFINE G == {n \in Nat : \E f : Folds(base, s, f, n)}
<1>1. 0 \in G
  <2>1. Folds(base, s, [u \in SUBSET (1 .. 0) |-> base], 0)
    BY DEF Folds
  <2> QED  BY <2>1
<1>2. ASSUME NEW n \in G PROVE n + 1 \in G
  <2>1. PICK f : Folds(base, s, f, n)
    OBVIOUS
  <2> DEFINE g == [u \in SUBSET (1 .. n + 1) |->
                     IF n + 1 \in u THEN op(f[u \ {n + 1}], s[n + 1]) ELSE f[u]]
  <2>2. ASSUME NEW u \in SUBSET (1 .. n + 1)
        PROVE g[u] = IF u = {} THEN base
                               ELSE op(g[u \ {Largest(u)}], s[Largest(u)])
    <3>1. CASE n + 1 \in u
      <4>1. Largest(u) = n + 1
        BY <3>1, LargestIs
      <4>2. g[u \ {n + 1}] = f[u \ {n + 1}]
        OBVIOUS
      <4>3. g[u] = op(f[u \ {n + 1}], s[n + 1])
        BY <3>1
      <4>4. u # {}
        BY <3>1
      <4> HIDE DEF g
      <4> QED  BY <4>1, <4>2, <4>3, <4>4
    <3>2. CASE n + 1 \notin u
      <4>0. \A x \in u : x \in 1 .. n
        BY <3>2
      <4>1. u \in SUBSET (1 .. n) /\ u \ {Largest(u)} \in SUBSET (1 .. n)
        BY <4>0
      <4>2. g[u] = f[u] /\ g[u \ {Largest(u)}] = f[u \ {Largest(u)}]
        BY <3>2, <4>1
      <4>3. f[u] = IF u = {} THEN base ELSE op(f[u \ {Largest(u)}], s[Largest(u)])
        BY <2>1, <4>1 DEF Folds
      <4> HIDE DEF g
      <4> QED  BY <4>2, <4>3
    <3> QED  BY <3>1, <3>2
  <2>3. Folds(base, s, g, n + 1)
    <3>1. g = [u \in SUBSET (1 .. n + 1) |-> g[u]]
      OBVIOUS
    <3> HIDE DEF g
    <3> QED  BY <2>2, <3>1 DEF Folds
  <2> QED  BY <2>3
<1>3. G = Nat
  <2> HIDE DEF G
  <2>1. G \subseteq Nat  BY DEF G
  <2> QED  BY <1>1, <1>2, <2>1, Induction
<1> QED  BY <1>3

\* One more index is one more application of op.
LEMMA FoldsNext ==
  ASSUME NEW base, NEW s, NEW f, NEW n \in Nat, Folds(base, s, f, n),
         NEW k \in Nat, k + 1 <= n
  PROVE  f[1 .. k + 1] = op(f[1 .. k], s[k + 1])
<1>1. 1 .. k + 1 \in SUBSET (1 .. n) /\ k + 1 \in 1 .. k + 1
  OBVIOUS
<1>2. Largest(1 .. k + 1) = k + 1
  BY <1>1, LargestIs
<1>3. (1 .. k + 1) \ {k + 1} = 1 .. k
  OBVIOUS
<1>4. f[1 .. k + 1] = op(f[(1 .. k + 1) \ {Largest(1 .. k + 1)}], s[Largest(1 .. k + 1)])
  BY <1>1 DEF Folds
<1> QED  BY <1>2, <1>3, <1>4

LEMMA FoldIs ==
  ASSUME NEW base, NEW T, NEW s \in Seq(T)
  PROVE  \E f : Folds(base, s, f, Len(s)) /\ Fold(base, s) = f[1 .. Len(s)]
<1>1. Len(s) \in Nat /\ DOMAIN s = 1 .. Len(s)
  BY LenProperties
<1> DEFINE f == CHOOSE h : Folds(base, s, h, Len(s))
<1>2. Folds(base, s, f, Len(s))
  BY <1>1, FoldsExists
<1>3. Fold(base, s) = f[1 .. Len(s)]
  BY <1>1 DEF Fold, Folds
<1> QED  BY <1>2, <1>3

\* The two equations that define a fold.
LEMMA FoldEmpty == ASSUME NEW base PROVE Fold(base, <<>>) = base
<1>1. <<>> \in Seq({}) /\ Len(<<>>) = 0
  BY EmptySeq
<1>2. PICK f : Folds(base, <<>>, f, 0) /\ Fold(base, <<>>) = f[1 .. 0]
  BY <1>1, FoldIs
<1>3. 1 .. 0 = {}
  OBVIOUS
<1> QED  BY <1>2, <1>3 DEF Folds

LEMMA FoldAppend ==
  ASSUME NEW base, NEW T, NEW s \in Seq(T), NEW x \in T
  PROVE  Fold(base, Append(s, x)) = op(Fold(base, s), x)
<1> DEFINE t == Append(s, x)
           n == Len(s)
<1>1. /\ n \in Nat /\ t \in Seq(T) /\ Len(t) = n + 1
      /\ t[n + 1] = x /\ \A i \in 1 .. n : s[i] = t[i]
  BY AppendProperties, LenProperties
<1>2. PICK f : Folds(base, s, f, n) /\ Fold(base, s) = f[1 .. n]
  BY FoldIs
<1>3. PICK g : Folds(base, t, g, n + 1) /\ Fold(base, t) = g[1 .. n + 1]
  BY <1>1, FoldIs
<1> HIDE DEF t, n
<1>4. n + 1 \in Nat /\ n <= n + 1
  BY <1>1
<1>5. f[1 .. n] = g[1 .. n]
  <2> DEFINE G == {k \in Nat : k <= n => f[1 .. k] = g[1 .. k]}
  <2>1. 0 \in G
    <3>1. 1 .. 0 = {}
      OBVIOUS
    <3> QED  BY <1>2, <1>3, <3>1 DEF Folds
  <2>2. ASSUME NEW k \in G PROVE k + 1 \in G
    <3> SUFFICES ASSUME k + 1 <= n PROVE f[1 .. k + 1] = g[1 .. k + 1]
      OBVIOUS
    <3>1. f[1 .. k] = g[1 .. k] /\ s[k + 1] = t[k + 1] /\ k + 1 <= n + 1
      BY <1>1
    <3>2. f[1 .. k + 1] = op(f[1 .. k], s[k + 1])
      BY <1>1, <1>2, FoldsNext
    <3>3. g[1 .. k + 1] = op(g[1 .. k], t[k + 1])
      BY <1>1, <1>3, <3>1, FoldsNext
    <3> QED  BY <3>1, <3>2, <3>3
  <2>3. G = Nat
    <3> HIDE DEF G
    <3>1. G \subseteq Nat  BY DEF G
    <3> QED  BY <2>1, <2>2, <3>1, Induction
  <2> QED  BY <1>1, <2>3
<1>6. g[1 .. n + 1] = op(g[1 .. n], t[n + 1])
  BY <1>1, <1>3, <1>4, FoldsNext
<1> QED  BY <1>1, <1>2, <1>3, <1>5, <1>6 DEF t

=============================================================================
