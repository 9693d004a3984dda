---------------------------- MODULE TxPathProofs ----------------------------
(***************************************************************************)
(* Proofs about the way of a byte from the application to the caller, for  *)
(* every number of ports, every size of the TX rings and every stream.     *)
(*                                                                         *)
(* StreamIntact is inductive only together with three facts: a port that   *)
(* has written nothing in this call has nothing on its way (QuietPort),    *)
(* the shared buffer is empty when nobody owns it (Ownerless), and what a  *)
(* port has on its way is made of what it wrote (OnlyOwed).  What one run  *)
(* of fossil_flush_tx does to the output of its port is the lemma          *)
(* FlushSound, from which the actions follow.                              *)
(*                                                                         *)
(* EscapeAll is defined by FlattenSeq of the community modules, whose      *)
(* function is recursive.  The two equations that the proofs need of it    *)
(* are proved first, by induction over the length.                         *)
(***************************************************************************)
EXTENDS TxPath, SequenceTheorems, WellFoundedInduction, TLAPS

\* The order of the natural numbers as the library's relation.
LEMMA NatOrder ==
  \E R : /\ IsWellFoundedOn(R, Nat)
         /\ \A x, y \in Nat : x < y => <<x, y>> \in R
<1>1. \A x, y \in Nat : x < y => <<x, y>> \in OpToRel(<, Nat)
  BY Zenon DEF OpToRel
<1> QED  BY <1>1, NatLessThanWellFounded, Zenon

\* Induction over the natural numbers, stated of a set.
LEMMA Induction ==
  ASSUME NEW G \in SUBSET Nat, 0 \in G, \A n \in G : n + 1 \in G
  PROVE  G = Nat
<1> SUFFICES ASSUME Nat \ G # {} PROVE FALSE  OBVIOUS
<1>0. PICK R : /\ IsWellFoundedOn(R, Nat)
               /\ \A x, y \in Nat : x < y => <<x, y>> \in R
  BY NatOrder
<1>1. PICK m \in Nat \ G : \A k \in Nat \ G : ~ (<<k, m>> \in R)
  BY <1>0, WFMin
<1>2. m # 0 /\ m - 1 \in Nat
  OBVIOUS
<1>3. m - 1 < m /\ m \in Nat
  BY <1>2
<1>4. <<m - 1, m>> \in R
  BY <1>0, <1>2, <1>3
<1>5. m - 1 \in G
  BY <1>1, <1>2, <1>4
<1> QED  BY <1>2, <1>5

\* f[i] is what the first i sequences of ss make up.
Spread(ss, f, n) ==
  f = [i \in 1 .. n |-> IF i = 1 THEN ss[i] ELSE f[i - 1] \o ss[i]]

LEMMA FlattenDef ==
  ASSUME NEW ss, Len(ss) # 0
  PROVE  FlattenSeq(ss) = (CHOOSE f : Spread(ss, f, Len(ss)))[Len(ss)]
BY DEF FlattenSeq, Spread

LEMMA SpreadExists ==
  ASSUME NEW ss PROVE \A n \in Nat : \E f : Spread(ss, f, n)
<1> DEFINE G == {n \in Nat : \E f : Spread(ss, f, n)}
<1>1. 0 \in G
  <2>1. Spread(ss, [i \in 1 .. 0 |-> 0], 0)
    BY DEF Spread
  <2> QED  BY <2>1
<1>2. ASSUME NEW n \in G PROVE n + 1 \in G
  <2>1. PICK f : Spread(ss, f, n)
    OBVIOUS
  <2> DEFINE g == [i \in 1 .. n + 1 |->
                     IF i = n + 1
                       THEN (IF i = 1 THEN ss[i] ELSE f[i - 1] \o ss[i])
                       ELSE f[i]]
  <2>2. \A i \in 1 .. n : g[i] = f[i] /\ i \in 1 .. n + 1
    OBVIOUS
  <2>3. ASSUME NEW i \in 1 .. n + 1
        PROVE g[i] = IF i = 1 THEN ss[i] ELSE g[i - 1] \o ss[i]
    <3>1. CASE i = n + 1
      <4>1. i # 1 => i - 1 \in 1 .. n
        BY <3>1
      <4> QED  BY <3>1, <4>1, <2>2
    <3>2. CASE i # n + 1
      <4>1. i \in 1 .. n /\ (i # 1 => i - 1 \in 1 .. n)
        BY <3>2
      <4>2. f[i] = IF i = 1 THEN ss[i] ELSE f[i - 1] \o ss[i]
        BY <2>1, <4>1 DEF Spread
      <4> QED  BY <4>1, <4>2, <2>2
    <3> QED  BY <3>1, <3>2
  <2>4. Spread(ss, g, n + 1)
    <3> HIDE DEF g
    <3>1. g = [i \in 1 .. n + 1 |-> g[i]]
      BY DEF g
    <3> QED  BY <3>1, <2>3 DEF Spread
  <2> QED  BY <2>4
<1> QED  BY <1>1, <1>2, Induction, G = Nat

LEMMA SpreadAgrees ==
  ASSUME NEW ss, NEW tt, NEW f, NEW g, NEW n \in Nat, NEW m \in Nat, n <= m,
         Spread(ss, f, n), Spread(tt, g, m), \A i \in 1 .. n : ss[i] = tt[i]
  PROVE  \A i \in 1 .. n : f[i] = g[i]
<1> DEFINE G == {k \in Nat : k \in 1 .. n => f[k] = g[k]}
<1>1. 0 \in G  OBVIOUS
<1>2. ASSUME NEW k \in G PROVE k + 1 \in G
  <2> SUFFICES ASSUME k + 1 \in 1 .. n PROVE f[k + 1] = g[k + 1]
    OBVIOUS
  <2>1. /\ f[k + 1] = IF k + 1 = 1 THEN ss[k + 1] ELSE f[k] \o ss[k + 1]
        /\ g[k + 1] = IF k + 1 = 1 THEN tt[k + 1] ELSE g[k] \o tt[k + 1]
    <3>1. k + 1 \in 1 .. m /\ (k + 1) - 1 = k
      OBVIOUS
    <3> QED  BY <3>1 DEF Spread
  <2>2. k + 1 # 1 => f[k] = g[k]
    OBVIOUS
  <2> QED  BY <2>1, <2>2
<1> QED
  <2>1. G = Nat
    <3> HIDE DEF G
    <3> QED  BY <1>1, <1>2, Induction DEF G
  <2> QED  BY <2>1

\* What FlattenSeq makes of a sequence to which one more is appended.
LEMMA FlattenAppend ==
  ASSUME NEW T, NEW ss \in Seq(Seq(T)), NEW x \in Seq(T)
  PROVE  FlattenSeq(Append(ss, x)) = FlattenSeq(ss) \o x
<1> DEFINE tt == Append(ss, x)
           n == Len(ss)
<1>1. /\ Len(tt) = n + 1 /\ n \in Nat /\ tt[n + 1] = x
      /\ \A i \in 1 .. n : ss[i] = tt[i]
  BY AppendProperties, LenProperties
<1> HIDE DEF tt
<1>2. PICK g : Spread(tt, g, n + 1) /\ FlattenSeq(tt) = g[n + 1]
  <2>1. Spread(tt, CHOOSE h : Spread(tt, h, n + 1), n + 1)
    BY <1>1, SpreadExists
  <2> QED  BY <1>1, <2>1, FlattenDef
<1>3. CASE n = 0
  <2>1. ss = <<>> /\ FlattenSeq(ss) = <<>>
    BY <1>3, EmptySeq DEF FlattenSeq
  <2>2. g[1] = x
    BY <1>1, <1>2, <1>3 DEF Spread
  <2> QED  BY <1>2, <1>3, <2>1, <2>2, ConcatEmptySeq DEF tt
<1>4. CASE n # 0
  <2>1. PICK f : Spread(ss, f, n) /\ FlattenSeq(ss) = f[n]
    <3>1. Spread(ss, CHOOSE h : Spread(ss, h, n), n)
      BY <1>1, SpreadExists
    <3> QED  BY <1>1, <1>4, <3>1, FlattenDef
  <2>2. f[n] = g[n]
    <3>1. n \in 1 .. n /\ n + 1 \in Nat /\ n <= n + 1
      BY <1>1, <1>4
    <3>2. \A i \in 1 .. n : f[i] = g[i]
      <4>1. /\ n \in Nat /\ Spread(ss, f, n) /\ Spread(tt, g, n + 1)
            /\ \A i \in 1 .. n : ss[i] = tt[i]
        BY <1>1, <1>2, <2>1
      <4> HIDE DEF n
      <4> QED  BY <3>1, <4>1, SpreadAgrees
    <3> QED  BY <3>1, <3>2
  <2>3. g[n + 1] = g[n] \o x
    <3>1. n + 1 \in 1 .. n + 1 /\ n + 1 # 1 /\ (n + 1) - 1 = n
      BY <1>1, <1>4
    <3> QED  BY <1>1, <1>2, <3>1 DEF Spread
  <2> QED  BY <1>2, <2>1, <2>2, <2>3 DEF tt
<1> QED  BY <1>3, <1>4

----------------------------------------------------------------------------
\* Telnet's escape of 255 (telnet.c:131), byte by byte.
LEMMA Escaped ==
  ASSUME NEW T, NEW s \in Seq(T)
  PROVE  /\ [i \in DOMAIN s |-> Escape(s[i])] \in Seq(Seq(T))
         /\ Len([i \in DOMAIN s |-> Escape(s[i])]) = Len(s)
<1>1. DOMAIN s = 1 .. Len(s) /\ Len(s) \in Nat
  BY LenProperties
<1>2. \A i \in DOMAIN s : Escape(s[i]) \in Seq(T)
  BY ElementOfSeq, <1>1 DEF Escape
<1>3. [i \in DOMAIN s |-> Escape(s[i])] \in [1 .. Len(s) -> Seq(T)]
  BY <1>1, <1>2
<1> QED  BY <1>1, <1>3, SeqDef

LEMMA EscapeNothing == EscapeAll(<<>>) = <<>>
<1> DEFINE s == <<>>
           T == {}
<1>1. s \in Seq(T) /\ Len(s) = 0
  BY EmptySeq
<1>2. [i \in DOMAIN s |-> Escape(s[i])] = <<>>
  BY <1>1, Escaped, EmptySeq
<1> QED  BY <1>2, EmptySeq DEF EscapeAll, FlattenSeq

LEMMA EscapeAppend ==
  ASSUME NEW T, NEW s \in Seq(T), NEW b \in T
  PROVE  EscapeAll(Append(s, b)) = EscapeAll(s) \o Escape(b)
<1> DEFINE E(q) == [i \in DOMAIN q |-> Escape(q[i])]
<1>1. Escape(b) \in Seq(T)
  BY DEF Escape
<1>2. Append(s, b) \in Seq(T)
  BY AppendProperties
<1>3. /\ E(s) \in Seq(Seq(T)) /\ Len(E(s)) = Len(s)
      /\ E(Append(s, b)) \in Seq(Seq(T))
      /\ Len(E(Append(s, b))) = Len(Append(s, b))
  BY <1>2, Escaped
<1>4. E(Append(s, b)) = Append(E(s), Escape(b))
  <2>1. /\ Append(E(s), Escape(b)) \in Seq(Seq(T))
        /\ Len(Append(E(s), Escape(b))) = Len(s) + 1
        /\ \A i \in 1 .. Len(s) : Append(E(s), Escape(b))[i] = E(s)[i]
        /\ Append(E(s), Escape(b))[Len(s) + 1] = Escape(b)
    <3> HIDE DEF E
    <3> QED  BY <1>1, <1>3, AppendProperties
  <2>2. /\ DOMAIN s = 1 .. Len(s) /\ Len(s) \in Nat
        /\ DOMAIN Append(s, b) = 1 .. Len(s) + 1
        /\ Len(Append(s, b)) = Len(s) + 1
        /\ \A i \in 1 .. Len(s) : Append(s, b)[i] = s[i]
        /\ Append(s, b)[Len(s) + 1] = b
    BY <1>2, LenProperties, AppendProperties
  <2>3. ASSUME NEW i \in 1 .. Len(s) + 1
        PROVE E(Append(s, b))[i] = Append(E(s), Escape(b))[i]
    <3>1. CASE i = Len(s) + 1  BY <3>1, <2>1, <2>2
    <3>2. CASE i # Len(s) + 1
      <4>1. i \in 1 .. Len(s)  BY <3>2, <2>2
      <4> QED  BY <4>1, <2>1, <2>2
    <3> QED  BY <3>1, <3>2
  <2> HIDE DEF E
  <2> QED  BY <1>3, <2>1, <2>2, <2>3, SeqEqual
<1> HIDE DEF E
<1>5. FlattenSeq(Append(E(s), Escape(b))) = FlattenSeq(E(s)) \o Escape(b)
  BY <1>1, <1>3, FlattenAppend
<1> QED  BY <1>4, <1>5 DEF EscapeAll, E

\* Only what is in s comes out, and at most twice as much of it.
LEMMA EscapeBounds ==
  ASSUME NEW T, NEW s \in Seq(T)
  PROVE  EscapeAll(s) \in Seq(T) /\ Len(EscapeAll(s)) <= 2 * Len(s)
<1> DEFINE Good(q) == EscapeAll(q) \in Seq(T) /\ Len(EscapeAll(q)) <= 2 * Len(q)
           G == {n \in Nat : \A q \in Seq(T) : Len(q) = n => Good(q)}
<1>1. 0 \in G
  <2> SUFFICES ASSUME NEW q \in Seq(T), Len(q) = 0 PROVE Good(q)
    OBVIOUS
  <2>1. q = <<>> /\ EscapeAll(q) = <<>>
    BY EmptySeq, EscapeNothing
  <2>2. Len(EscapeAll(q)) = 0
    BY <2>1
  <2>3. EscapeAll(q) \in Seq(T)
    BY <2>1
  <2> QED  BY <2>2, <2>3
<1>2. ASSUME NEW n \in G PROVE n + 1 \in G
  <2> SUFFICES ASSUME NEW q \in Seq(T), Len(q) = n + 1 PROVE Good(q)
    OBVIOUS
  <2>1. PICK r \in Seq(T), b \in T : q = Append(r, b)
    <3>1. q # <<>>  BY EmptySeq
    <3> QED  BY <3>1, SequenceEmptyOrAppend
  <2>2. Len(r) = n /\ Len(r) \in Nat
    BY <2>1, AppendProperties, LenProperties
  <2>3. EscapeAll(r) \in Seq(T) /\ Len(EscapeAll(r)) <= 2 * n
    BY <2>2
  <2>4. EscapeAll(q) = EscapeAll(r) \o Escape(b)
    BY <2>1, EscapeAppend
  <2>5. Escape(b) \in Seq(T) /\ Len(Escape(b)) <= 2 /\ Len(Escape(b)) \in Nat
    BY DEF Escape
  <2>6. Len(EscapeAll(r)) \in Nat
    BY <2>3, LenProperties
  <2> QED  BY <2>3, <2>4, <2>5, <2>6, ConcatProperties
<1> HIDE DEF G
<1>3. G \subseteq Nat  BY DEF G
<1>4. G = Nat  BY <1>1, <1>2, <1>3, Induction
<1> QED  BY <1>4, LenProperties DEF G

----------------------------------------------------------------------------
(***************************************************************************)
(* The invariant.                                                          *)
(***************************************************************************)
\* What a port has written so far is all that can be on its way.
QuietPort ==
    \A p \in Ports : next[p] = 0 => ring[p] = <<>> /\ (owner = p => pend = <<>>)
Ownerless == owner = NoPort => pend = <<>>

\* A sequence of what is owed to the caller of p.
Owed(p, s) == s \in Seq(ToSet(owed[p]))
OnlyOwed ==
    \A p \in Ports : InCall(p) =>
        Owed(p, wire[p]) /\ Owed(p, ring[p]) /\ (owner = p => Owed(p, pend))

TInv == TypeOK /\ QuietPort /\ Ownerless /\ OnlyOwed /\ StreamIntact

LEMMA PortFacts == NoPort \notin Ports /\ RingSize \in Nat /\ RingSize > 0
BY TxAssumption DEF Ports, NoPort

\* What send() takes and what it leaves make up what it was given.
LEMMA Cut ==
  ASSUME NEW T, NEW s \in Seq(T), NEW k \in 0 .. Len(s)
  PROVE  /\ SubSeq(s, 1, k) \in Seq(T)
         /\ SubSeq(s, k + 1, Len(s)) \in Seq(T)
         /\ Len(SubSeq(s, k + 1, Len(s))) = Len(s) - k
         /\ k = Len(s) => SubSeq(s, k + 1, Len(s)) = <<>>
         /\ SubSeq(s, 1, k) \o SubSeq(s, k + 1, Len(s)) = s
<1>1. Len(s) \in Nat /\ \A i \in 1 .. Len(s) : s[i] \in T
  BY LenProperties, ElementOfSeq
<1>2. SubSeq(s, 1, k) \in Seq(T)
  BY <1>1, SubSeqProperties
<1>3. /\ SubSeq(s, k + 1, Len(s)) \in Seq(T)
      /\ Len(SubSeq(s, k + 1, Len(s))) = Len(s) - k
  BY <1>1, SubSeqProperties
<1>4. k = Len(s) => SubSeq(s, k + 1, Len(s)) = <<>>
  BY <1>1, SubSeqEmpty
<1>5. SubSeq(s, 1, k) \o SubSeq(s, k + 1, Len(s)) = s
  <2>1. /\ 1 \in 1 .. Len(s) + 1 /\ k \in 1 - 1 .. Len(s)
        /\ Len(s) \in k .. Len(s)
    BY <1>1
  <2>2. SubSeq(s, 1, k) \o SubSeq(s, k + 1, Len(s)) = SubSeq(s, 1, Len(s))
    BY <2>1, ConcatAdjacentSubSeq
  <2> QED  BY <2>2, SubSeqFull
<1> QED  BY <1>2, <1>3, <1>4, <1>5

----------------------------------------------------------------------------
(***************************************************************************)
(* fossil_flush_tx.                                                        *)
(***************************************************************************)
\* What is on its way to the caller of p after flush outcome f.
Behind(p, f) == (IF f.owner = p THEN f.pend ELSE <<>>) \o EscapeAll(f.ring)

\* A flush of port p keeps the bounds, sends nothing but what is queued, in order,
\* takes the buffer from another port only when p has written, and leaves it empty
\* when it leaves it to nobody.
Sound(p, f, T) ==
    /\ f.ring \in Seq(T) /\ f.wire \in Seq(T)
    /\ f.owner = p => f.pend \in Seq(T)
    /\ Len(f.ring) <= RingSize /\ Len(f.pend) <= 2 * RingSize
    /\ f.owner \in {owner, p, NoPort}
    /\ f.owner = NoPort => f.pend = <<>>
    /\ f.owner \notin {p, NoPort} => f.pend = pend
    /\ next[p] = 0 => f.ring = <<>> /\ f.pend = pend /\ f.owner = owner
    /\ f.wire \o Behind(p, f) = wire[p] \o Queue(p)

\* The output of port p is made of members of T.
From(p, T) ==
    ring[p] \in Seq(T) /\ wire[p] \in Seq(T) /\ (owner = p => pend \in Seq(T))

LEMMA UnchangedSound ==
  ASSUME TInv, NEW p \in Ports, NEW T, From(p, T)
  PROVE  Sound(p, Unchanged(p), T)
<1>1. /\ ring[p] \in Seq(Bytes) /\ Len(ring[p]) <= RingSize
      /\ Len(pend) <= 2 * RingSize
      /\ owner = NoPort => pend = <<>>
      /\ next[p] = 0 => ring[p] = <<>>
  BY DEF TInv, TypeOK, Ownerless, QuietPort
<1> QED  BY <1>1 DEF Sound, From, Unchanged, Behind, Queue

\* mTCP has taken some of a batch; the rest is in the buffer.
Divides(p, f, T, n, all) ==
    /\ f.ring = <<>> /\ f.wire \in Seq(T) /\ f.pend \in Seq(T)
    /\ Len(f.pend) <= n
    /\ f.owner \in {p, NoPort}
    /\ f.owner = NoPort => f.pend = <<>>
    /\ f.wire \o Behind(p, f) = all

LEMMA SentSound ==
  ASSUME NEW p \in Ports, NEW T, NEW out \in Seq(T), NEW w \in Seq(T),
         NEW k \in 0 .. Len(out)
  PROVE  Divides(p, Sent(p, out, k, w), T, Len(out), w \o out)
<1> DEFINE f == Sent(p, out, k, w)
           a == SubSeq(out, 1, k)
           b == SubSeq(out, k + 1, Len(out))
<1>1. f.ring = <<>> /\ f.pend = b /\ f.wire = w \o a
      /\ f.owner = IF k = Len(out) THEN NoPort ELSE p
  BY DEF Sent
<1>0. a \in Seq(T) /\ b \in Seq(T)
  BY Cut
<1>2. Len(b) = Len(out) - k /\ (k = Len(out) => b = <<>>) /\ a \o b = out
  <2>1. Len(b) = Len(out) - k /\ (k = Len(out) => b = <<>>)
    BY Cut
  <2>2. a \o b = out
    BY Cut
  <2> QED  BY <2>1, <2>2
<1>3. Len(out) \in Nat
  BY LenProperties
<1> HIDE DEF f, a, b
<1>4. f.wire \in Seq(T)
  BY <1>0, <1>1, ConcatProperties
<1>5. Behind(p, f) = b
  <2>1. EscapeAll(f.ring) = <<>>
    BY <1>1, EscapeNothing
  <2>2. (IF f.owner = p THEN f.pend ELSE <<>>) = b
    BY <1>1, <1>2
  <2> QED  BY <2>1, <2>2, <1>0, ConcatEmptySeq DEF Behind
<1>6. f.wire \o Behind(p, f) = w \o out
  <2>1. (w \o a) \o b = w \o (a \o b)
    BY <1>0, ConcatAssociative
  <2> QED  BY <1>1, <1>2, <1>5, <2>1
<1>7. Len(f.pend) <= Len(out)
  BY <1>1, <1>2, <1>3
<1>8. f.owner \in {p, NoPort} /\ (f.owner = NoPort => f.pend = <<>>)
  BY <1>1, <1>2, PortFacts
<1> QED  BY <1>0, <1>1, <1>4, <1>6, <1>7, <1>8 DEF f, Divides

\* Outcome f empties the ring of p; all is what is then sent or left.
EmptiesRing(p, f, T, all) ==
    /\ f.ring = <<>> /\ f.wire \in Seq(T)
    /\ f.owner = p => f.pend \in Seq(T)
    /\ Len(f.pend) <= 2 * RingSize
    /\ f.owner \in {owner, p, NoPort}
    /\ f.owner = NoPort => f.pend = <<>>
    /\ f.owner \notin {p, NoPort} => f.pend = pend
    /\ next[p] = 0 => f.pend = pend /\ f.owner = owner
    /\ f.wire \o Behind(p, f) = all

\* The batch after w has been sent; pn and on are the buffer and its owner by then.
LEMMA BatchSound ==
  ASSUME TInv, NEW p \in Ports, NEW T, ring[p] \in Seq(T), NEW w \in Seq(T),
         NEW pn, NEW on, NEW f \in Batches(p, pn, on, w),
         \/ HasPending(p) /\ pn = <<>> /\ on = NoPort
         \/ ~HasPending(p) /\ pn = pend /\ on = owner
  PROVE  EmptiesRing(p, f, T, w \o EscapeAll(ring[p]))
<1>1. /\ Len(ring[p]) <= RingSize /\ Len(pend) <= 2 * RingSize
      /\ owner = NoPort => pend = <<>>
      /\ next[p] = 0 => ring[p] = <<>> /\ (owner = p => pend = <<>>)
  BY DEF TInv, TypeOK, Ownerless, QuietPort
<1>2. /\ on = p => pn = <<>>
      /\ on = NoPort => pn = <<>>
      /\ on \in {owner, NoPort} /\ Len(pn) <= 2 * RingSize
      /\ on # NoPort => pn = pend
      /\ next[p] = 0 => pn = pend /\ on = owner
  BY <1>1, PortFacts, EmptySeq DEF HasPending
<1> USE DEF EmptiesRing
<1>3. CASE ring[p] = <<>>
  <2>1. f = [ring |-> <<>>, pend |-> pn, owner |-> on, wire |-> w]
    BY <1>3 DEF Batches
  <2>2. Behind(p, f) = <<>>
    <3>1. (IF on = p THEN pn ELSE <<>>) = <<>>
      BY <1>2
    <3>2. <<>> \o <<>> = <<>>
      BY EmptySeq, ConcatEmptySeq
    <3> QED  BY <2>1, <3>1, <3>2, EscapeNothing DEF Behind
  <2>3. <<>> \in Seq(T)
    BY EmptySeq
  <2>4. f.wire \o Behind(p, f) = w \o EscapeAll(ring[p])
    BY <1>3, <2>1, <2>2, EscapeNothing
  <2> QED  BY <1>2, <2>1, <2>3, <2>4
<1>4. CASE ring[p] # <<>>
  <2> DEFINE out == EscapeAll(ring[p])
  <2>1. PICK k \in 0 .. Len(out) : f = Sent(p, out, k, w)
    BY <1>4 DEF Batches
  <2>2. out \in Seq(T) /\ Len(out) <= 2 * Len(ring[p])
    BY EscapeBounds
  <2> HIDE DEF out
  <2>3. Divides(p, f, T, Len(out), w \o out)
    BY <2>1, <2>2, SentSound
  <2> USE DEF Divides
  <2>4. Len(f.pend) <= 2 * RingSize
    <3>1. Len(out) \in Nat /\ Len(ring[p]) \in Nat /\ Len(f.pend) \in Nat
      BY <2>2, <2>3, LenProperties
    <3> QED  BY <1>1, <2>2, <2>3, <3>1, PortFacts
  <2> QED  BY <1>1, <1>4, <2>3, <2>4 DEF out
<1> QED  BY <1>3, <1>4

LEMMA FlushSound ==
  ASSUME TInv, NEW p \in Ports, NEW T, From(p, T), NEW f \in Flushes(p)
  PROVE  Sound(p, f, T)
<1>1. /\ ring[p] \in Seq(Bytes) /\ Len(ring[p]) <= RingSize
      /\ pend \in Seq(Bytes) /\ Len(pend) <= 2 * RingSize
      /\ owner = NoPort => pend = <<>>
      /\ next[p] = 0 => ring[p] = <<>> /\ (owner = p => pend = <<>>)
      /\ ring[p] \in Seq(T) /\ wire[p] \in Seq(T) /\ (owner = p => pend \in Seq(T))
      /\ Len(<<>>) = 0
  BY EmptySeq DEF TInv, TypeOK, Ownerless, QuietPort, From
<1>2. CASE Muted(p)
  BY <1>2, UnchangedSound DEF Flushes
<1>3. CASE ~Muted(p) /\ HasPending(p) /\ f \in Leftovers(p)
  <2>0. owner = p /\ pend # <<>> /\ p # NoPort
    BY <1>3, PortFacts DEF HasPending
  <2>1. PICK k \in 0 .. Len(pend) - 1 :
          f = [ring |-> ring[p], pend |-> SubSeq(pend, k + 1, Len(pend)), owner |-> p,
               wire |-> wire[p] \o SubSeq(pend, 1, k)]
    BY <1>3 DEF Leftovers
  <2> DEFINE a == SubSeq(pend, 1, k)
             b == SubSeq(pend, k + 1, Len(pend))
  <2>2. Len(pend) \in Nat /\ k \in 0 .. Len(pend)
    BY <1>1, LenProperties
  <2>3. a \in Seq(T) /\ b \in Seq(T)
    BY <1>1, <2>0, <2>2, Cut
  <2>4. Len(b) = Len(pend) - k
    BY <1>1, <2>0, <2>2, Cut
  <2>5. a \o b = pend
    BY <1>1, <2>0, <2>2, Cut
  <2>6. f = [ring |-> ring[p], pend |-> b, owner |-> p, wire |-> wire[p] \o a]
    BY <2>1
  <2> HIDE DEF a, b
  <2>7. wire[p] \o a \in Seq(T)
    BY <1>1, <2>3, ConcatProperties
  <2>8. f.wire \o Behind(p, f) = wire[p] \o Queue(p)
    <3>1. EscapeAll(ring[p]) \in Seq(T)
      BY <1>1, EscapeBounds
    <3> DEFINE e == EscapeAll(ring[p])
    <3>2. Behind(p, f) = b \o e /\ f.wire = wire[p] \o a /\ Queue(p) = pend \o e
      BY <2>0, <2>6 DEF Behind, Queue
    <3> HIDE DEF e
    <3>3. e \in Seq(T)
      BY <3>1 DEF e
    <3>4. b \o e \in Seq(T)
      BY <2>3, <3>3, ConcatProperties
    <3>0. wire[p] \in Seq(T)
      BY <1>1
    <3>5. (wire[p] \o a) \o (b \o e) = wire[p] \o (a \o (b \o e))
      <4> DEFINE w == wire[p]
                 be == b \o e
      <4>1. w \in Seq(T) /\ be \in Seq(T)
        BY <3>0, <3>4
      <4> HIDE DEF w, be
      <4>2. (w \o a) \o be = w \o (a \o be)
        BY <2>3, <4>1, ConcatAssociative
      <4> QED  BY <4>2 DEF w, be
    <3>6. a \o (b \o e) = (a \o b) \o e
      BY <2>3, <3>3, ConcatAssociative
    <3> QED  BY <2>5, <3>2, <3>5, <3>6
  <2>9. Len(b) <= 2 * RingSize
    BY <1>1, <2>2, <2>4, PortFacts
  <2> QED  BY <1>1, <2>0, <2>3, <2>6, <2>7, <2>8, <2>9 DEF Sound
<1>4. CASE ~Muted(p) /\ HasPending(p) /\ f \in Batches(p, <<>>, NoPort, wire[p] \o pend)
  <2>0. owner = p /\ pend # <<>> /\ pend \in Seq(T)
    BY <1>1, <1>4 DEF HasPending
  <2>1. wire[p] \o pend \in Seq(T)
    BY <1>1, <2>0, ConcatProperties
  <2>2. EmptiesRing(p, f, T, (wire[p] \o pend) \o EscapeAll(ring[p]))
    BY <1>1, <1>4, <2>1, BatchSound
  <2>3. (wire[p] \o pend) \o EscapeAll(ring[p]) = wire[p] \o Queue(p)
    <3>1. EscapeAll(ring[p]) \in Seq(T)
      BY <1>1, EscapeBounds
    <3>2. Queue(p) = pend \o EscapeAll(ring[p])
      BY <2>0 DEF Queue
    <3>3. wire[p] \in Seq(T) /\ pend \in Seq(T)
      BY <1>1, <2>0
    <3>4. (wire[p] \o pend) \o EscapeAll(ring[p])
             = wire[p] \o (pend \o EscapeAll(ring[p]))
      <4> DEFINE w == wire[p]
                 e == EscapeAll(ring[p])
      <4>1. w \in Seq(T) /\ e \in Seq(T)
        BY <3>1, <3>3
      <4> HIDE DEF w, e
      <4>2. (w \o pend) \o e = w \o (pend \o e)
        BY <3>3, <4>1, ConcatAssociative
      <4> QED  BY <4>2 DEF w, e
    <3> QED  BY <3>2, <3>4
  <2>4. f.ring \in Seq(T) /\ Len(f.ring) <= RingSize
    BY <1>1, <2>2, PortFacts, EmptySeq DEF EmptiesRing
  <2> QED  BY <2>2, <2>3, <2>4 DEF Sound, EmptiesRing
<1>5. CASE ~Muted(p) /\ ~HasPending(p)
  <2>1. f \in Batches(p, pend, owner, wire[p])
    BY <1>5 DEF Flushes
  <2>2. EmptiesRing(p, f, T, wire[p] \o EscapeAll(ring[p]))
    BY <1>1, <1>5, <2>1, BatchSound
  <2>3. Queue(p) = EscapeAll(ring[p])
    <3>1. (IF owner = p THEN pend ELSE <<>>) = <<>>
      BY <1>5 DEF HasPending
    <3>2. EscapeAll(ring[p]) \in Seq(T)
      BY <1>1, EscapeBounds
    <3> QED  BY <3>1, <3>2, ConcatEmptySeq DEF Queue
  <2>4. f.ring \in Seq(T) /\ Len(f.ring) <= RingSize
    BY <1>1, <2>2, PortFacts, EmptySeq DEF EmptiesRing
  <2> QED  BY <2>2, <2>3, <2>4 DEF Sound, EmptiesRing
<1> QED  BY <1>2, <1>3, <1>4, <1>5 DEF Flushes

----------------------------------------------------------------------------
(***************************************************************************)
(* One step of output: flush outcome f, and more put into the ring.        *)
(***************************************************************************)
Outcome(p, f) ==
    Sound(p, f, Bytes) /\ (InCall(p) => Sound(p, f, ToSet(owed[p])))

LEMMA Outcomes ==
  ASSUME TInv, NEW p \in Ports
  PROVE  Outcome(p, Unchanged(p)) /\ \A f \in Flushes(p) : Outcome(p, f)
<1>1. From(p, Bytes)
  BY DEF TInv, TypeOK, From
<1>2. InCall(p) => From(p, ToSet(owed[p]))
  BY DEF TInv, OnlyOwed, Owed, From
<1> QED  BY <1>1, <1>2, UnchangedSound, FlushSound DEF Outcome

LEMMA ToSetConcat ==
  ASSUME NEW S, NEW s \in Seq(S), NEW t \in Seq(S)
  PROVE  ToSet(s) \subseteq ToSet(s \o t) /\ ToSet(t) \subseteq ToSet(s \o t)
<1>1. /\ Len(s) \in Nat /\ Len(t) \in Nat /\ s \o t \in Seq(S)
      /\ DOMAIN s = 1 .. Len(s) /\ DOMAIN t = 1 .. Len(t)
      /\ DOMAIN (s \o t) = 1 .. Len(s) + Len(t)
  BY LenProperties, ConcatProperties
<1>2. \A i \in 1 .. Len(s) : i \in 1 .. Len(s) + Len(t) /\ (s \o t)[i] = s[i]
  BY <1>1, ConcatProperties
<1>3. \A i \in 1 .. Len(t) :
        i + Len(s) \in 1 .. Len(s) + Len(t) /\ (s \o t)[i + Len(s)] = t[i]
  BY <1>1, ConcatProperties
<1> QED  BY <1>1, <1>2, <1>3 DEF ToSet

LEMMA InToSet ==
  ASSUME NEW S, NEW s \in Seq(S) PROVE s \in Seq(ToSet(s))
<1>1. s \in [1 .. Len(s) -> S] /\ DOMAIN s = 1 .. Len(s) /\ Len(s) \in Nat
  BY LenProperties
<1>2. s \in [1 .. Len(s) -> ToSet(s)]
  BY <1>1 DEF ToSet
<1> QED  BY <1>1, <1>2, SeqDef

\* The same when more is put into the ring.
BehindWith(p, f, more) ==
    (IF f.owner = p THEN f.pend ELSE <<>>) \o EscapeAll(f.ring \o more)

\* A byte put into the ring goes to the end of what is on its way.
LEMMA PutBehind ==
  ASSUME NEW p, NEW f, NEW b \in Bytes, Sound(p, f, Bytes)
  PROVE  f.wire \o BehindWith(p, f, <<b>>)
           = (f.wire \o Behind(p, f)) \o Escape(b)
<1> DEFINE w == f.wire
           d == IF f.owner = p THEN f.pend ELSE <<>>
           e == EscapeAll(f.ring)
           x == Escape(b)
<1>1. w \in Seq(Bytes) /\ f.ring \in Seq(Bytes)
  BY DEF Sound
<1>2. d \in Seq(Bytes)
  BY EmptySeq DEF Sound
<1>3. e \in Seq(Bytes) /\ x \in Seq(Bytes)
  BY <1>1, EscapeBounds DEF Escape
<1>4. EscapeAll(f.ring \o <<b>>) = e \o x
  BY <1>1, EscapeAppend, AppendIsConcat
<1>5. Behind(p, f) = d \o e
  BY DEF Behind
<1> HIDE DEF w, d, e, x
<1>6. d \o e \in Seq(Bytes)
  BY <1>2, <1>3, ConcatProperties
<1>7. d \o (e \o x) = (d \o e) \o x
  BY <1>2, <1>3, ConcatAssociative
<1>8. w \o ((d \o e) \o x) = (w \o (d \o e)) \o x
  <2> DEFINE de == d \o e
  <2>1. de \in Seq(Bytes)
    BY <1>6
  <2> HIDE DEF de
  <2>2. w \o (de \o x) = (w \o de) \o x
    BY <1>1, <1>3, <2>1, ConcatAssociative
  <2> QED  BY <2>2 DEF de
<1>9. w \o (d \o (e \o x)) = (w \o Behind(p, f)) \o x
  BY <1>5, <1>7, <1>8
<1> QED  BY <1>4, <1>9 DEF w, d, x, BehindWith

\* What the step adds to the output of p: nothing, or the next byte.
Adds(p, f, more) ==
    \/ more = <<>> /\ owed' = owed
    \/ \E iac \in BOOLEAN :
          /\ more = <<Byte(p, iac)>> /\ Owe(p, Byte(p, iac))
          /\ HasRoom(f.ring) /\ next'[p] > 0

\* The application's count of bytes goes up, and for p only.
Counts(p) ==
    /\ next' \in [Ports -> Nat] /\ next'[p] >= next[p]
    /\ \A q \in Ports \ {p} : next'[q] = next[q]

LEMMA OutputStep ==
  ASSUME TInv, NEW p \in Ports, NEW f, NEW more,
         Outcome(p, f), After(p, f, more), Adds(p, f, more), Counts(p),
         line' = line, dead' = dead,
         block' \in [port : Ports \cup {NoPort}, left : Nat, put : Nat]
  PROVE  TInv'
<1> USE PortFacts
<1>1. /\ ring' = [ring EXCEPT ![p] = f.ring \o more] /\ pend' = f.pend
      /\ owner' = f.owner /\ wire' = [wire EXCEPT ![p] = f.wire]
  BY DEF After
<1>2. /\ ring \in [Ports -> Seq(Bytes)] /\ wire \in [Ports -> Seq(Bytes)]
      /\ owed \in [Ports -> Seq(Bytes)] /\ next \in [Ports -> Nat]
      /\ pend \in Seq(Bytes) /\ owner \in Ports \cup {NoPort}
      /\ \A q \in Ports : Len(ring[q]) <= RingSize
  BY DEF TInv, TypeOK
<1>3. /\ f.ring \in Seq(Bytes) /\ f.wire \in Seq(Bytes)
      /\ f.owner = p => f.pend \in Seq(Bytes)
      /\ Len(f.ring) <= RingSize /\ Len(f.pend) <= 2 * RingSize
      /\ f.owner \in {owner, p, NoPort}
      /\ f.owner = NoPort => f.pend = <<>>
      /\ f.owner \notin {p, NoPort} => f.pend = pend
      /\ next[p] = 0 => f.ring = <<>> /\ f.pend = pend /\ f.owner = owner
      /\ f.wire \o Behind(p, f) = wire[p] \o Queue(p)
  BY DEF Outcome, Sound
<1>4. next'[p] \in Nat /\ next[p] \in Nat /\ next'[p] >= next[p]
  BY <1>2 DEF Counts
<1>5. ASSUME NEW iac \in BOOLEAN PROVE Byte(p, iac) \in Bytes
  BY <1>2 DEF Byte, Bytes
<1>6. TypeOK'
  <2>1. pend' \in Seq(Bytes)
    BY <1>1, <1>2, <1>3, EmptySeq
  <2>2. f.ring \o more \in Seq(Bytes) /\ Len(f.ring \o more) <= RingSize
    <3>1. CASE more = <<>>
      BY <1>3, <3>1, ConcatEmptySeq
    <3>2. ASSUME NEW iac \in BOOLEAN, more = <<Byte(p, iac)>>, HasRoom(f.ring)
          PROVE  f.ring \o more \in Seq(Bytes) /\ Len(f.ring \o more) <= RingSize
      <4>1. f.ring \o more = Append(f.ring, Byte(p, iac))
        BY <1>3, <1>5, <3>2, AppendIsConcat
      <4>2. /\ Append(f.ring, Byte(p, iac)) \in Seq(Bytes)
            /\ Len(Append(f.ring, Byte(p, iac))) = Len(f.ring) + 1
        BY <1>3, <1>5, AppendProperties
      <4>3. Len(f.ring) \in Nat
        BY <1>3, LenProperties
      <4> QED  BY <3>2, <4>1, <4>2, <4>3 DEF HasRoom
    <3> QED  BY <3>1, <3>2 DEF Adds
  <2>3. ring' \in [Ports -> Seq(Bytes)] /\ \A q \in Ports : Len(ring'[q]) <= RingSize
    BY <1>1, <1>2, <2>2
  <2>4. wire' \in [Ports -> Seq(Bytes)]
    BY <1>1, <1>2, <1>3
  <2>5. owed' \in [Ports -> Seq(Bytes)]
    <3>1. CASE owed' = owed  BY <3>1, <1>2
    <3>2. ASSUME NEW iac \in BOOLEAN, Owe(p, Byte(p, iac))
          PROVE  owed' \in [Ports -> Seq(Bytes)]
      <4>1. Escape(Byte(p, iac)) \in Seq(Bytes)
        BY <1>5 DEF Escape
      <4>2. owed[p] \o Escape(Byte(p, iac)) \in Seq(Bytes)
        BY <1>2, <4>1, ConcatProperties
      <4> QED  BY <1>2, <3>2, <4>2 DEF Owe
    <3> QED  BY <3>1, <3>2 DEF Adds
  <2>6. next' \in [Ports -> Nat]
    BY DEF Counts
  <2> QED
    BY <1>1, <1>3, <2>1, <2>3, <2>4, <2>5, <2>6 DEF TInv, TypeOK
<1>7. QuietPort' /\ Ownerless'
  <2>1. Ownerless'
    BY <1>1, <1>3 DEF Ownerless
  <2>2. ASSUME NEW q \in Ports, next'[q] = 0
        PROVE  ring'[q] = <<>> /\ (owner' = q => pend' = <<>>)
    <3>1. next[q] = 0 => ring[q] = <<>> /\ (owner = q => pend = <<>>)
      BY DEF TInv, QuietPort
    <3>2. CASE q = p
      <4>1. next[p] = 0 /\ more = <<>>
        BY <1>4, <2>2, <3>2 DEF Adds
      <4>2. f.ring \o more = <<>>
        BY <1>3, <4>1, EmptySeq, ConcatEmptySeq
      <4> QED  BY <1>1, <1>2, <1>3, <3>1, <3>2, <4>1, <4>2
    <3>3. CASE q # p
      <4>1. next[q] = 0 /\ ring'[q] = ring[q]
        BY <1>1, <1>2, <2>2, <3>3 DEF Counts
      <4> QED  BY <1>1, <1>3, <3>1, <3>3, <4>1
    <3> QED  BY <3>2, <3>3
  <2> QED  BY <2>1, <2>2 DEF QuietPort
<1>8. OnlyOwed'
  <2> SUFFICES ASSUME NEW q \in Ports, InCall(q)'
               PROVE  /\ Owed(q, wire[q])' /\ Owed(q, ring[q])'
                      /\ (owner = q => Owed(q, pend))'
    BY DEF OnlyOwed
  <2>1. InCall(q)
    BY DEF InCall
  <2>2. CASE q # p
    <3>1. wire'[q] = wire[q] /\ ring'[q] = ring[q] /\ owed'[q] = owed[q]
      BY <1>1, <1>2, <2>2 DEF Adds, Owe
    <3>2. owner' = q => owner = q /\ pend' = pend
      BY <1>1, <1>3, <2>2
    <3>3. Owed(q, wire[q]) /\ Owed(q, ring[q]) /\ (owner = q => Owed(q, pend))
      BY <2>1 DEF TInv, OnlyOwed
    <3> QED  BY <3>1, <3>2, <3>3 DEF Owed
  <2>3. CASE q = p
    <3> DEFINE S == ToSet(owed[p])
               R == ToSet(owed'[p])
    <3>1. /\ f.ring \in Seq(S) /\ f.wire \in Seq(S)
          /\ f.owner = p => f.pend \in Seq(S)
      BY <2>1, <2>3 DEF Outcome, Sound
    <3>2. CASE more = <<>> /\ owed' = owed
      <4>1. f.ring \o more = f.ring
        BY <3>1, <3>2, ConcatEmptySeq
      <4> QED  BY <1>1, <1>2, <2>3, <3>1, <3>2, <4>1 DEF Owed
    <3>3. ASSUME NEW iac \in BOOLEAN, more = <<Byte(p, iac)>>, Owe(p, Byte(p, iac))
          PROVE  /\ f.wire \in Seq(R) /\ f.ring \o more \in Seq(R)
                 /\ f.owner = p => f.pend \in Seq(R)
      <4> DEFINE b == Byte(p, iac)
      <4>1. Escape(b) \in Seq(Bytes)
        BY <1>5 DEF Escape
      <4>2. owed'[p] = owed[p] \o Escape(b)
        BY <1>2, <3>3 DEF Owe
      <4>3. owed[p] \in Seq(Bytes)
        BY <1>2
      <4>4. S \subseteq R /\ ToSet(Escape(b)) \subseteq R
        BY <4>1, <4>2, <4>3, ToSetConcat
      <4>5. b \in ToSet(Escape(b))
        BY DEF ToSet, Escape
      <4>6. b \in R
        BY <4>4, <4>5
      <4> HIDE DEF R, S, b
      <4>7. f.wire \in Seq(R) /\ f.ring \in Seq(R) /\ (f.owner = p => f.pend \in Seq(R))
        BY <3>1, <4>4, SeqMonotonic
      <4>8. more \in Seq(R)
        BY <3>3, <4>6 DEF b
      <4> QED  BY <4>7, <4>8, ConcatProperties
    <3>4. /\ f.wire \in Seq(R) /\ f.ring \o more \in Seq(R)
          /\ f.owner = p => f.pend \in Seq(R)
      <4>1. CASE more = <<>> /\ owed' = owed
        BY <3>1, <4>1, ConcatEmptySeq
      <4> QED  BY <4>1, <3>3 DEF Adds
    <3> QED  BY <1>1, <1>2, <2>3, <3>4 DEF Owed
  <2> QED  BY <2>2, <2>3
<1>9. StreamIntact'
  <2> SUFFICES ASSUME NEW q \in Ports, InCall(q)', Alone(q)' PROVE Complete(q)'
    BY DEF StreamIntact
  <2>1. InCall(q)
    BY DEF InCall
  <2>2. Alone(q)
    <3>1. ASSUME NEW r \in Ports, next[r] > 0 PROVE next'[r] > 0
      <4>1. next'[r] \in Nat /\ next[r] \in Nat
        BY <1>2 DEF Counts
      <4>2. r # p => next'[r] = next[r]
        BY DEF Counts
      <4> QED  BY <1>4, <3>1, <4>1, <4>2
    <3> QED  BY <3>1 DEF Alone
  <2>3. wire[q] \o Queue(q) = owed[q]
    BY <2>1, <2>2 DEF TInv, StreamIntact, Complete
  <2>4. CASE q # p
    <3>1. next'[p] = 0
      BY <1>4, <2>4 DEF Alone
    <3>2. next[p] = 0 /\ more = <<>> /\ owed' = owed
      BY <1>4, <3>1 DEF Adds
    <3>3. /\ wire'[q] = wire[q] /\ ring'[q] = ring[q] /\ owed'[q] = owed[q]
          /\ owner' = owner /\ pend' = pend
      BY <1>1, <1>2, <1>3, <2>4, <3>2
    <3> QED  BY <2>3, <3>3 DEF Complete, Queue
  <2>5. CASE q = p
    <3>1. Complete(p)' <=>
            f.wire \o BehindWith(p, f, more)
              = owed'[p]
      BY <1>1, <1>2 DEF Complete, Queue, BehindWith
    <3>2. CASE more = <<>> /\ owed' = owed
      <4>1. f.ring \o more = f.ring
        BY <1>3, <3>2, ConcatEmptySeq
      <4> QED  BY <1>3, <2>3, <2>5, <3>1, <3>2, <4>1 DEF Behind, BehindWith
    <3>3. ASSUME NEW iac \in BOOLEAN, more = <<Byte(p, iac)>>, Owe(p, Byte(p, iac))
          PROVE  Complete(p)'
      <4>1. owed'[p] = owed[p] \o Escape(Byte(p, iac))
        BY <1>2, <3>3 DEF Owe
      <4>2. f.wire \o BehindWith(p, f, more)
              = (f.wire \o Behind(p, f)) \o Escape(Byte(p, iac))
        <5> DEFINE b == Byte(p, iac)
        <5>1. b \in Bytes /\ Sound(p, f, Bytes) /\ more = <<b>>
          BY <1>5, <3>3 DEF Outcome
        <5> HIDE DEF b
        <5>2. f.wire \o BehindWith(p, f, <<b>>)
                = (f.wire \o Behind(p, f)) \o Escape(b)
          BY <5>1, PutBehind
        <5> QED  BY <5>1, <5>2 DEF b
      <4> QED  BY <1>3, <2>3, <2>5, <3>1, <4>1, <4>2
    <3> QED  BY <2>5, <3>2, <3>3 DEF Adds
  <2> QED  BY <2>4, <2>5
<1> QED  BY <1>6, <1>7, <1>8, <1>9 DEF TInv

----------------------------------------------------------------------------
(***************************************************************************)
(* The other steps: the output of a port is thrown away, or left alone     *)
(* while its call changes.                                                 *)
(***************************************************************************)
\* Nothing is on its way any more, and nothing more is owed than was sent.
LEMMA ClearStep ==
  ASSUME TInv, NEW p \in Ports, NEW w \in Seq(Bytes), ClearTx(p),
         wire' = [wire EXCEPT ![p] = w], owed' = [owed EXCEPT ![p] = w],
         line' \in [Ports -> {"idle", "ringing", "connecting", "open"}],
         dead' \in [Ports -> BOOLEAN], \A q \in Ports \ {p} : line'[q] = line[q],
         next' = next, block' = block
  PROVE  TInv'
<1> USE PortFacts
<1>1. /\ ring \in [Ports -> Seq(Bytes)] /\ wire \in [Ports -> Seq(Bytes)]
      /\ owed \in [Ports -> Seq(Bytes)] /\ pend \in Seq(Bytes)
      /\ Len(pend) <= 2 * RingSize /\ owner \in Ports \cup {NoPort}
      /\ \A q \in Ports : Len(ring[q]) <= RingSize
      /\ owner = NoPort => pend = <<>>
  BY DEF TInv, TypeOK, Ownerless
<1>2. /\ ring'[p] = <<>> /\ owner' # p
      /\ owner = p => pend' = <<>> /\ owner' = NoPort
      /\ owner # p => pend' = pend /\ owner' = owner
      /\ wire'[p] = w /\ owed'[p] = w
  BY <1>1 DEF ClearTx
<1>3. \A q \in Ports \ {p} :
        ring'[q] = ring[q] /\ wire'[q] = wire[q] /\ owed'[q] = owed[q]
  BY <1>1 DEF ClearTx
<1>4. TypeOK'
  <2>1. <<>> \in Seq(Bytes) /\ Len(<<>>) = 0
    BY EmptySeq
  <2>2. ring' \in [Ports -> Seq(Bytes)] /\ \A q \in Ports : Len(ring'[q]) <= RingSize
    BY <1>1, <2>1 DEF ClearTx
  <2>3. wire' \in [Ports -> Seq(Bytes)] /\ owed' \in [Ports -> Seq(Bytes)]
    BY <1>1
  <2>4. pend' \in Seq(Bytes) /\ Len(pend') <= 2 * RingSize /\ owner' \in Ports \cup {NoPort}
    <3>1. CASE owner = p
      <4>1. pend' = <<>> /\ owner' = NoPort
        BY <1>2, <3>1
      <4> QED  BY <2>1, <4>1
    <3>2. CASE owner # p
      BY <1>1, <1>2, <3>2
    <3> QED  BY <3>1, <3>2
  <2> QED  BY <2>2, <2>3, <2>4 DEF TInv, TypeOK
<1>5. QuietPort' /\ Ownerless'
  BY <1>1, <1>2, <1>3 DEF TInv, QuietPort, Ownerless
<1>6. OnlyOwed'
  <2> SUFFICES ASSUME NEW q \in Ports, InCall(q)'
               PROVE  /\ Owed(q, wire[q])' /\ Owed(q, ring[q])'
                      /\ (owner = q => Owed(q, pend))'
    BY DEF OnlyOwed
  <2>1. CASE q = p
    BY <1>2, <2>1, InToSet, EmptySeq DEF Owed
  <2>2. CASE q # p
    <3>1. InCall(q)
      BY <2>2 DEF InCall
    <3>2. Owed(q, wire[q]) /\ Owed(q, ring[q]) /\ (owner = q => Owed(q, pend))
      BY <3>1 DEF TInv, OnlyOwed
    <3> QED  BY <1>2, <1>3, <2>2, <3>2 DEF Owed
  <2> QED  BY <2>1, <2>2
<1>7. StreamIntact'
  <2> SUFFICES ASSUME NEW q \in Ports, InCall(q)', Alone(q)' PROVE Complete(q)'
    BY DEF StreamIntact
  <2>1. CASE q = p
    <3>1. Queue(p)' = <<>>
      <4>1. <<>> \o <<>> = <<>>
        BY EmptySeq, ConcatEmptySeq
      <4> QED  BY <1>2, <4>1, EscapeNothing DEF Queue
    <3>2. w \o <<>> = w
      BY ConcatEmptySeq
    <3> QED  BY <1>2, <2>1, <3>1, <3>2 DEF Complete
  <2>2. CASE q # p
    <3>1. InCall(q) /\ Alone(q)
      BY <2>2 DEF InCall, Alone
    <3>2. Complete(q)
      BY <3>1 DEF TInv, StreamIntact
    <3>3. Queue(q)' = Queue(q)
      BY <1>2, <1>3, <2>2 DEF Queue
    <3> QED  BY <1>3, <2>2, <3>2, <3>3 DEF Complete
  <2> QED  BY <2>1, <2>2
<1> QED  BY <1>4, <1>5, <1>6, <1>7 DEF TInv

\* No call begins and no output moves.
LEMMA CallStep ==
  ASSUME TInv,
         line' \in [Ports -> {"idle", "ringing", "connecting", "open"}],
         \A q \in Ports : line'[q] # "idle" => line[q] # "idle",
         dead' \in [Ports -> BOOLEAN],
         block' \in [port : Ports \cup {NoPort}, left : Nat, put : Nat],
         UNCHANGED <<ring, pend, owner, next, wire, owed>>
  PROVE  TInv'
<1>1. TypeOK' /\ QuietPort' /\ Ownerless'
  BY DEF TInv, TypeOK, QuietPort, Ownerless
<1>2. \A q \in Ports : InCall(q)' => InCall(q)
  BY DEF InCall
<1>3. OnlyOwed'
  BY <1>2 DEF TInv, OnlyOwed, Owed
<1>4. StreamIntact'
  BY <1>2 DEF TInv, StreamIntact, Alone, Complete, Queue
<1> QED  BY <1>1, <1>3, <1>4 DEF TInv

LEMMA InitTInv == Init => TInv
<1> SUFFICES ASSUME Init PROVE TInv  OBVIOUS
<1> USE DEF Init
<1>1. <<>> \in Seq(Bytes) /\ Len(<<>>) = 0
  BY EmptySeq
<1>2. TypeOK
  <2>1. 0 \in Ports /\ RingSize \in Nat
    BY TxAssumption DEF Ports
  <2> QED  BY <1>1, <2>1 DEF TypeOK, NoBlock
<1> QED  BY <1>2 DEF TInv, QuietPort, Ownerless, OnlyOwed, StreamIntact, InCall

----------------------------------------------------------------------------
(***************************************************************************)
(* The actions.                                                            *)
(***************************************************************************)
Phases == {"idle", "ringing", "connecting", "open"}

LEMMA CallActions ==
  ASSUME TInv, NEW p \in Ports,
         \/ TakeCall(p) \/ Answer(p) \/ DeliverConnect(p) \/ ConnectionLost(p)
         \/ EndCall(p) \/ FossilInit(p) \/ PurgeOutput(p) \/ StartBlock(p)
  PROVE  TInv'
<1>1. /\ line \in [Ports -> Phases] /\ dead \in [Ports -> BOOLEAN]
      /\ block \in [port : Ports \cup {NoPort}, left : Nat, put : Nat]
      /\ wire \in [Ports -> Seq(Bytes)]
  BY DEF TInv, TypeOK, Phases
<1>2. CASE TakeCall(p)
  <2>1. <<>> \in Seq(Bytes)
    BY EmptySeq
  <2>2. /\ line' \in [Ports -> Phases] /\ dead' \in [Ports -> BOOLEAN]
        /\ \A q \in Ports \ {p} : line'[q] = line[q]
    BY <1>1, <1>2 DEF TakeCall, Phases
  <2> QED  BY <1>2, <2>1, <2>2, ClearStep DEF TakeCall, Phases
<1>3. CASE FossilInit(p)
  <2>1. wire[p] \in Seq(Bytes) /\ wire' = [wire EXCEPT ![p] = wire[p]]
    BY <1>1, <1>3 DEF FossilInit
  <2>2. /\ line' \in [Ports -> Phases] /\ dead' \in [Ports -> BOOLEAN]
        /\ \A q \in Ports \ {p} : line'[q] = line[q]
    BY <1>1, <1>3 DEF FossilInit, Phases
  <2> QED  BY <1>3, <2>1, <2>2, ClearStep DEF FossilInit, Phases
<1>4. CASE PurgeOutput(p)
  <2>1. wire[p] \in Seq(Bytes) /\ wire' = [wire EXCEPT ![p] = wire[p]]
    BY <1>1, <1>4 DEF PurgeOutput
  <2>2. line' = line /\ dead' = dead
    BY <1>4 DEF PurgeOutput, callVars
  <2> QED  BY <1>1, <1>4, <2>1, <2>2, ClearStep DEF PurgeOutput, Phases
<1>5. CASE Answer(p) \/ DeliverConnect(p) \/ ConnectionLost(p) \/ EndCall(p)
  <2>1. /\ line' \in [Ports -> Phases] /\ dead' \in [Ports -> BOOLEAN]
        /\ \A q \in Ports : line'[q] # "idle" => line[q] # "idle"
    BY <1>1, <1>5 DEF Answer, DeliverConnect, ConnectionLost, EndCall, Phases
  <2>2. UNCHANGED <<ring, pend, owner, block, next, wire, owed>>
    BY <1>5 DEF Answer, DeliverConnect, ConnectionLost, EndCall
  <2> QED  BY <1>1, <2>1, <2>2, CallStep DEF Phases
<1>6. CASE StartBlock(p)
  <2>1. block' \in [port : Ports \cup {NoPort}, left : Nat, put : Nat]
    <3>1. PICK n \in 1 .. MaxBlock : block' = [port |-> p, left |-> n, put |-> 0]
      BY <1>6 DEF StartBlock
    <3> QED  BY <3>1, TxAssumption
  <2>2. UNCHANGED <<line, dead, ring, pend, owner, next, wire, owed>>
    BY <1>6 DEF StartBlock, callVars
  <2> QED  BY <1>1, <2>1, <2>2, CallStep DEF Phases
<1> QED  BY <1>2, <1>3, <1>4, <1>5, <1>6

LEMMA OutputActions ==
  ASSUME TInv, NEW p \in Ports,
         \/ FlushTx(p) \/ TransmitChar(p) \/ TransmitNoWait(p)
         \/ BlockByte(p) \/ FinishBlock(p)
  PROVE  TInv'
<1>1. /\ next \in [Ports -> Nat]
      /\ block \in [port : Ports \cup {NoPort}, left : Nat, put : Nat]
  BY DEF TInv, TypeOK
<1>2. next[p] \in Nat /\ (next' = next => Counts(p))
  BY <1>1 DEF Counts
<1>3. next' = [next EXCEPT ![p] = @ + 1] => Counts(p) /\ next'[p] > 0
  BY <1>1 DEF Counts
<1>4. PICK u : u = Unchanged(p)
  OBVIOUS
<1>5. Outcome(p, u) /\ \A f \in Flushes(p) : Outcome(p, f)
  BY <1>4, Outcomes
<1>6. u.ring = ring[p]
  BY <1>4 DEF Unchanged
<1>7. CASE FlushTx(p)
  <2>1. PICK f \in Flushes(p) : After(p, f, <<>>)
    BY <1>7 DEF FlushTx
  <2>2. UNCHANGED <<line, dead, block, next, owed>>
    BY <1>7 DEF FlushTx, callVars
  <2> QED  BY <1>1, <1>2, <1>5, <2>1, <2>2, OutputStep DEF Adds
<1>8. CASE TransmitChar(p)
  <2>1. UNCHANGED <<line, dead, block>> /\ Counts(p) /\ next'[p] > 0
    BY <1>3, <1>8 DEF TransmitChar, callVars
  <2>2. \E f, more : Outcome(p, f) /\ After(p, f, more) /\ Adds(p, f, more)
    BY <1>4, <1>5, <1>6, <1>8, <2>1 DEF TransmitChar, Adds
  <2> QED  BY <1>1, <2>1, <2>2, OutputStep
<1>9. CASE TransmitNoWait(p)
  <2>1. UNCHANGED <<line, dead, block>> /\ Counts(p) /\ next'[p] > 0
    BY <1>3, <1>9 DEF TransmitNoWait, callVars
  <2>2. \E more : After(p, u, more) /\ Adds(p, u, more)
    BY <1>4, <1>6, <1>9, <2>1 DEF TransmitNoWait, Adds
  <2> QED  BY <1>1, <1>5, <2>1, <2>2, OutputStep
<1>10. CASE BlockByte(p)
  <2>1. UNCHANGED <<line, dead>> /\ block.left > 0
    BY <1>10 DEF BlockByte, callVars
  <2>2. ASSUME NEW f, Outcome(p, f), HasRoom(f.ring), BlockPut(p, f) PROVE TInv'
    <3>1. Counts(p) /\ next'[p] > 0
      BY <1>3, <2>2 DEF BlockPut
    <3>2. \E more : After(p, f, more) /\ Adds(p, f, more)
      BY <2>2, <3>1 DEF BlockPut, Adds
    <3>3. block' \in [port : Ports \cup {NoPort}, left : Nat, put : Nat]
      <4>1. block' = [block EXCEPT !.left = block.left - 1, !.put = block.put + 1]
        BY <2>2 DEF BlockPut
      <4>2. block.left - 1 \in Nat /\ block.put + 1 \in Nat
        BY <1>1, <2>1
      <4> QED  BY <1>1, <4>1, <4>2
    <3> QED  BY <2>1, <2>2, <3>1, <3>2, <3>3, OutputStep
  <2>3. CASE HasRoom(ring[p]) /\ BlockPut(p, Unchanged(p))
    BY <1>4, <1>5, <1>6, <2>2, <2>3
  <2>4. CASE \E f \in Flushes(p) : HasRoom(f.ring) /\ BlockPut(p, f)
    BY <1>5, <2>2, <2>4
  <2>5. ASSUME NEW f \in Flushes(p), After(p, f, <<>>), UNCHANGED <<next, owed>>,
               block' = [block EXCEPT !.left = 0]
        PROVE  TInv'
    <3>1. block' \in [port : Ports \cup {NoPort}, left : Nat, put : Nat]
      BY <1>1, <2>5
    <3> QED  BY <1>2, <1>5, <2>1, <2>5, <3>1, OutputStep DEF Adds
  <2> QED  BY <1>10, <2>3, <2>4, <2>5 DEF BlockByte
<1>11. CASE FinishBlock(p)
  <2>1. UNCHANGED <<line, dead, next, owed>> /\ block' = NoBlock
    BY <1>11 DEF FinishBlock, callVars
  <2>2. block' \in [port : Ports \cup {NoPort}, left : Nat, put : Nat]
    BY <2>1 DEF NoBlock
  <2>3. CASE \E f \in Flushes(p) : After(p, f, <<>>)
    <3>1. PICK f \in Flushes(p) : After(p, f, <<>>)
      BY <2>3
    <3> QED  BY <1>2, <1>5, <2>1, <2>2, <3>1, OutputStep DEF Adds
  <2>4. CASE UNCHANGED <<ring, pend, owner, wire>>
    BY <2>1, <2>2, <2>4, CallStep DEF TInv, TypeOK
  <2> QED  BY <1>11, <2>3, <2>4 DEF FinishBlock
<1> QED  BY <1>7, <1>8, <1>9, <1>10, <1>11

LEMMA StepTInv == TInv /\ [Next]_vars => TInv'
<1> SUFFICES ASSUME TInv, [Next]_vars PROVE TInv'  OBVIOUS
<1>1. CASE Next
  BY <1>1, CallActions, OutputActions DEF Next
<1>2. CASE UNCHANGED vars
  BY <1>2, CallStep DEF vars, TInv, TypeOK
<1> QED  BY <1>1, <1>2

LEMMA TInvHolds == Spec => []TInv
BY InitTInv, StepTInv, PTL DEF Spec

\* The rings and the one buffer behind them never hold more than they have room
\* for, whatever mTCP takes: the buffer of twice TX_RING_SIZE is large enough for a
\* ring of which every byte doubles (int14.c:284).
THEOREM TxBounds == Spec => []TypeOK
<1>1. TInv => TypeOK  BY DEF TInv
<1> QED  BY <1>1, TInvHolds, PTL

\* As long as no other port writes, a caller gets what the application wrote in the
\* call and did not purge, in order and once, however mTCP cuts it up and however
\* many ports there are (int14.c:246).
THEOREM TxStream == Spec => []StreamIntact
<1>1. TInv => StreamIntact  BY DEF TInv
<1> QED  BY <1>1, TInvHolds, PTL

\* When AH=03h says that the output is empty, mTCP has all of it (int14.c:152).
THEOREM TxEmpty == Spec => []EmptyMeansSent
<1>1. TInv => EmptyMeansSent
  <2> SUFFICES ASSUME TInv, NEW p \in Ports, InCall(p), Alone(p), Tsre(p)
               PROVE  wire[p] = owed[p]
    BY DEF EmptyMeansSent
  <2>1. wire[p] \o Queue(p) = owed[p] /\ wire[p] \in Seq(Bytes)
    BY DEF TInv, StreamIntact, Complete, TypeOK
  <2>2. (IF owner = p THEN pend ELSE <<>>) = <<>> /\ EscapeAll(ring[p]) = <<>>
    BY EscapeNothing DEF Tsre, HasPending
  <2>3. Queue(p) = <<>>
    <3>1. <<>> \o <<>> = <<>>
      BY EmptySeq, ConcatEmptySeq
    <3> QED  BY <2>2, <3>1 DEF Queue
  <2> QED  BY <2>1, <2>3, ConcatEmptySeq
<1> QED  BY <1>1, TInvHolds, PTL

\* No caller reads the output of another port or of an earlier call, although all
\* ports share one buffer and several write at once (poll.c:269).
THEOREM TxOwnOutput == Spec => []OwnOutputOnly
<1>1. TInv => OwnOutputOnly
  <2> SUFFICES ASSUME TInv, NEW p \in Ports, InCall(p), NEW i \in DOMAIN wire[p]
               PROVE  wire[p][i] \in ToSet(owed[p])
    BY DEF OwnOutputOnly
  <2>1. wire[p] \in Seq(ToSet(owed[p]))
    BY DEF TInv, OnlyOwed, Owed
  <2>2. i \in 1 .. Len(wire[p])
    BY <2>1, LenProperties
  <2> QED  BY <2>1, <2>2, ElementOfSeq
<1> QED  BY <1>1, TInvHolds, PTL

=============================================================================
