-------------------------- MODULE TlsSessionProofs ---------------------------
(***************************************************************************)
(* What the hashes and records of a TLS session promise, and what a        *)
(* conversation between the client of vtls.c and a server is.              *)
(*                                                                         *)
(* The first part is about values alone: a hash fed in any pieces is the   *)
(* padded message cut into blocks, and the message can be recovered from   *)
(* it (Sha256Final, Sha1Final, ShaInjective); the MAC of both sides is the *)
(* same (HmacIsSha1); a record that one side numbers is accepted by a side *)
(* with the same keys and count, and by no other.                          *)
(*                                                                         *)
(* The second part is about conversations, and that every step of either   *)
(* side, and every damage on the way, makes one another one.  A            *)
(* conversation is: the locals h of vtls_handshake, the connection c of    *)
(* its slot, the server s, the records up and down that are under way, and *)
(* whether a record of the server has been damaged (d).  It goes through   *)
(* Asking, Flying, Answering and Opened, or ends in Dead; after the        *)
(* handshake it is Served1.  What ties the stages together is the          *)
(* transcript: both sides hash the same messages (Heard, Log) and differ   *)
(* at most in one number when a record of the flight was damaged           *)
(* (Untouched).  That the client accepts the server's Finished only when   *)
(* they do not differ rests on the transcript's being recovered from its   *)
(* hash.  TlsProofs applies the lemmas to the steps of Tls.                *)
(***************************************************************************)
EXTENDS Tls, SequenceTheorems, TLAPS

PartFold == INSTANCE FoldTheorems WITH op <- Append
NoteFold == INSTANCE FoldTheorems WITH op <- Noted
CutFold == INSTANCE FoldTheorems WITH op <- Continued

----------------------------------------------------------------------------
(***************************************************************************)
(* FlattenSeq, by induction over the number of pieces.                     *)
(***************************************************************************)
Flattens(s, f, n) == f = [i \in 1 .. n |-> IF i = 1 THEN s[i] ELSE f[i - 1] \o s[i]]

LEMMA FlattensAt ==
  ASSUME NEW s, NEW f, NEW n \in Nat, Flattens(s, f, n), NEW k \in Nat, k + 1 \in 1 .. n
  PROVE  /\ k = 0 => f[k + 1] = s[k + 1]
         /\ k # 0 => f[k + 1] = f[k] \o s[k + 1]
<1>1. \A i \in 1 .. n : f[i] = IF i = 1 THEN s[i] ELSE f[i - 1] \o s[i]
  BY Zenon DEF Flattens
<1>2. f[k + 1] = IF k + 1 = 1 THEN s[k + 1] ELSE f[(k + 1) - 1] \o s[k + 1]
  BY <1>1
<1>3. (k + 1) - 1 = k /\ (k + 1 = 1 <=> k = 0)
  OBVIOUS
<1>4. f[(k + 1) - 1] = f[k]
  BY <1>3
<1> QED  BY <1>2, <1>3, <1>4, Zenon

LEMMA FlattenExists ==
  ASSUME NEW s PROVE \A n \in Nat : \E f : Flattens(s, f, n)
<1> DEFINE G == {n \in Nat : \E f : Flattens(s, f, n)}
<1>1. 0 \in G
  <2>1. Flattens(s, [i \in 1 .. 0 |-> s[i]], 0)
    BY DEF Flattens
  <2> QED  BY <2>1
<1>2. ASSUME NEW n \in G PROVE n + 1 \in G
  <2>1. n \in Nat /\ \E f : Flattens(s, f, n)
    OBVIOUS
  <2>2. PICK f : Flattens(s, f, n)
    BY <2>1
  <2> DEFINE g == [i \in 1 .. n + 1 |-> IF i = n + 1
                                        THEN IF i = 1 THEN s[i] ELSE f[n] \o s[i]
                                        ELSE f[i]]
  <2>3. ASSUME NEW i \in 1 .. n + 1
        PROVE  g[i] = IF i = 1 THEN s[i] ELSE g[i - 1] \o s[i]
    <3>1. CASE i = n + 1
      <4>1. i # 1 => i - 1 = n /\ g[i - 1] = f[n]
        BY <2>1, <3>1
      <4> QED  BY <2>1, <3>1, <4>1
    <3>2. CASE i # n + 1
      <4>1. i \in 1 .. n /\ g[i] = f[i] /\ (i # 1 => g[i - 1] = f[i - 1])
        BY <2>1, <3>2
      <4>2. f[i] = IF i = 1 THEN s[i] ELSE f[i - 1] \o s[i]
        BY <2>2, <4>1 DEF Flattens
      <4> HIDE DEF g
      <4> QED  BY <4>1, <4>2
    <3> QED  BY <3>1, <3>2
  <2>4. Flattens(s, g, n + 1)
    <3>1. g = [i \in 1 .. n + 1 |-> g[i]]
      OBVIOUS
    <3> HIDE DEF g
    <3> QED  BY <2>3, <3>1 DEF Flattens
  <2> QED  BY <2>1, <2>4
<1>3. G = Nat
  <2> HIDE DEF G
  <2>1. G \subseteq Nat  BY DEF G
  <2> QED  BY <1>1, <1>2, <2>1, PartFold!Induction
<1> QED  BY <1>3

LEMMA FlattenIs ==
  ASSUME NEW T, NEW s \in Seq(T), s # << >>
  PROVE  \E f : Flattens(s, f, Len(s)) /\ FlattenSeq(s) = f[Len(s)]
<1>1. Len(s) \in Nat /\ Len(s) # 0
  BY EmptySeq
<1> DEFINE f == CHOOSE h : Flattens(s, h, Len(s))
<1>2. Flattens(s, f, Len(s))
  BY <1>1, FlattenExists
<1>3. FlattenSeq(s) = f[Len(s)]
  BY <1>1 DEF FlattenSeq, Flattens
<1> QED  BY <1>2, <1>3

\* The two equations of FlattenSeq.
LEMMA FlattenNone == FlattenSeq(<< >>) = << >>
BY DEF FlattenSeq

LEMMA FlattenAppend ==
  ASSUME NEW T, NEW s \in Seq(Seq(T)), NEW x \in Seq(T)
  PROVE  FlattenSeq(Append(s, x)) = FlattenSeq(s) \o x
<1> DEFINE t == Append(s, x)
           n == Len(s)
<1>1. /\ n \in Nat /\ t \in Seq(Seq(T)) /\ t # << >> /\ Len(t) = n + 1
      /\ t[n + 1] = x /\ \A i \in 1 .. n : t[i] = s[i]
  BY AppendProperties, LenProperties
<1>2. PICK g : Flattens(t, g, n + 1) /\ FlattenSeq(t) = g[n + 1]
  BY <1>1, FlattenIs
<1>3. g[n + 1] = IF n = 0 THEN x ELSE g[n] \o x
  <2> HIDE DEF t, n
  <2>1. n \in Nat /\ n + 1 \in Nat /\ n + 1 \in 1 .. n + 1
    BY <1>1
  <2>2. /\ n = 0 => g[n + 1] = t[n + 1]
        /\ n # 0 => g[n + 1] = g[n] \o t[n + 1]
    BY ONLY <1>2, <2>1, FlattensAt
  <2> QED  BY <1>1, <2>2, Zenon
<1>4. CASE s = << >>
  <2>1. n = 0
    BY <1>4
  <2>2. << >> \o x = x
    BY ConcatEmptySeq
  <2> QED  BY <1>2, <1>3, <1>4, <2>1, <2>2, FlattenNone
<1>5. CASE s # << >>
  <2>1. n # 0
    BY <1>5, EmptySeq
  <2>2. PICK f : Flattens(s, f, n) /\ FlattenSeq(s) = f[n]
    BY <1>5, FlattenIs
  <2> HIDE DEF t, n
  <2> DEFINE G == {k \in Nat : k \in 1 .. n => f[k] = g[k]}
  <2>3. 0 \in G
    OBVIOUS
  <2>4. ASSUME NEW k \in G PROVE k + 1 \in G
    <3> SUFFICES ASSUME k + 1 \in 1 .. n PROVE f[k + 1] = g[k + 1]
      OBVIOUS
    <3>0. k \in Nat /\ (k # 0 => f[k] = g[k])
      BY <1>1
    <3>a. k + 1 \in 1 .. n /\ n \in Nat /\ k \in Nat /\ n + 1 \in Nat /\ k + 1 \in 1 .. n + 1
      BY <1>1, <3>0
    <3>1. (k = 0 => f[k + 1] = s[k + 1]) /\ (k # 0 => f[k + 1] = f[k] \o s[k + 1])
      BY ONLY <2>2, <3>a, FlattensAt
    <3>2. (k = 0 => g[k + 1] = t[k + 1]) /\ (k # 0 => g[k + 1] = g[k] \o t[k + 1])
      BY ONLY <1>2, <3>a, FlattensAt
    <3>3. t[k + 1] = s[k + 1]
      BY <1>1
    <3> QED  BY <3>0, <3>1, <3>2, <3>3, Zenon
  <2>5. G = Nat
    <3> HIDE DEF G
    <3>1. G \subseteq Nat  BY DEF G
    <3> QED  BY <2>3, <2>4, <3>1, PartFold!Induction
  <2>6. f[n] = g[n]
    <3>1. n \in 1 .. n
      BY <1>1, <2>1
    <3>2. n \in G
      <4> HIDE DEF G
      <4> QED  BY <1>1, <2>5, Zenon
    <3> QED  BY <3>1, <3>2, Zenon
  <2> QED  BY <1>2, <1>3, <2>1, <2>2, <2>6 DEF t
<1> QED  BY <1>4, <1>5

LEMMA FlattenType ==
  ASSUME NEW T, NEW s \in Seq(Seq(T)) PROVE FlattenSeq(s) \in Seq(T)
<1> DEFINE G == {q \in Seq(Seq(T)) : FlattenSeq(q) \in Seq(T)}
<1>1. << >> \in G
  BY FlattenNone, EmptySeq
<1>2. ASSUME NEW q \in G, NEW x \in Seq(T) PROVE Append(q, x) \in G
  <2>1. FlattenSeq(Append(q, x)) = FlattenSeq(q) \o x
    BY FlattenAppend
  <2>2. Append(q, x) \in Seq(Seq(T)) /\ FlattenSeq(q) \o x \in Seq(T)
    BY ConcatProperties, AppendProperties
  <2> QED  BY <2>1, <2>2
<1> HIDE DEF G
<1>3. G \in SUBSET Seq(Seq(T))  BY DEF G
<1>4. G = Seq(Seq(T))
  BY <1>1, <1>2, <1>3, PartFold!SeqInduction
<1> QED  BY <1>4 DEF G

LEMMA FlattenCat ==
  ASSUME NEW T, NEW a \in Seq(Seq(T)), NEW b \in Seq(Seq(T))
  PROVE  FlattenSeq(a \o b) = FlattenSeq(a) \o FlattenSeq(b)
<1> DEFINE G == {q \in Seq(Seq(T)) : FlattenSeq(a \o q) = FlattenSeq(a) \o FlattenSeq(q)}
<1>1. << >> \in G
  BY FlattenNone, FlattenType, ConcatEmptySeq, EmptySeq
<1>2. ASSUME NEW q \in G, NEW x \in Seq(T) PROVE Append(q, x) \in G
  <2>1. a \o Append(q, x) = Append(a \o q, x)
    <3>1. a \in Seq(Seq(T)) /\ q \in Seq(Seq(T)) /\ x \in Seq(T)
      OBVIOUS
    <3> QED  BY ONLY <3>1
  <2>2. a \o q \in Seq(Seq(T)) /\ Append(q, x) \in Seq(Seq(T))
    BY ConcatProperties, AppendProperties
  <2>3. FlattenSeq(Append(a \o q, x)) = FlattenSeq(a \o q) \o x
    BY <2>2, FlattenAppend
  <2>4. FlattenSeq(Append(q, x)) = FlattenSeq(q) \o x
    BY FlattenAppend
  <2>5. (FlattenSeq(a) \o FlattenSeq(q)) \o x = FlattenSeq(a) \o (FlattenSeq(q) \o x)
    BY FlattenType, ConcatAssociative, SMTT(40)
  <2> QED  BY <2>1, <2>2, <2>3, <2>4, <2>5
<1> HIDE DEF G
<1>3. G \in SUBSET Seq(Seq(T))  BY DEF G
<1>4. G = Seq(Seq(T))
  BY <1>1, <1>2, <1>3, PartFold!SeqInduction
<1> QED  BY <1>4 DEF G

LEMMA FlattenOne ==
  ASSUME NEW T, NEW x \in Seq(T) PROVE FlattenSeq(<<x>>) = x
<1>1. Append(<< >>, x) = <<x>> /\ << >> \in Seq(Seq(T))
  OBVIOUS
<1>2. FlattenSeq(Append(<< >>, x)) = FlattenSeq(<< >>) \o x
  BY <1>1, FlattenAppend
<1> QED  BY <1>1, <1>2, FlattenNone, ConcatEmptySeq

LEMMA FlattenCons ==
  ASSUME NEW T, NEW x \in Seq(T), NEW b \in Seq(Seq(T))
  PROVE  FlattenSeq(<<x>> \o b) = x \o FlattenSeq(b)
<1>1. <<x>> \in Seq(Seq(T))
  OBVIOUS
<1>2. FlattenSeq(<<x>> \o b) = FlattenSeq(<<x>>) \o FlattenSeq(b)
  BY <1>1, FlattenCat
<1> QED  BY <1>2, FlattenOne

----------------------------------------------------------------------------
(***************************************************************************)
(* Cutting into blocks.  Products are handled by the three facts of Times. *)
(***************************************************************************)
Blocks == {b \in Seq(Nat) : Len(b) = BlockLen}

LEMMA Times ==
  /\ BlockLen \in Nat /\ BlockLen > 1
  /\ 0 * BlockLen = 0
  /\ \A k \in Nat : k * BlockLen \in Nat /\ (k + 1) * BlockLen = k * BlockLen + BlockLen
<1>1. BlockLen \in Nat /\ BlockLen > 1
  BY BlockLenAssumption
<1>2. 0 * BlockLen = 0
  BY <1>1
<1>3. ASSUME NEW k \in Nat
      PROVE k * BlockLen \in Nat /\ (k + 1) * BlockLen = k * BlockLen + BlockLen
  BY <1>1
<1> QED  BY <1>1, <1>2, <1>3

LEMMA TimesOrder ==
  ASSUME NEW j \in Nat, NEW k \in Nat, j <= k
  PROVE  j * BlockLen <= k * BlockLen
BY Times

LEMMA Division ==
  ASSUME NEW n \in Nat
  PROVE  /\ n \div BlockLen \in Nat /\ n % BlockLen \in 0 .. BlockLen - 1
         /\ n = (n \div BlockLen) * BlockLen + (n % BlockLen)
<1>1. BlockLen \in Nat /\ BlockLen > 1
  BY Times
<1>2. n \div BlockLen \in Int /\ n \div BlockLen >= 0
  BY <1>1
<1>3. n % BlockLen \in 0 .. BlockLen - 1
  BY <1>1
<1>4. n = (n \div BlockLen) * BlockLen + (n % BlockLen)
  BY <1>1
<1> QED  BY <1>2, <1>3, <1>4

\* The remainder is the only one.
LEMMA Remainder ==
  ASSUME NEW j \in Nat, NEW k \in Nat, NEW r \in 0 .. BlockLen - 1, NEW t \in 0 .. BlockLen - 1,
         j * BlockLen + r = k * BlockLen + t
  PROVE  j = k /\ r = t
<1>1. BlockLen \in Nat /\ j * BlockLen \in Nat /\ k * BlockLen \in Nat
  BY Times
<1>2. ASSUME j < k PROVE FALSE
  <2>1. (j + 1) * BlockLen <= k * BlockLen
    BY <1>2, TimesOrder
  <2>2. (j + 1) * BlockLen = j * BlockLen + BlockLen
    BY Times
  <2> QED  BY <1>1, <2>1, <2>2
<1>3. ASSUME k < j PROVE FALSE
  <2>1. (k + 1) * BlockLen <= j * BlockLen
    BY <1>3, TimesOrder
  <2>2. (k + 1) * BlockLen = k * BlockLen + BlockLen
    BY Times
  <2> QED  BY <1>1, <2>1, <2>2
<1>4. j = k
  BY <1>2, <1>3
<1> QED  BY <1>1, <1>4

\* The blocks of a sequence that has n of them.
LEMMA BlocksType ==
  ASSUME NEW m \in Seq(Nat), NEW n \in Nat, n * BlockLen <= Len(m)
  PROVE  /\ BlocksOf(m, n) \in Seq(Blocks) /\ Len(BlocksOf(m, n)) = n
         /\ BlocksOf(m, n) \in Seq(Seq(Nat))
         /\ \A k \in 1 .. n : BlocksOf(m, n)[k] = SubSeq(m, (k - 1) * BlockLen + 1, k * BlockLen)
<1>1. ASSUME NEW k \in 1 .. n
      PROVE  SubSeq(m, (k - 1) * BlockLen + 1, k * BlockLen) \in Blocks
  <2> DEFINE a == (k - 1) * BlockLen
             z == k * BlockLen
  <2>1. k - 1 \in Nat /\ k \in Nat /\ (k - 1) + 1 = k /\ k <= n
    OBVIOUS
  <2>2. a \in Nat /\ z = a + BlockLen /\ BlockLen \in Nat /\ BlockLen > 1
    <3>1. a \in Nat /\ ((k - 1) + 1) * BlockLen = a + BlockLen
      BY <2>1, Times
    <3> QED  BY <2>1, <3>1, Times
  <2>3. z <= Len(m)
    <3>1. z <= n * BlockLen /\ n * BlockLen \in Nat /\ Len(m) \in Nat
      BY <2>1, TimesOrder, Times, LenProperties
    <3> QED  BY <2>2, <3>1
  <2> HIDE DEF a, z
  <2>4. \A i \in a + 1 .. z : m[i] \in Nat
    BY <2>2, <2>3, ElementOfSeq, LenProperties
  <2>5. SubSeq(m, a + 1, z) \in Seq(Nat) /\ Len(SubSeq(m, a + 1, z)) = BlockLen
    BY <2>2, <2>4, SubSeqProperties
  <2> QED  BY <2>5 DEF Blocks, a, z
<1> DEFINE q == BlocksOf(m, n)
<1>2. q \in [1 .. n -> Blocks]
  BY <1>1 DEF BlocksOf
<1>3. q \in Seq(Blocks) /\ Len(q) = n
  BY <1>2
<1>4. q \in Seq(Seq(Nat))
  BY <1>3, SeqMonotonic DEF Blocks
<1> QED  BY <1>3, <1>4 DEF BlocksOf

\* One more block.
LEMMA BlocksNext ==
  ASSUME NEW m \in Seq(Nat), NEW n \in Nat, (n + 1) * BlockLen <= Len(m)
  PROVE  BlocksOf(m, n + 1)
           = Append(BlocksOf(m, n), SubSeq(m, n * BlockLen + 1, (n + 1) * BlockLen))
<1> DEFINE p == BlocksOf(m, n)
           q == BlocksOf(m, n + 1)
           x == SubSeq(m, n * BlockLen + 1, (n + 1) * BlockLen)
<1>1. n * BlockLen <= Len(m) /\ n + 1 \in Nat
  <2>1. n * BlockLen <= (n + 1) * BlockLen
    BY TimesOrder
  <2>2. n * BlockLen \in Nat /\ (n + 1) * BlockLen \in Nat /\ Len(m) \in Nat
    BY Times, LenProperties
  <2> QED  BY <2>1, <2>2
<1>2. /\ p \in Seq(Blocks) /\ Len(p) = n
      /\ q \in Seq(Blocks) /\ Len(q) = n + 1
      /\ \A k \in 1 .. n : p[k] = SubSeq(m, (k - 1) * BlockLen + 1, k * BlockLen)
      /\ \A k \in 1 .. n + 1 : q[k] = SubSeq(m, (k - 1) * BlockLen + 1, k * BlockLen)
  BY <1>1, BlocksType
<1>3. q[n + 1] = x
  <2>1. n + 1 \in 1 .. n + 1 /\ (n + 1) - 1 = n
    OBVIOUS
  <2> QED  BY <1>2, <2>1
<1> HIDE DEF p, q, x
<1>4. \A k \in 1 .. n : q[k] = p[k]
  <2>1. \A k \in 1 .. n : k \in 1 .. n + 1
    OBVIOUS
  <2> QED  BY <1>2, <2>1, Zenon
<1>5. x \in Blocks
  <2>1. n + 1 \in 1 .. n + 1
    OBVIOUS
  <2> QED  BY <1>2, <1>3, <2>1, ElementOfSeq
<1>6. /\ Append(p, x) \in Seq(Blocks) /\ Len(Append(p, x)) = n + 1
      /\ \A k \in 1 .. n : Append(p, x)[k] = p[k]
      /\ Append(p, x)[n + 1] = x
  BY <1>2, <1>5, AppendProperties
<1>7. \A k \in 1 .. n + 1 : q[k] = Append(p, x)[k]
  <2> SUFFICES ASSUME NEW k \in 1 .. n + 1 PROVE q[k] = Append(p, x)[k]
    OBVIOUS
  <2>1. k \in 1 .. n \/ k = n + 1
    OBVIOUS
  <2> QED  BY <1>3, <1>4, <1>6, <2>1
<1>8. q = Append(p, x)
  <2>1. /\ q \in Seq(Blocks) /\ Append(p, x) \in Seq(Blocks) /\ Len(q) = Len(Append(p, x))
        /\ \A k \in 1 .. Len(q) : q[k] = Append(p, x)[k]
    BY <1>2, <1>6, <1>7
  <2> QED  BY ONLY <2>1, SeqEqual
<1> QED  BY <1>8 DEF p, q, x

\* Put together they are the beginning of the sequence.
LEMMA BlocksJoined ==
  ASSUME NEW m \in Seq(Nat)
  PROVE  \A n \in Nat : n * BlockLen <= Len(m) =>
           FlattenSeq(BlocksOf(m, n)) = SubSeq(m, 1, n * BlockLen)
<1> DEFINE G == {n \in Nat : n * BlockLen <= Len(m) =>
                    FlattenSeq(BlocksOf(m, n)) = SubSeq(m, 1, n * BlockLen)}
<1>1. 0 \in G
  <2>1. BlocksOf(m, 0) = << >>
    <3>1. 0 * BlockLen = 0 /\ Len(m) \in Nat
      BY Times, LenProperties
    <3>2. BlocksOf(m, 0) \in Seq(Blocks) /\ Len(BlocksOf(m, 0)) = 0
      BY <3>1, BlocksType
    <3> QED  BY <3>2, EmptySeq
  <2>2. SubSeq(m, 1, 0 * BlockLen) = << >>
    BY Times, SubSeqEmpty
  <2> QED  BY <2>1, <2>2, FlattenNone
<1>2. ASSUME NEW n \in G PROVE n + 1 \in G
  <2>0. n \in Nat
    OBVIOUS
  <2> SUFFICES ASSUME (n + 1) * BlockLen <= Len(m)
               PROVE  FlattenSeq(BlocksOf(m, n + 1)) = SubSeq(m, 1, (n + 1) * BlockLen)
    OBVIOUS
  <2> DEFINE a == n * BlockLen
             z == (n + 1) * BlockLen
             x == SubSeq(m, a + 1, z)
  <2>1. a \in Nat /\ z = a + BlockLen /\ BlockLen \in Nat /\ BlockLen > 1 /\ Len(m) \in Nat
    BY <2>0, Times, LenProperties
  <2>2. a <= Len(m)
    BY <2>1
  <2>3. FlattenSeq(BlocksOf(m, n)) = SubSeq(m, 1, a)
    BY <2>2
  <2>4. BlocksOf(m, n) \in Seq(Seq(Nat))
    BY <2>0, <2>2, BlocksType
  <2>5. BlocksOf(m, n + 1) = Append(BlocksOf(m, n), x)
    BY <2>0, BlocksNext
  <2> HIDE DEF a, z, x, G
  <2>6. x \in Seq(Nat)
    <3>1. \A i \in a + 1 .. z : m[i] \in Nat
      BY <2>1, ElementOfSeq DEF z
    <3> QED  BY <2>1, <3>1, SubSeqProperties DEF x
  <2>7. FlattenSeq(Append(BlocksOf(m, n), x)) = FlattenSeq(BlocksOf(m, n)) \o x
    BY <2>4, <2>6, FlattenAppend
  <2>8. SubSeq(m, 1, a) \o SubSeq(m, a + 1, z) = SubSeq(m, 1, z)
    <3>1. z <= Len(m)
      BY DEF z
    <3>2. 1 \in 1 .. Len(m) + 1 /\ a \in 1 - 1 .. Len(m) /\ z \in a .. Len(m)
      BY <2>1, <3>1
    <3> QED  BY <3>2, ConcatAdjacentSubSeq
  <2> QED  BY <2>3, <2>5, <2>7, <2>8 DEF x, z
<1>3. G = Nat
  <2> HIDE DEF G
  <2>1. G \subseteq Nat  BY DEF G
  <2> QED  BY <1>1, <1>2, <2>1, PartFold!Induction
<1> QED  BY <1>3

\* A piece of a sequence is found again where it was put.
LEMMA MiddleOf ==
  ASSUME NEW T, NEW p \in Seq(T), NEW x \in Seq(T), NEW u \in Seq(T)
  PROVE  /\ SubSeq(p \o (x \o u), Len(p) + 1, Len(p) + Len(x)) = x
         /\ Len(p \o (x \o u)) = Len(p) + Len(x) + Len(u)
         /\ p \o (x \o u) \in Seq(T)
<1> DEFINE m == p \o (x \o u)
           q == SubSeq(m, Len(p) + 1, Len(p) + Len(x))
<1>1. /\ Len(p) \in Nat /\ Len(x) \in Nat /\ Len(u) \in Nat
      /\ x \o u \in Seq(T) /\ Len(x \o u) = Len(x) + Len(u)
      /\ \A i \in 1 .. Len(x) + Len(u) : (x \o u)[i] = IF i <= Len(x) THEN x[i] ELSE u[i - Len(x)]
  BY ConcatProperties, LenProperties
<1>2. /\ m \in Seq(T) /\ Len(m) = Len(p) + (Len(x) + Len(u))
      /\ \A i \in 1 .. Len(p) + (Len(x) + Len(u)) :
           m[i] = IF i <= Len(p) THEN p[i] ELSE (x \o u)[i - Len(p)]
  BY <1>1, ConcatProperties
<1> HIDE DEF m
<1>3. ASSUME NEW i \in 1 .. Len(x) PROVE m[Len(p) + i] = x[i]
  <2>1. /\ Len(p) + i \in 1 .. Len(p) + (Len(x) + Len(u)) /\ ~(Len(p) + i <= Len(p))
        /\ (Len(p) + i) - Len(p) = i /\ i \in 1 .. Len(x) + Len(u) /\ i <= Len(x)
    BY <1>1
  <2>2. m[Len(p) + i] = (x \o u)[i]
    BY <1>2, <2>1
  <2>3. (x \o u)[i] = x[i]
    BY <1>1, <2>1
  <2> QED  BY <2>2, <2>3
<1>4. \A i \in Len(p) + 1 .. Len(p) + Len(x) : m[i] \in T
  <2>1. \A i \in Len(p) + 1 .. Len(p) + Len(x) : i \in 1 .. Len(m)
    BY <1>1, <1>2
  <2> QED  BY <1>2, <2>1, ElementOfSeq
<1>5. /\ q \in Seq(T) /\ Len(q) = Len(x)
      /\ \A i \in 1 .. Len(x) : q[i] = m[Len(p) + i]
  <2>1. /\ q \in Seq(T)
        /\ Len(q) = IF Len(p) + 1 <= Len(p) + Len(x)
                    THEN (Len(p) + Len(x)) - (Len(p) + 1) + 1 ELSE 0
        /\ \A i \in 1 .. (Len(p) + Len(x)) - (Len(p) + 1) + 1 : q[i] = m[(Len(p) + 1) + i - 1]
    <3>1. Len(p) + 1 \in Int /\ Len(p) + Len(x) \in Int
      BY <1>1
    <3> QED  BY <1>4, <3>1, SubSeqProperties
  <2> HIDE DEF q
  <2>2. Len(q) = Len(x)
    BY <1>1, <2>1
  <2>3. ASSUME NEW i \in 1 .. Len(x) PROVE q[i] = m[Len(p) + i]
    <3>1. i \in 1 .. (Len(p) + Len(x)) - (Len(p) + 1) + 1 /\ (Len(p) + 1) + i - 1 = Len(p) + i
      BY <1>1
    <3>2. q[i] = m[(Len(p) + 1) + i - 1]
      BY <2>1, <3>1
    <3> QED  BY <3>1, <3>2
  <2> QED  BY <2>1, <2>2, <2>3
<1> HIDE DEF q
<1>6. q = x
  <2>1. /\ q \in Seq(T) /\ x \in Seq(T) /\ Len(q) = Len(x)
        /\ \A i \in 1 .. Len(q) : q[i] = x[i]
    BY <1>3, <1>5
  <2> QED  BY ONLY <2>1, SeqEqual
<1> QED  BY <1>1, <1>2, <1>6 DEF q, m

LEMMA BlocksLen ==
  ASSUME NEW a \in Seq(Blocks)
  PROVE  /\ Len(a) \in Nat /\ a \in Seq(Seq(Nat)) /\ FlattenSeq(a) \in Seq(Nat)
         /\ Len(FlattenSeq(a)) = Len(a) * BlockLen
<1>0. \A q \in Seq(Blocks) : q \in Seq(Seq(Nat))
  <2>1. Blocks \subseteq Seq(Nat)
    BY DEF Blocks
  <2> QED  BY <2>1, SeqMonotonic
<1> DEFINE G == {q \in Seq(Blocks) : Len(FlattenSeq(q)) = Len(q) * BlockLen}
<1>1. << >> \in G
  BY FlattenNone, EmptySeq, Times
<1>2. ASSUME NEW q \in G, NEW x \in Blocks PROVE Append(q, x) \in G
  <2>1. q \in Seq(Seq(Nat)) /\ x \in Seq(Nat) /\ Len(x) = BlockLen /\ q \in Seq(Blocks)
    BY <1>0 DEF Blocks
  <2>2. FlattenSeq(Append(q, x)) = FlattenSeq(q) \o x
    BY <2>1, FlattenAppend
  <2>3. Len(FlattenSeq(q) \o x) = Len(q) * BlockLen + BlockLen
    BY <2>1, FlattenType, ConcatProperties
  <2>4. Append(q, x) \in Seq(Blocks) /\ Len(Append(q, x)) = Len(q) + 1 /\ Len(q) \in Nat
    BY <2>1, AppendProperties, LenProperties
  <2>5. (Len(q) + 1) * BlockLen = Len(q) * BlockLen + BlockLen
    BY <2>4, Times
  <2> QED  BY <2>2, <2>3, <2>4, <2>5
<1> HIDE DEF G
<1>3. G \in SUBSET Seq(Blocks)  BY DEF G
<1>4. G = Seq(Blocks)
  BY <1>1, <1>2, <1>3, PartFold!SeqInduction
<1>5. Len(FlattenSeq(a)) = Len(a) * BlockLen
  BY <1>4 DEF G
<1> QED  BY <1>0, <1>5, FlattenType, LenProperties

\* Blocks that are put together are cut again in the same way.
LEMMA BlocksBack ==
  ASSUME NEW a \in Seq(Blocks), NEW u \in Seq(Nat)
  PROVE  BlocksOf(FlattenSeq(a) \o u, Len(a)) = a
<1> DEFINE G == {q \in Seq(Blocks) :
                   \A v \in Seq(Nat) : BlocksOf(FlattenSeq(q) \o v, Len(q)) = q}
<1>1. << >> \in G
  <2> SUFFICES ASSUME NEW v \in Seq(Nat)
               PROVE  BlocksOf(FlattenSeq(<< >>) \o v, Len(<< >>)) = << >>
    BY EmptySeq
  <2>1. FlattenSeq(<< >>) \o v \in Seq(Nat) /\ 0 * BlockLen = 0
    BY FlattenNone, ConcatEmptySeq, Times
  <2>2. 0 * BlockLen <= Len(FlattenSeq(<< >>) \o v)
    BY <2>1, LenProperties
  <2>3. BlocksOf(FlattenSeq(<< >>) \o v, 0) \in Seq(Blocks)
        /\ Len(BlocksOf(FlattenSeq(<< >>) \o v, 0)) = 0
    BY <2>1, <2>2, BlocksType
  <2>4. Len(<< >>) = 0
    OBVIOUS
  <2> QED  BY <2>3, <2>4, EmptySeq
<1>2. ASSUME NEW q \in G, NEW x \in Blocks PROVE Append(q, x) \in G
  <2>1. x \in Seq(Nat) /\ Len(x) = BlockLen /\ q \in Seq(Blocks)
    BY DEF Blocks
  <2>2. Append(q, x) \in Seq(Blocks) /\ Len(Append(q, x)) = Len(q) + 1
    BY <2>1, AppendProperties
  <2> SUFFICES ASSUME NEW v \in Seq(Nat)
               PROVE  BlocksOf(FlattenSeq(Append(q, x)) \o v, Len(Append(q, x))) = Append(q, x)
    BY <2>2
  <2> DEFINE p == FlattenSeq(q)
             m == p \o (x \o v)
             l == Len(q) * BlockLen
             z == (Len(q) + 1) * BlockLen
  <2>3. /\ Len(q) \in Nat /\ q \in Seq(Seq(Nat)) /\ p \in Seq(Nat) /\ Len(p) = l
    BY <2>1, BlocksLen
  <2>a. \A w \in Seq(Nat) : BlocksOf(p \o w, Len(q)) = q
    OBVIOUS
  <2>b. FlattenSeq(Append(q, x)) = p \o x
    BY <2>1, <2>3, FlattenAppend
  <2> HIDE DEF G, p
  <2>4. /\ x \o v \in Seq(Nat) /\ m \in Seq(Nat)
        /\ Len(m) = Len(p) + Len(x) + Len(v) /\ Len(v) \in Nat
        /\ SubSeq(m, Len(p) + 1, Len(p) + Len(x)) = x
    <3>1. p \in Seq(Nat) /\ x \in Seq(Nat) /\ v \in Seq(Nat)
      BY <2>1, <2>3
    <3>2. x \o v \in Seq(Nat) /\ Len(v) \in Nat
      BY <3>1, ConcatProperties, LenProperties
    <3> QED  BY ONLY <3>1, <3>2, MiddleOf, SMTT(40)
  <2>5. l \in Nat /\ z = l + BlockLen /\ BlockLen \in Nat
    BY <2>3, Times
  <2>6. BlocksOf(m, Len(q)) = q
    BY <2>a, <2>4
  <2>7. FlattenSeq(Append(q, x)) \o v = m
    <3>1. p \in Seq(Nat) /\ x \in Seq(Nat) /\ v \in Seq(Nat)
      BY <2>1, <2>3
    <3>2. (p \o x) \o v = p \o (x \o v)
      BY ONLY <3>1, ConcatAssociative, SMTT(40)
    <3> QED  BY <2>b, <3>2
  <2> HIDE DEF m, l, z
  <2>8. z <= Len(m) /\ l + 1 = Len(p) + 1 /\ z = Len(p) + Len(x)
    BY <2>1, <2>3, <2>4, <2>5
  <2>9. BlocksOf(m, Len(q) + 1) = Append(BlocksOf(m, Len(q)), SubSeq(m, l + 1, z))
    BY <2>3, <2>4, <2>8, BlocksNext DEF l, z
  <2>10. SubSeq(m, l + 1, z) = x
    BY <2>4, <2>8
  <2> QED  BY <2>2, <2>6, <2>7, <2>9, <2>10
<1> HIDE DEF G
<1>3. G \in SUBSET Seq(Blocks)  BY DEF G
<1>4. G = Seq(Blocks)
  BY <1>1, <1>2, <1>3, PartFold!SeqInduction
<1> QED  BY <1>4 DEF G

\* So there is one way to cut a sequence.
LEMMA OneCut ==
  ASSUME NEW a \in Seq(Blocks), NEW b \in Seq(Blocks),
         NEW u \in Seq(Nat), NEW v \in Seq(Nat), Len(u) < BlockLen, Len(v) < BlockLen,
         FlattenSeq(a) \o u = FlattenSeq(b) \o v
  PROVE  a = b /\ Len(u) = Len(v)
<1>1. /\ Len(FlattenSeq(a) \o u) = Len(a) * BlockLen + Len(u)
      /\ Len(FlattenSeq(b) \o v) = Len(b) * BlockLen + Len(v)
      /\ Len(a) \in Nat /\ Len(b) \in Nat
  BY BlocksLen, ConcatProperties
<1>2. Len(u) \in 0 .. BlockLen - 1 /\ Len(v) \in 0 .. BlockLen - 1
  BY Times, LenProperties
<1>3. Len(a) = Len(b) /\ Len(u) = Len(v)
  BY <1>1, <1>2, Remainder
<1>4. a = BlocksOf(FlattenSeq(a) \o u, Len(a)) /\ b = BlocksOf(FlattenSeq(b) \o v, Len(b))
  BY BlocksBack
<1> QED  BY <1>3, <1>4

LEMMA Associates ==
  \A a, b, c \in Seq(Nat) : (a \o b) \o c = a \o (b \o c)
BY ConcatAssociative, SMTT(40)

----------------------------------------------------------------------------
(***************************************************************************)
(* The state of a hash that has been fed the bytes m, after n others.      *)
(***************************************************************************)
Fed(h, m, n) ==
  /\ h \in HashState /\ h.totlen = n + Len(m)
  /\ h.done \in Seq(Blocks) /\ Len(h.block) < BlockLen
  /\ m = FlattenSeq(h.done) \o h.block

\* Whole blocks and the rest.
Whole(m) == Len(m) \div BlockLen
Tailing(m) == SubSeq(m, Whole(m) * BlockLen + 1, Len(m))

LEMMA CutRest ==
  ASSUME NEW m \in Seq(Nat)
  PROVE  /\ Whole(m) \in Nat /\ BlocksOf(m, Whole(m)) \in Seq(Blocks)
         /\ Tailing(m) \in Seq(Nat) /\ Len(Tailing(m)) < BlockLen
         /\ FlattenSeq(BlocksOf(m, Whole(m))) \o Tailing(m) = m
         /\ Len(m) < BlockLen => BlocksOf(m, Whole(m)) = << >> /\ Tailing(m) = m
<1> DEFINE w == Whole(m)
           a == w * BlockLen
<1>1. /\ Len(m) \in Nat /\ w \in Nat /\ a \in Nat
      /\ Len(m) = a + (Len(m) % BlockLen) /\ Len(m) % BlockLen \in 0 .. BlockLen - 1
      /\ BlockLen \in Nat /\ BlockLen > 1
  BY LenProperties, Division, Times DEF Whole
<1> HIDE DEF w
<1>2. BlocksOf(m, w) \in Seq(Blocks) /\ Len(BlocksOf(m, w)) = w
  BY <1>1, BlocksType
<1>3. FlattenSeq(BlocksOf(m, w)) = SubSeq(m, 1, a)
  BY <1>1, BlocksJoined, SMTT(40)
<1> HIDE DEF a
<1>4. SubSeq(m, 1, a) \o SubSeq(m, a + 1, Len(m)) = m
  <2>1. SubSeq(m, 1, a) \o SubSeq(m, a + 1, Len(m)) = SubSeq(m, 1, Len(m))
    <3>1. 1 \in 1 .. Len(m) + 1 /\ a \in 1 - 1 .. Len(m) /\ Len(m) \in a .. Len(m)
      BY <1>1
    <3> QED  BY <3>1, ConcatAdjacentSubSeq
  <2> QED  BY <2>1, SubSeqFull
<1>5. SubSeq(m, a + 1, Len(m)) \in Seq(Nat) /\ Len(SubSeq(m, a + 1, Len(m))) < BlockLen
  <2>1. \A i \in a + 1 .. Len(m) : m[i] \in Nat
    BY <1>1, ElementOfSeq
  <2>2. /\ SubSeq(m, a + 1, Len(m)) \in Seq(Nat)
        /\ Len(SubSeq(m, a + 1, Len(m))) = IF a + 1 <= Len(m) THEN Len(m) - (a + 1) + 1 ELSE 0
    BY <1>1, <2>1, SubSeqProperties
  <2> QED  BY <1>1, <2>2
<1>6. ASSUME Len(m) < BlockLen
      PROVE  BlocksOf(m, w) = << >> /\ SubSeq(m, a + 1, Len(m)) = m
  <2>1. w = 0
    <3>1. w * BlockLen + (Len(m) % BlockLen) = 0 * BlockLen + Len(m)
      BY <1>1, Times DEF a
    <3>2. Len(m) \in 0 .. BlockLen - 1 /\ 0 \in Nat
      BY <1>1, <1>6
    <3> QED  BY <1>1, <3>1, <3>2, Remainder
  <2>2. a = 0
    BY <2>1, Times DEF a
  <2> QED  BY <1>2, <2>1, <2>2, EmptySeq, SubSeqFull
<1> QED  BY <1>1, <1>2, <1>3, <1>4, <1>5, <1>6 DEF w, a, Tailing

LEMMA FedParts ==
  ASSUME NEW h, NEW m, NEW n \in Nat, Fed(h, m, n)
  PROVE  /\ h \in HashState /\ h.done \in Seq(Blocks) /\ h.done \in Seq(Seq(Nat))
         /\ h.block \in Seq(Nat) /\ Len(h.block) \in Nat /\ Len(h.block) < BlockLen
         /\ FlattenSeq(h.done) \in Seq(Nat) /\ m \in Seq(Nat) /\ Len(m) \in Nat
         /\ m = FlattenSeq(h.done) \o h.block /\ h.totlen = n + Len(m)
         /\ Len(m) = Len(h.done) * BlockLen + Len(h.block) /\ Len(h.done) \in Nat
<1>1. h \in HashState /\ h.done \in Seq(Blocks) /\ h.block \in Seq(Nat)
  BY DEF Fed, HashState
<1>2. /\ h.done \in Seq(Seq(Nat)) /\ FlattenSeq(h.done) \in Seq(Nat) /\ Len(h.done) \in Nat
      /\ Len(FlattenSeq(h.done)) = Len(h.done) * BlockLen
  BY <1>1, BlocksLen
<1>3. m = FlattenSeq(h.done) \o h.block /\ Len(h.block) < BlockLen /\ h.totlen = n + Len(m)
  BY DEF Fed
<1>4. m \in Seq(Nat) /\ Len(m) = Len(h.done) * BlockLen + Len(h.block)
  <2> DEFINE p == FlattenSeq(h.done)
             b == h.block
  <2>1. p \in Seq(Nat) /\ b \in Seq(Nat) /\ m = p \o b /\ Len(p) = Len(h.done) * BlockLen
    BY <1>1, <1>2, <1>3
  <2> HIDE DEF p, b
  <2>2. p \o b \in Seq(Nat) /\ Len(p \o b) = Len(p) + Len(b)
    BY ONLY <2>1, ConcatProperties
  <2> QED  BY <2>1, <2>2 DEF b
<1> QED  BY <1>1, <1>2, <1>3, <1>4, LenProperties

\* A state put together from blocks and a rest.
LEMMA FedFrom ==
  ASSUME NEW m \in Seq(Nat), NEW n \in Nat, NEW done \in Seq(Blocks), NEW block \in Seq(Nat),
         Len(block) < BlockLen, FlattenSeq(done) \o block = m, NEW t, t = n + Len(m)
  PROVE  Fed([totlen |-> t, done |-> done, block |-> block], m, n)
<1>1. done \in Seq(Seq(Nat)) /\ t \in Nat
  BY BlocksLen, LenProperties
<1> QED  BY <1>1 DEF Fed, HashState

LEMMA FedStart ==
  /\ Fed(HashInit, << >>, 0)
  /\ \A n \in Nat : Fed([HashInit EXCEPT !.totlen = n], << >>, n)
<1>1. ASSUME NEW n \in Nat
      PROVE  Fed([totlen |-> n, done |-> << >>, block |-> << >>], << >>, n)
  <2>1. << >> \in Seq(Nat) /\ << >> \in Seq(Blocks) /\ Len(<< >>) = 0 /\ 0 < BlockLen
    BY EmptySeq, Times
  <2>2. FlattenSeq(<< >>) \o << >> = << >>
    BY FlattenNone, <2>1, ConcatEmptySeq
  <2>3. n = n + Len(<< >>)
    BY <2>1
  <2> QED  BY ONLY <2>1, <2>2, <2>3, n \in Nat, FedFrom
<1>2. HashInit = [totlen |-> 0, done |-> << >>, block |-> << >>]
  BY DEF HashInit
<1>3. \A n \in Nat : [HashInit EXCEPT !.totlen = n]
                       = [totlen |-> n, done |-> << >>, block |-> << >>]
  BY DEF HashInit
<1> QED  BY <1>1, <1>2, <1>3

\* Blocks that follow a full first part.
LEMMA FedMore ==
  ASSUME NEW done \in Seq(Blocks), NEW d \in Seq(Nat)
  PROVE  /\ done \o BlocksOf(d, Whole(d)) \in Seq(Blocks)
         /\ FlattenSeq(done \o BlocksOf(d, Whole(d))) \o Tailing(d) = FlattenSeq(done) \o d
<1> DEFINE b == BlocksOf(d, Whole(d))
           r == Tailing(d)
<1>1. b \in Seq(Blocks) /\ r \in Seq(Nat) /\ FlattenSeq(b) \o r = d
  BY CutRest
<1> HIDE DEF b, r
<1>2. /\ done \in Seq(Seq(Nat)) /\ FlattenSeq(done) \in Seq(Nat)
      /\ b \in Seq(Seq(Nat)) /\ FlattenSeq(b) \in Seq(Nat)
  BY <1>1, BlocksLen
<1>3. FlattenSeq(done \o b) = FlattenSeq(done) \o FlattenSeq(b)
  BY <1>2, FlattenCat
<1>4. (FlattenSeq(done) \o FlattenSeq(b)) \o r = FlattenSeq(done) \o (FlattenSeq(b) \o r)
  <2>1. r \in Seq(Nat) /\ FlattenSeq(done) \in Seq(Nat) /\ FlattenSeq(b) \in Seq(Nat)
    BY <1>1, <1>2
  <2> QED  BY ONLY <2>1, ConcatAssociative, SMTT(40)
<1>5. done \o b \in Seq(Blocks)
  BY <1>1, ConcatProperties
<1> QED  BY <1>1, <1>3, <1>4, <1>5 DEF b, r

LEMMA Sha256Is ==
  ASSUME NEW s \in HashState, NEW b \in Seq(Nat), NEW fill \in Nat,
         fill = IF Len(s.block) > 0 /\ Len(s.block) + Len(b) >= BlockLen
                THEN BlockLen - Len(s.block) ELSE 0,
         NEW d, d = SubSeq(b, fill + 1, Len(b))
  PROVE  sha256_update[s][b] =
           [totlen |-> s.totlen + Len(b),
            done |-> s.done \o (IF fill > 0 THEN <<s.block \o SubSeq(b, 1, fill)>> ELSE << >>)
                       \o BlocksOf(d, Whole(d)),
            block |-> (IF fill > 0 THEN << >> ELSE s.block) \o Tailing(d)]
BY DEF sha256_update, Whole, Tailing

LEMMA Feed256 ==
  ASSUME NEW h, NEW m, NEW n \in Nat, Fed(h, m, n), NEW b \in Seq(Nat)
  PROVE  Fed(sha256_update[h][b], m \o b, n)
<1>1. /\ h \in HashState /\ h.done \in Seq(Blocks) /\ h.done \in Seq(Seq(Nat))
      /\ h.block \in Seq(Nat) /\ Len(h.block) \in Nat /\ Len(h.block) < BlockLen
      /\ FlattenSeq(h.done) \in Seq(Nat) /\ m \in Seq(Nat) /\ Len(m) \in Nat
      /\ m = FlattenSeq(h.done) \o h.block /\ h.totlen = n + Len(m)
  BY FedParts
<1> DEFINE p == FlattenSeq(h.done)
           blk == h.block
           l == Len(h.block)
           t == h.totlen + Len(b)
<1>2. /\ p \in Seq(Nat) /\ blk \in Seq(Nat) /\ l \in Nat /\ l < BlockLen /\ l = Len(blk)
      /\ m = p \o blk /\ Len(b) \in Nat /\ BlockLen \in Nat
      /\ m \o b \in Seq(Nat) /\ Len(m \o b) = Len(m) + Len(b) /\ t = n + Len(m \o b)
  <2>1. m \in Seq(Nat) /\ b \in Seq(Nat)
    BY <1>1
  <2>2. m \o b \in Seq(Nat) /\ Len(m \o b) = Len(m) + Len(b)
    BY ONLY <2>1, ConcatProperties
  <2>3. Len(b) \in Nat /\ BlockLen \in Nat
    BY LenProperties, Times
  <2>4. t = n + Len(m \o b)
    <3>1. h.totlen = n + Len(m) /\ Len(m) \in Nat /\ n \in Nat
      BY <1>1
    <3> QED  BY <2>2, <2>3, <3>1
  <2>5. /\ p \in Seq(Nat) /\ blk \in Seq(Nat) /\ l \in Nat /\ l < BlockLen /\ l = Len(blk)
        /\ m = p \o blk
    BY <1>1
  <2> HIDE DEF p, blk, l, t
  <2> QED  BY <2>2, <2>3, <2>4, <2>5, Zenon
<1>3. m \o b = p \o (blk \o b)
  <2> HIDE DEF p, blk
  <2>0. p \in Seq(Nat) /\ blk \in Seq(Nat) /\ b \in Seq(Nat)
    BY <1>2
  <2>1. (p \o blk) \o b = p \o (blk \o b)
    BY ONLY <2>0, Associates, ZenonT(60)
  <2> QED  BY <1>2, <2>1
<1>4. CASE l > 0 /\ l + Len(b) >= BlockLen
  <2> DEFINE k == BlockLen - l
             b1 == SubSeq(b, 1, k)
             d == SubSeq(b, k + 1, Len(b))
             first == blk \o b1
             done == h.done \o <<first>>
  <2>1. k \in Nat /\ k > 0 /\ k <= Len(b)
    BY <1>2, <1>4
  <2>2. sha256_update[h][b] =
          [totlen |-> t, done |-> done \o BlocksOf(d, Whole(d)), block |-> << >> \o Tailing(d)]
    BY <1>1, <1>4, <2>1, Sha256Is, ZenonT(45)
  <2> HIDE DEF k
  <2>3. /\ b1 \in Seq(Nat) /\ Len(b1) = k /\ d \in Seq(Nat) /\ b = b1 \o d
    <3>1. \A i \in 1 .. Len(b) : b[i] \in Nat
      BY ElementOfSeq
    <3>2. b1 \in Seq(Nat) /\ Len(b1) = k
      BY <2>1, <3>1, <1>2, SubSeqProperties
    <3>3. d \in Seq(Nat)
      BY <2>1, <3>1, <1>2, SubSeqProperties
    <3>4. b1 \o d = SubSeq(b, 1, Len(b))
      <4>1. 1 \in 1 .. Len(b) + 1 /\ k \in 1 - 1 .. Len(b) /\ Len(b) \in k .. Len(b)
        BY <1>2, <2>1
      <4> QED  BY <4>1, ConcatAdjacentSubSeq
    <3> QED  BY <3>2, <3>3, <3>4, SubSeqFull
  <2> HIDE DEF b1, d
  <2>4. first \in Blocks
    <3>1. first \in Seq(Nat) /\ Len(first) = l + k
      BY <1>2, <2>3, ConcatProperties, ZenonT(45)
    <3> QED  BY <1>2, <3>1 DEF Blocks, k
  <2>5. done \in Seq(Blocks) /\ FlattenSeq(done) = p \o first
    <3>1. done = Append(h.done, first) /\ done \in Seq(Blocks)
      BY <1>1, <2>4, AppendProperties, AppendIsConcat, SMTT(40)
    <3>2. first \in Seq(Nat)
      BY <2>4 DEF Blocks
    <3> QED  BY <1>1, <3>1, <3>2, FlattenAppend
  <2>6. (p \o first) \o d = m \o b
    <3> HIDE DEF p, blk
    <3>0. p \in Seq(Nat) /\ blk \in Seq(Nat) /\ b1 \in Seq(Nat) /\ d \in Seq(Nat)
      BY <1>2, <2>3
    <3>1. (blk \o b1) \o d = blk \o (b1 \o d)
      BY ONLY <3>0, Associates, ZenonT(60)
    <3>a. first = blk \o b1
      OBVIOUS
    <3> HIDE DEF first
    <3>2. first \in Seq(Nat)
      BY <2>4 DEF Blocks
    <3>3. (p \o first) \o d = p \o (first \o d)
      BY ONLY <3>0, <3>2, Associates, ZenonT(60)
    <3> QED  BY <1>3, <2>3, <3>1, <3>a, <3>3
  <2> HIDE DEF done, first
  <2>7. /\ done \o BlocksOf(d, Whole(d)) \in Seq(Blocks)
        /\ FlattenSeq(done \o BlocksOf(d, Whole(d))) \o Tailing(d) = m \o b
    BY <2>3, <2>5, <2>6, FedMore
  <2>8. << >> \o Tailing(d) = Tailing(d) /\ Tailing(d) \in Seq(Nat) /\ Len(Tailing(d)) < BlockLen
    BY <2>3, CutRest, ConcatEmptySeq
  <2> HIDE DEF t
  <2> QED  BY <1>2, <2>2, <2>7, <2>8, FedFrom
<1>5. CASE ~(l > 0 /\ l + Len(b) >= BlockLen)
  <2>1. SubSeq(b, 0 + 1, Len(b)) = b
    BY SubSeqFull
  <2>2. sha256_update[h][b] =
          [totlen |-> t, done |-> h.done \o << >> \o BlocksOf(b, Whole(b)),
           block |-> blk \o Tailing(b)]
    <3>1. 0 = IF Len(h.block) > 0 /\ Len(h.block) + Len(b) >= BlockLen
              THEN BlockLen - Len(h.block) ELSE 0
      BY <1>5
    <3>2. b = SubSeq(b, 0 + 1, Len(b)) /\ 0 \in Nat /\ ~(0 > 0)
      BY <2>1
    <3>3. sha256_update[h][b] =
            [totlen |-> h.totlen + Len(b),
             done |-> h.done \o (IF 0 > 0 THEN <<h.block \o SubSeq(b, 1, 0)>> ELSE << >>)
                        \o BlocksOf(b, Whole(b)),
             block |-> (IF 0 > 0 THEN << >> ELSE h.block) \o Tailing(b)]
      <4>1. h \in HashState /\ b \in Seq(Nat)
        BY <1>1
      <4> QED  BY ONLY <4>1, <3>1, <3>2, Sha256Is
    <3> QED  BY <3>2, <3>3, Zenon
  <2>3. h.done \o << >> = h.done
    BY <1>1, ConcatEmptySeq
  <2>4. CASE l = 0
    <3>1. blk = << >> /\ blk \o Tailing(b) = Tailing(b)
      BY <1>2, <2>4, CutRest, EmptySeq, ConcatEmptySeq
    <3>2. m = p
      BY <1>1, <3>1, ConcatEmptySeq
    <3>3. /\ h.done \o BlocksOf(b, Whole(b)) \in Seq(Blocks)
          /\ FlattenSeq(h.done \o BlocksOf(b, Whole(b))) \o Tailing(b) = m \o b
      BY <1>1, <3>2, FedMore
    <3>4. Tailing(b) \in Seq(Nat) /\ Len(Tailing(b)) < BlockLen
      BY CutRest
    <3> HIDE DEF t
    <3> QED  BY <1>2, <2>2, <2>3, <3>1, <3>3, <3>4, FedFrom
  <2>5. CASE l > 0
    <3>1. Len(b) < BlockLen /\ l + Len(b) < BlockLen
      BY <1>2, <1>5, <2>5
    <3>2. BlocksOf(b, Whole(b)) = << >> /\ Tailing(b) = b
      BY <3>1, CutRest
    <3>3. blk \o b \in Seq(Nat) /\ Len(blk \o b) = l + Len(b)
      BY <1>2, ConcatProperties
    <3>4. FlattenSeq(h.done) \o (blk \o b) = m \o b
      BY <1>3
    <3>5. sha256_update[h][b] = [totlen |-> t, done |-> h.done, block |-> blk \o b]
      BY <2>2, <2>3, <3>2
    <3> HIDE DEF t, blk
    <3> QED  BY <1>1, <1>2, <3>1, <3>3, <3>4, <3>5, FedFrom
  <2> QED  BY <1>2, <2>4, <2>5
<1> QED  BY <1>4, <1>5

LEMMA Sha1Is ==
  ASSUME NEW s \in HashState, NEW b \in Seq(Nat), NEW all, all = s.block \o b
  PROVE  sha1_update[s][b] =
           IF s.block # << >> /\ Len(all) < BlockLen
           THEN [s EXCEPT !.totlen = @ + Len(b), !.block = all]
           ELSE [totlen |-> s.totlen + Len(b),
                 done |-> s.done \o BlocksOf(all, Whole(all)), block |-> Tailing(all)]
BY DEF sha1_update, Whole, Tailing

LEMMA Replaced ==
  ASSUME NEW s \in HashState, NEW t, NEW b
  PROVE  [s EXCEPT !.totlen = t, !.block = b] = [totlen |-> t, done |-> s.done, block |-> b]
<1> DEFINE r == [s EXCEPT !.totlen = t]
           q == [r EXCEPT !.block = b]
<1>1. s = [f \in {"totlen", "done", "block"} |-> s[f]]
  BY DEF HashState
<1>2. r = [f \in {"totlen", "done", "block"} |-> r[f]] /\ r.totlen = t /\ r.done = s.done
  BY <1>1
<1> HIDE DEF r
<1>3. /\ q = [f \in {"totlen", "done", "block"} |-> q[f]]
      /\ q.totlen = t /\ q.done = s.done /\ q.block = b
  BY <1>2
<1> HIDE DEF q
<1>4. q = [totlen |-> t, done |-> s.done, block |-> b]
  BY <1>3
<1> QED  BY <1>4 DEF q, r

LEMMA Feed1 ==
  ASSUME NEW h, NEW m, NEW n \in Nat, Fed(h, m, n), NEW b \in Seq(Nat)
  PROVE  Fed(sha1_update[h][b], m \o b, n)
<1>1. /\ h \in HashState /\ h.done \in Seq(Blocks) /\ h.block \in Seq(Nat)
      /\ FlattenSeq(h.done) \in Seq(Nat) /\ m \in Seq(Nat) /\ Len(m) \in Nat
      /\ m = FlattenSeq(h.done) \o h.block /\ h.totlen = n + Len(m)
  BY FedParts
<1> DEFINE p == FlattenSeq(h.done)
           blk == h.block
           t == h.totlen + Len(b)
           all == blk \o b
<1>2. /\ m \o b \in Seq(Nat) /\ Len(m \o b) = Len(m) + Len(b) /\ t = n + Len(m \o b)
      /\ all \in Seq(Nat) /\ t \in Nat
  <2>1. m \in Seq(Nat) /\ b \in Seq(Nat) /\ blk \in Seq(Nat)
    BY <1>1
  <2> HIDE DEF blk
  <2>2. m \o b \in Seq(Nat) /\ Len(m \o b) = Len(m) + Len(b) /\ blk \o b \in Seq(Nat)
    BY ONLY <2>1, ConcatProperties
  <2>3. h.totlen = n + Len(m) /\ Len(m) \in Nat /\ n \in Nat /\ Len(b) \in Nat
    BY <1>1, LenProperties
  <2> QED  BY <2>2, <2>3
<1>3. m \o b = p \o all
  <2>0. p \in Seq(Nat) /\ blk \in Seq(Nat) /\ b \in Seq(Nat) /\ m = p \o blk
    BY <1>1
  <2> HIDE DEF p, blk
  <2>a. p \in Seq(Nat) /\ blk \in Seq(Nat) /\ b \in Seq(Nat)
    BY <2>0
  <2>1. (p \o blk) \o b = p \o (blk \o b)
    BY ONLY <2>a, Associates, ZenonT(60)
  <2> QED  BY <2>0, <2>1
<1> HIDE DEF all
<1>4. CASE blk # << >> /\ Len(all) < BlockLen
  <2>1. sha1_update[h][b] = [h EXCEPT !.totlen = @ + Len(b), !.block = all]
    BY <1>1, <1>4, Sha1Is DEF all
  <2>3. [h EXCEPT !.totlen = @ + Len(b), !.block = all]
          = [totlen |-> t, done |-> h.done, block |-> all]
    BY <1>1, Replaced
  <2> HIDE DEF t, blk
  <2>4. FlattenSeq(h.done) \o all = m \o b
    BY <1>3, Zenon
  <2>5. all \in Seq(Nat) /\ m \o b \in Seq(Nat) /\ h.done \in Seq(Blocks) /\ Len(all) < BlockLen
        /\ t = n + Len(m \o b) /\ n \in Nat
    BY <1>1, <1>2, <1>4
  <2>6. Fed([totlen |-> t, done |-> h.done, block |-> all], m \o b, n)
    BY ONLY <2>4, <2>5, FedFrom
  <2> QED  BY <2>1, <2>3, <2>6
<1>5. CASE ~(blk # << >> /\ Len(all) < BlockLen)
  <2>1. sha1_update[h][b] = [totlen |-> t, done |-> h.done \o BlocksOf(all, Whole(all)),
                             block |-> Tailing(all)]
    BY <1>1, <1>5, Sha1Is DEF all
  <2>2. /\ h.done \o BlocksOf(all, Whole(all)) \in Seq(Blocks)
        /\ FlattenSeq(h.done \o BlocksOf(all, Whole(all))) \o Tailing(all) = m \o b
    BY <1>1, <1>2, <1>3, FedMore
  <2>3. Tailing(all) \in Seq(Nat) /\ Len(Tailing(all)) < BlockLen
    BY <1>2, CutRest
  <2> HIDE DEF t
  <2> QED  BY <1>2, <2>1, <2>2, <2>3, FedFrom
<1> QED  BY <1>4, <1>5

----------------------------------------------------------------------------
(***************************************************************************)
(* What the two final functions return.                                    *)
(***************************************************************************)
LEMMA Complete ==
  ASSUME NEW h, NEW m, NEW n \in Nat, Fed(h, m, n), NEW k \in Nat, Len(m) = k * BlockLen
  PROVE  h.done = BlocksOf(m, Len(m) \div BlockLen) /\ FlattenSeq(h.done) = m
<1>1. /\ h.done \in Seq(Blocks) /\ h.block \in Seq(Nat) /\ Len(h.block) \in Nat
      /\ Len(h.block) < BlockLen /\ FlattenSeq(h.done) \in Seq(Nat)
      /\ m \in Seq(Nat) /\ m = FlattenSeq(h.done) \o h.block
      /\ Len(m) = Len(h.done) * BlockLen + Len(h.block) /\ Len(h.done) \in Nat
  BY FedParts
<1>2. BlockLen \in Nat /\ BlockLen > 1
  BY Times
<1>3. Len(h.done) = k /\ Len(h.block) = 0
  <2>1. Len(h.done) * BlockLen + Len(h.block) = k * BlockLen + 0
    <3>1. k * BlockLen \in Nat
      BY Times
    <3>2. Len(h.done) * BlockLen + Len(h.block) = k * BlockLen
      BY <1>1
    <3> QED  BY <3>1, <3>2
  <2>2. Len(h.block) \in 0 .. BlockLen - 1 /\ 0 \in 0 .. BlockLen - 1
    BY <1>1, <1>2
  <2> QED  BY <1>1, <2>1, <2>2, Remainder
<1>4. h.block = << >>
  BY <1>1, <1>3, EmptySeq
<1>5. FlattenSeq(h.done) \o << >> = m
  BY <1>1, <1>4, Zenon
<1>6. FlattenSeq(h.done) = m
  BY <1>1, <1>5, ConcatEmptySeq
<1>7. BlocksOf(FlattenSeq(h.done) \o << >>, Len(h.done)) = h.done
  BY <1>1, EmptySeq, BlocksBack
<1>8. Len(m) \div BlockLen = k
  <2>1. Len(m) \in Nat /\ 0 \in 0 .. BlockLen - 1
    BY <1>1, <1>2, LenProperties
  <2>2. /\ Len(m) \div BlockLen \in Nat /\ Len(m) % BlockLen \in 0 .. BlockLen - 1
        /\ Len(m) = (Len(m) \div BlockLen) * BlockLen + (Len(m) % BlockLen)
    BY <2>1, Division
  <2> DEFINE q == Len(m) \div BlockLen
             r == Len(m) % BlockLen
  <2> HIDE DEF q, r
  <2>3. q * BlockLen + r = k * BlockLen + 0
    BY <2>2, Times DEF q, r
  <2>4. q \in Nat /\ r \in 0 .. BlockLen - 1
    BY <2>2 DEF q, r
  <2>5. q = k
    BY <2>1, <2>3, <2>4, Remainder
  <2> QED  BY <2>5 DEF q
<1> QED  BY <1>3, <1>5, <1>6, <1>7, <1>8

LEMMA ZerosType ==
  ASSUME NEW n \in Nat PROVE Zeros(n) \in Seq(Nat) /\ Len(Zeros(n)) = n
BY DEF Zeros

\* The zeros of the padding, and that they complete a block.
LEMMA Padding ==
  ASSUME NEW b \in 0 .. BlockLen - 1
  PROVE  /\ (2 * BlockLen - 2 - b) % BlockLen = IF b = BlockLen - 1 THEN BlockLen - 1
                                                ELSE BlockLen - 2 - b
         /\ (2 * BlockLen - 2 - b) % BlockLen \in Nat
<1>1. BlockLen \in Nat /\ BlockLen > 1 /\ b \in Nat /\ b <= BlockLen - 1
  BY Times
<1>2. ASSUME NEW r \in 0 .. BlockLen - 1 PROVE r % BlockLen = r /\ (BlockLen + r) % BlockLen = r
  <2>1. r % BlockLen = r
    BY <1>1
  <2>2. (BlockLen + r) % BlockLen = r
    BY <1>1
  <2> QED  BY <2>1, <2>2
<1>3. CASE b = BlockLen - 1
  <2>1. 2 * BlockLen - 2 - b = BlockLen - 1 /\ BlockLen - 1 \in 0 .. BlockLen - 1
    BY <1>1, <1>3
  <2>2. (BlockLen - 1) % BlockLen = BlockLen - 1
    BY <1>2, <2>1
  <2> QED  BY <1>1, <1>3, <2>1, <2>2
<1>4. CASE b # BlockLen - 1
  <2>1. /\ 2 * BlockLen - 2 - b = BlockLen + (BlockLen - 2 - b)
        /\ BlockLen - 2 - b \in 0 .. BlockLen - 1
    BY <1>1, <1>4
  <2>2. (BlockLen + (BlockLen - 2 - b)) % BlockLen = BlockLen - 2 - b
    BY <1>2, <2>1
  <2> QED  BY <1>1, <1>4, <2>1, <2>2
<1> QED  BY <1>3, <1>4

\* Where the parts of a padded message are.
PaddedAs(p, m, l, z) ==
  p \in Seq(Nat) /\ Len(p) = Len(m) + 2 + z /\ p[Len(p)] = l /\ SubSeq(p, 1, Len(m)) = m

LEMMA PaddedParts ==
  ASSUME NEW m \in Seq(Nat), NEW l \in Nat, NEW z \in Nat, NEW mark, NEW end, NEW zs,
         mark \in Seq(Nat), Len(mark) = 1, zs \in Seq(Nat), Len(zs) = z, end = <<l>>
  PROVE  PaddedAs(((m \o mark) \o zs) \o end, m, l, z)
<1> DEFINE u == mark \o (zs \o end)
           p == ((m \o mark) \o zs) \o end
<1>1. end \in Seq(Nat) /\ Len(end) = 1 /\ end[1] = l /\ Len(m) \in Nat
  BY LenProperties
<1>2. /\ zs \o end \in Seq(Nat) /\ Len(zs \o end) = z + 1 /\ m \o mark \in Seq(Nat)
      /\ (zs \o end)[z + 1] = l
  <2>1. zs \in Seq(Nat) /\ end \in Seq(Nat) /\ m \in Seq(Nat) /\ mark \in Seq(Nat)
    BY <1>1
  <2>2. /\ zs \o end \in Seq(Nat) /\ Len(zs \o end) = Len(zs) + Len(end)
        /\ \A i \in 1 .. Len(zs) + Len(end) :
             (zs \o end)[i] = IF i <= Len(zs) THEN zs[i] ELSE end[i - Len(zs)]
    BY ONLY <2>1, ConcatProperties
  <2>3. m \o mark \in Seq(Nat)
    BY ONLY <2>1, ConcatProperties
  <2>4. z + 1 \in 1 .. Len(zs) + Len(end) /\ ~(z + 1 <= Len(zs)) /\ (z + 1) - Len(zs) = 1
    BY <1>1
  <2>5. (zs \o end)[z + 1] = end[1]
    BY <2>2, <2>4
  <2> QED  BY <1>1, <2>2, <2>3, <2>5
<1> DEFINE v == zs \o end
<1>3. v \in Seq(Nat) /\ Len(v) = z + 1 /\ v[z + 1] = l
  BY <1>2
<1>4. p = m \o (mark \o v)
  <2>0. mark \in Seq(Nat) /\ m \in Seq(Nat) /\ zs \in Seq(Nat) /\ end \in Seq(Nat)
    BY <1>1
  <2>1. ((m \o mark) \o zs) \o end = (m \o mark) \o (zs \o end)
    BY ONLY <2>0, <1>2, Associates, ZenonT(45)
  <2> HIDE DEF v
  <2>2. (m \o mark) \o v = m \o (mark \o v)
    BY ONLY <2>0, <1>3, Associates, ZenonT(45)
  <2> QED  BY <2>1, <2>2 DEF v
<1> HIDE DEF v
<1> HIDE DEF p
<1>5. /\ Len(p) = Len(m) + Len(mark) + Len(v) /\ p \in Seq(Nat)
  <2>0. m \in Seq(Nat) /\ mark \in Seq(Nat) /\ v \in Seq(Nat)
    BY <1>3
  <2>1. /\ Len(m \o (mark \o v)) = Len(m) + Len(mark) + Len(v)
        /\ m \o (mark \o v) \in Seq(Nat)
    BY ONLY <2>0, MiddleOf
  <2> QED  BY <1>4, <2>1
<1>6. SubSeq(p, 1, Len(m)) = m
  <2>0. m \in Seq(Nat) /\ mark \o v \in Seq(Nat) /\ << >> \in Seq(Nat)
    BY <1>3, ConcatProperties, EmptySeq
  <2> DEFINE w == mark \o v
  <2>1. w \in Seq(Nat) /\ m \o w \in Seq(Nat) /\ << >> \o (m \o w) = m \o w
    BY <2>0, ConcatProperties, ConcatEmptySeq
  <2> HIDE DEF w
  <2>2. SubSeq(<< >> \o (m \o w), Len(<< >>) + 1, Len(<< >>) + Len(m)) = m
    BY ONLY <2>0, <2>1, MiddleOf
  <2>3. Len(<< >>) + 1 = 1 /\ Len(<< >>) + Len(m) = Len(m)
    BY <1>1
  <2>4. SubSeq(m \o w, 1, Len(m)) = m
    BY <2>1, <2>2, <2>3
  <2> QED  BY <1>4, <2>4 DEF w
<1>7. p[Len(p)] = l
  <2>1. Len(p) = Len(m) + (z + 2)
    BY <1>1, <1>3, <1>5
  <2>2. /\ mark \o v \in Seq(Nat) /\ Len(mark \o v) = Len(mark) + Len(v)
        /\ \A i \in 1 .. Len(mark) + Len(v) :
             (mark \o v)[i] = IF i <= Len(mark) THEN mark[i] ELSE v[i - Len(mark)]
    BY <1>3, ConcatProperties, ZenonT(45)
  <2> DEFINE w == mark \o v
  <2>3. z + 2 \in 1 .. Len(mark) + Len(v) /\ ~(z + 2 <= Len(mark)) /\ (z + 2) - Len(mark) = z + 1
    BY <1>3
  <2>4. w[z + 2] = v[z + 1]
    BY <2>2, <2>3
  <2>5. w \in Seq(Nat) /\ Len(w) = z + 2
    BY <1>3, <2>2
  <2> HIDE DEF w
  <2>6. \A i \in 1 .. Len(m) + Len(w) : (m \o w)[i] = IF i <= Len(m) THEN m[i] ELSE w[i - Len(m)]
    BY <2>5, ConcatProperties
  <2>7. /\ Len(p) \in 1 .. Len(m) + Len(w) /\ ~(Len(p) <= Len(m)) /\ Len(p) - Len(m) = z + 2
    BY <1>1, <2>1, <2>5
  <2>8. (m \o w)[Len(p)] = w[z + 2]
    BY <2>6, <2>7
  <2>9. (m \o w)[Len(p)] = l
    BY <1>3, <2>4, <2>8, Zenon
  <2> QED  BY <1>4, <2>9, Zenon DEF w
<1>8. Len(p) = Len(m) + 2 + z
  BY <1>1, <1>3, <1>5
<1>9. PaddedAs(p, m, l, z)
  BY <1>5, <1>6, <1>7, <1>8 DEF PaddedAs
<1> QED  BY <1>9 DEF p

LEMMA PaddedIs ==
  ASSUME NEW m \in Seq(Nat), NEW l \in Nat
  PROVE  /\ PaddedMessage(m, l) \in Seq(Nat)
         /\ \E k \in Nat : Len(PaddedMessage(m, l)) = k * BlockLen
         /\ PaddedMessage(m, l)[Len(PaddedMessage(m, l))] = l
         /\ SubSeq(PaddedMessage(m, l), 1, Len(m)) = m
<1> DEFINE b == Len(m) % BlockLen
           q == Len(m) \div BlockLen
           z == (2 * BlockLen - 2 - b) % BlockLen
           p == PaddedMessage(m, l)
<1>1. /\ Len(m) \in Nat /\ q \in Nat /\ b \in 0 .. BlockLen - 1
      /\ Len(m) = q * BlockLen + b
  BY LenProperties, Division
<1>2. p = ((m \o <<128>>) \o Zeros(z)) \o <<l>>
  BY DEF PaddedMessage
<1> HIDE DEF b, q
<1>3. z \in Nat /\ z = IF b = BlockLen - 1 THEN BlockLen - 1 ELSE BlockLen - 2 - b
  BY <1>1, Padding
<1> HIDE DEF z, p
<1>4. /\ p \in Seq(Nat) /\ Len(p) = Len(m) + 2 + z
      /\ p[Len(p)] = l /\ SubSeq(p, 1, Len(m)) = m
  <2>1. <<128>> \in Seq(Nat) /\ Len(<<128>>) = 1
    OBVIOUS
  <2>2. Zeros(z) \in Seq(Nat) /\ Len(Zeros(z)) = z
    BY <1>3, ZerosType
  <2> DEFINE zs == Zeros(z)
             mark == <<128>>
             end == <<l>>
  <2>3. /\ m \in Seq(Nat) /\ l \in Nat /\ z \in Nat /\ mark \in Seq(Nat) /\ Len(mark) = 1
        /\ zs \in Seq(Nat) /\ Len(zs) = z /\ end = <<l>>
    BY <1>3, <2>1, <2>2
  <2>a. p = ((m \o mark) \o zs) \o end
    BY <1>2
  <2> HIDE DEF zs, mark, end
  <2>4. PaddedAs(((m \o mark) \o zs) \o end, m, l, z)
    BY ONLY <2>3, PaddedParts
  <2>5. PaddedAs(p, m, l, z)
    BY <2>a, <2>4
  <2> QED  BY <2>5 DEF PaddedAs
<1>5. \E k \in Nat : Len(p) = k * BlockLen
  <2>0. BlockLen \in Nat /\ BlockLen > 1 /\ q * BlockLen \in Nat
    BY <1>1, Times
  <2>1. (q + 1) * BlockLen = q * BlockLen + BlockLen
    BY <1>1, Times
  <2>2. ((q + 1) + 1) * BlockLen = (q + 1) * BlockLen + BlockLen
    <3>1. q + 1 \in Nat
      BY <1>1
    <3> QED  BY <3>1, Times
  <2> DEFINE qb == q * BlockLen
             qc == (q + 1) * BlockLen
             qd == ((q + 1) + 1) * BlockLen
  <2>5. /\ qb \in Nat /\ qc = qb + BlockLen /\ qd = qc + BlockLen /\ Len(m) = qb + b
        /\ b \in 0 .. BlockLen - 1 /\ Len(p) = Len(m) + 2 + z
    BY <1>1, <1>4, <2>0, <2>1, <2>2
  <2> HIDE DEF qb, qc, qd
  <2>3. CASE b = BlockLen - 1
    <3>1. Len(p) = qd
      BY <1>3, <2>0, <2>3, <2>5
    <3> QED  BY <1>1, <3>1 DEF qd
  <2>4. CASE b # BlockLen - 1
    <3>1. Len(p) = qc
      BY <1>3, <2>0, <2>4, <2>5
    <3> QED  BY <1>1, <3>1 DEF qc
  <2> QED  BY <2>3, <2>4
<1> QED  BY <1>4, <1>5 DEF p

\* The bytes of a message can be found in its digest.
LEMMA PaddedBack ==
  ASSUME NEW m \in Seq(Nat), NEW l \in Nat
  PROVE  FlattenSeq(Digest(m, l)) = PaddedMessage(m, l)
<1> DEFINE p == PaddedMessage(m, l)
<1>1. p \in Seq(Nat) /\ \E k \in Nat : Len(p) = k * BlockLen
  BY PaddedIs
<1>2. PICK k \in Nat : Len(p) = k * BlockLen
  BY <1>1
<1>3. Digest(m, l) = BlocksOf(p, Len(p) \div BlockLen)
  BY DEF Digest
<1> HIDE DEF p
<1>4. Len(p) \div BlockLen = k
  <2>1. Len(p) \in Nat /\ 0 \in 0 .. BlockLen - 1
    BY <1>1, Times, LenProperties
  <2>2. /\ Len(p) \div BlockLen \in Nat /\ Len(p) % BlockLen \in 0 .. BlockLen - 1
        /\ Len(p) = (Len(p) \div BlockLen) * BlockLen + (Len(p) % BlockLen)
    BY <2>1, Division
  <2> DEFINE q == Len(p) \div BlockLen
             r == Len(p) % BlockLen
  <2>4. q \in Nat /\ r \in 0 .. BlockLen - 1 /\ Len(p) = q * BlockLen + r
    BY <2>2
  <2> HIDE DEF q, r
  <2>3. q * BlockLen + r = k * BlockLen + 0
    <3>1. k * BlockLen \in Nat
      BY Times
    <3> QED  BY <1>2, <2>4, <3>1
  <2>5. q = k
    BY <2>1, <2>3, <2>4, Remainder
  <2> QED  BY <2>5 DEF q
<1>5. FlattenSeq(BlocksOf(p, k)) = SubSeq(p, 1, k * BlockLen)
  <2>1. k * BlockLen <= Len(p)
    BY <1>1, <1>2, LenProperties
  <2> QED  BY <1>1, <2>1, BlocksJoined
<1>6. SubSeq(p, 1, Len(p)) = p
  BY <1>1, SubSeqFull
<1>7. SubSeq(p, 1, k * BlockLen) = p
  BY <1>2, <1>6, Zenon
<1>8. Digest(m, l) = BlocksOf(p, k)
  BY <1>3, <1>4
<1>9. FlattenSeq(Digest(m, l)) = p
  BY <1>5, <1>7, <1>8
<1> QED  BY <1>9 DEF p

\* Two messages with the same hash are the same message: the collision-free hash
\* that the handshake transcripts of lib/vtls.c rest on (sha256.c:76-130).
THEOREM ShaInjective ==
  ASSUME NEW m \in Seq(Nat), NEW n \in Seq(Nat), Sha(m) = Sha(n)
  PROVE  m = n
<1> DEFINE p == PaddedMessage(m, Len(m))
           q == PaddedMessage(n, Len(n))
<1>0. Len(m) \in Nat /\ Len(n) \in Nat
  BY LenProperties
<1>1. FlattenSeq(Sha(m)) = p /\ FlattenSeq(Sha(n)) = q
  BY <1>0, PaddedBack DEF Sha
<1>2. /\ p[Len(p)] = Len(m) /\ SubSeq(p, 1, Len(m)) = m
      /\ q[Len(q)] = Len(n) /\ SubSeq(q, 1, Len(n)) = n
  BY <1>0, PaddedIs, SMTT(40)
<1> HIDE DEF p, q
<1>3. p = q
  BY <1>1, SMTT(40)
<1>4. Len(m) = Len(n)
  BY <1>2, <1>3
<1> QED  BY <1>2, <1>3, <1>4

\* A state that was fed a padded message holds its digest.
LEMMA FedPadded ==
  ASSUME NEW h, NEW m \in Seq(Nat), NEW l \in Nat, NEW n \in Nat, Fed(h, PaddedMessage(m, l), n)
  PROVE  h.done = Digest(m, l)
<1> DEFINE p == PaddedMessage(m, l)
<1>1. PICK k \in Nat : Len(p) = k * BlockLen
  BY PaddedIs
<1>2. Digest(m, l) = BlocksOf(p, Len(p) \div BlockLen)
  BY DEF Digest
<1>3. Fed(h, p, n)
  OBVIOUS
<1> HIDE DEF p
<1>4. h.done = BlocksOf(p, Len(p) \div BlockLen)
  BY ONLY <1>1, <1>3, n \in Nat, Complete
<1> QED  BY <1>2, <1>4

\* The bytes of a started block, from those fed.
LEMMA FedBlock ==
  ASSUME NEW h, NEW m, NEW n \in Nat, Fed(h, m, n)
  PROVE  Len(h.block) = Len(m) % BlockLen
<1>1. /\ Len(h.block) \in Nat /\ Len(h.block) < BlockLen /\ m \in Seq(Nat) /\ Len(m) \in Nat
      /\ Len(m) = Len(h.done) * BlockLen + Len(h.block) /\ Len(h.done) \in Nat
  BY FedParts
<1> DEFINE q == Len(m) \div BlockLen
           r == Len(m) % BlockLen
           d == Len(h.done)
           b == Len(h.block)
<1>2. q \in Nat /\ r \in 0 .. BlockLen - 1 /\ Len(m) = q * BlockLen + r
  BY <1>1, Division
<1>3. BlockLen \in Nat
  BY Times
<1> HIDE DEF q, r
<1>4. d \in Nat /\ b \in 0 .. BlockLen - 1 /\ Len(m) = d * BlockLen + b
  BY <1>1, <1>3
<1> HIDE DEF d, b
<1>5. r = b
  <2>1. d * BlockLen + b = q * BlockLen + r
    BY <1>2, <1>4
  <2> QED  BY <1>2, <1>4, <2>1, Remainder
<1> QED  BY <1>5 DEF r, b

\* sha256_final (sha256.c:103-130) is the padded message cut into blocks, whatever
\* the pieces it was fed in: the three updates that append the mark, the zeros and
\* the length fill the last block exactly.
THEOREM Sha256Final ==
  ASSUME NEW h, NEW m, NEW n \in Nat, Fed(h, m, n)
  PROVE  sha256_final(h) = Digest(m, n + Len(m))
<1>1. /\ h \in HashState /\ m \in Seq(Nat) /\ Len(m) \in Nat /\ h.totlen = n + Len(m)
  BY FedParts
<1> DEFINE mark == <<128>>
           marked == sha256_update[h][mark]
           zeros == (2 * BlockLen - 1 - Len(marked.block)) % BlockLen
           b == Len(m) % BlockLen
           z == (2 * BlockLen - 2 - b) % BlockLen
           zs == Zeros(z)
           l == n + Len(m)
           end == <<l>>
<1>2. mark \in Seq(Nat) /\ Len(mark) = 1
  OBVIOUS
<1>3. b \in 0 .. BlockLen - 1 /\ BlockLen \in Nat /\ BlockLen > 1
  BY <1>1, Division, Times
<1>4. z \in Nat /\ z = IF b = BlockLen - 1 THEN BlockLen - 1 ELSE BlockLen - 2 - b
  BY <1>3, Padding
<1>5. sha256_final(h) = sha256_update[sha256_update[marked][Zeros(zeros)]][end].done
  BY <1>1 DEF sha256_final, LengthByte
<1>6. PaddedMessage(m, l) = ((m \o mark) \o zs) \o end
  BY DEF PaddedMessage
<1> HIDE DEF marked, mark
<1>7. Fed(marked, m \o mark, n)
  BY <1>2, Feed256 DEF marked
<1>8. zeros = z
  <2>1. Len(marked.block) = Len(m \o mark) % BlockLen
    BY <1>7, FedBlock
  <2>2. Len(m \o mark) = Len(m) + 1
    <3>1. m \in Seq(Nat) /\ mark \in Seq(Nat)
      BY <1>1, <1>2
    <3>2. Len(m \o mark) = Len(m) + Len(mark)
      BY ONLY <3>1, ConcatProperties
    <3> QED  BY <1>2, <3>2
  <2> DEFINE q == Len(m) \div BlockLen
  <2>3. q \in Nat /\ Len(m) = q * BlockLen + b /\ q * BlockLen \in Nat
        /\ (q + 1) * BlockLen = q * BlockLen + BlockLen
    BY <1>1, Division, Times
  <2> DEFINE r == (Len(m) + 1) % BlockLen
             t == (Len(m) + 1) \div BlockLen
  <2> DEFINE y == Len(m) + 1
  <2>4. /\ t \in Nat /\ r \in 0 .. BlockLen - 1 /\ Len(m) + 1 = t * BlockLen + r
    <3>1. y \in Nat
      BY <1>1
    <3> HIDE DEF y
    <3>2. /\ y \div BlockLen \in Nat /\ y % BlockLen \in 0 .. BlockLen - 1
          /\ y = (y \div BlockLen) * BlockLen + (y % BlockLen)
      BY <3>1, Division
    <3> QED  BY <3>2 DEF y
  <2> HIDE DEF b, q, r, t, zeros, z
  <2>5. CASE b = BlockLen - 1
    <3>1. t * BlockLen + r = (q + 1) * BlockLen + 0
      BY <1>1, <1>3, <2>3, <2>4, <2>5
    <3>2. q + 1 \in Nat /\ 0 \in 0 .. BlockLen - 1
      BY <1>3, <2>3
    <3>3. r = 0
      BY <2>4, <3>1, <3>2, Remainder
    <3>4. Len(marked.block) = 0
      BY <2>1, <2>2, <3>3 DEF r
    <3>5. (2 * BlockLen - 1 - 0) % BlockLen = BlockLen - 1
      <4>1. BlockLen - 1 \in 0 .. BlockLen - 1
        BY <1>3
      <4>2. (2 * BlockLen - 2 - (BlockLen - 1)) % BlockLen = BlockLen - 1
        BY <4>1, Padding
      <4>3. 2 * BlockLen - 2 - (BlockLen - 1) = BlockLen - 1
              /\ 2 * BlockLen - 1 - 0 = BlockLen + (BlockLen - 1)
        BY <1>3
      <4>4. (BlockLen - 1) % BlockLen = BlockLen - 1
        BY <4>2, <4>3
      <4>5. (BlockLen + (BlockLen - 1)) % BlockLen = BlockLen - 1
        BY ONLY <1>3
      <4> QED  BY <4>3, <4>5
    <3> QED  BY <1>4, <2>5, <3>4, <3>5 DEF zeros
  <2>6. CASE b # BlockLen - 1
    <3>1. t * BlockLen + r = q * BlockLen + (b + 1) /\ b + 1 \in 0 .. BlockLen - 1
      BY <1>1, <1>3, <2>3, <2>4, <2>6
    <3>2. r = b + 1
      BY <2>3, <2>4, <3>1, Remainder
    <3>3. Len(marked.block) = b + 1
      BY <2>1, <2>2, <3>2 DEF r
    <3>4. 2 * BlockLen - 1 - (b + 1) = 2 * BlockLen - 2 - b
      BY <1>3
    <3> QED  BY <3>3, <3>4 DEF zeros, z
  <2> QED  BY <2>5, <2>6
<1>9. zs \in Seq(Nat)
  BY <1>4, ZerosType
<1> DEFINE fill == sha256_update[marked][zs]
           last == sha256_update[fill][end]
<1>10. sha256_final(h) = last.done
  BY <1>5, <1>8
<1> HIDE DEF zs, last, fill
<1>11. Fed(fill, (m \o mark) \o zs, n)
  BY <1>7, <1>9, Feed256 DEF fill
<1>12. Fed(last, ((m \o mark) \o zs) \o end, n)
  <2>1. end \in Seq(Nat)
    BY <1>1
  <2> HIDE DEF end
  <2> QED  BY <1>11, <2>1, Feed256 DEF last
<1>13. l \in Nat
  BY <1>1
<1> HIDE DEF l
<1>14. last.done = Digest(m, l)
  <2>1. Fed(last, PaddedMessage(m, l), n)
    BY <1>6, <1>12
  <2> QED  BY <1>1, <1>13, <2>1, FedPadded
<1> QED  BY <1>10, <1>14 DEF l

\* sha1_final (vtls.c:141-154) is the same, although it appends the mark and the
\* zeros in one update of a length it computes from blkused.
THEOREM Sha1Final ==
  ASSUME NEW h, NEW m, NEW n \in Nat, Fed(h, m, n)
  PROVE  sha1_final(h) = Digest(m, n + Len(m))
<1>1. /\ h \in HashState /\ m \in Seq(Nat) /\ Len(m) \in Nat /\ h.totlen = n + Len(m)
  BY FedParts
<1> DEFINE mark == <<128>>
           k == Len(h.block)
           room == BlockLen - 1
           pad == IF k >= room THEN room + BlockLen - k ELSE room - k
           b == Len(m) % BlockLen
           z == (2 * BlockLen - 2 - b) % BlockLen
           zs == Zeros(z)
           l == n + Len(m)
           end == <<l>>
<1>2. mark \in Seq(Nat) /\ Len(mark) = 1
  OBVIOUS
<1>3. b \in 0 .. BlockLen - 1 /\ BlockLen \in Nat /\ BlockLen > 1
  BY <1>1, Division, Times
<1>4. z \in Nat /\ z = IF b = BlockLen - 1 THEN BlockLen - 1 ELSE BlockLen - 2 - b
  BY <1>3, Padding
<1>5. sha1_final(h) = sha1_update[sha1_update[h][mark \o Zeros(pad - 1)]][end].done
  BY <1>1 DEF sha1_final, LengthByte
<1>6. PaddedMessage(m, l) = ((m \o mark) \o zs) \o end
  BY DEF PaddedMessage
<1>7. pad - 1 = z
  <2>1. k = b
    BY FedBlock
  <2> HIDE DEF k, b, z
  <2> QED  BY <1>3, <1>4, <2>1
<1> DEFINE both == mark \o zs
           fill == sha1_update[h][both]
           last == sha1_update[fill][end]
<1>8. sha1_final(h) = last.done
  BY <1>5, <1>7
<1>9. zs \in Seq(Nat)
  BY <1>4, ZerosType
<1> HIDE DEF zs, last, fill, mark
<1>10. both \in Seq(Nat)
  BY <1>2, <1>9, ConcatProperties
<1>11. (m \o mark) \o zs = m \o both
  <2>1. m \in Seq(Nat) /\ mark \in Seq(Nat) /\ zs \in Seq(Nat)
    BY <1>1, <1>2, <1>9
  <2> QED  BY ONLY <2>1, Associates
<1> HIDE DEF both
<1>12. Fed(fill, m \o both, n)
  BY <1>10, Feed1 DEF fill
<1>13. Fed(last, (m \o both) \o end, n)
  <2>1. end \in Seq(Nat)
    BY <1>1
  <2> HIDE DEF end
  <2> QED  BY <1>12, <2>1, Feed1 DEF last
<1>14. l \in Nat
  BY <1>1
<1> HIDE DEF l, end
<1>15. last.done = Digest(m, l)
  <2>1. PaddedMessage(m, l) = (m \o both) \o end
    BY <1>6, <1>11
  <2>2. Fed(last, PaddedMessage(m, l), n)
    BY <1>13, <2>1
  <2> QED  BY <1>1, <1>14, <2>2, FedPadded
<1> QED  BY <1>8, <1>15 DEF l

\* hmac_sha1 (vtls.c:159-176) is the MAC both sides compute.
THEOREM HmacIsSha1 ==
  ASSUME NEW k, NEW d \in Seq(Nat)
  PROVE  hmac_sha1(k, d) = Hmac(k, d)
<1> DEFINE h == [HashInit EXCEPT !.totlen = BlockLen]
<1>1. BlockLen \in Nat
  BY Times
<1>2. Fed(h, << >>, BlockLen)
  BY <1>1, FedStart
<1> HIDE DEF h
<1>3. Fed(sha1_update[h][d], << >> \o d, BlockLen)
  BY <1>1, <1>2, Feed1
<1>4. << >> \o d = d
  BY ConcatEmptySeq
<1>5. Fed(sha1_update[h][d], d, BlockLen)
  BY <1>3, <1>4
<1>6. sha1_final(sha1_update[h][d]) = Digest(d, BlockLen + Len(d))
  BY <1>1, <1>5, Sha1Final
<1> QED  BY <1>6 DEF h, hmac_sha1, Hmac

\* The hash of a transcript, kept in a copy of the running state.
LEMMA Sha256IsSha ==
  ASSUME NEW h, NEW m, Fed(h, m, 0) PROVE sha256_final(h) = Sha(m)
<1>1. 0 \in Nat /\ m \in Seq(Nat) /\ Len(m) \in Nat
  BY FedParts
<1>2. sha256_final(h) = Digest(m, 0 + Len(m))
  BY <1>1, Sha256Final
<1>3. 0 + Len(m) = Len(m)
  BY <1>1
<1> QED  BY <1>2, <1>3 DEF Sha

----------------------------------------------------------------------------
(***************************************************************************)
(* Records: what one side writes the other accepts, and what their numbers *)
(* have to be for that.                                                    *)
(***************************************************************************)
\* The connection has the keys made from master secret m.
HasKeys(c, m) ==
  /\ c.mac_enc_key = ServerSide(m).reads /\ c.mac_dec_key = ServerSide(m).writes
  /\ c.enc_ctx = ServerSide(m).decrypts /\ c.dec_ctx = ServerSide(m).encrypts

\* What can be sent: its bytes, and the length that is counted for them.
IsContent(ct, data) ==
  ct \in Nat /\ Flat(ct, data) \in Seq(Nat) /\ DataLen(ct, data) \in Nat

\* Record number n of the server, on its way, and spoilt at most if d.
Numbered(m, n, r, d) ==
  /\ r.ct \in {Handshake, Application} /\ IsContent(r.ct, r.data)
  /\ r.padlen \in 0 .. 15
  /\ r.len = 16 + DataLen(r.ct, r.data) + 20 + r.padlen + 1
  /\ r.key = ServerSide(m).encrypts
  /\ \/ r.mac = Hmac(ServerSide(m).writes, MacInput(n, r.ct, DataLen(r.ct, r.data), r.data))
     \/ d /\ r.mac = NoMac

LEMMA MacInputType ==
  ASSUME NEW n \in Nat, NEW ct, NEW data, IsContent(ct, data)
  PROVE  MacInput(n, ct, DataLen(ct, data), data) \in Seq(Nat)
<1>1. <<n, ct, DataLen(ct, data)>> \in Seq(Nat) /\ Flat(ct, data) \in Seq(Nat)
  BY DEF IsContent
<1> DEFINE head == <<n, ct, DataLen(ct, data)>>
<1>2. MacInput(n, ct, DataLen(ct, data), data) = head \o Flat(ct, data)
  BY DEF MacInput
<1>3. head \in Seq(Nat)
  BY <1>1
<1> HIDE DEF head
<1>4. head \o Flat(ct, data) \in Seq(Nat)
  BY <1>1, <1>3, ConcatProperties
<1> QED  BY <1>2, <1>4

\* The padding of tls_write_record completes a block of the cipher (1210-1213).
LEMMA PadLenIs ==
  ASSUME NEW n \in Nat
  PROVE  PadLen(n) \in 0 .. 15 /\ (16 + n + 20 + PadLen(n) + 1) % 16 = 0
<1> DEFINE r == (n + 20 + 1) % 16
<1>1. r \in 0 .. 15
  OBVIOUS
<1>2. PadLen(n) = IF 16 - r = 16 THEN 0 ELSE 16 - r
  BY DEF PadLen
<1>3. PadLen(n) \in 0 .. 15
  BY <1>1, <1>2
<1>4. CASE r = 0
  <2>1. PadLen(n) = 0
    BY <1>2, <1>4
  <2>2. (16 + n + 20 + 0 + 1) % 16 = 0
    BY <1>4
  <2> QED  BY <1>3, <2>1, <2>2
<1>5. CASE r # 0
  <2>1. PadLen(n) = 16 - r
    BY <1>1, <1>2, <1>5
  <2>2. (16 + n + 20 + (16 - r) + 1) % 16 = 0
    OBVIOUS
  <2> QED  BY <1>3, <2>1, <2>2
<1> QED  BY <1>4, <1>5

\* tls_write_record after the keys are in use (1181-1247).
LEMMA WriteAccepted ==
  ASSUME NEW c, NEW m, HasKeys(c, m), c.cipher_active = TRUE, c.seq_send \in Nat,
         NEW ct, NEW data, IsContent(ct, data)
  PROVE  /\ tls_write_record(c, ct, data).ct = ct /\ tls_write_record(c, ct, data).data = data
         /\ ServerAccepts(m, c.seq_send, tls_write_record(c, ct, data))
<1> DEFINE r == tls_write_record(c, ct, data)
           len == DataLen(ct, data)
           input == MacInput(c.seq_send, ct, len, data)
<1>1. len \in Nat
  BY DEF IsContent
<1>2. r = [ct |-> ct, data |-> data, padlen |-> PadLen(len),
           len |-> 16 + len + 20 + PadLen(len) + 1, key |-> c.enc_ctx,
           mac |-> hmac_sha1(c.mac_enc_key, input)]
  BY Zenon DEF tls_write_record
<1>3. input \in Seq(Nat)
  BY MacInputType
<1>4. hmac_sha1(c.mac_enc_key, input) = Hmac(ServerSide(m).reads, input)
  <2>1. c.mac_enc_key = ServerSide(m).reads
    BY DEF HasKeys
  <2> HIDE DEF input
  <2> QED  BY <1>3, <2>1, HmacIsSha1
<1>5. c.enc_ctx = ServerSide(m).decrypts
  BY DEF HasKeys
<1> HIDE DEF r, len, input
<1>6. /\ r.ct = ct /\ r.data = data /\ r.padlen = PadLen(len)
      /\ r.len = 16 + len + 20 + PadLen(len) + 1 /\ r.key = c.enc_ctx
      /\ r.mac = hmac_sha1(c.mac_enc_key, input)
  BY <1>2
<1>7. r.len % 16 = 0
  BY <1>1, <1>6, PadLenIs
<1>8. DataLen(r.ct, r.data) = len /\ MacInput(c.seq_send, r.ct, len, r.data) = input
  BY <1>6 DEF len, input
<1>9. ServerAccepts(m, c.seq_send, r)
  BY <1>4, <1>5, <1>6, <1>7, <1>8 DEF ServerAccepts
<1> QED  BY <1>6, <1>9 DEF r

\* tls_read_record takes the record that has the next number (1101-1178).
LEMMA NumberedAccepted ==
  ASSUME NEW c, NEW m, HasKeys(c, m), NEW r, NEW d, c.seq_recv \in Nat,
         Numbered(m, c.seq_recv, r, d), ~d
  PROVE  Accepted(c, r)
<1> DEFINE len == DataLen(r.ct, r.data)
           input == MacInput(c.seq_recv, r.ct, len, r.data)
<1>1. /\ IsContent(r.ct, r.data) /\ len \in Nat /\ r.padlen \in 0 .. 15
      /\ r.len = 16 + len + 20 + r.padlen + 1 /\ r.key = ServerSide(m).encrypts
      /\ r.mac = Hmac(ServerSide(m).writes, input)
  BY DEF Numbered, IsContent
<1>2. r.len - 16 - 20 - r.padlen - 1 = len /\ r.len >= 32
  <2> HIDE DEF len
  <2> QED  BY <1>1
<1>3. hmac_sha1(c.mac_dec_key, input) = Hmac(ServerSide(m).writes, input)
  <2>1. input \in Seq(Nat)
    BY <1>1, MacInputType
  <2>2. c.mac_dec_key = ServerSide(m).writes
    BY DEF HasKeys
  <2> HIDE DEF input
  <2> QED  BY <2>1, <2>2, HmacIsSha1
<1>4. r.key = c.dec_ctx
  BY <1>1 DEF HasKeys
<1>5. r.mac = hmac_sha1(c.mac_dec_key, input)
  BY <1>1, <1>3
<1>6. len >= 0
  BY <1>1
<1> HIDE DEF len
<1>7. r.mac = hmac_sha1(c.mac_dec_key,
             MacInput(c.seq_recv, r.ct, r.len - 16 - 20 - r.padlen - 1, r.data))
  BY <1>2, <1>5
<1> QED  BY <1>2, <1>4, <1>6, <1>7 DEF Accepted

\* What the server writes has its number.
LEMMA ServerRecordNumbered ==
  ASSUME NEW m, NEW n, NEW ct \in {Handshake, Application}, NEW data, IsContent(ct, data), NEW d
  PROVE  /\ Numbered(m, n, ServerRecord(m, n, ct, data), d)
         /\ ServerRecord(m, n, ct, data).ct = ct /\ ServerRecord(m, n, ct, data).data = data
<1> DEFINE r == ServerRecord(m, n, ct, data)
           len == DataLen(ct, data)
           pad == CHOOSE p \in 0 .. 15 : (len + 20 + p + 1) % 16 = 0
<1>1. len \in Nat
  BY DEF IsContent
<1>2. r = [ct |-> ct, data |-> data, padlen |-> pad, len |-> 16 + len + 20 + pad + 1,
           key |-> ServerSide(m).encrypts,
           mac |-> Hmac(ServerSide(m).writes, MacInput(n, ct, len, data))]
  BY DEF ServerRecord
<1> HIDE DEF len
<1>3. pad \in 0 .. 15
  <2>1. PadLen(len) \in 0 .. 15 /\ (16 + len + 20 + PadLen(len) + 1) % 16 = 0
    BY <1>1, PadLenIs
  <2> DEFINE p == PadLen(len)
  <2> HIDE DEF p
  <2>2. (16 + (len + 20 + p + 1)) % 16 = 0 /\ p \in 0 .. 15
    BY <1>1, <2>1 DEF p
  <2>3. (len + 20 + p + 1) % 16 = 0
    BY <1>1, <2>2
  <2> QED  BY <2>2, <2>3
<1> HIDE DEF r, pad
<1>4. /\ r.ct = ct /\ r.data = data /\ r.padlen = pad /\ r.len = 16 + len + 20 + pad + 1
      /\ r.key = ServerSide(m).encrypts
      /\ r.mac = Hmac(ServerSide(m).writes, MacInput(n, ct, len, data))
  BY <1>2
<1>5. Numbered(m, n, r, d)
  BY <1>3, <1>4 DEF Numbered, len
<1> QED  BY <1>4, <1>5 DEF r

----------------------------------------------------------------------------
(***************************************************************************)
(* Connections.                                                            *)
(***************************************************************************)
\* A connection is a record that has all the fields a step may change.
IsConn(c) == {"active", "sockfd", "enc_ctx", "dec_ctx", "mac_enc_key", "mac_dec_key",
              "seq_send", "seq_recv", "cipher_active", "app_buf", "peer_cert",
              "peer_key_bytes"} \subseteq DOMAIN c

\* d is what connection c has become.
Same(c, d) == IsConn(d) /\ d.active = c.active /\ d.sockfd = c.sockfd

\* Records sent and received change keys, counters and the buffer only.
LEMMA RecordsKeep ==
  ASSUME NEW c, IsConn(c)
  PROVE  /\ Same(c, c) /\ Same(c, Sent(c))
         /\ \A r : Same(c, Received(c, r))
         /\ \A m : Same(c, WithKeys(c, m))
         /\ \A b : Same(c, [c EXCEPT !.app_buf = b])
         /\ \A b, r : Same(c, [Received(c, r) EXCEPT !.app_buf = b])
         /\ Same(c, [c EXCEPT !.seq_recv = 0])
         /\ Same(c, [c EXCEPT !.cipher_active = TRUE, !.seq_send = 0])
         /\ \A k, n : Same(c, [c EXCEPT !.peer_cert = k, !.peer_key_bytes = n])
<1>1. Same(c, Sent(c))
  BY DEF Same, IsConn, Sent
<1>2. ASSUME NEW r PROVE Same(c, Received(c, r))
  BY DEF Same, IsConn, Received
<1>3. ASSUME NEW m PROVE Same(c, WithKeys(c, m))
  BY DEF Same, IsConn, WithKeys
<1>4. ASSUME NEW b, NEW d, Same(c, d) PROVE Same(c, [d EXCEPT !.app_buf = b])
  BY <1>4 DEF Same, IsConn
<1>5. Same(c, c)
  BY DEF Same
<1>6. Same(c, [c EXCEPT !.seq_recv = 0])
  BY DEF Same, IsConn
<1>7. Same(c, [c EXCEPT !.cipher_active = TRUE, !.seq_send = 0])
  BY DEF Same, IsConn
<1>8. ASSUME NEW k, NEW n
      PROVE  Same(c, [c EXCEPT !.peer_cert = k, !.peer_key_bytes = n])
  BY DEF Same, IsConn
<1>9. \A b, r : Same(c, [Received(c, r) EXCEPT !.app_buf = b])
  BY <1>2, <1>4
<1> QED  BY <1>1, <1>2, <1>3, <1>4, <1>5, <1>6, <1>7, <1>8, <1>9

\* alloc_conn clears the slot it hands out (1047-1058).
LEMMA AllocatedIs ==
  ASSUME NEW f
  PROVE  /\ IsConn(Allocated(f)) /\ Allocated(f).active = TRUE /\ Allocated(f).sockfd = f
         /\ IsConn(Deactivated(Allocated(f))) /\ Deactivated(Allocated(f)).active = FALSE
         /\ IsConn(FreeConn) /\ FreeConn.active = FALSE
BY DEF Allocated, Deactivated, FreeConn, IsConn

----------------------------------------------------------------------------
(***************************************************************************)
(* The conversation of a socket: what its client and its server know, and  *)
(* what is under way between them.                                         *)
(***************************************************************************)
\* Shapes of what is under way: a sequence, records, messages of a flight, and
\* the fields of a server and of a handshake.
IsSeq(q) == Len(q) \in Nat /\ q = [i \in 1 .. Len(q) |-> q[i]]
IsRecord(r) == {"ct", "data", "len", "padlen", "key", "mac"} \subseteq DOMAIN r
Messages == [t : Nat, v : Seq(Nat), verify : {NoVerify}]
IsServer(s) == {"at", "cert", "random", "client", "log", "master", "rseq", "wseq", "sent", "got",
                "rejected"} \subseteq DOMAIN s
IsHandshake(h) == {"at", "hash", "client", "server", "cert", "got_hello", "got_cert", "got_done",
                   "cert_requested", "got_ccs", "master"} \subseteq DOMAIN h

\* What both sides hash: the ClientHello, the first n messages of the flight of
\* FlightLen messages, then the answers, of which j have been sent.
Hello(client) == Msg(ClientHello, <<client>>)
NoCert == Msg(ServerCert, << >>)
FlightLen(req) == IF req = TRUE THEN 4 ELSE 3
Said(msgs, n) == FlattenSeq([i \in 1 .. n |-> MsgBytes(msgs[i])])
Heard(client, x, k, req, n) == MsgBytes(Hello(client)) \o Said(Flight(x, k, req), n)

Log0(client, x, k, req) == Heard(client, x, k, req, FlightLen(req))
Log1(client, x, k, req) ==
  IF req = TRUE THEN Log0(client, x, k, req) \o MsgBytes(NoCert) ELSE Log0(client, x, k, req)
Log2(client, x, k, req, e) == Log1(client, x, k, req) \o MsgBytes(Msg(ClientKeyEx, e))
Log4(client, x, k, req, e) == Log2(client, x, k, req, e) \o MsgBytes(Msg(Finished, << >>))
Log(client, x, k, req, e, j) ==
  IF j = 0 THEN Log0(client, x, k, req)
  ELSE IF j = 1 THEN Log1(client, x, k, req)
  ELSE IF j = 2 \/ j = 3 THEN Log2(client, x, k, req, e)
  ELSE Log4(client, x, k, req, e)

\* How many answers a side has sent, or taken.
Stage(at, j) ==
  \/ at = "cert" /\ j = 0
  \/ at = "key" /\ j = 1
  \/ at = "ccs" /\ j = 2
  \/ at = "fin" /\ j = 3
  \/ at = "finished" /\ j = 4

\* The client after n messages of the flight with random x and certificate k.
Listening(h, x, k, req, n) ==
  /\ h.at = "flight" /\ n \in 0 .. FlightLen(req) /\ h.got_ccs = FALSE
  /\ n >= 1 => h.got_hello = TRUE /\ h.server = x
  /\ n >= 2 => h.got_cert = TRUE /\ h.cert = k
  /\ req = TRUE /\ n >= 3 => h.cert_requested = TRUE
  /\ req = FALSE \/ n < 3 => h.cert_requested = FALSE
  /\ h.got_done = IF n = FlightLen(req) THEN TRUE ELSE FALSE
  /\ Fed(h.hash, Heard(h.client, x, k, req, n), 0)

\* The client after j answers.
Answers(h, c, x, k, req, j) ==
  /\ Stage(h.at, j) /\ h.server = x /\ h.cert = k /\ (j = 0 => req = TRUE)
  /\ KeyLen[k] # 0
  /\ j >= 2 => /\ h.master = Master(PreMaster[h.client], h.client, x) /\ HasKeys(c, h.master)
               /\ Encrypted[k][h.client] # << >>
  /\ Fed(h.hash, Log(h.client, x, k, req, Encrypted[k][h.client], j), 0)
  /\ c.cipher_active = IF j >= 3 THEN TRUE ELSE FALSE
  /\ c.seq_send = IF j = 4 THEN 1 ELSE 0
  /\ c.peer_cert = k /\ c.peer_key_bytes = KeyLen[k]

\* The server after i answers, in a handshake of this client that sends e.
ServerAt(s, f, client, req, e, i) ==
  /\ Stage(s.at, i) /\ i \in 0 .. 3 /\ (i = 0 => req = TRUE)
  /\ s.cert \in Served[f] /\ s.random \in Nat /\ s.client = client
  /\ s.log = Log(client, s.random, s.cert, req, e, i)
  /\ i >= 2 => s.master = Master(PreMasterOf[s.cert][e], client, s.random)
  /\ s.rseq = 0 /\ s.sent = 0 /\ s.rejected = FALSE

FinishedMsg(master, label, hash) ==
  [Msg(Finished, << >>) EXCEPT !.verify = [secret |-> master, label |-> label, hash |-> hash]]

\* Answer number j is record r.
AnswerIs(j, r, e, master, log) ==
  /\ j = 1 => r = Plain(Handshake, <<NoCert>>)
  /\ j = 2 => r = Plain(Handshake, <<Msg(ClientKeyEx, e)>>)
  /\ j = 3 => r = Plain(ChangeCipher, <<1>>)
  /\ j = 4 => /\ r.ct = Handshake
              /\ r.data = <<FinishedMsg(master, "client_finished", Sha(log))>>
              /\ ServerAccepts(master, 0, r)

\* The ClientHello is under way.
Asking(h, s, up, down) ==
  /\ s = FreshServer /\ down = << >> /\ up = <<Plain(Handshake, <<Hello(h.client)>>)>>
  /\ h.at = "flight" /\ h.got_ccs = FALSE /\ h.got_done = FALSE /\ h.cert_requested = FALSE
  /\ Fed(h.hash, MsgBytes(Hello(h.client)), 0)

\* The rest of the flight is, which has one number changed if it is damaged.
Untouched(x, k, s, d) == d = FALSE => x = s.random /\ k = s.cert
Flown(q) == [i \in 1 .. Len(q) |-> q[i].data]
FlightPart(q) ==
  \A i \in 1 .. Len(q) : /\ q[i] = Plain(Handshake, q[i].data)
                         /\ q[i].data \in Seq(Messages) /\ q[i].data # << >>
FlyingAt(h, s, up, down, d, f, x, k, req, n) ==
  /\ Listening(h, x, k, req, n) /\ n < FlightLen(req)
  /\ ServerAt(s, f, h.client, req, << >>, IF req = TRUE THEN 0 ELSE 1)
  /\ up = << >> /\ FlightPart(down)
  /\ FlattenSeq(Flown(down)) = SubSeq(Flight(x, k, req), n + 1, FlightLen(req))
  /\ Untouched(x, k, s, d)
Flying(h, s, up, down, d, f) ==
  \E x \in {s.random, s.random + 1}, k \in DOMAIN Certs, req \in BOOLEAN, n \in 0 .. 3 :
    FlyingAt(h, s, up, down, d, f, x, k, req, n)

\* The client has sent j answers, of which the server has taken i.
AnsweringAt(h, c, s, up, down, d, f, x, k, req, j, i) ==
  /\ Answers(h, c, x, k, req, j) /\ h.got_ccs = FALSE
  /\ ServerAt(s, f, h.client, req, Encrypted[k][h.client], i) /\ i <= j
  /\ down = << >> /\ Len(up) = j - i
  /\ \A n \in 1 .. j - i :
       AnswerIs(i + n, up[n], Encrypted[k][h.client], h.master,
                Log(h.client, x, k, req, Encrypted[k][h.client], 3))
  /\ Untouched(x, k, s, d)
Answering(h, c, s, up, down, d, f) ==
  \E x \in {s.random, s.random + 1}, k \in DOMAIN Certs, req \in BOOLEAN,
     j \in 0 .. 4, i \in 0 .. 3 :
    AnsweringAt(h, c, s, up, down, d, f, x, k, req, j, i)

\* The server has given up, and told the client at most that.
Dead(s, down) == s.at = "closed" /\ \A i \in 1 .. Len(down) : down[i].ct = Alert

\* Records of an open session from number n on, the last an alert if b = 1.
InOrder(q, s, n, d, b) ==
  /\ Len(q) >= b /\ s.wseq = n + Len(q) - b
  /\ \A i \in 1 .. Len(q) - b : Numbered(s.master, n + i - 1, q[i], d)
  /\ b = 1 => s.at = "closed" /\ q[Len(q)].ct = Alert
InSeq(q, s, n, d) == \E b \in {0, 1} : InOrder(q, s, n, d, b)

\* The server is satisfied; its Finished is under way, after ChangeCipherSpec.
Started(h, s, q, d) ==
  /\ InSeq(q, s, 0, d) /\ q # << >> /\ q[1].ct = Handshake
  /\ q[1].data = <<FinishedMsg(h.master, "server_finished", sha256_final(h.hash))>>
  /\ Carried(q) = Bytes(0, s.sent)
OpenedAt(h, c, s, up, f, req) ==
  /\ Answers(h, c, s.random, s.cert, req, 4)
  /\ s.at \in {"open", "closed"} /\ s.rejected = FALSE /\ s.cert \in Served[f]
  /\ s.random \in Nat /\ s.rseq = 1 /\ s.master = h.master /\ up = << >>
Opened(h, c, s, up, down, d, f) ==
  /\ \E req \in BOOLEAN : OpenedAt(h, c, s, up, f, req)
  /\ \/ h.got_ccs = TRUE /\ Started(h, s, down, d)
     \/ /\ h.got_ccs = FALSE /\ down # << >> /\ Head(down) = Plain(ChangeCipher, <<1>>)
        /\ Started(h, s, Tail(down), d)

\* vtls_handshake runs for socket f, with its locals h and its connection c.
Talking(h, c, s, up, down, d, f, holds) ==
  /\ IsHandshake(h) /\ h.client \in 1 .. MaxConn
  /\ holds =>
       /\ c.seq_recv = 0 /\ c.app_buf = << >>
       /\ h.at = "flight" => c.cipher_active = FALSE /\ c.seq_send = 0
       /\ \/ Asking(h, s, up, down)
          \/ Flying(h, s, up, down, d, f)
          \/ Answering(h, c, s, up, down, d, f)
          \/ Opened(h, c, s, up, down, d, f)
          \/ Dead(s, down)

\* vtls_handshake has failed; the server may still wait.
Refused(s, up) ==
  \/ s.at = "closed"
  \/ up = << >>
  \/ s.at = "cert" /\ up = <<Plain(Handshake, <<NoCert>>)>>

\* What is under way to the server after the handshake.
Outgoing(s, up, sent, ended) ==
  /\ s.at \in {"open", "closed"} /\ s.rseq \in Nat
  /\ \A i \in 1 .. Len(up) :
       /\ ServerAccepts(s.master, s.rseq + i - 1, up[i])
       /\ \/ up[i].ct = Application /\ up[i].data \in Seq(Nat)
          \/ up[i].ct = Alert /\ i = Len(up) /\ ended
  /\ s.got \o Carried(up) = Bytes(0, sent)

\* The connection of a session, and what it still has to get.
Keyed(c, s, f) ==
  /\ HasKeys(c, s.master) /\ c.cipher_active = TRUE
  /\ s.cert \in Served[f] /\ KeyLen[s.cert] # 0
  /\ c.peer_cert = s.cert /\ c.peer_key_bytes = KeyLen[s.cert]
  /\ c.seq_send \in Nat /\ c.seq_recv \in Nat /\ c.app_buf \in Seq(Nat)
Arriving(c, s, down, read, d) ==
  /\ InSeq(down, s, c.seq_recv, d)
  /\ (read \o c.app_buf) \o Carried(down) = Bytes(0, s.sent)
Served1(c, s, up, down, read, d, f, holds, open) ==
  /\ Keyed(c, s, f)
  /\ holds => c.seq_send = s.rseq + Len(up)
  /\ holds /\ open => Arriving(c, s, down, read, d)
  /\ open => read \o c.app_buf = Bytes(0, Len(read \o c.app_buf))

----------------------------------------------------------------------------
(***************************************************************************)
(* Sequences of records.                                                   *)
(***************************************************************************)
Parts(q) == {q[i] : i \in 1 .. Len(q)}

LEMMA SeqTyped ==
  ASSUME NEW q, IsSeq(q) PROVE q \in Seq(Parts(q))
<1>1. Len(q) \in Nat /\ q = [i \in 1 .. Len(q) |-> q[i]]
  BY DEF IsSeq
<1>2. \A i \in 1 .. Len(q) : q[i] \in Parts(q)
  BY DEF Parts
<1> QED  BY <1>1, <1>2

LEMMA SeqWider ==
  ASSUME NEW S, NEW T, S \subseteq T, NEW q \in Seq(S) PROVE q \in Seq(T)
OBVIOUS

LEMMA SeqIs ==
  ASSUME NEW T, NEW q \in Seq(T) PROVE IsSeq(q)
BY LenProperties DEF IsSeq

LEMMA NoneIs ==
  ASSUME NEW q, IsSeq(q)
  PROVE  /\ Len(q) \in Nat /\ (q = << >> <=> Len(q) = 0)
         /\ q # << >> => 1 \in 1 .. Len(q) /\ Head(q) = q[1]
<1>1. q \in Seq(Parts(q))
  BY SeqTyped
<1> QED  BY <1>1, EmptySeq, LenProperties

LEMMA AppendIs ==
  ASSUME NEW q, IsSeq(q), NEW r
  PROVE  /\ IsSeq(Append(q, r)) /\ Len(Append(q, r)) = Len(q) + 1 /\ Append(q, r) # << >>
         /\ \A i \in 1 .. Len(q) : Append(q, r)[i] = q[i]
         /\ Append(q, r)[Len(q) + 1] = r
<1> DEFINE T == Parts(q) \cup {r}
<1>1. q \in Seq(T)
  <2>1. q \in Seq(Parts(q)) /\ Parts(q) \subseteq T
    BY SeqTyped
  <2> QED  BY <2>1
<1>2. r \in T
  OBVIOUS
<1> HIDE DEF T
<1>3. /\ Append(q, r) \in Seq(T) /\ Len(Append(q, r)) = Len(q) + 1 /\ Append(q, r) # << >>
      /\ \A i \in 1 .. Len(q) : Append(q, r)[i] = q[i]
      /\ Append(q, r)[Len(q) + 1] = r
  BY <1>1, <1>2, AppendProperties, LenProperties
<1> QED  BY <1>3, SeqIs

LEMMA TailIs ==
  ASSUME NEW q, IsSeq(q), q # << >>
  PROVE  /\ IsSeq(Tail(q)) /\ Len(q) \in Nat /\ Len(q) >= 1 /\ Len(Tail(q)) = Len(q) - 1
         /\ Head(q) = q[1]
         /\ \A i \in 1 .. Len(q) - 1 : Tail(q)[i] = q[i + 1]
<1> DEFINE T == Parts(q)
<1>1. q \in Seq(T)
  BY SeqTyped
<1> HIDE DEF T
<1>2. /\ Tail(q) \in Seq(T) /\ Len(q) \in Nat /\ Len(q) # 0 /\ Len(Tail(q)) = Len(q) - 1
      /\ Head(q) = q[1]
  BY <1>1, EmptySeq, LenProperties, HeadTailProperties
<1>3. \A i \in 1 .. Len(q) - 1 : Tail(q)[i] = q[i + 1]
  BY <1>1, <1>2, HeadTailProperties
<1>4. IsSeq(Tail(q))
  BY <1>2, SeqIs
<1>5. Len(q) >= 1
  BY <1>2
<1> QED  BY <1>2, <1>3, <1>4, <1>5

LEMMA CatIs ==
  ASSUME NEW p, IsSeq(p), NEW q, IsSeq(q)
  PROVE  /\ IsSeq(p \o q) /\ Len(p \o q) = Len(p) + Len(q)
         /\ \A i \in 1 .. Len(p) : (p \o q)[i] = p[i]
         /\ \A i \in 1 .. Len(q) : (p \o q)[Len(p) + i] = q[i]
<1> DEFINE T == Parts(p) \cup Parts(q)
<1>1. p \in Seq(T) /\ q \in Seq(T)
  <2>1. p \in Seq(Parts(p)) /\ q \in Seq(Parts(q))
    BY SeqTyped
  <2>2. Parts(p) \subseteq T /\ Parts(q) \subseteq T
    OBVIOUS
  <2> HIDE DEF T
  <2>3. p \in Seq(T)
    BY <2>1, <2>2, SeqWider
  <2>4. q \in Seq(T)
    BY <2>1, <2>2, SeqWider
  <2> QED  BY <2>3, <2>4
<1> HIDE DEF T
<1>2. /\ p \o q \in Seq(T) /\ Len(p \o q) = Len(p) + Len(q)
      /\ \A i \in 1 .. Len(p) : (p \o q)[i] = p[i]
  BY <1>1, ConcatProperties, LenProperties
<1>3. \A i \in 1 .. Len(q) : (p \o q)[Len(p) + i] = q[i]
  BY <1>1, ConcatProperties, LenProperties
<1> QED  BY <1>2, <1>3, SeqIs

LEMMA SmallSeqs ==
  /\ IsSeq(<< >>) /\ Len(<< >>) = 0
  /\ \A r : IsSeq(<<r>>) /\ Len(<<r>>) = 1 /\ <<r>>[1] = r /\ <<r>> # << >>
  /\ \A r, t : /\ IsSeq(<<r, t>>) /\ Len(<<r, t>>) = 2 /\ <<r, t>>[1] = r /\ <<r, t>>[2] = t
<1>1. << >> \in Seq({})
  BY EmptySeq
<1>2. \A r : <<r>> \in Seq({r})
  OBVIOUS
<1>3. \A r, t : <<r, t>> \in Seq({r, t})
  OBVIOUS
<1> QED  BY <1>1, <1>2, <1>3, SeqIs

----------------------------------------------------------------------------
(***************************************************************************)
(* The messages of a handshake and the bytes that are hashed of them.      *)
(***************************************************************************)
LEMMA CertNumbers ==
  /\ DOMAIN Certs \subseteq Nat /\ 0 \notin DOMAIN Certs /\ Garbled \in DOMAIN Certs
  /\ \A f \in Fds : Served[f] \subseteq DOMAIN Certs
  /\ MaxConn \in Nat
BY TlsAssumption DEF Fds

LEMMA MsgIs ==
  ASSUME NEW t \in Nat, NEW v \in Seq(Nat)
  PROVE  Msg(t, v) \in Messages /\ Msg(t, v).t = t /\ Msg(t, v).v = v
BY DEF Msg, Messages

LEMMA MsgBytesType ==
  ASSUME NEW m, m.t \in Nat, m.v \in Seq(Nat) PROVE MsgBytes(m) \in Seq(Nat)
<1> DEFINE v == m.v
           a == <<m.t, Len(m.v)>>
<1>1. a \in Seq(Nat) /\ v \in Seq(Nat)
  BY LenProperties
<1>2. MsgBytes(m) = a \o v
  BY DEF MsgBytes
<1> HIDE DEF a, v
<1> QED  BY <1>1, <1>2, ConcatProperties

LEMMA MessagesType ==
  ASSUME NEW m \in Messages PROVE MsgBytes(m) \in Seq(Nat) /\ m.t \in Nat /\ m.v \in Seq(Nat)
<1>1. m.t \in Nat /\ m.v \in Seq(Nat)
  BY DEF Messages
<1> QED  BY <1>1, MsgBytesType

LEMMA Joined ==
  ASSUME NEW a, NEW b, NEW c, NEW z
  PROVE  /\ <<a, b>> \o <<c>> = <<a, b, c>>
         /\ (<<a, b>> \o <<c>>) \o <<z>> = <<a, b, c, z>>
         /\ (<<a, b>> \o << >>) \o <<c>> = <<a, b, c>>
<1> DEFINE T == {a, b, c, z}
<1>0. a \in T /\ b \in T /\ c \in T /\ z \in T
  OBVIOUS
<1> HIDE DEF T
<1>1. <<a, b>> \in Seq(T) /\ <<a, b, c>> \in Seq(T)
  BY <1>0
<1>2. /\ <<a, b>> \o <<c>> = Append(<<a, b>>, c) /\ <<a, b, c>> \o <<z>> = Append(<<a, b, c>>, z)
  BY <1>0, <1>1, AppendIsConcat
<1>3. <<a, b>> \o << >> = <<a, b>>
  BY <1>1, ConcatEmptySeq
<1>4. \A y \in T : Append(<<a, b>>, y) = <<a, b, y>>
  <2> SUFFICES ASSUME NEW y \in T PROVE Append(<<a, b>>, y) = <<a, b, y>>
    OBVIOUS
  <2> DEFINE s == <<a, b>>
             t == <<a, b, y>>
  <2>1. s \in Seq(T) /\ t \in Seq(T) /\ Len(s) = 2 /\ Len(t) = 3
    BY <1>0
  <2>2. t[1] = s[1] /\ t[2] = s[2] /\ t[3] = y
    OBVIOUS
  <2> HIDE DEF s, t
  <2>4. /\ Append(s, y) \in Seq(T) /\ Len(Append(s, y)) = 2 + 1
        /\ \A i \in 1 .. 2 : Append(s, y)[i] = s[i]
        /\ Append(s, y)[2 + 1] = y
    <3>1. IsSeq(s)
      BY <2>1, SeqIs
    <3>2. /\ Len(Append(s, y)) = Len(s) + 1
          /\ \A i \in 1 .. Len(s) : Append(s, y)[i] = s[i]
          /\ Append(s, y)[Len(s) + 1] = y
      BY <3>1, AppendIs, ZenonT(45)
    <3>3. Append(s, y) \in Seq(T)
      BY <1>0, <2>1
    <3> QED  BY <2>1, <3>2, <3>3
  <2>3. Append(s, y) \in Seq(T) /\ Len(Append(s, y)) = 3 /\ \A i \in 1 .. 3 : Append(s, y)[i] = t[i]
    BY <2>2, <2>4
  <2> QED  BY <2>1, <2>3, SeqEqual DEF s, t
<1>5. Append(<<a, b, c>>, z) = <<a, b, c, z>>
  <2> DEFINE s == <<a, b, c>>
             t == <<a, b, c, z>>
  <2>1. s \in Seq(T) /\ t \in Seq(T) /\ Len(s) = 3 /\ Len(t) = 4
    BY <1>0
  <2>2. t[1] = s[1] /\ t[2] = s[2] /\ t[3] = s[3] /\ t[4] = z
    OBVIOUS
  <2> HIDE DEF s, t
  <2>4. /\ Append(s, z) \in Seq(T) /\ Len(Append(s, z)) = 3 + 1
        /\ \A i \in 1 .. 3 : Append(s, z)[i] = s[i]
        /\ Append(s, z)[3 + 1] = z
    <3>1. IsSeq(s)
      BY <2>1, SeqIs
    <3>2. /\ Len(Append(s, z)) = Len(s) + 1
          /\ \A i \in 1 .. Len(s) : Append(s, z)[i] = s[i]
          /\ Append(s, z)[Len(s) + 1] = z
      BY <3>1, AppendIs, ZenonT(45)
    <3>3. Append(s, z) \in Seq(T)
      BY <1>0, <2>1
    <3> QED  BY <2>1, <3>2, <3>3
  <2>3. Append(s, z) \in Seq(T) /\ Len(Append(s, z)) = 4 /\ \A i \in 1 .. 4 : Append(s, z)[i] = t[i]
    BY <2>2, <2>4
  <2> QED  BY <2>1, <2>3, SeqEqual DEF s, t
<1> QED  BY <1>0, <1>2, <1>3, <1>4, <1>5

LEMMA HelloIs ==
  ASSUME NEW n \in Nat
  PROVE  /\ Hello(n) \in Messages /\ Hello(n).v[1] = n /\ MsgBytes(Hello(n)) \in Seq(Nat)
         /\ MsgBytes(Hello(n)) = <<1, 1, n>>
<1>1. <<n>> \in Seq(Nat) /\ ClientHello = 1
  BY DEF ClientHello
<1>2. Hello(n) \in Messages /\ Hello(n).t = 1 /\ Hello(n).v = <<n>>
  BY <1>1, MsgIs DEF Hello
<1>3. MsgBytes(Hello(n)) = <<1, 1>> \o <<n>>
  BY <1>2 DEF MsgBytes
<1>4. <<1, 1>> \o <<n>> = <<1, 1, n>>
  BY Joined
<1>5. MsgBytes(Hello(n)) \in Seq(Nat)
  BY <1>2, MessagesType
<1>6. Hello(n).v[1] = n
  BY <1>2
<1> QED  BY <1>2, <1>3, <1>4, <1>5, <1>6

LEMMA FlightLenIs == \A req \in BOOLEAN : FlightLen(req) \in {3, 4}
BY DEF FlightLen

LEMMA FlightIs ==
  ASSUME NEW x \in Nat, NEW k \in Nat, NEW req \in BOOLEAN
  PROVE  /\ Flight(x, k, req) \in Seq(Messages) /\ Len(Flight(x, k, req)) = FlightLen(req)
         /\ Flight(x, k, req)[1] = Msg(ServerHello, <<x>>)
         /\ Flight(x, k, req)[2] = Msg(ServerCert, <<k>>)
         /\ req = TRUE => Flight(x, k, req)[3] = Msg(CertRequest, << >>)
         /\ Flight(x, k, req)[FlightLen(req)] = Msg(ServerDone, << >>)
<1> DEFINE a == Msg(ServerHello, <<x>>)
           b == Msg(ServerCert, <<k>>)
           c == Msg(CertRequest, << >>)
           z == Msg(ServerDone, << >>)
<1>1. a \in Messages /\ b \in Messages /\ c \in Messages /\ z \in Messages
  <2>1. ServerHello \in Nat /\ ServerCert \in Nat /\ CertRequest \in Nat /\ ServerDone \in Nat
    BY DEF ServerHello, ServerCert, CertRequest, ServerDone
  <2>2. <<x>> \in Seq(Nat) /\ <<k>> \in Seq(Nat) /\ << >> \in Seq(Nat)
    OBVIOUS
  <2> QED  BY <2>1, <2>2, MsgIs
<1>2. Flight(x, k, req) = (<<a, b>> \o (IF req THEN <<c>> ELSE << >>)) \o <<z>>
  BY DEF Flight
<1> HIDE DEF a, b, c, z
<1>3. CASE req = TRUE
  <2>1. Flight(x, k, req) = (<<a, b>> \o <<c>>) \o <<z>>
    BY <1>2, <1>3
  <2>2. Flight(x, k, req) = <<a, b, c, z>>
    BY <2>1, Joined, ZenonT(45)
  <2>3. FlightLen(req) = 4
    BY <1>3 DEF FlightLen
  <2> QED  BY <1>1, <2>2, <2>3 DEF a, b, c, z
<1>4. CASE req = FALSE
  <2>1. Flight(x, k, req) = (<<a, b>> \o << >>) \o <<z>>
    BY <1>2, <1>4
  <2>2. Flight(x, k, req) = <<a, b, z>>
    BY <2>1, Joined
  <2>3. FlightLen(req) = 3
    BY <1>4 DEF FlightLen
  <2> QED  BY <1>1, <1>4, <2>2, <2>3 DEF a, b, c, z
<1> QED  BY <1>3, <1>4

LEMMA SaidType ==
  ASSUME NEW msgs, NEW n \in Nat, \A i \in 1 .. n : msgs[i] \in Messages
  PROVE  /\ [i \in 1 .. n |-> MsgBytes(msgs[i])] \in Seq(Seq(Nat)) /\ Said(msgs, n) \in Seq(Nat)
<1>1. \A i \in 1 .. n : MsgBytes(msgs[i]) \in Seq(Nat)
  BY MessagesType
<1>2. [i \in 1 .. n |-> MsgBytes(msgs[i])] \in Seq(Seq(Nat))
  BY <1>1
<1> QED  BY <1>2, FlattenType DEF Said

LEMMA SaidNone == ASSUME NEW msgs PROVE Said(msgs, 0) = << >>
<1>1. [i \in 1 .. 0 |-> MsgBytes(msgs[i])] = << >>
  OBVIOUS
<1> QED  BY <1>1, FlattenNone DEF Said

LEMMA SaidNext ==
  ASSUME NEW msgs, NEW n \in Nat, \A i \in 1 .. n + 1 : msgs[i] \in Messages
  PROVE  Said(msgs, n + 1) = Said(msgs, n) \o MsgBytes(msgs[n + 1])
<1> DEFINE a == [i \in 1 .. n |-> MsgBytes(msgs[i])]
           b == [i \in 1 .. n + 1 |-> MsgBytes(msgs[i])]
           y == MsgBytes(msgs[n + 1])
<1>1. n + 1 \in 1 .. n + 1 /\ \A i \in 1 .. n : i \in 1 .. n + 1
  OBVIOUS
<1>2. a \in Seq(Seq(Nat)) /\ b \in Seq(Seq(Nat)) /\ y \in Seq(Nat)
  <2>1. a \in Seq(Seq(Nat))
    <3>1. \A i \in 1 .. n : msgs[i] \in Messages
      BY <1>1
    <3> QED  BY <3>1, SaidType
  <2>2. b \in Seq(Seq(Nat))
    <3>1. n + 1 \in Nat
      OBVIOUS
    <3> QED  BY <3>1, SaidType
  <2>3. y \in Seq(Nat)
    BY <1>1, MessagesType
  <2> QED  BY <2>1, <2>2, <2>3
<1>3. Len(a) = n /\ Len(b) = n + 1 /\ b[n + 1] = y /\ \A i \in 1 .. n : b[i] = a[i]
  <2>1. DOMAIN a = 1 .. n /\ DOMAIN b = 1 .. n + 1
    OBVIOUS
  <2>2. b[n + 1] = y /\ \A i \in 1 .. n : b[i] = a[i]
    BY <1>1
  <2> HIDE DEF a, b
  <2> QED  BY <1>2, <2>1, <2>2, LenProperties
<1>4. Said(msgs, n + 1) = FlattenSeq(b) /\ Said(msgs, n) = FlattenSeq(a)
  BY DEF Said
<1> HIDE DEF a, b, y
<1>5. b = Append(a, y)
  <2>1. Append(a, y) \in Seq(Seq(Nat)) /\ Len(Append(a, y)) = n + 1 /\ Append(a, y)[n + 1] = y
        /\ \A i \in 1 .. n : Append(a, y)[i] = a[i]
    BY <1>2, <1>3, AppendProperties, LenProperties
  <2>2. \A i \in 1 .. n + 1 : Append(a, y)[i] = b[i]
    <3>1. \A i \in 1 .. n + 1 : i \in 1 .. n \/ i = n + 1
      OBVIOUS
    <3> QED  BY <1>3, <2>1, <3>1, Zenon
  <2>3. Len(b) = Len(Append(a, y)) /\ \A i \in 1 .. Len(b) : b[i] = Append(a, y)[i]
    BY <1>3, <2>1, <2>2
  <2> QED  BY ONLY <1>2, <2>1, <2>3, SeqEqual
<1>6. FlattenSeq(Append(a, y)) = FlattenSeq(a) \o y
  BY <1>2, FlattenAppend
<1> QED  BY <1>4, <1>5, <1>6 DEF y

LEMMA HeardIs ==
  ASSUME NEW client \in Nat, NEW x \in Nat, NEW k \in Nat, NEW req \in BOOLEAN,
         NEW n \in Nat, n <= FlightLen(req)
  PROVE  /\ Heard(client, x, k, req, n) \in Seq(Nat)
         /\ n < FlightLen(req) =>
              Heard(client, x, k, req, n + 1)
                = Heard(client, x, k, req, n) \o MsgBytes(Flight(x, k, req)[n + 1])
<1> DEFINE fl == Flight(x, k, req)
           hi == MsgBytes(Hello(client))
<1>1. FlightLen(req) \in Nat /\ \A i \in 1 .. FlightLen(req) : fl[i] \in Messages
  <2>1. fl \in Seq(Messages) /\ Len(fl) = FlightLen(req)
    BY FlightIs, Zenon
  <2>2. FlightLen(req) \in Nat
    BY FlightLenIs
  <2> HIDE DEF fl
  <2> QED  BY <2>1, <2>2, ElementOfSeq
<1>2. hi \in Seq(Nat)
  BY HelloIs
<1>3. \A i \in 1 .. n : fl[i] \in Messages
  BY <1>1
<1>4. Said(fl, n) \in Seq(Nat)
  BY <1>3, SaidType
<1>5. \A l : Heard(client, x, k, req, l) = hi \o Said(fl, l)
  BY DEF Heard
<1> HIDE DEF fl, hi
<1>6. hi \o Said(fl, n) \in Seq(Nat)
  BY <1>2, <1>4, ConcatProperties
<1>7. ASSUME n < FlightLen(req)
      PROVE  hi \o Said(fl, n + 1) = (hi \o Said(fl, n)) \o MsgBytes(fl[n + 1])
  <2>1. \A i \in 1 .. n + 1 : fl[i] \in Messages
    BY <1>1, <1>7
  <2> DEFINE y == MsgBytes(fl[n + 1])
             u == Said(fl, n)
  <2>2. y \in Seq(Nat)
    BY <2>1, MessagesType
  <2>3. Said(fl, n + 1) = u \o y
    BY <2>1, SaidNext
  <2>4. u \in Seq(Nat)
    BY <1>4
  <2> HIDE DEF y, u
  <2>5. (hi \o u) \o y = hi \o (u \o y)
    BY ONLY <1>2, <2>2, <2>4, Associates, ZenonT(60)
  <2> QED  BY <2>3, <2>5 DEF y, u
<1> QED  BY <1>5, <1>6, <1>7 DEF fl

LEMMA HeardNone ==
  ASSUME NEW client \in Nat, NEW x, NEW k, NEW req
  PROVE  Heard(client, x, k, req, 0) = MsgBytes(Hello(client))
<1>1. MsgBytes(Hello(client)) \in Seq(Nat)
  BY HelloIs
<1> DEFINE hi == MsgBytes(Hello(client))
<1>2. Heard(client, x, k, req, 0) = hi \o << >>
  BY SaidNone DEF Heard
<1> HIDE DEF hi
<1>3. hi \o << >> = hi
  BY <1>1, ConcatEmptySeq DEF hi
<1> QED  BY <1>2, <1>3 DEF hi

LEMMA FlattenHead ==
  ASSUME NEW T, NEW s \in Seq(Seq(T)), s # << >>
  PROVE  FlattenSeq(s) = Head(s) \o FlattenSeq(Tail(s))
<1> DEFINE x == Head(s)
           b == Tail(s)
<1>1. x \in Seq(T) /\ b \in Seq(Seq(T)) /\ Len(s) \in Nat /\ Len(s) # 0 /\ Len(b) = Len(s) - 1
      /\ s[1] = x /\ \A i \in 1 .. Len(b) : b[i] = s[i + 1]
  BY EmptySeq, LenProperties, HeadTailProperties
<1> HIDE DEF x, b
<1>2. <<x>> \in Seq(Seq(T)) /\ Len(<<x>>) = 1 /\ <<x>>[1] = x
  BY <1>1
<1>3. <<x>> \o b \in Seq(Seq(T)) /\ Len(<<x>> \o b) = Len(s)
      /\ \A i \in 1 .. Len(s) : (<<x>> \o b)[i] = s[i]
  <2> DEFINE a == <<x>>
  <2>1. a \in Seq(Seq(T)) /\ Len(a) = 1 /\ a[1] = x
    BY <1>2
  <2> HIDE DEF a
  <2>2. IsSeq(a) /\ IsSeq(b)
    BY <1>1, <2>1, SeqIs
  <2>3. /\ Len(a \o b) = Len(a) + Len(b)
        /\ \A i \in 1 .. Len(a) : (a \o b)[i] = a[i]
        /\ \A i \in 1 .. Len(b) : (a \o b)[Len(a) + i] = b[i]
    BY <2>2, CatIs
  <2>4. ASSUME NEW i \in 1 .. Len(s) PROVE (a \o b)[i] = s[i]
    <3>1. CASE i = 1
      BY <1>1, <2>1, <2>3, <3>1
    <3>2. CASE i # 1
      <4>1. i - 1 \in 1 .. Len(b) /\ 1 + (i - 1) = i /\ (i - 1) + 1 = i
        BY <1>1, <3>2
      <4>2. (a \o b)[1 + (i - 1)] = b[i - 1] /\ b[i - 1] = s[(i - 1) + 1]
        BY <1>1, <2>1, <2>3, <4>1
      <4> QED  BY <4>1, <4>2
    <3> QED  BY <3>1, <3>2
  <2>5. a \o b \in Seq(Seq(T))
    BY <1>1, <2>1, ConcatProperties
  <2> QED  BY <1>1, <2>1, <2>3, <2>4, <2>5 DEF a
<1>4. <<x>> \o b = s
  BY <1>3, SeqEqual
<1>5. FlattenSeq(<<x>> \o b) = x \o FlattenSeq(b)
  BY <1>1, FlattenCons
<1> QED  BY <1>4, <1>5 DEF x, b

\* A message that is still under way has not been hashed.
LEMMA HeardSame ==
  ASSUME NEW client, NEW x \in Nat, NEW k \in Nat, NEW y \in Nat, NEW l \in Nat,
         NEW req \in BOOLEAN, NEW n \in Nat, n >= 1 => x = y, n >= 2 => k = l,
         n <= FlightLen(req)
  PROVE  /\ Heard(client, x, k, req, n) = Heard(client, y, l, req, n)
         /\ \A i \in 1 .. n : Flight(x, k, req)[i] = Flight(y, l, req)[i]
<1>a. \A a, b \in Nat :
        /\ Flight(a, b, req)[1] = Msg(ServerHello, <<a>>)
        /\ Flight(a, b, req)[2] = Msg(ServerCert, <<b>>)
        /\ req = TRUE => Flight(a, b, req)[3] = Msg(CertRequest, << >>)
        /\ Flight(a, b, req)[FlightLen(req)] = Msg(ServerDone, << >>)
  BY FlightIs, ZenonT(45)
<1>1. ASSUME NEW i \in 1 .. n
      PROVE  Flight(x, k, req)[i] = Flight(y, l, req)[i]
  <2>1. i = 1 \/ i = 2 \/ i = 3 \/ i = 4
    BY FlightLenIs
  <2>2. CASE i = 1
    <3>1. x = y
      BY <2>2
    <3> QED  BY <1>a, <2>2, <3>1, ZenonT(45)
  <2>3. CASE i = 2
    <3>1. k = l
      BY <2>3
    <3> QED  BY <1>a, <2>3, <3>1
  <2>4. CASE i = FlightLen(req)
    BY <1>a, <2>4
  <2>5. CASE i = 3 /\ req = TRUE
    BY <1>a, <2>5, ZenonT(45)
  <2> QED  BY <2>1, <2>2, <2>3, <2>4, <2>5 DEF FlightLen
<1>2. [i \in 1 .. n |-> MsgBytes(Flight(x, k, req)[i])]
        = [i \in 1 .. n |-> MsgBytes(Flight(y, l, req)[i])]
  BY <1>1
<1> QED  BY <1>1, <1>2 DEF Heard, Said

\* The server's log after its flight (what both sides have said, 1455-1463).
LEMMA ServerLog ==
  ASSUME NEW client \in Nat, NEW x \in Nat, NEW k \in Nat, NEW req \in BOOLEAN
  PROVE  Flat(Handshake, <<Hello(client)>>) \o Flat(Handshake, Flight(x, k, req))
           = Log0(client, x, k, req)
<1> DEFINE fl == Flight(x, k, req)
           hi == MsgBytes(Hello(client))
<1>1. hi \in Seq(Nat)
  BY HelloIs
<1>2. Flat(Handshake, <<Hello(client)>>) = hi
  <2>1. [i \in DOMAIN <<Hello(client)>> |-> MsgBytes(<<Hello(client)>>[i])] = <<hi>>
    OBVIOUS
  <2>2. Flat(Handshake, <<Hello(client)>>) = FlattenSeq(<<hi>>)
    BY <2>1 DEF Flat
  <2> HIDE DEF hi
  <2> QED  BY <1>1, <2>2, FlattenOne
<1>3. Flat(Handshake, fl) = Said(fl, FlightLen(req))
  <2>1. DOMAIN fl = 1 .. FlightLen(req)
    <3>1. fl \in Seq(Messages) /\ Len(fl) = FlightLen(req)
      BY FlightIs, Zenon
    <3> HIDE DEF fl
    <3> QED  BY <3>1, LenProperties
  <2> QED  BY <2>1 DEF Flat, Said
<1> QED  BY <1>2, <1>3 DEF Log0, Heard

LEMMA LogIs ==
  ASSUME NEW client \in Nat, NEW x \in Nat, NEW k \in Nat, NEW req \in BOOLEAN,
         NEW e \in Seq(Nat)
  PROVE  /\ \A j \in 0 .. 4 : Log(client, x, k, req, e, j) \in Seq(Nat)
         /\ Log(client, x, k, req, e, 0) = Heard(client, x, k, req, FlightLen(req))
         /\ Log(client, x, k, req, e, 1)
              = IF req = TRUE THEN Log(client, x, k, req, e, 0) \o MsgBytes(NoCert)
                ELSE Log(client, x, k, req, e, 0)
         /\ Log(client, x, k, req, e, 2)
              = Log(client, x, k, req, e, 1) \o MsgBytes(Msg(ClientKeyEx, e))
         /\ Log(client, x, k, req, e, 3) = Log(client, x, k, req, e, 2)
         /\ Log(client, x, k, req, e, 4)
              = Log(client, x, k, req, e, 3) \o MsgBytes(Msg(Finished, << >>))
         /\ MsgBytes(NoCert) \in Seq(Nat) /\ MsgBytes(Msg(ClientKeyEx, e)) \in Seq(Nat)
         /\ MsgBytes(Msg(Finished, << >>)) \in Seq(Nat)
<1> DEFINE l0 == Log0(client, x, k, req)
           l1 == Log1(client, x, k, req)
           l2 == Log2(client, x, k, req, e)
           l4 == Log4(client, x, k, req, e)
           b1 == MsgBytes(NoCert)
           b2 == MsgBytes(Msg(ClientKeyEx, e))
           b4 == MsgBytes(Msg(Finished, << >>))
<1>1. b1 \in Seq(Nat) /\ b2 \in Seq(Nat) /\ b4 \in Seq(Nat)
  <2>1. << >> \in Seq(Nat) /\ ServerCert \in Nat /\ ClientKeyEx \in Nat /\ Finished \in Nat
    BY DEF ServerCert, ClientKeyEx, Finished
  <2> QED  BY <2>1, MsgIs, MessagesType DEF NoCert
<1>2. /\ Log(client, x, k, req, e, 0) = l0 /\ Log(client, x, k, req, e, 1) = l1
      /\ Log(client, x, k, req, e, 2) = l2 /\ Log(client, x, k, req, e, 3) = l2
      /\ Log(client, x, k, req, e, 4) = l4
  BY DEF Log
<1>3. l0 = Heard(client, x, k, req, FlightLen(req)) /\ l0 \in Seq(Nat)
  <2>1. FlightLen(req) \in Nat /\ FlightLen(req) <= FlightLen(req)
    BY FlightLenIs
  <2> QED  BY <2>1, HeardIs DEF Log0
<1>4. l1 = (IF req = TRUE THEN l0 \o b1 ELSE l0) /\ l2 = l1 \o b2 /\ l4 = l2 \o b4
  BY DEF Log1, Log2, Log4
<1> HIDE DEF l0, l1, l2, l4, b1, b2, b4
<1>5. l1 \in Seq(Nat)
  <2>1. l0 \o b1 \in Seq(Nat)
    BY <1>1, <1>3, ConcatProperties
  <2> QED  BY <1>3, <1>4, <2>1
<1>6. l2 \in Seq(Nat)
  <2>1. l1 \o b2 \in Seq(Nat)
    BY <1>1, <1>5, ConcatProperties
  <2> QED  BY <1>4, <2>1
<1>7. l4 \in Seq(Nat)
  <2>1. l2 \o b4 \in Seq(Nat)
    BY <1>1, <1>6, ConcatProperties
  <2> QED  BY <1>4, <2>1
<1>8. \A j \in 0 .. 4 : j = 0 \/ j = 1 \/ j = 2 \/ j = 3 \/ j = 4
  OBVIOUS
<1>9. \A j \in 0 .. 4 : Log(client, x, k, req, e, j) \in Seq(Nat)
  BY <1>2, <1>3, <1>5, <1>6, <1>7, <1>8
<1> QED  BY <1>1, <1>2, <1>3, <1>4, <1>9 DEF b1, b2, b4

\* Before the pre-master secret is sent, no log depends on it.
LEMMA LogEarly ==
  ASSUME NEW client, NEW x, NEW k, NEW req, NEW e, NEW u, NEW j \in {0, 1}
  PROVE  Log(client, x, k, req, e, j) = Log(client, x, k, req, u, j)
BY DEF Log

\* The random and the certificate that were heard can be read from the log.
LEMMA FlightBytes ==
  ASSUME NEW client \in Nat, NEW x \in Nat, NEW k \in Nat, NEW req \in BOOLEAN
  PROVE  \E rest \in Seq(Nat) :
           Log0(client, x, k, req)
             = <<1, 1, client>> \o (<<2, 1, x>> \o (<<11, 1, k>> \o rest))
<1> DEFINE fl == Flight(x, k, req)
           n == FlightLen(req)
           all == [i \in 1 .. n |-> MsgBytes(fl[i])]
<1>1. n \in {3, 4} /\ \A i \in 1 .. n : fl[i] \in Messages
  <2>1. fl \in Seq(Messages) /\ Len(fl) = n
    BY FlightIs, Zenon
  <2>2. n \in {3, 4}
    BY FlightLenIs
  <2> HIDE DEF fl, n
  <2> QED  BY <2>1, <2>2, ElementOfSeq
<1>2. MsgBytes(fl[1]) = <<2, 1, x>> /\ MsgBytes(fl[2]) = <<11, 1, k>>
  <2>1. <<x>> \in Seq(Nat) /\ <<k>> \in Seq(Nat) /\ 2 \in Nat /\ 11 \in Nat
    OBVIOUS
  <2>2. fl[1] = Msg(2, <<x>>) /\ fl[2] = Msg(11, <<k>>)
    BY FlightIs DEF ServerHello, ServerCert
  <2>3. /\ Msg(2, <<x>>).t = 2 /\ Msg(2, <<x>>).v = <<x>>
        /\ Msg(11, <<k>>).t = 11 /\ Msg(11, <<k>>).v = <<k>>
    BY <2>1, MsgIs, ZenonT(45)
  <2> HIDE DEF fl
  <2>4. MsgBytes(fl[1]) = <<2, 1>> \o <<x>> /\ MsgBytes(fl[2]) = <<11, 1>> \o <<k>>
    <3>1. Len(<<x>>) = 1 /\ Len(<<k>>) = 1
      OBVIOUS
    <3> QED  BY <2>2, <2>3, <3>1 DEF MsgBytes
  <2>5. <<2, 1>> \o <<x>> = <<2, 1, x>> /\ <<11, 1>> \o <<k>> = <<11, 1, k>>
    BY Joined
  <2> QED  BY <2>4, <2>5
<1>3. all \in Seq(Seq(Nat)) /\ Len(all) = n /\ all[1] = <<2, 1, x>> /\ all[2] = <<11, 1, k>>
  <2> HIDE DEF fl, n
  <2>1. all \in Seq(Seq(Nat))
    BY <1>1, SaidType
  <2> QED  BY <1>1, <1>2, <2>1, LenProperties
<1>4. Log0(client, x, k, req) = <<1, 1, client>> \o FlattenSeq(all)
  BY HelloIs DEF Log0, Heard, Said
<1> HIDE DEF all, n, fl
<1> DEFINE t == Tail(all)
           u == Tail(t)
<1>5. /\ t \in Seq(Seq(Nat)) /\ u \in Seq(Seq(Nat))
      /\ FlattenSeq(all) = <<2, 1, x>> \o FlattenSeq(t)
      /\ FlattenSeq(t) = <<11, 1, k>> \o FlattenSeq(u)
  <2>1. all # << >> /\ Head(all) = <<2, 1, x>> /\ t \in Seq(Seq(Nat)) /\ Len(t) = n - 1
        /\ t[1] = <<11, 1, k>>
    BY <1>1, <1>3, HeadTailProperties, EmptySeq
  <2>2. FlattenSeq(all) = <<2, 1, x>> \o FlattenSeq(t)
    BY <1>3, <2>1, FlattenHead
  <2> HIDE DEF t
  <2>3. t # << >> /\ Head(t) = <<11, 1, k>> /\ u \in Seq(Seq(Nat))
    BY <1>1, <2>1, HeadTailProperties, EmptySeq
  <2>4. FlattenSeq(t) = <<11, 1, k>> \o FlattenSeq(u)
    BY <2>1, <2>3, FlattenHead
  <2> QED  BY <2>1, <2>2, <2>3, <2>4
<1> HIDE DEF t, u
<1>6. FlattenSeq(u) \in Seq(Nat)
  BY <1>5, FlattenType
<1> QED  BY <1>4, <1>5, <1>6

Tells(m, x, k) == m \in Seq(Nat) /\ Len(m) >= 9 /\ m[6] = x /\ m[9] = k

LEMMA TellsMore ==
  ASSUME NEW m, NEW x, NEW k, Tells(m, x, k), NEW z \in Seq(Nat) PROVE Tells(m \o z, x, k)
<1>1. m \in Seq(Nat) /\ Len(m) \in Nat /\ Len(m) >= 9 /\ Len(z) \in Nat
  BY LenProperties DEF Tells
<1>2. IsSeq(m) /\ IsSeq(z)
  BY <1>1, SeqIs
<1>3. Len(m \o z) = Len(m) + Len(z) /\ \A i \in 1 .. Len(m) : (m \o z)[i] = m[i]
  BY <1>2, CatIs
<1>4. m \o z \in Seq(Nat)
  BY <1>1, ConcatProperties
<1>5. (m \o z)[6] = m[6] /\ (m \o z)[9] = m[9]
  BY <1>1, <1>3
<1> QED  BY <1>1, <1>3, <1>4, <1>5 DEF Tells

LEMMA FlightTells ==
  ASSUME NEW client \in Nat, NEW x \in Nat, NEW k \in Nat, NEW req \in BOOLEAN
  PROVE  Tells(Log0(client, x, k, req), x, k)
<1>1. PICK rest \in Seq(Nat) :
        Log0(client, x, k, req) = <<1, 1, client>> \o (<<2, 1, x>> \o (<<11, 1, k>> \o rest))
  BY FlightBytes, ZenonT(45)
<1> DEFINE a == <<1, 1, client>>
           b == <<2, 1, x>>
           c == <<11, 1, k>>
           p == c \o rest
           q == b \o p
<1>2. /\ a \in Seq(Nat) /\ Len(a) = 3 /\ b \in Seq(Nat) /\ Len(b) = 3 /\ b[3] = x
      /\ c \in Seq(Nat) /\ Len(c) = 3 /\ c[3] = k
  OBVIOUS
<1> HIDE DEF a, b, c
<1>3. /\ p \in Seq(Nat) /\ Len(p) \in Nat /\ Len(p) >= 3 /\ p[3] = k
  <2>1. IsSeq(c) /\ IsSeq(rest) /\ Len(rest) \in Nat
    BY <1>2, SeqIs, LenProperties
  <2>2. Len(p) = Len(c) + Len(rest) /\ \A i \in 1 .. Len(c) : p[i] = c[i]
    BY <2>1, CatIs
  <2>3. p \in Seq(Nat)
    BY <1>2, ConcatProperties
  <2> HIDE DEF p
  <2> QED  BY <1>2, <2>1, <2>2, <2>3
<1> HIDE DEF p
<1>4. q \in Seq(Nat) /\ Len(q) \in Nat /\ Len(q) >= 6 /\ q[3] = x /\ q[6] = k
  <2>1. IsSeq(b) /\ IsSeq(p)
    BY <1>2, <1>3, SeqIs
  <2>2. /\ Len(q) = Len(b) + Len(p) /\ \A i \in 1 .. Len(b) : q[i] = b[i]
        /\ \A i \in 1 .. Len(p) : q[Len(b) + i] = p[i]
    BY <2>1, CatIs
  <2>3. q \in Seq(Nat)
    BY <1>2, <1>3, ConcatProperties
  <2> HIDE DEF q
  <2>4. q[3] = b[3] /\ q[3 + 3] = p[3]
    BY <1>2, <1>3, <2>2
  <2> QED  BY <1>2, <1>3, <2>2, <2>3, <2>4
<1> HIDE DEF q
<1> DEFINE v == a \o q
<1>5. v \in Seq(Nat) /\ Len(v) >= 9 /\ v[6] = x /\ v[9] = k
  <2>1. IsSeq(a) /\ IsSeq(q)
    BY <1>2, <1>4, SeqIs
  <2>2. Len(v) = Len(a) + Len(q) /\ \A i \in 1 .. Len(q) : v[Len(a) + i] = q[i]
    BY <2>1, CatIs
  <2>3. v \in Seq(Nat)
    BY <1>2, <1>4, ConcatProperties
  <2> HIDE DEF v
  <2>4. 3 \in 1 .. Len(q) /\ 6 \in 1 .. Len(q) /\ Len(a) + 3 = 6 /\ Len(a) + 6 = 9
    BY <1>2, <1>4
  <2>5. v[6] = q[3] /\ v[9] = q[6]
    BY ONLY <2>2, <2>4
  <2>6. Len(v) >= 9
    BY <1>2, <1>4, <2>2
  <2> QED  BY <1>4, <2>3, <2>5, <2>6
<1>6. Log0(client, x, k, req) = a \o q
  BY <1>1 DEF a, b, c, p, q
<1> QED  BY <1>5, <1>6 DEF Tells

\* Two sides that have hashed the same have the same random and certificate.
LEMMA LogTells ==
  ASSUME NEW client \in Nat, NEW x \in Nat, NEW k \in Nat, NEW req \in BOOLEAN, NEW e \in Seq(Nat)
  PROVE  Tells(Log(client, x, k, req, e, 3), x, k)
<1> DEFINE l0 == Log0(client, x, k, req)
           l1 == Log1(client, x, k, req)
           b1 == MsgBytes(NoCert)
           b2 == MsgBytes(Msg(ClientKeyEx, e))
<1>1. b1 \in Seq(Nat) /\ b2 \in Seq(Nat)
  BY LogIs, Zenon
<1>2. Tells(l0, x, k)
  BY FlightTells
<1>3. l1 = (IF req = TRUE THEN l0 \o b1 ELSE l0) /\ Log(client, x, k, req, e, 3) = l1 \o b2
  BY DEF Log, Log1, Log2
<1> HIDE DEF l0, l1, b1, b2
<1>4. Tells(l0 \o b1, x, k)
  BY <1>1, <1>2, TellsMore
<1>5. Tells(l1, x, k)
  BY <1>2, <1>3, <1>4
<1>6. Tells(l1 \o b2, x, k)
  BY <1>1, <1>5, TellsMore
<1> QED  BY <1>3, <1>6

LEMMA SameLog ==
  ASSUME NEW client \in Nat, NEW x \in Nat, NEW k \in Nat, NEW req \in BOOLEAN,
         NEW e \in Seq(Nat), NEW y \in Nat, NEW l \in Nat, NEW need \in BOOLEAN,
         Log(client, x, k, req, e, 3) = Log(client, y, l, need, e, 3)
  PROVE  x = y /\ k = l
<1>1. Tells(Log(client, x, k, req, e, 3), x, k) /\ Tells(Log(client, y, l, need, e, 3), y, l)
  BY LogTells
<1> QED  BY <1>1 DEF Tells

----------------------------------------------------------------------------
(***************************************************************************)
(* The client hears the flight, a record at a time (1369-1450).            *)
(***************************************************************************)
\* g is h with new fields, but those that the flight leaves alone.
SameCall(h, g) == IsHandshake(g) /\ g.at = h.at /\ g.client = h.client /\ g.got_ccs = h.got_ccs

LEMMA NotedIs ==
  ASSUME NEW h, IsHandshake(h), NEW m
  PROVE  /\ SameCall(h, Noted(h, m)) /\ Noted(h, m).hash = sha256_update[h.hash][MsgBytes(m)]
         /\ m.t = ServerHello =>
              /\ Noted(h, m).got_hello = TRUE /\ Noted(h, m).server = m.v[1]
              /\ Noted(h, m).got_cert = h.got_cert /\ Noted(h, m).cert = h.cert
              /\ Noted(h, m).cert_requested = h.cert_requested /\ Noted(h, m).got_done = h.got_done
         /\ m.t = ServerCert =>
              /\ Noted(h, m).got_hello = h.got_hello /\ Noted(h, m).server = h.server
              /\ Noted(h, m).got_cert = TRUE /\ Noted(h, m).cert = m.v[1]
              /\ Noted(h, m).cert_requested = h.cert_requested /\ Noted(h, m).got_done = h.got_done
         /\ m.t = CertRequest =>
              /\ Noted(h, m).got_hello = h.got_hello /\ Noted(h, m).server = h.server
              /\ Noted(h, m).got_cert = h.got_cert /\ Noted(h, m).cert = h.cert
              /\ Noted(h, m).cert_requested = TRUE /\ Noted(h, m).got_done = h.got_done
         /\ m.t = ServerDone =>
              /\ Noted(h, m).got_hello = h.got_hello /\ Noted(h, m).server = h.server
              /\ Noted(h, m).got_cert = h.got_cert /\ Noted(h, m).cert = h.cert
              /\ Noted(h, m).cert_requested = h.cert_requested /\ Noted(h, m).got_done = TRUE
<1> DEFINE u == sha256_update[h.hash][MsgBytes(m)]
           g == [h EXCEPT !.hash = u]
<1>1. /\ IsHandshake(g) /\ g.hash = u /\ g.at = h.at /\ g.client = h.client
      /\ g.server = h.server /\ g.cert = h.cert /\ g.got_hello = h.got_hello
      /\ g.got_cert = h.got_cert /\ g.got_done = h.got_done /\ g.got_ccs = h.got_ccs
      /\ g.cert_requested = h.cert_requested
  <2> HIDE DEF u
  <2> QED  BY DEF IsHandshake
<1>2. /\ m.t = ServerHello => Noted(h, m) = [g EXCEPT !.server = m.v[1], !.got_hello = TRUE]
      /\ m.t = ServerCert => Noted(h, m) = [g EXCEPT !.cert = m.v[1], !.got_cert = TRUE]
      /\ m.t = CertRequest => Noted(h, m) = [g EXCEPT !.cert_requested = TRUE]
      /\ m.t = ServerDone => Noted(h, m) = [g EXCEPT !.got_done = TRUE]
      /\ m.t \notin {ServerHello, ServerCert, CertRequest, ServerDone} => Noted(h, m) = g
  BY DEF Noted, ServerHello, ServerCert, CertRequest, ServerDone
<1> DEFINE d == Noted(h, m)
<1> HIDE DEF u, g, d
<1>3. CASE m.t = ServerHello
  <2>1. d = [g EXCEPT !.server = m.v[1], !.got_hello = TRUE]
    BY <1>2, <1>3 DEF d
  <2>2. /\ SameCall(h, d) /\ d.hash = u /\ d.got_hello = TRUE /\ d.server = m.v[1]
        /\ d.got_cert = h.got_cert /\ d.cert = h.cert
        /\ d.cert_requested = h.cert_requested /\ d.got_done = h.got_done
    BY <1>1, <2>1 DEF IsHandshake, SameCall
  <2> QED  BY <1>3, <2>2 DEF d, u, ServerHello, ServerCert, CertRequest, ServerDone
<1>4. CASE m.t = ServerCert
  <2>1. d = [g EXCEPT !.cert = m.v[1], !.got_cert = TRUE]
    BY <1>2, <1>4 DEF d
  <2>2. /\ SameCall(h, d) /\ d.hash = u /\ d.got_hello = h.got_hello /\ d.server = h.server
        /\ d.got_cert = TRUE /\ d.cert = m.v[1]
        /\ d.cert_requested = h.cert_requested /\ d.got_done = h.got_done
    BY <1>1, <2>1 DEF IsHandshake, SameCall
  <2> QED  BY <1>4, <2>2 DEF d, u, ServerHello, ServerCert, CertRequest, ServerDone
<1>5. CASE m.t = CertRequest
  <2>1. d = [g EXCEPT !.cert_requested = TRUE]
    BY <1>2, <1>5 DEF d
  <2>2. /\ SameCall(h, d) /\ d.hash = u /\ d.got_hello = h.got_hello /\ d.server = h.server
        /\ d.got_cert = h.got_cert /\ d.cert = h.cert
        /\ d.cert_requested = TRUE /\ d.got_done = h.got_done
    BY <1>1, <2>1 DEF IsHandshake, SameCall
  <2> QED  BY <1>5, <2>2 DEF d, u, ServerHello, ServerCert, CertRequest, ServerDone
<1>6. CASE m.t = ServerDone
  <2>1. d = [g EXCEPT !.got_done = TRUE]
    BY <1>2, <1>6 DEF d
  <2>2. /\ SameCall(h, d) /\ d.hash = u /\ d.got_hello = h.got_hello /\ d.server = h.server
        /\ d.got_cert = h.got_cert /\ d.cert = h.cert
        /\ d.cert_requested = h.cert_requested /\ d.got_done = TRUE
    BY <1>1, <2>1 DEF IsHandshake, SameCall
  <2> QED  BY <1>6, <2>2 DEF d, u, ServerHello, ServerCert, CertRequest, ServerDone
<1>7. CASE m.t \notin {ServerHello, ServerCert, CertRequest, ServerDone}
  <2>1. d = g
    BY <1>2, <1>7 DEF d
  <2>2. SameCall(h, d) /\ d.hash = u
    BY <1>1, <2>1 DEF SameCall
  <2> QED  BY <1>7, <2>2 DEF d, u
<1> QED  BY <1>3, <1>4, <1>5, <1>6, <1>7

LEMMA MsgFields ==
  /\ \A t, v : Msg(t, v).t = t /\ Msg(t, v).v = v
  /\ \A x : <<x>>[1] = x
BY DEF Msg

\* One message of the flight is heard.
LEMMA HeardOne ==
  ASSUME NEW x \in Nat, NEW k \in Nat, NEW req \in BOOLEAN, NEW h, IsHandshake(h),
         h.client \in Nat, NEW n \in Nat, n < FlightLen(req), Listening(h, x, k, req, n)
  PROVE  LET g == Noted(h, Flight(x, k, req)[n + 1])
         IN SameCall(h, g) /\ Listening(g, x, k, req, n + 1)
<1> DEFINE m == Flight(x, k, req)[n + 1]
           g == Noted(h, m)
<1>1. /\ Flight(x, k, req)[1] = Msg(ServerHello, <<x>>)
      /\ Flight(x, k, req)[2] = Msg(ServerCert, <<k>>)
      /\ req = TRUE => Flight(x, k, req)[3] = Msg(CertRequest, << >>)
      /\ Flight(x, k, req)[FlightLen(req)] = Msg(ServerDone, << >>)
  BY FlightIs, Zenon
<1>2. /\ n = 0 => m.t = ServerHello /\ m.v[1] = x
      /\ n = 1 => m.t = ServerCert /\ m.v[1] = k
      /\ n = 2 /\ req = TRUE => m.t = CertRequest
      /\ n + 1 = FlightLen(req) => m.t = ServerDone
  BY <1>1, MsgFields
<1> DEFINE L == FlightLen(req)
<1>a. (req = TRUE /\ L = 4) \/ (req = FALSE /\ L = 3)
  BY DEF FlightLen
<1> HIDE DEF L
<1>b. n < L
  BY DEF L
<1>3. /\ n \in {0, 1, 2, 3} /\ (n = 3 => req = TRUE /\ n + 1 = L)
      /\ (n = 2 /\ req = FALSE => n + 1 = L) /\ (n < 2 => n + 1 # L)
      /\ (n = 2 /\ req = TRUE => n + 1 # L) /\ (n + 1 = L => n >= 2 /\ (req = TRUE => n = 3))
      /\ L \in Nat /\ n # L /\ n + 1 \in 0 .. L /\ n + 1 \in 1 .. L /\ n <= L
  BY <1>a, <1>b
<1>4. Fed(g.hash, Heard(h.client, x, k, req, n + 1), 0)
  <2>1. g.hash = sha256_update[h.hash][MsgBytes(m)]
    <3> HIDE DEF m
    <3> QED  BY NotedIs
  <2>2. m \in Messages
    <3>1. Flight(x, k, req) \in Seq(Messages) /\ Len(Flight(x, k, req)) = FlightLen(req)
      BY FlightIs, ZenonT(45)
    <3>2. n + 1 \in 1 .. FlightLen(req)
      BY <1>3 DEF L
    <3> DEFINE fl == Flight(x, k, req)
    <3> HIDE DEF fl
    <3>3. fl[n + 1] \in Messages
      BY <3>1, <3>2, ElementOfSeq DEF fl
    <3> QED  BY <3>3 DEF fl
  <2> DEFINE z == MsgBytes(m)
             y == Heard(h.client, x, k, req, n)
  <2>3. z \in Seq(Nat)
    BY <2>2, MessagesType
  <2>4. Fed(h.hash, y, 0)
    BY DEF Listening
  <2>5. Heard(h.client, x, k, req, n + 1) = y \o z
    <3>1. n <= FlightLen(req) /\ n < FlightLen(req)
      BY <1>3 DEF L
    <3> DEFINE fl == Flight(x, k, req)
               cl == h.client
    <3>2. \A u \in Nat : Heard(u, x, k, req, n + 1) = Heard(u, x, k, req, n) \o MsgBytes(fl[n + 1])
      <4>1. ASSUME NEW u \in Nat
            PROVE  n < FlightLen(req) =>
                     Heard(u, x, k, req, n + 1) = Heard(u, x, k, req, n) \o MsgBytes(fl[n + 1])
        BY <3>1, HeardIs, SMTT(40)
      <4> QED  BY <3>1, <4>1, Zenon
    <3>3. cl \in Nat
      OBVIOUS
    <3> HIDE DEF fl, cl
    <3>4. Heard(cl, x, k, req, n + 1) = Heard(cl, x, k, req, n) \o MsgBytes(fl[n + 1])
      BY <3>2, <3>3, Zenon
    <3> QED  BY <3>4, Zenon DEF fl, cl
  <2> HIDE DEF z, y
  <2>6. Fed(sha256_update[h.hash][z], y \o z, 0)
    BY <2>3, <2>4, Feed256
  <2> QED  BY <2>1, <2>5, <2>6 DEF z
<1>5. SameCall(h, g)
  BY NotedIs, Zenon
<1>6. /\ h.at = "flight" /\ h.got_ccs = FALSE /\ (n >= 1 => h.got_hello = TRUE /\ h.server = x)
      /\ (n >= 2 => h.got_cert = TRUE /\ h.cert = k)
      /\ (req = TRUE /\ n >= 3 => h.cert_requested = TRUE)
      /\ (req = FALSE \/ n < 3 => h.cert_requested = FALSE) /\ h.got_done = FALSE
  BY <1>3 DEF Listening, L
<1>7. /\ n + 1 >= 1 => g.got_hello = TRUE /\ g.server = x
      /\ n + 1 >= 2 => g.got_cert = TRUE /\ g.cert = k
      /\ req = TRUE /\ n + 1 >= 3 => g.cert_requested = TRUE
      /\ req = FALSE \/ n + 1 < 3 => g.cert_requested = FALSE
      /\ g.got_done = IF n + 1 = L THEN TRUE ELSE FALSE
  <2>0. /\ n + 1 = L => m.t = ServerDone
        /\ n = 0 => m.t = ServerHello /\ m.v[1] = x
        /\ n = 1 => m.t = ServerCert /\ m.v[1] = k
        /\ n = 2 /\ req = TRUE => m.t = CertRequest
    BY <1>2 DEF L
  <2> HIDE DEF g, m
  <2>1. CASE n = 0
    <3>1. /\ g.got_hello = TRUE /\ g.server = x /\ g.cert_requested = h.cert_requested
          /\ g.got_done = h.got_done
      BY <2>0, <2>1, NotedIs, ZenonT(45) DEF g
    <3>2. n + 1 >= 1 /\ ~(n + 1 >= 2) /\ ~(n + 1 >= 3) /\ n + 1 < 3 /\ n + 1 # L /\ n < 3
      BY ONLY <1>3, <2>1, n \in Nat
    <3> QED  BY ONLY <1>6, <2>1, <3>1, <3>2, req \in BOOLEAN, Zenon
  <2>2. CASE n = 1
    <3>1. /\ g.got_hello = h.got_hello /\ g.server = h.server /\ g.got_cert = TRUE /\ g.cert = k
          /\ g.cert_requested = h.cert_requested /\ g.got_done = h.got_done
      BY <2>0, <2>2, NotedIs, ZenonT(60) DEF g
    <3>2. n >= 1 /\ ~(n + 1 >= 3) /\ n + 1 < 3 /\ n + 1 # L /\ n < 3
      BY ONLY <1>3, <2>2, n \in Nat
    <3> QED  BY ONLY <1>6, <2>2, <3>1, <3>2, req \in BOOLEAN, Zenon
  <2>3. CASE n = 2 /\ req = TRUE
    <3>1. /\ g.got_hello = h.got_hello /\ g.server = h.server /\ g.got_cert = h.got_cert
          /\ g.cert = h.cert /\ g.cert_requested = TRUE /\ g.got_done = h.got_done
      BY <2>0, <2>3, NotedIs, ZenonT(45) DEF g
    <3>2. n >= 1 /\ n >= 2 /\ ~(n + 1 < 3) /\ n + 1 # L /\ req # FALSE
      BY ONLY <1>3, <2>3, n \in Nat
    <3> QED  BY ONLY <1>6, <2>3, <3>1, <3>2, req \in BOOLEAN, Zenon
  <2>4. CASE n + 1 = L
    <3>0. m.t = ServerDone
      BY <2>0, <2>4
    <3>1. /\ g.got_hello = h.got_hello /\ g.server = h.server /\ g.got_cert = h.got_cert
          /\ g.cert = h.cert /\ g.cert_requested = h.cert_requested /\ g.got_done = TRUE
      BY <3>0, NotedIs DEF g
    <3>2. n >= 1 /\ n >= 2 /\ ~(n + 1 < 3) /\ (req = TRUE => n >= 3)
      BY ONLY <1>3, <2>4, n \in Nat
    <3> QED  BY ONLY <1>6, <2>4, <3>1, <3>2, req \in BOOLEAN, Zenon
  <2> QED  BY ONLY <1>a, <1>3, <2>1, <2>2, <2>3, <2>4, req \in BOOLEAN
<1>8. g.at = "flight" /\ g.got_ccs = FALSE /\ g.client = h.client
  BY <1>5, <1>6 DEF SameCall
<1> HIDE DEF g
<1>9. Listening(g, x, k, req, n + 1)
  BY <1>3, <1>4, <1>7, <1>8 DEF Listening, L
<1> QED  BY <1>5, <1>9 DEF g

LEMMA NoteDef ==
  ASSUME NEW h PROVE \A s : AllNoted(h, s) = NoteFold!Fold(h, s)
BY DEF AllNoted, NoteFold!Fold, NoteFold!Largest, FoldLeft, MapThenFoldSet, Max

LEMMA NoteNone == ASSUME NEW h PROVE AllNoted(h, << >>) = h
BY NoteDef, NoteFold!FoldEmpty

LEMMA NoteOne ==
  ASSUME NEW h, NEW T, NEW s \in Seq(T), NEW m \in T
  PROVE  AllNoted(h, Append(s, m)) = Noted(AllNoted(h, s), m)
BY NoteDef, NoteFold!FoldAppend

\* A record of the flight.
LEMMA HeardAll ==
  ASSUME NEW x \in Nat, NEW k \in Nat, NEW req \in BOOLEAN, NEW h, IsHandshake(h),
         h.client \in Nat, NEW n \in Nat, Listening(h, x, k, req, n)
  PROVE  \A s \in Seq(Messages) :
           /\ n + Len(s) <= FlightLen(req)
           /\ \A i \in 1 .. Len(s) : s[i] = Flight(x, k, req)[n + i]
           => SameCall(h, AllNoted(h, s)) /\ Listening(AllNoted(h, s), x, k, req, n + Len(s))
<1> DEFINE part(s) == /\ n + Len(s) <= FlightLen(req)
                      /\ \A i \in 1 .. Len(s) : s[i] = Flight(x, k, req)[n + i]
           done(s) == SameCall(h, AllNoted(h, s))
                /\ Listening(AllNoted(h, s), x, k, req, n + Len(s))
           G == {s \in Seq(Messages) : part(s) => done(s)}
<1>1. << >> \in G
  <2>1. done(<< >>)
    BY NoteNone DEF SameCall
  <2>2. << >> \in Seq(Messages)
    BY EmptySeq
  <2> HIDE DEF done, part
  <2> QED  BY <2>1, <2>2
<1>2. ASSUME NEW s \in G, NEW m \in Messages PROVE Append(s, m) \in G
  <2> DEFINE t == Append(s, m)
             l == Len(s)
  <2>1. /\ s \in Seq(Messages) /\ l \in Nat /\ t \in Seq(Messages) /\ Len(t) = l + 1
        /\ t[l + 1] = m /\ \A i \in 1 .. l : t[i] = s[i]
    BY AppendProperties, LenProperties
  <2> SUFFICES ASSUME part(t) PROVE done(t)
    BY <2>1
  <2>2. AllNoted(h, t) = Noted(AllNoted(h, s), m)
    BY <2>1, NoteOne
  <2> HIDE DEF t
  <2>3. FlightLen(req) \in Nat
    BY FlightLenIs, SMTT(40)
  <2>4. part(s)
    <3>1. n + l <= FlightLen(req)
      BY <2>1, <2>3
    <3>2. \A i \in 1 .. l : i \in 1 .. l + 1
      BY <2>1
    <3> QED  BY <2>1, <3>1, <3>2
  <2>5. m = Flight(x, k, req)[(n + l) + 1] /\ n + l \in Nat /\ n + l < FlightLen(req)
    <3>1. l + 1 \in 1 .. l + 1 /\ n + (l + 1) = (n + l) + 1 /\ n + l \in Nat
      BY <2>1
    <3> QED  BY <2>1, <2>3, <3>1, SMTT(40)
  <2> DEFINE g == AllNoted(h, s)
  <2>6. SameCall(h, g) /\ Listening(g, x, k, req, n + l)
    BY <2>4
  <2> HIDE DEF g, l
  <2>7. IsHandshake(g) /\ g.client \in Nat
    BY <2>6 DEF SameCall
  <2>8. SameCall(g, Noted(g, m)) /\ Listening(Noted(g, m), x, k, req, (n + l) + 1)
    BY <2>5, <2>6, <2>7, HeardOne
  <2>9. (n + l) + 1 = n + Len(t)
    BY <2>1
  <2>10. SameCall(h, Noted(g, m))
    BY <2>6, <2>8 DEF SameCall
  <2> QED  BY <2>2, <2>8, <2>9, <2>10 DEF g
<1> HIDE DEF G
<1>3. G \in SUBSET Seq(Messages)
  BY DEF G
<1>4. G = Seq(Messages)
  BY <1>1, <1>2, <1>3, NoteFold!SeqInduction
<1> QED  BY <1>4 DEF G


----------------------------------------------------------------------------
(***************************************************************************)
(* The flight in records, and a number of it changed on the way.           *)
(***************************************************************************)
Marks == [m : Messages, starts : BOOLEAN]
Cut(s) == FoldLeft(Continued, << >>, s)
Flow(s) == [n \in 1 .. Len(s) |-> s[n].m]

LEMMA CutDef == \A s : Cut(s) = CutFold!Fold(<< >>, s)
BY DEF Cut, CutFold!Fold, CutFold!Largest, FoldLeft, MapThenFoldSet, Max

LEMMA CutNone == Cut(<< >>) = << >>
BY CutDef, CutFold!FoldEmpty

LEMMA CutOne ==
  ASSUME NEW s \in Seq(Marks), NEW x \in Marks
  PROVE  Cut(Append(s, x)) = Continued(Cut(s), x)
BY CutDef, CutFold!FoldAppend

LEMMA FlowIs ==
  ASSUME NEW s \in Seq(Marks), NEW x \in Marks
  PROVE  /\ Flow(s) \in Seq(Messages) /\ x.m \in Messages
         /\ Flow(Append(s, x)) = Append(Flow(s), x.m)
<1> DEFINE t == Append(s, x)
<1>1. /\ Len(s) \in Nat /\ t \in Seq(Marks) /\ Len(t) = Len(s) + 1
      /\ t[Len(s) + 1] = x /\ \A i \in 1 .. Len(s) : t[i] = s[i] /\ s[i] \in Marks
  BY AppendProperties, LenProperties, ElementOfSeq
<1> HIDE DEF t
<1>2. x.m \in Messages /\ \A i \in 1 .. Len(s) : s[i].m \in Messages
  BY <1>1 DEF Marks
<1>3. Flow(s) \in Seq(Messages) /\ Len(Flow(s)) = Len(s)
      /\ \A i \in 1 .. Len(s) : Flow(s)[i] = s[i].m
  BY <1>1, <1>2 DEF Flow
<1>4. /\ Flow(t) = [n \in 1 .. Len(s) + 1 |-> t[n].m] /\ t[Len(s) + 1].m = x.m
      /\ \A i \in 1 .. Len(s) : t[i].m = s[i].m
  BY <1>1 DEF Flow
<1> DEFINE a == Flow(s)
           y == x.m
           b == Flow(t)
           l == Len(s)
<1>5. /\ a \in Seq(Messages) /\ y \in Messages /\ Len(a) = l /\ l \in Nat
      /\ \A i \in 1 .. l : a[i] = s[i].m
  BY <1>1, <1>2, <1>3
<1>6. b \in Seq(Messages) /\ Len(b) = l + 1 /\ b[l + 1] = y /\ \A i \in 1 .. l : b[i] = a[i]
  <2>1. \A i \in 1 .. l + 1 : t[i].m \in Messages
    <3>1. \A i \in 1 .. l + 1 : i \in 1 .. l \/ i = l + 1
      BY <1>5
    <3> QED  BY <1>2, <1>4, <3>1, Zenon
  <2>2. l + 1 \in 1 .. l + 1 /\ l + 1 \in Nat /\ \A i \in 1 .. l : i \in 1 .. l + 1
    BY <1>5
  <2>3. b = [n \in 1 .. l + 1 |-> t[n].m]
    BY <1>4
  <2> DEFINE z == [n \in 1 .. l + 1 |-> t[n].m]
  <2>4. z \in Seq(Messages)
    BY <2>1, <2>2
  <2>5. z[l + 1] = t[l + 1].m /\ \A i \in 1 .. l : z[i] = t[i].m
    BY <2>2
  <2>6. DOMAIN z = 1 .. l + 1
    OBVIOUS
  <2> HIDE DEF z, b, l
  <2>7. Len(z) = l + 1
    BY <2>2, <2>4, <2>6, LenProperties
  <2>8. b = z
    BY <2>3 DEF z
  <2>9. z[l + 1] = y /\ \A i \in 1 .. l : z[i] = a[i]
    BY <1>4, <1>5, <2>5, Zenon DEF l
  <2> QED  BY <2>4, <2>7, <2>8, <2>9
<1> HIDE DEF a, y, b, l
<1>7. /\ Append(a, y) \in Seq(Messages) /\ Len(Append(a, y)) = l + 1
      /\ Append(a, y)[l + 1] = y /\ \A i \in 1 .. l : Append(a, y)[i] = a[i]
  BY <1>5, AppendProperties, LenProperties
<1>8. b = Append(a, y)
  <2>1. \A i \in 1 .. l + 1 : i \in 1 .. l \/ i = l + 1
    BY <1>5
  <2>2. \A i \in 1 .. l + 1 : b[i] = Append(a, y)[i]
    BY <1>6, <1>7, <2>1, Zenon
  <2>3. Len(b) = Len(Append(a, y)) /\ \A i \in 1 .. Len(b) : b[i] = Append(a, y)[i]
    BY <1>6, <1>7, <2>2
  <2> QED  BY ONLY <1>6, <1>7, <2>3, SeqEqual
<1> QED  BY <1>5, <1>8 DEF a, y, b, t

LEMMA SameSeqs ==
  ASSUME NEW p, IsSeq(p), NEW q, IsSeq(q), Len(p) = Len(q), \A i \in 1 .. Len(p) : p[i] = q[i]
  PROVE  p = q
BY DEF IsSeq

LEMMA FunIs ==
  ASSUME NEW n \in Nat, NEW g, g = [i \in 1 .. n |-> g[i]]
  PROVE  IsSeq(g) /\ Len(g) = n /\ DOMAIN g = 1 .. n
<1> DEFINE T == {g[i] : i \in 1 .. n}
<1>1. \A i \in 1 .. n : g[i] \in T
  OBVIOUS
<1> HIDE DEF T
<1>2. g \in Seq(T) /\ DOMAIN g = 1 .. n
  BY <1>1
<1>3. Len(g) = n
  BY <1>2, LenProperties
<1> QED  BY <1>2, <1>3, SeqIs

\* The last element of a sequence is changed.
LastReplaced(T, p, z, q) ==
  /\ p = Append(q, p[Len(p)]) /\ p[Len(p)] \in T
  /\ [p EXCEPT ![Len(p)] = z] = Append(q, z)
  /\ \A i \in 1 .. Len(q) : q[i] = p[i]
  /\ Len(q) + 1 = Len(p)

LEMMA LastExcept ==
  ASSUME NEW T, NEW p \in Seq(T), p # << >>, NEW z \in T
  PROVE  \E q \in Seq(T) : LastReplaced(T, p, z, q)
<1>1. PICK q \in Seq(T), y \in T : p = Append(q, y)
  BY SequenceEmptyOrAppend
<1> DEFINE l == Len(q)
           b == Append(q, z)
           a == [p EXCEPT ![Len(p)] = z]
<1>2. /\ l \in Nat /\ Len(p) = l + 1 /\ p[l + 1] = y /\ \A i \in 1 .. l : p[i] = q[i]
  BY <1>1, AppendProperties, LenProperties
<1>3. b \in Seq(T) /\ Len(b) = l + 1 /\ b[l + 1] = z /\ \A i \in 1 .. l : b[i] = q[i]
  BY AppendProperties, LenProperties
<1>4. IsSeq(p)
  BY SeqIs
<1>5. /\ a = [i \in 1 .. l + 1 |-> a[i]] /\ a[l + 1] = z
      /\ \A i \in 1 .. l : a[i] = p[i]
  <2>1. DOMAIN p = 1 .. l + 1
    BY <1>2, LenProperties
  <2>2. l + 1 \in 1 .. l + 1 /\ \A i \in 1 .. l : i \in 1 .. l + 1 /\ i # l + 1
    BY <1>2
  <2>3. a = [p EXCEPT ![l + 1] = z]
    BY <1>2
  <2> HIDE DEF l
  <2> QED  BY <2>1, <2>2, <2>3
<1> HIDE DEF a, b, l
<1>6. IsSeq(a) /\ Len(a) = l + 1
  BY <1>2, <1>5, FunIs
<1>7. IsSeq(b)
  BY <1>3, SeqIs
<1>8. \A i \in 1 .. l + 1 : a[i] = b[i]
  <2>1. \A i \in 1 .. l + 1 : i \in 1 .. l \/ i = l + 1
    BY <1>2
  <2> QED  BY <1>2, <1>3, <1>5, <2>1, Zenon
<1>9. a = b
  BY <1>3, <1>6, <1>7, <1>8, SameSeqs
<1>10. p = Append(q, p[Len(p)]) /\ p[Len(p)] \in T
  BY <1>1, <1>2
<1>11. LastReplaced(T, p, z, q)
  BY <1>2, <1>9, <1>10, Zenon DEF a, b, l, LastReplaced
<1> QED  BY <1>11

\* However the flight is cut, its records hold its messages in their order.
CutRight(p, s) ==
  /\ p \in Seq(Seq(Messages)) /\ \A i \in 1 .. Len(p) : p[i] # << >>
  /\ FlattenSeq(p) = Flow(s) /\ (s # << >> => p # << >>)

LEMMA CutStarts ==
  ASSUME NEW p, NEW s \in Seq(Marks), CutRight(p, s), NEW x \in Marks
  PROVE  CutRight(Append(p, <<x.m>>), Append(s, x))
<1> DEFINE y == x.m
           one == <<y>>
           b == Append(p, one)
           t == Append(s, x)
<1>1. y \in Messages /\ Flow(t) = Append(Flow(s), y) /\ Flow(s) \in Seq(Messages)
  BY FlowIs
<1>2. one \in Seq(Messages) /\ one # << >>
  BY <1>1
<1>3. p \in Seq(Seq(Messages)) /\ FlattenSeq(p) = Flow(s) /\ \A i \in 1 .. Len(p) : p[i] # << >>
  BY DEF CutRight
<1>4. FlattenSeq(p) \o one = Append(FlattenSeq(p), y)
  BY <1>1, <1>3, AppendIsConcat
<1> HIDE DEF one, y
<1>5. FlattenSeq(b) = FlattenSeq(p) \o one
  BY <1>2, <1>3, FlattenAppend
<1>6. /\ b \in Seq(Seq(Messages)) /\ b # << >> /\ Len(p) \in Nat /\ Len(b) = Len(p) + 1
      /\ b[Len(p) + 1] = one /\ \A i \in 1 .. Len(p) : b[i] = p[i]
  BY <1>2, <1>3, AppendProperties, LenProperties
<1> HIDE DEF b
<1>7. \A i \in 1 .. Len(b) : b[i] # << >>
  <2>1. \A i \in 1 .. Len(b) : i \in 1 .. Len(p) \/ i = Len(p) + 1
    BY <1>6
  <2> QED  BY <1>2, <1>3, <1>6, <2>1, Zenon
<1>8. FlattenSeq(b) = Flow(t)
  BY <1>1, <1>3, <1>4, <1>5, Zenon
<1>9. CutRight(b, t)
  BY <1>6, <1>7, <1>8 DEF CutRight
<1> QED  BY <1>9 DEF b, one, y

LEMMA CutJoins ==
  ASSUME NEW p, NEW s \in Seq(Marks), CutRight(p, s), NEW x \in Marks, s # << >>
  PROVE  CutRight([p EXCEPT ![Len(p)] = Append(@, x.m)], Append(s, x))
<1> DEFINE y == x.m
           z == Append(p[Len(p)], y)
           b == [p EXCEPT ![Len(p)] = z]
           t == Append(s, x)
           T == Seq(Messages)
<1>1. y \in Messages /\ Flow(t) = Append(Flow(s), y) /\ Flow(s) \in T
  BY FlowIs
<1>2. /\ p \in Seq(T) /\ p # << >> /\ FlattenSeq(p) = Flow(s)
      /\ \A i \in 1 .. Len(p) : p[i] # << >>
  BY DEF CutRight
<1> DEFINE w == p[Len(p)]
<1>3. w \in T
  <2>1. Len(p) \in 1 .. Len(p)
    BY <1>2, NoneIs, SeqIs
  <2> QED  BY <1>2, <2>1, ElementOfSeq
<1>4. z \in T /\ z # << >> /\ z = w \o <<y>>
  <2> HIDE DEF w, y
  <2> QED  BY <1>1, <1>3, AppendProperties, AppendIsConcat, SMTT(40) DEF w
<1> HIDE DEF y, z, T
<1>a. PICK q \in Seq(T) : LastReplaced(T, p, z, q)
  <2>1. p \in Seq(T) /\ p # << >> /\ z \in T
    BY <1>2, <1>4
  <2> QED  BY ONLY <2>1, LastExcept
<1>5. /\ p = Append(q, w) /\ b = Append(q, z)
      /\ \A i \in 1 .. Len(q) : q[i] = p[i]
      /\ Len(q) + 1 = Len(p)
  BY <1>a DEF LastReplaced
<1> HIDE DEF w, b
<1>6. FlattenSeq(p) = FlattenSeq(q) \o w /\ FlattenSeq(b) = FlattenSeq(q) \o z
      /\ FlattenSeq(q) \in Seq(Messages)
  BY <1>3, <1>4, <1>5, FlattenAppend, FlattenType DEF T
<1>7. FlattenSeq(b) = Append(FlattenSeq(p), y)
  <2> DEFINE u == FlattenSeq(q)
             one == <<y>>
  <2>1. one \in Seq(Messages) /\ u \in Seq(Messages) /\ w \in Seq(Messages)
    BY <1>1, <1>3, <1>6 DEF T
  <2>2. (u \o w) \in Seq(Messages) /\ (u \o w) \o one = Append(u \o w, y)
    BY <1>1, <2>1, ConcatProperties, AppendIsConcat
  <2> HIDE DEF u, one
  <2>3. (u \o w) \o one = u \o (w \o one)
    BY <2>1, ConcatAssociative, SMTT(40)
  <2> QED  BY <1>4, <1>6, <2>2, <2>3 DEF u, one
<1>8. b \in Seq(T) /\ b # << >> /\ Len(q) \in Nat /\ Len(b) = Len(q) + 1
      /\ b[Len(q) + 1] = z /\ \A i \in 1 .. Len(q) : b[i] = q[i]
  BY <1>4, <1>5, AppendProperties, LenProperties, SMTT(40)
<1>9. \A i \in 1 .. Len(b) : b[i] # << >>
  <2>1. \A i \in 1 .. Len(b) : i \in 1 .. Len(q) \/ i = Len(q) + 1
    BY <1>8
  <2>2. \A i \in 1 .. Len(q) : i \in 1 .. Len(p)
    BY <1>5, <1>8
  <2> QED  BY <1>2, <1>4, <1>5, <1>8, <2>1, <2>2, Zenon
<1>10. FlattenSeq(b) = Flow(t)
  BY <1>1, <1>2, <1>7
<1>11. CutRight(b, t)
  BY <1>8, <1>9, <1>10 DEF CutRight, T
<1> QED  BY <1>11 DEF b, z, y

LEMMA CutIs ==
  ASSUME NEW s \in Seq(Marks), s # << >> => s[1].starts = TRUE
  PROVE  CutRight(Cut(s), s)
<1> DEFINE G == {r \in Seq(Marks) : (r # << >> => r[1].starts = TRUE) => CutRight(Cut(r), r)}
<1>1. << >> \in G
  <2>1. Flow(<< >>) = << >>
    BY DEF Flow
  <2>2. << >> \in Seq(Seq(Messages)) /\ << >> \in Seq(Marks)
    BY EmptySeq
  <2>3. Cut(<< >>) = << >>
    BY CutNone
  <2>4. Len(<< >>) = 0
    OBVIOUS
  <2>5. CutRight(<< >>, << >>)
    BY <2>1, <2>2, <2>4, FlattenNone DEF CutRight
  <2> QED  BY <2>2, <2>3, <2>5
<1>2. ASSUME NEW r \in G, NEW x \in Marks PROVE Append(r, x) \in G
  <2> DEFINE t == Append(r, x)
  <2>1. /\ r \in Seq(Marks) /\ Len(r) \in Nat /\ t \in Seq(Marks) /\ Len(t) = Len(r) + 1
        /\ t[Len(r) + 1] = x /\ t # << >> /\ \A i \in 1 .. Len(r) : t[i] = r[i]
    BY AppendProperties, LenProperties
  <2> SUFFICES ASSUME t[1].starts = TRUE PROVE CutRight(Cut(t), t)
    BY <2>1
  <2>2. Cut(t) = Continued(Cut(r), x)
    BY <2>1, CutOne
  <2>3. r # << >> => r[1].starts = TRUE
    <3>1. r # << >> => 1 \in 1 .. Len(r)
      BY <2>1, EmptySeq
    <3> QED  BY <2>1, <3>1
  <2>4. CutRight(Cut(r), r)
    BY <2>3
  <2>5. CASE x.starts
    <3>1. Cut(t) = Append(Cut(r), <<x.m>>)
      BY <2>2, <2>5 DEF Continued
    <3> QED  BY <2>1, <2>4, <3>1, CutStarts
  <2>6. CASE ~x.starts
    <3>1. r # << >>
      <4>1. r = << >> => t[1] = x
        BY <2>1, EmptySeq
      <4> QED  BY <2>6, <4>1
    <3> DEFINE p == Cut(r)
    <3>2. Cut(t) = [p EXCEPT ![Len(p)] = Append(@, x.m)]
      BY <2>2, <2>6 DEF Continued
    <3>3. CutRight(p, r)
      BY <2>4
    <3> HIDE DEF p, t
    <3>4. CutRight([p EXCEPT ![Len(p)] = Append(@, x.m)], Append(r, x))
      BY <2>1, <3>1, <3>3, CutJoins
    <3> QED  BY <3>2, <3>4 DEF t
  <2> QED  BY <2>5, <2>6
<1> HIDE DEF G
<1>3. G \in SUBSET Seq(Marks)
  BY DEF G
<1>4. G = Seq(Marks)
  BY <1>1, <1>2, <1>3, CutFold!SeqInduction
<1> QED  BY <1>4 DEF G

LEMMA PiecesAre ==
  ASSUME NEW msgs \in Seq(Messages), NEW cuts
  PROVE  /\ Pieces(msgs, cuts) \in Seq(Seq(Messages))
         /\ \A i \in 1 .. Len(Pieces(msgs, cuts)) : Pieces(msgs, cuts)[i] # << >>
         /\ FlattenSeq(Pieces(msgs, cuts)) = msgs
<1> DEFINE s == [n \in DOMAIN msgs |-> [m |-> msgs[n], starts |-> n = 1 \/ n - 1 \in cuts]]
<1>0. DOMAIN msgs = 1 .. Len(msgs) /\ Len(msgs) \in Nat
        /\ \A n \in 1 .. Len(msgs) : msgs[n] \in Messages
  BY LenProperties, ElementOfSeq
<1>1. \A n \in 1 .. Len(msgs) : s[n] = [m |-> msgs[n], starts |-> n = 1 \/ n - 1 \in cuts]
  BY <1>0
<1>2. \A n \in 1 .. Len(msgs) : s[n] \in Marks /\ s[n].m = msgs[n]
  <2> SUFFICES ASSUME NEW n \in 1 .. Len(msgs) PROVE s[n] \in Marks /\ s[n].m = msgs[n]
    OBVIOUS
  <2> DEFINE b == n = 1 \/ n - 1 \in cuts
  <2>1. s[n] = [m |-> msgs[n], starts |-> b] /\ msgs[n] \in Messages
    BY <1>0, <1>1
  <2>2. b \in BOOLEAN
    OBVIOUS
  <2> HIDE DEF s, b
  <2> QED  BY <2>1, <2>2 DEF Marks
<1>3. 1 \in 1 .. Len(msgs) => s[1].starts = TRUE
  <2> SUFFICES ASSUME 1 \in 1 .. Len(msgs) PROVE s[1].starts = TRUE
    OBVIOUS
  <2> DEFINE b == 1 = 1 \/ 1 - 1 \in cuts
  <2>1. s[1] = [m |-> msgs[1], starts |-> b]
    BY <1>1
  <2>2. b = TRUE
    OBVIOUS
  <2> HIDE DEF s, b
  <2> QED  BY <2>1, <2>2
<1>4. Pieces(msgs, cuts) = Cut(s)
  BY DEF Pieces, Cut
<1>5. s = [n \in 1 .. Len(msgs) |-> s[n]]
  BY <1>0
<1> HIDE DEF s
<1>6. Len(s) = Len(msgs) /\ IsSeq(s) /\ s \in Seq(Marks)
  <2>1. Len(s) = Len(msgs) /\ IsSeq(s)
    BY <1>0, <1>5, FunIs
  <2>2. s \in Seq(Marks)
    BY <1>0, <1>2, <1>5
  <2> QED  BY <2>1, <2>2
<1>7. s # << >> => s[1].starts = TRUE
  BY <1>3, <1>6, NoneIs
<1>8. CutRight(Cut(s), s)
  BY <1>6, <1>7, CutIs
<1>9. Flow(s) = msgs
  <2>1. Flow(s) = [n \in 1 .. Len(msgs) |-> msgs[n]]
    BY <1>2, <1>6 DEF Flow
  <2>2. msgs = [n \in 1 .. Len(msgs) |-> msgs[n]]
    BY SeqIs DEF IsSeq
  <2> QED  BY <2>1, <2>2
<1> QED  BY <1>4, <1>8, <1>9 DEF CutRight

\* The records of a new flight.
LEMMA FlightSent ==
  ASSUME NEW msgs \in Seq(Messages), NEW cuts
  PROVE  LET q == InRecords(Pieces(msgs, cuts))
         IN IsSeq(q) /\ FlightPart(q) /\ FlattenSeq(Flown(q)) = msgs
<1> DEFINE p == Pieces(msgs, cuts)
           q == InRecords(p)
<1>1. /\ p \in Seq(Seq(Messages)) /\ FlattenSeq(p) = msgs
      /\ \A i \in 1 .. Len(p) : p[i] # << >>
  BY PiecesAre
<1> HIDE DEF p
<1>2. DOMAIN p = 1 .. Len(p) /\ Len(p) \in Nat /\ \A i \in 1 .. Len(p) : p[i] \in Seq(Messages)
  BY <1>1, LenProperties, ElementOfSeq
<1>3. \A i \in 1 .. Len(p) : q[i] = Plain(Handshake, p[i]) /\ q[i].data = p[i]
  BY <1>2 DEF InRecords, Plain
<1>4. q = [i \in 1 .. Len(p) |-> q[i]]
  BY <1>2 DEF InRecords
<1> HIDE DEF q
<1>5. IsSeq(q) /\ Len(q) = Len(p)
  BY <1>2, <1>4, FunIs
<1>6. FlightPart(q)
  BY <1>1, <1>2, <1>3, <1>5 DEF FlightPart
<1>7. Flown(q) = p
  <2>1. Flown(q) = [i \in 1 .. Len(p) |-> p[i]]
    BY <1>3, <1>5 DEF Flown
  <2>2. p = [i \in 1 .. Len(p) |-> p[i]]
    BY <1>1, SeqIs DEF IsSeq
  <2> QED  BY <2>1, <2>2
<1> QED  BY <1>1, <1>5, <1>6, <1>7 DEF p, q

\* One place of what is flattened is changed, and so one place of the whole.
Places(T, s, i, j, y) ==
  LET t == [s EXCEPT ![i][j] = y]
  IN /\ t \in Seq(Seq(T)) /\ Len(t) = Len(s) /\ Len(FlattenSeq(t)) = Len(FlattenSeq(s))
     /\ \E at \in 1 .. Len(FlattenSeq(s)) :
          /\ FlattenSeq(s)[at] = s[i][j] /\ FlattenSeq(t)[at] = y
          /\ \A q \in 1 .. Len(FlattenSeq(s)) : q # at => FlattenSeq(t)[q] = FlattenSeq(s)[q]

LEMMA ExceptIs ==
  ASSUME NEW T, NEW s \in Seq(T), NEW i \in 1 .. Len(s), NEW y \in T
  PROVE  LET t == [s EXCEPT ![i] = y]
         IN /\ t \in Seq(T) /\ IsSeq(t) /\ Len(t) = Len(s) /\ t[i] = y
            /\ \A q \in 1 .. Len(s) : q # i => t[q] = s[q]
<1> DEFINE t == [s EXCEPT ![i] = y]
<1>1. DOMAIN s = 1 .. Len(s) /\ Len(s) \in Nat
  BY LenProperties
<1>2. t \in Seq(T) /\ DOMAIN t = 1 .. Len(s) /\ t[i] = y
      /\ \A q \in 1 .. Len(s) : q # i => t[q] = s[q]
  BY <1>1
<1> HIDE DEF t
<1>3. Len(t) = Len(s)
  BY <1>1, <1>2, LenProperties
<1> QED  BY <1>2, <1>3, SeqIs DEF t

LEMMA InLast ==
  ASSUME NEW T, NEW s \in Seq(Seq(T)), NEW u \in Seq(T), NEW j \in 1 .. Len(u), NEW y \in T
  PROVE  Places(T, Append(s, u), Len(s) + 1, j, y)
<1> DEFINE a == Append(s, u)
           l == Len(s)
           v == [u EXCEPT ![j] = y]
           b == [a EXCEPT ![l + 1][j] = y]
           fs == FlattenSeq(s)
<1>1. /\ a \in Seq(Seq(T)) /\ l \in Nat /\ Len(a) = l + 1 /\ a[l + 1] = u
      /\ \A i \in 1 .. l : a[i] = s[i]
  BY AppendProperties, LenProperties
<1>2. /\ v \in Seq(T) /\ IsSeq(v) /\ Len(v) = Len(u) /\ v[j] = y
      /\ \A q \in 1 .. Len(u) : q # j => v[q] = u[q]
  BY ExceptIs
<1>3. a # << >> /\ a[Len(a)] = u
  BY <1>1, AppendProperties
<1>4. b = [a EXCEPT ![Len(a)] = v]
  <2>1. b = [a EXCEPT ![l + 1] = [a[l + 1] EXCEPT ![j] = y]]
    BY <1>1
  <2> QED  BY <1>1, <2>1
<1>5. b = Append(s, v)
  <2> DEFINE S == Seq(T)
  <2>1. PICK q \in Seq(S) : LastReplaced(S, a, v, q)
    <3>1. a \in Seq(S) /\ a # << >> /\ v \in S
      BY <1>1, <1>2, <1>3
    <3> HIDE DEF a, v, S
    <3> QED  BY ONLY <3>1, LastExcept
  <2>a. /\ a = Append(q, a[Len(a)]) /\ [a EXCEPT ![Len(a)] = v] = Append(q, v)
        /\ \A i \in 1 .. Len(q) : q[i] = a[i]
        /\ Len(q) + 1 = Len(a)
    BY <2>1 DEF LastReplaced
  <2> HIDE DEF a, b, l
  <2>2. Len(q) \in Nat /\ Len(q) = l /\ \A i \in 1 .. l : q[i] = s[i]
    <3>1. Len(q) \in Nat
      BY LenProperties
    <3> QED  BY <1>1, <2>a, <3>1
  <2>3. q = s
    BY <2>2, SeqEqual DEF l
  <2> QED  BY <1>4, <2>a, <2>3
<1>6. fs \in Seq(T)
  BY FlattenType
<1>7. FlattenSeq(a) = fs \o u /\ FlattenSeq(b) = fs \o v
  <2>1. FlattenSeq(Append(s, u)) = fs \o u
    BY FlattenAppend
  <2> HIDE DEF v, b
  <2>2. FlattenSeq(Append(s, v)) = fs \o v
    BY <1>2, FlattenAppend
  <2> QED  BY <1>5, <2>1, <2>2
<1> HIDE DEF v, fs, a, b
<1>8. IsSeq(fs) /\ IsSeq(u) /\ Len(fs) \in Nat /\ Len(u) \in Nat
  BY <1>6, SeqIs, LenProperties
<1>9. /\ Len(fs \o u) = Len(fs) + Len(u)
      /\ \A i \in 1 .. Len(fs) : (fs \o u)[i] = fs[i]
      /\ \A i \in 1 .. Len(u) : (fs \o u)[Len(fs) + i] = u[i]
  BY <1>8, CatIs
<1>10. /\ Len(fs \o v) = Len(fs) + Len(v)
       /\ \A i \in 1 .. Len(fs) : (fs \o v)[i] = fs[i]
       /\ \A i \in 1 .. Len(v) : (fs \o v)[Len(fs) + i] = v[i]
  <2>1. IsSeq(fs) /\ IsSeq(v)
    BY <1>2, <1>8
  <2> QED  BY ONLY <2>1, CatIs
<1> DEFINE n == Len(fs)
           m == Len(u)
<1>11. n + j \in 1 .. n + m
  BY <1>8
<1>12. ASSUME NEW q \in 1 .. n + m, q # n + j
       PROVE  (fs \o v)[q] = (fs \o u)[q]
  <2>1. CASE q \in 1 .. n
    BY <1>9, <1>10, <2>1
  <2>2. CASE q \notin 1 .. n
    <3>1. q - n \in 1 .. m /\ q - n # j /\ n + (q - n) = q
      BY <1>8, <1>12, <2>2
    <3>2. (fs \o u)[n + (q - n)] = u[q - n] /\ (fs \o v)[n + (q - n)] = v[q - n]
      BY <1>2, <1>9, <1>10, <3>1
    <3> QED  BY <1>2, <3>1, <3>2
  <2> QED  BY <2>1, <2>2
<1>13. b \in Seq(Seq(T)) /\ Len(b) = Len(a)
  <2>1. b \in Seq(Seq(T)) /\ Len(b) = l + 1
    BY <1>1, <1>2, <1>5, AppendProperties
  <2> QED  BY <1>1, <2>1
<1>14. (fs \o u)[n + j] = u[j] /\ (fs \o v)[n + j] = y
  BY <1>2, <1>9, <1>10
<1>15. a[l + 1][j] = u[j]
  BY <1>1
<1>16. Len(fs \o v) = n + m /\ Len(fs \o u) = n + m
  BY <1>2, <1>9, <1>10
<1> QED  BY <1>7, <1>11, <1>12, <1>13, <1>14, <1>15, <1>16 DEF Places, a, b, l

LEMMA InEarlier ==
  ASSUME NEW T, NEW s \in Seq(Seq(T)), NEW u \in Seq(T), NEW i \in 1 .. Len(s),
         NEW j \in 1 .. Len(s[i]), NEW y \in T, Places(T, s, i, j, y)
  PROVE  Places(T, Append(s, u), i, j, y)
<1> DEFINE a == Append(s, u)
           t == [s EXCEPT ![i][j] = y]
           b == [a EXCEPT ![i][j] = y]
           fs == FlattenSeq(s)
           ft == FlattenSeq(t)
           n == Len(fs)
           m == Len(u)
<1>1. /\ a \in Seq(Seq(T)) /\ Len(s) \in Nat /\ Len(a) = Len(s) + 1 /\ a[Len(s) + 1] = u
      /\ \A q \in 1 .. Len(s) : a[q] = s[q]
  BY AppendProperties, LenProperties
<1>2. /\ t \in Seq(Seq(T)) /\ Len(t) = Len(s) /\ Len(ft) = n
      /\ \E at \in 1 .. n : /\ fs[at] = s[i][j] /\ ft[at] = y
                            /\ \A q \in 1 .. n : q # at => ft[q] = fs[q]
  BY DEF Places
<1>3. s[i] \in Seq(T) /\ [s[i] EXCEPT ![j] = y] \in Seq(T)
  <2>1. s[i] \in Seq(T)
    BY ElementOfSeq
  <2> DEFINE si == s[i]
  <2> HIDE DEF si
  <2>2. [si EXCEPT ![j] = y] \in Seq(T)
    BY <2>1, ExceptIs DEF si
  <2> QED  BY <2>1, <2>2 DEF si
<1>4. b = Append(t, u)
  <2> DEFINE w == [s[i] EXCEPT ![j] = y]
             S == Seq(T)
             l == Len(s)
  <2>1. a[i] = s[i] /\ i \in 1 .. Len(a) /\ l \in Nat /\ w \in S /\ s \in Seq(S) /\ a \in Seq(S)
    BY <1>1, <1>3
  <2>2. b = [a EXCEPT ![i] = w] /\ t = [s EXCEPT ![i] = w]
    BY <2>1
  <2> HIDE DEF a, t, b, w, S
  <2>3. /\ b \in Seq(S) /\ Len(b) = Len(a) /\ b[i] = w
        /\ \A q \in 1 .. Len(a) : q # i => b[q] = a[q]
    BY <2>1, <2>2, ExceptIs
  <2>4. /\ t \in Seq(S) /\ Len(t) = l /\ t[i] = w
        /\ \A q \in 1 .. l : q # i => t[q] = s[q]
    BY <2>1, <2>2, ExceptIs
  <2>5. /\ Append(t, u) \in Seq(S) /\ Len(Append(t, u)) = l + 1
        /\ Append(t, u)[l + 1] = u /\ \A q \in 1 .. l : Append(t, u)[q] = t[q]
    <3>1. u \in S
      BY DEF S
    <3>2. Append(t, u) \in Seq(S)
      BY <2>4, <3>1, AppendProperties
    <3>3. IsSeq(t)
      BY <2>4, SeqIs
    <3>4. /\ Len(Append(t, u)) = Len(t) + 1 /\ Append(t, u)[Len(t) + 1] = u
          /\ \A q \in 1 .. Len(t) : Append(t, u)[q] = t[q]
      BY <3>3, AppendIs
    <3>5. Len(t) = l
      BY <2>4
    <3> QED  BY <3>2, <3>4, <3>5
  <2>6. ASSUME NEW q \in 1 .. l + 1 PROVE b[q] = Append(t, u)[q]
    <3>1. CASE q = i
      BY <2>3, <2>4, <2>5, <3>1
    <3>2. CASE q # i /\ q \in 1 .. l
      <4>1. q \in 1 .. Len(a)
        BY <1>1, <3>2 DEF a
      <4>2. b[q] = a[q] /\ a[q] = s[q] /\ Append(t, u)[q] = t[q] /\ t[q] = s[q]
        BY <1>1, <2>3, <2>4, <2>5, <3>2, <4>1 DEF a
      <4> QED  BY <4>2
    <3>3. CASE q = l + 1
      <4>1. q \in 1 .. Len(a) /\ q # i
        BY <1>1, <2>1, <3>3 DEF a
      <4>2. b[q] = a[q] /\ a[q] = u /\ Append(t, u)[q] = u
        BY <1>1, <2>3, <2>5, <3>3, <4>1 DEF a
      <4> QED  BY <4>2
    <3>4. q \in 1 .. l \/ q = l + 1
      <4>1. l \in Nat
        BY <2>1
      <4> HIDE DEF l
      <4> QED  BY ONLY <4>1, q \in 1 .. l + 1
    <3> QED  BY <3>1, <3>2, <3>3, <3>4
  <2>7. Len(b) = l + 1
    BY <1>1, <2>3 DEF a
  <2> QED  BY <2>3, <2>5, <2>6, <2>7, SeqEqual
<1>5. fs \in Seq(T) /\ ft \in Seq(T)
  BY <1>2, FlattenType
<1>6. FlattenSeq(a) = fs \o u /\ FlattenSeq(b) = ft \o u
  <2>1. FlattenSeq(Append(s, u)) = fs \o u
    BY FlattenAppend
  <2> HIDE DEF t, b
  <2>2. FlattenSeq(Append(t, u)) = ft \o u
    BY <1>2, FlattenAppend
  <2> QED  BY <1>4, <2>1, <2>2
<1>7. b \in Seq(Seq(T)) /\ Len(b) = Len(a)
  <2> HIDE DEF t, b, a
  <2>1. b \in Seq(Seq(T)) /\ Len(b) = Len(t) + 1
    BY <1>2, <1>4, AppendProperties
  <2> QED  BY <1>1, <1>2, <2>1
<1>8. a[i][j] = s[i][j]
  BY <1>1
<1> HIDE DEF fs, ft, a, b, t
<1>9. IsSeq(fs) /\ IsSeq(ft) /\ IsSeq(u) /\ n \in Nat /\ m \in Nat
  BY <1>5, SeqIs, LenProperties
<1>10. /\ Len(fs \o u) = n + m
       /\ \A q \in 1 .. n : (fs \o u)[q] = fs[q]
       /\ \A q \in 1 .. m : (fs \o u)[n + q] = u[q]
  BY <1>9, CatIs
<1>11. /\ Len(ft \o u) = n + m
       /\ \A q \in 1 .. n : (ft \o u)[q] = ft[q]
       /\ \A q \in 1 .. m : (ft \o u)[n + q] = u[q]
  <2>1. /\ Len(ft \o u) = Len(ft) + m
        /\ \A q \in 1 .. Len(ft) : (ft \o u)[q] = ft[q]
        /\ \A q \in 1 .. m : (ft \o u)[Len(ft) + q] = u[q]
    BY <1>9, CatIs
  <2>2. Len(ft) = n
    BY <1>2
  <2> QED  BY <2>1, <2>2
<1>12. PICK at \in 1 .. n : /\ fs[at] = s[i][j] /\ ft[at] = y
                            /\ \A q \in 1 .. n : q # at => ft[q] = fs[q]
  BY <1>2
<1>13. ASSUME NEW q \in 1 .. n + m, q # at PROVE (ft \o u)[q] = (fs \o u)[q]
  <2>1. CASE q \in 1 .. n
    BY <1>10, <1>11, <1>12, <1>13, <2>1
  <2>2. CASE q \notin 1 .. n
    <3>1. q - n \in 1 .. m /\ n + (q - n) = q
      BY <1>9, <2>2
    <3>2. (ft \o u)[n + (q - n)] = u[q - n] /\ (fs \o u)[n + (q - n)] = u[q - n]
      BY <1>10, <1>11, <3>1
    <3> QED  BY <3>1, <3>2
  <2> QED  BY <2>1, <2>2
<1>14. at \in 1 .. n + m /\ (fs \o u)[at] = s[i][j] /\ (ft \o u)[at] = y
  BY <1>9, <1>10, <1>11, <1>12
<1> DEFINE ga == fs \o u
           gb == ft \o u
<1>15. /\ b \in Seq(Seq(T)) /\ Len(b) = Len(a) /\ Len(gb) = Len(ga)
       /\ at \in 1 .. Len(ga) /\ ga[at] = a[i][j] /\ gb[at] = y
       /\ \A q \in 1 .. Len(ga) : q # at => gb[q] = ga[q]
  <2>1. Len(ga) = n + m /\ Len(gb) = n + m
    BY <1>10, <1>11
  <2> HIDE DEF ga, gb, n, m
  <2>2. \A q \in 1 .. n + m : q # at => gb[q] = ga[q]
    BY <1>13 DEF ga, gb
  <2>3. at \in 1 .. n + m /\ ga[at] = a[i][j] /\ gb[at] = y
    BY <1>8, <1>14 DEF ga, gb
  <2> QED  BY <1>7, <2>1, <2>2, <2>3
<1>16. FlattenSeq(a) = ga /\ FlattenSeq(b) = gb
  BY <1>6
<1> HIDE DEF ga, gb
<1> QED  BY <1>15, <1>16, ZenonT(45) DEF Places, a, b

LEMMA PlacesAre ==
  ASSUME NEW T, NEW s \in Seq(Seq(T)), NEW i \in 1 .. Len(s), NEW j \in 1 .. Len(s[i]), NEW y \in T
  PROVE  Places(T, s, i, j, y)
<1> DEFINE S == Seq(T)
           all(r) == \A p \in 1 .. Len(r) : \A q \in 1 .. Len(r[p]) : Places(T, r, p, q, y)
           G == {r \in Seq(S) : all(r)}
<1>1. << >> \in G
  <2>1. << >> \in Seq(S) /\ Len(<< >>) = 0
    BY EmptySeq
  <2>2. 1 .. 0 = {}
    OBVIOUS
  <2>3. all(<< >>)
    BY <2>1, <2>2
  <2> QED  BY <2>1, <2>3
<1>2. ASSUME NEW r \in G, NEW u \in S PROVE Append(r, u) \in G
  <2> DEFINE a == Append(r, u)
  <2>1. /\ r \in Seq(S) /\ all(r) /\ a \in Seq(S) /\ Len(r) \in Nat /\ Len(a) = Len(r) + 1
        /\ a[Len(r) + 1] = u /\ \A p \in 1 .. Len(r) : a[p] = r[p]
    BY AppendProperties, LenProperties
  <2>2. ASSUME NEW p \in 1 .. Len(a), NEW q \in 1 .. Len(a[p]) PROVE Places(T, a, p, q, y)
    <3>1. CASE p \in 1 .. Len(r)
      <4>1. a[p] = r[p]
        BY <2>1, <3>1
      <4>2. q \in 1 .. Len(r[p])
        BY <2>2, <4>1
      <4>3. Places(T, r, p, q, y)
        BY <2>1, <3>1, <4>2
      <4> QED  BY <2>1, <3>1, <4>2, <4>3, InEarlier
    <3>2. CASE p = Len(r) + 1
      <4>1. q \in 1 .. Len(u)
        BY <2>1, <2>2, <3>2
      <4>2. Places(T, a, Len(r) + 1, q, y)
        BY <2>1, <4>1, InLast
      <4> QED  BY <3>2, <4>2
    <3>3. p \in 1 .. Len(r) \/ p = Len(r) + 1
      <4>1. Len(r) \in Nat /\ p \in 1 .. Len(r) + 1
        BY <2>1, <2>2
      <4> QED  BY ONLY <4>1
    <3> QED  BY <3>1, <3>2, <3>3
  <2> QED  BY <2>1, <2>2
<1> HIDE DEF G
<1>3. G \in SUBSET Seq(S)
  BY DEF G
<1>4. G = Seq(S)
  BY <1>1, <1>2, <1>3, CutFold!SeqInduction
<1> QED  BY <1>4 DEF G

\* A message of a record on the way is replaced.
LEMMA FlownIs ==
  ASSUME NEW q, IsSeq(q), FlightPart(q)
  PROVE  /\ Flown(q) \in Seq(Seq(Messages)) /\ Len(Flown(q)) = Len(q) /\ Len(q) \in Nat
         /\ \A i \in 1 .. Len(q) : /\ Flown(q)[i] = q[i].data /\ q[i].data # << >>
                                   /\ q[i].data \in Seq(Messages)
                                   /\ q[i] = Plain(Handshake, q[i].data)
<1> DEFINE g == Flown(q)
<1>1. /\ Len(q) \in Nat /\ g = [i \in 1 .. Len(q) |-> q[i].data]
      /\ \A i \in 1 .. Len(q) : /\ q[i].data \in Seq(Messages) /\ q[i].data # << >>
                                /\ q[i] = Plain(Handshake, q[i].data)
  BY DEF FlightPart, Flown, IsSeq
<1>2. g \in Seq(Seq(Messages)) /\ \A i \in 1 .. Len(q) : g[i] = q[i].data
  BY <1>1
<1>3. g = [i \in 1 .. Len(q) |-> g[i]]
  BY <1>1
<1> HIDE DEF g
<1>4. Len(g) = Len(q)
  BY <1>1, <1>3, FunIs
<1> QED  BY <1>1, <1>2, <1>4 DEF g

Changed(q, i, j, y) == [q EXCEPT ![i].data[j] = y]

LEMMA FlownChanged ==
  ASSUME NEW q, IsSeq(q), FlightPart(q), NEW i \in 1 .. Len(q), NEW j \in 1 .. Len(q[i].data),
         NEW y \in Messages
  PROVE  /\ IsSeq(Changed(q, i, j, y)) /\ FlightPart(Changed(q, i, j, y))
         /\ Flown(Changed(q, i, j, y)) = [Flown(q) EXCEPT ![i][j] = y]
         /\ Len(Changed(q, i, j, y)) = Len(q)
<1> DEFINE a == q[i].data
           b == [a EXCEPT ![j] = y]
           r == Plain(Handshake, b)
           p == [q EXCEPT ![i].data[j] = y]
           g == Flown(q)
           n == Len(q)
<1>1. /\ g \in Seq(Seq(Messages)) /\ Len(g) = n /\ n \in Nat
      /\ \A l \in 1 .. n : /\ g[l] = q[l].data /\ q[l].data # << >>
                           /\ q[l].data \in Seq(Messages)
                           /\ q[l] = Plain(Handshake, q[l].data)
  BY FlownIs
<1>2. a \in Seq(Messages) /\ a # << >> /\ q[i] = Plain(Handshake, a)
  BY <1>1
<1>3. b \in Seq(Messages) /\ b # << >>
  <2> HIDE DEF a
  <2>1. b \in Seq(Messages) /\ Len(b) = Len(a)
    BY <1>2, ExceptIs DEF a
  <2> QED  BY <1>2, <2>1, EmptySeq
<1>4. DOMAIN q = 1 .. n /\ q = [l \in 1 .. n |-> q[l]]
  BY DEF IsSeq
<1>5. [q[i] EXCEPT !.data[j] = y] = r
  <2> HIDE DEF a
  <2>1. q[i].data = a
    BY DEF a
  <2>2. [q[i] EXCEPT !.data[j] = y] = [q[i] EXCEPT !.data = b]
    BY ONLY <2>1
  <2> HIDE DEF b
  <2>3. [Plain(Handshake, a) EXCEPT !.data = b] = r
    BY ONLY DEF Plain, r
  <2> QED  BY ONLY <1>2, <2>2, <2>3, Zenon
<1>6. p = [q EXCEPT ![i] = r]
  BY <1>4, <1>5
<1>7. r = Plain(Handshake, r.data) /\ r.data = b
  BY DEF Plain
<1> HIDE DEF a, b, r, p, g, n
<1>8. /\ p = [l \in 1 .. n |-> p[l]] /\ p[i] = r /\ \A l \in 1 .. n : l # i => p[l] = q[l]
  BY <1>4, <1>6 DEF n
<1>9. IsSeq(p) /\ Len(p) = n
  BY <1>1, <1>8, FunIs
<1>10. ASSUME NEW l \in 1 .. n
       PROVE  /\ p[l] = Plain(Handshake, p[l].data) /\ p[l].data \in Seq(Messages)
              /\ p[l].data # << >>
  <2>1. CASE l = i
    BY <1>3, <1>7, <1>8, <2>1
  <2>2. CASE l # i
    <3>1. p[l] = q[l]
      BY <1>8, <2>2
    <3> QED  BY <1>1, <3>1
  <2> QED  BY <2>1, <2>2
<1>11. FlightPart(p)
  BY <1>9, <1>10 DEF FlightPart
<1>12. Flown(p) = [g EXCEPT ![i][j] = y]
  <2>1. Flown(p) = [l \in 1 .. n |-> p[l].data]
    BY <1>9 DEF Flown
  <2>2. g = [l \in 1 .. n |-> q[l].data]
    BY DEF g, n, Flown
  <2>3. g[i] = a /\ DOMAIN g = 1 .. n
    BY <2>2 DEF a, n
  <2>4. [g EXCEPT ![i][j] = y] = [g EXCEPT ![i] = b]
    BY <2>3 DEF b
  <2>5. p[i].data = b /\ \A l \in 1 .. n : l # i => p[l].data = q[l].data
    BY <1>7, <1>8
  <2>6. [g EXCEPT ![i] = b] = [l \in 1 .. n |-> p[l].data]
    BY <2>2, <2>3, <2>5 DEF n
  <2> QED  BY <2>1, <2>4, <2>6
<1> QED  BY <1>9, <1>11, <1>12 DEF p, g, n, Changed

LEMMA SpoiltIs ==
  ASSUME NEW x \in Nat, NEW k \in Nat
  PROVE  /\ Spoilt(Msg(ServerHello, <<x>>)) = Msg(ServerHello, <<x + 1>>)
         /\ Spoilt(Msg(ServerCert, <<k>>)) = Msg(ServerCert, <<Garbled>>)
         /\ Msg(CertRequest, << >>).v = << >> /\ Msg(ServerDone, << >>).v = << >>
<1>1. <<x>>[1] = x /\ <<k>>[1] = k
  OBVIOUS
<1> QED  BY <1>1 DEF Spoilt, Msg, ServerHello, ServerCert

LEMMA RestOf ==
  ASSUME NEW T, NEW s \in Seq(T), NEW n \in Nat, n <= Len(s)
  PROVE  /\ SubSeq(s, n + 1, Len(s)) \in Seq(T) /\ Len(SubSeq(s, n + 1, Len(s))) = Len(s) - n
         /\ \A i \in 1 .. Len(s) - n : SubSeq(s, n + 1, Len(s))[i] = s[n + i]
<1> DEFINE l == Len(s)
<1>0. l \in Nat
  BY LenProperties
<1>1. n + 1 \in 1 .. l + 1 /\ l \in n .. l
  BY <1>0
<1>2. SubSeq(s, n + 1, l) \in Seq(T)
  <2>1. \A i \in n + 1 .. l : s[i] \in T
    <3>1. \A i \in n + 1 .. l : i \in 1 .. l
      BY <1>0
    <3> QED  BY <3>1, ElementOfSeq
  <2> QED  BY <1>0, <2>1, SubSeqProperties
<1>3. Len(SubSeq(s, n + 1, l)) = l - n
  BY <1>0, SubSeqProperties
<1>4. \A i \in 1 .. l - n : SubSeq(s, n + 1, l)[i] = s[n + i]
  <2> SUFFICES ASSUME NEW i \in 1 .. l - n PROVE SubSeq(s, n + 1, l)[i] = s[n + i]
    OBVIOUS
  <2>1. SubSeq(s, n + 1, l)[i] = s[(n + 1) + i - 1]
    BY <1>0, SubSeqProperties
  <2>2. (n + 1) + i - 1 = n + i
    BY <1>0
  <2> QED  BY <2>1, <2>2
<1> QED  BY <1>2, <1>3, <1>4

\* The flight whose message number at is replaced, if it can be.
LEMMA OtherFlight ==
  ASSUME NEW x \in Nat, NEW k \in Nat, NEW req \in BOOLEAN, NEW at \in 1 .. FlightLen(req),
         Flight(x, k, req)[at].v # << >>
  PROVE  \E y \in {x, x + 1}, l \in {k, Garbled} :
           /\ at > 1 => y = x
           /\ at > 2 => l = k
           /\ Flight(y, l, req)[at] = Spoilt(Flight(x, k, req)[at])
           /\ \A i \in 1 .. FlightLen(req) : i # at => Flight(y, l, req)[i] = Flight(x, k, req)[i]
<1> DEFINE L == FlightLen(req)
<1>1. L \in {3, 4} /\ (L = 4 <=> req = TRUE)
  BY DEF FlightLen
<1>2. Garbled \in Nat /\ x + 1 \in Nat
  BY CertNumbers
<1>3. \A a, b \in Nat : /\ Flight(a, b, req)[1] = Msg(ServerHello, <<a>>)
                        /\ Flight(a, b, req)[2] = Msg(ServerCert, <<b>>)
                        /\ req = TRUE => Flight(a, b, req)[3] = Msg(CertRequest, << >>)
                        /\ Flight(a, b, req)[L] = Msg(ServerDone, << >>)
  BY FlightIs, ZenonT(45)
<1> HIDE DEF L
<1>4. \A i \in 1 .. L : i = 1 \/ i = 2 \/ (i = 3 /\ req = TRUE) \/ i = L
  BY <1>1
<1>5. at = 1 \/ at = 2
  <2>1. at \in 1 .. L
    BY DEF L
  <2>2. at = L => Flight(x, k, req)[at].v = << >>
    BY <1>3, SpoiltIs, ZenonT(45)
  <2>3. at = 3 /\ req = TRUE => Flight(x, k, req)[at].v = << >>
    BY <1>3, SpoiltIs
  <2> QED  BY <1>4, <2>1, <2>2, <2>3
<1>6. CASE at = 1
  <2>1. Flight(x + 1, k, req)[at] = Spoilt(Flight(x, k, req)[at])
    BY <1>2, <1>3, <1>6, SpoiltIs
  <2>2. ASSUME NEW i \in 1 .. L, i # at PROVE Flight(x + 1, k, req)[i] = Flight(x, k, req)[i]
    <3>1. /\ Flight(x + 1, k, req)[2] = Flight(x, k, req)[2]
          /\ req = TRUE => Flight(x + 1, k, req)[3] = Flight(x, k, req)[3]
          /\ Flight(x + 1, k, req)[L] = Flight(x, k, req)[L]
      BY <1>2, <1>3, ZenonT(45)
    <3> QED  BY <1>4, <1>6, <2>2, <3>1
  <2>3. x + 1 \in {x, x + 1} /\ k \in {k, Garbled} /\ ~(at > 1) /\ ~(at > 2)
    BY <1>6
  <2> QED  BY <2>1, <2>2, <2>3, Zenon DEF L
<1>7. CASE at = 2
  <2>1. Flight(x, Garbled, req)[at] = Spoilt(Flight(x, k, req)[at])
    BY <1>2, <1>3, <1>7, SpoiltIs
  <2>2. ASSUME NEW i \in 1 .. L, i # at PROVE Flight(x, Garbled, req)[i] = Flight(x, k, req)[i]
    <3>1. /\ Flight(x, Garbled, req)[1] = Flight(x, k, req)[1]
          /\ req = TRUE => Flight(x, Garbled, req)[3] = Flight(x, k, req)[3]
          /\ Flight(x, Garbled, req)[L] = Flight(x, k, req)[L]
      BY <1>2, <1>3, ZenonT(45)
    <3> QED  BY <1>4, <1>7, <2>2, <3>1
  <2>3. x \in {x, x + 1} /\ Garbled \in {k, Garbled} /\ ~(at > 2)
    BY <1>7
  <2> QED  BY <2>1, <2>2, <2>3, Zenon DEF L
<1> QED  BY <1>5, <1>6, <1>7

SpoiltAt(q, i, j) == [q EXCEPT ![i].data[j] = Spoilt(@)]

\* p is the rest of another flight, which is the same as far as it has been heard.
Reflown(p, q, x, k, req, n) ==
  /\ IsSeq(p) /\ FlightPart(p) /\ Len(p) = Len(q)
  /\ \E y \in {x, x + 1}, l \in {k, Garbled} :
       /\ n >= 1 => y = x
       /\ n >= 2 => l = k
       /\ FlattenSeq(Flown(p)) = SubSeq(Flight(y, l, req), n + 1, FlightLen(req))

\* A number of the flight is damaged on its way: it is the rest of another flight.
LEMMA FlightSpoilt ==
  ASSUME NEW q, IsSeq(q), FlightPart(q), NEW i \in 1 .. Len(q), NEW j \in 1 .. Len(q[i].data),
         q[i].data[j].v # << >>,
         NEW x \in Nat, NEW k \in Nat, NEW req \in BOOLEAN, NEW n \in Nat, n < FlightLen(req),
         FlattenSeq(Flown(q)) = SubSeq(Flight(x, k, req), n + 1, FlightLen(req))
  PROVE  Reflown(SpoiltAt(q, i, j), q, x, k, req, n)
<1> DEFINE a == q[i].data[j]
           z == Spoilt(a)
           p == [q EXCEPT ![i].data[j] = Spoilt(@)]
           L == FlightLen(req)
           fl == Flight(x, k, req)
           g == Flown(q)
           fg == FlattenSeq(g)
<1>1. L \in Nat /\ n < L
  BY FlightLenIs
<1>2. fl \in Seq(Messages) /\ Len(fl) = L
  BY FlightIs, Zenon
<1>3. /\ g \in Seq(Seq(Messages)) /\ Len(g) = Len(q) /\ Len(q) \in Nat
      /\ g[i] = q[i].data /\ q[i].data \in Seq(Messages)
  BY FlownIs
<1> HIDE DEF L, fl, g
<1>4. a \in Messages
  <2>1. \A s \in Seq(Messages) : \A o \in 1 .. Len(s) : s[o] \in Messages
    BY ElementOfSeq
  <2> QED  BY <1>3, <2>1
<1>5. z \in Messages
  <2>1. \E o \in Nat : z = [a EXCEPT !.v = <<o>>]
    <3>1. Garbled \in Nat
      BY CertNumbers
    <3>2. a.v \in Seq(Nat) /\ a.v # << >>
      BY <1>4 DEF Messages
    <3>3. a.v[1] + 1 \in Nat
      <4>1. 1 \in 1 .. Len(a.v)
        BY <3>2, SeqIs, NoneIs
      <4> DEFINE av == a.v
      <4> HIDE DEF av
      <4>2. av[1] \in Nat
        BY <3>2, <4>1, ElementOfSeq DEF av
      <4> QED  BY <4>2, SMTT(40) DEF av
    <3> QED  BY <3>1, <3>3 DEF Spoilt
  <2> HIDE DEF z, a
  <2>2. \A o \in Nat : <<o>> \in Seq(Nat)
    OBVIOUS
  <2> QED  BY <1>4, <2>1, <2>2 DEF Messages
<1>6. p = [q EXCEPT ![i].data[j] = z]
  BY DEF IsSeq
<1> HIDE DEF z, p
<1>7. IsSeq(p) /\ FlightPart(p) /\ Flown(p) = [g EXCEPT ![i][j] = z] /\ Len(p) = Len(q)
  <2> DEFINE r == Changed(q, i, j, z)
  <2>1. IsSeq(r) /\ FlightPart(r) /\ Flown(r) = [Flown(q) EXCEPT ![i][j] = z] /\ Len(r) = Len(q)
    <3>1. IsSeq(q) /\ FlightPart(q) /\ i \in 1 .. Len(q) /\ j \in 1 .. Len(q[i].data)
      OBVIOUS
    <3> QED  BY ONLY <1>5, <3>1, FlownChanged
  <2> HIDE DEF r
  <2>2. p = r
    BY <1>6 DEF r, Changed
  <2> QED  BY <2>1, <2>2 DEF g
<1>8. Places(Messages, g, i, j, z)
  <2>1. i \in 1 .. Len(g) /\ j \in 1 .. Len(g[i])
    BY <1>3
  <2> QED  BY <1>3, <1>5, <2>1, PlacesAre
<1> DEFINE t == [g EXCEPT ![i][j] = z]
           ft == FlattenSeq(t)
           m == Len(fg)
<1>9. PICK at \in 1 .. m : /\ fg[at] = g[i][j] /\ ft[at] = z
                           /\ \A o \in 1 .. m : o # at => ft[o] = fg[o]
  BY <1>8, Zenon DEF Places
<1>10. t \in Seq(Seq(Messages)) /\ Len(ft) = m
  BY <1>8, Zenon DEF Places
<1>11. ft \in Seq(Messages)
  BY <1>10, FlattenType
<1>12. fg = SubSeq(fl, n + 1, L)
  BY DEF fl, L, g
<1>13. m = L - n /\ \A o \in 1 .. L - n : fg[o] = fl[n + o]
  BY <1>1, <1>2, <1>12, RestOf
<1> HIDE DEF fg, m, ft, t
<1>14. n + at \in 1 .. L /\ fl[n + at] = a
  <2>1. at \in 1 .. L - n
    BY <1>13
  <2>2. n + at \in 1 .. L
    BY <1>1, <2>1
  <2>3. fl[n + at] = fg[at]
    BY <1>13, <2>1
  <2> QED  BY <1>3, <1>9, <2>2, <2>3 DEF a
<1>15. PICK y \in {x, x + 1}, l \in {k, Garbled} :
           /\ n + at > 1 => y = x
           /\ n + at > 2 => l = k
           /\ Flight(y, l, req)[n + at] = z
           /\ \A o \in 1 .. L : o # n + at => Flight(y, l, req)[o] = fl[o]
  <2>1. n + at \in 1 .. FlightLen(req) /\ Flight(x, k, req)[n + at].v # << >>
    BY <1>14 DEF L, fl, a
  <2> DEFINE w == n + at
  <2> HIDE DEF w
  <2>2. w \in 1 .. FlightLen(req) /\ Flight(x, k, req)[w].v # << >>
    BY <2>1 DEF w
  <2>3. \E y \in {x, x + 1}, l \in {k, Garbled} :
           /\ w > 1 => y = x
           /\ w > 2 => l = k
           /\ Flight(y, l, req)[w] = Spoilt(Flight(x, k, req)[w])
           /\ \A o \in 1 .. FlightLen(req) : o # w => Flight(y, l, req)[o] = Flight(x, k, req)[o]
    BY <2>2, OtherFlight, SMTT(40)
  <2>4. Spoilt(Flight(x, k, req)[w]) = z
    BY <1>14 DEF w, z, fl
  <2> QED  BY <2>3, <2>4, Zenon DEF w, L, fl
<1> DEFINE fm == Flight(y, l, req)
           rest == SubSeq(fm, n + 1, L)
<1>16. fm \in Seq(Messages) /\ Len(fm) = L
  <2>1. y \in Nat /\ l \in Nat
    BY CertNumbers, SMTT(40)
  <2> QED  BY <2>1, FlightIs, Zenon DEF L
<1> HIDE DEF fm
<1>17. /\ rest \in Seq(Messages) /\ Len(rest) = L - n
       /\ \A o \in 1 .. L - n : rest[o] = fm[n + o]
  BY <1>1, <1>16, RestOf
<1>18. ft = rest
  <2>1. ASSUME NEW o \in 1 .. L - n PROVE ft[o] = rest[o]
    <3>1. n + o \in 1 .. L /\ (o # at => n + o # n + at) /\ at \in 1 .. L - n
      BY <1>1, <1>13
    <3>2. CASE o = at
      BY <1>9, <1>15, <1>17, <3>2 DEF fm
    <3>3. CASE o # at
      <4>1. ft[o] = fg[o] /\ fg[o] = fl[n + o]
        BY <1>9, <1>13, <3>3
      <4>2. rest[o] = fm[n + o] /\ fm[n + o] = fl[n + o]
        BY <1>15, <1>17, <3>1, <3>3 DEF fm
      <4> QED  BY <4>1, <4>2
    <3> QED  BY <3>2, <3>3
  <2>2. Len(ft) = L - n
    BY <1>10, <1>13
  <2> HIDE DEF rest
  <2> QED  BY <1>11, <1>17, <2>1, <2>2, SeqEqual
<1>19. (n >= 1 => y = x) /\ (n >= 2 => l = k)
  <2>1. at >= 1 /\ at \in Nat
    BY <1>1, <1>13
  <2>2. (n >= 1 => n + at > 1) /\ (n >= 2 => n + at > 2)
    BY <2>1
  <2> QED  BY <1>15, <2>2
<1>20. FlattenSeq(Flown(p)) = SubSeq(Flight(y, l, req), n + 1, L)
  BY <1>7, <1>18 DEF ft, t, fm
<1> QED  BY <1>7, <1>19, <1>20, Zenon DEF Reflown, SpoiltAt, p, L

----------------------------------------------------------------------------
(***************************************************************************)
(* The application data under way, and in the buffers.                     *)
(***************************************************************************)
Loads(q) == \A i \in 1 .. Len(q) : Payload(q[i]) \in Seq(Nat)
Payloads(q) == [i \in 1 .. Len(q) |-> Payload(q[i])]

LEMMA CarriedIs ==
  ASSUME NEW q, IsSeq(q), Loads(q)
  PROVE  /\ Carried(q) = FlattenSeq(Payloads(q)) /\ Payloads(q) \in Seq(Seq(Nat))
         /\ Len(Payloads(q)) = Len(q) /\ \A i \in 1 .. Len(q) : Payloads(q)[i] = Payload(q[i])
         /\ Carried(q) \in Seq(Nat)
<1> DEFINE p == Payloads(q)
<1>1. Len(q) \in Nat /\ DOMAIN q = 1 .. Len(q)
  BY DEF IsSeq
<1>2. Carried(q) = FlattenSeq(p)
  BY <1>1 DEF Carried, Payloads
<1>3. p \in Seq(Seq(Nat)) /\ \A i \in 1 .. Len(q) : p[i] = Payload(q[i])
  BY <1>1 DEF Payloads, Loads
<1>4. p = [i \in 1 .. Len(q) |-> p[i]]
  BY DEF Payloads
<1> HIDE DEF p
<1>5. Len(p) = Len(q)
  BY <1>1, <1>4, FunIs
<1>6. FlattenSeq(p) \in Seq(Nat)
  BY <1>3, FlattenType
<1> QED  BY <1>2, <1>3, <1>5, <1>6 DEF p

LEMMA CarriedNone == Carried(<< >>) = << >>
<1>1. [i \in DOMAIN << >> |-> Payload(<< >>[i])] = << >>
  OBVIOUS
<1> QED  BY <1>1, FlattenNone DEF Carried

LEMMA CarriedMore ==
  ASSUME NEW q, IsSeq(q), Loads(q), NEW r, Payload(r) \in Seq(Nat)
  PROVE  Loads(Append(q, r)) /\ Carried(Append(q, r)) = Carried(q) \o Payload(r)
<1> DEFINE a == Append(q, r)
           n == Len(q)
           y == Payload(r)
<1>1. /\ IsSeq(a) /\ Len(a) = n + 1 /\ n \in Nat /\ a[n + 1] = r
      /\ \A i \in 1 .. n : a[i] = q[i]
  BY AppendIs DEF IsSeq
<1> HIDE DEF a
<1>2. Loads(a)
  <2>1. \A i \in 1 .. n + 1 : i \in 1 .. n \/ i = n + 1
    BY <1>1
  <2>2. ASSUME NEW i \in 1 .. n + 1 PROVE Payload(a[i]) \in Seq(Nat)
    BY <1>1, <2>1 DEF Loads
  <2> QED  BY <1>1, <2>2 DEF Loads
<1>3. /\ Carried(q) = FlattenSeq(Payloads(q)) /\ Payloads(q) \in Seq(Seq(Nat))
      /\ Len(Payloads(q)) = n /\ \A i \in 1 .. n : Payloads(q)[i] = Payload(q[i])
  BY CarriedIs
<1>4. /\ Carried(a) = FlattenSeq(Payloads(a)) /\ Payloads(a) \in Seq(Seq(Nat))
      /\ Len(Payloads(a)) = n + 1 /\ \A i \in 1 .. n + 1 : Payloads(a)[i] = Payload(a[i])
  BY <1>1, <1>2, CarriedIs
<1> DEFINE p == Payloads(q)
           b == Payloads(a)
<1>5. y \in Seq(Nat)
  OBVIOUS
<1> HIDE DEF p, b, y
<1>6. b = Append(p, y)
  <2>1. /\ Append(p, y) \in Seq(Seq(Nat)) /\ Len(Append(p, y)) = n + 1
        /\ Append(p, y)[n + 1] = y /\ \A i \in 1 .. n : Append(p, y)[i] = p[i]
    <3>1. p \in Seq(Seq(Nat)) /\ Len(p) = n
      BY <1>3 DEF p
    <3>2. IsSeq(p)
      BY <3>1, SeqIs
    <3>3. /\ Len(Append(p, y)) = Len(p) + 1
          /\ Append(p, y)[Len(p) + 1] = y /\ \A i \in 1 .. Len(p) : Append(p, y)[i] = p[i]
      BY <3>2, AppendIs
    <3>4. Append(p, y) \in Seq(Seq(Nat))
      BY <1>5, <3>1, AppendProperties
    <3> QED  BY <3>1, <3>3, <3>4
  <2>2. \A i \in 1 .. n + 1 : i \in 1 .. n \/ i = n + 1
    BY <1>1
  <2>3. ASSUME NEW i \in 1 .. n + 1 PROVE b[i] = Append(p, y)[i]
    <3>1. CASE i = n + 1
      BY <1>1, <1>4, <2>1, <3>1 DEF b, y
    <3>2. CASE i \in 1 .. n
      BY <1>1, <1>3, <1>4, <2>1, <3>2 DEF b, p
    <3> QED  BY <2>2, <3>1, <3>2
  <2> QED  BY <1>4, <2>1, <2>3, SeqEqual DEF b
<1>7. FlattenSeq(Append(p, y)) = FlattenSeq(p) \o y
  BY <1>3, <1>5, FlattenAppend DEF p
<1> QED  BY <1>2, <1>3, <1>4, <1>6, <1>7 DEF a, p, b, y

LEMMA CarriedTail ==
  ASSUME NEW q, IsSeq(q), Loads(q), q # << >>
  PROVE  /\ Loads(Tail(q)) /\ Carried(q) = Payload(Head(q)) \o Carried(Tail(q))
         /\ Payload(Head(q)) \in Seq(Nat) /\ Carried(Tail(q)) \in Seq(Nat)
<1> DEFINE t == Tail(q)
           n == Len(q)
<1>1. /\ IsSeq(t) /\ n \in Nat /\ n >= 1 /\ Len(t) = n - 1 /\ Head(q) = q[1]
      /\ \A i \in 1 .. n - 1 : t[i] = q[i + 1]
  BY TailIs
<1> HIDE DEF t
<1>2. Loads(t)
  <2>1. ASSUME NEW i \in 1 .. n - 1 PROVE Payload(t[i]) \in Seq(Nat)
    <3>1. i + 1 \in 1 .. n /\ t[i] = q[i + 1]
      BY <1>1
    <3> QED  BY <3>1 DEF Loads
  <2> QED  BY <1>1, <2>1 DEF Loads
<1> DEFINE p == Payloads(q)
           b == Payloads(t)
<1>3. /\ Carried(q) = FlattenSeq(p) /\ p \in Seq(Seq(Nat))
      /\ Len(p) = n /\ \A i \in 1 .. n : p[i] = Payload(q[i])
  BY CarriedIs
<1>4. /\ Carried(t) = FlattenSeq(b) /\ b \in Seq(Seq(Nat))
      /\ Len(b) = n - 1 /\ \A i \in 1 .. n - 1 : b[i] = Payload(t[i])
  BY <1>1, <1>2, CarriedIs
<1> HIDE DEF p, b
<1>5. p # << >> /\ Tail(p) \in Seq(Seq(Nat)) /\ Head(p) = p[1] /\ Len(Tail(p)) = n - 1
      /\ \A i \in 1 .. n - 1 : Tail(p)[i] = p[i + 1]
  <2>1. p # << >>
    BY <1>1, <1>3, EmptySeq
  <2>2. IsSeq(p)
    BY <1>3, SeqIs
  <2>3. Len(Tail(p)) = Len(p) - 1 /\ Head(p) = p[1]
          /\ \A i \in 1 .. Len(p) - 1 : Tail(p)[i] = p[i + 1]
    BY <2>1, <2>2, TailIs
  <2>4. Tail(p) \in Seq(Seq(Nat))
    BY <1>3, <2>1, HeadTailProperties
  <2> QED  BY <1>3, <2>1, <2>3, <2>4
<1>6. Tail(p) = b
  <2>1. ASSUME NEW i \in 1 .. n - 1 PROVE Tail(p)[i] = b[i]
    <3>1. i + 1 \in 1 .. n
      BY <1>1
    <3>2. Tail(p)[i] = p[i + 1] /\ p[i + 1] = Payload(q[i + 1]) /\ b[i] = Payload(t[i])
          /\ t[i] = q[i + 1]
      BY <1>1, <1>3, <1>4, <1>5, <3>1
    <3> QED  BY <3>2
  <2> QED  BY <1>4, <1>5, <2>1, SeqEqual
<1>7. FlattenSeq(p) = Head(p) \o FlattenSeq(Tail(p))
  BY <1>3, <1>5, FlattenHead
<1>8. p[1] = Payload(q[1]) /\ p[1] \in Seq(Nat)
  <2>1. 1 \in 1 .. n
    BY <1>1
  <2>2. Payload(q[1]) \in Seq(Nat)
    BY <2>1 DEF Loads
  <2> QED  BY <1>3, <2>1, <2>2
<1>9. Carried(t) \in Seq(Nat)
  BY <1>1, <1>2, CarriedIs
<1>10. Carried(q) = Payload(Head(q)) \o Carried(t)
  BY <1>1, <1>3, <1>4, <1>5, <1>6, <1>7, <1>8
<1> QED  BY <1>1, <1>2, <1>8, <1>9, <1>10 DEF t

LEMMA CarriedSame ==
  ASSUME NEW p, IsSeq(p), NEW q, IsSeq(q), Len(p) = Len(q),
         \A i \in 1 .. Len(p) : Payload(p[i]) = Payload(q[i])
  PROVE  Carried(p) = Carried(q)
<1>1. DOMAIN p = 1 .. Len(p) /\ DOMAIN q = 1 .. Len(p)
  BY DEF IsSeq
<1> QED  BY <1>1 DEF Carried

LEMMA BytesAre ==
  ASSUME NEW a \in Nat, NEW n \in Nat
  PROVE  Bytes(a, n) \in Seq(Nat) /\ Len(Bytes(a, n)) = n
           /\ \A i \in 1 .. n : Bytes(a, n)[i] = a + i
<1> DEFINE b == Bytes(a, n)
<1>1. b \in Seq(Nat) /\ \A i \in 1 .. n : b[i] = a + i
  BY DEF Bytes
<1>2. b = [i \in 1 .. n |-> b[i]]
  BY DEF Bytes
<1> HIDE DEF b
<1>3. Len(b) = n
  BY <1>2, FunIs
<1> QED  BY <1>1, <1>3 DEF b

LEMMA BytesJoin ==
  ASSUME NEW a \in Nat, NEW n \in Nat
  PROVE  Bytes(0, a) \o Bytes(a, n) = Bytes(0, a + n)
<1> DEFINE p == Bytes(0, a)
           q == Bytes(a, n)
           b == Bytes(0, a + n)
<1>0. a + n \in Nat
  OBVIOUS
<1>1. p \in Seq(Nat) /\ Len(p) = a /\ \A i \in 1 .. a : p[i] = 0 + i
  BY BytesAre
<1>2. q \in Seq(Nat) /\ Len(q) = n /\ \A i \in 1 .. n : q[i] = a + i
  BY BytesAre
<1>3. b \in Seq(Nat) /\ Len(b) = a + n /\ \A i \in 1 .. a + n : b[i] = 0 + i
  BY <1>0, BytesAre
<1> HIDE DEF p, q, b
<1>4. IsSeq(p) /\ IsSeq(q)
  BY <1>1, <1>2, SeqIs
<1>5. /\ Len(p \o q) = a + n
      /\ \A i \in 1 .. a : (p \o q)[i] = p[i]
      /\ \A i \in 1 .. n : (p \o q)[a + i] = q[i]
  <2>1. /\ Len(p \o q) = Len(p) + Len(q)
        /\ \A i \in 1 .. Len(p) : (p \o q)[i] = p[i]
        /\ \A i \in 1 .. Len(q) : (p \o q)[Len(p) + i] = q[i]
    BY <1>4, CatIs
  <2> QED  BY <1>1, <1>2, <2>1
<1>6. p \o q \in Seq(Nat)
  BY <1>1, <1>2, ConcatProperties
<1>7. ASSUME NEW i \in 1 .. a + n PROVE (p \o q)[i] = b[i]
  <2>1. CASE i \in 1 .. a
    BY <1>1, <1>3, <1>5, <2>1
  <2>2. CASE i \notin 1 .. a
    <3>1. i - a \in 1 .. n /\ a + (i - a) = i
      BY <2>2
    <3>2. (p \o q)[a + (i - a)] = q[i - a] /\ q[i - a] = a + (i - a)
      BY <1>2, <1>5, <3>1
    <3>3. b[i] = i
      BY <1>3
    <3> QED  BY <3>1, <3>2, <3>3
  <2> QED  BY <2>1, <2>2
<1>8. p \o q = b
  BY <1>3, <1>5, <1>6, <1>7, SeqEqual
<1> QED  BY <1>8 DEF p, q, b

\* The beginning of the bytes is bytes.
LEMMA BytesBegin ==
  ASSUME NEW p \in Seq(Nat), NEW q \in Seq(Nat), NEW n \in Nat, p \o q = Bytes(0, n)
  PROVE  p = Bytes(0, Len(p))
<1> DEFINE b == Bytes(0, n)
           m == Len(p)
           z == Bytes(0, m)
<1>1. IsSeq(p) /\ IsSeq(q) /\ m \in Nat /\ Len(q) \in Nat
  BY SeqIs, LenProperties
<1>2. b \in Seq(Nat) /\ Len(b) = n /\ \A i \in 1 .. n : b[i] = 0 + i
  BY BytesAre
<1>3. z \in Seq(Nat) /\ Len(z) = m /\ \A i \in 1 .. m : z[i] = 0 + i
  BY <1>1, BytesAre
<1>4. Len(p \o q) = m + Len(q) /\ \A i \in 1 .. m : (p \o q)[i] = p[i]
  BY <1>1, CatIs
<1>5. p \o q = b
  OBVIOUS
<1> HIDE DEF b, z
<1>6. n = m + Len(q)
  BY <1>2, <1>4, <1>5
<1>7. ASSUME NEW i \in 1 .. m PROVE p[i] = z[i]
  <2>1. i \in 1 .. n
    BY <1>1, <1>6
  <2>2. (p \o q)[i] = p[i] /\ b[i] = 0 + i /\ z[i] = 0 + i
    BY <1>2, <1>3, <1>4, <2>1
  <2> QED  BY <1>5, <2>2
<1>8. p = z
  BY <1>3, <1>7, SeqEqual
<1> QED  BY <1>8 DEF z

LEMMA CopiedRest ==
  ASSUME NEW b \in Seq(Nat), NEW len \in Nat
  PROVE  /\ Copied(b, len) \in Seq(Nat) /\ Rest(b, len) \in Seq(Nat)
         /\ Copied(b, len) \o Rest(b, len) = b
<1> DEFINE n == Len(b)
<1>0. n \in Nat
  BY LenProperties
<1>1. CASE n <= len
  <2>1. Copied(b, len) = b
    BY <1>1 DEF Copied
  <2>2. Rest(b, len) = << >>
    <3>1. n < len + 1
      BY <1>0, <1>1
    <3> QED  BY <1>0, <3>1, SubSeqEmpty DEF Rest
  <2>3. b \o << >> = b
    BY ConcatEmptySeq
  <2> QED  BY <2>1, <2>2, <2>3, EmptySeq
<1>2. CASE ~(n <= len)
  <2>1. Copied(b, len) = SubSeq(b, 1, len) /\ Rest(b, len) = SubSeq(b, len + 1, n)
    BY <1>2 DEF Copied, Rest
  <2>2. len <= n /\ \A i \in 1 .. len : b[i] \in Nat
    <3>1. len <= n
      BY <1>0, <1>2
    <3>2. \A i \in 1 .. len : i \in 1 .. n
      BY <1>0, <3>1
    <3> QED  BY <3>1, <3>2, ElementOfSeq
  <2> DEFINE c == SubSeq(b, 1, len)
             r == SubSeq(b, len + 1, n)
  <2>3. c \in Seq(Nat) /\ Len(c) = len /\ \A i \in 1 .. len : c[i] = b[i]
    <3>1. /\ c \in Seq(Nat) /\ Len(c) = (IF 1 <= len THEN len - 1 + 1 ELSE 0)
          /\ \A i \in 1 .. len - 1 + 1 : c[i] = b[1 + i - 1]
      BY <2>2, SubSeqProperties
    <3>2. 1 .. len - 1 + 1 = 1 .. len /\ (IF 1 <= len THEN len - 1 + 1 ELSE 0) = len
      OBVIOUS
    <3>3. \A i \in 1 .. len : 1 + i - 1 = i
      OBVIOUS
    <3> HIDE DEF c
    <3> QED  BY <3>1, <3>2, <3>3
  <2>4. r \in Seq(Nat) /\ Len(r) = n - len /\ \A i \in 1 .. n - len : r[i] = b[len + i]
    BY <2>2, RestOf
  <2> HIDE DEF c, r
  <2>5. IsSeq(c) /\ IsSeq(r) /\ c \o r \in Seq(Nat)
    BY <2>3, <2>4, SeqIs, ConcatProperties
  <2>6. /\ Len(c \o r) = Len(c) + Len(r)
        /\ \A i \in 1 .. Len(c) : (c \o r)[i] = c[i]
        /\ \A i \in 1 .. Len(r) : (c \o r)[Len(c) + i] = r[i]
    BY <2>5, CatIs
  <2>7. Len(c \o r) = n
    BY <1>0, <2>2, <2>3, <2>4, <2>6
  <2>8. ASSUME NEW i \in 1 .. n PROVE (c \o r)[i] = b[i]
    <3>1. CASE i \in 1 .. len
      BY <2>3, <2>6, <3>1
    <3>2. CASE i \notin 1 .. len
      <4>1. i - len \in 1 .. n - len /\ len + (i - len) = i
        BY <1>0, <2>2, <3>2
      <4>2. (c \o r)[len + (i - len)] = r[i - len] /\ r[i - len] = b[len + (i - len)]
        BY <2>3, <2>4, <2>6, <4>1
      <4> QED  BY <4>1, <4>2
    <3> QED  BY <3>1, <3>2
  <2>9. c \o r = b
    BY <2>5, <2>7, <2>8, SeqEqual
  <2> QED  BY <2>1, <2>3, <2>4, <2>9 DEF c, r
<1> QED  BY <1>1, <1>2

----------------------------------------------------------------------------
(***************************************************************************)
(* The records of an open session, in order (1108-1177, with the counters  *)
(* of both sides).                                                         *)
(***************************************************************************)
LEMMA CodesDiffer ==
  /\ ChangeCipher = 20 /\ Alert = 21 /\ Handshake = 22 /\ Application = 23
  /\ Alert \notin {Handshake, Application} /\ ChangeCipher \notin {Handshake, Application}
  /\ Handshake # Application
BY DEF ChangeCipher, Alert, Handshake, Application

LEMMA NumberedIs ==
  ASSUME NEW m, NEW n, NEW r, NEW d, Numbered(m, n, r, d)
  PROVE  /\ r.ct \in {Handshake, Application} /\ r.ct # Alert /\ r.ct # ChangeCipher
         /\ r.key # NoSlice /\ Payload(r) \in Seq(Nat) /\ Numbered(m, n, r, TRUE)
<1>1. r.ct \in {Handshake, Application} /\ IsContent(r.ct, r.data)
  BY DEF Numbered
<1>2. r.ct # Alert /\ r.ct # ChangeCipher
  BY <1>1, CodesDiffer
<1>3. r.key # NoSlice
  BY DEF Numbered, ServerSide, NoSlice, Slice
<1>4. Payload(r) \in Seq(Nat)
  BY <1>1, CodesDiffer DEF Payload, IsContent, Flat
<1>5. Numbered(m, n, r, TRUE)
  BY Zenon DEF Numbered
<1> QED  BY <1>1, <1>2, <1>3, <1>4, <1>5

LEMMA OrderAppended ==
  ASSUME NEW q, IsSeq(q), NEW s, NEW n \in Nat, NEW d, InOrder(q, s, n, d, 0),
         NEW t, NEW r, t.master = s.master
  PROVE  /\ t.wseq = s.wseq + 1 /\ Numbered(s.master, s.wseq, r, d) =>
              InOrder(Append(q, r), t, n, d, 0)
         /\ t.wseq = s.wseq /\ t.at = "closed" /\ r.ct = Alert =>
              InOrder(Append(q, r), t, n, d, 1)
<1> DEFINE p == Append(q, r)
<1>1. /\ IsSeq(p) /\ Len(p) = Len(q) + 1 /\ Len(q) \in Nat
      /\ \A i \in 1 .. Len(q) : p[i] = q[i]
      /\ p[Len(q) + 1] = r
  BY AppendIs DEF IsSeq
<1>2. s.wseq = n + Len(q) /\ \A i \in 1 .. Len(q) : Numbered(s.master, n + i - 1, q[i], d)
  BY <1>1 DEF InOrder
<1> HIDE DEF p
<1>3. \A i \in 1 .. Len(q) : Numbered(t.master, n + i - 1, p[i], d)
  BY <1>1, <1>2
<1>4. ASSUME t.wseq = s.wseq + 1, Numbered(s.master, s.wseq, r, d) PROVE InOrder(p, t, n, d, 0)
  <2>1. n + (Len(q) + 1) - 1 = s.wseq /\ t.wseq = n + Len(p) - 0 /\ Len(p) >= 0
    BY <1>1, <1>2, <1>4
  <2>2. Numbered(t.master, n + (Len(q) + 1) - 1, p[Len(q) + 1], d)
    BY <1>1, <1>4, <2>1
  <2>3. \A i \in 1 .. Len(p) - 0 : i \in 1 .. Len(q) \/ i = Len(q) + 1
    BY <1>1
  <2>4. \A i \in 1 .. Len(p) - 0 : Numbered(t.master, n + i - 1, p[i], d)
    BY <1>3, <2>2, <2>3, Zenon
  <2> QED  BY <2>1, <2>4 DEF InOrder
<1>5. ASSUME t.wseq = s.wseq, t.at = "closed", r.ct = Alert PROVE InOrder(p, t, n, d, 1)
  <2>1. t.wseq = n + Len(p) - 1 /\ Len(p) >= 1 /\ Len(p) - 1 = Len(q)
    BY <1>1, <1>2, <1>5
  <2>2. p[Len(p)].ct = Alert
    BY <1>1, <1>5
  <2>3. \A i \in 1 .. Len(p) - 1 : Numbered(t.master, n + i - 1, p[i], d)
    BY <1>3, <2>1
  <2> QED  BY <1>5, <2>1, <2>2, <2>3 DEF InOrder
<1> QED  BY <1>4, <1>5 DEF p

LEMMA SeqAppended ==
  ASSUME NEW q, IsSeq(q), NEW s, NEW n \in Nat, NEW d, InSeq(q, s, n, d), s.at # "closed",
         NEW t, NEW r, t.master = s.master,
         \/ t.wseq = s.wseq + 1 /\ Numbered(s.master, s.wseq, r, d)
         \/ t.wseq = s.wseq /\ t.at = "closed" /\ r.ct = Alert
  PROVE  InSeq(Append(q, r), t, n, d)
<1>1. InOrder(q, s, n, d, 0)
  BY DEF InSeq, InOrder
<1>2. InOrder(Append(q, r), t, n, d, 0) \/ InOrder(Append(q, r), t, n, d, 1)
  BY <1>1, OrderAppended
<1> QED  BY <1>2 DEF InSeq

\* Whatever else changes at the server.
LEMMA SeqSame ==
  ASSUME NEW q, NEW s, NEW n, NEW d, InSeq(q, s, n, d),
         NEW t, t.master = s.master, t.wseq = s.wseq, s.at = "closed" => t.at = "closed"
  PROVE  InSeq(q, t, n, d)
<1>1. PICK b \in {0, 1} : InOrder(q, s, n, d, b)
  BY DEF InSeq
<1>2. InOrder(q, t, n, d, b)
  BY <1>1, Zenon DEF InOrder
<1> QED  BY <1>2 DEF InSeq

LEMMA SeqTail ==
  ASSUME NEW q, IsSeq(q), q # << >>, NEW s, NEW n \in Nat, NEW d, InSeq(q, s, n, d)
  PROVE  \/ Numbered(s.master, n, Head(q), d) /\ InSeq(Tail(q), s, n + 1, d)
         \/ Head(q).ct = Alert /\ s.at = "closed"
<1>1. PICK b \in {0, 1} : InOrder(q, s, n, d, b)
  BY DEF InSeq
<1> DEFINE p == Tail(q)
<1>2. /\ IsSeq(p) /\ Len(q) \in Nat /\ Len(q) >= 1 /\ Len(p) = Len(q) - 1 /\ Head(q) = q[1]
      /\ \A i \in 1 .. Len(q) - 1 : p[i] = q[i + 1]
  BY TailIs
<1> HIDE DEF p
<1>3. CASE Len(q) = b
  <2>1. b = 1 /\ Head(q) = q[Len(q)]
    BY <1>2, <1>3
  <2> QED  BY <1>1, <2>1 DEF InOrder
<1>4. CASE Len(q) # b
  <2>1. /\ Len(q) >= b /\ s.wseq = n + Len(q) - b
        /\ \A i \in 1 .. Len(q) - b : Numbered(s.master, n + i - 1, q[i], d)
        /\ b = 1 => s.at = "closed" /\ q[Len(q)].ct = Alert
    BY <1>1 DEF InOrder
  <2>2. 1 \in 1 .. Len(q) - b /\ n + 1 - 1 = n
    BY <1>2, <1>4, <2>1
  <2>3. Numbered(s.master, n, Head(q), d)
    BY <1>2, <2>1, <2>2
  <2>4. Len(p) >= b /\ s.wseq = (n + 1) + Len(p) - b
    BY <1>2, <1>4, <2>1
  <2>5. \A i \in 1 .. Len(p) - b : /\ i + 1 \in 1 .. Len(q) - b /\ i \in 1 .. Len(q) - 1
                                   /\ (n + 1) + i - 1 = n + (i + 1) - 1
    BY <1>2
  <2>6. \A i \in 1 .. Len(p) - b : Numbered(s.master, (n + 1) + i - 1, p[i], d)
    <3> SUFFICES ASSUME NEW i \in 1 .. Len(p) - b
                 PROVE  Numbered(s.master, (n + 1) + i - 1, p[i], d)
      OBVIOUS
    <3>1. Numbered(s.master, n + (i + 1) - 1, q[i + 1], d)
      BY <2>1, <2>5, Zenon
    <3>2. p[i] = q[i + 1]
      BY <1>2, <2>5, Zenon
    <3> QED  BY <2>5, <3>1, <3>2
  <2>7. b = 1 => p[Len(p)] = q[Len(q)]
    <3>1. b = 1 => Len(p) \in 1 .. Len(q) - 1 /\ Len(p) + 1 = Len(q)
      BY <1>2, <1>4, <2>4
    <3> QED  BY <1>2, <3>1
  <2>8. InOrder(p, s, n + 1, d, b)
    BY <2>1, <2>4, <2>6, <2>7 DEF InOrder
  <2> QED  BY <2>3, <2>8 DEF InSeq, p
<1> QED  BY <1>3, <1>4

LEMMA SeqLoads ==
  ASSUME NEW q, IsSeq(q), NEW s, NEW n, NEW d, InSeq(q, s, n, d)
  PROVE  /\ Loads(q) /\ \A i \in 1 .. Len(q) : q[i].ct # ChangeCipher
         /\ \A i \in 1 .. Len(q) : q[i].key = NoSlice => q[i].ct = Alert
<1>1. PICK b \in {0, 1} : InOrder(q, s, n, d, b)
  BY DEF InSeq
<1>2. Len(q) \in Nat
  BY DEF IsSeq
<1>3. /\ \A i \in 1 .. Len(q) - b : Numbered(s.master, n + i - 1, q[i], d)
      /\ b = 1 => q[Len(q)].ct = Alert
  BY <1>1 DEF InOrder
<1>4. ASSUME NEW i \in 1 .. Len(q)
      PROVE  /\ Payload(q[i]) \in Seq(Nat) /\ q[i].ct # ChangeCipher
             /\ q[i].key = NoSlice => q[i].ct = Alert
  <2>1. CASE i \in 1 .. Len(q) - b
    <3>1. Numbered(s.master, n + i - 1, q[i], d)
      BY <1>3, <2>1
    <3> QED  BY <3>1, NumberedIs
  <2>2. CASE i \notin 1 .. Len(q) - b
    <3>1. b = 1 /\ i = Len(q)
      BY <1>2, <2>2
    <3>2. q[i].ct = Alert
      BY <1>3, <3>1
    <3> QED  BY <3>2, CodesDiffer DEF Payload
  <2> QED  BY <2>1, <2>2
<1> QED  BY <1>4 DEF Loads

\* A record whose MAC no longer fits, and the others as they were.
Marred(q, p) ==
  /\ IsSeq(p) /\ Len(p) = Len(q)
  /\ \A i \in 1 .. Len(q) :
       /\ p[i].ct = q[i].ct /\ p[i].data = q[i].data /\ p[i].len = q[i].len
       /\ p[i].padlen = q[i].padlen /\ p[i].key = q[i].key /\ IsRecord(p[i])
       /\ p[i].mac = q[i].mac \/ p[i].mac = NoMac
       /\ q[i].key = NoSlice => p[i] = q[i]

LEMMA MacChanged ==
  ASSUME NEW q, IsSeq(q), \A i \in 1 .. Len(q) : IsRecord(q[i]),
         NEW at \in 1 .. Len(q), q[at].key # NoSlice
  PROVE  Marred(q, [q EXCEPT ![at].mac = NoMac])
<1> DEFINE y == [q[at] EXCEPT !.mac = NoMac]
           T == Parts(q) \cup {y}
<1>1. /\ y.ct = q[at].ct /\ y.data = q[at].data /\ y.len = q[at].len
      /\ y.padlen = q[at].padlen /\ y.key = q[at].key /\ IsRecord(y) /\ y.mac = NoMac
  BY DEF IsRecord
<1>2. [q EXCEPT ![at].mac = NoMac] = [q EXCEPT ![at] = y]
  BY DEF IsSeq
<1> HIDE DEF y
<1>3. q \in Seq(Parts(q)) /\ Parts(q) \subseteq T /\ y \in T
  BY SeqTyped
<1> HIDE DEF T
<1>4. q \in Seq(T)
  BY <1>3, SeqWider
<1> DEFINE p == [q EXCEPT ![at] = y]
<1>5. IsSeq(p) /\ Len(p) = Len(q) /\ p[at] = y /\ \A j \in 1 .. Len(q) : j # at => p[j] = q[j]
  BY <1>3, <1>4, ExceptIs
<1> HIDE DEF p
<1>6. Marred(q, p)
  BY <1>1, <1>5 DEF Marred
<1> QED  BY <1>2, <1>6 DEF p

LEMMA MarredTail ==
  ASSUME NEW q, IsSeq(q), q # << >>, NEW p, Marred(q, p)
  PROVE  p # << >> /\ Marred(Tail(q), Tail(p)) /\ (Head(q).key = NoSlice => Head(p) = Head(q))
<1>1. /\ IsSeq(Tail(q)) /\ Len(q) \in Nat /\ Len(q) >= 1 /\ Len(Tail(q)) = Len(q) - 1
      /\ Head(q) = q[1] /\ \A i \in 1 .. Len(q) - 1 : Tail(q)[i] = q[i + 1]
  BY TailIs
<1>2. IsSeq(p) /\ Len(p) = Len(q)
  BY DEF Marred
<1>3. p # << >>
  BY <1>1, <1>2, SmallSeqs
<1>4. /\ IsSeq(Tail(p)) /\ Len(Tail(p)) = Len(p) - 1
      /\ Head(p) = p[1] /\ \A i \in 1 .. Len(p) - 1 : Tail(p)[i] = p[i + 1]
  BY <1>2, <1>3, TailIs
<1>5. 1 \in 1 .. Len(q) /\ \A i \in 1 .. Len(Tail(q)) : i + 1 \in 1 .. Len(q)
        /\ i \in 1 .. Len(q) - 1
  BY <1>1
<1>6. Head(q).key = NoSlice => Head(p) = Head(q)
  BY <1>1, <1>4, <1>5, Zenon DEF Marred
<1> DEFINE u == Tail(q)
           v == Tail(p)
<1>7. \A i \in 1 .. Len(u) : i + 1 \in 1 .. Len(q) /\ u[i] = q[i + 1] /\ v[i] = p[i + 1]
  BY <1>1, <1>2, <1>4, <1>5
<1>8. Len(v) = Len(u) /\ IsSeq(v)
  BY <1>1, <1>2, <1>4
<1> HIDE DEF u, v
<1>9. Marred(u, v)
  BY <1>7, <1>8, Zenon DEF Marred
<1> QED  BY <1>3, <1>6, <1>9 DEF u, v

LEMMA SeqMarred ==
  ASSUME NEW q, IsSeq(q), NEW s, NEW n, NEW d, InSeq(q, s, n, d), NEW p, Marred(q, p)
  PROVE  InSeq(p, s, n, TRUE)
<1>1. PICK b \in {0, 1} : InOrder(q, s, n, d, b)
  BY DEF InSeq
<1>2. Len(q) \in Nat /\ Len(p) = Len(q)
  BY DEF IsSeq, Marred
<1>3. \A i \in 1 .. Len(q) - b : i \in 1 .. Len(q)
  BY <1>2
<1>4. ASSUME NEW i \in 1 .. Len(q) - b PROVE Numbered(s.master, n + i - 1, p[i], TRUE)
  <2>1. Numbered(s.master, n + i - 1, q[i], d)
    BY <1>1 DEF InOrder
  <2> DEFINE r == q[i]
             z == p[i]
             k == n + i - 1
  <2>2. /\ z.ct = r.ct /\ z.data = r.data /\ z.len = r.len
        /\ z.padlen = r.padlen /\ z.key = r.key
        /\ z.mac = r.mac \/ z.mac = NoMac
    BY <1>3, Zenon DEF Marred
  <2> HIDE DEF r, z, k
  <2>3. Numbered(s.master, k, r, d)
    BY <2>1 DEF r, k
  <2>4. Numbered(s.master, k, z, TRUE)
    BY <2>2, <2>3 DEF Numbered
  <2> QED  BY <2>4 DEF z, k
<1>5. b = 1 => p[Len(p)].ct = q[Len(q)].ct
  <2>1. b = 1 => Len(q) \in 1 .. Len(q)
    BY <1>1, <1>2 DEF InOrder
  <2> QED  BY <1>2, <2>1 DEF Marred
<1>6. Len(p) >= b /\ s.wseq = n + Len(p) - b /\ (b = 1 => s.at = "closed" /\ q[Len(q)].ct = Alert)
  BY <1>1, <1>2 DEF InOrder
<1>7. InOrder(p, s, n, TRUE, b)
  BY <1>2, <1>4, <1>5, <1>6 DEF InOrder
<1> QED  BY <1>7 DEF InSeq

LEMMA MarredCarried ==
  ASSUME NEW q, IsSeq(q), NEW p, Marred(q, p) PROVE Carried(p) = Carried(q)
<1>1. IsSeq(p) /\ Len(q) = Len(p)
  BY DEF Marred
<1>2. \A i \in 1 .. Len(p) : Payload(p[i]) = Payload(q[i])
  BY <1>1, Zenon DEF Marred, Payload
<1> QED  BY <1>1, <1>2, CarriedSame

----------------------------------------------------------------------------
(***************************************************************************)
(* A record of the flight is read (1369-1450).                             *)
(***************************************************************************)
LEMMA FlightHead ==
  ASSUME NEW q, IsSeq(q), FlightPart(q), q # << >>
  PROVE  /\ Head(q).ct = Handshake /\ Head(q).data \in Seq(Messages) /\ Head(q).data # << >>
         /\ IsSeq(Tail(q)) /\ FlightPart(Tail(q))
         /\ FlattenSeq(Flown(q)) = Head(q).data \o FlattenSeq(Flown(Tail(q)))
         /\ FlattenSeq(Flown(Tail(q))) \in Seq(Messages)
<1> DEFINE t == Tail(q)
<1>1. /\ IsSeq(t) /\ Len(q) \in Nat /\ Len(q) >= 1 /\ Len(t) = Len(q) - 1 /\ Head(q) = q[1]
      /\ \A i \in 1 .. Len(q) - 1 : t[i] = q[i + 1]
  BY TailIs
<1> HIDE DEF t
<1>2. 1 \in 1 .. Len(q) /\ \A i \in 1 .. Len(t) : i + 1 \in 1 .. Len(q) /\ i \in 1 .. Len(q) - 1
  BY <1>1
<1>3. q[1] = Plain(Handshake, q[1].data) /\ q[1].data \in Seq(Messages) /\ q[1].data # << >>
  BY <1>2 DEF FlightPart
<1>4. q[1].ct = Handshake
  BY <1>3 DEF Plain
<1>5. FlightPart(t)
  <2>1. \A i \in 1 .. Len(t) : i + 1 \in 1 .. Len(q) /\ t[i] = q[i + 1]
    BY <1>1, <1>2
  <2> QED  BY <2>1, Zenon DEF FlightPart
<1> DEFINE u == Flown(q)
           v == Flown(t)
<1>6. u \in Seq(Seq(Messages)) /\ Len(u) = Len(q) /\ \A i \in 1 .. Len(q) : u[i] = q[i].data
  BY FlownIs
<1>7. v \in Seq(Seq(Messages)) /\ Len(v) = Len(t) /\ \A i \in 1 .. Len(t) : v[i] = t[i].data
  BY <1>1, <1>5, FlownIs
<1> HIDE DEF u, v
<1>8. IsSeq(u) /\ IsSeq(v) /\ u # << >>
  BY <1>1, <1>6, <1>7, SeqIs, SmallSeqs
<1>9. /\ IsSeq(Tail(u)) /\ Len(Tail(u)) = Len(u) - 1 /\ Head(u) = u[1]
      /\ \A i \in 1 .. Len(u) - 1 : Tail(u)[i] = u[i + 1]
  BY <1>8, TailIs
<1> DEFINE w == Tail(u)
<1>10. Len(w) = Len(v)
  BY <1>1, <1>6, <1>7, <1>9
<1>11. \A i \in 1 .. Len(w) : w[i] = v[i]
  <2> SUFFICES ASSUME NEW i \in 1 .. Len(w) PROVE w[i] = v[i]
    OBVIOUS
  <2>1. i \in 1 .. Len(t) /\ i \in 1 .. Len(u) - 1 /\ i \in 1 .. Len(q) - 1 /\ i + 1 \in 1 .. Len(q)
    BY <1>1, <1>6, <1>7, <1>9, <1>10
  <2>2. w[i] = u[i + 1] /\ u[i + 1] = q[i + 1].data /\ v[i] = t[i].data /\ t[i] = q[i + 1]
    BY <1>1, <1>6, <1>7, <1>9, <2>1, Zenon
  <2> QED  BY <2>2
<1>12. w = v
  <2>1. IsSeq(w) /\ IsSeq(v) /\ Len(w) = Len(v) /\ \A i \in 1 .. Len(w) : w[i] = v[i]
    BY <1>8, <1>9, <1>10, <1>11
  <2> HIDE DEF w
  <2> QED  BY ONLY <2>1, SameSeqs
<1>13. FlattenSeq(u) = Head(u) \o FlattenSeq(Tail(u))
  BY <1>6, <1>8, FlattenHead
<1>14. Head(u) = q[1].data /\ FlattenSeq(v) \in Seq(Messages)
  BY <1>2, <1>6, <1>7, <1>9, FlattenType
<1>15. FlattenSeq(u) = q[1].data \o FlattenSeq(v)
  BY <1>12, <1>13, <1>14, Zenon
<1> QED  BY <1>1, <1>3, <1>4, <1>5, <1>14, <1>15, Zenon DEF t, u, v

LEMMA FlightEmpty ==
  ASSUME NEW q, IsSeq(q), FlightPart(q), FlattenSeq(Flown(q)) = << >>
  PROVE  q = << >>
<1> SUFFICES ASSUME q # << >> PROVE FALSE  OBVIOUS
<1> DEFINE a == Head(q).data
           b == FlattenSeq(Flown(Tail(q)))
<1>1. a \in Seq(Messages) /\ a # << >> /\ b \in Seq(Messages) /\ FlattenSeq(Flown(q)) = a \o b
  BY FlightHead
<1> HIDE DEF a, b
<1>2. a \in Seq(Messages) /\ a # << >> /\ b \in Seq(Messages) /\ a \o b = << >>
  BY <1>1
<1> QED  BY ONLY <1>2

LEMMA RestCut ==
  ASSUME NEW s \in Seq(Messages), NEW n \in Nat, n <= Len(s),
         NEW a \in Seq(Messages), NEW b \in Seq(Messages),
         a \o b = SubSeq(s, n + 1, Len(s))
  PROVE  /\ n + Len(a) <= Len(s) /\ \A i \in 1 .. Len(a) : a[i] = s[n + i]
         /\ b = SubSeq(s, (n + Len(a)) + 1, Len(s))
         /\ n + Len(a) = Len(s) => b = << >>
<1> DEFINE r == SubSeq(s, n + 1, Len(s))
           c == SubSeq(s, (n + Len(a)) + 1, Len(s))
<1>1. IsSeq(a) /\ IsSeq(b) /\ Len(a) \in Nat /\ Len(b) \in Nat /\ Len(s) \in Nat
  BY SeqIs
<1>2. /\ Len(a \o b) = Len(a) + Len(b)
      /\ \A i \in 1 .. Len(a) : (a \o b)[i] = a[i]
      /\ \A i \in 1 .. Len(b) : (a \o b)[Len(a) + i] = b[i]
  BY ONLY <1>1, CatIs
<1>3. Len(r) = Len(s) - n /\ \A i \in 1 .. Len(s) - n : r[i] = s[n + i]
  BY RestOf
<1> HIDE DEF r
<1>4. /\ Len(r) = Len(a) + Len(b)
      /\ \A i \in 1 .. Len(a) : r[i] = a[i]
      /\ \A i \in 1 .. Len(b) : r[Len(a) + i] = b[i]
  BY <1>2, Zenon DEF r
<1>5. Len(a) + Len(b) = Len(s) - n
  BY <1>3, <1>4
<1>6. n + Len(a) <= Len(s) /\ \A i \in 1 .. Len(a) : i \in 1 .. Len(s) - n
  BY ONLY <1>1, <1>5
<1>7. \A i \in 1 .. Len(a) : a[i] = s[n + i]
  BY <1>3, <1>4, <1>6, Zenon
<1>8. n + Len(a) \in Nat
  BY <1>1
<1>9. /\ c \in Seq(Messages) /\ Len(c) = Len(s) - (n + Len(a))
      /\ \A i \in 1 .. Len(s) - (n + Len(a)) : c[i] = s[(n + Len(a)) + i]
  <2> DEFINE m == n + Len(a)
  <2>1. m \in Nat /\ m <= Len(s) /\ s \in Seq(Messages)
    BY <1>6, <1>8
  <2> HIDE DEF m
  <2>2. LET z == SubSeq(s, m + 1, Len(s))
        IN z \in Seq(Messages) /\ Len(z) = Len(s) - m /\ \A i \in 1 .. Len(s) - m : z[i] = s[m + i]
    BY ONLY <2>1, RestOf
  <2> QED  BY <2>2 DEF m
<1> HIDE DEF c
<1>10. Len(c) = Len(b)
  BY ONLY <1>1, <1>5, <1>9
<1>11. \A i \in 1 .. Len(b) : b[i] = c[i]
  <2> SUFFICES ASSUME NEW i \in 1 .. Len(b) PROVE b[i] = c[i]
    OBVIOUS
  <2>1. Len(a) + i \in 1 .. Len(s) - n /\ i \in 1 .. Len(s) - (n + Len(a))
        /\ n + (Len(a) + i) = (n + Len(a)) + i
    BY ONLY <1>1, <1>5
  <2>2. b[i] = r[Len(a) + i] /\ r[Len(a) + i] = s[n + (Len(a) + i)]
    BY <1>3, <1>4, <2>1
  <2>3. c[i] = s[(n + Len(a)) + i]
    BY <1>9, <2>1
  <2> QED  BY <2>1, <2>2, <2>3
<1>12. b = c
  <2>1. IsSeq(b) /\ IsSeq(c) /\ Len(b) = Len(c) /\ \A i \in 1 .. Len(b) : b[i] = c[i]
    BY <1>1, <1>9, <1>10, <1>11, SeqIs
  <2> QED  BY ONLY <2>1, SameSeqs
<1>13. n + Len(a) = Len(s) => Len(b) = 0
  BY ONLY <1>1, <1>5
<1>14. Len(b) = 0 => b = << >>
  BY <1>1, NoneIs
<1> QED  BY <1>6, <1>7, <1>12, <1>13, <1>14, Zenon DEF c

\* The client h has heard the flight beyond message n, and q has the rest.
Onward(h, q, x, k, req, n) ==
  \E m \in Nat :
    /\ n < m /\ m <= FlightLen(req) /\ Listening(h, x, k, req, m)
    /\ FlattenSeq(Flown(q)) = SubSeq(Flight(x, k, req), m + 1, FlightLen(req))
    /\ m = FlightLen(req) => q = << >>

LEMMA FlightHeard ==
  ASSUME NEW h, IsHandshake(h), h.client \in Nat, NEW x \in Nat, NEW k \in Nat,
         NEW req \in BOOLEAN, NEW n \in Nat, Listening(h, x, k, req, n), n < FlightLen(req),
         NEW q, IsSeq(q), FlightPart(q), q # << >>,
         FlattenSeq(Flown(q)) = SubSeq(Flight(x, k, req), n + 1, FlightLen(req))
  PROVE  /\ Head(q).ct = Handshake /\ IsSeq(Tail(q)) /\ FlightPart(Tail(q))
         /\ SameCall(h, AllNoted(h, Head(q).data))
         /\ Onward(AllNoted(h, Head(q).data), Tail(q), x, k, req, n)
<1> DEFINE fl == Flight(x, k, req)
           l == FlightLen(req)
           a == Head(q).data
           b == FlattenSeq(Flown(Tail(q)))
<1>1. fl \in Seq(Messages) /\ Len(fl) = l
  BY FlightIs, ZenonT(45)
<1>2. l \in Nat
  BY FlightLenIs
<1>3. /\ Head(q).ct = Handshake /\ a \in Seq(Messages) /\ a # << >> /\ IsSeq(Tail(q))
      /\ FlightPart(Tail(q)) /\ FlattenSeq(Flown(q)) = a \o b /\ b \in Seq(Messages)
  BY FlightHead
<1>4. a \o b = SubSeq(fl, n + 1, l) /\ n < l
  BY <1>3, Zenon
<1> HIDE DEF fl, a, b, l
<1>5. /\ a \o b = SubSeq(fl, n + 1, Len(fl)) /\ n <= Len(fl) /\ n \in Nat
      /\ fl \in Seq(Messages) /\ a \in Seq(Messages) /\ b \in Seq(Messages)
  BY <1>1, <1>2, <1>3, <1>4
<1>6. /\ n + Len(a) <= Len(fl) /\ \A i \in 1 .. Len(a) : a[i] = fl[n + i]
      /\ b = SubSeq(fl, (n + Len(a)) + 1, Len(fl))
      /\ n + Len(a) = Len(fl) => b = << >>
  BY ONLY <1>5, RestCut
<1>7. Len(a) \in Nat /\ Len(a) # 0
  BY <1>3, SeqIs, NoneIs
<1> DEFINE g == AllNoted(h, a)
<1>8. SameCall(h, g) /\ Listening(g, x, k, req, n + Len(a))
  <2>1. \A s \in Seq(Messages) :
           /\ n + Len(s) <= FlightLen(req)
           /\ \A i \in 1 .. Len(s) : s[i] = Flight(x, k, req)[n + i]
           => SameCall(h, AllNoted(h, s)) /\ Listening(AllNoted(h, s), x, k, req, n + Len(s))
    BY HeardAll
  <2>2. n + Len(a) <= FlightLen(req) /\ \A i \in 1 .. Len(a) : a[i] = Flight(x, k, req)[n + i]
    BY <1>1, <1>6 DEF fl, l
  <2> QED  BY <1>3, <2>1, <2>2, Zenon
<1> HIDE DEF g
<1> DEFINE m == n + Len(a)
<1>9. m \in Nat /\ n < m /\ m <= l
  BY <1>1, <1>2, <1>6, <1>7
<1>10. b = SubSeq(fl, m + 1, l)
  BY <1>1, <1>6, Zenon
<1>11. m = l => Tail(q) = << >>
  <2>1. m = l => b = << >>
    BY <1>1, <1>6, Zenon
  <2>2. b = << >> => Tail(q) = << >>
    BY <1>3, FlightEmpty, Zenon DEF b
  <2> QED  BY <2>1, <2>2, Zenon
<1>12. Listening(g, x, k, req, m)
  BY <1>8
<1> HIDE DEF m
<1>13. \E u \in Nat : /\ n < u /\ u <= l /\ Listening(g, x, k, req, u)
                      /\ b = SubSeq(fl, u + 1, l) /\ (u = l => Tail(q) = << >>)
  BY <1>9, <1>10, <1>11, <1>12, Zenon
<1>14. Onward(g, Tail(q), x, k, req, n)
  BY <1>13, Zenon DEF Onward, b, fl, l
<1> QED  BY <1>3, <1>8, <1>14, Zenon DEF a, g

----------------------------------------------------------------------------
(***************************************************************************)
(* The handshake, a step of the client at a time (1369-1599).              *)
(***************************************************************************)
\* What the assumptions say of a certificate and a handshake of this client.
LEMMA KeyFacts ==
  ASSUME NEW n \in 1 .. MaxConn, NEW k \in DOMAIN Certs
  PROVE  /\ Encrypted[k][n] \in Seq(Nat) /\ k \in Nat /\ k # 0 /\ n \in Nat
         /\ \A f \in Fds : k \in Served[f] =>
              /\ KeyLen[k] # 0 => CertName[k] = Certs[k].name /\ KeyLen[k] = Certs[k].keylen
              /\ Certs[k].usable => KeyLen[k] # 0 /\ Encrypted[k][n] # << >>
              /\ KeyLen[k] # 0 /\ Encrypted[k][n] # << >> =>
                    PreMasterOf[k][Encrypted[k][n]] = PreMaster[n] /\ PreMaster[n] # << >>
<1>1. \A f \in Fds : f \in DOMAIN Served
  BY TlsAssumption DEF Fds
<1>2. k \in Nat /\ k # 0 /\ n \in Nat
  BY CertNumbers
<1> QED  BY <1>1, <1>2, KeysAssumption

\* Which of its steps a stage is.
LEMMA StageIs ==
  ASSUME NEW at, NEW j, Stage(at, j)
  PROVE  /\ j \in 0 .. 4 /\ at \notin {"flight", "hello", "open", "closed"}
         /\ (at = "cert" <=> j = 0) /\ (at = "key" <=> j = 1) /\ (at = "ccs" <=> j = 2)
         /\ (at = "fin" <=> j = 3) /\ (at = "finished" <=> j = 4)
BY DEF Stage

\* Where the handshake is tells how the conversation stands.
LEMMA TalkingAt ==
  ASSUME NEW h, NEW c, NEW s, NEW up, NEW down, NEW d, NEW f, Talking(h, c, s, up, down, d, f, TRUE)
  PROVE  /\ h.at = "flight" =>
              \/ Asking(h, s, up, down)
              \/ Flying(h, s, up, down, d, f)
              \/ Dead(s, down)
         /\ h.at \in {"cert", "key", "ccs", "fin"} =>
              Answering(h, c, s, up, down, d, f) \/ Dead(s, down)
         /\ h.at = "finished" =>
              \/ Answering(h, c, s, up, down, d, f)
              \/ Opened(h, c, s, up, down, d, f)
              \/ Dead(s, down)
<1>1. \/ Asking(h, s, up, down)
      \/ Flying(h, s, up, down, d, f)
      \/ Answering(h, c, s, up, down, d, f)
      \/ Opened(h, c, s, up, down, d, f)
      \/ Dead(s, down)
  BY DEF Talking
<1>2. Asking(h, s, up, down) => h.at = "flight"
  BY DEF Asking
<1>3. Flying(h, s, up, down, d, f) => h.at = "flight"
  BY DEF Flying, FlyingAt, Listening
<1>4. Answering(h, c, s, up, down, d, f) => h.at # "flight"
  <2>1. ASSUME NEW x, NEW k, NEW req, NEW j, Answers(h, c, x, k, req, j) PROVE h.at # "flight"
    <3>1. Stage(h.at, j)
      BY <2>1 DEF Answers
    <3> QED  BY <3>1, StageIs
  <2> QED  BY <2>1, Zenon DEF Answering, AnsweringAt
<1>5. Opened(h, c, s, up, down, d, f) => h.at = "finished"
  <2>1. ASSUME NEW req, OpenedAt(h, c, s, up, f, req) PROVE h.at = "finished"
    <3>1. Stage(h.at, 4)
      BY <2>1 DEF OpenedAt, Answers
    <3> QED  BY <3>1, StageIs
  <2> QED  BY <2>1 DEF Opened
<1> QED  BY <1>1, <1>2, <1>3, <1>4, <1>5

LEMMA FlightDone ==
  ASSUME NEW h, IsHandshake(h), h.client \in 1 .. MaxConn, NEW c, IsConn(c),
         c.cipher_active = FALSE, c.seq_send = 0,
         NEW s, s.random \in Nat, NEW d, NEW f \in Fds,
         NEW x \in {s.random, s.random + 1}, NEW k \in DOMAIN Certs, NEW req \in BOOLEAN,
         Listening(h, x, k, req, FlightLen(req)), Untouched(x, k, s, d),
         ServerAt(s, f, h.client, req, << >>, IF req = TRUE THEN 0 ELSE 1),
         KeyLen[h.cert] # 0
  PROVE  Answering([h EXCEPT !.at = IF h.cert_requested THEN "cert" ELSE "key"],
                   [c EXCEPT !.peer_cert = h.cert, !.peer_key_bytes = KeyLen[h.cert]],
                   s, << >>, << >>, d, f)
<1> DEFINE at == IF h.cert_requested THEN "cert" ELSE "key"
           g == [h EXCEPT !.at = at]
           b == [c EXCEPT !.peer_cert = h.cert, !.peer_key_bytes = KeyLen[h.cert]]
           j == IF req = TRUE THEN 0 ELSE 1
           e == Encrypted[k][h.client]
           n == FlightLen(req)
<1>1. n \in {3, 4} /\ n >= 2 /\ n >= 3
  BY FlightLenIs
<1>2. /\ h.server = x /\ h.cert = k /\ h.got_ccs = FALSE
      /\ Fed(h.hash, Heard(h.client, x, k, req, n), 0)
      /\ h.cert_requested = req
  <2>1. h.server = x /\ h.cert = k /\ h.got_ccs = FALSE
    BY <1>1 DEF Listening
  <2>2. Fed(h.hash, Heard(h.client, x, k, req, n), 0)
    BY Zenon DEF Listening
  <2>3. (req = TRUE => h.cert_requested = TRUE) /\ (req = FALSE => h.cert_requested = FALSE)
    BY <1>1 DEF Listening
  <2> QED  BY <2>1, <2>2, <2>3
<1>3. Stage(at, j) /\ j \in 0 .. 4 /\ j \in 0 .. 3 /\ (j = 0 => req = TRUE) /\ j \in {0, 1}
  BY <1>2 DEF Stage
<1>4. /\ g.at = at /\ g.server = h.server /\ g.cert = h.cert /\ g.hash = h.hash
      /\ g.client = h.client /\ g.got_ccs = h.got_ccs
  BY DEF IsHandshake
<1>5. /\ b.cipher_active = FALSE /\ b.seq_send = 0 /\ b.peer_cert = h.cert
      /\ b.peer_key_bytes = KeyLen[h.cert]
  BY DEF IsConn
<1>6. e \in Seq(Nat) /\ h.client \in Nat /\ k \in Nat /\ x \in Nat
  BY KeyFacts
<1> HIDE DEF g, b, e, at
<1>7. /\ Log(h.client, x, k, req, e, 0) = Heard(h.client, x, k, req, n)
      /\ req = FALSE => Log(h.client, x, k, req, e, 1) = Log(h.client, x, k, req, e, 0)
  BY DEF Log, Log0, Log1
<1>8. Log(h.client, x, k, req, e, j) = Heard(h.client, x, k, req, n)
  BY <1>7
<1>9. Fed(g.hash, Log(g.client, x, k, req, e, j), 0)
  BY <1>2, <1>4, <1>8
<1>10. Answers(g, b, x, k, req, j)
  <2>1. ~ (j >= 2) /\ ~ (j >= 3) /\ j # 4
    OBVIOUS
  <2>2. Fed(g.hash, Log(g.client, x, k, req, Encrypted[k][g.client], j), 0)
    BY <1>4, <1>9 DEF e
  <2> QED  BY <1>2, <1>3, <1>4, <1>5, <2>1, <2>2 DEF Answers
<1>11. ServerAt(s, f, g.client, req, e, j)
  <2>1. /\ Log(h.client, s.random, s.cert, req, << >>, j)
             = Log(h.client, s.random, s.cert, req, e, j)
        /\ ~ (j >= 2)
    BY <1>3, LogEarly
  <2> QED  BY <1>4, <2>1 DEF ServerAt
<1>12. AnsweringAt(g, b, s, << >>, << >>, d, f, x, k, req, j, j)
  <2>1. Len(<< >>) = j - j /\ (\A i \in 1 .. j - j : FALSE) /\ j <= j
    BY <1>3
  <2> QED  BY <1>2, <1>4, <1>10, <1>11, <2>1 DEF AnsweringAt, e
<1> QED  BY <1>3, <1>12 DEF Answering, g, b, at

\* A record of the flight: the flight goes on, or is complete and can be answered,
\* or its certificate is of no use.
Noticed(h, c, s, up, down, d, f, g) ==
  /\ Head(down).ct = Handshake /\ SameCall(h, g) /\ g.got_done \in BOOLEAN
  /\ up = << >> /\ g.cert_requested \in BOOLEAN
  /\ g.got_done = FALSE => Flying(g, s, up, Tail(down), d, f)
  /\ g.got_done = TRUE => g.got_hello = TRUE /\ g.got_cert = TRUE
  /\ g.got_done = TRUE /\ KeyLen[g.cert] # 0 =>
       Answering([g EXCEPT !.at = IF g.cert_requested THEN "cert" ELSE "key"],
                 [c EXCEPT !.peer_cert = g.cert, !.peer_key_bytes = KeyLen[g.cert]],
                 s, up, Tail(down), d, f)
  /\ g.got_done = TRUE /\ KeyLen[g.cert] = 0 =>
       d = TRUE \/ (s.cert # 0 /\ ~ Certs[s.cert].usable)

LEMMA FlyingHeard ==
  ASSUME NEW h, IsHandshake(h), h.client \in 1 .. MaxConn, NEW c, IsConn(c),
         c.cipher_active = FALSE, c.seq_send = 0,
         NEW s, NEW d \in BOOLEAN, NEW f \in Fds, NEW up, NEW down, IsSeq(down), down # << >>,
         Flying(h, s, up, down, d, f), NEW g, g = AllNoted(h, Head(down).data)
  PROVE  Noticed(h, c, s, up, down, d, f, g)
<1>1. PICK x \in {s.random, s.random + 1}, k \in DOMAIN Certs, req \in BOOLEAN, n \in 0 .. 3 :
        FlyingAt(h, s, up, down, d, f, x, k, req, n)
  BY DEF Flying
<1>2. /\ Listening(h, x, k, req, n) /\ n < FlightLen(req) /\ up = << >> /\ FlightPart(down)
      /\ ServerAt(s, f, h.client, req, << >>, IF req = TRUE THEN 0 ELSE 1)
      /\ FlattenSeq(Flown(down)) = SubSeq(Flight(x, k, req), n + 1, FlightLen(req))
      /\ Untouched(x, k, s, d)
  BY <1>1 DEF FlyingAt
<1>3. s.cert \in Served[f] /\ s.random \in Nat
  BY <1>2 DEF ServerAt
<1>4. x \in Nat /\ k \in Nat /\ k # 0 /\ h.client \in Nat /\ n \in Nat /\ FlightLen(req) \in {3, 4}
  BY <1>3, CertNumbers, FlightLenIs
<1>5. /\ Head(down).ct = Handshake /\ IsSeq(Tail(down)) /\ FlightPart(Tail(down)) /\ SameCall(h, g)
      /\ Onward(g, Tail(down), x, k, req, n)
  <2>1. /\ IsHandshake(h) /\ h.client \in Nat /\ x \in Nat /\ k \in Nat /\ req \in BOOLEAN
        /\ n \in Nat /\ Listening(h, x, k, req, n) /\ n < FlightLen(req)
        /\ IsSeq(down) /\ FlightPart(down) /\ down # << >>
        /\ FlattenSeq(Flown(down)) = SubSeq(Flight(x, k, req), n + 1, FlightLen(req))
    BY <1>2, <1>4
  <2>2. /\ Head(down).ct = Handshake /\ IsSeq(Tail(down)) /\ FlightPart(Tail(down))
        /\ SameCall(h, AllNoted(h, Head(down).data))
        /\ Onward(AllNoted(h, Head(down).data), Tail(down), x, k, req, n)
    BY ONLY <2>1, FlightHeard, ZenonT(45)
  <2> QED  BY <2>2
<1>6. PICK m \in Nat :
              /\ n < m /\ m <= FlightLen(req)
              /\ Listening(g, x, k, req, m)
              /\ FlattenSeq(Flown(Tail(down))) = SubSeq(Flight(x, k, req), m + 1, FlightLen(req))
              /\ m = FlightLen(req) => Tail(down) = << >>
  BY <1>5 DEF Onward
<1>7. IsHandshake(g) /\ g.client = h.client /\ g.at = h.at
  BY <1>5 DEF SameCall
<1>8. g.got_done = IF m = FlightLen(req) THEN TRUE ELSE FALSE
  BY <1>6 DEF Listening
<1>9. g.cert_requested \in BOOLEAN
  <2>1. \/ req = TRUE /\ m >= 3
        \/ req = FALSE \/ m < 3
    BY <1>4, <1>6
  <2> QED  BY <1>6, <2>1 DEF Listening
<1>10. ASSUME m < FlightLen(req) PROVE Flying(g, s, up, Tail(down), d, f)
  <2>1. m \in 0 .. 3
    BY <1>4, <1>10
  <2>2. FlyingAt(g, s, up, Tail(down), d, f, x, k, req, m)
    BY <1>2, <1>5, <1>6, <1>7, <1>10, Zenon DEF FlyingAt
  <2> QED  BY <2>1, <2>2 DEF Flying
<1>11. ASSUME m = FlightLen(req)
       PROVE  /\ g.got_hello = TRUE /\ g.got_cert = TRUE /\ g.cert = k /\ Tail(down) = << >>
              /\ Listening(g, x, k, req, FlightLen(req))
  <2>1. Listening(g, x, k, req, FlightLen(req)) /\ Tail(down) = << >>
    BY <1>6, <1>11
  <2>2. FlightLen(req) >= 1 /\ FlightLen(req) >= 2
    BY <1>4
  <2> QED  BY <2>1, <2>2 DEF Listening
<1>12. ASSUME m = FlightLen(req), KeyLen[g.cert] # 0
       PROVE  Answering([g EXCEPT !.at = IF g.cert_requested THEN "cert" ELSE "key"],
                        [c EXCEPT !.peer_cert = g.cert, !.peer_key_bytes = KeyLen[g.cert]],
                        s, up, Tail(down), d, f)
  <2>1. /\ IsHandshake(g) /\ g.client \in 1 .. MaxConn /\ s.random \in Nat
        /\ Listening(g, x, k, req, FlightLen(req)) /\ Untouched(x, k, s, d)
        /\ ServerAt(s, f, g.client, req, << >>, IF req = TRUE THEN 0 ELSE 1)
        /\ KeyLen[g.cert] # 0 /\ up = << >> /\ Tail(down) = << >>
    BY <1>2, <1>3, <1>7, <1>11, <1>12
  <2>2. Answering([g EXCEPT !.at = IF g.cert_requested THEN "cert" ELSE "key"],
                  [c EXCEPT !.peer_cert = g.cert, !.peer_key_bytes = KeyLen[g.cert]],
                  s, << >>, << >>, d, f)
    BY <2>1, FlightDone, ZenonT(45)
  <2> QED  BY <2>1, <2>2
<1>13. ASSUME m = FlightLen(req), KeyLen[g.cert] = 0
       PROVE  d = TRUE \/ (s.cert # 0 /\ ~ Certs[s.cert].usable)
  <2> SUFFICES ASSUME d = FALSE PROVE s.cert # 0 /\ ~ Certs[s.cert].usable
    OBVIOUS
  <2>1. k = s.cert
    BY <1>2 DEF Untouched
  <2>2. k \in Served[f] /\ KeyLen[k] = 0 /\ h.client \in 1 .. MaxConn
    BY <1>3, <1>11, <1>13, <2>1
  <2>3. Certs[k].usable => KeyLen[k] # 0
    BY <2>2, KeyFacts
  <2> QED  BY <1>4, <2>1, <2>2, <2>3
<1>14. m < FlightLen(req) \/ m = FlightLen(req)
  BY <1>4, <1>6
<1> QED
  <2>1. CASE m < FlightLen(req)
    <3>1. g.got_done = FALSE
      <4>1. m # FlightLen(req)
        BY <1>4, <2>1
      <4> QED  BY <1>8, <4>1
    <3> QED  BY <1>2, <1>5, <1>9, <1>10, <2>1, <3>1, Zenon DEF Noticed
  <2>2. CASE m = FlightLen(req)
    <3>1. g.got_done = TRUE
      BY <1>8, <2>2
    <3> QED  BY <1>2, <1>5, <1>9, <1>11, <1>12, <1>13, <2>2, <3>1, Zenon DEF Noticed
  <2> QED  BY <1>14, <2>1, <2>2

\* One more answer is under way.
LEMMA AnswerAdded ==
  ASSUME NEW h, NEW c, NEW s, NEW up, IsSeq(up), NEW down, NEW d, NEW f, NEW x, NEW k, NEW req,
         NEW j \in 0 .. 3, NEW i \in 0 .. 3, AnsweringAt(h, c, s, up, down, d, f, x, k, req, j, i),
         NEW g, NEW b, NEW r, g.client = h.client, g.got_ccs = FALSE,
         Answers(g, b, x, k, req, j + 1),
         AnswerIs(j + 1, r, Encrypted[k][h.client], g.master,
                  Log(h.client, x, k, req, Encrypted[k][h.client], 3))
  PROVE  AnsweringAt(g, b, s, Append(up, r), down, d, f, x, k, req, j + 1, i)
<1> DEFINE p == Append(up, r)
           e == Encrypted[k][h.client]
           log == Log(h.client, x, k, req, e, 3)
<1>1. /\ IsSeq(p) /\ Len(p) = Len(up) + 1 /\ p[Len(up) + 1] = r
      /\ \A n \in 1 .. Len(up) : p[n] = up[n]
  BY AppendIs
<1>2. /\ ServerAt(s, f, h.client, req, e, i) /\ i <= j /\ down = << >> /\ Len(up) = j - i
      /\ \A n \in 1 .. j - i : AnswerIs(i + n, up[n], e, h.master, log)
      /\ Untouched(x, k, s, d)
  BY DEF AnsweringAt
<1>3. AnswerIs(j + 1, r, e, g.master, log)
  OBVIOUS
<1> HIDE DEF p, log, e
<1>4. Len(p) = (j + 1) - i /\ i <= j + 1 /\ Len(up) + 1 = (j + 1) - i
      /\ i + ((j + 1) - i) = j + 1
  BY <1>1, <1>2
<1>5. ASSUME NEW n \in 1 .. (j + 1) - i PROVE AnswerIs(i + n, p[n], e, g.master, log)
  <2>1. CASE n \in 1 .. j - i
    <3>1. p[n] = up[n] /\ i + n # 4 /\ AnswerIs(i + n, up[n], e, h.master, log)
      BY <1>1, <1>2, <2>1
    <3> QED  BY <3>1 DEF AnswerIs
  <2>2. CASE n \notin 1 .. j - i
    <3>1. n = (j + 1) - i
      BY <1>2, <2>2
    <3>2. p[n] = r /\ i + n = j + 1
      BY <1>1, <1>4, <3>1
    <3> QED  BY <1>3, <3>2
  <2> QED  BY <2>1, <2>2
<1>6. ServerAt(s, f, g.client, req, Encrypted[k][g.client], i)
  BY <1>2 DEF e
<1>7. \A n \in 1 .. (j + 1) - i :
        AnswerIs(i + n, p[n], Encrypted[k][g.client], g.master,
                 Log(g.client, x, k, req, Encrypted[k][g.client], 3))
  BY <1>5 DEF e, log
<1> QED  BY <1>2, <1>4, <1>6, <1>7 DEF AnsweringAt, p

\* The four answers (1475-1599): Certificate, ClientKeyExchange, ChangeCipherSpec
\* and Finished.
AnswerTyped(h, c, s, f, x, k, req, j) ==
  /\ s.random \in Nat /\ x \in Nat /\ k \in Nat /\ s.cert \in Served[f]
  /\ s.cert \in DOMAIN Certs /\ s.cert \in Nat /\ s.cert # 0
  /\ Encrypted[k][h.client] \in Seq(Nat) /\ h.client \in Nat
  /\ Log(h.client, x, k, req, Encrypted[k][h.client], j) \in Seq(Nat)
  /\ Answers(h, c, x, k, req, j) /\ Stage(h.at, j) /\ h.got_ccs = FALSE

LEMMA AnswerTypes ==
  ASSUME NEW h, NEW c, NEW s, NEW up, NEW down, NEW d, NEW f \in Fds, NEW x, NEW k \in DOMAIN Certs,
         NEW req \in BOOLEAN, NEW j, NEW i, AnsweringAt(h, c, s, up, down, d, f, x, k, req, j, i),
         x \in {s.random, s.random + 1}, h.client \in 1 .. MaxConn
  PROVE  AnswerTyped(h, c, s, f, x, k, req, j)
<1>1. s.random \in Nat /\ s.cert \in Served[f] /\ Answers(h, c, x, k, req, j) /\ h.got_ccs = FALSE
  BY DEF AnsweringAt, ServerAt
<1>2. x \in Nat /\ k \in Nat /\ s.cert \in DOMAIN Certs /\ s.cert \in Nat /\ s.cert # 0
  BY <1>1, CertNumbers
<1>3. Encrypted[k][h.client] \in Seq(Nat) /\ h.client \in Nat
  BY KeyFacts
<1>4. Stage(h.at, j)
  BY <1>1 DEF Answers
<1>5. j \in 0 .. 4
  BY <1>4, StageIs
<1> DEFINE e == Encrypted[k][h.client]
           cl == h.client
<1>6. e \in Seq(Nat) /\ cl \in Nat
  BY <1>3
<1> HIDE DEF e, cl
<1>7. \A n \in 0 .. 4 : Log(cl, x, k, req, e, n) \in Seq(Nat)
  BY <1>2, <1>6, LogIs, Zenon
<1>8. Log(cl, x, k, req, e, j) \in Seq(Nat)
  BY <1>5, <1>7
<1> QED  BY <1>1, <1>2, <1>3, <1>4, <1>8 DEF e, cl, AnswerTyped

\* A message is hashed, and the handshake goes on at another place.
Hashed(h, at, m) == [[h EXCEPT !.at = at] EXCEPT !.hash = sha256_update[@][MsgBytes(m)]]

LEMMA HashedIs ==
  ASSUME NEW h, IsHandshake(h), NEW at, NEW m
  PROVE  LET g == Hashed(h, at, m)
         IN /\ IsHandshake(g) /\ g.at = at /\ g.hash = sha256_update[h.hash][MsgBytes(m)]
            /\ g.client = h.client /\ g.server = h.server /\ g.cert = h.cert
            /\ g.got_ccs = h.got_ccs /\ g.master = h.master
<1> DEFINE u == sha256_update[h.hash][MsgBytes(m)]
           b == [h EXCEPT !.at = at]
<1>1. /\ IsHandshake(b) /\ b.at = at /\ b.hash = h.hash
      /\ b.client = h.client /\ b.server = h.server /\ b.cert = h.cert
      /\ b.got_ccs = h.got_ccs /\ b.master = h.master
  BY DEF IsHandshake
<1>2. Hashed(h, at, m) = [b EXCEPT !.hash = u]
  BY <1>1 DEF Hashed, IsHandshake
<1> HIDE DEF u, b
<1> QED  BY <1>1, <1>2 DEF IsHandshake, u

\* EmptyCertificate.
LEMMA CertSaid ==
  ASSUME NEW h, IsHandshake(h), h.client \in 1 .. MaxConn, h.at = "cert", NEW c, NEW s,
         NEW up, IsSeq(up), NEW down, NEW d, NEW f \in Fds, Answering(h, c, s, up, down, d, f)
  PROVE  Answering(Hashed(h, "key", NoCert), Sent(c), s,
                   Append(up, tls_write_record(c, Handshake, <<NoCert>>)), down, d, f)
<1>1. PICK x \in {s.random, s.random + 1}, k \in DOMAIN Certs, req \in BOOLEAN, j \in 0 .. 4,
           i \in 0 .. 3 :
        AnsweringAt(h, c, s, up, down, d, f, x, k, req, j, i)
  BY DEF Answering
<1> DEFINE e == Encrypted[k][h.client]
           g == Hashed(h, "key", NoCert)
           r == tls_write_record(c, Handshake, <<NoCert>>)
           log == Log(h.client, x, k, req, e, 0)
<1>2. /\ Answers(h, c, x, k, req, j) /\ Stage(h.at, j) /\ h.got_ccs = FALSE
      /\ x \in Nat /\ k \in Nat /\ e \in Seq(Nat) /\ h.client \in Nat
  <2>1. /\ f \in Fds /\ x \in {s.random, s.random + 1} /\ k \in DOMAIN Certs /\ req \in BOOLEAN
        /\ h.client \in 1 .. MaxConn /\ AnsweringAt(h, c, s, up, down, d, f, x, k, req, j, i)
    BY <1>1
  <2>2. AnswerTyped(h, c, s, f, x, k, req, j)
    BY ONLY <2>1, AnswerTypes
  <2> QED  BY <2>2 DEF AnswerTyped
<1>3. j = 0 /\ j + 1 = 1 /\ j \in 0 .. 3
  BY <1>2, StageIs
<1>4. /\ h.server = x /\ h.cert = k /\ req = TRUE /\ KeyLen[k] # 0
      /\ Fed(h.hash, log, 0) /\ c.cipher_active = FALSE /\ c.seq_send = 0
      /\ c.peer_cert = k /\ c.peer_key_bytes = KeyLen[k]
  <2>1. Answers(h, c, x, k, req, 0) /\ ~ (0 >= 3) /\ 0 # 4
    BY <1>2, <1>3
  <2> QED  BY <2>1 DEF Answers
<1>5. Sent(c) = c /\ r = Plain(Handshake, <<NoCert>>)
  BY <1>4 DEF Sent, tls_write_record
<1>6. /\ g.at = "key" /\ g.hash = sha256_update[h.hash][MsgBytes(NoCert)]
      /\ g.client = h.client /\ g.server = h.server /\ g.cert = h.cert
      /\ g.got_ccs = h.got_ccs
  BY HashedIs
<1>7. MsgBytes(NoCert) \in Seq(Nat)
  BY <1>2, LogIs, Zenon
<1> HIDE DEF g, r, log
<1>8. Fed(g.hash, log \o MsgBytes(NoCert), 0)
  BY <1>4, <1>6, <1>7, Feed256
<1>9. log \o MsgBytes(NoCert) = Log(h.client, x, k, req, e, 1)
  <2>1. log = Log0(h.client, x, k, req)
          /\ Log(h.client, x, k, req, e, 1) = Log1(h.client, x, k, req)
    BY DEF log, Log
  <2>2. Log1(h.client, x, k, req) = Log0(h.client, x, k, req) \o MsgBytes(NoCert)
    BY <1>4 DEF Log1
  <2> QED  BY <2>1, <2>2
<1>10. Answers(g, c, x, k, req, 1)
  <2>1. Stage("key", 1) /\ ~ (1 >= 2) /\ ~ (1 >= 3) /\ 1 # 4 /\ 1 # 0
    BY DEF Stage
  <2>2. Fed(g.hash, Log(g.client, x, k, req, Encrypted[k][g.client], 1), 0)
    BY <1>6, <1>8, <1>9
  <2> QED  BY <1>4, <1>6, <2>1, <2>2 DEF Answers
<1>11. AnswerIs(1, r, e, g.master, Log(h.client, x, k, req, e, 3))
  BY <1>5 DEF AnswerIs
<1>12. AnsweringAt(g, Sent(c), s, Append(up, r), down, d, f, x, k, req, j + 1, i)
  <2>1. /\ g.client = h.client /\ g.got_ccs = FALSE /\ Answers(g, Sent(c), x, k, req, j + 1)
        /\ AnswerIs(j + 1, r, Encrypted[k][h.client], g.master,
                    Log(h.client, x, k, req, Encrypted[k][h.client], 3))
    BY <1>2, <1>3, <1>5, <1>6, <1>10, <1>11
  <2> HIDE DEF e
  <2> QED  BY <1>1, <1>3, <2>1, AnswerAdded
<1>13. j + 1 \in 0 .. 4
  BY <1>3, SMTT(40)
<1> QED  BY <1>12, <1>13 DEF Answering, g, r

\* ClientKeyExchange; the master secret and the keys that follow from it.
LEMMA KeySaid ==
  ASSUME NEW h, IsHandshake(h), h.client \in 1 .. MaxConn, h.at = "key", NEW c, IsConn(c), NEW s,
         NEW up, IsSeq(up), NEW down, NEW d, NEW f \in Fds, Answering(h, c, s, up, down, d, f),
         NEW m, m = Msg(ClientKeyEx, Encrypted[h.cert][h.client]),
         Encrypted[h.cert][h.client] # << >>,
         NEW master, master = Master(PreMaster[h.client], h.client, h.server),
         NEW b, b = WithKeys(c, master)
  PROVE  Answering(Hashed([h EXCEPT !.master = master], "ccs", m), Sent(b), s,
                   Append(up, tls_write_record(b, Handshake, <<m>>)), down, d, f)
<1>1. PICK x \in {s.random, s.random + 1}, k \in DOMAIN Certs, req \in BOOLEAN, j \in 0 .. 4,
           i \in 0 .. 3 :
        AnsweringAt(h, c, s, up, down, d, f, x, k, req, j, i)
  BY DEF Answering
<1> DEFINE e == Encrypted[k][h.client]
           h1 == [h EXCEPT !.master = master]
           g == Hashed(h1, "ccs", m)
           r == tls_write_record(b, Handshake, <<m>>)
           log == Log(h.client, x, k, req, e, 1)
<1>2. /\ Answers(h, c, x, k, req, j) /\ Stage(h.at, j) /\ h.got_ccs = FALSE
      /\ x \in Nat /\ k \in Nat /\ e \in Seq(Nat) /\ h.client \in Nat
  <2>1. /\ f \in Fds /\ x \in {s.random, s.random + 1} /\ k \in DOMAIN Certs /\ req \in BOOLEAN
        /\ h.client \in 1 .. MaxConn /\ AnsweringAt(h, c, s, up, down, d, f, x, k, req, j, i)
    BY <1>1
  <2>2. AnswerTyped(h, c, s, f, x, k, req, j)
    BY ONLY <2>1, AnswerTypes
  <2> QED  BY <2>2 DEF AnswerTyped
<1>3. j = 1 /\ j + 1 = 2 /\ j \in 0 .. 3
  BY <1>2, StageIs
<1>4. /\ h.server = x /\ h.cert = k /\ KeyLen[k] # 0
      /\ Fed(h.hash, log, 0) /\ c.cipher_active = FALSE /\ c.seq_send = 0
      /\ c.peer_cert = k /\ c.peer_key_bytes = KeyLen[k]
  BY <1>2, <1>3 DEF Answers
<1>5. /\ HasKeys(b, master) /\ b.cipher_active = c.cipher_active /\ b.seq_send = c.seq_send
      /\ b.peer_cert = c.peer_cert /\ b.peer_key_bytes = c.peer_key_bytes
  BY DEF WithKeys, IsConn, HasKeys, ServerSide
<1>6. Sent(b) = b /\ r = Plain(Handshake, <<m>>)
  BY <1>4, <1>5 DEF Sent, tls_write_record
<1>7. /\ IsHandshake(h1) /\ h1.hash = h.hash /\ h1.client = h.client /\ h1.server = h.server
      /\ h1.cert = h.cert /\ h1.got_ccs = h.got_ccs /\ h1.master = master
  BY DEF IsHandshake
<1> HIDE DEF h1, r
<1>8. /\ g.at = "ccs" /\ g.hash = sha256_update[h1.hash][MsgBytes(m)]
      /\ g.client = h1.client /\ g.server = h1.server /\ g.cert = h1.cert
      /\ g.got_ccs = h1.got_ccs /\ g.master = h1.master
  BY <1>7, HashedIs
<1>9. m = Msg(ClientKeyEx, e) /\ MsgBytes(m) \in Seq(Nat)
  <2>1. m = Msg(ClientKeyEx, e)
    BY <1>4
  <2>2. MsgBytes(Msg(ClientKeyEx, e)) \in Seq(Nat)
    BY <1>2, LogIs, Zenon
  <2> QED  BY <2>1, <2>2
<1> HIDE DEF g, log, e
<1>10. Fed(g.hash, log \o MsgBytes(m), 0)
  BY <1>4, <1>7, <1>8, <1>9, Feed256
<1>11. log \o MsgBytes(m) = Log(h.client, x, k, req, e, 2)
  BY <1>9 DEF log, Log, Log2
<1>12. Answers(g, b, x, k, req, 2)
  <2>1. Stage("ccs", 2) /\ ~ (2 >= 3) /\ 2 # 4 /\ 2 # 0
    BY SMTT(40) DEF Stage
  <2>2. Fed(g.hash, Log(g.client, x, k, req, Encrypted[k][g.client], 2), 0)
    BY <1>7, <1>8, <1>10, <1>11 DEF e
  <2>3. /\ g.master = Master(PreMaster[g.client], g.client, x) /\ HasKeys(b, g.master)
        /\ Encrypted[k][g.client] # << >>
    BY <1>4, <1>5, <1>7, <1>8
  <2> QED  BY <1>4, <1>5, <1>7, <1>8, <2>1, <2>2, <2>3 DEF Answers
<1>13. AnswerIs(2, r, e, g.master, Log(h.client, x, k, req, e, 3))
  BY <1>6, <1>9 DEF AnswerIs
<1>14. AnsweringAt(g, Sent(b), s, Append(up, r), down, d, f, x, k, req, j + 1, i)
  <2>1. /\ g.client = h.client /\ g.got_ccs = FALSE /\ Answers(g, Sent(b), x, k, req, j + 1)
        /\ AnswerIs(j + 1, r, Encrypted[k][h.client], g.master,
                    Log(h.client, x, k, req, Encrypted[k][h.client], 3))
    BY <1>2, <1>3, <1>6, <1>7, <1>8, <1>12, <1>13 DEF e
  <2> QED  BY <1>1, <1>3, <2>1, AnswerAdded
<1>15. j + 1 \in 0 .. 4
  BY <1>3
<1> QED  BY <1>14, <1>15 DEF Answering, g, h1, r

\* SendChangeCipher.
LEMMA CipherSaid ==
  ASSUME NEW h, IsHandshake(h), h.client \in 1 .. MaxConn, h.at = "ccs", NEW c, IsConn(c), NEW s,
         NEW up, IsSeq(up), NEW down, NEW d, NEW f \in Fds, Answering(h, c, s, up, down, d, f)
  PROVE  Answering([h EXCEPT !.at = "fin"], [c EXCEPT !.cipher_active = TRUE, !.seq_send = 0], s,
                   Append(up, tls_write_record(c, ChangeCipher, <<1>>)), down, d, f)
<1>1. PICK x \in {s.random, s.random + 1}, k \in DOMAIN Certs, req \in BOOLEAN, j \in 0 .. 4,
           i \in 0 .. 3 :
        AnsweringAt(h, c, s, up, down, d, f, x, k, req, j, i)
  BY DEF Answering
<1> DEFINE e == Encrypted[k][h.client]
           g == [h EXCEPT !.at = "fin"]
           b == [c EXCEPT !.cipher_active = TRUE, !.seq_send = 0]
           r == tls_write_record(c, ChangeCipher, <<1>>)
           log == Log(h.client, x, k, req, e, 2)
<1>2. /\ Answers(h, c, x, k, req, j) /\ Stage(h.at, j) /\ h.got_ccs = FALSE
      /\ x \in Nat /\ k \in Nat /\ e \in Seq(Nat) /\ h.client \in Nat
  <2>1. /\ f \in Fds /\ x \in {s.random, s.random + 1} /\ k \in DOMAIN Certs /\ req \in BOOLEAN
        /\ h.client \in 1 .. MaxConn /\ AnsweringAt(h, c, s, up, down, d, f, x, k, req, j, i)
    BY <1>1
  <2>2. AnswerTyped(h, c, s, f, x, k, req, j)
    BY ONLY <2>1, AnswerTypes
  <2> QED  BY <2>2 DEF AnswerTyped
<1>3. j = 2 /\ j + 1 = 3 /\ j \in 0 .. 3
  BY <1>2, StageIs
<1>4. /\ h.server = x /\ h.cert = k /\ KeyLen[k] # 0
      /\ Fed(h.hash, log, 0) /\ c.cipher_active = FALSE
      /\ h.master = Master(PreMaster[h.client], h.client, x) /\ HasKeys(c, h.master)
      /\ Encrypted[k][h.client] # << >>
      /\ c.peer_cert = k /\ c.peer_key_bytes = KeyLen[k]
  <2>1. Answers(h, c, x, k, req, 2) /\ ~ (2 >= 3) /\ 2 >= 2
    BY <1>2, <1>3
  <2> QED  BY <2>1 DEF Answers
<1>5. /\ HasKeys(b, h.master) /\ b.cipher_active = TRUE /\ b.seq_send = 0
      /\ b.peer_cert = c.peer_cert /\ b.peer_key_bytes = c.peer_key_bytes
  BY <1>4 DEF IsConn, HasKeys
<1>6. r = Plain(ChangeCipher, <<1>>)
  BY <1>4 DEF tls_write_record
<1>7. /\ g.at = "fin" /\ g.hash = h.hash /\ g.client = h.client /\ g.server = h.server
      /\ g.cert = h.cert /\ g.got_ccs = h.got_ccs /\ g.master = h.master
  BY DEF IsHandshake
<1>8. log = Log(h.client, x, k, req, e, 3)
  BY DEF log, Log
<1> HIDE DEF g, r, b, log, e
<1>9. Answers(g, b, x, k, req, 3)
  <2>1. Stage("fin", 3) /\ 3 >= 3 /\ 3 # 4 /\ 3 # 0
    BY DEF Stage
  <2>2. Fed(g.hash, Log(g.client, x, k, req, Encrypted[k][g.client], 3), 0)
    BY <1>4, <1>7, <1>8 DEF e
  <2> QED  BY <1>4, <1>5, <1>7, <2>1, <2>2 DEF Answers
<1>10. AnswerIs(3, r, e, g.master, Log(h.client, x, k, req, e, 3))
  BY <1>6 DEF AnswerIs
<1>11. AnsweringAt(g, b, s, Append(up, r), down, d, f, x, k, req, j + 1, i)
  <2>1. /\ g.client = h.client /\ g.got_ccs = FALSE /\ Answers(g, b, x, k, req, j + 1)
        /\ AnswerIs(j + 1, r, Encrypted[k][h.client], g.master,
                    Log(h.client, x, k, req, Encrypted[k][h.client], 3))
    BY <1>2, <1>3, <1>7, <1>9, <1>10 DEF e
  <2> QED  BY <1>1, <1>3, <2>1, AnswerAdded
<1>12. j + 1 \in 0 .. 4
  BY <1>3
<1> QED  BY <1>11, <1>12 DEF Answering, g, r, b

\* A Finished, and what is counted of it.
LEMMA FinishedIs ==
  ASSUME NEW master, NEW label, NEW hash
  PROVE  LET m == FinishedMsg(master, label, hash)
         IN /\ m.t = Finished /\ m.v = << >>
            /\ m.verify = [secret |-> master, label |-> label, hash |-> hash]
            /\ MsgBytes(m) = MsgBytes(Msg(Finished, << >>)) /\ MsgBytes(m) \in Seq(Nat)
            /\ IsContent(Handshake, <<m>>)
<1> DEFINE m == FinishedMsg(master, label, hash)
<1>1. /\ m.t = Finished /\ m.v = << >>
      /\ m.verify = [secret |-> master, label |-> label, hash |-> hash]
  BY DEF FinishedMsg, Msg
<1> HIDE DEF m
<1>2. MsgBytes(m) = MsgBytes(Msg(Finished, << >>))
  BY <1>1, MsgFields DEF MsgBytes
<1>3. MsgBytes(m) \in Seq(Nat)
  <2>1. m.t \in Nat /\ m.v \in Seq(Nat)
    BY <1>1 DEF Finished
  <2> QED  BY <2>1, MsgBytesType
<1>4. Flat(Handshake, <<m>>) = MsgBytes(m)
  <2>1. DOMAIN <<m>> = 1 .. 1 /\ <<m>>[1] = m
    OBVIOUS
  <2>2. [i \in DOMAIN <<m>> |-> MsgBytes(<<m>>[i])] = <<MsgBytes(m)>>
    BY <2>1
  <2>3. Flat(Handshake, <<m>>) = FlattenSeq(<<MsgBytes(m)>>)
    BY <2>2, Zenon DEF Flat
  <2> QED  BY <1>3, <2>3, FlattenOne
<1>5. DataLen(Handshake, <<m>>) = 16 /\ Handshake \in Nat
  BY <1>1 DEF DataLen, Handshake
<1>6. IsContent(Handshake, <<m>>)
  BY <1>3, <1>4, <1>5 DEF IsContent
<1> QED  BY <1>1, <1>2, <1>3, <1>6 DEF m

\* SendFinished.
LEMMA FinishedSaid ==
  ASSUME NEW h, IsHandshake(h), h.client \in 1 .. MaxConn, h.at = "fin", NEW c, IsConn(c), NEW s,
         NEW up, IsSeq(up), NEW down, NEW d, NEW f \in Fds, Answering(h, c, s, up, down, d, f),
         NEW m, m = FinishedMsg(h.master, "client_finished", sha256_final(h.hash))
  PROVE  Answering(Hashed(h, "finished", m), Sent(c), s,
                   Append(up, tls_write_record(c, Handshake, <<m>>)), down, d, f)
<1>1. PICK x \in {s.random, s.random + 1}, k \in DOMAIN Certs, req \in BOOLEAN, j \in 0 .. 4,
           i \in 0 .. 3 :
        AnsweringAt(h, c, s, up, down, d, f, x, k, req, j, i)
  BY DEF Answering
<1> DEFINE e == Encrypted[k][h.client]
           g == Hashed(h, "finished", m)
           b == Sent(c)
           r == tls_write_record(c, Handshake, <<m>>)
           log == Log(h.client, x, k, req, e, 3)
<1>2. /\ Answers(h, c, x, k, req, j) /\ Stage(h.at, j) /\ h.got_ccs = FALSE
      /\ x \in Nat /\ k \in Nat /\ e \in Seq(Nat) /\ h.client \in Nat
  <2>1. /\ f \in Fds /\ x \in {s.random, s.random + 1} /\ k \in DOMAIN Certs /\ req \in BOOLEAN
        /\ h.client \in 1 .. MaxConn /\ AnsweringAt(h, c, s, up, down, d, f, x, k, req, j, i)
    BY <1>1
  <2>2. AnswerTyped(h, c, s, f, x, k, req, j)
    BY ONLY <2>1, AnswerTypes
  <2> QED  BY <2>2 DEF AnswerTyped
<1>3. j = 3 /\ j + 1 = 4 /\ j \in 0 .. 3
  BY <1>2, StageIs
<1>4. /\ h.server = x /\ h.cert = k /\ KeyLen[k] # 0
      /\ Fed(h.hash, log, 0) /\ c.cipher_active = TRUE /\ c.seq_send = 0
      /\ h.master = Master(PreMaster[h.client], h.client, x) /\ HasKeys(c, h.master)
      /\ Encrypted[k][h.client] # << >>
      /\ c.peer_cert = k /\ c.peer_key_bytes = KeyLen[k]
  <2>1. Answers(h, c, x, k, req, 3) /\ 3 >= 3 /\ 3 >= 2 /\ 3 # 4
    BY <1>2, <1>3
  <2> QED  BY <2>1 DEF Answers
<1>5. /\ HasKeys(b, h.master) /\ b.cipher_active = TRUE /\ b.seq_send = 1
      /\ b.peer_cert = c.peer_cert /\ b.peer_key_bytes = c.peer_key_bytes
  BY <1>4 DEF IsConn, HasKeys, Sent
<1>6. /\ MsgBytes(m) = MsgBytes(Msg(Finished, << >>)) /\ MsgBytes(m) \in Seq(Nat)
      /\ IsContent(Handshake, <<m>>)
  BY FinishedIs, ZenonT(45)
<1>7. r.ct = Handshake /\ r.data = <<m>> /\ ServerAccepts(h.master, 0, r)
  <2>1. c.seq_send \in Nat
    BY <1>4
  <2>2. r.ct = Handshake /\ r.data = <<m>> /\ ServerAccepts(h.master, c.seq_send, r)
    BY <1>4, <1>6, <2>1, WriteAccepted
  <2> QED  BY <1>4, <2>2
<1>8. /\ g.at = "finished" /\ g.hash = sha256_update[h.hash][MsgBytes(m)] /\ g.client = h.client
      /\ g.server = h.server /\ g.cert = h.cert /\ g.got_ccs = h.got_ccs /\ g.master = h.master
  BY HashedIs
<1>9. sha256_final(h.hash) = Sha(log)
  BY <1>4, Sha256IsSha
<1>10. Log(h.client, x, k, req, e, 4) = log \o MsgBytes(Msg(Finished, << >>))
  BY DEF log, Log, Log4, Log2
<1> HIDE DEF g, r, b, log, e
<1>11. Fed(g.hash, log \o MsgBytes(m), 0)
  BY <1>4, <1>6, <1>8, Feed256
<1>12. Answers(g, b, x, k, req, 4)
  <2>1. Stage("finished", 4) /\ 4 >= 3 /\ 4 # 0
    BY DEF Stage
  <2>2. Fed(g.hash, Log(g.client, x, k, req, Encrypted[k][g.client], 4), 0)
    BY <1>6, <1>8, <1>10, <1>11 DEF e
  <2> QED  BY <1>4, <1>5, <1>8, <2>1, <2>2 DEF Answers
<1>13. AnswerIs(4, r, e, g.master, log)
  BY <1>7, <1>8, <1>9 DEF AnswerIs
<1>14. AnsweringAt(g, b, s, Append(up, r), down, d, f, x, k, req, j + 1, i)
  <2>1. /\ g.client = h.client /\ g.got_ccs = FALSE /\ Answers(g, b, x, k, req, j + 1)
        /\ AnswerIs(j + 1, r, Encrypted[k][h.client], g.master,
                    Log(h.client, x, k, req, Encrypted[k][h.client], 3))
    BY <1>2, <1>3, <1>8, <1>12, <1>13 DEF e, log
  <2> QED  BY <1>1, <1>3, <2>1, AnswerAdded
<1>15. j + 1 \in 0 .. 4
  BY <1>3
<1> QED  BY <1>14, <1>15 DEF Answering, g, r, b

----------------------------------------------------------------------------
(***************************************************************************)
(* The client reads ChangeCipherSpec and Finished (1602-1641).             *)
(***************************************************************************)
\* What Answers asks of the locals and of the connection.
SameTalk(h, g) ==
  /\ g.at = h.at /\ g.server = h.server /\ g.cert = h.cert /\ g.master = h.master
  /\ g.client = h.client /\ g.hash = h.hash
SameKeys(c, b) ==
  /\ b.mac_enc_key = c.mac_enc_key /\ b.mac_dec_key = c.mac_dec_key
  /\ b.enc_ctx = c.enc_ctx /\ b.dec_ctx = c.dec_ctx
  /\ b.cipher_active = c.cipher_active /\ b.seq_send = c.seq_send
  /\ b.peer_cert = c.peer_cert /\ b.peer_key_bytes = c.peer_key_bytes

LEMMA AnswersKept ==
  ASSUME NEW h, NEW c, NEW x, NEW k, NEW req, NEW j, Answers(h, c, x, k, req, j),
         NEW g, NEW b, SameTalk(h, g), SameKeys(c, b)
  PROVE  Answers(g, b, x, k, req, j)
BY DEF Answers, SameTalk, SameKeys, HasKeys

LEMMA OpenedKept ==
  ASSUME NEW h, NEW c, NEW s, NEW up, NEW f, NEW req, OpenedAt(h, c, s, up, f, req),
         NEW g, NEW b, SameTalk(h, g), SameKeys(c, b)
  PROVE  OpenedAt(g, b, s, up, f, req)
<1>1. Answers(g, b, s.random, s.cert, req, 4)
  BY AnswersKept DEF OpenedAt
<1> QED  BY <1>1 DEF OpenedAt, SameTalk

LEMMA OpenedIs ==
  ASSUME NEW h, NEW c, NEW s, NEW up, NEW f, NEW req, OpenedAt(h, c, s, up, f, req)
  PROVE  /\ HasKeys(c, s.master) /\ c.cipher_active = TRUE /\ c.seq_send = 1
         /\ s.cert \in Served[f] /\ KeyLen[s.cert] # 0 /\ s.master = h.master
         /\ c.peer_cert = s.cert /\ c.peer_key_bytes = KeyLen[s.cert]
         /\ s.at \in {"open", "closed"} /\ s.rejected = FALSE /\ s.rseq = 1 /\ up = << >>
<1>1. /\ Answers(h, c, s.random, s.cert, req, 4)
      /\ s.at \in {"open", "closed"} /\ s.rejected = FALSE /\ s.cert \in Served[f]
      /\ s.rseq = 1 /\ s.master = h.master /\ up = << >>
  BY DEF OpenedAt
<1>2. 4 >= 2 /\ 4 >= 3
  OBVIOUS
<1>3. /\ HasKeys(c, h.master) /\ c.cipher_active = TRUE /\ c.seq_send = 1 /\ KeyLen[s.cert] # 0
      /\ c.peer_cert = s.cert /\ c.peer_key_bytes = KeyLen[s.cert]
  BY <1>1, <1>2 DEF Answers
<1> QED  BY <1>1, <1>3

LEMMA CipherHeard ==
  ASSUME NEW h, IsHandshake(h), h.got_ccs = FALSE, NEW c, IsConn(c), NEW s, NEW up, NEW down,
         NEW d, NEW f, Opened(h, c, s, up, down, d, f)
  PROVE  /\ down # << >> /\ Head(down) = Plain(ChangeCipher, <<1>>)
         /\ Opened([h EXCEPT !.got_ccs = TRUE], [c EXCEPT !.seq_recv = 0], s, up, Tail(down), d, f)
<1> DEFINE g == [h EXCEPT !.got_ccs = TRUE]
           b == [c EXCEPT !.seq_recv = 0]
<1>1. PICK req \in BOOLEAN : OpenedAt(h, c, s, up, f, req)
  BY DEF Opened
<1>2. down # << >> /\ Head(down) = Plain(ChangeCipher, <<1>>) /\ Started(h, s, Tail(down), d)
  BY DEF Opened
<1>3. SameTalk(h, g) /\ g.got_ccs = TRUE
  BY DEF IsHandshake, SameTalk
<1>4. SameKeys(c, b)
  BY DEF IsConn, SameKeys
<1> HIDE DEF g, b
<1>5. OpenedAt(g, b, s, up, f, req)
  BY <1>1, <1>3, <1>4, OpenedKept
<1>6. Started(g, s, Tail(down), d)
  BY <1>2, <1>3 DEF Started, SameTalk
<1>7. Opened(g, b, s, up, Tail(down), d, f)
  BY <1>3, <1>5, <1>6 DEF Opened
<1> QED  BY <1>2, <1>7 DEF g, b

\* What the Finished of the server tells: the session stands.
Trusted(h, c, s, up, down, d, f) ==
  /\ Head(down).ct = Handshake
  /\ Head(down).data = <<FinishedMsg(h.master, "server_finished", sha256_final(h.hash))>>
  /\ d = FALSE => Accepted(c, Head(down))
  /\ up = << >> /\ s.rejected = FALSE
  /\ Served1(Received(c, Head(down)), s, up, Tail(down), << >>, d, f, TRUE, TRUE)
  /\ Outgoing(s, up, 0, FALSE)
LEMMA FinishedHeard ==
  ASSUME NEW h, h.got_ccs = TRUE, NEW c, IsConn(c), c.seq_recv = 0, c.app_buf = << >>,
         NEW s, s.got = << >>, NEW up, NEW down, IsSeq(down),
         NEW d \in BOOLEAN, NEW f, Opened(h, c, s, up, down, d, f)
  PROVE  Trusted(h, c, s, up, down, d, f)
<1> DEFINE r == Head(down)
           b == Received(c, r)
           q == Tail(down)
<1>1. PICK req \in BOOLEAN : OpenedAt(h, c, s, up, f, req)
  BY DEF Opened
<1>2. Started(h, s, down, d)
  BY DEF Opened
<1>3. /\ HasKeys(c, s.master) /\ c.cipher_active = TRUE /\ c.seq_send = 1
      /\ s.cert \in Served[f] /\ KeyLen[s.cert] # 0 /\ s.master = h.master
      /\ c.peer_cert = s.cert /\ c.peer_key_bytes = KeyLen[s.cert]
      /\ s.at \in {"open", "closed"} /\ s.rejected = FALSE /\ s.rseq = 1 /\ up = << >>
  BY <1>1, OpenedIs
<1>4. /\ InSeq(down, s, 0, d) /\ down # << >> /\ down[1].ct = Handshake
      /\ down[1].data = <<FinishedMsg(h.master, "server_finished", sha256_final(h.hash))>>
      /\ Carried(down) = Bytes(0, s.sent)
  BY <1>2 DEF Started
<1>5. r = down[1] /\ IsSeq(q)
  BY <1>4, TailIs
<1>6. r.ct = Handshake /\ r.ct # Alert
  BY <1>4, <1>5, CodesDiffer
<1>7. Numbered(s.master, 0, r, d) /\ InSeq(q, s, 1, d)
  <2>1. \/ Numbered(s.master, 0, Head(down), d) /\ InSeq(Tail(down), s, 0 + 1, d)
        \/ Head(down).ct = Alert /\ s.at = "closed"
    BY <1>4, SeqTail
  <2> QED  BY <1>6, <2>1
<1>8. d = FALSE => Accepted(c, r)
  BY <1>3, <1>7, NumberedAccepted
<1>9. /\ b.seq_recv = 1 /\ b.app_buf = << >> /\ HasKeys(b, s.master) /\ b.cipher_active = TRUE
      /\ b.seq_send = 1 /\ b.peer_cert = s.cert /\ b.peer_key_bytes = KeyLen[s.cert]
  <2> HIDE DEF r
  <2>1. Protected(c, r)
    BY <1>3, <1>6 DEF Protected
  <2>2. b = [c EXCEPT !.seq_recv = @ + 1]
    BY <2>1 DEF Received
  <2> HIDE DEF b
  <2> QED  BY <1>3, <2>2 DEF IsConn, HasKeys
<1>10. Carried(q) = Bytes(0, s.sent)
  <2>1. Loads(down)
    BY <1>4, SeqLoads
  <2>2. Carried(down) = Payload(r) \o Carried(q) /\ Carried(q) \in Seq(Nat)
    BY <1>4, <2>1, CarriedTail
  <2>3. Payload(r) = << >>
    BY <1>6, CodesDiffer DEF Payload
  <2> DEFINE z == Carried(q)
  <2>4. z \in Seq(Nat) /\ Carried(down) = << >> \o z
    BY <2>2, <2>3
  <2> HIDE DEF z
  <2>5. << >> \o z = z
    BY <2>4
  <2> QED  BY <1>4, <2>4, <2>5 DEF z
<1> HIDE DEF r, b, q
<1>11. Keyed(b, s, f)
  BY <1>3, <1>9 DEF Keyed
<1>12. (<< >> \o << >>) \o Carried(q) = Bytes(0, s.sent)
  <2>1. IsSeq(q) /\ Loads(q)
    BY <1>5, <1>7, SeqLoads
  <2>2. Carried(q) \in Seq(Nat)
    BY <2>1, CarriedIs
  <2> DEFINE z == Carried(q)
  <2>3. z \in Seq(Nat)
    BY <2>2
  <2> HIDE DEF z
  <2>4. (<< >> \o << >>) \o z = z
    BY <2>3
  <2> QED  BY <1>10, <2>4 DEF z
<1>13. Arriving(b, s, q, << >>, d)
  BY <1>7, <1>9, <1>12 DEF Arriving
<1>14. Bytes(0, 0) = << >> /\ << >> \o << >> = << >> /\ Len(<< >>) = 0 /\ Carried(<< >>) = << >>
  BY BytesAre, CarriedNone
<1>15. Served1(b, s, up, q, << >>, d, f, TRUE, TRUE)
  BY <1>3, <1>9, <1>11, <1>13, <1>14 DEF Served1
<1>16. Outgoing(s, up, 0, FALSE)
  BY <1>3, <1>14 DEF Outgoing
<1>17. Head(down).data = <<FinishedMsg(h.master, "server_finished", sha256_final(h.hash))>>
  BY <1>4, <1>5 DEF r
<1>18. Head(down).ct = Handshake /\ (d = FALSE => Accepted(c, Head(down)))
  BY <1>6, <1>8 DEF r
<1>19. Served1(Received(c, Head(down)), s, up, Tail(down), << >>, d, f, TRUE, TRUE)
  BY <1>15 DEF r, b, q
<1> QED  BY ONLY <1>3, <1>16, <1>17, <1>18, <1>19, Zenon DEF Trusted

----------------------------------------------------------------------------
(***************************************************************************)
(* The server answers the ClientHello, and takes the answers of the client.*)
(***************************************************************************)
\* The server presents certificate k.
Presented(s, req, k, random, log, client) ==
  [s EXCEPT !.at = IF req THEN "cert" ELSE "key", !.cert = k, !.random = random,
            !.client = client, !.log = log]

LEMMA FlightRecords ==
  ASSUME NEW q, FlightPart(q) PROVE \A i \in 1 .. Len(q) : IsRecord(q[i])
<1>1. \A ct, data : IsRecord(Plain(ct, data))
  BY DEF IsRecord, Plain
<1> QED  BY <1>1 DEF FlightPart

\* The flight q is under way from server t.
Departed(h, t, up, q, d, f) ==
  /\ IsServer(t) /\ t.rejected = FALSE /\ t.sent = 0 /\ t.got = << >>
  /\ IsSeq(up) /\ IsSeq(q) /\ \A i \in 1 .. Len(q) : IsRecord(q[i])
  /\ Flying(h, t, up, q, d, f)

LEMMA FlightLeaves ==
  ASSUME NEW h, h.client \in 1 .. MaxConn, NEW s, NEW up, NEW down, NEW d, NEW f \in Fds,
         Asking(h, s, up, down), NEW k \in Served[f], NEW req \in BOOLEAN, NEW cuts,
         NEW hello, hello = Head(up).data, NEW random, random = 50 + hello[1].v[1],
         NEW t, t = Presented(s, req, k, random,
                              Flat(Handshake, hello) \o Flat(Handshake, Flight(random, k, req)),
                              hello[1].v[1])
  PROVE  Departed(h, t, Tail(up), down \o InRecords(Pieces(Flight(random, k, req), cuts)), d, f)
<1> DEFINE cl == h.client
           msgs == Flight(random, k, req)
           q == InRecords(Pieces(msgs, cuts))
           log == Flat(Handshake, hello) \o Flat(Handshake, msgs)
<1>1. /\ s = FreshServer /\ down = << >> /\ up = <<Plain(Handshake, <<Hello(cl)>>)>>
      /\ h.at = "flight" /\ h.got_ccs = FALSE /\ h.got_done = FALSE /\ h.cert_requested = FALSE
      /\ Fed(h.hash, MsgBytes(Hello(cl)), 0)
  BY DEF Asking
<1>2. cl \in Nat /\ k \in DOMAIN Certs /\ k \in Nat
  BY CertNumbers
<1>3. hello = <<Hello(cl)>> /\ Tail(up) = << >> /\ hello[1].v[1] = cl
  <2>1. up = <<Plain(Handshake, <<Hello(cl)>>)>>
    BY <1>1
  <2>2. Head(up) = Plain(Handshake, <<Hello(cl)>>) /\ Tail(up) = << >>
    BY <2>1
  <2>3. Plain(Handshake, <<Hello(cl)>>).data = <<Hello(cl)>>
    BY DEF Plain
  <2>4. Hello(cl).v[1] = cl
    BY <1>2, HelloIs
  <2>5. hello = <<Hello(cl)>>
    BY <2>2, <2>3
  <2>6. hello[1] = Hello(cl)
    BY <2>5
  <2> QED  BY <2>2, <2>4, <2>5, <2>6
<1> HIDE DEF cl
<1>4. random = 50 + cl /\ random \in Nat
  BY <1>2, <1>3
<1>5. Flat(Handshake, hello) \o Flat(Handshake, msgs) = Log0(cl, random, k, req)
  <2>1. cl \in Nat /\ random \in Nat /\ k \in Nat /\ req \in BOOLEAN
    BY <1>2, <1>4
  <2>2. Flat(Handshake, <<Hello(cl)>>) \o Flat(Handshake, Flight(random, k, req))
          = Log0(cl, random, k, req)
    BY ONLY <2>1, ServerLog
  <2> QED  BY <1>3, <2>2, Zenon
<1>6. /\ IsServer(t) /\ t.at = (IF req THEN "cert" ELSE "key") /\ t.cert = k /\ t.random = random
      /\ t.client = cl /\ t.log = Log0(cl, random, k, req) /\ t.rseq = 0 /\ t.sent = 0
      /\ t.rejected = FALSE /\ t.got = << >>
  <2> DEFINE l == Flat(Handshake, hello) \o Flat(Handshake, Flight(random, k, req))
  <2>1. t = Presented(FreshServer, req, k, random, l, cl) /\ l = Log0(cl, random, k, req)
    BY <1>1, <1>3, <1>5
  <2> HIDE DEF l
  <2> QED  BY <2>1, ZenonT(45) DEF Presented, FreshServer, IsServer
<1>7. msgs \in Seq(Messages) /\ Len(msgs) = FlightLen(req)
  BY <1>2, <1>4, FlightIs, ZenonT(45)
<1>8. FlightLen(req) \in {3, 4}
  BY FlightLenIs
<1> HIDE DEF msgs
<1>9. IsSeq(q) /\ FlightPart(q) /\ FlattenSeq(Flown(q)) = msgs
  BY <1>7, FlightSent
<1> HIDE DEF q
<1>10. FlattenSeq(Flown(q)) = SubSeq(msgs, 0 + 1, FlightLen(req))
  <2>1. SubSeq(msgs, 1, Len(msgs)) = msgs
    BY <1>7
  <2> QED  BY <1>7, <1>9, <2>1
<1>11. down \o q = q
  <2>1. q \in Seq(Parts(q)) /\ down = << >>
    BY <1>1, <1>9, SeqTyped
  <2> QED  BY <2>1
<1>12. Listening(h, random, k, req, 0)
  <2>1. Heard(h.client, random, k, req, 0) = MsgBytes(Hello(h.client))
    BY <1>2, HeardNone DEF cl
  <2>2. Fed(h.hash, Heard(h.client, random, k, req, 0), 0)
    BY <1>1, <2>1 DEF cl
  <2>3. 0 \in 0 .. FlightLen(req) /\ ~ (0 >= 1) /\ ~ (0 >= 2) /\ ~ (0 >= 3) /\ 0 < 3
          /\ 0 # FlightLen(req)
    BY <1>8, SMTT(40)
  <2> QED  BY <1>1, <2>2, <2>3 DEF Listening
<1>13. ServerAt(t, f, h.client, req, << >>, IF req = TRUE THEN 0 ELSE 1)
  <2> DEFINE i == IF req = TRUE THEN 0 ELSE 1
  <2>1. i \in 0 .. 3 /\ (i = 0 => req = TRUE) /\ ~ (i >= 2) /\ Stage(t.at, i)
    <3>1. CASE req = TRUE
      <4>1. i = 0
        BY <3>1
      <4>2. t.at = "cert"
        <5>1. (IF req THEN "cert" ELSE "key") = "cert"
          BY ONLY <3>1
        <5> QED  BY <1>6, <5>1, ZenonT(45)
      <4> HIDE DEF i
      <4> QED  BY ONLY <4>1, <4>2, <3>1 DEF Stage
    <3>2. CASE req = FALSE
      <4>1. i = 1 /\ req # TRUE
        BY <3>2
      <4>2. t.at = "key"
        <5>1. (IF req THEN "cert" ELSE "key") = "key"
          BY ONLY <3>2
        <5> QED  BY <1>6, <5>1
      <4> HIDE DEF i
      <4> QED  BY ONLY <4>1, <4>2, <3>2 DEF Stage
    <3> QED  BY <3>1, <3>2
  <2>2. Log(cl, random, k, req, << >>, i) = Log0(cl, random, k, req)
    <3>1. CASE req = TRUE
      BY <3>1 DEF Log
    <3>2. CASE req = FALSE
      BY <3>2, SMTT(40) DEF Log, Log1
    <3> QED  BY <3>1, <3>2
  <2> HIDE DEF i
  <2>3. t.log = Log(h.client, t.random, t.cert, req, << >>, i)
    BY <1>6, <2>2, ZenonT(45) DEF cl
  <2>4. t.client = h.client
    BY <1>6, ZenonT(45) DEF cl
  <2> QED  BY <1>4, <1>6, <2>1, <2>3, <2>4 DEF ServerAt, i
<1>14. Untouched(random, k, t, d)
  BY <1>6, ZenonT(45) DEF Untouched
<1>15. FlyingAt(h, t, Tail(up), q, d, f, random, k, req, 0)
  <2>1. 0 < FlightLen(req)
    BY <1>8
  <2> QED  BY <1>3, <1>9, <1>10, <1>12, <1>13, <1>14, <2>1 DEF FlyingAt, msgs
<1>16. Flying(h, t, Tail(up), q, d, f)
  <2>1. t.random = random /\ k \in DOMAIN Certs /\ req \in BOOLEAN
        /\ FlyingAt(h, t, Tail(up), q, d, f, random, k, req, 0)
    BY <1>2, <1>6, <1>15
  <2>2. 0 \in 0 .. 3 /\ random \in {random, random + 1}
    OBVIOUS
  <2>3. \E x \in {random, random + 1}, l \in DOMAIN Certs, need \in BOOLEAN, n \in 0 .. 3 :
          FlyingAt(h, t, Tail(up), q, d, f, x, l, need, n)
    BY ONLY <2>1, <2>2, Zenon
  <2> QED  BY ONLY <2>1, <2>3, ZenonT(45) DEF Flying
<1>17. IsSeq(Tail(up)) /\ IsSeq(q) /\ \A i \in 1 .. Len(q) : IsRecord(q[i])
  <2>1. IsSeq(Tail(up))
    BY <1>3, SmallSeqs, Zenon
  <2> QED  BY <1>9, <2>1, FlightRecords
<1>18. Departed(h, t, Tail(up), q, d, f)
  BY ONLY <1>6, <1>16, <1>17 DEF Departed
<1> QED  BY ONLY <1>11, <1>18 DEF q, msgs

\* What no answer of the client changes at the server.
SamePeer(s, t) ==
  /\ IsServer(t) /\ t.cert = s.cert /\ t.random = s.random /\ t.client = s.client
  /\ t.sent = s.sent /\ t.got = s.got

LEMMA AfterCert ==
  ASSUME NEW s, IsServer(s), s.at = "cert"
  PROVE  LET t == After(s, Plain(Handshake, <<NoCert>>))
         IN /\ SamePeer(s, t) /\ t.at = "key" /\ t.log = s.log \o MsgBytes(NoCert)
            /\ t.master = s.master /\ t.rseq = s.rseq /\ t.rejected = s.rejected
<1> DEFINE r == Plain(Handshake, <<NoCert>>)
<1>1. r.ct = Handshake /\ r.key = NoSlice /\ r.data[1] = NoCert
  BY DEF Plain
<1> HIDE DEF r
<1> DEFINE g == [[s EXCEPT !.log = @ \o MsgBytes(NoCert)] EXCEPT !.at = "key"]
<1>2. After(s, r) = g
  BY <1>1 DEF After, NoCert
<1>3. /\ SamePeer(s, g) /\ g.at = "key" /\ g.log = s.log \o MsgBytes(NoCert)
      /\ g.master = s.master /\ g.rseq = s.rseq /\ g.rejected = s.rejected
  <2> DEFINE z == s.log \o MsgBytes(NoCert)
  <2>1. g = [[s EXCEPT !.log = z] EXCEPT !.at = "key"]
    BY DEF IsServer
  <2> HIDE DEF z
  <2>2. LET u == [[s EXCEPT !.log = z] EXCEPT !.at = "key"]
        IN /\ SamePeer(s, u) /\ u.at = "key" /\ u.log = z
           /\ u.master = s.master /\ u.rseq = s.rseq /\ u.rejected = s.rejected
    BY DEF SamePeer, IsServer
  <2> HIDE DEF g
  <2> QED  BY <2>1, <2>2, Zenon DEF z
<1> HIDE DEF g
<1> QED  BY <1>2, <1>3 DEF r

\* A rejection.
LEMMA AfterOther ==
  ASSUME NEW s, IsServer(s), NEW t, t = [s EXCEPT !.at = "closed", !.rejected = TRUE]
  PROVE  SamePeer(s, t) /\ t.at = "closed" /\ t.rejected = TRUE
BY DEF SamePeer, IsServer

\* The key is taken, or rejected.
KeyTaken(s, e, t) ==
  /\ SamePeer(s, t)
  /\ PreMasterOf[s.cert][e] # << >> =>
       /\ t.at = "ccs" /\ t.log = s.log \o MsgBytes(Msg(ClientKeyEx, e))
       /\ t.master = Master(PreMasterOf[s.cert][e], s.client, s.random)
       /\ t.rseq = s.rseq /\ t.rejected = s.rejected
  /\ PreMasterOf[s.cert][e] = << >> => t.at = "closed" /\ t.rejected = TRUE

LEMMA AfterKey ==
  ASSUME NEW s, IsServer(s), s.at = "key", NEW e
  PROVE  KeyTaken(s, e, After(s, Plain(Handshake, <<Msg(ClientKeyEx, e)>>)))
<1> DEFINE m == Msg(ClientKeyEx, e)
           r == Plain(Handshake, <<m>>)
           pms == PreMasterOf[s.cert][e]
           master == Master(pms, s.client, s.random)
           g == [[s EXCEPT !.log = @ \o MsgBytes(m)] EXCEPT !.at = "ccs", !.master = master]
           t == After(s, Plain(Handshake, <<Msg(ClientKeyEx, e)>>))
<1>1. m.t = ClientKeyEx /\ m.v = e
  BY DEF Msg
<1>2. r.ct = Handshake /\ r.key = NoSlice /\ r.data[1] = m
  BY DEF Plain
<1> HIDE DEF r, m
<1>3. pms # << >> => After(s, r) = g
  BY <1>1, <1>2 DEF After
<1>4. pms = << >> => After(s, r) = [s EXCEPT !.at = "closed", !.rejected = TRUE]
  BY <1>1, <1>2 DEF After
<1>5. /\ SamePeer(s, g) /\ g.at = "ccs" /\ g.log = s.log \o MsgBytes(m) /\ g.master = master
      /\ g.rseq = s.rseq /\ g.rejected = s.rejected
  <2> DEFINE z == s.log \o MsgBytes(m)
  <2>1. g = [[s EXCEPT !.log = z] EXCEPT !.at = "ccs", !.master = master]
    BY DEF IsServer
  <2> HIDE DEF z, master
  <2>2. LET u == [[s EXCEPT !.log = z] EXCEPT !.at = "ccs", !.master = master]
        IN /\ SamePeer(s, u) /\ u.at = "ccs" /\ u.log = z
           /\ u.master = master /\ u.rseq = s.rseq /\ u.rejected = s.rejected
    BY DEF SamePeer, IsServer
  <2> HIDE DEF g
  <2> QED  BY <2>1, <2>2, Zenon DEF z
<1> HIDE DEF g
<1>6. t = After(s, r)
  BY DEF r, m
<1> HIDE DEF t
<1> SUFFICES KeyTaken(s, e, t)
  BY DEF t
<1>7. CASE pms # << >>
  <2>1. t = g
    BY <1>3, <1>6, <1>7
  <2> QED  BY <1>5, <1>7, <2>1 DEF m, KeyTaken
<1>8. CASE pms = << >>
  <2>1. t = [s EXCEPT !.at = "closed", !.rejected = TRUE]
    BY <1>4, <1>6, <1>8
  <2>2. SamePeer(s, t) /\ t.at = "closed" /\ t.rejected = TRUE
    BY <2>1, AfterOther
  <2> QED  BY <1>8, <2>2 DEF KeyTaken
<1> QED  BY <1>7, <1>8

LEMMA AfterCipher ==
  ASSUME NEW s, IsServer(s), s.at = "ccs", NEW t, t = After(s, Plain(ChangeCipher, << 1 >>))
  PROVE  /\ SamePeer(s, t) /\ t.at = "fin" /\ t.log = s.log /\ t.master = s.master
         /\ t.rseq = s.rseq /\ t.rejected = s.rejected
<1> DEFINE r == Plain(ChangeCipher, <<1>>)
<1>1. r.ct = ChangeCipher /\ r.key = NoSlice
  BY DEF Plain
<1> HIDE DEF r
<1>2. After(s, r) = [s EXCEPT !.at = "fin"]
  BY <1>1 DEF After
<1>3. t = [s EXCEPT !.at = "fin"]
  BY <1>2 DEF r
<1> QED  BY <1>3 DEF SamePeer, IsServer

LEMMA AfterFinished ==
  ASSUME NEW s, IsServer(s), s.at = "fin", NEW r, r.ct = Handshake, NEW master, NEW hash,
         r.data = <<FinishedMsg(master, "client_finished", hash)>>, NEW t, t = After(s, r)
  PROVE  \/ /\ ServerAccepts(s.master, s.rseq, r) /\ master = s.master /\ hash = Sha(s.log)
            /\ SamePeer(s, t) /\ t.at = "open"
            /\ t.log = s.log \o MsgBytes(Msg(Finished, << >>))
            /\ t.master = s.master /\ t.rseq = 1 /\ t.wseq = 1 /\ t.rejected = s.rejected
         \/ /\ ~ (ServerAccepts(s.master, s.rseq, r) /\ master = s.master /\ hash = Sha(s.log))
            /\ SamePeer(s, t) /\ t.at = "closed" /\ t.rejected = TRUE
<1> DEFINE m == FinishedMsg(master, "client_finished", hash)
           intact == ServerAccepts(s.master, s.rseq, r)
           sha == Sha(s.log)
           good == intact
                /\ m.verify = [secret |-> s.master, label |-> "client_finished", hash |-> sha]
           g == [[s EXCEPT !.log = @ \o MsgBytes(m)] EXCEPT !.at = "open", !.rseq = 1, !.wseq = 1]
           x == [s EXCEPT !.at = "closed", !.rejected = TRUE]
<1>1. /\ m.t = Finished
      /\ m.verify = [secret |-> master, label |-> "client_finished", hash |-> hash]
      /\ MsgBytes(m) = MsgBytes(Msg(Finished, << >>)) /\ r.data[1] = m
  <2>1. /\ m.t = Finished
        /\ m.verify = [secret |-> master, label |-> "client_finished", hash |-> hash]
        /\ MsgBytes(m) = MsgBytes(Msg(Finished, << >>))
    <3>1. LET z == FinishedMsg(master, "client_finished", hash)
          IN /\ z.t = Finished /\ z.v = << >>
             /\ z.verify = [secret |-> master, label |-> "client_finished", hash |-> hash]
             /\ MsgBytes(z) = MsgBytes(Msg(Finished, << >>)) /\ MsgBytes(z) \in Seq(Nat)
             /\ IsContent(Handshake, <<z>>)
      BY ONLY FinishedIs, Zenon
    <3> QED  BY ONLY <3>1
  <2>2. r.data = <<m>>
    OBVIOUS
  <2> HIDE DEF m
  <2>3. r.data[1] = m
    BY ONLY <2>2
  <2> QED  BY <2>1, <2>3
<1> HIDE DEF m, intact, sha
<1>2. good => After(s, r) = g
  BY <1>1 DEF After, ServerVerify, intact, sha
<1>3. ~ good => After(s, r) = x
  BY <1>1 DEF After, ServerVerify, intact, sha
<1>4. good <=> intact /\ master = s.master /\ hash = sha
  BY <1>1
<1>5. /\ SamePeer(s, g) /\ g.at = "open" /\ g.log = s.log \o MsgBytes(m) /\ g.master = s.master
      /\ g.rseq = 1 /\ g.wseq = 1 /\ g.rejected = s.rejected
  <2> DEFINE z == s.log \o MsgBytes(m)
  <2>1. g = [[s EXCEPT !.log = z] EXCEPT !.at = "open", !.rseq = 1, !.wseq = 1]
    BY DEF IsServer
  <2> HIDE DEF z
  <2>2. LET u == [[s EXCEPT !.log = z] EXCEPT !.at = "open", !.rseq = 1, !.wseq = 1]
        IN /\ SamePeer(s, u) /\ u.at = "open" /\ u.log = z /\ u.master = s.master
           /\ u.rseq = 1 /\ u.wseq = 1 /\ u.rejected = s.rejected
    BY DEF SamePeer, IsServer
  <2> HIDE DEF g
  <2> QED  BY <2>1, <2>2, Zenon DEF z
<1>6. SamePeer(s, x) /\ x.at = "closed" /\ x.rejected = TRUE
  BY AfterOther
<1> HIDE DEF g, x, good
<1>7. t = After(s, r)
  OBVIOUS
<1>8. CASE good
  <2>1. t = g
    BY <1>2, <1>7, <1>8
  <2>2. intact /\ master = s.master /\ hash = sha
    BY <1>4, <1>8
  <2> QED  BY <1>1, <1>5, <2>1, <2>2 DEF intact, sha
<1>9. CASE ~ good
  <2>1. t = x
    BY <1>3, <1>7, <1>9
  <2>2. ~ (intact /\ master = s.master /\ hash = sha)
    BY <1>4, <1>9
  <2> QED  BY <1>6, <2>1, <2>2 DEF intact, sha
<1> QED  BY <1>8, <1>9

\* One answer less is under way.
LEMMA AnswerTaken ==
  ASSUME NEW h, NEW c, NEW s, NEW up, IsSeq(up), NEW down, NEW d, NEW f, NEW x, NEW k, NEW req,
         NEW j \in 0 .. 4, NEW i \in 0 .. 3, AnsweringAt(h, c, s, up, down, d, f, x, k, req, j, i),
         i < j, NEW t, t.random = s.random, t.cert = s.cert,
         ServerAt(t, f, h.client, req, Encrypted[k][h.client], i + 1)
  PROVE  AnsweringAt(h, c, t, Tail(up), down, d, f, x, k, req, j, i + 1)
<1> DEFINE p == Tail(up)
           e == Encrypted[k][h.client]
           log == Log(h.client, x, k, req, e, 3)
<1>1. /\ Answers(h, c, x, k, req, j) /\ h.got_ccs = FALSE /\ down = << >> /\ Len(up) = j - i
      /\ \A n \in 1 .. j - i : AnswerIs(i + n, up[n], e, h.master, log)
      /\ Untouched(x, k, s, d)
  BY DEF AnsweringAt
<1>2. up # << >>
  BY <1>1, SmallSeqs
<1>3. /\ IsSeq(p) /\ Len(p) = Len(up) - 1 /\ \A n \in 1 .. Len(up) - 1 : p[n] = up[n + 1]
  BY <1>2, TailIs
<1> HIDE DEF p, log
<1>4. Len(p) = j - (i + 1) /\ i + 1 <= j
  BY <1>1, <1>3
<1>5. ASSUME NEW n \in 1 .. j - (i + 1) PROVE AnswerIs((i + 1) + n, p[n], e, h.master, log)
  <2>1. n \in 1 .. Len(up) - 1 /\ n + 1 \in 1 .. j - i /\ i + (n + 1) = (i + 1) + n
    BY <1>1
  <2>2. p[n] = up[n + 1] /\ AnswerIs(i + (n + 1), up[n + 1], e, h.master, log)
    BY <1>1, <1>3, <2>1
  <2> QED  BY <2>1, <2>2
<1>6. Untouched(x, k, t, d)
  BY <1>1 DEF Untouched
<1> HIDE DEF e
<1>7. \A n \in 1 .. j - (i + 1) :
        AnswerIs((i + 1) + n, p[n], Encrypted[k][h.client], h.master,
                 Log(h.client, x, k, req, Encrypted[k][h.client], 3))
  BY <1>5 DEF e, log
<1> QED  BY <1>1, <1>4, <1>6, <1>7 DEF AnsweringAt, p

\* The server takes an answer that is not the last: it goes on, or rejects the key.
Stepped(s, t, f, client, req, e, i) ==
  /\ SamePeer(s, t) /\ t.at # "open" /\ s.at # "open"
  /\ \/ t.rejected = FALSE /\ ServerAt(t, f, client, req, e, i + 1)
     \/ i = 1 /\ PreMasterOf[s.cert][e] = << >> /\ t.at = "closed" /\ t.rejected = TRUE

LEMMA ServerStep ==
  ASSUME NEW s, IsServer(s), NEW f, NEW client, NEW req, NEW e, NEW i \in 0 .. 2,
         ServerAt(s, f, client, req, e, i), NEW r, NEW master, NEW log,
         AnswerIs(i + 1, r, e, master, log), NEW t, t = After(s, r)
  PROVE  Stepped(s, t, f, client, req, e, i)
<1>1. /\ Stage(s.at, i) /\ (i = 0 => req = TRUE)
      /\ s.cert \in Served[f] /\ s.random \in Nat /\ s.client = client
      /\ s.log = Log(client, s.random, s.cert, req, e, i)
      /\ i >= 2 => s.master = Master(PreMasterOf[s.cert][e], client, s.random)
      /\ s.rseq = 0 /\ s.sent = 0 /\ s.rejected = FALSE
  BY DEF ServerAt
<1>2. s.at # "open"
  BY <1>1, StageIs
<1>3. ASSUME NEW n \in 1 .. 3, n = i + 1, SamePeer(s, t), Stage(t.at, n), t.rejected = s.rejected,
             t.rseq = s.rseq, t.log = Log(client, s.random, s.cert, req, e, n),
             n >= 2 => t.master = Master(PreMasterOf[s.cert][e], client, s.random)
      PROVE  t.at # "open" /\ t.rejected = FALSE /\ ServerAt(t, f, client, req, e, i + 1)
  <2>1. /\ t.cert = s.cert /\ t.random = s.random /\ t.client = s.client /\ t.sent = s.sent
    BY <1>3 DEF SamePeer
  <2>2. t.at # "open"
    BY <1>3, StageIs
  <2>3. n \in 0 .. 3 /\ (n = 0 => req = TRUE)
    BY <1>3
  <2>4. ServerAt(t, f, client, req, e, n)
    BY <1>1, <1>3, <2>1, <2>3 DEF ServerAt
  <2> QED  BY <1>1, <1>3, <2>2, <2>4
<1>4. CASE i = 0
  <2>1. s.at = "cert" /\ req = TRUE
    BY <1>1, <1>4, StageIs
  <2>2. r = Plain(Handshake, <<NoCert>>)
    <3>1. AnswerIs(1, r, e, master, log)
      BY <1>4
    <3> QED  BY ONLY <3>1 DEF AnswerIs
  <2>3. /\ SamePeer(s, t) /\ t.at = "key" /\ t.log = s.log \o MsgBytes(NoCert)
        /\ t.rseq = s.rseq /\ t.rejected = s.rejected
    BY <2>1, <2>2, AfterCert
  <2>4. t.log = Log(client, s.random, s.cert, req, e, 1)
    <3>1. s.log = Log(client, s.random, s.cert, req, e, 0)
      BY <1>1, <1>4
    <3>2. s.log = Log0(client, s.random, s.cert, req)
      BY ONLY <3>1 DEF Log
    <3>3. Log(client, s.random, s.cert, req, e, 1) = Log1(client, s.random, s.cert, req)
      BY ONLY DEF Log
    <3>4. Log1(client, s.random, s.cert, req)
            = Log0(client, s.random, s.cert, req) \o MsgBytes(NoCert)
      BY ONLY <2>1 DEF Log1
    <3>5. t.log = s.log \o MsgBytes(NoCert)
      BY <2>3
    <3> QED  BY ONLY <3>2, <3>3, <3>4, <3>5, Zenon
  <2>5. Stage(t.at, 1) /\ ~ (1 >= 2) /\ 1 \in 1 .. 3 /\ 1 = i + 1
    BY <1>4, <2>3 DEF Stage
  <2> QED  BY <1>2, <1>3, <2>3, <2>4, <2>5 DEF Stepped
<1>5. CASE i = 1
  <2>1. s.at = "key"
    BY <1>1, <1>5, StageIs
  <2>2. r = Plain(Handshake, <<Msg(ClientKeyEx, e)>>)
    <3>1. AnswerIs(2, r, e, master, log)
      BY <1>5
    <3> QED  BY ONLY <3>1 DEF AnswerIs
  <2>3. /\ SamePeer(s, t)
        /\ PreMasterOf[s.cert][e] # << >> =>
              /\ t.at = "ccs" /\ t.log = s.log \o MsgBytes(Msg(ClientKeyEx, e))
              /\ t.master = Master(PreMasterOf[s.cert][e], s.client, s.random)
              /\ t.rseq = s.rseq /\ t.rejected = s.rejected
        /\ PreMasterOf[s.cert][e] = << >> => t.at = "closed" /\ t.rejected = TRUE
    <3>1. t = After(s, Plain(Handshake, <<Msg(ClientKeyEx, e)>>))
      BY <2>2
    <3>2. KeyTaken(s, e, t)
      BY <2>1, <3>1, AfterKey
    <3> QED  BY ONLY <3>2 DEF KeyTaken
  <2>4. CASE PreMasterOf[s.cert][e] = << >>
    <3>1. t.at # "open"
      BY <2>3, <2>4
    <3> QED  BY <1>2, <1>5, <2>3, <2>4, <3>1 DEF Stepped
  <2>5. CASE PreMasterOf[s.cert][e] # << >>
    <3>1. t.log = Log(client, s.random, s.cert, req, e, 2)
      <4>1. s.log = Log(client, s.random, s.cert, req, e, 1)
        BY <1>1, <1>5
      <4>2. t.log = s.log \o MsgBytes(Msg(ClientKeyEx, e))
        BY <2>3, <2>5
      <4> QED  BY ONLY <4>1, <4>2 DEF Log, Log2
    <3>2. t.master = Master(PreMasterOf[s.cert][e], client, s.random)
      BY <1>1, <2>3, <2>5
    <3>3. Stage(t.at, 2) /\ 2 \in 1 .. 3 /\ 2 = i + 1
      BY <1>5, <2>3, <2>5 DEF Stage
    <3> QED  BY <1>2, <1>3, <2>3, <2>5, <3>1, <3>2, <3>3 DEF Stepped
  <2> QED  BY <2>4, <2>5
<1>6. CASE i = 2
  <2>1. s.at = "ccs" /\ s.master = Master(PreMasterOf[s.cert][e], client, s.random)
    BY <1>1, <1>6, StageIs
  <2>2. r = Plain(ChangeCipher, <<1>>)
    <3>1. AnswerIs(3, r, e, master, log)
      BY <1>6
    <3> QED  BY ONLY <3>1 DEF AnswerIs
  <2>3. /\ SamePeer(s, t) /\ t.at = "fin" /\ t.log = s.log /\ t.master = s.master
        /\ t.rseq = s.rseq /\ t.rejected = s.rejected
    BY <2>1, <2>2, AfterCipher
  <2>4. t.log = Log(client, s.random, s.cert, req, e, 3)
    <3>1. s.log = Log(client, s.random, s.cert, req, e, 2)
      BY <1>1, <1>6
    <3> QED  BY ONLY <2>3, <3>1 DEF Log
  <2>5. Stage(t.at, 3) /\ 3 \in 1 .. 3 /\ 3 = i + 1
    BY <1>6, <2>3 DEF Stage
  <2> QED  BY <1>2, <1>3, <2>1, <2>3, <2>4, <2>5 DEF Stepped
<1>7. i = 0 \/ i = 1 \/ i = 2
  OBVIOUS
<1> QED  BY ONLY <1>4, <1>5, <1>6, <1>7

\* The Finished of the server, first of its protected records.
LEMMA FinishedStarts ==
  ASSUME NEW h, NEW u, NEW d, NEW hash, hash = sha256_final(h.hash), u.master = h.master,
         u.wseq = 1, u.sent = 0,
         NEW r, r = ServerRecord(h.master, 0, Handshake,
                              <<FinishedMsg(h.master, "server_finished", hash)>>)
  PROVE  Started(h, u, <<r>>, d)
<1> DEFINE m == FinishedMsg(h.master, "server_finished", hash)
           q == <<r>>
<1>1. Numbered(h.master, 0, r, d) /\ r.ct = Handshake /\ r.data = <<m>>
  <2>1. IsContent(Handshake, <<m>>)
    BY FinishedIs, Zenon
  <2> HIDE DEF m
  <2>2. Handshake \in {Handshake, Application}
    OBVIOUS
  <2>3. LET z == ServerRecord(h.master, 0, Handshake, <<m>>)
        IN Numbered(h.master, 0, z, d) /\ z.ct = Handshake /\ z.data = <<m>>
    BY ONLY <2>1, <2>2, ServerRecordNumbered
  <2>4. r = ServerRecord(h.master, 0, Handshake, <<m>>)
    BY DEF m
  <2> QED  BY ONLY <2>3, <2>4, Zenon
<1> HIDE DEF m
<1>2. IsSeq(q) /\ Len(q) = 1 /\ q[1] = r /\ q # << >> /\ Head(q) = r /\ Tail(q) = << >>
  BY SmallSeqs
<1> HIDE DEF q
<1>3. InOrder(q, u, 0, d, 0)
  <2>1. Len(q) >= 0 /\ u.wseq = 0 + Len(q) - 0 /\ (0 = 1 => FALSE)
    BY <1>2
  <2>2. ASSUME NEW i \in 1 .. Len(q) - 0 PROVE Numbered(u.master, 0 + i - 1, q[i], d)
    <3>1. i = 1 /\ 0 + i - 1 = 0
      BY <1>2
    <3> QED  BY <1>1, <1>2, <3>1
  <2> QED  BY <2>1, <2>2 DEF InOrder
<1>4. InSeq(q, u, 0, d)
  BY <1>3 DEF InSeq
<1>5. Carried(q) = Bytes(0, u.sent)
  <2>1. Payload(r) = << >>
    BY <1>1, CodesDiffer DEF Payload
  <2>2. Loads(q)
    BY <1>2, <1>4, SeqLoads
  <2>3. Carried(q) = << >> \o << >>
    BY <1>2, <2>1, <2>2, CarriedTail, CarriedNone
  <2>4. Bytes(0, 0) = << >>
    BY BytesAre
  <2> QED  BY <2>3, <2>4
<1> QED  BY <1>1, <1>2, <1>4, <1>5 DEF Started, q, m

\* What the last answer tells the server: either all of it fits, or it rejects.
LastHeard(h, c, s, up, down, d, f, x, k, req, t) ==
  /\ s.at = "fin" /\ SamePeer(s, t) /\ down = << >> /\ Tail(up) = << >>
  /\ \/ /\ x = s.random /\ k = s.cert /\ s.random \in Nat /\ s.cert \in Served[f]
        /\ Answers(h, c, s.random, s.cert, req, 4) /\ h.got_ccs = FALSE
        /\ t.at = "open" /\ t.master = h.master /\ t.rseq = 1 /\ t.wseq = 1
        /\ t.rejected = FALSE /\ t.sent = 0 /\ Sha(t.log) = sha256_final(h.hash)
     \/ t.at = "closed" /\ t.rejected = TRUE /\ d = TRUE

LEMMA LastAnswer ==
  ASSUME NEW h, h.client \in 1 .. MaxConn, NEW c, NEW s, IsServer(s), NEW up, IsSeq(up),
         NEW down, NEW d \in BOOLEAN, NEW f \in Fds, NEW x \in {s.random, s.random + 1},
         NEW k \in DOMAIN Certs, NEW req \in BOOLEAN,
         AnsweringAt(h, c, s, up, down, d, f, x, k, req, 4, 3), NEW t, t = After(s, Head(up))
  PROVE  LastHeard(h, c, s, up, down, d, f, x, k, req, t)
<1> DEFINE cl == h.client
           e == Encrypted[k][cl]
           r == Head(up)
           l == Log(cl, x, k, req, e, 3)
           ls == Log(cl, s.random, s.cert, req, e, 3)
<1>1. /\ Answers(h, c, x, k, req, 4) /\ h.got_ccs = FALSE
      /\ ServerAt(s, f, cl, req, e, 3) /\ down = << >> /\ Len(up) = 4 - 3
      /\ \A n \in 1 .. 4 - 3 : AnswerIs(3 + n, up[n], e, h.master, l)
      /\ Untouched(x, k, s, d)
  BY DEF AnsweringAt
<1>2. AnswerTyped(h, c, s, f, x, k, req, 4)
  BY AnswerTypes
<1>3. /\ s.random \in Nat /\ x \in Nat /\ k \in Nat /\ s.cert \in Served[f] /\ s.cert \in Nat
      /\ s.cert \in DOMAIN Certs /\ e \in Seq(Nat) /\ cl \in Nat
  BY <1>2 DEF AnswerTyped
<1>4. up # << >> /\ r = up[1] /\ Tail(up) = << >>
  <2>1. Len(up) = 1
    BY <1>1
  <2>2. up # << >>
    <3>1. Len(<< >>) = 0
      BY ONLY SmallSeqs
    <3> QED  BY ONLY <2>1, <3>1
  <2>3. IsSeq(Tail(up)) /\ Len(Tail(up)) = Len(up) - 1 /\ Head(up) = up[1]
    BY <2>2, TailIs
  <2>4. Tail(up) = << >>
    <3> DEFINE p == Tail(up)
    <3>1. IsSeq(p) /\ Len(p) = 0
      BY <2>1, <2>3
    <3> HIDE DEF p
    <3>2. p = << >>
      BY ONLY <3>1, NoneIs
    <3> QED  BY <3>2 DEF p
  <2> QED  BY <2>2, <2>3, <2>4
<1>5. /\ s.at = "fin" /\ s.client = cl /\ s.log = ls /\ s.rseq = 0 /\ s.sent = 0
      /\ s.rejected = FALSE /\ s.master = Master(PreMasterOf[s.cert][e], cl, s.random)
  <2>1. Stage(s.at, 3) /\ 3 >= 2
    BY <1>1 DEF ServerAt
  <2>2. s.at = "fin"
    BY <2>1, StageIs
  <2> QED  BY <1>1, <2>1, <2>2 DEF ServerAt
<1>6. /\ h.server = x /\ h.cert = k /\ KeyLen[k] # 0
      /\ h.master = Master(PreMaster[cl], cl, x) /\ e # << >>
      /\ Fed(h.hash, Log(cl, x, k, req, e, 4), 0)
  <2>1. 4 >= 2
    OBVIOUS
  <2> QED  BY <1>1, <2>1 DEF Answers
<1>7. /\ r.ct = Handshake /\ r.data = <<FinishedMsg(h.master, "client_finished", Sha(l))>>
      /\ ServerAccepts(h.master, 0, r)
  <2>1. 1 \in 1 .. 4 - 3 /\ 3 + 1 = 4
    OBVIOUS
  <2>2. AnswerIs(4, r, e, h.master, l)
    BY <1>1, <1>4, <2>1
  <2> QED  BY ONLY <2>2 DEF AnswerIs
<1>8. l \in Seq(Nat) /\ ls \in Seq(Nat)
  <2>1. 3 \in 0 .. 4
    OBVIOUS
  <2> HIDE DEF e, cl
  <2>2. \A y \in Nat, i \in Nat, j \in 0 .. 4 : Log(cl, y, i, req, e, j) \in Seq(Nat)
    BY <1>3, LogIs, Zenon
  <2> QED  BY <1>3, <2>1, <2>2
<1> HIDE DEF r
<1>9. \/ /\ ServerAccepts(s.master, s.rseq, r) /\ h.master = s.master /\ Sha(l) = Sha(s.log)
         /\ SamePeer(s, t) /\ t.at = "open"
         /\ t.log = s.log \o MsgBytes(Msg(Finished, << >>))
         /\ t.master = s.master /\ t.rseq = 1 /\ t.wseq = 1 /\ t.rejected = s.rejected
      \/ /\ ~ (ServerAccepts(s.master, s.rseq, r) /\ h.master = s.master /\ Sha(l) = Sha(s.log))
         /\ SamePeer(s, t) /\ t.at = "closed" /\ t.rejected = TRUE
  <2> DEFINE sl == Sha(l)
  <2>1. t = After(s, r) /\ r.data = <<FinishedMsg(h.master, "client_finished", sl)>>
    BY <1>7 DEF r
  <2> HIDE DEF sl, l, ls, e, cl
  <2>2. IsServer(s)
    OBVIOUS
  <2> QED  BY <1>5, <1>7, <2>1, <2>2, AfterFinished DEF sl
<1> HIDE DEF l, ls
<1>10. ASSUME d = FALSE
       PROVE  ServerAccepts(s.master, s.rseq, r) /\ h.master = s.master /\ Sha(l) = Sha(s.log)
  <2>1. x = s.random /\ k = s.cert
    BY <1>1, <1>10 DEF Untouched
  <2>2. PreMasterOf[k][e] = PreMaster[cl]
    <3>1. cl \in 1 .. MaxConn /\ k \in Served[f]
      BY <1>3, <2>1
    <3> QED  BY <1>6, <3>1, KeyFacts
  <2>3. h.master = s.master
    BY <1>5, <1>6, <2>1, <2>2
  <2>4. l = s.log
    BY <1>5, <2>1, SMTT(40) DEF l, ls
  <2> QED  BY <1>5, <1>7, <2>3, <2>4
<1>11. CASE ServerAccepts(s.master, s.rseq, r) /\ h.master = s.master /\ Sha(l) = Sha(s.log)
  <2>1. x = s.random /\ k = s.cert
    <3>1. l = s.log
      <4>1. s.log \in Seq(Nat)
        BY <1>5, <1>8
      <4> QED  BY <1>8, <1>11, <4>1, ShaInjective
    <3>2. Log(cl, x, k, req, e, 3) = Log(cl, s.random, s.cert, req, e, 3)
      BY <1>5, <3>1 DEF l, ls
    <3> HIDE DEF e, cl
    <3>3. /\ cl \in Nat /\ x \in Nat /\ k \in Nat /\ req \in BOOLEAN /\ e \in Seq(Nat)
          /\ s.random \in Nat /\ s.cert \in Nat
      BY <1>3
    <3>4. PICK y, i : y = s.random /\ i = s.cert
      OBVIOUS
    <3>5. /\ cl \in Nat /\ x \in Nat /\ k \in Nat /\ req \in BOOLEAN /\ e \in Seq(Nat)
          /\ y \in Nat /\ i \in Nat /\ Log(cl, x, k, req, e, 3) = Log(cl, y, i, req, e, 3)
      BY ONLY <3>2, <3>3, <3>4
    <3>6. x = y /\ k = i
      BY ONLY <3>5, SameLog, SMTT(40)
    <3> QED  BY <3>4, <3>6
  <2>2. /\ SamePeer(s, t) /\ t.at = "open"
        /\ t.log = s.log \o MsgBytes(Msg(Finished, << >>))
        /\ t.master = s.master /\ t.rseq = 1 /\ t.wseq = 1 /\ t.rejected = s.rejected
    BY <1>9, <1>11
  <2>3. t.sent = 0
    BY <1>5, <2>2 DEF SamePeer
  <2>4. Answers(h, c, s.random, s.cert, req, 4)
    BY <1>1, <2>1
  <2>5. Sha(t.log) = sha256_final(h.hash)
    <3>1. t.log = Log(cl, x, k, req, e, 4)
      <4>1. s.log = Log2(cl, x, k, req, e)
        <5>1. s.log = Log(cl, x, k, req, e, 3)
          BY <1>5, <2>1 DEF ls
        <5> QED  BY ONLY <5>1 DEF Log
      <4>2. Log(cl, x, k, req, e, 4) = Log2(cl, x, k, req, e) \o MsgBytes(Msg(Finished, << >>))
        BY ONLY DEF Log, Log4
      <4>3. t.log = s.log \o MsgBytes(Msg(Finished, << >>))
        BY <2>2
      <4> QED  BY ONLY <4>1, <4>2, <4>3, Zenon
    <3>2. sha256_final(h.hash) = Sha(Log(cl, x, k, req, e, 4))
      BY <1>6, Sha256IsSha
    <3> QED  BY ONLY <3>1, <3>2, Zenon
  <2> QED  BY <1>1, <1>3, <1>4, <1>5, <1>11, <2>1, <2>2, <2>3, <2>4, <2>5 DEF LastHeard
<1>12. CASE ~ (ServerAccepts(s.master, s.rseq, r) /\ h.master = s.master /\ Sha(l) = Sha(s.log))
  <2>1. SamePeer(s, t) /\ t.at = "closed" /\ t.rejected = TRUE
    BY <1>9, <1>12
  <2>2. d = TRUE
    BY <1>10, <1>12
  <2> QED  BY <1>1, <1>4, <1>5, <2>1, <2>2 DEF LastHeard
<1> QED  BY <1>11, <1>12

\* What the server is after r, and its answer.
Turned(t) == IF t.at = "open" THEN [t EXCEPT !.log = << >>] ELSE t
Replied(s, t) ==
  <<Plain(ChangeCipher, <<1>>),
    ServerRecord(t.master, 0, Handshake, <<FinishedMsg(t.master, "server_finished", Sha(t.log))>>)>>

LEMMA TurnedIs ==
  ASSUME NEW t, IsServer(t)
  PROVE  LET u == Turned(t)
         IN /\ IsServer(u) /\ u.at = t.at /\ u.cert = t.cert /\ u.random = t.random
            /\ u.client = t.client /\ u.master = t.master /\ u.rseq = t.rseq /\ u.wseq = t.wseq
            /\ u.sent = t.sent /\ u.got = t.got /\ u.rejected = t.rejected
            /\ t.at # "open" => u = t
BY DEF Turned, IsServer

ReplyParts(s, t) ==
  /\ s.at = "fin" /\ t.at = "open" => Reply(s, t) = Replied(s, t)
  /\ ~ (s.at = "fin" /\ t.at = "open") /\ t.rejected = TRUE =>
       Reply(s, t) = <<Plain(Alert, <<2, 20>>)>>
  /\ ~ (s.at = "fin" /\ t.at = "open") /\ t.rejected = FALSE => Reply(s, t) = << >>

LEMMA ReplyIs == \A s, t : ReplyParts(s, t)
<1> TAKE s, t
<1>1. CASE s.at = "fin" /\ t.at = "open"
  <2>1. Reply(s, t) = Replied(s, t)
    BY <1>1, Zenon DEF Reply, Replied, ServerVerify, FinishedMsg
  <2> QED  BY <1>1, <2>1 DEF ReplyParts
<1>2. CASE ~ (s.at = "fin" /\ t.at = "open")
  <2>1. Reply(s, t) = IF t.rejected THEN <<Plain(Alert, <<2, 20>>)>> ELSE << >>
    BY <1>2 DEF Reply
  <2> QED  BY <1>2, <2>1 DEF ReplyParts
<1> QED  BY <1>1, <1>2

LEMMA ReplyShape ==
  ASSUME NEW s, NEW t, t.rejected \in BOOLEAN
  PROVE  /\ IsSeq(Reply(s, t)) /\ \A i \in 1 .. Len(Reply(s, t)) : IsRecord(Reply(s, t)[i])
<1>1. \A ct, data : IsRecord(Plain(ct, data))
  BY DEF IsRecord, Plain
<1>2. \A m, n, ct, data : IsRecord(ServerRecord(m, n, ct, data))
  BY DEF IsRecord, ServerRecord
<1>3. ASSUME NEW a, NEW b, IsRecord(a), IsRecord(b)
      PROVE  IsSeq(<<a, b>>) /\ \A i \in 1 .. Len(<<a, b>>) : IsRecord(<<a, b>>[i])
  <2> DEFINE q == <<a, b>>
  <2>1. IsSeq(q) /\ Len(q) = 2 /\ q[1] = a /\ q[2] = b
    BY SmallSeqs
  <2> HIDE DEF q
  <2>2. \A i \in 1 .. Len(q) : i = 1 \/ i = 2
    BY <2>1
  <2>3. IsSeq(q) /\ \A i \in 1 .. Len(q) : IsRecord(q[i])
    BY <1>3, <2>1, <2>2
  <2> QED  BY <2>3 DEF q
<1>4. ASSUME NEW a, IsRecord(a)
      PROVE  IsSeq(<<a>>) /\ \A i \in 1 .. Len(<<a>>) : IsRecord(<<a>>[i])
  <2> DEFINE q == <<a>>
  <2>1. IsSeq(q) /\ Len(q) = 1 /\ q[1] = a
    BY SmallSeqs
  <2> HIDE DEF q
  <2>2. \A i \in 1 .. Len(q) : i = 1
    BY <2>1
  <2>3. IsSeq(q) /\ \A i \in 1 .. Len(q) : IsRecord(q[i])
    BY <1>4, <2>1, <2>2
  <2> QED  BY <2>3 DEF q
<1>5. CASE s.at = "fin" /\ t.at = "open"
  <2> DEFINE a == Plain(ChangeCipher, <<1>>)
             b == ServerRecord(t.master, 0, Handshake,
                               <<FinishedMsg(t.master, "server_finished", Sha(t.log))>>)
  <2>1. Reply(s, t) = <<a, b>>
    BY <1>5, ReplyIs, Zenon DEF Replied, ReplyParts
  <2>2. IsRecord(a) /\ IsRecord(b)
    BY <1>1, <1>2
  <2> HIDE DEF a, b
  <2> QED  BY <1>3, <2>1, <2>2
<1>6. CASE ~ (s.at = "fin" /\ t.at = "open") /\ t.rejected = TRUE
  <2>1. Reply(s, t) = <<Plain(Alert, <<2, 20>>)>>
    BY <1>6, ReplyIs DEF ReplyParts
  <2>2. IsRecord(Plain(Alert, <<2, 20>>))
    BY <1>1
  <2> QED  BY <1>4, <2>1, <2>2
<1>7. CASE ~ (s.at = "fin" /\ t.at = "open") /\ t.rejected = FALSE
  <2>1. Reply(s, t) = << >>
    BY <1>7, ReplyIs DEF ReplyParts
  <2> QED  BY <2>1, SmallSeqs
<1> QED  BY <1>5, <1>6, <1>7

\* The server has taken what was at the head of up.
Heeded(h, c, s, t, up, down, d, f) ==
  LET u == Turned(t)
      q == down \o Reply(s, t)
  IN /\ IsServer(u) /\ u.rejected \in BOOLEAN /\ u.sent = s.sent /\ u.got = s.got
     /\ u.rejected = TRUE => d = TRUE
     /\ Answering(h, c, u, Tail(up), q, d, f) \/ Opened(h, c, u, Tail(up), q, d, f) \/ Dead(u, q)

LEMMA HeardRejected ==
  ASSUME NEW h, NEW c, NEW s, NEW up, NEW f, NEW d \in BOOLEAN, d = TRUE, NEW t, SamePeer(s, t),
         t.at = "closed", t.rejected = TRUE
  PROVE  Heeded(h, c, s, t, up, << >>, d, f)
<1> DEFINE u == Turned(t)
           a == Plain(Alert, <<2, 20>>)
           q == << >> \o Reply(s, t)
<1>1. IsServer(t) /\ t.sent = s.sent /\ t.got = s.got
  BY DEF SamePeer
<1>2. u = t
  BY <1>1, TurnedIs
<1>3. Reply(s, t) = <<a>>
  BY ReplyIs DEF ReplyParts
<1>4. q = <<a>>
  BY <1>3
<1>5. a.ct = Alert
  BY DEF Plain
<1> HIDE DEF u, q, a
<1>6. Dead(u, q)
  <2>1. Len(q) = 1 /\ q[1] = a
    BY <1>4, SmallSeqs
  <2>2. u.at = "closed"
    BY <1>2
  <2>3. \A i \in 1 .. Len(q) : q[i].ct = Alert
    BY <1>5, <2>1
  <2> QED  BY <2>2, <2>3 DEF Dead
<1>7. u.rejected = TRUE /\ IsServer(u) /\ u.sent = s.sent /\ u.got = s.got
  BY <1>1, <1>2
<1> QED  BY <1>6, <1>7 DEF Heeded, u, q

LEMMA HeardLast ==
  ASSUME NEW h, h.got_ccs = FALSE, NEW c, NEW s, s.at = "fin", NEW up, Tail(up) = << >>, NEW d,
         NEW f, NEW req \in BOOLEAN, NEW t, SamePeer(s, t), s.random \in Nat, s.cert \in Served[f],
         Answers(h, c, s.random, s.cert, req, 4),
         t.at = "open", t.master = h.master, t.rseq = 1, t.wseq = 1,
         t.rejected = FALSE, t.sent = 0, Sha(t.log) = sha256_final(h.hash)
  PROVE  Heeded(h, c, s, t, up, << >>, d, f)
<1> DEFINE u == Turned(t)
           a == Plain(ChangeCipher, <<1>>)
           b == ServerRecord(h.master, 0, Handshake,
                             <<FinishedMsg(h.master, "server_finished", Sha(t.log))>>)
           q == << >> \o Reply(s, t)
<1>1. /\ IsServer(t) /\ t.cert = s.cert /\ t.random = s.random /\ t.got = s.got /\ t.sent = s.sent
  BY DEF SamePeer
<1>2. /\ IsServer(u) /\ u.at = "open" /\ u.cert = s.cert /\ u.random = s.random
      /\ u.master = h.master /\ u.rseq = 1 /\ u.wseq = 1
      /\ u.sent = 0 /\ u.got = s.got /\ u.rejected = FALSE
  BY <1>1, TurnedIs
<1>3. q = <<a, b>>
  <2>1. Reply(s, t) = Replied(s, t)
    BY ReplyIs DEF ReplyParts
  <2>2. Replied(s, t) = <<a, b>>
    BY Zenon DEF Replied
  <2>3. << >> \o <<a, b>> = <<a, b>>
    OBVIOUS
  <2> QED  BY <2>1, <2>2, <2>3
<1> HIDE DEF u
<1>4. Started(h, u, <<b>>, d)
  <2> DEFINE hash == Sha(t.log)
  <2>1. hash = sha256_final(h.hash)
        /\ b = ServerRecord(h.master, 0, Handshake,
                             <<FinishedMsg(h.master, "server_finished", hash)>>)
    OBVIOUS
  <2> HIDE DEF hash, b
  <2> QED  BY ONLY <1>2, <2>1, FinishedStarts
<1> HIDE DEF a, b, q
<1>5. q # << >> /\ Head(q) = a /\ Tail(q) = <<b>>
  BY ONLY <1>3
<1>6. OpenedAt(h, c, u, Tail(up), f, req)
  BY <1>2 DEF OpenedAt
<1>7. Opened(h, c, u, Tail(up), q, d, f)
  <2>1. Started(h, u, Tail(q), d) /\ Head(q) = Plain(ChangeCipher, <<1>>)
    BY <1>4, <1>5 DEF a
  <2> QED  BY <1>5, <1>6, <2>1 DEF Opened
<1>8. u.rejected \in BOOLEAN /\ u.rejected # TRUE /\ u.sent = s.sent
  BY <1>1, <1>2
<1> QED  BY <1>2, <1>7, <1>8 DEF Heeded, u, q

LEMMA HeardMore ==
  ASSUME NEW h, NEW c, NEW s, s.at # "open", NEW up, IsSeq(up), NEW down, NEW d, NEW f,
         NEW x \in {s.random, s.random + 1}, NEW k \in DOMAIN Certs, NEW req \in BOOLEAN,
         NEW j \in 0 .. 4, NEW i \in 0 .. 2, AnsweringAt(h, c, s, up, down, d, f, x, k, req, j, i),
         i < j,
         NEW t, SamePeer(s, t), t.at # "open", t.rejected = FALSE,
         ServerAt(t, f, h.client, req, Encrypted[k][h.client], i + 1)
  PROVE  Heeded(h, c, s, t, up, down, d, f)
<1>1. /\ IsServer(t) /\ t.cert = s.cert /\ t.random = s.random /\ t.got = s.got /\ t.sent = s.sent
  BY DEF SamePeer
<1>2. Turned(t) = t
  BY <1>1, TurnedIs
<1>3. down \o Reply(s, t) = down
  <2>1. Reply(s, t) = << >>
    BY ReplyIs DEF ReplyParts
  <2>2. down = << >>
    BY DEF AnsweringAt
  <2> QED  BY <2>1, <2>2
<1>4. AnsweringAt(h, c, t, Tail(up), down, d, f, x, k, req, j, i + 1)
  <2>1. i \in 0 .. 3
    OBVIOUS
  <2> QED  BY <1>1, <2>1, AnswerTaken
<1>5. Answering(h, c, t, Tail(up), down, d, f)
  <2>1. x \in {t.random, t.random + 1} /\ i + 1 \in 0 .. 3
    BY <1>1
  <2> DEFINE n == i + 1
  <2> HIDE DEF n
  <2>2. AnsweringAt(h, c, t, Tail(up), down, d, f, x, k, req, j, n) /\ n \in 0 .. 3
    BY <1>4, <2>1 DEF n
  <2> QED  BY <2>1, <2>2, Zenon DEF Answering
<1>6. t.rejected \in BOOLEAN /\ t.rejected # TRUE
  OBVIOUS
<1> QED  BY <1>1, <1>2, <1>3, <1>5, <1>6 DEF Heeded

LEMMA ServerHears ==
  ASSUME NEW h, h.client \in 1 .. MaxConn, NEW c, NEW s, IsServer(s), NEW up, IsSeq(up), up # << >>,
         NEW down, NEW d \in BOOLEAN, NEW f \in Fds, Answering(h, c, s, up, down, d, f),
         NEW t, t = After(s, Head(up))
  PROVE  Heeded(h, c, s, t, up, down, d, f)
<1>1. PICK x \in {s.random, s.random + 1}, k \in DOMAIN Certs, req \in BOOLEAN, j \in 0 .. 4,
           i \in 0 .. 3 :
        AnsweringAt(h, c, s, up, down, d, f, x, k, req, j, i)
  BY Zenon DEF Answering
<1> DEFINE e == Encrypted[k][h.client]
           log == Log(h.client, x, k, req, e, 3)
<1>2. /\ Answers(h, c, x, k, req, j) /\ ServerAt(s, f, h.client, req, e, i)
      /\ i <= j /\ down = << >> /\ Len(up) = j - i
      /\ \A n \in 1 .. j - i : AnswerIs(i + n, up[n], e, h.master, log)
      /\ Untouched(x, k, s, d)
  BY <1>1 DEF AnsweringAt
<1>3. AnswerTyped(h, c, s, f, x, k, req, j)
  BY <1>1, AnswerTypes
<1>4. i < j /\ 1 \in 1 .. j - i /\ Head(up) = up[1]
  <2>1. Len(up) # 0 /\ Head(up) = up[1]
    BY NoneIs
  <2> QED  BY <1>2, <2>1
<1>5. AnswerIs(i + 1, Head(up), e, h.master, log)
  BY <1>2, <1>4
<1> HIDE DEF log
<1>6. CASE i = 3
  <2>1. j = 4
    BY <1>4, <1>6
  <2>2. AnsweringAt(h, c, s, up, down, d, f, x, k, req, 4, 3)
    BY <1>1, <1>6, <2>1
  <2>3. /\ s.at = "fin" /\ SamePeer(s, t) /\ down = << >> /\ Tail(up) = << >>
        /\ \/ /\ x = s.random /\ k = s.cert /\ s.random \in Nat /\ s.cert \in Served[f]
              /\ Answers(h, c, s.random, s.cert, req, 4) /\ h.got_ccs = FALSE
              /\ t.at = "open" /\ t.master = h.master /\ t.rseq = 1 /\ t.wseq = 1
              /\ t.rejected = FALSE /\ t.sent = 0 /\ Sha(t.log) = sha256_final(h.hash)
           \/ t.at = "closed" /\ t.rejected = TRUE /\ d = TRUE
    <3>1. LastHeard(h, c, s, up, down, d, f, x, k, req, t)
      BY <2>2, LastAnswer
    <3> QED  BY <3>1 DEF LastHeard
  <2>4. CASE t.at = "closed" /\ t.rejected = TRUE /\ d = TRUE
    BY <2>3, <2>4, HeardRejected
  <2>5. CASE ~ (t.at = "closed" /\ t.rejected = TRUE /\ d = TRUE)
    <3>1. Heeded(h, c, s, t, up, << >>, d, f)
      BY <2>3, <2>5, HeardLast
    <3> QED  BY <2>3, <3>1
  <2> QED  BY <2>4, <2>5
<1>7. CASE i # 3
  <2>1. i \in 0 .. 2
    BY <1>7
  <2>2. /\ SamePeer(s, t) /\ t.at # "open" /\ s.at # "open"
        /\ \/ t.rejected = FALSE /\ ServerAt(t, f, h.client, req, e, i + 1)
           \/ /\ i = 1 /\ PreMasterOf[s.cert][e] = << >> /\ t.at = "closed" /\ t.rejected = TRUE
    <3>1. Stepped(s, t, f, h.client, req, e, i)
      BY <1>2, <1>5, <2>1, ServerStep
    <3> QED  BY <3>1 DEF Stepped
  <2>3. CASE t.rejected = FALSE /\ ServerAt(t, f, h.client, req, e, i + 1)
    BY <1>1, <1>4, <2>1, <2>2, <2>3, HeardMore
  <2>4. CASE i = 1 /\ PreMasterOf[s.cert][e] = << >> /\ t.at = "closed" /\ t.rejected = TRUE
    <3>1. ASSUME d = FALSE PROVE FALSE
      <4>1. k = s.cert /\ k \in Served[f]
        BY <1>2, <1>3, <3>1 DEF Untouched, AnswerTyped
      <4>2. j >= 2
        BY <1>4, <2>4
      <4>3. KeyLen[k] # 0 /\ e # << >>
        BY <1>2, <4>2 DEF Answers
      <4>4. PreMasterOf[k][e] # << >>
        BY <4>1, <4>3, KeyFacts
      <4> QED  BY <2>4, <4>1, <4>4
    <3>2. d = TRUE
      BY <3>1
    <3>3. Heeded(h, c, s, t, up, << >>, d, f)
      BY <2>2, <2>4, <3>2, HeardRejected
    <3> QED  BY <1>2, <3>3
  <2> QED  BY <2>2, <2>3, <2>4
<1> QED  BY <1>6, <1>7

----------------------------------------------------------------------------
(***************************************************************************)
(* The server after the handshake.                                         *)
(***************************************************************************)
\* What records of an open session leave at the server.
Steady(s, t) ==
  /\ IsServer(t) /\ t.cert = s.cert /\ t.master = s.master /\ t.wseq = s.wseq /\ t.sent = s.sent
  /\ t.rejected = s.rejected

LEMMA OutgoingIs ==
  ASSUME NEW s, NEW up, NEW sent, NEW ended, Outgoing(s, up, sent, ended)
  PROVE  Loads(up)
<1>1. ASSUME NEW i \in 1 .. Len(up) PROVE Payload(up[i]) \in Seq(Nat)
  <2>1. (up[i].ct = Application /\ up[i].data \in Seq(Nat)) \/ up[i].ct = Alert
    BY DEF Outgoing
  <2>2. << >> \in Seq(Nat)
    OBVIOUS
  <2> QED  BY <2>1, <2>2, CodesDiffer DEF Payload
<1> QED  BY <1>1 DEF Loads

\* An open server after a record of the session.
Advanced(s, r, t) ==
  /\ Steady(s, t) /\ t.rseq = s.rseq + 1
  /\ r.ct = Application => t.at = "open" /\ t.got = s.got \o r.data
  /\ r.ct = Alert => t.at = "closed" /\ t.got = s.got

LEMMA AfterOpen ==
  ASSUME NEW s, IsServer(s), s.at = "open", NEW r, ServerAccepts(s.master, s.rseq, r),
         r.ct \in {Application, Alert}, NEW t, t = After(s, r)
  PROVE  Advanced(s, r, t)
<1>1. CASE r.ct = Application
  <2> DEFINE z == s.got \o r.data
             g == [s EXCEPT !.rseq = @ + 1, !.got = z]
  <2>1. After(s, r) = [s EXCEPT !.rseq = @ + 1, !.got = @ \o r.data]
    BY <1>1, CodesDiffer DEF After
  <2>2. [s EXCEPT !.rseq = @ + 1, !.got = @ \o r.data] = g
    BY DEF IsServer
  <2>3. t = g
    BY <2>1, <2>2
  <2> HIDE DEF z
  <2>4. Steady(s, g) /\ g.rseq = s.rseq + 1 /\ g.at = "open" /\ g.got = z
    BY DEF Steady, IsServer
  <2> HIDE DEF g
  <2>5. Steady(s, t) /\ t.rseq = s.rseq + 1 /\ t.at = "open" /\ t.got = s.got \o r.data
    BY ONLY <2>3, <2>4, Zenon DEF z
  <2> QED  BY <1>1, <2>5, CodesDiffer DEF Advanced
<1>2. CASE r.ct = Alert
  <2> DEFINE g == [s EXCEPT !.rseq = @ + 1, !.at = "closed"]
  <2>1. After(s, r) = g
    BY <1>2, CodesDiffer DEF After
  <2>2. Steady(s, g) /\ g.rseq = s.rseq + 1 /\ g.at = "closed" /\ g.got = s.got
    BY DEF Steady, IsServer
  <2> HIDE DEF g
  <2>3. Steady(s, t) /\ t.rseq = s.rseq + 1 /\ t.at = "closed" /\ t.got = s.got
    BY <2>1, <2>2
  <2> QED  BY <1>2, <2>3, CodesDiffer DEF Advanced
<1> QED  BY <1>1, <1>2

\* The server has taken the record at the head of up.
OpenTaken(s, t, up, sent, ended) ==
  LET u == Turned(t)
  IN /\ Steady(s, u) /\ u.rseq = s.rseq + 1 /\ Reply(s, t) = << >> /\ u.got \in Seq(Nat)
     /\ Outgoing(u, Tail(up), sent, ended) /\ u.got = Bytes(0, Len(u.got))
     /\ Len(Tail(up)) = Len(up) - 1

LEMMA OpenHears ==
  ASSUME NEW s, IsServer(s), s.at # "closed", s.got \in Seq(Nat), s.rejected = FALSE,
         NEW up, IsSeq(up), up # << >>, NEW sent \in Nat, NEW ended, Outgoing(s, up, sent, ended),
         NEW t, t = After(s, Head(up))
  PROVE  OpenTaken(s, t, up, sent, ended)
<1> DEFINE r == Head(up)
           q == Tail(up)
           u == Turned(t)
<1>1. /\ s.at = "open" /\ s.rseq \in Nat
      /\ \A i \in 1 .. Len(up) :
           /\ ServerAccepts(s.master, s.rseq + i - 1, up[i])
           /\ \/ up[i].ct = Application /\ up[i].data \in Seq(Nat)
              \/ up[i].ct = Alert /\ i = Len(up) /\ ended
      /\ s.got \o Carried(up) = Bytes(0, sent)
  BY DEF Outgoing
<1>2. /\ IsSeq(q) /\ Len(up) \in Nat /\ Len(up) >= 1 /\ Len(q) = Len(up) - 1 /\ r = up[1]
      /\ \A i \in 1 .. Len(up) - 1 : q[i] = up[i + 1]
  BY TailIs
<1> HIDE DEF r, q
<1>3. /\ ServerAccepts(s.master, s.rseq, r)
      /\ \/ r.ct = Application /\ r.data \in Seq(Nat)
         \/ r.ct = Alert /\ Len(up) = 1 /\ ended
  <2>1. 1 \in 1 .. Len(up) /\ s.rseq + 1 - 1 = s.rseq
    BY <1>1, <1>2
  <2> QED  BY <1>1, <1>2, <2>1
<1>4. /\ Steady(s, t) /\ t.rseq = s.rseq + 1
      /\ r.ct = Application => t.at = "open" /\ t.got = s.got \o r.data
      /\ r.ct = Alert => t.at = "closed" /\ t.got = s.got
  <2>1. t = After(s, r) /\ r.ct \in {Application, Alert} /\ IsServer(s)
    BY <1>3 DEF r
  <2>2. s.at = "open" /\ ServerAccepts(s.master, s.rseq, r)
    BY <1>1, <1>3
  <2>3. Advanced(s, r, t)
    BY ONLY <2>1, <2>2, AfterOpen
  <2> QED  BY <2>3 DEF Advanced
<1>5. IsServer(t) /\ t.rejected = FALSE
  BY <1>4 DEF Steady
<1>6. /\ Steady(s, u) /\ u.at = t.at /\ u.rseq = s.rseq + 1 /\ u.got = t.got /\ u.master = s.master
  BY <1>4, <1>5, TurnedIs DEF Steady
<1> HIDE DEF u
<1>7. Reply(s, t) = << >>
  <2>1. t.rejected = FALSE /\ ~ (s.at = "fin" /\ t.at = "open")
    BY <1>1, <1>5
  <2> QED  BY <2>1, ReplyIs DEF ReplyParts
<1>8. \A i \in 1 .. Len(q) :
        /\ ServerAccepts(u.master, u.rseq + i - 1, q[i])
        /\ \/ q[i].ct = Application /\ q[i].data \in Seq(Nat)
           \/ q[i].ct = Alert /\ i = Len(q) /\ ended
  <2> SUFFICES ASSUME NEW i \in 1 .. Len(q)
               PROVE  /\ ServerAccepts(u.master, u.rseq + i - 1, q[i])
                      /\ \/ q[i].ct = Application /\ q[i].data \in Seq(Nat)
                         \/ q[i].ct = Alert /\ i = Len(q) /\ ended
    OBVIOUS
  <2>1. /\ i + 1 \in 1 .. Len(up) /\ q[i] = up[i + 1] /\ s.rseq + (i + 1) - 1 = u.rseq + i - 1
        /\ (i + 1 = Len(up) => i = Len(q))
    BY <1>1, <1>2, <1>6
  <2> QED  BY <1>1, <1>6, <2>1
<1>9. Loads(up)
  BY OutgoingIs
<1>10. /\ Carried(up) = Payload(r) \o Carried(q) /\ Payload(r) \in Seq(Nat)
       /\ Carried(q) \in Seq(Nat)
  BY <1>9, CarriedTail DEF r, q
<1>11. t.got = s.got \o Payload(r)
  <2>1. CASE r.ct = Application
    BY <1>4, <2>1 DEF Payload
  <2>2. CASE r.ct = Alert
    <3>1. Payload(r) = << >> /\ t.got = s.got
      BY <1>4, <2>2, CodesDiffer DEF Payload
    <3> QED  BY <3>1
  <2> QED  BY <1>3, <2>1, <2>2
<1>12. u.got \o Carried(q) = Bytes(0, sent) /\ u.got \in Seq(Nat)
  <2> DEFINE a == Payload(r)
             b == Carried(q)
  <2> HIDE DEF a, b
  <2>1. a \in Seq(Nat) /\ b \in Seq(Nat) /\ s.got \in Seq(Nat)
    BY <1>10 DEF a, b
  <2>2. (s.got \o a) \o b = s.got \o (a \o b)
    BY ONLY <2>1, Associates
  <2>3. s.got \o (a \o b) = Bytes(0, sent)
    BY <1>1, <1>10 DEF a, b
  <2>4. u.got = s.got \o a
    BY <1>6, <1>11 DEF a
  <2>5. s.got \o a \in Seq(Nat)
    BY ONLY <2>1
  <2> QED  BY <2>2, <2>3, <2>4, <2>5 DEF b
<1>13. u.got = Bytes(0, Len(u.got))
  BY <1>10, <1>12, BytesBegin
<1>14. u.at \in {"open", "closed"} /\ u.rseq \in Nat
  <2>1. u.rseq \in Nat
    BY <1>1, <1>6
  <2>2. t.at \in {"open", "closed"}
    BY <1>3, <1>4
  <2> QED  BY <1>6, <2>1, <2>2
<1>15. Outgoing(u, q, sent, ended)
  BY <1>8, <1>12, <1>14 DEF Outgoing
<1> QED  BY <1>2, <1>6, <1>7, <1>12, <1>13, <1>15 DEF OpenTaken, q, u

\* A client that has failed may still have sent its empty Certificate.
RefusedTaken(s, t, up) ==
  LET u == Turned(t)
  IN /\ IsServer(u) /\ u.rejected = s.rejected /\ u.sent = s.sent /\ u.got = s.got
     /\ u.rejected \in BOOLEAN /\ Refused(u, Tail(up))

LEMMA RefusedHears ==
  ASSUME NEW s, IsServer(s), s.at # "closed", s.rejected \in BOOLEAN, NEW up, up # << >>,
         Refused(s, up),
         NEW t, t = After(s, Head(up))
  PROVE  RefusedTaken(s, t, up)
<1>1. s.at = "cert" /\ up = <<Plain(Handshake, <<NoCert>>)>>
  BY DEF Refused
<1>2. Head(up) = Plain(Handshake, <<NoCert>>) /\ Tail(up) = << >>
  BY <1>1
<1>3. t = After(s, Plain(Handshake, <<NoCert>>))
  BY <1>2
<1>4. /\ SamePeer(s, t) /\ t.at = "key" /\ t.rejected = s.rejected
  BY <1>1, <1>3, AfterCert
<1>5. IsServer(t) /\ Turned(t) = t /\ t.sent = s.sent /\ t.got = s.got
  BY <1>4, TurnedIs DEF SamePeer
<1> QED  BY <1>2, <1>4, <1>5 DEF Refused, RefusedTaken

----------------------------------------------------------------------------
(***************************************************************************)
(* An open server sends application data, asks for another negotiation or  *)
(* closes the session.                                                     *)
(***************************************************************************)
\* What it keeps, and what record r adds.
Stays(s, t) ==
  /\ IsServer(t) /\ t.cert = s.cert /\ t.random = s.random /\ t.master = s.master
  /\ t.rseq = s.rseq /\ t.got = s.got /\ t.rejected = s.rejected /\ t.sent \in Nat
  /\ t.at \in {"open", "closed"}
Spoken(s, t, r, d) ==
  /\ Stays(s, t) /\ IsRecord(r) /\ Payload(r) \in Seq(Nat)
  /\ \/ t.wseq = s.wseq + 1 /\ Numbered(s.master, s.wseq, r, d)
     \/ t.wseq = s.wseq /\ t.at = "closed" /\ r.ct = Alert
  /\ Bytes(0, s.sent) \o Payload(r) = Bytes(0, t.sent)
Silent(s, t) == Stays(s, t) /\ t.wseq = s.wseq /\ t.sent = s.sent

LEMMA DataSpoken ==
  ASSUME NEW s, IsServer(s), s.at = "open", s.sent \in Nat, NEW n \in Nat, NEW d,
         NEW t, t = [s EXCEPT !.sent = @ + n, !.wseq = @ + 1]
  PROVE  Spoken(s, t, ServerRecord(s.master, s.wseq, Application, Bytes(s.sent, n)), d)
<1> DEFINE b == Bytes(s.sent, n)
           r == ServerRecord(s.master, s.wseq, Application, b)
<1>1. Stays(s, t) /\ t.wseq = s.wseq + 1 /\ t.sent = s.sent + n
  BY DEF Stays, IsServer
<1>2. b \in Seq(Nat) /\ Len(b) = n
  BY BytesAre
<1>3. Bytes(0, s.sent) \o b = Bytes(0, s.sent + n)
  BY BytesJoin
<1> HIDE DEF b
<1>4. IsContent(Application, b)
  <2>1. Application \in Nat /\ Application # Handshake
    BY CodesDiffer
  <2>2. Flat(Application, b) = b /\ DataLen(Application, b) = Len(b)
    BY <2>1 DEF Flat, DataLen
  <2>3. Len(b) \in Nat
    BY <1>2
  <2> QED  BY <1>2, <2>1, <2>2, <2>3 DEF IsContent
<1>5. Numbered(s.master, s.wseq, r, d) /\ r.ct = Application /\ r.data = b
  BY <1>4, ServerRecordNumbered
<1>6. IsRecord(r)
  BY DEF IsRecord, ServerRecord
<1> HIDE DEF r
<1>7. Payload(r) = b
  BY <1>5 DEF Payload
<1>8. Spoken(s, t, r, d)
  BY <1>1, <1>2, <1>3, <1>5, <1>6, <1>7 DEF Spoken
<1> QED  BY <1>8 DEF r, b

LEMMA AskSpoken ==
  ASSUME NEW s, IsServer(s), s.at = "open", s.sent \in Nat, NEW d,
         NEW t, t = [s EXCEPT !.wseq = @ + 1]
  PROVE  Spoken(s, t, ServerRecord(s.master, s.wseq, Handshake, <<Msg(0, << >>)>>), d)
<1> DEFINE m == Msg(0, << >>)
           b == <<m>>
           r == ServerRecord(s.master, s.wseq, Handshake, b)
<1>1. Stays(s, t) /\ t.wseq = s.wseq + 1 /\ t.sent = s.sent
  BY DEF Stays, IsServer
<1>2. m \in Messages /\ m.t = 0 /\ m.v = << >>
  <2>1. << >> \in Seq(Nat)
    OBVIOUS
  <2> QED  BY <2>1, MsgIs
<1>3. MsgBytes(m) \in Seq(Nat)
  BY <1>2, MessagesType
<1> HIDE DEF m
<1>4. Flat(Handshake, b) \in Seq(Nat)
  <2> DEFINE q == [i \in DOMAIN b |-> MsgBytes(b[i])]
  <2>1. b = <<m>> /\ DOMAIN b = 1 .. 1 /\ b[1] = m
    OBVIOUS
  <2> HIDE DEF b
  <2>2. q \in Seq(Seq(Nat))
    <3>1. q = [i \in 1 .. 1 |-> MsgBytes(b[i])]
      BY <2>1
    <3>2. \A i \in 1 .. 1 : MsgBytes(b[i]) \in Seq(Nat)
      BY <1>3, <2>1
    <3> QED  BY <3>1, <3>2
  <2>3. FlattenSeq(q) \in Seq(Nat)
    BY <2>2, FlattenType
  <2> QED  BY <2>3 DEF Flat
<1>5. IsContent(Handshake, b)
  <2>1. DataLen(Handshake, b) = 4
    <3>1. b[1].t # Finished
      BY <1>2 DEF Finished
    <3> QED  BY <3>1 DEF DataLen
  <2> QED  BY <1>4, <2>1, CodesDiffer DEF IsContent
<1> HIDE DEF b
<1>6. Numbered(s.master, s.wseq, r, d) /\ r.ct = Handshake
  BY <1>5, ServerRecordNumbered
<1>7. IsRecord(r)
  BY DEF IsRecord, ServerRecord
<1> HIDE DEF r
<1>8. Payload(r) = << >>
  BY <1>6, CodesDiffer DEF Payload
<1>9. Bytes(0, s.sent) \o << >> = Bytes(0, s.sent) /\ << >> \in Seq(Nat)
  <2>1. Bytes(0, s.sent) \in Seq(Nat)
    BY BytesAre
  <2> QED  BY <2>1
<1>10. Spoken(s, t, r, d)
  BY <1>1, <1>6, <1>7, <1>8, <1>9 DEF Spoken
<1> QED  BY <1>10 DEF r, b, m

LEMMA CloseSpoken ==
  ASSUME NEW s, IsServer(s), s.at = "open", s.sent \in Nat, NEW d,
         NEW t, t = [s EXCEPT !.at = "closed"]
  PROVE  /\ Silent(s, t)
         /\ Spoken(s, t, ServerRecord(s.master, s.wseq, Alert, <<1, 0>>), d)
<1> DEFINE r == ServerRecord(s.master, s.wseq, Alert, <<1, 0>>)
<1>1. Stays(s, t) /\ t.wseq = s.wseq /\ t.sent = s.sent /\ t.at = "closed"
  BY DEF Stays, IsServer
<1>2. IsRecord(r) /\ r.ct = Alert
  BY DEF IsRecord, ServerRecord
<1> HIDE DEF r
<1>3. Payload(r) = << >>
  BY <1>2, CodesDiffer DEF Payload
<1>4. Bytes(0, s.sent) \o << >> = Bytes(0, s.sent) /\ << >> \in Seq(Nat)
  <2>1. Bytes(0, s.sent) \in Seq(Nat)
    BY BytesAre
  <2> QED  BY <2>1
<1>5. Spoken(s, t, r, d)
  BY <1>1, <1>2, <1>3, <1>4 DEF Spoken
<1> QED  BY <1>1, <1>5 DEF Silent, r

LEMMA AppendTail ==
  ASSUME NEW q, IsSeq(q), q # << >>, NEW r
  PROVE  Head(Append(q, r)) = Head(q) /\ Tail(Append(q, r)) = Append(Tail(q), r)
<1> DEFINE a == Append(q, r)
           b == Tail(q)
<1>1. /\ IsSeq(a) /\ Len(a) = Len(q) + 1 /\ a # << >>
      /\ \A i \in 1 .. Len(q) : a[i] = q[i]
      /\ a[Len(q) + 1] = r
  BY AppendIs
<1>2. /\ IsSeq(b) /\ Len(q) \in Nat /\ Len(q) >= 1 /\ Len(b) = Len(q) - 1 /\ Head(q) = q[1]
      /\ \A i \in 1 .. Len(q) - 1 : b[i] = q[i + 1]
  BY TailIs
<1> HIDE DEF a, b
<1> DEFINE u == Tail(a)
           v == Append(b, r)
<1>3. /\ IsSeq(u) /\ Len(u) = Len(a) - 1 /\ Head(a) = a[1]
      /\ \A i \in 1 .. Len(a) - 1 : u[i] = a[i + 1]
  BY <1>1, TailIs
<1>4. /\ IsSeq(v) /\ Len(v) = Len(b) + 1 /\ v[Len(b) + 1] = r
      /\ \A i \in 1 .. Len(b) : v[i] = b[i]
  BY <1>2, AppendIs
<1> HIDE DEF u, v
<1>5. Head(a) = Head(q)
  BY <1>1, <1>2, <1>3
<1>6. u = v
  <2>1. Len(u) = Len(v)
    BY <1>1, <1>2, <1>3, <1>4
  <2>2. ASSUME NEW i \in 1 .. Len(u) PROVE u[i] = v[i]
    <3>1. u[i] = a[i + 1] /\ i \in 1 .. Len(q)
      BY <1>1, <1>2, <1>3
    <3>2. CASE i = Len(q)
      <4>1. u[i] = r /\ v[i] = r
        BY <1>1, <1>2, <1>4, <3>1, <3>2
      <4> QED  BY <4>1
    <3>3. CASE i # Len(q)
      <4>1. i + 1 \in 1 .. Len(q) /\ i \in 1 .. Len(q) - 1 /\ i \in 1 .. Len(b)
        BY <1>2, <3>1, <3>3
      <4> QED  BY <1>1, <1>2, <1>4, <3>1, <4>1
    <3> QED  BY <3>2, <3>3
  <2> QED  BY <1>3, <1>4, <2>1, <2>2, SameSeqs
<1> QED  BY <1>5, <1>6 DEF a, b, u, v

LEMMA StartedMore ==
  ASSUME NEW h, NEW s, s.at = "open", NEW q, IsSeq(q), NEW d, Started(h, s, q, d),
         NEW t, NEW r, Spoken(s, t, r, d)
  PROVE  Started(h, t, Append(q, r), d)
<1> DEFINE p == Append(q, r)
<1>1. /\ InSeq(q, s, 0, d) /\ q # << >> /\ q[1].ct = Handshake
      /\ q[1].data = <<FinishedMsg(h.master, "server_finished", sha256_final(h.hash))>>
      /\ Carried(q) = Bytes(0, s.sent)
  BY DEF Started
<1>2. /\ IsSeq(p) /\ Len(p) = Len(q) + 1 /\ p # << >> /\ \A i \in 1 .. Len(q) : p[i] = q[i]
  BY AppendIs
<1>3. t.master = s.master /\ Payload(r) \in Seq(Nat)
        /\ Bytes(0, s.sent) \o Payload(r) = Bytes(0, t.sent)
  BY DEF Spoken, Stays
<1>4. \/ t.wseq = s.wseq + 1 /\ Numbered(s.master, s.wseq, r, d)
      \/ t.wseq = s.wseq /\ t.at = "closed" /\ r.ct = Alert
  BY DEF Spoken
<1>5. InSeq(p, t, 0, d)
  <2>1. s.at # "closed" /\ 0 \in Nat
    OBVIOUS
  <2> QED  BY <1>1, <1>3, <1>4, <2>1, SeqAppended
<1>6. Carried(p) = Bytes(0, t.sent)
  <2>1. Loads(q)
    BY <1>1, SeqLoads
  <2>2. Carried(p) = Carried(q) \o Payload(r)
    BY <1>3, <2>1, CarriedMore
  <2> QED  BY <1>1, <1>3, <2>2
<1> HIDE DEF p
<1>7. p[1] = q[1]
  BY <1>1, <1>2, NoneIs
<1> QED  BY <1>1, <1>2, <1>5, <1>6, <1>7 DEF Started, p

LEMMA StartedSilent ==
  ASSUME NEW h, NEW s, s.at = "open", NEW q, NEW d, Started(h, s, q, d), NEW t, Silent(s, t)
  PROVE  Started(h, t, q, d)
<1>1. t.master = s.master /\ t.wseq = s.wseq /\ t.sent = s.sent
  BY DEF Silent, Stays
<1>2. InSeq(q, t, 0, d)
  BY <1>1, SeqSame DEF Started
<1> QED  BY <1>1, <1>2 DEF Started

LEMMA OpenedAtStays ==
  ASSUME NEW h, NEW c, NEW s, NEW up, NEW f, NEW req, OpenedAt(h, c, s, up, f, req), NEW t,
         Stays(s, t)
  PROVE  OpenedAt(h, c, t, up, f, req)
BY DEF OpenedAt, Stays

LEMMA OpenedMore ==
  ASSUME NEW h, NEW c, NEW s, s.at = "open", NEW up, NEW down, IsSeq(down), NEW d, NEW f,
         Opened(h, c, s, up, down, d, f), NEW t, NEW r, Spoken(s, t, r, d)
  PROVE  Opened(h, c, t, up, Append(down, r), d, f)
<1>1. PICK req \in BOOLEAN : OpenedAt(h, c, s, up, f, req)
  BY DEF Opened
<1>2. OpenedAt(h, c, t, up, f, req)
  BY <1>1, OpenedAtStays DEF Spoken
<1>3. CASE h.got_ccs = TRUE /\ Started(h, s, down, d)
  <2>1. Started(h, t, Append(down, r), d)
    BY <1>3, StartedMore
  <2> QED  BY <1>2, <1>3, <2>1 DEF Opened
<1>4. CASE /\ h.got_ccs = FALSE /\ down # << >> /\ Head(down) = Plain(ChangeCipher, <<1>>)
           /\ Started(h, s, Tail(down), d)
  <2>1. IsSeq(Tail(down))
    BY <1>4, TailIs
  <2>2. Started(h, t, Append(Tail(down), r), d)
    BY <1>4, <2>1, StartedMore
  <2>3. Head(Append(down, r)) = Head(down) /\ Tail(Append(down, r)) = Append(Tail(down), r)
    BY <1>4, AppendTail
  <2>4. Append(down, r) # << >>
    BY AppendIs
  <2> DEFINE p == Append(down, r)
  <2>5. Head(p) = Plain(ChangeCipher, <<1>>) /\ Started(h, t, Tail(p), d) /\ p # << >>
    BY <1>4, <2>2, <2>3, <2>4
  <2> HIDE DEF p
  <2>6. Opened(h, c, t, up, p, d, f)
    BY <1>2, <1>4, <2>5 DEF Opened
  <2> QED  BY <2>6 DEF p
<1> QED  BY <1>3, <1>4 DEF Opened

LEMMA OpenedSilent ==
  ASSUME NEW h, NEW c, NEW s, s.at = "open", NEW up, NEW down, NEW d, NEW f,
         Opened(h, c, s, up, down, d, f), NEW t, Silent(s, t)
  PROVE  Opened(h, c, t, up, down, d, f)
<1>1. PICK req \in BOOLEAN : OpenedAt(h, c, s, up, f, req)
  BY DEF Opened
<1>2. OpenedAt(h, c, t, up, f, req)
  BY <1>1, OpenedAtStays DEF Silent
<1>3. \A q : Started(h, s, q, d) => Started(h, t, q, d)
  BY StartedSilent
<1> QED  BY <1>2, <1>3 DEF Opened

\* Only a client whose Finished was taken talks to an open server.
LEMMA OpenServer ==
  ASSUME NEW h, NEW c, NEW s, s.at = "open", NEW up, NEW down, NEW d, NEW f,
         \/ Asking(h, s, up, down)
         \/ Flying(h, s, up, down, d, f)
         \/ Answering(h, c, s, up, down, d, f)
         \/ Opened(h, c, s, up, down, d, f)
         \/ Dead(s, down)
  PROVE  Opened(h, c, s, up, down, d, f)
<1>1. ~ Asking(h, s, up, down)
  BY DEF Asking, FreshServer
<1>2. ASSUME NEW client, NEW req, NEW e, NEW i PROVE ~ ServerAt(s, f, client, req, e, i)
  BY StageIs DEF ServerAt
<1>3. ~ Flying(h, s, up, down, d, f)
  BY <1>2, SMTT(40) DEF Flying, FlyingAt
<1>4. ~ Answering(h, c, s, up, down, d, f)
  BY <1>2 DEF Answering, AnsweringAt
<1>5. ~ Dead(s, down)
  BY DEF Dead
<1> QED  BY <1>1, <1>3, <1>4, <1>5

LEMMA ArrivingMore ==
  ASSUME NEW c, c.seq_recv \in Nat, c.app_buf \in Seq(Nat), NEW s, s.at = "open",
         NEW down, IsSeq(down), NEW read \in Seq(Nat), NEW d, Arriving(c, s, down, read, d),
         NEW t, NEW r, Spoken(s, t, r, d)
  PROVE  Arriving(c, t, Append(down, r), read, d)
<1> DEFINE p == Append(down, r)
           a == read \o c.app_buf
<1>1. InSeq(down, s, c.seq_recv, d) /\ a \o Carried(down) = Bytes(0, s.sent)
  BY DEF Arriving
<1>2. t.master = s.master /\ Payload(r) \in Seq(Nat)
        /\ Bytes(0, s.sent) \o Payload(r) = Bytes(0, t.sent)
  BY DEF Spoken, Stays
<1>3. \/ t.wseq = s.wseq + 1 /\ Numbered(s.master, s.wseq, r, d)
      \/ t.wseq = s.wseq /\ t.at = "closed" /\ r.ct = Alert
  BY DEF Spoken
<1>4. InSeq(p, t, c.seq_recv, d)
  <2>1. s.at # "closed"
    OBVIOUS
  <2> QED  BY <1>1, <1>2, <1>3, <2>1, SeqAppended
<1>5. Loads(down)
  BY <1>1, SeqLoads
<1>6. Carried(down) \in Seq(Nat) /\ Carried(p) = Carried(down) \o Payload(r)
  BY <1>2, <1>5, CarriedMore, CarriedIs
<1>7. a \in Seq(Nat)
  OBVIOUS
<1> HIDE DEF p, a
<1>8. a \o Carried(p) = Bytes(0, t.sent)
  <2> DEFINE x == Carried(down)
             y == Payload(r)
  <2>1. x \in Seq(Nat) /\ y \in Seq(Nat) /\ Carried(p) = x \o y /\ a \o x = Bytes(0, s.sent)
        /\ Bytes(0, s.sent) \o y = Bytes(0, t.sent)
    BY <1>1, <1>2, <1>6
  <2> HIDE DEF x, y
  <2>2. (a \o x) \o y = a \o (x \o y)
    BY ONLY <1>7, <2>1, Associates
  <2>3. (a \o x) \o y = Bytes(0, t.sent)
    BY <2>1
  <2> QED  BY ONLY <2>1, <2>2, <2>3, Zenon
<1> QED  BY <1>4, <1>8 DEF Arriving, p, a

LEMMA ArrivingSilent ==
  ASSUME NEW c, NEW s, s.at = "open", NEW down, NEW read, NEW d, Arriving(c, s, down, read, d),
         NEW t, Silent(s, t)
  PROVE  Arriving(c, t, down, read, d)
<1>1. t.master = s.master /\ t.wseq = s.wseq /\ t.sent = s.sent
  BY DEF Silent, Stays
<1>2. InSeq(down, t, c.seq_recv, d)
  BY <1>1, SeqSame DEF Arriving
<1> QED  BY <1>1, <1>2 DEF Arriving

\* The connection, and what is under way to the server, do not depend on it.
LEMMA SessionStays ==
  ASSUME NEW c, NEW s, NEW t, Stays(s, t), NEW f
  PROVE  /\ Keyed(c, s, f) => Keyed(c, t, f)
         /\ \A up, sent, ended : Outgoing(s, up, sent, ended) => Outgoing(t, up, sent, ended)
BY DEF Stays, Keyed, Outgoing

----------------------------------------------------------------------------
(***************************************************************************)
(* A record of the server is damaged.                                      *)
(***************************************************************************)
LEMMA ListeningSame ==
  ASSUME NEW h, NEW x \in Nat, NEW k \in Nat, NEW y \in Nat, NEW l \in Nat, NEW req \in BOOLEAN,
         NEW n \in Nat, n <= FlightLen(req), n >= 1 => x = y, n >= 2 => k = l,
         Listening(h, x, k, req, n)
  PROVE  Listening(h, y, l, req, n)
<1> DEFINE cl == h.client
<1>1. Heard(cl, x, k, req, n) = Heard(cl, y, l, req, n)
  <2> HIDE DEF cl
  <2> QED  BY HeardSame
<1>2. Fed(h.hash, Heard(h.client, y, l, req, n), 0)
  BY <1>1 DEF Listening
<1> QED  BY <1>2 DEF Listening

DamagedTo(h, s, up, p, f) ==
  IsSeq(p) /\ (\A n \in 1 .. Len(p) : IsRecord(p[n])) /\ Flying(h, s, up, p, TRUE, f)

LEMMA FlyingDamaged ==
  ASSUME NEW h, h.client \in 1 .. MaxConn, NEW s, NEW up, NEW down, IsSeq(down), NEW f \in Fds,
         Flying(h, s, up, down, FALSE, f),
         NEW i \in 1 .. Len(down), NEW j \in 1 .. Len(down[i].data), down[i].data[j].v # << >>
  PROVE  DamagedTo(h, s, up, [down EXCEPT ![i].data[j] = Spoilt(@)], f)
<1> DEFINE p == [down EXCEPT ![i].data[j] = Spoilt(@)]
<1>1. PICK x \in {s.random, s.random + 1}, k \in DOMAIN Certs, req \in BOOLEAN, n \in 0 .. 3 :
        FlyingAt(h, s, up, down, FALSE, f, x, k, req, n)
  BY DEF Flying
<1>2. /\ Listening(h, x, k, req, n) /\ n < FlightLen(req)
      /\ ServerAt(s, f, h.client, req, << >>, IF req = TRUE THEN 0 ELSE 1)
      /\ up = << >> /\ FlightPart(down)
      /\ FlattenSeq(Flown(down)) = SubSeq(Flight(x, k, req), n + 1, FlightLen(req))
      /\ Untouched(x, k, s, FALSE)
  BY <1>1 DEF FlyingAt
<1>3. x = s.random /\ s.random \in Nat
  BY <1>2 DEF Untouched, ServerAt
<1>4. k \in Nat /\ Garbled \in Nat /\ Garbled \in DOMAIN Certs
  BY CertNumbers
<1>5. n \in Nat /\ n <= FlightLen(req)
  BY <1>2, FlightLenIs
<1>6. /\ IsSeq(p) /\ FlightPart(p) /\ Len(p) = Len(down)
      /\ \E y \in {x, x + 1}, l \in {k, Garbled} :
           /\ n >= 1 => y = x
           /\ n >= 2 => l = k
           /\ FlattenSeq(Flown(p)) = SubSeq(Flight(y, l, req), n + 1, FlightLen(req))
  <2>1. Reflown(p, down, x, k, req, n)
    <3>1. /\ IsSeq(down) /\ FlightPart(down) /\ i \in 1 .. Len(down) /\ j \in 1 .. Len(down[i].data)
          /\ down[i].data[j].v # << >> /\ x \in Nat /\ k \in Nat /\ req \in BOOLEAN /\ n \in Nat
          /\ n < FlightLen(req)
      BY <1>2, <1>3, <1>4, <1>5
    <3>2. FlattenSeq(Flown(down)) = SubSeq(Flight(x, k, req), n + 1, FlightLen(req))
      BY <1>2
    <3>3. Reflown(SpoiltAt(down, i, j), down, x, k, req, n)
      BY ONLY <3>1, <3>2, FlightSpoilt
    <3> QED  BY ONLY <3>3 DEF p, SpoiltAt
  <2> QED  BY <2>1 DEF Reflown
<1> HIDE DEF p
<1>7. PICK y \in {x, x + 1}, l \in {k, Garbled} :
           /\ n >= 1 => y = x
           /\ n >= 2 => l = k
           /\ FlattenSeq(Flown(p)) = SubSeq(Flight(y, l, req), n + 1, FlightLen(req))
  BY <1>6
<1>8. Listening(h, y, l, req, n)
  <2>1. x \in Nat /\ y \in Nat /\ l \in Nat /\ k \in Nat
    BY <1>3, <1>4
  <2> QED  BY <1>2, <1>5, <1>7, <2>1, ListeningSame
<1>9. Untouched(y, l, s, TRUE)
  BY DEF Untouched
<1>10. FlyingAt(h, s, up, p, TRUE, f, y, l, req, n)
  BY <1>2, <1>6, <1>7, <1>8, <1>9 DEF FlyingAt
<1>11. Flying(h, s, up, p, TRUE, f)
  <2>1. y \in {s.random, s.random + 1} /\ l \in DOMAIN Certs
    BY <1>3, <1>4
  <2> QED  BY <1>10, <2>1, Zenon DEF Flying
<1>12. \A m \in 1 .. Len(p) : IsRecord(p[m])
  BY <1>6, FlightRecords
<1>13. DamagedTo(h, s, up, p, f)
  BY <1>6, <1>11, <1>12, Zenon DEF DamagedTo
<1> QED  BY <1>13 DEF p

LEMMA MarredRecords ==
  ASSUME NEW q, NEW p, Marred(q, p)
  PROVE  IsSeq(p) /\ \A i \in 1 .. Len(p) : IsRecord(p[i])
BY DEF Marred

LEMMA DeadMarred ==
  ASSUME NEW s, NEW q, Dead(s, q), NEW p, Marred(q, p) PROVE Dead(s, p)
BY DEF Dead, Marred

LEMMA StartedMarred ==
  ASSUME NEW h, NEW s, NEW q, IsSeq(q), NEW d, Started(h, s, q, d), NEW p, Marred(q, p)
  PROVE  Started(h, s, p, TRUE)
<1>1. /\ InSeq(q, s, 0, d) /\ q # << >> /\ q[1].ct = Handshake
      /\ q[1].data = <<FinishedMsg(h.master, "server_finished", sha256_final(h.hash))>>
      /\ Carried(q) = Bytes(0, s.sent)
  BY DEF Started
<1>2. InSeq(p, s, 0, TRUE) /\ Carried(p) = Bytes(0, s.sent)
  BY <1>1, SeqMarred, MarredCarried
<1>3. p # << >>
  BY <1>1, MarredTail
<1>4. p[1].ct = q[1].ct /\ p[1].data = q[1].data
  <2>1. 1 \in 1 .. Len(q)
    BY <1>1, NoneIs
  <2> QED  BY <2>1 DEF Marred
<1> QED  BY <1>1, <1>2, <1>3, <1>4 DEF Started

LEMMA OpenedMarred ==
  ASSUME NEW h, NEW c, NEW s, NEW up, NEW down, IsSeq(down), NEW d, NEW f,
         Opened(h, c, s, up, down, d, f), NEW p, Marred(down, p)
  PROVE  Opened(h, c, s, up, p, TRUE, f)
<1>1. CASE h.got_ccs = TRUE /\ Started(h, s, down, d)
  <2>1. Started(h, s, p, TRUE)
    BY <1>1, StartedMarred
  <2> QED  BY <1>1, <2>1 DEF Opened
<1>2. CASE /\ h.got_ccs = FALSE /\ down # << >> /\ Head(down) = Plain(ChangeCipher, <<1>>)
           /\ Started(h, s, Tail(down), d)
  <2>1. IsSeq(Tail(down))
    BY <1>2, TailIs
  <2>2. Plain(ChangeCipher, <<1>>).key = NoSlice
    BY DEF Plain
  <2>3. p # << >> /\ Marred(Tail(down), Tail(p)) /\ Head(p) = Head(down)
    <3>1. Head(down).key = NoSlice
      BY <1>2, <2>2
    <3>2. p # << >> /\ Marred(Tail(down), Tail(p))
            /\ (Head(down).key = NoSlice => Head(p) = Head(down))
      BY <1>2, MarredTail
    <3> QED  BY <3>1, <3>2
  <2>4. Started(h, s, Tail(p), TRUE)
    BY <1>2, <2>1, <2>3, StartedMarred
  <2> QED  BY <1>2, <2>3, <2>4 DEF Opened
<1> QED  BY <1>1, <1>2 DEF Opened

\* No plain record but ChangeCipherSpec and an alert is under way from then on.
LEMMA OpenedPlain ==
  ASSUME NEW h, NEW c, NEW s, NEW up, NEW down, IsSeq(down), NEW d, NEW f,
         Opened(h, c, s, up, down, d, f), NEW i \in 1 .. Len(down), down[i].key = NoSlice
  PROVE  down[i].ct # Handshake
<1>1. ASSUME NEW q, IsSeq(q), Started(h, s, q, d), NEW n \in 1 .. Len(q), q[n].key = NoSlice
      PROVE  q[n].ct = Alert
  <2>1. InSeq(q, s, 0, d)
    BY <1>1 DEF Started
  <2> QED  BY <1>1, <2>1, SeqLoads
<1>2. CASE Started(h, s, down, d)
  <2>1. down[i].ct = Alert
    BY <1>1, <1>2
  <2> QED  BY <2>1, CodesDiffer
<1>3. CASE /\ down # << >> /\ Head(down) = Plain(ChangeCipher, <<1>>)
           /\ Started(h, s, Tail(down), d)
  <2> DEFINE q == Tail(down)
  <2>1. /\ IsSeq(q) /\ Len(down) \in Nat /\ Len(q) = Len(down) - 1 /\ Head(down) = down[1]
        /\ \A n \in 1 .. Len(down) - 1 : q[n] = down[n + 1]
    BY <1>3, TailIs
  <2> HIDE DEF q
  <2>2. CASE i = 1
    <3>1. down[i] = Plain(ChangeCipher, <<1>>)
      BY <1>3, <2>1, <2>2
    <3>2. Plain(ChangeCipher, <<1>>).ct = ChangeCipher
      BY DEF Plain
    <3> QED  BY <3>1, <3>2, CodesDiffer
  <2>3. CASE i # 1
    <3> DEFINE n == i - 1
    <3>1. n \in 1 .. Len(q) /\ q[n] = down[i]
      <4>1. n \in 1 .. Len(down) - 1 /\ n + 1 = i
        BY <2>1, <2>3
      <4> QED  BY <2>1, <4>1
    <3> HIDE DEF n
    <3>2. q[n].ct = Alert
      BY <1>1, <1>3, <2>1, <3>1 DEF q
    <3> QED  BY <3>1, <3>2, CodesDiffer
  <2> QED  BY <2>2, <2>3
<1> QED  BY <1>2, <1>3 DEF Opened

LEMMA ArrivingMarred ==
  ASSUME NEW c, NEW s, NEW q, IsSeq(q), NEW read, NEW d, Arriving(c, s, q, read, d),
         NEW p, Marred(q, p)
  PROVE  Arriving(c, s, p, read, TRUE)
<1>1. InSeq(p, s, c.seq_recv, TRUE) /\ Carried(p) = Carried(q)
  BY SeqMarred, MarredCarried DEF Arriving
<1> QED  BY <1>1 DEF Arriving

LEMMA ArrivingPlain ==
  ASSUME NEW c, NEW s, NEW q, IsSeq(q), NEW read, NEW d, Arriving(c, s, q, read, d),
         NEW i \in 1 .. Len(q), q[i].key = NoSlice
  PROVE  q[i].ct # Handshake
<1>1. q[i].ct = Alert
  BY SeqLoads DEF Arriving
<1> QED  BY <1>1, CodesDiffer

----------------------------------------------------------------------------
(***************************************************************************)
(* The client on an established session (1655-1744).                       *)
(***************************************************************************)
LEMMA BytesContent ==
  ASSUME NEW ct \in {Application, Alert}, NEW b \in Seq(Nat) PROVE IsContent(ct, b)
<1>1. ct \in Nat /\ ct # Handshake
  BY CodesDiffer
<1>2. Flat(ct, b) = b /\ DataLen(ct, b) = Len(b)
  BY <1>1 DEF Flat, DataLen
<1>3. Len(b) \in Nat
  OBVIOUS
<1> QED  BY <1>1, <1>2, <1>3 DEF IsContent

LEMMA SentKeyed ==
  ASSUME NEW c, IsConn(c), NEW s, NEW f, Keyed(c, s, f)
  PROVE  /\ Keyed(Sent(c), s, f) /\ Sent(c).seq_send = c.seq_send + 1
         /\ Sent(c).seq_recv = c.seq_recv /\ Sent(c).app_buf = c.app_buf
<1>1. c.cipher_active = TRUE /\ c.seq_send \in Nat
  BY DEF Keyed
<1>2. Sent(c) = [c EXCEPT !.seq_send = @ + 1]
  BY <1>1 DEF Sent
<1>3. LET b == [c EXCEPT !.seq_send = @ + 1]
      IN /\ b.seq_send = c.seq_send + 1 /\ b.seq_recv = c.seq_recv /\ b.app_buf = c.app_buf
         /\ b.mac_enc_key = c.mac_enc_key /\ b.mac_dec_key = c.mac_dec_key
         /\ b.enc_ctx = c.enc_ctx /\ b.dec_ctx = c.dec_ctx /\ b.cipher_active = c.cipher_active
         /\ b.peer_cert = c.peer_cert /\ b.peer_key_bytes = c.peer_key_bytes
  BY DEF IsConn
<1>4. c.seq_send + 1 \in Nat
  BY <1>1
<1> QED  BY <1>2, <1>3, <1>4 DEF Keyed, HasKeys

\* What the client writes is what the server expects next.
LEMMA Written ==
  ASSUME NEW c, NEW s, NEW f, Keyed(c, s, f), NEW up, IsSeq(up), NEW sent \in Nat,
         Outgoing(s, up, sent, FALSE), s.got \in Seq(Nat), c.seq_send = s.rseq + Len(up),
         NEW ct \in {Application, Alert}, NEW b \in Seq(Nat), NEW more \in Nat,
         NEW ended, ct = Alert => ended, Payload(tls_write_record(c, ct, b)) \in Seq(Nat),
         Bytes(0, sent) \o Payload(tls_write_record(c, ct, b)) = Bytes(0, more)
  PROVE  Outgoing(s, Append(up, tls_write_record(c, ct, b)), more, ended)
<1> DEFINE r == tls_write_record(c, ct, b)
           p == Append(up, r)
<1>1. /\ s.at \in {"open", "closed"} /\ s.rseq \in Nat
      /\ \A i \in 1 .. Len(up) :
           /\ ServerAccepts(s.master, s.rseq + i - 1, up[i])
           /\ \/ up[i].ct = Application /\ up[i].data \in Seq(Nat)
              \/ up[i].ct = Alert /\ i = Len(up) /\ FALSE
      /\ s.got \o Carried(up) = Bytes(0, sent)
  BY DEF Outgoing
<1>2. HasKeys(c, s.master) /\ c.cipher_active = TRUE /\ c.seq_send \in Nat
  BY DEF Keyed
<1>3. r.ct = ct /\ r.data = b /\ ServerAccepts(s.master, c.seq_send, r)
  BY <1>2, BytesContent, WriteAccepted
<1>4. /\ IsSeq(p) /\ Len(p) = Len(up) + 1 /\ p[Len(up) + 1] = r
      /\ \A i \in 1 .. Len(up) : p[i] = up[i]
  BY AppendIs
<1>5. Len(up) \in Nat
  BY DEF IsSeq
<1>6. Payload(r) \in Seq(Nat) /\ Bytes(0, sent) \o Payload(r) = Bytes(0, more)
  OBVIOUS
<1>7. Loads(up)
  BY OutgoingIs
<1>8. Carried(up) \in Seq(Nat) /\ Carried(p) = Carried(up) \o Payload(r)
  BY <1>6, <1>7, CarriedMore, CarriedIs
<1> HIDE DEF p, r
<1>9. s.got \o Carried(p) = Bytes(0, more)
  <2> DEFINE x == Carried(up)
             y == Payload(r)
  <2>1. x \in Seq(Nat) /\ y \in Seq(Nat) /\ Carried(p) = x \o y /\ s.got \o x = Bytes(0, sent)
        /\ Bytes(0, sent) \o y = Bytes(0, more)
    BY <1>1, <1>6, <1>8
  <2> HIDE DEF x, y
  <2>2. (s.got \o x) \o y = s.got \o (x \o y)
    BY <2>1, Associates
  <2>3. (s.got \o x) \o y = Bytes(0, more)
    BY <2>1
  <2> QED  BY ONLY <2>1, <2>2, <2>3, Zenon
<1>10. ASSUME NEW i \in 1 .. Len(p)
       PROVE  /\ ServerAccepts(s.master, s.rseq + i - 1, p[i])
              /\ \/ p[i].ct = Application /\ p[i].data \in Seq(Nat)
                 \/ p[i].ct = Alert /\ i = Len(p) /\ ended
  <2>1. CASE i \in 1 .. Len(up)
    BY <1>1, <1>4, <2>1
  <2>2. CASE i \notin 1 .. Len(up)
    <3>1. i = Len(up) + 1 /\ s.rseq + i - 1 = c.seq_send
      BY <1>1, <1>4, <1>5, <2>2
    <3>2. p[i] = r
      BY <1>4, <3>1
    <3>3. ct = Application \/ (ct = Alert /\ ended)
      OBVIOUS
    <3> QED  BY <1>3, <1>4, <3>1, <3>2, <3>3
  <2> QED  BY <2>1, <2>2
<1> QED  BY <1>1, <1>9, <1>10 DEF Outgoing, p, r

\* vtls_send has written a record.
DataSentTo(c, s, up, down, read, d, f, sent, n) ==
  LET p == Append(up, tls_write_record(c, Application, Bytes(sent, n)))
  IN IsSeq(p) /\ Outgoing(s, p, sent + n, FALSE)
    /\ Served1(Sent(c), s, p, down, read, d, f, TRUE, TRUE)

LEMMA DataSent ==
  ASSUME NEW c, IsConn(c), NEW s, s.got \in Seq(Nat), NEW up, IsSeq(up), NEW down, NEW read,
         NEW d, NEW f, NEW sent \in Nat, NEW n \in Nat,
         Served1(c, s, up, down, read, d, f, TRUE, TRUE), Outgoing(s, up, sent, FALSE)
  PROVE  DataSentTo(c, s, up, down, read, d, f, sent, n)
<1> DEFINE b == Bytes(sent, n)
           r == tls_write_record(c, Application, b)
           p == Append(up, r)
<1>1. /\ Keyed(c, s, f) /\ c.seq_send = s.rseq + Len(up) /\ Arriving(c, s, down, read, d)
      /\ read \o c.app_buf = Bytes(0, Len(read \o c.app_buf))
  BY DEF Served1
<1>2. b \in Seq(Nat) /\ Bytes(0, sent) \o b = Bytes(0, sent + n) /\ sent + n \in Nat
  <2>1. b \in Seq(Nat)
    BY BytesAre
  <2>2. Bytes(0, sent) \o b = Bytes(0, sent + n)
    BY BytesJoin
  <2> QED  BY <2>1, <2>2
<1> HIDE DEF b
<1>3. Payload(r) = b
  <2>1. HasKeys(c, s.master) /\ c.cipher_active = TRUE /\ c.seq_send \in Nat
    BY <1>1 DEF Keyed
  <2>2. IsContent(Application, b)
    BY <1>2, BytesContent
  <2>3. r.ct = Application /\ r.data = b /\ ServerAccepts(s.master, c.seq_send, r)
    BY ONLY <2>1, <2>2, WriteAccepted
  <2> QED  BY <2>3 DEF Payload
<1>4. Outgoing(s, p, sent + n, FALSE)
  <2>1. Application \in {Application, Alert} /\ (Application = Alert => FALSE)
    BY CodesDiffer
  <2>2. Payload(r) \in Seq(Nat) /\ Bytes(0, sent) \o Payload(r) = Bytes(0, sent + n)
    BY <1>2, <1>3
  <2> QED  BY <1>1, <1>2, <2>1, <2>2, Written
<1>5. IsSeq(p) /\ Len(p) = Len(up) + 1
  BY AppendIs
<1> HIDE DEF p, r
<1>6. /\ Keyed(Sent(c), s, f) /\ Sent(c).seq_send = c.seq_send + 1
      /\ Sent(c).seq_recv = c.seq_recv /\ Sent(c).app_buf = c.app_buf
  BY <1>1, SentKeyed
<1>7. Sent(c).seq_send = s.rseq + Len(p)
  <2>1. s.rseq \in Nat /\ Len(up) \in Nat
    BY DEF Outgoing, IsSeq
  <2>2. c.seq_send = s.rseq + Len(up)
    BY <1>1
  <2> QED  BY ONLY <1>5, <1>6, <2>1, <2>2
<1>8. Arriving(Sent(c), s, down, read, d)
  BY <1>1, <1>6 DEF Arriving
<1>9. Served1(Sent(c), s, p, down, read, d, f, TRUE, TRUE)
  BY <1>1, <1>6, <1>7, <1>8 DEF Served1
<1> QED  BY <1>4, <1>5, <1>9 DEF DataSentTo, p, r, b

\* close_notify has been written.
LEMMA CloseSent ==
  ASSUME NEW c, NEW s, s.got \in Seq(Nat), NEW up, IsSeq(up), NEW down, NEW read,
         NEW d, NEW f, NEW sent \in Nat, NEW open,
         Served1(c, s, up, down, read, d, f, TRUE, open), Outgoing(s, up, sent, FALSE)
  PROVE  /\ IsSeq(Append(up, tls_write_record(c, Alert, <<1, 0>>)))
         /\ Outgoing(s, Append(up, tls_write_record(c, Alert, <<1, 0>>)), sent, TRUE)
<1> DEFINE b == <<1, 0>>
           r == tls_write_record(c, Alert, b)
<1>1. Keyed(c, s, f) /\ c.seq_send = s.rseq + Len(up)
  BY DEF Served1
<1>2. b \in Seq(Nat)
  OBVIOUS
<1> HIDE DEF b
<1>3. Payload(r) = << >>
  <2>1. HasKeys(c, s.master) /\ c.cipher_active = TRUE /\ c.seq_send \in Nat
    BY <1>1 DEF Keyed
  <2>2. IsContent(Alert, b)
    BY <1>2, BytesContent
  <2>3. r.ct = Alert /\ r.data = b /\ ServerAccepts(s.master, c.seq_send, r)
    BY ONLY <2>1, <2>2, WriteAccepted
  <2> QED  BY <2>3, CodesDiffer DEF Payload
<1>4. Bytes(0, sent) \in Seq(Nat) /\ << >> \in Seq(Nat)
  BY BytesAre
<1>5. Payload(r) \in Seq(Nat) /\ Bytes(0, sent) \o Payload(r) = Bytes(0, sent)
  BY <1>3, <1>4
<1>6. Outgoing(s, Append(up, r), sent, TRUE)
  <2>1. Alert \in {Application, Alert}
    OBVIOUS
  <2> QED  BY <1>1, <1>2, <1>5, <2>1, Written
<1>7. IsSeq(Append(up, r))
  BY AppendIs
<1> QED  BY <1>6, <1>7 DEF r, b

\* vtls_recv hands out what it has kept.
BufferGiven(c, b, s, up, down, read, more, d, f, holds) ==
  more \in Seq(Nat) /\ more = Bytes(0, Len(more))
    /\ Served1(b, s, up, down, more, d, f, holds, TRUE)

LEMMA BufferRead ==
  ASSUME NEW c, IsConn(c), NEW s, NEW up, NEW down, NEW read \in Seq(Nat), NEW d, NEW f, NEW holds,
         Served1(c, s, up, down, read, d, f, holds, TRUE), NEW len \in Nat,
         NEW more, more = read \o Copied(c.app_buf, len),
         NEW b, b = [c EXCEPT !.app_buf = Rest(@, len)]
  PROVE  BufferGiven(c, b, s, up, down, read, more, d, f, holds)
<1> DEFINE x == Copied(c.app_buf, len)
           y == Rest(c.app_buf, len)
<1>1. /\ Keyed(c, s, f) /\ (holds => c.seq_send = s.rseq + Len(up))
      /\ holds => Arriving(c, s, down, read, d)
      /\ read \o c.app_buf = Bytes(0, Len(read \o c.app_buf))
  BY DEF Served1
<1>2. c.app_buf \in Seq(Nat)
  BY <1>1 DEF Keyed
<1>3. x \in Seq(Nat) /\ y \in Seq(Nat) /\ x \o y = c.app_buf
  BY <1>2, CopiedRest
<1>4. b = [c EXCEPT !.app_buf = y]
  BY DEF IsConn
<1> HIDE DEF x, y
<1>5. LET g == [c EXCEPT !.app_buf = y]
      IN /\ g.app_buf = y /\ g.seq_send = c.seq_send /\ g.seq_recv = c.seq_recv
         /\ g.mac_enc_key = c.mac_enc_key /\ g.mac_dec_key = c.mac_dec_key
         /\ g.enc_ctx = c.enc_ctx /\ g.dec_ctx = c.dec_ctx /\ g.cipher_active = c.cipher_active
         /\ g.peer_cert = c.peer_cert /\ g.peer_key_bytes = c.peer_key_bytes
  BY DEF IsConn
<1>6. more = read \o x
  BY DEF x
<1>7. more \o y = read \o c.app_buf /\ more \in Seq(Nat)
  <2>1. (read \o x) \o y = read \o (x \o y)
    BY <1>3, Associates
  <2>2. read \o x \in Seq(Nat)
    BY <1>3
  <2> QED  BY ONLY <1>3, <1>6, <2>1, <2>2
<1>8. Keyed(b, s, f)
  BY <1>1, <1>3, <1>4, <1>5 DEF Keyed, HasKeys
<1>9. b.app_buf = y /\ b.seq_send = c.seq_send /\ b.seq_recv = c.seq_recv
  BY <1>4, <1>5
<1>10. more \o b.app_buf = read \o c.app_buf
  BY <1>7, <1>9
<1>11. more = Bytes(0, Len(more))
  <2>1. Len(read \o c.app_buf) \in Nat
    BY <1>2
  <2> DEFINE n == Len(read \o c.app_buf)
  <2>2. more \o y = Bytes(0, n)
    BY <1>1, <1>7
  <2> HIDE DEF n
  <2> QED  BY <1>3, <1>7, <2>1, <2>2, BytesBegin DEF n
<1>12. holds => Arriving(b, s, down, more, d)
  BY <1>1, <1>9, <1>10 DEF Arriving
<1>13. Served1(b, s, up, down, more, d, f, holds, TRUE)
  <2>1. more \o b.app_buf = Bytes(0, Len(more \o b.app_buf))
    BY <1>1, <1>10
  <2>2. holds => b.seq_send = s.rseq + Len(up)
    BY <1>1, <1>9
  <2> QED  BY <1>8, <1>12, <2>1, <2>2 DEF Served1
<1> QED  BY <1>7, <1>11, <1>13 DEF BufferGiven

\* What Received does to a connection.
LEMMA ReceivedIs ==
  ASSUME NEW c, IsConn(c), NEW r
  PROVE  LET b == Received(c, r)
         IN /\ IsConn(b) /\ b.app_buf = c.app_buf /\ b.seq_send = c.seq_send
            /\ b.mac_enc_key = c.mac_enc_key /\ b.mac_dec_key = c.mac_dec_key
            /\ b.enc_ctx = c.enc_ctx /\ b.dec_ctx = c.dec_ctx /\ b.cipher_active = c.cipher_active
            /\ b.peer_cert = c.peer_cert /\ b.peer_key_bytes = c.peer_key_bytes
            /\ Protected(c, r) => b.seq_recv = c.seq_recv + 1
            /\ ~ Protected(c, r) => b = c
BY DEF Received, IsConn

\* tls_read_record finds the next record of the session, or the alert that ends it.
LEMMA NextRecord ==
  ASSUME NEW c, NEW s, NEW f, Keyed(c, s, f), NEW down, IsSeq(down), down # << >>, NEW read,
         NEW d \in BOOLEAN, Arriving(c, s, down, read, d)
  PROVE  \/ /\ Numbered(s.master, c.seq_recv, Head(down), d)
            /\ InSeq(Tail(down), s, c.seq_recv + 1, d) /\ Protected(c, Head(down))
            /\ d = FALSE => Accepted(c, Head(down))
            /\ Head(down).ct \in {Handshake, Application} /\ Payload(Head(down)) \in Seq(Nat)
            /\ Carried(down) = Payload(Head(down)) \o Carried(Tail(down))
            /\ Carried(Tail(down)) \in Seq(Nat)
         \/ Head(down).ct = Alert /\ s.at = "closed"
<1>1. InSeq(down, s, c.seq_recv, d) /\ c.seq_recv \in Nat /\ HasKeys(c, s.master)
        /\ c.cipher_active = TRUE
  BY DEF Arriving, Keyed
<1>2. \/ Numbered(s.master, c.seq_recv, Head(down), d) /\ InSeq(Tail(down), s, c.seq_recv + 1, d)
      \/ Head(down).ct = Alert /\ s.at = "closed"
  BY <1>1, SeqTail
<1>3. CASE Numbered(s.master, c.seq_recv, Head(down), d) /\ InSeq(Tail(down), s, c.seq_recv + 1, d)
  <2>1. Head(down).ct \in {Handshake, Application}
    BY <1>3, NumberedIs
  <2>2. Protected(c, Head(down))
    BY <1>1, <2>1 DEF Protected
  <2>3. d = FALSE => Accepted(c, Head(down))
    BY <1>1, <1>3, NumberedAccepted
  <2>4. Loads(down)
    BY <1>1, SeqLoads
  <2>5. /\ Carried(down) = Payload(Head(down)) \o Carried(Tail(down))
        /\ Payload(Head(down)) \in Seq(Nat) /\ Carried(Tail(down)) \in Seq(Nat)
    BY <2>4, CarriedTail
  <2> QED  BY <1>3, <2>1, <2>2, <2>3, <2>5
<1> QED  BY <1>2, <1>3

ButBuffer(g, b) ==
  /\ b.seq_send = g.seq_send /\ b.seq_recv = g.seq_recv
  /\ b.mac_enc_key = g.mac_enc_key /\ b.mac_dec_key = g.mac_dec_key
  /\ b.enc_ctx = g.enc_ctx /\ b.dec_ctx = g.dec_ctx /\ b.cipher_active = g.cipher_active
  /\ b.peer_cert = g.peer_cert /\ b.peer_key_bytes = g.peer_key_bytes

LEMMA ButBufferIs ==
  ASSUME NEW c, IsConn(c), NEW r
  PROVE  /\ ButBuffer(Received(c, r), Received(c, r)) /\ Received(c, r).app_buf = c.app_buf
         /\ \A y : LET b == [Received(c, r) EXCEPT !.app_buf = y]
                  IN ButBuffer(Received(c, r), b) /\ b.app_buf = y
<1>1. IsConn(Received(c, r)) /\ Received(c, r).app_buf = c.app_buf
  BY ReceivedIs
<1> DEFINE g == Received(c, r)
<1> HIDE DEF g
<1>2. \A y : LET b == [g EXCEPT !.app_buf = y] IN ButBuffer(g, b) /\ b.app_buf = y
  BY <1>1 DEF ButBuffer, IsConn, g
<1> QED  BY <1>1, <1>2 DEF ButBuffer, g

\* vtls_recv has read a record with data, of which it may keep a part.
LEMMA RecordRead1 ==
  ASSUME NEW c, IsConn(c), c.app_buf = << >>, NEW s, s.sent \in Nat, NEW up, NEW down, IsSeq(down),
         down # << >>,
         NEW read \in Seq(Nat), NEW d \in BOOLEAN, NEW f,
         Served1(c, s, up, down, read, d, f, TRUE, TRUE), Head(down).ct # Alert,
         NEW x \in Seq(Nat), NEW y \in Seq(Nat), x \o y = Payload(Head(down)),
         NEW b, ButBuffer(Received(c, Head(down)), b), b.app_buf = y
  PROVE  BufferGiven(c, b, s, up, Tail(down), read, read \o x, d, f, TRUE)
<1> DEFINE r == Head(down)
           q == Tail(down)
           g == Received(c, r)
           more == read \o x
<1>1. /\ Keyed(c, s, f) /\ c.seq_send = s.rseq + Len(up) /\ Arriving(c, s, down, read, d)
      /\ read \o c.app_buf = Bytes(0, Len(read \o c.app_buf))
  BY DEF Served1
<1>2. /\ InSeq(q, s, c.seq_recv + 1, d) /\ Protected(c, r)
      /\ Payload(r) \in Seq(Nat) /\ Carried(down) = Payload(r) \o Carried(q)
      /\ Carried(q) \in Seq(Nat)
  BY <1>1, NextRecord
<1>3. x \o y = Payload(r)
  OBVIOUS
<1> HIDE DEF r, q
<1>4. /\ IsConn(g) /\ g.seq_send = c.seq_send
      /\ g.mac_enc_key = c.mac_enc_key /\ g.mac_dec_key = c.mac_dec_key
      /\ g.enc_ctx = c.enc_ctx /\ g.dec_ctx = c.dec_ctx /\ g.cipher_active = c.cipher_active
      /\ g.peer_cert = c.peer_cert /\ g.peer_key_bytes = c.peer_key_bytes
      /\ g.seq_recv = c.seq_recv + 1
  BY <1>2, ReceivedIs
<1>5. ButBuffer(g, b)
  BY DEF g, r
<1> HIDE DEF g
<1>7. /\ b.app_buf = y /\ b.seq_send = c.seq_send /\ b.seq_recv = c.seq_recv + 1
      /\ b.mac_enc_key = c.mac_enc_key /\ b.mac_dec_key = c.mac_dec_key
      /\ b.enc_ctx = c.enc_ctx /\ b.dec_ctx = c.dec_ctx /\ b.cipher_active = c.cipher_active
      /\ b.peer_cert = c.peer_cert /\ b.peer_key_bytes = c.peer_key_bytes
  BY <1>4, <1>5 DEF ButBuffer
<1>8. Keyed(b, s, f)
  <2>1. c.seq_recv + 1 \in Nat /\ c.seq_send \in Nat
    BY <1>1 DEF Keyed
  <2> QED  BY <1>1, <1>7, <2>1 DEF Keyed, HasKeys
<1>9. more \in Seq(Nat) /\ (more \o b.app_buf) \o Carried(q) = Bytes(0, s.sent)
  <2> DEFINE p == Payload(r)
             w == Carried(q)
  <2>1. read \o c.app_buf = read
    OBVIOUS
  <2>2. (read \o c.app_buf) \o Carried(down) = Bytes(0, s.sent)
    BY <1>1 DEF Arriving
  <2>3. p \in Seq(Nat) /\ w \in Seq(Nat) /\ Carried(down) = p \o w /\ x \o y = p
    BY <1>2, <1>3
  <2> HIDE DEF p, w
  <2>4. read \o (p \o w) = Bytes(0, s.sent)
    BY <2>1, <2>2, <2>3
  <2>5. (read \o p) \o w = read \o (p \o w)
    BY <2>3, Associates, ZenonT(45)
  <2>6. (read \o x) \o y = read \o p
    BY <2>3, Associates, ZenonT(45)
  <2>7. read \o x \in Seq(Nat)
    OBVIOUS
  <2>8. b.app_buf = y
    BY <1>7
  <2> QED  BY ONLY <2>4, <2>5, <2>6, <2>7, <2>8 DEF w
<1>10. more \o b.app_buf = Bytes(0, Len(more \o b.app_buf)) /\ more = Bytes(0, Len(more))
  <2> DEFINE w == Carried(q)
             z == more \o y
  <2>1. w \in Seq(Nat) /\ b.app_buf = y /\ more \in Seq(Nat) /\ z \o w = Bytes(0, s.sent)
    BY <1>2, <1>7, <1>9
  <2>2. z \in Seq(Nat)
    BY <2>1
  <2> HIDE DEF w, more, z
  <2>3. z = Bytes(0, Len(z))
    BY <2>1, <2>2, BytesBegin
  <2>4. Len(z) \in Nat /\ more \o y = Bytes(0, Len(z))
    BY <2>2, <2>3 DEF z
  <2> DEFINE n == Len(z)
  <2> HIDE DEF n
  <2>5. n \in Nat /\ more \o y = Bytes(0, n)
    BY <2>4 DEF n
  <2>6. more = Bytes(0, Len(more))
    BY <2>1, <2>5, BytesBegin
  <2> QED  BY <2>1, <2>3, <2>6 DEF z
<1> HIDE DEF more
<1>11. Arriving(b, s, q, more, d)
  BY <1>2, <1>7, <1>9 DEF Arriving
<1>12. Served1(b, s, up, q, more, d, f, TRUE, TRUE)
  BY <1>1, <1>7, <1>8, <1>10, <1>11 DEF Served1
<1>13. BufferGiven(c, b, s, up, q, read, more, d, f, TRUE)
  BY <1>9, <1>10, <1>12 DEF BufferGiven
<1> QED  BY <1>13 DEF q, more

\* A call that fails leaves the session as it was.
LEMMA ServedFailed ==
  ASSUME NEW c, NEW s, NEW up, NEW down, NEW q, NEW read, NEW more, NEW d, NEW e, NEW f, NEW holds,
         NEW open, Served1(c, s, up, down, read, d, f, holds, open)
  PROVE  Served1(c, s, up, q, more, e, f, holds, FALSE)
BY DEF Served1

LEMMA ServedUnsent ==
  ASSUME NEW c, IsConn(c), NEW s, NEW up, NEW down, NEW read, NEW d, NEW f, NEW holds, NEW open,
         Served1(c, s, up, down, read, d, f, holds, open)
  PROVE  Served1(Sent(c), s, up, down, read, d, f, FALSE, FALSE)
BY SentKeyed DEF Served1

----------------------------------------------------------------------------
(***************************************************************************)
(* A handshake begins (1291-1368).                                         *)
(***************************************************************************)
LEMMA HelloAsks ==
  ASSUME NEW n \in Nat, NEW f, NEW c, c = Allocated(f),
         NEW hello, hello = Msg(ClientHello, <<n>>),
         NEW h, h.at = "flight", h.hash = sha256_update[HashInit][MsgBytes(hello)],
         h.client = n, h.got_ccs = FALSE, h.got_done = FALSE, h.cert_requested = FALSE
  PROVE  /\ Asking(h, FreshServer, <<tls_write_record(c, Handshake, <<hello>>)>>, << >>)
         /\ c.seq_recv = 0 /\ c.app_buf = << >> /\ c.cipher_active = FALSE /\ c.seq_send = 0
<1>1. /\ c.seq_recv = 0 /\ c.app_buf = << >> /\ c.cipher_active = FALSE /\ c.seq_send = 0
  BY DEF Allocated, FreeConn
<1>2. tls_write_record(c, Handshake, <<hello>>) = Plain(Handshake, <<hello>>)
  BY ONLY <1>1 DEF tls_write_record
<1>3. hello = Hello(h.client)
  BY DEF Hello
<1>4. Fed(h.hash, MsgBytes(hello), 0)
  <2>1. MsgBytes(hello) \in Seq(Nat)
    BY <1>3, HelloIs
  <2> DEFINE m == MsgBytes(hello)
  <2> HIDE DEF m
  <2>2. Fed(sha256_update[HashInit][m], << >> \o m, 0)
    BY <2>1, FedStart, Feed256 DEF m
  <2>3. << >> \o m = m
    BY <2>1 DEF m
  <2> QED  BY <2>2, <2>3 DEF m
<1>5. <<tls_write_record(c, Handshake, <<hello>>)>> = <<Plain(Handshake, <<Hello(h.client)>>)>>
  BY <1>2, <1>3
<1> QED  BY <1>1, <1>3, <1>4, <1>5 DEF Asking
=============================================================================
