---------------------------- MODULE RxPathProofs ----------------------------
(***************************************************************************)
(* Proofs about the way of a byte from the caller to the application.      *)
(*                                                                         *)
(* TCP and the polls cut the stream anywhere, so what the parser has seen  *)
(* says nothing by itself: an FFh may be the first half of a doubled one,  *)
(* or the start of a command whose rest is still in mTCP.  The invariant   *)
(* RInv therefore speaks of both at once.  What a terminal sends is a path *)
(* through the places that a stream of whole messages can be cut at        *)
(* (Places, Moves); Stream says that a path leads from the place where the *)
(* parser is (Follows) along the bytes that mTCP still has to the end of a *)
(* message.  A terminal lengthens the path by a message (StreamGrows), and *)
(* a poll cuts it (PathCut) and takes the parser along its first part      *)
(* (FilterPath, by induction over the bytes).                              *)
(*                                                                         *)
(* The rest is the ring: its contents grow at the end, and shrink from the *)
(* front, by what is put and taken (PutsRing, GetsRing), by induction too. *)
(***************************************************************************)
EXTENDS RxPath, SequenceTheorems, TLAPS

----------------------------------------------------------------------------
(***************************************************************************)
(* The two equations of every fold in RxPath.                              *)
(***************************************************************************)
PutFold    == INSTANCE FoldTheorems WITH op <- RingPut
GetFold    == INSTANCE FoldTheorems WITH op <- GetOne
FilterFold == INSTANCE FoldTheorems WITH op <- FilterNext
DoubleFold == INSTANCE FoldTheorems WITH op <- Doubled
HeardFold  == INSTANCE FoldTheorems WITH op <- KeepHeard
DataFold   == INSTANCE FoldTheorems WITH op <- KeepData
CallerFold == INSTANCE FoldTheorems WITH op <- KeepCaller

LEMMA PutsDef ==
  ASSUME NEW r PROVE \A s : Puts(r, s) = PutFold!Fold(r, s)
BY DEF Puts, PutFold!Fold, PutFold!Largest, FoldLeft, MapThenFoldSet, Max

LEMMA PutsNone ==
  ASSUME NEW r PROVE Puts(r, <<>>) = r
BY PutsDef, PutFold!FoldEmpty

LEMMA PutsOne ==
  ASSUME NEW r, NEW T, NEW s \in Seq(T), NEW b \in T
  PROVE  Puts(r, Append(s, b)) = RingPut(Puts(r, s), b)
BY PutsDef, PutFold!FoldAppend

LEMMA FilterDef ==
  ASSUME NEW t PROVE \A s : FilterAll(t, s) = FilterFold!Fold(Eaten(t), s)
BY DEF FilterAll, FilterFold!Fold, FilterFold!Largest, FoldLeft, MapThenFoldSet, Max

LEMMA FilterNone ==
  ASSUME NEW t PROVE FilterAll(t, <<>>) = Eaten(t)
BY FilterDef, FilterFold!FoldEmpty

LEMMA FilterOne ==
  ASSUME NEW t, NEW T, NEW s \in Seq(T), NEW b \in T
  PROVE  FilterAll(t, Append(s, b)) = FilterNext(FilterAll(t, s), b)
BY FilterDef, FilterFold!FoldAppend

LEMMA DoubleDef ==
  \A s : DoubleFF(s) = DoubleFold!Fold(<<>>, s)
BY DEF DoubleFF, DoubleFold!Fold, DoubleFold!Largest, FoldLeft, MapThenFoldSet, Max

LEMMA DoubleNone ==
  DoubleFF(<<>>) = <<>>
BY DoubleDef, DoubleFold!FoldEmpty

LEMMA DoubleOne ==
  ASSUME NEW T, NEW s \in Seq(T), NEW c \in T
  PROVE  DoubleFF(Append(s, c)) = Doubled(DoubleFF(s), c)
BY DoubleDef, DoubleFold!FoldAppend

LEMMA HeardDef ==
  \A s : Heard(s) = HeardFold!Fold(<<>>, s)
BY DEF Heard, HeardFold!Fold, HeardFold!Largest, FoldLeft, MapThenFoldSet, Max

LEMMA HeardNone ==
  Heard(<<>>) = <<>>
BY HeardDef, HeardFold!FoldEmpty

LEMMA HeardOne ==
  ASSUME NEW T, NEW s \in Seq(T), NEW r \in T
  PROVE  Heard(Append(s, r)) = KeepHeard(Heard(s), r)
BY HeardDef, HeardFold!FoldAppend

LEMMA DataDef ==
  \A s : DataOf(s) = DataFold!Fold(<<>>, s)
BY DEF DataOf, DataFold!Fold, DataFold!Largest, FoldLeft, MapThenFoldSet, Max

LEMMA DataNone ==
  DataOf(<<>>) = <<>>
BY DataDef, DataFold!FoldEmpty

LEMMA DataOne ==
  ASSUME NEW T, NEW s \in Seq(T), NEW b \in T
  PROVE  DataOf(Append(s, b)) = KeepData(DataOf(s), b)
BY DataDef, DataFold!FoldAppend

LEMMA CallerDef ==
  \A s : CallerBytes(s) = CallerFold!Fold(<<>>, s)
BY DEF CallerBytes, CallerFold!Fold, CallerFold!Largest, FoldLeft, MapThenFoldSet, Max

LEMMA CallerNone ==
  CallerBytes(<<>>) = <<>>
BY CallerDef, CallerFold!FoldEmpty

LEMMA CallerOne ==
  ASSUME NEW T, NEW s \in Seq(T), NEW b \in T
  PROVE  CallerBytes(Append(s, b)) = KeepCaller(CallerBytes(s), b)
BY CallerDef, CallerFold!FoldAppend

LEMMA GetsFold ==
  ASSUME NEW r PROVE /\ Gets(r, 0) = r
                     /\ \A k \in Nat : Gets(r, k + 1) = RingGet(Gets(r, k))
<1> DEFINE Upto(k) == [i \in 1 .. k |-> i]
<1>1. \A k : Gets(r, k) = GetFold!Fold(r, Upto(k))
  BY DEF Gets, GetFold!Fold, GetFold!Largest, FoldLeft, MapThenFoldSet, Max
<1>2. Upto(0) = <<>>
  <2>1. Upto(0) \in Seq(Nat) /\ Len(Upto(0)) = 0
    OBVIOUS
  <2> QED  BY <2>1, EmptySeq
<1>3. ASSUME NEW k \in Nat PROVE Upto(k + 1) = Append(Upto(k), k + 1)
  <2>1. /\ Upto(k) \in Seq(Nat) /\ Len(Upto(k)) = k
        /\ Upto(k + 1) \in Seq(Nat) /\ Len(Upto(k + 1)) = k + 1
    OBVIOUS
  <2>2. \A i \in 1 .. k : Upto(k)[i] = i /\ Upto(k + 1)[i] = i
    OBVIOUS
  <2>3. Upto(k + 1)[k + 1] = k + 1
    OBVIOUS
  <2> HIDE DEF Upto
  <2>4. /\ Append(Upto(k), k + 1) \in Seq(Nat)
        /\ Len(Append(Upto(k), k + 1)) = k + 1
        /\ \A i \in 1 .. k : Append(Upto(k), k + 1)[i] = i
        /\ Append(Upto(k), k + 1)[k + 1] = k + 1
    BY <2>1, <2>2, AppendProperties
  <2>5. \A i \in 1 .. k + 1 : Append(Upto(k), k + 1)[i] = Upto(k + 1)[i]
    <3> SUFFICES ASSUME NEW i \in 1 .. k + 1
                 PROVE Append(Upto(k), k + 1)[i] = Upto(k + 1)[i]
      OBVIOUS
    <3>1. i = k + 1 \/ i \in 1 .. k  OBVIOUS
    <3> QED  BY <3>1, <2>2, <2>3, <2>4
  <2> QED  BY <2>1, <2>4, <2>5, SeqEqual
<1>4. \A k \in Nat : Upto(k) \in Seq(Nat)
  OBVIOUS
<1> HIDE DEF Upto
<1>5. Gets(r, 0) = r
  BY <1>1, <1>2, GetFold!FoldEmpty
<1>6. ASSUME NEW k \in Nat PROVE Gets(r, k + 1) = RingGet(Gets(r, k))
  <2>1. k + 1 \in Nat /\ Upto(k) \in Seq(Nat)
    BY <1>4
  <2>2. GetFold!Fold(r, Append(Upto(k), k + 1)) = GetOne(GetFold!Fold(r, Upto(k)), k + 1)
    BY <2>1, GetFold!FoldAppend
  <2> QED  BY <1>1, <1>3, <2>2 DEF GetOne
<1> QED  BY <1>5, <1>6

----------------------------------------------------------------------------
(***************************************************************************)
(* What the bytes, the ring and the parser can be.                         *)
(***************************************************************************)
Codes == {"x", "IAC", "none", "text", "SB", "SE", "NAWS"} \cup Commands
         \cup {"BINARY", "ECHO", "SGA", "TTYPE"}
         \cup PeerOpts \cup UNION {ToSet(size) : size \in Sizes}
Wire   == [code : Codes, n : Nat]
Caller == {b \in Wire : b.n > 0}

Shapes == [head : 0 .. RingSize - 1, tail : 0 .. RingSize - 1,
           count : 0 .. RingSize, data : [0 .. RingSize - 1 -> Wire]]
Rings  == {r \in Shapes : (r.head + r.count) % RingSize = r.tail}

LEMMA RingSizes == RingSize \in Nat \ {0} /\ Chunk \in 1 .. RingSize
BY RxAssumption

LEMMA TextIsWire == Text \in Wire /\ NoByte \in Wire /\ Text.n = 0
BY DEF Text, NoByte, B, Wire, Codes

LEMMA ContentsIs ==
  ASSUME NEW r \in Rings
  PROVE  /\ Contents(r) \in Seq(Wire) /\ Len(Contents(r)) = r.count
         /\ \A i \in 1 .. r.count : Contents(r)[i] = r.data[(r.head + i - 1) % RingSize]
<1>1. /\ r.count \in Nat /\ r.head \in Nat
      /\ r.data \in [0 .. RingSize - 1 -> Wire]
  BY RingSizes DEF Rings, Shapes
<1>2. ASSUME NEW i \in 1 .. r.count PROVE r.data[(r.head + i - 1) % RingSize] \in Wire
  <2>1. (r.head + i - 1) % RingSize \in 0 .. RingSize - 1
    BY <1>1, RingSizes
  <2> QED  BY <1>1, <2>1
<1> QED  BY <1>1, <1>2 DEF Contents

\* ring_init
LEMMA InitRing ==
  ASSUME NEW r \in Rings
  PROVE  RingInit(r) \in Rings /\ Contents(RingInit(r)) = <<>>
<1>1. r \in Shapes
  BY DEF Rings
<1>2. RingInit(r) \in Shapes
  <2>1. 0 \in 0 .. RingSize - 1 /\ 0 \in 0 .. RingSize
    BY RingSizes
  <2> QED  BY <1>1, <2>1 DEF RingInit, Shapes
<1>3. RingInit(r).head = 0 /\ RingInit(r).tail = 0 /\ RingInit(r).count = 0
  BY <1>1 DEF RingInit, Shapes
<1>4. RingInit(r) \in Rings
  BY <1>2, <1>3, RingSizes DEF Rings
<1> QED  BY <1>3, <1>4, ContentsIs, EmptySeq

LEMMA EmptyRingIs == EmptyRing \in Rings /\ Contents(EmptyRing) = <<>>
<1>1. EmptyRing \in Rings /\ EmptyRing.count = 0
  BY RingSizes, TextIsWire DEF EmptyRing, Rings, Shapes
<1> QED  BY <1>1, ContentsIs, EmptySeq

LEMMA RingFields ==
  ASSUME NEW r \in Rings
  PROVE  /\ r \in Shapes
         /\ r.head \in 0 .. RingSize - 1 /\ r.tail \in 0 .. RingSize - 1
         /\ r.count \in 0 .. RingSize /\ r.data \in [0 .. RingSize - 1 -> Wire]
         /\ (r.head + r.count) % RingSize = r.tail
BY DEF Rings, Shapes

\* How the indices wrap: h and c stand for the head and the count.
Wraps(R, h, c) ==
    /\ c < R => (h + (c + 1)) % R = (((h + c) % R) + 1) % R
    /\ c < R => \A i \in 1 .. c : (h + i - 1) % R # (h + c) % R
    /\ c > 0 => (((h + 1) % R) + (c - 1)) % R = (h + c) % R
    /\ \A i \in 1 .. c - 1 : (((h + 1) % R) + i - 1) % R = (h + (i + 1) - 1) % R

LEMMA Indices ==
  ASSUME NEW R \in Nat \ {0}, NEW h \in 0 .. R - 1, NEW c \in 0 .. R
  PROVE  Wraps(R, h, c)
<1> DEFINE W(a) == IF a < R THEN a ELSE a - R
<1>1. \A a \in 0 .. 2 * R - 1 : a % R = W(a)
  <2>1. /\ \A a \in 0 .. R - 1 : a % R = a
        /\ \A a \in R .. 2 * R - 1 : a % R = a - R
    OBVIOUS
  <2> QED BY <2>1
<1>2. (h + 1) % R = W(h + 1)
  BY <1>1
<1>3. (h + c) % R = W(h + c)
  BY <1>1
<1>4. ASSUME c < R PROVE (h + (c + 1)) % R = (((h + c) % R) + 1) % R
  <2>1. (((h + c) % R) + 1) % R = W(W(h + c) + 1)
    BY <1>1, <1>3, <1>4
  <2>2. CASE h + (c + 1) < 2 * R
    <3>1. (h + (c + 1)) % R = W(h + (c + 1))
      BY <1>1, <2>2
    <3> QED BY <2>1, <3>1, <1>4
  <2>3. CASE h + (c + 1) >= 2 * R
    BY <2>3, <1>4
  <2> QED  BY <2>2, <2>3
<1>5. ASSUME c < R, NEW i \in 1 .. c PROVE (h + i - 1) % R # (h + c) % R
  <2>1. (h + i - 1) % R = W(h + i - 1)
    BY <1>1
  <2> QED BY <1>3, <1>5, <2>1
<1>6. ASSUME c > 0 PROVE (((h + 1) % R) + (c - 1)) % R = (h + c) % R
  <2>1. (((h + 1) % R) + (c - 1)) % R = W(W(h + 1) + (c - 1))
    BY <1>1, <1>2, <1>6
  <2> QED BY <1>3, <1>6, <2>1
<1>7. ASSUME NEW i \in 1 .. c - 1 PROVE (((h + 1) % R) + i - 1) % R = (h + (i + 1) - 1) % R
  <2>1. (((h + 1) % R) + i - 1) % R = W(W(h + 1) + i - 1)
    BY <1>1, <1>2
  <2>2. (h + (i + 1) - 1) % R = W(h + i)
    BY <1>1
  <2> QED BY <2>1, <2>2
<1> QED BY <1>4, <1>5, <1>6, <1>7 DEF Wraps

\* ring_put: a byte goes to the end, if there is room.
LEMMA PutFields ==
  ASSUME NEW r \in Rings, NEW b \in Wire, r.count < RingSize
  PROVE  /\ RingPut(r, b) \in Rings
         /\ RingPut(r, b).head = r.head /\ RingPut(r, b).count = r.count + 1
         /\ RingPut(r, b).data = [r.data EXCEPT ![r.tail] = b]
<1> DEFINE z == RingPut(r, b)
<1>1. /\ r \in Shapes
      /\ r.head \in 0 .. RingSize - 1 /\ r.tail \in 0 .. RingSize - 1
      /\ r.count \in 0 .. RingSize /\ r.data \in [0 .. RingSize - 1 -> Wire]
      /\ (r.head + r.count) % RingSize = r.tail
  BY RingFields
<1>w. Wraps(RingSize, r.head, r.count)
  BY <1>1, RingSizes, Indices
<1>2. Succ(r.tail) \in 0 .. RingSize - 1
  BY <1>1, RingSizes DEF Succ
<1>3. r.count + 1 \in 0 .. RingSize
  BY <1>1, RingSizes
<1> DEFINE x == Succ(r.tail)
           y == r.count + 1
<1>4. z = [r EXCEPT !.data[r.tail] = b, !.tail = x, !.count = y]
  BY <1>1, RingSizes DEF RingPut
<1>5. (r.head + y) % RingSize = x
  BY <1>1, <1>w DEF Succ, Wraps
<1>6. x \in 0 .. RingSize - 1 /\ y \in 0 .. RingSize
  BY <1>2, <1>3
<1> HIDE DEF x, y, z
<1>7. z \in Shapes
  BY <1>1, <1>4, <1>6 DEF Shapes
<1>8. z.head = r.head /\ z.tail = x /\ z.count = y
  BY <1>1, <1>4, <1>6 DEF Shapes
<1>9. z.data = [r.data EXCEPT ![r.tail] = b]
  BY <1>1, <1>4, <1>6 DEF Shapes
<1> QED  BY <1>5, <1>7, <1>8, <1>9 DEF Rings, y, z

LEMMA PutRing ==
  ASSUME NEW r \in Rings, NEW b \in Wire, r.count < RingSize
  PROVE  Contents(RingPut(r, b)) = Append(Contents(r), b)
<1> DEFINE z == RingPut(r, b)
           c == Contents(r)
           d == Contents(z)
<1>1. /\ r.head \in 0 .. RingSize - 1 /\ r.tail \in 0 .. RingSize - 1
      /\ r.count \in 0 .. RingSize /\ r.data \in [0 .. RingSize - 1 -> Wire]
      /\ (r.head + r.count) % RingSize = r.tail
  BY RingFields
<1>w. Wraps(RingSize, r.head, r.count)
  BY <1>1, RingSizes, Indices
<1>2. /\ z \in Rings
      /\ z.head = r.head /\ z.count = r.count + 1
      /\ z.data = [r.data EXCEPT ![r.tail] = b]
  BY PutFields
<1> HIDE DEF z
<1>3. /\ c \in Seq(Wire) /\ Len(c) = r.count
      /\ \A i \in 1 .. r.count : c[i] = r.data[(r.head + i - 1) % RingSize]
  BY ContentsIs
<1>4. /\ d \in Seq(Wire) /\ Len(d) = r.count + 1
      /\ \A i \in 1 .. r.count + 1 : d[i] = z.data[(r.head + i - 1) % RingSize]
  BY <1>2, ContentsIs
<1>5. ASSUME NEW i \in 1 .. r.count PROVE d[i] = c[i]
  <2> DEFINE a == (r.head + i - 1) % RingSize
  <2>1. a \in 0 .. RingSize - 1
    BY <1>1, RingSizes
  <2>2. a # r.tail
    BY <1>1, <1>w DEF Wraps
  <2>3. i \in 1 .. r.count + 1
    BY <1>1
  <2>4. d[i] = z.data[a] /\ c[i] = r.data[a]
    BY <1>3, <1>4, <2>3
  <2> HIDE DEF a
  <2> QED  BY <1>1, <1>2, <2>1, <2>2, <2>4
<1>6. d[r.count + 1] = b
  <2>1. r.count + 1 \in 1 .. r.count + 1 /\ r.head + (r.count + 1) - 1 = r.head + r.count
    BY <1>1
  <2>2. d[r.count + 1] = z.data[r.tail]
    BY <1>1, <1>4, <2>1
  <2> QED  BY <1>1, <1>2, <2>2
<1>7. /\ Len(d) = Len(c) + 1 /\ Len(c) \in Nat
      /\ \A i \in 1 .. Len(c) : d[i] = c[i]
      /\ d[Len(c) + 1] = b
  BY <1>1, <1>3, <1>4, <1>5, <1>6
<1>8. c \in Seq(Wire) /\ d \in Seq(Wire)
  BY <1>3, <1>4
<1> HIDE DEF c, d
<1>9. /\ Append(c, b) \in Seq(Wire) /\ Len(Append(c, b)) = Len(c) + 1
      /\ \A i \in 1 .. Len(c) : Append(c, b)[i] = c[i]
      /\ Append(c, b)[Len(c) + 1] = b
  BY <1>8, AppendProperties
<1>10. ASSUME NEW i \in 1 .. Len(d) PROVE d[i] = Append(c, b)[i]
  <2>1. i = Len(c) + 1 \/ i \in 1 .. Len(c)
    BY <1>7
  <2> QED  BY <1>7, <1>9, <2>1
<1>11. d = Append(c, b)
  BY <1>7, <1>8, <1>9, <1>10, SeqEqual
<1> QED  BY <1>11 DEF c, d, z

\* ring_get: the oldest byte goes.
LEMMA GetRing ==
  ASSUME NEW r \in Rings, r.count > 0
  PROVE  /\ RingGet(r) \in Rings /\ RingGet(r).count = r.count - 1
         /\ \A i \in 1 .. r.count - 1 : Contents(RingGet(r))[i] = Contents(r)[i + 1]
<1> DEFINE z == RingGet(r)
           x == Succ(r.head)
           y == r.count - 1
<1>1. /\ r \in Shapes
      /\ r.head \in 0 .. RingSize - 1 /\ r.tail \in 0 .. RingSize - 1
      /\ r.count \in 0 .. RingSize /\ r.data \in [0 .. RingSize - 1 -> Wire]
      /\ (r.head + r.count) % RingSize = r.tail
  BY RingFields
<1>w. Wraps(RingSize, r.head, r.count)
  BY <1>1, RingSizes, Indices
<1>2. x \in 0 .. RingSize - 1 /\ y \in 0 .. RingSize
  BY <1>1, RingSizes DEF Succ
<1>3. z = [r EXCEPT !.head = x, !.count = y]
  BY <1>1, RingSizes DEF RingGet
<1>4. (x + y) % RingSize = r.tail
  BY <1>1, <1>w DEF Succ, Wraps
<1>5. ASSUME NEW i \in 1 .. y
      PROVE  (x + i - 1) % RingSize = (r.head + (i + 1) - 1) % RingSize
  BY <1>1, <1>w DEF Succ, Wraps
<1>6. \A i \in 1 .. y : i + 1 \in 1 .. r.count
  BY <1>1
<1> HIDE DEF x, z
<1>7. z \in Shapes
  BY <1>1, <1>2, <1>3 DEF Shapes
<1>8. z.head = x /\ z.tail = r.tail /\ z.count = y /\ z.data = r.data
  BY <1>1, <1>2, <1>3 DEF Shapes
<1>9. z \in Rings
  BY <1>4, <1>7, <1>8 DEF Rings
<1>10. ASSUME NEW i \in 1 .. y PROVE Contents(z)[i] = Contents(r)[i + 1]
  <2>1. Contents(z)[i] = z.data[(z.head + i - 1) % RingSize]
    BY <1>8, <1>9, ContentsIs
  <2>2. Contents(r)[i + 1] = r.data[(r.head + (i + 1) - 1) % RingSize]
    BY <1>6, ContentsIs
  <2> QED  BY <1>5, <1>8, <2>1, <2>2
<1> QED  BY <1>8, <1>9, <1>10 DEF z

----------------------------------------------------------------------------
(***************************************************************************)
(* Sequences.                                                              *)
(***************************************************************************)
LEMMA ConcatAppend ==
  ASSUME NEW T, NEW s \in Seq(T), NEW t \in Seq(T), NEW b \in T
  PROVE  s \o Append(t, b) = Append(s \o t, b)
<1>1. /\ <<b>> \in Seq(T) /\ s \o t \in Seq(T)
      /\ Append(t, b) = t \o <<b>>
  BY AppendIsConcat, ConcatProperties
<1>2. Append(s \o t, b) = (s \o t) \o <<b>>
  BY <1>1, AppendIsConcat
<1> QED  BY <1>1, <1>2, ConcatAssociative

\* The first k bytes of a sequence and those after them.
LEMMA CutAt ==
  ASSUME NEW T, NEW s \in Seq(T), NEW k \in 0 .. Len(s)
  PROVE  /\ SubSeq(s, 1, k) \in Seq(T) /\ Len(SubSeq(s, 1, k)) = k
         /\ SubSeq(s, k + 1, Len(s)) \in Seq(T)
         /\ Len(SubSeq(s, k + 1, Len(s))) = Len(s) - k
         /\ \A i \in 1 .. k : SubSeq(s, 1, k)[i] = s[i]
         /\ \A i \in 1 .. Len(s) - k : SubSeq(s, k + 1, Len(s))[i] = s[i + k]
         /\ SubSeq(s, 1, k) \o SubSeq(s, k + 1, Len(s)) = s
<1>1. Len(s) \in Nat /\ \A i \in 1 .. Len(s) : s[i] \in T
  BY LenProperties, ElementOfSeq
<1>2. /\ SubSeq(s, 1, k) \in Seq(T) /\ Len(SubSeq(s, 1, k)) = k
      /\ \A i \in 1 .. k : SubSeq(s, 1, k)[i] = s[i]
  BY <1>1, SubSeqProperties
<1>3. /\ SubSeq(s, k + 1, Len(s)) \in Seq(T)
      /\ Len(SubSeq(s, k + 1, Len(s))) = Len(s) - k
      /\ \A i \in 1 .. Len(s) - k : SubSeq(s, k + 1, Len(s))[i] = s[i + k]
  BY <1>1, SubSeqProperties
<1>4. SubSeq(s, 1, k) \o SubSeq(s, k + 1, Len(s)) = s
  <2>1. 1 \in 1 .. Len(s) + 1 /\ k \in 1 - 1 .. Len(s) /\ Len(s) \in k .. Len(s)
    BY <1>1
  <2>2. SubSeq(s, 1, k) \o SubSeq(s, k + 1, Len(s)) = SubSeq(s, 1, Len(s))
    BY <2>1, ConcatAdjacentSubSeq
  <2> QED  BY <2>2, SubSeqFull
<1> QED  BY <1>2, <1>3, <1>4

\* Bytes that fit go to the end of the ring, in order.
LEMMA PutsRing ==
  ASSUME NEW r \in Rings, NEW s \in Seq(Wire), r.count + Len(s) <= RingSize
  PROVE  Puts(r, s) \in Rings /\ Contents(Puts(r, s)) = Contents(r) \o s
<1> DEFINE Good(q) == r.count + Len(q) <= RingSize =>
                        /\ Puts(r, q) \in Rings
                        /\ Puts(r, q).count = r.count + Len(q)
                        /\ Contents(Puts(r, q)) = Contents(r) \o q
           G == {q \in Seq(Wire) : Good(q)}
<1>1. r.count \in 0 .. RingSize /\ Contents(r) \in Seq(Wire) /\ RingSize \in Nat
  BY RingFields, ContentsIs, RingSizes
<1>2. <<>> \in G
  <2>1. Puts(r, <<>>) = r /\ <<>> \in Seq(Wire) /\ Len(<<>>) = 0
    BY PutsNone, EmptySeq
  <2>2. Contents(r) \o <<>> = Contents(r)
    BY <1>1, ConcatEmptySeq
  <2> QED  BY <1>1, <2>1, <2>2
<1>3. ASSUME NEW q \in Seq(Wire), Good(q), NEW b \in Wire PROVE Good(Append(q, b))
  <2> HIDE DEF G
  <2>1. /\ Append(q, b) \in Seq(Wire)
        /\ Len(Append(q, b)) = Len(q) + 1 /\ Len(q) \in Nat
    BY AppendProperties, LenProperties
  <2>2. SUFFICES ASSUME r.count + Len(Append(q, b)) <= RingSize PROVE Good(Append(q, b))
    OBVIOUS
  <2> DEFINE z == Puts(r, q)
  <2>3. /\ z \in Rings /\ z.count = r.count + Len(q)
        /\ Contents(z) = Contents(r) \o q
    BY <1>1, <1>3, <2>1, <2>2
  <2>4. Puts(r, Append(q, b)) = RingPut(z, b)
    <3> HIDE DEF Good
    <3> QED  BY PutsOne
  <2>5. z.count < RingSize
    BY <1>1, <2>1, <2>2, <2>3
  <2> HIDE DEF z
  <2>6. RingPut(z, b) \in Rings /\ RingPut(z, b).count = z.count + 1
    BY <2>3, <2>5, PutFields
  <2>7. Contents(RingPut(z, b)) = Append(Contents(z), b)
    BY <2>3, <2>5, PutRing
  <2>8. Contents(r) \o Append(q, b) = Append(Contents(r) \o q, b)
    <3> HIDE DEF Good
    <3> DEFINE c == Contents(r)
    <3>1. c \in Seq(Wire)
      BY <1>1
    <3> HIDE DEF c
    <3>2. c \o Append(q, b) = Append(c \o q, b)
      BY <3>1, ConcatAppend
    <3> QED  BY <3>2 DEF c
  <2> DEFINE a == Append(q, b)
  <2>9. Puts(r, a) = RingPut(z, b) /\ Len(a) = Len(q) + 1
    BY <2>1, <2>4, Zenon
  <2>10. Contents(Puts(r, a)) = Contents(r) \o a
    BY <2>3, <2>4, <2>7, <2>8, Zenon
  <2> HIDE DEF a
  <2>11. Puts(r, a) \in Rings /\ Puts(r, a).count = r.count + Len(a)
    <3> DEFINE w == RingPut(z, b)
    <3>1. Len(q) \in Nat /\ r.count \in Int
      BY <1>1, LenProperties
    <3>2. w \in Rings /\ w.count = z.count + 1 /\ z.count = r.count + Len(q)
      BY <2>3, <2>6
    <3> HIDE DEF w
    <3>3. w.count = r.count + Len(a)
      BY <2>9, <3>1, <3>2
    <3> QED  BY <2>9, <3>2, <3>3, Zenon DEF w
  <2>12. Good(a)
    BY <2>10, <2>11, Zenon
  <2> QED  BY <2>12 DEF a
<1>4. G = Seq(Wire)
  <2> HIDE DEF G
  <2>1. G \subseteq Seq(Wire)  BY DEF G
  <2>2. \A q \in G, b \in Wire : Append(q, b) \in G
    BY <1>3, AppendProperties DEF G
  <2> QED  BY <1>2, <2>1, <2>2, PutFold!SeqInduction
<1> QED  BY <1>4

\* Taking k bytes leaves those after them.
LEMMA GetsRing ==
  ASSUME NEW r \in Rings, NEW k \in 0 .. r.count
  PROVE  /\ Gets(r, k) \in Rings
         /\ Contents(Gets(r, k)) = SubSeq(Contents(r), k + 1, r.count)
<1> DEFINE Good(j) == j <= r.count =>
                        /\ Gets(r, j) \in Rings /\ Gets(r, j).count = r.count - j
                        /\ \A i \in 1 .. r.count - j :
                              Contents(Gets(r, j))[i] = Contents(r)[i + j]
           G == {j \in Nat : Good(j)}
<1>1. /\ r.count \in 0 .. RingSize /\ RingSize \in Nat
      /\ Contents(r) \in Seq(Wire) /\ Len(Contents(r)) = r.count
  BY RingFields, ContentsIs, RingSizes
<1>2. 0 \in G
  <2>1. Gets(r, 0) = r
    BY GetsFold
  <2>2. r.count \in Nat /\ \A i \in 1 .. r.count : i + 0 = i
    BY <1>1
  <2> QED  BY <2>1, <2>2
<1>3. ASSUME NEW j \in G PROVE j + 1 \in G
  <2>1. SUFFICES ASSUME j + 1 <= r.count PROVE Good(j + 1)
    OBVIOUS
  <2> DEFINE z == Gets(r, j)
  <2>2. /\ z \in Rings /\ z.count = r.count - j
        /\ \A i \in 1 .. r.count - j : Contents(z)[i] = Contents(r)[i + j]
    BY <1>1, <2>1
  <2>3. Gets(r, j + 1) = RingGet(z)
    BY GetsFold
  <2> HIDE DEF z
  <2>4. /\ RingGet(z) \in Rings /\ RingGet(z).count = z.count - 1
        /\ \A i \in 1 .. z.count - 1 : Contents(RingGet(z))[i] = Contents(z)[i + 1]
    BY <1>1, <2>1, <2>2, GetRing
  <2>5. ASSUME NEW i \in 1 .. r.count - (j + 1)
        PROVE Contents(RingGet(z))[i] = Contents(r)[i + (j + 1)]
    <3>1. i \in 1 .. z.count - 1 /\ i + 1 \in 1 .. r.count - j /\ (i + 1) + j = i + (j + 1)
      BY <1>1, <2>1, <2>2
    <3> QED  BY <2>2, <2>4, <3>1
  <2> QED  BY <1>1, <2>1, <2>2, <2>3, <2>4, <2>5
<1>4. G = Nat
  <2> HIDE DEF G
  <2>1. G \subseteq Nat  BY DEF G
  <2> QED  BY <1>2, <1>3, <2>1, PutFold!Induction
<1>5. k \in Nat /\ Good(k) /\ k <= r.count
  BY <1>1, <1>4
<1> DEFINE a == Contents(Gets(r, k))
           b == SubSeq(Contents(r), k + 1, r.count)
<1>6. a \in Seq(Wire) /\ Len(a) = r.count - k
  BY <1>5, ContentsIs
<1>7. /\ b \in Seq(Wire) /\ Len(b) = r.count - k
      /\ \A i \in 1 .. r.count - k : b[i] = Contents(r)[i + k]
  BY <1>1, CutAt
<1>8. \A i \in 1 .. r.count - k : a[i] = b[i]
  BY <1>5, <1>7
<1>9. a = b
  <2> HIDE DEF a, b
  <2> QED  BY <1>6, <1>7, <1>8, SeqEqual
<1> QED  BY <1>5, <1>9

\* The modem's texts are not the caller's bytes.
LEMMA CallerType ==
  ASSUME NEW s \in Seq(Wire) PROVE CallerBytes(s) \in Seq(Wire)
<1> DEFINE G == {q \in Seq(Wire) : CallerBytes(q) \in Seq(Wire)}
<1>1. <<>> \in G
  BY CallerNone, EmptySeq
<1>2. ASSUME NEW q \in Seq(Wire), CallerBytes(q) \in Seq(Wire), NEW b \in Wire
      PROVE  CallerBytes(Append(q, b)) \in Seq(Wire)
  <2>1. CallerBytes(Append(q, b)) = KeepCaller(CallerBytes(q), b)
    BY CallerOne
  <2>2. KeepCaller(CallerBytes(q), b) \in Seq(Wire)
    BY <1>2, AppendProperties DEF KeepCaller
  <2> QED  BY <2>1, <2>2, Zenon
<1>3. G = Seq(Wire)
  <2>1. \A q \in G, b \in Wire : Append(q, b) \in G
    BY <1>2, AppendProperties
  <2>2. G \subseteq Seq(Wire)  OBVIOUS
  <2> HIDE DEF G
  <2> QED  BY <1>1, <2>1, <2>2, PutFold!SeqInduction
<1> QED  BY <1>3

LEMMA CallerConcat ==
  ASSUME NEW s \in Seq(Wire), NEW t \in Seq(Wire)
  PROVE  CallerBytes(s \o t) = CallerBytes(s) \o CallerBytes(t)
<1> DEFINE Good(q) == CallerBytes(s \o q) = CallerBytes(s) \o CallerBytes(q)
           G == {q \in Seq(Wire) : Good(q)}
<1>0. CallerBytes(s) \in Seq(Wire)
  BY CallerType
<1>1. <<>> \in G
  <2>1. s \o <<>> = s
    BY ConcatEmptySeq
  <2>2. CallerBytes(s) \o <<>> = CallerBytes(s)
    BY <1>0, ConcatEmptySeq
  <2>3. <<>> \in Seq(Wire)
    BY EmptySeq
  <2>4. CallerBytes(<<>>) = <<>>
    BY CallerNone
  <2> QED  BY <2>1, <2>2, <2>3, <2>4, Zenon
<1>2. ASSUME NEW q \in Seq(Wire), Good(q), NEW b \in Wire PROVE Good(Append(q, b))
  <2> HIDE DEF G
  <2> DEFINE c == CallerBytes(s)
             d == CallerBytes(q)
             e == CallerBytes(s \o q)
  <2>1. /\ c \in Seq(Wire) /\ d \in Seq(Wire)
        /\ e = c \o d
    BY <1>2, CallerType
  <2>2. s \o Append(q, b) = Append(s \o q, b)
    BY ConcatAppend
  <2>3. s \o q \in Seq(Wire)
    BY ConcatProperties
  <2>4. CallerBytes(Append(s \o q, b)) = KeepCaller(e, b)
    BY <2>3, CallerOne
  <2>5. CallerBytes(Append(q, b)) = KeepCaller(d, b)
    BY CallerOne
  <2>6. KeepCaller(e, b) = c \o KeepCaller(d, b)
    <3> HIDE DEF c, d, e
    <3>1. c \o Append(d, b) = Append(c \o d, b)
      BY <2>1, ConcatAppend
    <3>2. CASE b = Text
      BY <2>1, <3>2 DEF KeepCaller
    <3>3. CASE b # Text
      <4>1. KeepCaller(e, b) = Append(e, b) /\ KeepCaller(d, b) = Append(d, b)
        BY <3>3, Zenon DEF KeepCaller
      <4> QED  BY <2>1, <3>1, <4>1, Zenon
    <3> QED  BY <3>2, <3>3
  <2> HIDE DEF c, d, e
  <2>7. CallerBytes(s \o Append(q, b)) = c \o CallerBytes(Append(q, b))
    BY <2>2, <2>4, <2>5, <2>6, Zenon
  <2> QED  BY <2>7, Zenon DEF c
<1>3. G = Seq(Wire)
  <2>1. \A q \in G, b \in Wire : Append(q, b) \in G
    <3> HIDE DEF Good
    <3> QED  BY <1>2, AppendProperties
  <2>2. G \subseteq Seq(Wire)  OBVIOUS
  <2> HIDE DEF G
  <2> QED  BY <1>1, <2>1, <2>2, PutFold!SeqInduction
<1> QED  BY <1>3

LEMMA CallerKeeps ==
  ASSUME NEW s \in Seq(Caller) PROVE CallerBytes(s) = s
<1> DEFINE G == {q \in Seq(Caller) : CallerBytes(q) = q}
<1>1. <<>> \in G
  BY CallerNone, EmptySeq
<1>2. ASSUME NEW q \in Seq(Caller), CallerBytes(q) = q, NEW b \in Caller
      PROVE  CallerBytes(Append(q, b)) = Append(q, b)
  <2>1. CallerBytes(Append(q, b)) = KeepCaller(CallerBytes(q), b)
    BY CallerOne
  <2>2. b # Text
    BY TextIsWire DEF Caller
  <2>3. KeepCaller(q, b) = Append(q, b)
    BY <2>2, Zenon DEF KeepCaller
  <2> QED  BY <1>2, <2>1, <2>3, Zenon
<1>3. G = Seq(Caller)
  <2>1. \A q \in G, b \in Caller : Append(q, b) \in G
    BY <1>2, AppendProperties
  <2>2. G \subseteq Seq(Caller)  OBVIOUS
  <2> HIDE DEF G
  <2> QED  BY <1>1, <2>1, <2>2, PutFold!SeqInduction
<1> QED  BY <1>3

\* A text of the modem changes nothing for the caller's bytes.
LEMMA SayingRing ==
  ASSUME NEW r \in Rings, NEW z \in Saying(r)
  PROVE  z \in Rings /\ CallerBytes(Contents(z)) = CallerBytes(Contents(r))
<1>1. CASE z = r
  BY <1>1
<1>2. CASE z = RingPut(r, Text) /\ r.count < RingSize
  <2>1. z \in Rings /\ Contents(z) = Append(Contents(r), Text)
    BY <1>2, PutFields, PutRing, TextIsWire
  <2>2. CallerBytes(Append(Contents(r), Text)) = KeepCaller(CallerBytes(Contents(r)), Text)
    <3> DEFINE c == Contents(r)
               x == Text
    <3>1. c \in Seq(Wire) /\ x \in Wire
      BY ContentsIs, TextIsWire
    <3> HIDE DEF c, x
    <3>2. CallerBytes(Append(c, x)) = KeepCaller(CallerBytes(c), x)
      BY <3>1, CallerOne
    <3> QED  BY <3>2 DEF c, x
  <2>3. KeepCaller(CallerBytes(Contents(r)), Text) = CallerBytes(Contents(r))
    BY Zenon DEF KeepCaller
  <2> QED  BY <2>1, <2>2, <2>3, Zenon
<1>3. CASE z = RingPut(r, Text) /\ ~(r.count < RingSize)
  <2>1. r.count >= RingSize
    BY <1>3, RingFields, RingSizes
  <2>2. z = r
    BY <1>3, <2>1 DEF RingPut
  <2> QED  BY <2>2
<1> QED  BY <1>1, <1>2, <1>3 DEF Saying

----------------------------------------------------------------------------
(***************************************************************************)
(* What a terminal sends, as a path.                                       *)
(***************************************************************************)
\* Where the parser is in it: between messages, after IAC, after a command, or in
\* the report of a window size, of which i - 1 bytes have come.
At(a)          == [at |-> a, size |-> <<>>, i |-> 0]
In(a, size, i) == [at |-> a, size |-> size, i |-> i]
Places(K) == {At(a) : a \in {"data", "iac", "cmd"}}
             \cup {In(a, size, i) : a \in {"opt", "size", "ff", "end"}, size \in K, i \in 1 .. 5}

\* Byte b leads from place q to place r, outside of reports.
Between(q, b, r) ==
    \/ q = At("data") /\ b.code # "IAC" /\ b.n > 0 /\ r = At("data")
    \/ q = At("data") /\ b = B("IAC") /\ r = At("iac")
    \/ q = At("iac") /\ b.code = "IAC" /\ b.n > 0 /\ r = At("data")
    \/ q = At("iac") /\ b.code \in Commands /\ b.n = 0 /\ r = At("cmd")
    \/ q = At("cmd") /\ b.n = 0 /\ r = At("data")

\* The same in the report of a size.
OfSize(size, i, q, b, r) ==
    \/ q = In("size", size, i) /\ size[i] # "IAC" /\ b = B(size[i]) /\ r = In("size", size, i + 1)
    \/ q = In("size", size, i) /\ size[i] = "IAC" /\ b = B("IAC") /\ r = In("ff", size, i)
    \/ q = In("ff", size, i) /\ b = B("IAC") /\ r = In("size", size, i + 1)
Reports(size, q, b, r) ==
    \/ q = At("iac") /\ b = B("SB") /\ r = In("opt", size, 1)
    \/ q = In("opt", size, 1) /\ b = B("NAWS") /\ r = In("size", size, 1)
    \/ \E i \in 1 .. 4 : OfSize(size, i, q, b, r)
    \/ q = In("size", size, 5) /\ b = B("IAC") /\ r = In("end", size, 5)
    \/ q = In("end", size, 5) /\ b = B("SE") /\ r = At("data")

Moves(K, q, b, r) == Between(q, b, r) \/ \E size \in K : Reports(size, q, b, r)

\* s leads from q to r.
Leads(K, s, lab) == \A i \in 1 .. Len(s) : Moves(K, lab[i], s[i], lab[i + 1])
Path(K, q, s, r) ==
    \E lab \in [1 .. Len(s) + 1 -> Places(K)] :
        lab[1] = q /\ lab[Len(s) + 1] = r /\ Leads(K, s, lab)

LEMMA PathNone ==
  ASSUME NEW K, NEW q \in Places(K) PROVE Path(K, q, <<>>, q)
<1>1. Len(<<>>) = 0
  BY EmptySeq
<1>2. [i \in 1 .. 1 |-> q] \in [1 .. 0 + 1 -> Places(K)]
  OBVIOUS
<1> DEFINE lab == [i \in 1 .. 1 |-> q]
<1>3. lab \in [1 .. 0 + 1 -> Places(K)] /\ lab[1] = q /\ lab[0 + 1] = q
  BY <1>2
<1>4. Leads(K, <<>>, lab)
  BY <1>1 DEF Leads
<1> HIDE DEF lab
<1> QED  BY <1>1, <1>3, <1>4 DEF Path

LEMMA PathStays ==
  ASSUME NEW K, NEW q, NEW r, Path(K, q, <<>>, r) PROVE q = r
<1>1. Len(<<>>) = 0
  BY EmptySeq
<1> QED  BY <1>1 DEF Path

LEMMA PathConcat ==
  ASSUME NEW K, NEW T, NEW s \in Seq(T), NEW t \in Seq(T), NEW q, NEW m, NEW r,
         Path(K, q, s, m), Path(K, m, t, r)
  PROVE  Path(K, q, s \o t, r)
<1> DEFINE n == Len(s)
           k == Len(t)
           u == s \o t
<1>1. /\ n \in Nat /\ k \in Nat /\ Len(u) = n + k
      /\ \A i \in 1 .. n + k : u[i] = IF i <= n THEN s[i] ELSE t[i - n]
  BY LenProperties, ConcatProperties
<1>2. PICK f \in [1 .. n + 1 -> Places(K)] : f[1] = q /\ f[n + 1] = m /\ Leads(K, s, f)
  BY DEF Path
<1>3. PICK g \in [1 .. k + 1 -> Places(K)] : g[1] = m /\ g[k + 1] = r /\ Leads(K, t, g)
  BY DEF Path
<1> DEFINE lab == [i \in 1 .. n + k + 1 |-> IF i <= n THEN f[i] ELSE g[i - n]]
<1>4. \A i \in 1 .. n : Moves(K, f[i], s[i], f[i + 1])
  BY <1>2 DEF Leads
<1>5. \A i \in 1 .. k : Moves(K, g[i], t[i], g[i + 1])
  BY <1>3 DEF Leads
<1> HIDE DEF n, k, u
<1>6. lab \in [1 .. n + k + 1 -> Places(K)]
  BY <1>1, <1>2, <1>3
<1>7. lab[1] = q /\ lab[n + k + 1] = r
  BY <1>1, <1>2, <1>3
<1>8. ASSUME NEW i \in 1 .. n + k PROVE Moves(K, lab[i], u[i], lab[i + 1])
  <2>1. CASE i < n
    <3>1. /\ lab[i] = f[i] /\ lab[i + 1] = f[i + 1]
          /\ u[i] = s[i] /\ i \in 1 .. n
      BY <1>1, <2>1
    <3> HIDE DEF lab
    <3> QED  BY <1>4, <3>1
  <2>2. CASE i = n
    <3>1. /\ lab[i] = f[i] /\ lab[i + 1] = f[i + 1]
          /\ u[i] = s[i] /\ i \in 1 .. n
      BY <1>1, <1>2, <1>3, <2>2
    <3> HIDE DEF lab
    <3> QED  BY <1>4, <3>1
  <2>3. CASE i > n
    <3>1. /\ lab[i] = g[i - n] /\ lab[i + 1] = g[(i - n) + 1]
          /\ u[i] = t[i - n] /\ i - n \in 1 .. k
      BY <1>1, <2>3
    <3> HIDE DEF lab
    <3> QED  BY <1>5, <3>1
  <2> QED  BY <1>1, <2>1, <2>2, <2>3
<1> HIDE DEF lab
<1>9. Leads(K, u, lab)
  BY <1>1, <1>8 DEF Leads
<1>10. lab \in [1 .. Len(u) + 1 -> Places(K)] /\ lab[1] = q /\ lab[Len(u) + 1] = r
  BY <1>1, <1>6, <1>7
<1>11. Path(K, q, u, r)
  BY <1>9, <1>10 DEF Path
<1> QED  BY <1>11 DEF u

LEMMA PathOne ==
  ASSUME NEW K, NEW q \in Places(K), NEW r \in Places(K), NEW b, Moves(K, q, b, r)
  PROVE  Path(K, q, <<b>>, r)
<1> DEFINE lab == [i \in 1 .. 2 |-> IF i = 1 THEN q ELSE r]
           s == <<b>>
<1>1. Len(s) = 1 /\ s[1] = b
  OBVIOUS
<1>2. lab \in [1 .. 2 -> Places(K)] /\ lab[1] = q /\ lab[2] = r
  OBVIOUS
<1> HIDE DEF lab, s
<1>3. Leads(K, s, lab)
  BY <1>1, <1>2 DEF Leads
<1>4. Path(K, q, s, r)
  BY <1>1, <1>2, <1>3 DEF Path
<1> QED  BY <1>4 DEF s

\* A path can be cut anywhere, as polls do.
LEMMA PathCut ==
  ASSUME NEW K, NEW T, NEW s \in Seq(T), NEW k \in 0 .. Len(s), NEW q, NEW r,
         Path(K, q, s, r)
  PROVE  \E m \in Places(K) : /\ Path(K, q, SubSeq(s, 1, k), m)
                              /\ Path(K, m, SubSeq(s, k + 1, Len(s)), r)
<1> DEFINE n == Len(s)
           a == SubSeq(s, 1, k)
           z == SubSeq(s, k + 1, Len(s))
<1>1. /\ n \in Nat /\ k \in 0 .. n /\ k \in Nat /\ n - k \in Nat
      /\ Len(a) = k /\ Len(z) = n - k
      /\ \A i \in 1 .. k : a[i] = s[i]
      /\ \A i \in 1 .. n - k : z[i] = s[i + k]
  BY LenProperties, CutAt
<1>2. PICK f \in [1 .. n + 1 -> Places(K)] : f[1] = q /\ f[n + 1] = r /\ Leads(K, s, f)
  BY DEF Path
<1>3. \A i \in 1 .. n : Moves(K, f[i], s[i], f[i + 1])
  BY <1>2 DEF Leads
<1> HIDE DEF n, a, z
<1> DEFINE m == f[k + 1]
           g == [i \in 1 .. k + 1 |-> f[i]]
           h == [i \in 1 .. (n - k) + 1 |-> f[i + k]]
<1>4. m \in Places(K)
  BY <1>1
<1>5. Path(K, q, a, m)
  <2>1. g \in [1 .. k + 1 -> Places(K)] /\ g[1] = q /\ g[k + 1] = m
    BY <1>1, <1>2
  <2>2. ASSUME NEW i \in 1 .. k PROVE Moves(K, g[i], a[i], g[i + 1])
    <3>1. i \in 1 .. n /\ g[i] = f[i] /\ g[i + 1] = f[i + 1] /\ a[i] = s[i]
      BY <1>1
    <3> HIDE DEF g
    <3> QED  BY <1>3, <3>1
  <2> HIDE DEF g, m
  <2> QED  BY <1>1, <2>1, <2>2 DEF Path, Leads
<1>6. Path(K, m, z, r)
  <2>1. h \in [1 .. (n - k) + 1 -> Places(K)] /\ h[1] = m /\ h[(n - k) + 1] = r
    BY <1>1, <1>2
  <2>2. ASSUME NEW i \in 1 .. n - k PROVE Moves(K, h[i], z[i], h[i + 1])
    <3>1. /\ i + k \in 1 .. n /\ h[i] = f[i + k] /\ h[i + 1] = f[(i + k) + 1]
          /\ z[i] = s[i + k]
      BY <1>1
    <3> HIDE DEF h
    <3> QED  BY <1>3, <3>1
  <2> HIDE DEF h, m
  <2> QED  BY <1>1, <2>1, <2>2 DEF Path, Leads
<1> QED  BY <1>4, <1>5, <1>6 DEF a, z

\* What leads there with some sizes does with more.
LEMMA PathMore ==
  ASSUME NEW K, NEW L, K \subseteq L, NEW s, NEW q, NEW r, Path(K, q, s, r)
  PROVE  Path(L, q, s, r)
<1>1. Places(K) \subseteq Places(L)
  BY DEF Places
<1>2. \A x, b, y : Moves(K, x, b, y) => Moves(L, x, b, y)
  BY DEF Moves
<1>3. PICK f \in [1 .. Len(s) + 1 -> Places(K)] :
        f[1] = q /\ f[Len(s) + 1] = r /\ Leads(K, s, f)
  BY DEF Path
<1>4. f \in [1 .. Len(s) + 1 -> Places(L)]
  BY <1>1
<1>5. Leads(L, s, f)
  BY <1>2, <1>3 DEF Leads
<1> QED  BY <1>3, <1>4, <1>5 DEF Path

LEMMA PlacesAre ==
  ASSUME NEW K
  PROVE  /\ At("data") \in Places(K) /\ At("iac") \in Places(K) /\ At("cmd") \in Places(K)
         /\ \A a \in {"opt", "size", "ff", "end"}, size \in K, i \in 1 .. 5 :
              In(a, size, i) \in Places(K)
BY DEF Places

LEMMA PathTwo ==
  ASSUME NEW K, NEW q \in Places(K), NEW m \in Places(K), NEW r \in Places(K),
         NEW a, NEW b, Moves(K, q, a, m), Moves(K, m, b, r)
  PROVE  Path(K, q, <<a, b>>, r)
<1>1. Path(K, q, <<a>>, m) /\ Path(K, m, <<b>>, r)
  BY PathOne
<1> DEFINE T == {a, b}
           s == <<a>>
           t == <<b>>
<1>2. s \in Seq(T) /\ t \in Seq(T) /\ <<a, b>> = s \o t
  <2>1. a \in T /\ b \in T
    OBVIOUS
  <2> HIDE DEF T
  <2>2. s \in Seq(T) /\ t \in Seq(T)
    BY <2>1
  <2>3. <<a, b>> = Append(s, b)
    OBVIOUS
  <2>4. Append(s, b) = s \o t
    <3> HIDE DEF s
    <3> QED  BY <2>1, <2>2, AppendIsConcat
  <2> QED  BY <2>2, <2>3, <2>4, Zenon
<1>3. Path(K, q, s, m) /\ Path(K, m, t, r)
  BY <1>1
<1> HIDE DEF s, t, T
<1>4. Path(K, q, s \o t, r)
  BY <1>2, <1>3, PathConcat
<1> QED  BY <1>2, <1>4, Zenon

\* A byte of data, 255 doubled (telnet.c:254).
LEMMA DataPath ==
  ASSUME NEW K, NEW n \in Nat \ {0}
  PROVE  /\ Path(K, At("data"), <<Data("x", n)>>, At("data"))
         /\ Path(K, At("data"), <<B("IAC"), Data("IAC", n)>>, At("data"))
<1>1. Moves(K, At("data"), Data("x", n), At("data"))
  BY DEF Moves, Between, Data
<1>2. Moves(K, At("data"), B("IAC"), At("iac"))
  BY DEF Moves, Between
<1>3. Moves(K, At("iac"), Data("IAC", n), At("data"))
  BY DEF Moves, Between, Data
<1> QED  BY <1>1, <1>2, <1>3, PathOne, PathTwo, PlacesAre

LEMMA OptionPath ==
  ASSUME NEW K, NEW cmd \in Commands, NEW opt
  PROVE  Path(K, At("data"), Option(cmd, opt), At("data"))
<1> DEFINE s == <<B("IAC"), B(cmd)>>
           t == <<B(opt)>>
           T == {B("IAC"), B(cmd), B(opt)}
<1>1. Moves(K, At("data"), B("IAC"), At("iac"))
  BY DEF Moves, Between
<1>2. Moves(K, At("iac"), B(cmd), At("cmd"))
  BY DEF Moves, Between, B
<1>3. Moves(K, At("cmd"), B(opt), At("data"))
  BY DEF Moves, Between, B
<1>4. Path(K, At("data"), s, At("cmd")) /\ Path(K, At("cmd"), t, At("data"))
  BY <1>1, <1>2, <1>3, PathOne, PathTwo, PlacesAre
<1>5. s \in Seq(T) /\ t \in Seq(T) /\ Option(cmd, opt) = s \o t
  BY DEF Option
<1> HIDE DEF s, t, T
<1>6. Path(K, At("data"), s \o t, At("data"))
  BY <1>4, <1>5, PathConcat
<1> QED  BY <1>5, <1>6, Zenon

\* The bytes of a size, 255 doubled.
LEMMA SizePath ==
  ASSUME NEW K \in SUBSET Sizes, NEW size \in K
  PROVE  /\ DoubleFF(size) \in Seq(Wire)
         /\ Path(K, In("size", size, 1), DoubleFF(size), In("size", size, 5))
<1> DEFINE S == ToSet(size)
           Good(k) == /\ DoubleFF(SubSeq(size, 1, k)) \in Seq(Wire)
                      /\ Path(K, In("size", size, 1), DoubleFF(SubSeq(size, 1, k)),
                             In("size", size, k + 1))
<1>1. Len(size) = 4 /\ size \in Seq(S) /\ S \subseteq Codes
  BY RxAssumption DEF Codes
<1>2. \A i \in 1 .. 4 : size[i] \in S /\ size[i] \in Codes
  BY <1>1, ElementOfSeq
<1> HIDE DEF S
<1>3. Good(0)
  <2>1. SubSeq(size, 1, 0) = <<>>
    BY SubSeqEmpty
  <2>2. DoubleFF(SubSeq(size, 1, 0)) = <<>>
    BY <2>1, DoubleNone, Zenon
  <2>3. In("size", size, 1) \in Places(K)
    BY PlacesAre
  <2>4. Path(K, In("size", size, 1), <<>>, In("size", size, 0 + 1))
    BY <2>3, PathNone
  <2>5. <<>> \in Seq(Wire)
    BY EmptySeq
  <2> QED  BY <2>2, <2>4, <2>5, Zenon
<1>4. ASSUME NEW k \in 0 .. 3, Good(k) PROVE Good(k + 1)
  <2> DEFINE p == SubSeq(size, 1, k)
             c == size[k + 1]
             w == IF c = "IAC" THEN <<B("IAC"), B("IAC")>> ELSE <<B(c)>>
             d == DoubleFF(p)
  <2>1. k + 1 \in 1 .. 4 /\ (k + 1) - 1 = k /\ k \in Int /\ k + 1 \in Int
    OBVIOUS
  <2>2. p \in Seq(S) /\ c \in S /\ c \in Codes
    BY <1>1, <1>2, <2>1, CutAt
  <2>3. SubSeq(size, 1, k + 1) = Append(p, c)
    <3>1. SubSeq(size, 1, k + 1) = p \o <<c>>
      BY <1>1, <2>1, SubSeqRecursiveSecond
    <3>2. Append(p, c) = p \o <<c>>
      BY <2>2, AppendIsConcat
    <3> QED  BY <3>1, <3>2, Zenon
  <2>4. DoubleFF(Append(p, c)) = d \o w
    <3>1. DoubleFF(Append(p, c)) = Doubled(d, c)
      <4> HIDE DEF p, c
      <4> QED  BY <2>2, DoubleOne
    <3> QED  BY <3>1, Zenon DEF Doubled
  <2>5. w \in Seq(Wire)
    <3>1. B(c) \in Wire /\ B("IAC") \in Wire
      BY <2>2 DEF B, Wire, Codes
    <3> HIDE DEF c
    <3> QED  BY <3>1
  <2>6. Path(K, In("size", size, k + 1), w, In("size", size, (k + 1) + 1))
    <3> DEFINE j == k + 1
    <3>1. j \in 1 .. 4 /\ j \in 1 .. 5 /\ j + 1 \in 1 .. 5
      OBVIOUS
    <3>2. CASE c = "IAC"
      <4>1. /\ Moves(K, In("size", size, j), B("IAC"), In("ff", size, j))
            /\ Moves(K, In("ff", size, j), B("IAC"), In("size", size, j + 1))
        <5> HIDE DEF j
        <5> QED  BY <3>1, <3>2 DEF Moves, Reports, OfSize, j
      <4> QED  BY <3>1, <3>2, <4>1, PathTwo, PlacesAre
    <3>3. CASE c # "IAC"
      <4>1. Moves(K, In("size", size, j), B(c), In("size", size, j + 1))
        <5> HIDE DEF j
        <5> QED  BY <3>1, <3>3 DEF Moves, Reports, OfSize, j
      <4> QED  BY <3>1, <3>3, <4>1, PathOne, PlacesAre
    <3> QED  BY <3>2, <3>3
  <2>7. d \in Seq(Wire) /\ Path(K, In("size", size, 1), d, In("size", size, k + 1))
    BY <1>4
  <2> HIDE DEF w, d
  <2>8. d \o w \in Seq(Wire)
    BY <2>5, <2>7, ConcatProperties
  <2>9. Path(K, In("size", size, 1), d \o w, In("size", size, (k + 1) + 1))
    BY <2>5, <2>6, <2>7, PathConcat
  <2> QED  BY <2>3, <2>4, <2>8, <2>9, Zenon
<1>5. Good(4)
  <2>1. Good(0 + 1)  BY <1>3, <1>4
  <2>2. Good(1 + 1)  BY <2>1, <1>4
  <2>3. Good(2 + 1)  BY <2>2, <1>4
  <2>4. Good(3 + 1)  BY <2>3, <1>4
  <2> QED  BY <2>4
<1>6. SubSeq(size, 1, 4) = size
  BY <1>1, SubSeqFull
<1>7. Path(K, In("size", size, 1), DoubleFF(SubSeq(size, 1, 4)), In("size", size, 5))
  BY <1>5
<1>8. DoubleFF(SubSeq(size, 1, 4)) \in Seq(Wire)
  BY <1>5
<1> QED  BY <1>6, <1>7, <1>8, Zenon

LEMMA NawsPath ==
  ASSUME NEW K \in SUBSET Sizes, NEW size \in K
  PROVE  Naws(size) \in Seq(Wire) /\ Path(K, At("data"), Naws(size), At("data"))
<1> DEFINE a == <<B("IAC"), B("SB")>>
           b == <<B("NAWS")>>
           c == <<B("IAC"), B("SB"), B("NAWS")>>
           d == DoubleFF(size)
           e == <<B("IAC"), B("SE")>>
<1>1. {B("IAC"), B("SB"), B("NAWS"), B("SE")} \subseteq Wire
  BY DEF B, Wire, Codes
<1>2. /\ Moves(K, At("data"), B("IAC"), At("iac"))
      /\ Moves(K, At("iac"), B("SB"), In("opt", size, 1))
      /\ Moves(K, In("opt", size, 1), B("NAWS"), In("size", size, 1))
      /\ Moves(K, In("size", size, 5), B("IAC"), In("end", size, 5))
      /\ Moves(K, In("end", size, 5), B("SE"), At("data"))
  BY DEF Moves, Between, Reports
<1>3. /\ Path(K, At("data"), a, In("opt", size, 1))
      /\ Path(K, In("opt", size, 1), b, In("size", size, 1))
      /\ Path(K, In("size", size, 5), e, At("data"))
  BY <1>2, PathOne, PathTwo, PlacesAre
<1>4. a \in Seq(Wire) /\ b \in Seq(Wire) /\ e \in Seq(Wire) /\ c = a \o b
  BY <1>1
<1>5. d \in Seq(Wire) /\ Path(K, In("size", size, 1), d, In("size", size, 5))
  BY SizePath
<1>6. Naws(size) = c \o d \o e
  BY Zenon DEF Naws
<1> HIDE DEF a, b, c, d, e
<1>7. c \in Seq(Wire) /\ Path(K, At("data"), c, In("size", size, 1))
  BY <1>3, <1>4, PathConcat, ConcatProperties
<1>8. c \o d \in Seq(Wire) /\ Path(K, At("data"), c \o d, In("size", size, 5))
  BY <1>5, <1>7, PathConcat, ConcatProperties
<1>9. c \o d \o e \in Seq(Wire)
  BY <1>4, <1>8, ConcatProperties
<1>10. Path(K, At("data"), c \o d \o e, At("data"))
  BY <1>3, <1>4, <1>8, PathConcat
<1> QED  BY <1>6, <1>9, <1>10, Zenon

----------------------------------------------------------------------------
(***************************************************************************)
(* The parser (telnet_filter).                                             *)
(***************************************************************************)
States == {"NORMAL", "SAW_FF", "IN_SB", "SB_IAC"} \cup Commands
CodeSeqs == Seq(Codes)
Tels == [st : States, opt : Codes, len : 0 .. 255, buf : [0 .. 3 -> Codes],
         neg : SUBSET Codes, naws : CodeSeqs]
Replies == [cmd : Commands \cup {"SEND"}, opt : Codes]

\* The report of a size, as far as it has come, is what the parser has collected; a
\* byte of 255 is lost (telnet.c:328), and then the report falls short.
Gathered(t, size, i) ==
    /\ t.opt = "NAWS" /\ t.len \in 1 .. i
    /\ t.len = i => \A j \in 1 .. i - 1 : t.buf[j - 1] = size[j]

\* The parser t is where the stream is.
Follows(t, q) ==
    \/ q.at = "data" /\ t.st = "NORMAL"
    \/ q.at = "iac" /\ t.st = "SAW_FF"
    \/ q.at = "cmd" /\ t.st \in Commands
    \/ q.at = "opt" /\ t.st = "IN_SB" /\ t.len = 0
    \/ q.at = "size" /\ t.st = "IN_SB" /\ Gathered(t, q.size, q.i)
    \/ q.at = "ff" /\ t.st = "SB_IAC" /\ Gathered(t, q.size, q.i)
    \/ q.at = "end" /\ t.st = "SB_IAC" /\ Gathered(t, q.size, 5)

LEMMA NewTelIs == NewTel \in Tels /\ Follows(NewTel, At("data")) /\ NewTel.naws = <<>>
<1>1. <<>> \in CodeSeqs
  BY EmptySeq DEF CodeSeqs
<1> QED  BY <1>1 DEF NewTel, Tels, States, Codes, Commands, Follows, At

LEMMA ToIs ==
  ASSUME NEW t \in Tels, NEW st \in States
  PROVE  /\ To(t, st) \in Tels /\ To(t, st).st = st
         /\ To(t, st).opt = t.opt /\ To(t, st).len = t.len
         /\ To(t, st).buf = t.buf /\ To(t, st).naws = t.naws
BY DEF To, Tels

LEMMA StartIs ==
  ASSUME NEW t \in Tels
  PROVE  /\ StartSubneg(t) \in Tels /\ StartSubneg(t).len = 0
         /\ StartSubneg(t).naws = t.naws
<1> DEFINE x == "none"
<1>1. x \in Codes /\ 0 \in 0 .. 255
  BY DEF Codes
<1>2. StartSubneg(t) = [t EXCEPT !.len = 0, !.opt = x]
  BY DEF StartSubneg
<1> HIDE DEF x
<1> QED  BY <1>1, <1>2 DEF Tels

LEMMA HandleIs ==
  ASSUME NEW t \in Tels, NEW c \in Codes
  PROVE  HandleOption(t, c) \in Tels /\ HandleOption(t, c).naws = t.naws
<1> DEFINE x == t.neg \cup {c}
<1>1. x \in SUBSET Codes
  BY DEF Tels
<1>2. HandleOption(t, c) \in {t, [t EXCEPT !.neg = x]}
  BY DEF HandleOption
<1> HIDE DEF x
<1> QED  BY <1>1, <1>2 DEF Tels

LEMMA AccumulateIs ==
  ASSUME NEW t \in Tels, NEW c \in Codes
  PROVE  LET a == Accumulate(t, c) IN
         /\ a \in Tels /\ a.st = t.st /\ a.naws = t.naws
         /\ a.opt = IF t.len = 0 THEN c ELSE t.opt
         /\ a.len = (t.len + 1) % 256
         /\ a.buf = IF t.len \in 1 .. 4 /\ ~(t.opt = "TTYPE" /\ t.len >= 2)
                      THEN [t.buf EXCEPT ![t.len - 1] = c] ELSE t.buf
<1> DEFINE a == Accumulate(t, c)
           x == IF t.len = 0 THEN c ELSE t.opt
           y == IF t.len \in 1 .. 4 /\ ~(t.opt = "TTYPE" /\ t.len >= 2)
                  THEN [t.buf EXCEPT ![t.len - 1] = c] ELSE t.buf
           z == (t.len + 1) % 256
<1>1. t.opt \in Codes /\ t.buf \in [0 .. 3 -> Codes] /\ t.len \in 0 .. 255
  BY DEF Tels
<1>2. x \in Codes /\ y \in [0 .. 3 -> Codes] /\ z \in 0 .. 255
  BY <1>1
<1>3. a = [t EXCEPT !.opt = x, !.buf = y, !.len = z]
  BY Zenon DEF Accumulate
<1> HIDE DEF x, y, z, a
<1>4. a \in Tels
  BY <1>2, <1>3 DEF Tels
<1>5. a.st = t.st /\ a.naws = t.naws /\ a.opt = x /\ a.buf = y /\ a.len = z
  BY <1>2, <1>3 DEF Tels
<1> QED  BY <1>4, <1>5 DEF x, y, z, a

LEMMA EndIs ==
  ASSUME NEW t \in Tels
  PROVE  /\ EndSubneg(t) \in Tels
         /\ t.opt = "NAWS" /\ t.len >= 5 =>
              EndSubneg(t).naws = <<t.buf[0], t.buf[1], t.buf[2], t.buf[3]>>
         /\ ~(t.opt = "NAWS" /\ t.len >= 5) => EndSubneg(t).naws = t.naws
<1> DEFINE x == <<t.buf[0], t.buf[1], t.buf[2], t.buf[3]>>
<1>1. x \in CodeSeqs
  <2>1. t.buf[0] \in Codes /\ t.buf[1] \in Codes /\ t.buf[2] \in Codes /\ t.buf[3] \in Codes
    BY DEF Tels
  <2> QED  BY <2>1 DEF CodeSeqs
<1>2. EndSubneg(t) = IF t.opt = "NAWS" /\ t.len >= 5 THEN [t EXCEPT !.naws = x] ELSE t
  BY DEF EndSubneg
<1> HIDE DEF x
<1>3. EndSubneg(t) \in Tels
  BY <1>1, <1>2 DEF Tels
<1>4. EndSubneg(t).naws = IF t.opt = "NAWS" /\ t.len >= 5 THEN x ELSE t.naws
  BY <1>1, <1>2 DEF Tels
<1> QED  BY <1>3, <1>4 DEF x

LEMMA ReplyIs ==
  ASSUME NEW t \in Tels, t.st \in Commands, NEW c \in Codes
  PROVE  Reply(t, t.st, c) \in Seq(Replies)
<1>1. /\ Say("WILL", c) \in Seq(Replies) /\ Say("WONT", c) \in Seq(Replies)
      /\ Say("DO", c) \in Seq(Replies) /\ Say("DONT", c) \in Seq(Replies)
      /\ Say("SEND", c) \in Seq(Replies) /\ <<>> \in Seq(Replies)
  BY DEF Say, Replies, Commands
<1> HIDE DEF Say
<1>2. Agrees(t.st, c) \in Seq(Replies)
  BY <1>1 DEF Agrees
<1>3. Refuses(t.st, c) \in Seq(Replies)
  BY <1>1 DEF Refuses
<1> QED  BY <1>1, <1>2, <1>3 DEF Reply


\* What one byte does in each state (telnet.c:242).
LEMMA Normally ==
  ASSUME NEW t, t.st = "NORMAL", NEW b
  PROVE  TelnetFilter(t, b) = IF b.code = "IAC" THEN Eaten(To(t, "SAW_FF"))
                              ELSE [tel |-> t, out |-> <<b>>, say |-> <<>>]
BY DEF TelnetFilter, Commands

LEMMA AfterFF ==
  ASSUME NEW t, t.st = "SAW_FF", NEW b
  PROVE  /\ b.code = "IAC" => TelnetFilter(t, b) = [tel |-> To(t, "NORMAL"), out |-> <<b>>, say |-> <<>>]
         /\ b.code \in Commands => TelnetFilter(t, b) = Eaten(To(t, b.code))
         /\ b.code = "SB" => TelnetFilter(t, b) = Eaten(To(StartSubneg(t), "IN_SB"))
BY DEF TelnetFilter, Commands

LEMMA AfterCommand ==
  ASSUME NEW t, t.st \in Commands, NEW b
  PROVE  TelnetFilter(t, b) = [tel |-> To(HandleOption(t, b.code), "NORMAL"), out |-> <<>>,
                               say |-> Reply(t, t.st, b.code)]
BY DEF TelnetFilter, Commands

LEMMA InReport ==
  ASSUME NEW t, t.st = "IN_SB", NEW b
  PROVE  TelnetFilter(t, b) = IF b.code = "IAC" THEN Eaten(To(t, "SB_IAC"))
                              ELSE Eaten(Accumulate(t, b.code))
BY DEF TelnetFilter, Commands

LEMMA ReportFF ==
  ASSUME NEW t, t.st = "SB_IAC", NEW b
  PROVE  TelnetFilter(t, b) = IF b.code = "SE" THEN Eaten(To(EndSubneg(t), "NORMAL"))
                              ELSE Eaten(To(t, "IN_SB"))
BY DEF TelnetFilter, Commands

\* The result f of the byte b keeps up with the stream, passes on what the caller
\* meant as data and knows no size but those of K.
KeepsUp(K, t, b, r, f) ==
    /\ f.tel \in Tels /\ Follows(f.tel, r) /\ f.tel.naws \in K \cup {t.naws}
    /\ f.out = (IF b.n > 0 THEN <<b>> ELSE <<>>) /\ f.say \in Seq(Replies)

LEMMA Swallows ==
  ASSUME NEW K, NEW t, NEW b, b.n = 0, NEW r, NEW u \in Tels, Follows(u, r),
         u.naws \in K \cup {t.naws}
  PROVE  KeepsUp(K, t, b, r, Eaten(u))
<1>1. <<>> \in Seq(Replies)
  BY EmptySeq
<1> QED  BY <1>1 DEF KeepsUp, Eaten

LEMMA Delivered ==
  ASSUME NEW K, NEW t, NEW b, b.n > 0, NEW r, NEW u \in Tels, Follows(u, r),
         u.naws \in K \cup {t.naws}
  PROVE  KeepsUp(K, t, b, r, [tel |-> u, out |-> <<b>>, say |-> <<>>])
<1>1. <<>> \in Seq(Replies)
  BY EmptySeq
<1> QED  BY <1>1 DEF KeepsUp

LEMMA PlainStep ==
  ASSUME NEW K, NEW t \in Tels, NEW q, NEW r, NEW b \in Wire,
         Follows(t, q), Between(q, b, r)
  PROVE  KeepsUp(K, t, b, r, TelnetFilter(t, b))
<1>1. b.code \in Codes
  BY DEF Wire
<1>2. CASE q = At("data") /\ b.code # "IAC" /\ b.n > 0 /\ r = At("data")
  <2>1. t.st = "NORMAL" /\ Follows(t, r)
    BY <1>2 DEF Follows, At
  <2> QED  BY <1>2, <2>1, Normally, Delivered
<1>3. CASE q = At("data") /\ b = B("IAC") /\ r = At("iac")
  <2>1. t.st = "NORMAL"
    BY <1>3 DEF Follows, At
  <2>2. b.code = "IAC" /\ b.n = 0
    BY <1>3 DEF B
  <2>3. To(t, "SAW_FF") \in Tels /\ To(t, "SAW_FF").st = "SAW_FF" /\ To(t, "SAW_FF").naws = t.naws
    BY ToIs DEF States
  <2>4. Follows(To(t, "SAW_FF"), r)
    BY <1>3, <2>3 DEF Follows, At
  <2> QED  BY <2>1, <2>2, <2>3, <2>4, Normally, Swallows
<1>4. CASE q = At("iac") /\ b.code = "IAC" /\ b.n > 0 /\ r = At("data")
  <2>1. t.st = "SAW_FF"
    BY <1>4 DEF Follows, At
  <2>2. To(t, "NORMAL") \in Tels /\ To(t, "NORMAL").st = "NORMAL" /\ To(t, "NORMAL").naws = t.naws
    BY ToIs DEF States
  <2>3. Follows(To(t, "NORMAL"), r)
    BY <1>4, <2>2 DEF Follows, At
  <2> QED  BY <1>4, <2>1, <2>2, <2>3, AfterFF, Delivered
<1>5. CASE q = At("iac") /\ b.code \in Commands /\ b.n = 0 /\ r = At("cmd")
  <2>1. t.st = "SAW_FF"
    BY <1>5 DEF Follows, At
  <2>2. To(t, b.code) \in Tels /\ To(t, b.code).st = b.code /\ To(t, b.code).naws = t.naws
    BY <1>5, ToIs DEF States
  <2>3. Follows(To(t, b.code), r)
    BY <1>5, <2>2 DEF Follows, At
  <2> QED  BY <1>5, <2>1, <2>2, <2>3, AfterFF, Swallows
<1>6. CASE q = At("cmd") /\ b.n = 0 /\ r = At("data")
  <2> DEFINE h == HandleOption(t, b.code)
             u == To(h, "NORMAL")
             y == Reply(t, t.st, b.code)
  <2>1. t.st \in Commands
    BY <1>6 DEF Follows, At
  <2>2. h \in Tels /\ h.naws = t.naws
    BY <1>1, HandleIs
  <2>3. u \in Tels /\ u.st = "NORMAL" /\ u.naws = t.naws
    <3> HIDE DEF h
    <3> QED  BY <2>2, ToIs DEF States
  <2>4. y \in Seq(Replies)
    BY <1>1, <2>1, ReplyIs
  <2>5. TelnetFilter(t, b) = [tel |-> u, out |-> <<>>, say |-> y]
    BY <2>1, AfterCommand
  <2> HIDE DEF u, y
  <2>6. Follows(u, r)
    BY <1>6, <2>3 DEF Follows, At
  <2> QED  BY <1>6, <2>3, <2>4, <2>5, <2>6 DEF KeepsUp
<1> QED  BY <1>2, <1>3, <1>4, <1>5, <1>6 DEF Between


\* The same in the report of a size.
LEMMA CollectStep ==
  ASSUME NEW K \in SUBSET Sizes, NEW t \in Tels, NEW size \in K, NEW i \in 1 .. 4,
         t.st = "IN_SB", Gathered(t, size, i), size[i] # "IAC", size[i] \in Codes
  PROVE  Follows(Accumulate(t, size[i]), In("size", size, i + 1))
<1> DEFINE c == size[i]
           a == Accumulate(t, c)
<1>1. /\ a.st = "IN_SB"
      /\ a.opt = IF t.len = 0 THEN c ELSE t.opt
      /\ a.len = (t.len + 1) % 256
      /\ a.buf = IF t.len \in 1 .. 4 /\ ~(t.opt = "TTYPE" /\ t.len >= 2)
                   THEN [t.buf EXCEPT ![t.len - 1] = c] ELSE t.buf
  <2> HIDE DEF c
  <2> QED  BY AccumulateIs DEF c
<1>2. /\ t.opt = "NAWS" /\ t.len \in 1 .. i
      /\ t.len = i => \A j \in 1 .. i - 1 : t.buf[j - 1] = size[j]
  BY DEF Gathered
<1> HIDE DEF a
<1>3. a.len = t.len + 1
  BY <1>1, <1>2
<1>4. a.opt = "NAWS" /\ a.buf = [t.buf EXCEPT ![t.len - 1] = c]
  BY <1>1, <1>2
<1>5. ASSUME a.len = i + 1, NEW j \in 1 .. (i + 1) - 1 PROVE a.buf[j - 1] = size[j]
  <2>1. t.len = i /\ t.buf \in [0 .. 3 -> Codes] /\ i - 1 \in 0 .. 3 /\ j - 1 \in 0 .. 3
    BY <1>2, <1>3, <1>5 DEF Tels
  <2>2. CASE j = i
    BY <1>4, <2>1, <2>2
  <2>3. CASE j # i
    <3>1. j \in 1 .. i - 1 /\ j - 1 # i - 1
      BY <2>3
    <3> QED  BY <1>2, <1>4, <2>1, <3>1
  <2> QED  BY <2>2, <2>3
<1>6. Gathered(a, size, i + 1)
  <2>1. a.len \in 1 .. i + 1
    BY <1>2, <1>3
  <2> QED  BY <1>4, <1>5, <2>1 DEF Gathered
<1>7. Follows(a, In("size", size, i + 1))
  BY <1>1, <1>6 DEF Follows, In
<1> QED  BY <1>7 DEF a

LEMMA SizeStep ==
  ASSUME NEW K \in SUBSET Sizes, NEW t \in Tels, NEW q, NEW r, NEW b \in Wire,
         Follows(t, q), NEW size \in K, NEW i \in 1 .. 4, OfSize(size, i, q, b, r)
  PROVE  KeepsUp(K, t, b, r, TelnetFilter(t, b))
<1>1. CASE q = In("size", size, i) /\ size[i] # "IAC" /\ b = B(size[i])
           /\ r = In("size", size, i + 1)
  <2>1. t.st = "IN_SB" /\ Gathered(t, size, i)
    BY <1>1 DEF Follows, In
  <2>2. b.code = size[i] /\ b.n = 0 /\ b.code \in Codes
    BY <1>1 DEF B, Wire
  <2>3. Accumulate(t, b.code) \in Tels /\ Accumulate(t, b.code).naws = t.naws
    BY <2>2, AccumulateIs
  <2>4. Follows(Accumulate(t, b.code), r)
    BY <1>1, <2>1, <2>2, CollectStep
  <2> QED  BY <1>1, <2>1, <2>2, <2>3, <2>4, InReport, Swallows
<1>2. CASE q = In("size", size, i) /\ size[i] = "IAC" /\ b = B("IAC")
           /\ r = In("ff", size, i)
  <2>1. t.st = "IN_SB" /\ Gathered(t, size, i)
    BY <1>2 DEF Follows, In
  <2>2. b.code = "IAC" /\ b.n = 0
    BY <1>2 DEF B
  <2> DEFINE u == To(t, "SB_IAC")
  <2>3. /\ u \in Tels /\ u.st = "SB_IAC" /\ u.naws = t.naws
        /\ u.opt = t.opt /\ u.len = t.len /\ u.buf = t.buf
    BY ToIs DEF States
  <2>4. TelnetFilter(t, b) = Eaten(u)
    BY <2>1, <2>2, InReport
  <2> HIDE DEF u
  <2>5. Follows(u, r)
    BY <1>2, <2>1, <2>3 DEF Follows, In, Gathered
  <2> QED  BY <2>2, <2>3, <2>4, <2>5, Swallows
<1>3. CASE q = In("ff", size, i) /\ b = B("IAC") /\ r = In("size", size, i + 1)
  <2>1. t.st = "SB_IAC" /\ Gathered(t, size, i)
    BY <1>3 DEF Follows, In
  <2>2. b.code = "IAC" /\ b.n = 0
    BY <1>3 DEF B
  <2> DEFINE u == To(t, "IN_SB")
  <2>3. /\ u \in Tels /\ u.st = "IN_SB" /\ u.naws = t.naws
        /\ u.opt = t.opt /\ u.len = t.len /\ u.buf = t.buf
    BY ToIs DEF States
  <2>4. TelnetFilter(t, b) = Eaten(u)
    BY <2>1, <2>2, ReportFF
  <2> HIDE DEF u
  <2>5. Gathered(u, size, i + 1)
    BY <2>1, <2>3 DEF Gathered
  <2>6. Follows(u, r)
    BY <1>3, <2>3, <2>5 DEF Follows, In
  <2> QED  BY <2>2, <2>3, <2>4, <2>6, Swallows
<1> QED  BY <1>1, <1>2, <1>3 DEF OfSize

LEMMA EndStep ==
  ASSUME NEW K \in SUBSET Sizes, NEW t \in Tels, NEW size \in K, Gathered(t, size, 5)
  PROVE  EndSubneg(t).naws \in K \cup {t.naws}
<1>1. /\ t.opt = "NAWS" /\ t.len \in 1 .. 5
      /\ t.len = 5 => \A j \in 1 .. 4 : t.buf[j - 1] = size[j]
  BY DEF Gathered
<1>2. CASE t.len = 5
  <2> DEFINE x == <<t.buf[0], t.buf[1], t.buf[2], t.buf[3]>>
             S == ToSet(size)
  <2>1. EndSubneg(t).naws = x
    <3>1. t.opt = "NAWS" /\ t.len >= 5
      BY <1>1, <1>2
    <3> QED  BY <3>1, EndIs, Zenon
  <2>2. Len(size) = 4 /\ size \in Seq(S)
    BY RxAssumption
  <2> HIDE DEF S
  <2>3. t.buf[0] = size[1] /\ t.buf[1] = size[2] /\ t.buf[2] = size[3] /\ t.buf[3] = size[4]
    <3>1. 1 \in 1 .. 4 /\ 2 \in 1 .. 4 /\ 3 \in 1 .. 4 /\ 4 \in 1 .. 4
          /\ 1 - 1 = 0 /\ 2 - 1 = 1 /\ 3 - 1 = 2 /\ 4 - 1 = 3
      OBVIOUS
    <3> QED  BY <1>1, <1>2, <3>1
  <2>4. size[1] \in S /\ size[2] \in S /\ size[3] \in S /\ size[4] \in S
    BY <2>2, ElementOfSeq
  <2>5. x \in Seq(S) /\ Len(x) = 4 /\ \A i \in 1 .. 4 : x[i] = size[i]
    BY <2>3, <2>4
  <2> HIDE DEF x
  <2>6. x = size
    BY <2>2, <2>5, SeqEqual
  <2> QED  BY <2>1, <2>6
<1>3. CASE t.len # 5
  <2>1. ~(t.opt = "NAWS" /\ t.len >= 5)
    BY <1>1, <1>3
  <2>2. EndSubneg(t).naws = t.naws
    BY <2>1, EndIs, Zenon
  <2> QED  BY <2>2
<1> QED  BY <1>2, <1>3

LEMMA ReportStep ==
  ASSUME NEW K \in SUBSET Sizes, NEW t \in Tels, NEW q, NEW r, NEW b \in Wire,
         Follows(t, q), NEW size \in K, Reports(size, q, b, r)
  PROVE  KeepsUp(K, t, b, r, TelnetFilter(t, b))
<1>1. CASE q = At("iac") /\ b = B("SB") /\ r = In("opt", size, 1)
  <2> DEFINE h == StartSubneg(t)
             u == To(h, "IN_SB")
  <2>1. t.st = "SAW_FF"
    BY <1>1 DEF Follows, At
  <2>2. b.code = "SB" /\ b.n = 0
    BY <1>1 DEF B
  <2>3. h \in Tels /\ h.len = 0 /\ h.naws = t.naws
    BY StartIs
  <2>4. u \in Tels /\ u.st = "IN_SB" /\ u.len = 0 /\ u.naws = t.naws
    <3> HIDE DEF h
    <3> QED  BY <2>3, ToIs DEF States
  <2>5. TelnetFilter(t, b) = Eaten(u)
    BY <2>1, <2>2, AfterFF
  <2> HIDE DEF u
  <2>6. Follows(u, r)
    BY <1>1, <2>4 DEF Follows, In
  <2> QED  BY <2>2, <2>4, <2>5, <2>6, Swallows
<1>2. CASE q = In("opt", size, 1) /\ b = B("NAWS") /\ r = In("size", size, 1)
  <2> DEFINE u == Accumulate(t, "NAWS")
  <2>1. t.st = "IN_SB" /\ t.len = 0
    BY <1>2 DEF Follows, In
  <2>2. b.code = "NAWS" /\ b.n = 0 /\ "NAWS" \in Codes
    BY <1>2 DEF B, Codes
  <2>3. /\ u \in Tels /\ u.st = "IN_SB" /\ u.naws = t.naws
        /\ u.opt = "NAWS" /\ u.len = 1
    <3>1. /\ u \in Tels /\ u.st = t.st /\ u.naws = t.naws
          /\ u.opt = (IF t.len = 0 THEN "NAWS" ELSE t.opt)
          /\ u.len = (t.len + 1) % 256
      <4> DEFINE c == "NAWS"
      <4>1. c \in Codes
        BY <2>2
      <4> HIDE DEF c
      <4>2. LET a == Accumulate(t, c) IN
            /\ a \in Tels /\ a.st = t.st /\ a.naws = t.naws
            /\ a.opt = (IF t.len = 0 THEN c ELSE t.opt)
            /\ a.len = (t.len + 1) % 256
        BY <4>1, AccumulateIs
      <4> QED  BY <4>2 DEF c
    <3> HIDE DEF u
    <3> QED  BY <2>1, <3>1
  <2>4. TelnetFilter(t, b) = Eaten(u)
    BY <2>1, <2>2, InReport
  <2> HIDE DEF u
  <2>5. Gathered(u, size, 1)
    BY <2>3 DEF Gathered
  <2>6. Follows(u, r)
    BY <1>2, <2>3, <2>5 DEF Follows, In
  <2> QED  BY <2>2, <2>3, <2>4, <2>6, Swallows
<1>3. CASE \E i \in 1 .. 4 : OfSize(size, i, q, b, r)
  BY <1>3, SizeStep
<1>4. CASE q = In("size", size, 5) /\ b = B("IAC") /\ r = In("end", size, 5)
  <2> DEFINE u == To(t, "SB_IAC")
  <2>1. t.st = "IN_SB" /\ Gathered(t, size, 5)
    BY <1>4 DEF Follows, In
  <2>2. b.code = "IAC" /\ b.n = 0
    BY <1>4 DEF B
  <2>3. /\ u \in Tels /\ u.st = "SB_IAC" /\ u.naws = t.naws
        /\ u.opt = t.opt /\ u.len = t.len /\ u.buf = t.buf
    BY ToIs DEF States
  <2>4. TelnetFilter(t, b) = Eaten(u)
    BY <2>1, <2>2, InReport
  <2> HIDE DEF u
  <2>5. Follows(u, r)
    BY <1>4, <2>1, <2>3 DEF Follows, In, Gathered
  <2> QED  BY <2>2, <2>3, <2>4, <2>5, Swallows
<1>5. CASE q = In("end", size, 5) /\ b = B("SE") /\ r = At("data")
  <2> DEFINE h == EndSubneg(t)
             u == To(h, "NORMAL")
  <2>1. t.st = "SB_IAC" /\ Gathered(t, size, 5)
    BY <1>5 DEF Follows, In
  <2>2. b.code = "SE" /\ b.n = 0
    BY <1>5 DEF B
  <2>3. h \in Tels /\ h.naws \in K \cup {t.naws}
    BY <2>1, EndIs, EndStep
  <2>4. u \in Tels /\ u.st = "NORMAL" /\ u.naws = h.naws
    <3> HIDE DEF h
    <3> QED  BY <2>3, ToIs DEF States
  <2>5. TelnetFilter(t, b) = Eaten(u)
    BY <2>1, <2>2, ReportFF
  <2> HIDE DEF u, h
  <2>6. Follows(u, r)
    BY <1>5, <2>4 DEF Follows, At
  <2> QED  BY <2>2, <2>3, <2>4, <2>5, <2>6, Swallows
<1> QED  BY <1>1, <1>2, <1>3, <1>4, <1>5 DEF Reports

LEMMA FilterStep ==
  ASSUME NEW K \in SUBSET Sizes, NEW t \in Tels, NEW q, NEW r, NEW b \in Wire,
         Follows(t, q), Moves(K, q, b, r)
  PROVE  KeepsUp(K, t, b, r, TelnetFilter(t, b))
BY PlainStep, ReportStep DEF Moves

----------------------------------------------------------------------------
(***************************************************************************)
(* A packet through the parser (the loop of poll.c:418).                   *)
(***************************************************************************)
LEMMA PathLast ==
  ASSUME NEW K, NEW T, NEW s \in Seq(T), NEW b \in T, NEW q, NEW r,
         Path(K, q, Append(s, b), r)
  PROVE  \E m \in Places(K) : Path(K, q, s, m) /\ Moves(K, m, b, r)
<1> DEFINE u == Append(s, b)
           n == Len(s)
<1>1. /\ n \in Nat /\ Len(u) = n + 1
      /\ \A i \in 1 .. n : u[i] = s[i]
      /\ u[n + 1] = b
  BY AppendProperties, LenProperties
<1>2. PICK f \in [1 .. Len(u) + 1 -> Places(K)] :
        f[1] = q /\ f[Len(u) + 1] = r /\ Leads(K, u, f)
  BY DEF Path
<1>3. \A i \in 1 .. Len(u) : Moves(K, f[i], u[i], f[i + 1])
  BY <1>2 DEF Leads
<1> HIDE DEF u, n
<1> DEFINE m == f[n + 1]
           g == [i \in 1 .. n + 1 |-> f[i]]
<1>4. m \in Places(K) /\ Moves(K, m, b, r)
  BY <1>1, <1>2, <1>3
<1>5. g \in [1 .. n + 1 -> Places(K)] /\ g[1] = q /\ g[n + 1] = m
  BY <1>1, <1>2
<1>6. ASSUME NEW i \in 1 .. n PROVE Moves(K, g[i], s[i], g[i + 1])
  <2>1. i \in 1 .. Len(u) /\ g[i] = f[i] /\ g[i + 1] = f[i + 1] /\ u[i] = s[i]
    BY <1>1
  <2> HIDE DEF g
  <2> QED  BY <1>3, <2>1
<1> HIDE DEF g, m
<1>7. Path(K, q, s, m)
  BY <1>5, <1>6 DEF Path, Leads, n
<1> QED  BY <1>4, <1>7

\* What the caller means as data, of bytes that are on the wire.
LEMMA DataType ==
  ASSUME NEW s \in Seq(Wire)
  PROVE  DataOf(s) \in Seq(Caller) /\ Len(DataOf(s)) <= Len(s)
<1> DEFINE Good(q) == DataOf(q) \in Seq(Caller) /\ Len(DataOf(q)) <= Len(q)
           G == {q \in Seq(Wire) : Good(q)}
<1>1. <<>> \in G
  <2>1. DataOf(<<>>) = <<>> /\ <<>> \in Seq(Wire) /\ <<>> \in Seq(Caller)
    BY DataNone, EmptySeq
  <2>2. Len(DataOf(<<>>)) <= Len(<<>>)
    <3>1. Len(<<>>) <= Len(<<>>)
      BY EmptySeq
    <3> QED  BY <2>1, <3>1, Zenon
  <2>3. DataOf(<<>>) \in Seq(Caller)
    BY <2>1, Zenon
  <2> QED  BY <2>1, <2>2, <2>3, Zenon
<1>2. ASSUME NEW q \in Seq(Wire), Good(q), NEW b \in Wire PROVE Good(Append(q, b))
  <2> DEFINE a == Append(q, b)
             d == DataOf(q)
  <2>1. a \in Seq(Wire) /\ Len(a) = Len(q) + 1 /\ Len(q) \in Nat
    BY AppendProperties, LenProperties
  <2>2. DataOf(a) = KeepData(d, b)
    BY DataOne
  <2>3. d \in Seq(Caller) /\ Len(d) <= Len(q) /\ Len(d) \in Nat
    BY <1>2, LenProperties
  <2> HIDE DEF a, d
  <2>4. CASE b.n > 0
    <3>1. DataOf(a) = Append(d, b) /\ b \in Caller
      BY <2>2, <2>4 DEF KeepData, Caller
    <3>2. Append(d, b) \in Seq(Caller) /\ Len(Append(d, b)) = Len(d) + 1
      BY <2>3, <3>1, AppendProperties
    <3>3. Len(d) + 1 <= Len(q) + 1
      BY <2>1, <2>3
    <3> QED  BY <2>1, <3>1, <3>2, <3>3, Zenon DEF a
  <2>5. CASE ~(b.n > 0)
    <3>1. DataOf(a) = d
      BY <2>2, <2>5, Zenon DEF KeepData
    <3>2. Len(d) <= Len(q) + 1
      BY <2>1, <2>3
    <3> QED  BY <2>1, <2>3, <3>1, <3>2, Zenon DEF a
  <2> QED  BY <2>4, <2>5
<1>3. G = Seq(Wire)
  <2>1. \A q \in G, b \in Wire : Append(q, b) \in G
    <3> HIDE DEF Good
    <3> QED  BY <1>2, AppendProperties
  <2>2. G \subseteq Seq(Wire)  OBVIOUS
  <2> HIDE DEF G
  <2> QED  BY <1>1, <2>1, <2>2, PutFold!SeqInduction
<1> QED  BY <1>3

LEMMA HeardType ==
  ASSUME NEW s \in Seq(Replies) PROVE Heard(s) \in Seq(Replies)
<1> DEFINE G == {q \in Seq(Replies) : Heard(q) \in Seq(Replies)}
<1>1. <<>> \in G
  BY HeardNone, EmptySeq
<1>2. ASSUME NEW q \in Seq(Replies), Heard(q) \in Seq(Replies), NEW r \in Replies
      PROVE  Heard(Append(q, r)) \in Seq(Replies)
  <2>1. Heard(Append(q, r)) = KeepHeard(Heard(q), r)
    BY HeardOne
  <2>2. KeepHeard(Heard(q), r) \in Seq(Replies)
    BY <1>2, AppendProperties DEF KeepHeard
  <2> QED  BY <2>1, <2>2, Zenon
<1>3. G = Seq(Replies)
  <2>1. \A q \in G, r \in Replies : Append(q, r) \in G
    BY <1>2, AppendProperties
  <2>2. G \subseteq Seq(Replies)  OBVIOUS
  <2> HIDE DEF G
  <2> QED  BY <1>1, <2>1, <2>2, PutFold!SeqInduction
<1> QED  BY <1>3

\* The result a of the bytes s, in the same words as KeepsUp.
KeptUp(K, t, s, r, a) ==
    /\ a.tel \in Tels /\ Follows(a.tel, r) /\ a.tel.naws \in K \cup {t.naws}
    /\ a.out = DataOf(s) /\ a.say \in Seq(Replies)

\* However a packet is cut, the parser passes on the caller's data and no more.
LEMMA FilterPath ==
  ASSUME NEW K \in SUBSET Sizes, NEW t \in Tels, NEW q, Follows(t, q),
         NEW s \in Seq(Wire), NEW r, Path(K, q, s, r)
  PROVE  KeptUp(K, t, s, r, FilterAll(t, s))
<1> DEFINE Good(p) == \A m : Path(K, q, p, m) => KeptUp(K, t, p, m, FilterAll(t, p))
           G == {p \in Seq(Wire) : Good(p)}
<1>1. <<>> \in G
  <2>1. <<>> \in Seq(Wire) /\ <<>> \in Seq(Replies)
    BY EmptySeq
  <2>2. FilterAll(t, <<>>) = Eaten(t) /\ DataOf(<<>>) = <<>>
    BY FilterNone, DataNone
  <2>3. ASSUME NEW m, Path(K, q, <<>>, m) PROVE KeptUp(K, t, <<>>, m, Eaten(t))
    <3>1. q = m
      BY <2>3, PathStays
    <3> QED  BY <2>1, <2>2, <3>1 DEF KeptUp, Eaten
  <2>4. Good(<<>>)
    BY <2>2, <2>3, Zenon
  <2> QED  BY <2>1, <2>4
<1>2. ASSUME NEW p \in Seq(Wire), Good(p), NEW b \in Wire PROVE Good(Append(p, b))
  <2> SUFFICES ASSUME NEW m, Path(K, q, Append(p, b), m)
               PROVE  KeptUp(K, t, Append(p, b), m, FilterAll(t, Append(p, b)))
    OBVIOUS
  <2>1. PICK l \in Places(K) : Path(K, q, p, l) /\ Moves(K, l, b, m)
    BY PathLast
  <2> DEFINE a == FilterAll(t, p)
             f == TelnetFilter(a.tel, b)
             z == FilterNext(a, b)
             d == DataOf(p)
  <2>2. /\ a.tel \in Tels /\ Follows(a.tel, l) /\ a.tel.naws \in K \cup {t.naws}
        /\ a.out = d /\ a.say \in Seq(Replies)
    BY <1>2, <2>1, Zenon DEF KeptUp
  <2>3. /\ f.tel \in Tels /\ Follows(f.tel, m) /\ f.tel.naws \in K \cup {a.tel.naws}
        /\ f.out = (IF b.n > 0 THEN <<b>> ELSE <<>>) /\ f.say \in Seq(Replies)
    <3> HIDE DEF a
    <3>1. KeepsUp(K, a.tel, b, m, f)
      BY <2>1, <2>2, FilterStep
    <3> QED  BY <3>1, Zenon DEF KeepsUp
  <2>4. FilterAll(t, Append(p, b)) = z
    BY FilterOne
  <2>5. DataOf(Append(p, b)) = KeepData(d, b)
    BY DataOne
  <2>6. d \in Seq(Caller)
    BY DataType
  <2> HIDE DEF a, f, d
  <2>7. z = [tel |-> f.tel, out |-> a.out \o f.out, say |-> a.say \o f.say]
    BY DEF FilterNext, f
  <2>8. a.out \o f.out = KeepData(d, b)
    <3>1. CASE b.n > 0
      <4>1. b \in Caller /\ f.out = <<b>>
        BY <2>3, <3>1 DEF Caller
      <4>2. Append(d, b) = d \o <<b>>
        BY <2>6, <4>1, AppendIsConcat
      <4> QED  BY <2>2, <3>1, <4>1, <4>2, Zenon DEF KeepData
    <3>2. CASE ~(b.n > 0)
      <4>1. f.out = <<>>
        BY <2>3, <3>2
      <4>2. d \o <<>> = d
        BY <2>6, ConcatEmptySeq
      <4> QED  BY <2>2, <3>2, <4>1, <4>2, Zenon DEF KeepData
    <3> QED  BY <3>1, <3>2
  <2>9. a.say \o f.say \in Seq(Replies)
    BY <2>2, <2>3, ConcatProperties
  <2> HIDE DEF z
  <2>10. z.tel = f.tel /\ z.out = a.out \o f.out /\ z.say = a.say \o f.say
    <3> DEFINE x == a.out \o f.out
               y == a.say \o f.say
               w == f.tel
    <3>1. z = [tel |-> w, out |-> x, say |-> y]
      BY <2>7
    <3> HIDE DEF w, x, y
    <3>2. z.tel = w /\ z.out = x /\ z.say = y
      BY <3>1
    <3> QED  BY <3>2 DEF w, x, y
  <2>11. /\ z.tel \in Tels /\ Follows(z.tel, m) /\ z.tel.naws \in K \cup {t.naws}
         /\ z.out = DataOf(Append(p, b)) /\ z.say \in Seq(Replies)
    <3>1. z.tel.naws \in K \cup {t.naws}
      BY <2>2, <2>3, <2>10
    <3> QED  BY <2>3, <2>5, <2>8, <2>9, <2>10, <3>1, Zenon
  <2>12. KeptUp(K, t, Append(p, b), m, z)
    BY <2>11, Zenon DEF KeptUp
  <2> QED  BY <2>4, <2>12, Zenon
<1>3. G = Seq(Wire)
  <2>1. \A p \in G, b \in Wire : Append(p, b) \in G
    <3> HIDE DEF Good
    <3> QED  BY <1>2, AppendProperties
  <2>2. G \subseteq Seq(Wire)  OBVIOUS
  <2> HIDE DEF G
  <2> QED  BY <1>1, <2>1, <2>2, PutFold!SeqInduction
<1> QED  BY <1>3

----------------------------------------------------------------------------
(***************************************************************************)
(* The invariant: what mTCP has for a call carries the stream from where   *)
(* the parser is to the end of a message.                                  *)
(***************************************************************************)
InStream(K, t, s) == \E q \in Places(K) : Follows(t, q) /\ Path(K, q, s, At("data"))

Shape == /\ line \in {"idle", "ringing", "connecting", "open"}
         /\ rx \in Rings /\ tel \in Tels
         /\ tcp \in Seq(Wire) /\ toPeer \in Seq(Replies)
         /\ units \in Nat /\ told \in SUBSET Sizes
         /\ got \in Seq(Wire) /\ owed \in Seq(Wire)
Stream == line # "idle" => InStream(told, tel, tcp)

RInv == Shape /\ Stream /\ NawsReal /\ Transparent

\* A whole message may follow.
LEMMA StreamGrows ==
  ASSUME NEW K, NEW L, K \subseteq L, NEW t, NEW s \in Seq(Wire), NEW m \in Seq(Wire),
         InStream(K, t, s), Path(L, At("data"), m, At("data"))
  PROVE  InStream(L, t, s \o m)
<1>1. PICK q \in Places(K) : Follows(t, q) /\ Path(K, q, s, At("data"))
  BY DEF InStream
<1>2. Path(L, q, s, At("data")) /\ q \in Places(L)
  BY <1>1, PathMore DEF Places
<1>3. Path(L, q, s \o m, At("data"))
  BY <1>2, PathConcat
<1> QED  BY <1>1, <1>2, <1>3 DEF InStream

\* A poll takes the first k bytes.
LEMMA StreamDrained ==
  ASSUME NEW K \in SUBSET Sizes, NEW t \in Tels, NEW s \in Seq(Wire),
         NEW k \in 0 .. Len(s), InStream(K, t, s)
  PROVE  LET p == SubSeq(s, 1, k)
             a == FilterAll(t, p)
         IN  /\ a.tel \in Tels /\ InStream(K, a.tel, SubSeq(s, k + 1, Len(s)))
             /\ a.tel.naws \in K \cup {t.naws}
             /\ a.out = DataOf(p) /\ a.say \in Seq(Replies)
<1> DEFINE p == SubSeq(s, 1, k)
           z == SubSeq(s, k + 1, Len(s))
           a == FilterAll(t, p)
<1>1. PICK q \in Places(K) : Follows(t, q) /\ Path(K, q, s, At("data"))
  BY DEF InStream
<1>2. PICK m \in Places(K) : Path(K, q, p, m) /\ Path(K, m, z, At("data"))
  BY <1>1, PathCut
<1>3. p \in Seq(Wire)
  BY CutAt
<1> HIDE DEF p, z
<1>4. KeptUp(K, t, p, m, a)
  BY <1>1, <1>2, <1>3, FilterPath
<1> HIDE DEF a
<1>5. /\ a.tel \in Tels /\ Follows(a.tel, m) /\ a.tel.naws \in K \cup {t.naws}
      /\ a.out = DataOf(p) /\ a.say \in Seq(Replies)
  BY <1>4 DEF KeptUp
<1>6. InStream(K, a.tel, z)
  BY <1>2, <1>5 DEF InStream
<1> QED  BY <1>5, <1>6, Zenon DEF p, z, a

LEMMA OffersAre == Heard(Offers) \in Seq(Replies)
<1>1. {"BINARY", "ECHO", "SGA", "NAWS", "TTYPE"} \subseteq Codes
  BY DEF Codes
<1>2. Offers \in Seq(Replies)
  BY <1>1 DEF Offers, Replies, Commands
<1> QED  BY <1>2, HeardType

LEMMA InitInv == Init => RInv
<1> SUFFICES ASSUME Init PROVE RInv  OBVIOUS
<1>1. /\ <<>> \in Seq(Wire) /\ <<>> \in Seq(Replies)
  BY EmptySeq
<1>2. Shape
  BY <1>1, EmptyRingIs, NewTelIs DEF Init, Shape
<1>3. Stream /\ NawsReal
  BY DEF Init, Stream, NawsReal
<1>4. Transparent
  <2>1. Contents(rx) = <<>> /\ got = <<>> /\ owed = <<>>
    BY EmptyRingIs DEF Init
  <2>2. <<>> \o <<>> = <<>>
    BY <1>1, ConcatEmptySeq
  <2> QED  BY <2>1, <2>2, CallerNone, Zenon DEF Transparent
<1> QED  BY <1>2, <1>3, <1>4 DEF RInv

\* The terminal sends a whole message.
LEMMA SendsInv == ASSUME RInv, PeerSends PROVE RInv'
<1>1. /\ line # "idle" /\ line' = line /\ rx' = rx /\ tel' = tel
      /\ toPeer' = toPeer /\ got' = got /\ owed' = owed /\ units' = units + 1
  BY DEF PeerSends
<1>2. /\ Shape /\ InStream(told, tel, tcp) /\ NawsReal /\ Transparent
  BY <1>1 DEF RInv, Stream
<1>3. units' \in Nat \ {0}
  BY <1>1, <1>2 DEF Shape
<1>4. PICK m \in Seq(Wire) : /\ tcp' = tcp \o m /\ told \subseteq told'
                             /\ told' \in SUBSET Sizes
                             /\ Path(told', At("data"), m, At("data"))
  <2>0. told \in SUBSET Sizes /\ tcp \in Seq(Wire)
    BY <1>2 DEF Shape
  <2>1. CASE tcp' = Append(tcp, Data("x", units')) /\ UNCHANGED told
    <3> DEFINE b == Data("x", units')
    <3>1. b \in Wire
      BY <1>3 DEF Data, Wire, Codes
    <3>2. Path(told, At("data"), <<b>>, At("data"))
      BY <1>3, DataPath
    <3> HIDE DEF b
    <3>3. Append(tcp, b) = tcp \o <<b>> /\ <<b>> \in Seq(Wire)
      BY <2>0, <3>1, AppendIsConcat
    <3>4. tcp' = tcp \o <<b>> /\ told' = told
      BY <2>1, <3>3, Zenon DEF b
    <3> QED  BY <2>0, <3>2, <3>3, <3>4
  <2>2. CASE tcp' = tcp \o <<B("IAC"), Data("IAC", units')>> /\ UNCHANGED told
    <3> DEFINE m == <<B("IAC"), Data("IAC", units')>>
    <3>1. B("IAC") \in Wire /\ Data("IAC", units') \in Wire
      BY <1>3 DEF B, Data, Wire, Codes
    <3>2. m \in Seq(Wire)
      BY <3>1
    <3>3. Path(told, At("data"), m, At("data"))
      BY <1>3, DataPath
    <3> HIDE DEF m
    <3>4. tcp' = tcp \o m /\ told' = told
      BY <2>2, Zenon DEF m
    <3> QED  BY <2>0, <3>2, <3>3, <3>4
  <2>3. CASE (\E cmd \in {"DO", "WILL"}, opt \in PeerOpts : tcp' = tcp \o Option(cmd, opt))
             /\ UNCHANGED told
    <3>1. PICK cmd \in {"DO", "WILL"}, opt \in PeerOpts : tcp' = tcp \o Option(cmd, opt)
      BY <2>3
    <3>2. B("IAC") \in Wire /\ B(cmd) \in Wire /\ B(opt) \in Wire
      BY DEF B, Wire, Codes, Commands
    <3>3. Option(cmd, opt) \in Seq(Wire)
      BY <3>2 DEF Option
    <3>4. Path(told, At("data"), Option(cmd, opt), At("data"))
      BY OptionPath DEF Commands
    <3> QED  BY <2>0, <2>3, <3>1, <3>3, <3>4
  <2>4. CASE \E size \in Sizes : tcp' = tcp \o Naws(size) /\ told' = told \cup {size}
    <3>1. PICK size \in Sizes : tcp' = tcp \o Naws(size) /\ told' = told \cup {size}
      BY <2>4
    <3>2. told' \in SUBSET Sizes /\ size \in told' /\ told \subseteq told'
      BY <2>0, <3>1
    <3>3. Naws(size) \in Seq(Wire) /\ Path(told', At("data"), Naws(size), At("data"))
      BY <3>2, NawsPath
    <3> QED  BY <3>1, <3>2, <3>3
  <2> QED  BY <2>1, <2>2, <2>3, <2>4, Zenon DEF PeerSends
<1>5. tcp \in Seq(Wire) /\ tcp' \in Seq(Wire)
  BY <1>2, <1>4, ConcatProperties DEF Shape
<1>6. InStream(told', tel, tcp')
  BY <1>2, <1>4, <1>5, StreamGrows
<1>7. Shape'
  BY <1>1, <1>2, <1>3, <1>4, <1>5 DEF Shape
<1>8. Stream'
  BY <1>1, <1>6 DEF Stream
<1>9. NawsReal' /\ Transparent'
  BY <1>1, <1>2, <1>4 DEF NawsReal, Transparent
<1> QED  BY <1>7, <1>8, <1>9 DEF RInv

LEMMA AnswersInv == ASSUME RInv, PeerAnswers PROVE RInv'
<1> DEFINE r  == Head(toPeer)
           yes == [WILL |-> "DO", DO |-> "WILL", WONT |-> "DONT", DONT |-> "WONT"]
           no  == [WILL |-> "DONT", DO |-> "WONT", WONT |-> "DONT", DONT |-> "WONT"]
<1>1. /\ line' = line /\ rx' = rx /\ tel' = tel /\ told' = told
      /\ got' = got /\ owed' = owed /\ units' = units
      /\ toPeer # <<>> /\ toPeer' = Tail(toPeer)
      /\ \/ tcp' = tcp
         \/ r.cmd # "SEND" /\ \E c \in {yes[r.cmd], no[r.cmd]} : tcp' = tcp \o Option(c, r.opt)
  BY DEF PeerAnswers
<1>2. /\ Shape /\ Stream /\ NawsReal /\ Transparent
  BY DEF RInv
<1>3. /\ tcp \in Seq(Wire) /\ toPeer \in Seq(Replies) /\ told \in SUBSET Sizes
  BY <1>2 DEF Shape
<1>4. r \in Replies /\ toPeer' \in Seq(Replies)
  BY <1>1, <1>3, HeadTailProperties
<1>5. tcp' = tcp \/ \E m \in Seq(Wire) : tcp' = tcp \o m
                                         /\ Path(told, At("data"), m, At("data"))
  <2>1. SUFFICES ASSUME r.cmd # "SEND",
                        NEW c \in {yes[r.cmd], no[r.cmd]}, tcp' = tcp \o Option(c, r.opt)
                 PROVE  \E m \in Seq(Wire) : tcp' = tcp \o m
                                             /\ Path(told, At("data"), m, At("data"))
    BY <1>1
  <2> HIDE DEF r
  <2>2. r.cmd \in Commands /\ r.opt \in Codes
    BY <1>4, <2>1 DEF Replies
  <2>3. c \in Commands
    BY <2>2 DEF Commands
  <2>4. B("IAC") \in Wire /\ B(c) \in Wire /\ B(r.opt) \in Wire
    BY <2>2, <2>3 DEF B, Wire, Codes
  <2>5. Option(c, r.opt) \in Seq(Wire)
    BY <2>4 DEF Option
  <2>6. Path(told, At("data"), Option(c, r.opt), At("data"))
    BY <2>3, OptionPath
  <2> QED  BY <2>1, <2>5, <2>6
<1>6. tcp' \in Seq(Wire)
  BY <1>3, <1>5, ConcatProperties
<1>7. Stream'
  <2> SUFFICES ASSUME line # "idle" PROVE InStream(told, tel, tcp')
    BY <1>1 DEF Stream
  <2>1. InStream(told, tel, tcp)
    BY <1>2 DEF Stream
  <2>2. ASSUME NEW m \in Seq(Wire), tcp' = tcp \o m, Path(told, At("data"), m, At("data"))
        PROVE  InStream(told, tel, tcp')
    <3>1. InStream(told, tel, tcp \o m)
      BY <1>3, <2>1, <2>2, StreamGrows
    <3> QED  BY <2>2, <3>1, Zenon
  <2> QED  BY <1>5, <2>1, <2>2, Zenon
<1>8. Shape'
  BY <1>1, <1>2, <1>4, <1>6 DEF Shape
<1>9. NawsReal' /\ Transparent'
  BY <1>1, <1>2 DEF NawsReal, Transparent
<1> QED  BY <1>7, <1>8, <1>9 DEF RInv

\* A ring that is cleared holds nothing of the caller, whatever the modem says then.
LEMMA Cleared ==
  ASSUME NEW r \in Rings, NEW z, z = RingInit(r) \/ z \in Saying(RingInit(r)),
         NEW g \in Seq(Wire)
  PROVE  z \in Rings /\ g \o CallerBytes(Contents(z)) = g
<1>1. RingInit(r) \in Rings /\ Contents(RingInit(r)) = <<>>
  BY InitRing
<1>2. z \in Rings /\ CallerBytes(Contents(z)) = CallerBytes(Contents(RingInit(r)))
  BY <1>1, SayingRing
<1>3. CallerBytes(Contents(z)) = <<>>
  BY <1>1, <1>2, CallerNone, Zenon
<1>4. g \o <<>> = g
  BY ConcatEmptySeq
<1> QED  BY <1>2, <1>3, <1>4, Zenon

LEMMA TakeCallInv == ASSUME RInv, TakeCall PROVE RInv'
<1>1. /\ line' = "ringing" /\ rx' \in Saying(RingInit(rx)) /\ tel' = NewTel
      /\ toPeer' = Heard(Offers) /\ tcp' = <<>> /\ got' = <<>> /\ owed' = <<>>
      /\ told' = {} /\ units' = units
  BY DEF TakeCall, OnConnect
<1>2. Shape /\ <<>> \in Seq(Wire)
  BY EmptySeq DEF RInv
<1>3. rx' \in Rings /\ <<>> \o CallerBytes(Contents(rx')) = <<>>
  BY <1>1, <1>2, Cleared DEF Shape
<1>4. Shape'
  BY <1>1, <1>2, <1>3, NewTelIs, OffersAre DEF Shape
<1>5. Stream'
  <2>1. At("data") \in Places({})
    BY PlacesAre
  <2>2. Path({}, At("data"), <<>>, At("data"))
    BY <2>1, PathNone
  <2>3. InStream({}, NewTel, <<>>)
    BY <2>1, <2>2, NewTelIs DEF InStream
  <2> QED  BY <1>1, <2>3 DEF Stream
<1>6. NawsReal'
  BY <1>1, NewTelIs DEF NawsReal
<1>7. Transparent'
  BY <1>1, <1>3, Zenon DEF Transparent
<1> QED  BY <1>4, <1>5, <1>6, <1>7 DEF RInv

LEMMA AnswerInv == ASSUME RInv, Answer PROVE RInv'
<1>1. line # "idle" /\ line' = "connecting" /\ UNCHANGED <<rx, tel, peerVars, got, owed>>
  BY DEF Answer
<1> QED  BY <1>1 DEF RInv, Shape, Stream, NawsReal, Transparent, peerVars

LEMMA DeliverInv == ASSUME RInv, DeliverConnect PROVE RInv'
<1>1. /\ line = "connecting" /\ line' = "open" /\ rx' \in Saying(rx)
      /\ UNCHANGED <<tel, peerVars, got, owed>>
  BY DEF DeliverConnect
<1>2. rx' \in Rings /\ CallerBytes(Contents(rx')) = CallerBytes(Contents(rx))
  BY <1>1, SayingRing DEF RInv, Shape
<1>3. Transparent'
  BY <1>1, <1>2 DEF RInv, Transparent
<1> QED  BY <1>1, <1>2, <1>3 DEF RInv, Shape, Stream, NawsReal, peerVars

LEMMA EndCallInv == ASSUME RInv, EndCall PROVE RInv'
<1>1. /\ line' = "idle" /\ rx' \in Saying(RingInit(rx)) /\ tcp' = <<>> /\ toPeer' = <<>>
      /\ owed' = got /\ got' = got /\ UNCHANGED <<tel, units, told>>
  BY DEF EndCall, Forgive
<1>2. Shape /\ <<>> \in Seq(Wire) /\ <<>> \in Seq(Replies)
  BY EmptySeq DEF RInv
<1>3. rx' \in Rings /\ got \o CallerBytes(Contents(rx')) = got
  BY <1>1, <1>2, Cleared DEF Shape
<1>4. Shape'
  BY <1>1, <1>2, <1>3 DEF Shape
<1>5. Stream' /\ NawsReal'
  BY <1>1 DEF Stream, NawsReal
<1>6. Transparent'
  BY <1>1, <1>3, Zenon DEF Transparent
<1> QED  BY <1>4, <1>5, <1>6 DEF RInv

LEMMA FossilInitInv == ASSUME RInv, FossilInit PROVE RInv'
<1>1. /\ rx' = RingInit(rx) /\ owed' = got /\ got' = got /\ UNCHANGED <<tel, units, told>>
      /\ \/ /\ line' = IF line = "connecting" THEN "open" ELSE line
            /\ UNCHANGED <<tcp, toPeer>>
         \/ line' = "idle" /\ tcp' = <<>> /\ toPeer' = <<>>
  BY DEF FossilInit, Forgive
<1>2. /\ Shape /\ Stream /\ NawsReal /\ <<>> \in Seq(Wire) /\ <<>> \in Seq(Replies)
  BY EmptySeq DEF RInv
<1>3. rx' \in Rings /\ got \o CallerBytes(Contents(rx')) = got
  BY <1>1, <1>2, Cleared DEF Shape
<1>4. Transparent'
  BY <1>1, <1>3, Zenon DEF Transparent
<1>5. Shape'
  BY <1>1, <1>2, <1>3 DEF Shape
<1>6. Stream' /\ NawsReal'
  BY <1>1, <1>2 DEF Stream, NawsReal
<1> QED  BY <1>4, <1>5, <1>6 DEF RInv

LEMMA PurgeInv == ASSUME RInv, PurgeInput PROVE RInv'
<1>1. /\ rx' = RingInit(rx) /\ owed' = got /\ got' = got /\ UNCHANGED <<line, tel, peerVars>>
  BY DEF PurgeInput, Forgive
<1>2. Shape /\ Stream /\ NawsReal
  BY DEF RInv
<1>3. rx' \in Rings /\ got \o CallerBytes(Contents(rx')) = got
  BY <1>1, <1>2, Cleared DEF Shape
<1>4. Transparent'
  BY <1>1, <1>3, Zenon DEF Transparent
<1>5. Shape' /\ Stream' /\ NawsReal'
  BY <1>1, <1>2, <1>3 DEF Shape, Stream, NawsReal, peerVars
<1> QED  BY <1>4, <1>5 DEF RInv

LEMMA ModemTextInv == ASSUME RInv, ModemText PROVE RInv'
<1>1. rx' \in Saying(rx) /\ UNCHANGED <<line, tel, peerVars, got, owed>>
  BY DEF ModemText, Saying
<1>2. rx' \in Rings /\ CallerBytes(Contents(rx')) = CallerBytes(Contents(rx))
  BY <1>1, SayingRing DEF RInv, Shape
<1>3. Transparent'
  BY <1>1, <1>2 DEF RInv, Transparent
<1> QED  BY <1>1, <1>2, <1>3 DEF RInv, Shape, Stream, NawsReal, peerVars

\* Reading moves the oldest bytes from the ring to what was read.
LEMMA TakesInv == ASSUME RInv, NEW k \in 0 .. rx.count, Takes(k) PROVE RInv'
<1> DEFINE c == Contents(rx)
           a == SubSeq(c, 1, k)
           z == SubSeq(c, k + 1, rx.count)
<1>1. /\ rx' = Gets(rx, k) /\ got' = got \o CallerBytes(a)
      /\ UNCHANGED <<line, tel, peerVars, owed>>
  BY DEF Takes
<1>2. Shape /\ Stream /\ NawsReal /\ got \o CallerBytes(c) = owed
  BY DEF RInv, Transparent
<1>3. c \in Seq(Wire) /\ Len(c) = rx.count
  BY <1>2, ContentsIs DEF Shape
<1>4. a \in Seq(Wire) /\ z \in Seq(Wire) /\ a \o z = c
  <2> HIDE DEF c
  <2> QED  BY <1>3, CutAt
<1>5. rx' \in Rings /\ Contents(rx') = z
  BY <1>1, <1>2, GetsRing DEF Shape
<1> HIDE DEF a, z, c
<1> DEFINE x == CallerBytes(a)
           y == CallerBytes(z)
<1>6. x \in Seq(Wire) /\ y \in Seq(Wire) /\ got \in Seq(Wire)
  BY <1>2, <1>4, CallerType DEF Shape
<1>7. CallerBytes(c) = x \o y
  BY <1>4, CallerConcat
<1> HIDE DEF x, y
<1>8. (got \o x) \o y = got \o (x \o y) /\ got \o x \in Seq(Wire)
  BY <1>6, ConcatAssociative, ConcatProperties
<1>9. got' = got \o x /\ owed' = owed /\ CallerBytes(Contents(rx')) = y
  BY <1>1, <1>5, Zenon DEF x, y
<1>10. Transparent'
  BY <1>2, <1>7, <1>8, <1>9, Zenon DEF Transparent
<1>11. Shape' /\ Stream' /\ NawsReal'
  BY <1>1, <1>2, <1>5, <1>8, <1>9 DEF Shape, Stream, NawsReal, peerVars
<1> QED  BY <1>10, <1>11 DEF RInv

\* A poll: the parser goes on, and what it passes on finds room in the ring.
LEMMA DrainInv == ASSUME RInv, NEW k \in 1 .. Chunk, Drain(k) PROVE RInv'
<1> DEFINE p == SubSeq(tcp, 1, k)
           f == FilterAll(tel, p)
           d == DataOf(p)
           c == Contents(rx)
<1>1. /\ line # "idle" /\ k <= Len(tcp) /\ rx.count <= RingSize - Chunk
      /\ tcp' = SubSeq(tcp, k + 1, Len(tcp))
      /\ tel' = f.tel /\ toPeer' = toPeer \o Heard(f.say)
      /\ rx' = IF Delivers THEN Puts(rx, f.out) ELSE rx
      /\ owed' = IF line = "open" THEN owed \o d ELSE owed
      /\ line' = line /\ units' = units /\ got' = got /\ told' = told
  BY DEF Drain, MayDrain
<1>2. Shape /\ InStream(told, tel, tcp) /\ tel.naws \in told \cup {<<>>} /\ Transparent
  BY <1>1 DEF RInv, Stream, NawsReal
<1>3. /\ line \in {"idle", "ringing", "connecting", "open"}
      /\ rx \in Rings /\ tel \in Tels /\ tcp \in Seq(Wire) /\ toPeer \in Seq(Replies)
      /\ told \in SUBSET Sizes /\ got \in Seq(Wire) /\ owed \in Seq(Wire)
  BY <1>2 DEF Shape
<1>4. k \in 0 .. Len(tcp)
  BY <1>1, <1>3, RingSizes, LenProperties
<1>5. /\ f.tel \in Tels /\ InStream(told, f.tel, SubSeq(tcp, k + 1, Len(tcp)))
      /\ f.tel.naws \in told \cup {tel.naws}
      /\ f.out = d /\ f.say \in Seq(Replies)
  BY <1>2, <1>3, <1>4, StreamDrained
<1>6. p \in Seq(Wire) /\ Len(p) = k /\ SubSeq(tcp, k + 1, Len(tcp)) \in Seq(Wire)
  BY <1>3, <1>4, CutAt
<1> HIDE DEF p, f
<1>7. d \in Seq(Caller) /\ Len(d) <= k
  BY <1>6, DataType
<1>8. d \in Seq(Wire) /\ c \in Seq(Wire)
  <2>1. Caller \subseteq Wire
    BY DEF Caller
  <2>2. Seq(Caller) \subseteq Seq(Wire)
    BY <2>1
  <2>3. c \in Seq(Wire)
    BY <1>3, ContentsIs
  <2> QED  BY <1>7, <2>2, <2>3
<1>9. rx.count + Len(d) <= RingSize
  BY <1>1, <1>3, <1>7, <1>8, RingFields, RingSizes, LenProperties
<1> HIDE DEF d, c
<1>10. Puts(rx, d) \in Rings /\ Contents(Puts(rx, d)) = c \o d
  BY <1>3, <1>8, <1>9, PutsRing DEF c
<1>11. rx' \in Rings
  BY <1>1, <1>3, <1>5, <1>10, Zenon
<1>12. toPeer \o Heard(f.say) \in Seq(Replies)
  BY <1>3, <1>5, HeardType, ConcatProperties
<1>13. owed' \in Seq(Wire)
  BY <1>1, <1>3, <1>8, ConcatProperties
<1>14. Shape'
  BY <1>1, <1>2, <1>5, <1>6, <1>11, <1>12, <1>13 DEF Shape
<1>15. Stream'
  BY <1>1, <1>5, Zenon DEF Stream
<1>16. NawsReal'
  BY <1>1, <1>2, <1>5 DEF NawsReal
<1>17. got \o CallerBytes(c) = owed
  BY <1>2, Zenon DEF Transparent, c
<1>18. Transparent'
  <2>1. CASE line = "open"
    <3>1. rx' = Puts(rx, d) /\ owed' = owed \o d
      BY <1>1, <1>5, <2>1 DEF Delivers
    <3> DEFINE x == CallerBytes(c)
    <3>2. CallerBytes(c \o d) = x \o d
      <4>1. CallerBytes(d) = d
        BY <1>7, CallerKeeps
      <4>2. CallerBytes(c \o d) = CallerBytes(c) \o CallerBytes(d)
        BY <1>8, CallerConcat
      <4> QED  BY <4>1, <4>2, Zenon
    <3>3. x \in Seq(Wire)
      BY <1>8, CallerType
    <3> HIDE DEF x
    <3>4. (got \o x) \o d = got \o (x \o d)
      <4> DEFINE g == got
      <4>1. g \in Seq(Wire) /\ x \in Seq(Wire) /\ d \in Seq(Wire)
        BY <1>3, <1>8, <3>3
      <4> HIDE DEF g
      <4>2. (g \o x) \o d = g \o (x \o d)
        BY <4>1, ConcatAssociative
      <4> QED  BY <4>2 DEF g
    <3>5. CallerBytes(Contents(rx')) = x \o d
      BY <1>10, <3>1, <3>2, Zenon
    <3>6. got' \o CallerBytes(Contents(rx')) = owed'
      BY <1>1, <1>17, <3>1, <3>4, <3>5, Zenon DEF x
    <3> QED  BY <3>6, Zenon DEF Transparent
  <2>2. CASE line # "open"
    <3>1. rx' = rx /\ owed' = owed
      BY <1>1, <1>3, <2>2 DEF Delivers
    <3>2. got' \o CallerBytes(Contents(rx')) = owed'
      BY <1>1, <1>17, <3>1, Zenon DEF c
    <3> QED  BY <3>2, Zenon DEF Transparent
  <2> QED  BY <2>1, <2>2
<1> QED  BY <1>14, <1>15, <1>16, <1>18 DEF RInv

LEMMA StepInv == ASSUME RInv, [Next]_vars PROVE RInv'
<1>0. rx.count \in Nat /\ RingSize \in Nat
  BY RingFields, RingSizes DEF RInv, Shape
<1>1. CASE PeerSends
  BY <1>1, SendsInv
<1>2. CASE PeerAnswers
  BY <1>2, AnswersInv
<1>3. CASE TakeCall
  BY <1>3, TakeCallInv
<1>4. CASE Answer
  BY <1>4, AnswerInv
<1>5. CASE DeliverConnect
  BY <1>5, DeliverInv
<1>6. CASE EndCall
  BY <1>6, EndCallInv
<1>7. CASE FossilInit
  BY <1>7, FossilInitInv
<1>8. CASE DrainSome
  BY <1>8, DrainInv DEF DrainSome
<1>9. CASE ModemText
  BY <1>9, ModemTextInv
<1>10. CASE ReadChar
  <2>1. 1 \in 0 .. rx.count /\ Takes(1)
    BY <1>0, <1>10 DEF ReadChar
  <2> QED  BY <2>1, TakesInv
<1>11. CASE ReadBlock
  <2>1. PICK max \in 1 .. RingSize : Takes(IF max < rx.count THEN max ELSE rx.count)
    BY <1>11 DEF ReadBlock
  <2>2. (IF max < rx.count THEN max ELSE rx.count) \in 0 .. rx.count
    BY <1>0
  <2> QED  BY <2>1, <2>2, TakesInv
<1>12. CASE PurgeInput
  BY <1>12, PurgeInv
<1>13. CASE UNCHANGED vars
  BY <1>13 DEF vars, RInv, Shape, Stream, NawsReal, Transparent
<1> QED  BY <1>1, <1>2, <1>3, <1>4, <1>5, <1>6, <1>7, <1>8, <1>9, <1>10, <1>11, <1>12,
            <1>13 DEF Next

LEMMA Invariant == Spec => []RInv
<1>1. RInv /\ [Next]_vars => RInv'
  BY StepInv
<1> QED  BY InitInv, <1>1, PTL DEF Spec

----------------------------------------------------------------------------
(***************************************************************************)
(* The ring as a queue.                                                    *)
(***************************************************************************)
\* What is appended leaves the old contents a prefix.
LEMMA PrefixConcat ==
  ASSUME NEW T, NEW s \in Seq(T), NEW t \in Seq(T) PROVE IsPrefix(s, s \o t)
<1> DEFINE u == s \o t
           n == Len(s)
<1>1. /\ n \in Nat /\ Len(t) \in Nat /\ u \in Seq(T) /\ Len(u) = n + Len(t)
      /\ \A i \in 1 .. n + Len(t) : u[i] = IF i <= n THEN s[i] ELSE t[i - n]
  BY LenProperties, ConcatProperties
<1> HIDE DEF u
<1>2. n \in 0 .. Len(u) /\ n \in 0 .. Len(s)
  BY <1>1
<1>3. /\ SubSeq(s, 1, n) = s
      /\ SubSeq(u, 1, n) \in Seq(T) /\ Len(SubSeq(u, 1, n)) = n
      /\ \A i \in 1 .. n : SubSeq(u, 1, n)[i] = u[i]
  BY <1>1, <1>2, CutAt, SubSeqFull
<1>4. \A i \in 1 .. n : SubSeq(u, 1, n)[i] = s[i]
  BY <1>1, <1>3
<1>5. SubSeq(u, 1, n) = s
  <2> DEFINE v == SubSeq(u, 1, n)
  <2>1. v \in Seq(T) /\ Len(v) = n /\ \A i \in 1 .. n : v[i] = s[i]
    BY <1>3, <1>4
  <2> HIDE DEF v
  <2>2. v = s
    BY <2>1, SeqEqual DEF n
  <2> QED  BY <2>2 DEF v
<1>6. Len(s) <= Len(u) /\ SubSeq(s, 1, Len(s)) = SubSeq(u, 1, Len(s))
  BY <1>1, <1>3, <1>5
<1> QED  BY <1>6 DEF IsPrefix, u

LEMMA ReverseIs ==
  ASSUME NEW T, NEW s \in Seq(T)
  PROVE  /\ Reverse(s) \in Seq(T) /\ Len(Reverse(s)) = Len(s)
         /\ \A i \in 1 .. Len(s) : Reverse(s)[i] = s[(Len(s) - i) + 1]
<1>1. Len(s) \in Nat /\ \A i \in 1 .. Len(s) : s[i] \in T
  BY LenProperties, ElementOfSeq
<1>2. \A i \in 1 .. Len(s) : (Len(s) - i) + 1 \in 1 .. Len(s)
  BY <1>1
<1> QED  BY <1>1, <1>2 DEF Reverse

\* What is left after the oldest are taken is a suffix.
LEMMA SuffixCut ==
  ASSUME NEW T, NEW s \in Seq(T), NEW k \in 0 .. Len(s)
  PROVE  IsSuffix(SubSeq(s, k + 1, Len(s)), s)
<1> DEFINE n == Len(s)
           z == SubSeq(s, k + 1, n)
           a == Reverse(z)
           b == Reverse(s)
           v == SubSeq(b, 1, n - k)
<1>1. /\ n \in Nat /\ k \in Nat /\ k <= n
      /\ z \in Seq(T) /\ Len(z) = n - k
      /\ \A i \in 1 .. n - k : z[i] = s[i + k]
  BY CutAt, LenProperties
<1> HIDE DEF z
<1>2. /\ a \in Seq(T) /\ Len(a) = n - k
      /\ \A i \in 1 .. n - k : a[i] = z[((n - k) - i) + 1]
  <2>1. /\ a \in Seq(T) /\ Len(a) = Len(z)
        /\ \A i \in 1 .. Len(z) : a[i] = z[(Len(z) - i) + 1]
    BY <1>1, ReverseIs
  <2> HIDE DEF a
  <2> QED  BY <1>1, <2>1
<1>3. /\ b \in Seq(T) /\ Len(b) = n
      /\ \A i \in 1 .. n : b[i] = s[(n - i) + 1]
  BY ReverseIs
<1> HIDE DEF a, b
<1>4. n - k \in 0 .. Len(b) /\ n - k \in Nat
  BY <1>1, <1>3
<1> DEFINE j == n - k
<1>5. /\ v \in Seq(T) /\ Len(v) = n - k
      /\ \A i \in 1 .. n - k : v[i] = b[i]
  <2>1. j \in 0 .. Len(b)
    BY <1>4
  <2> HIDE DEF j
  <2>2. /\ SubSeq(b, 1, j) \in Seq(T) /\ Len(SubSeq(b, 1, j)) = j
        /\ \A i \in 1 .. j : SubSeq(b, 1, j)[i] = b[i]
    BY <1>3, <2>1, CutAt
  <2> QED  BY <2>2 DEF j
<1> HIDE DEF v
<1>6. ASSUME NEW i \in 1 .. n - k PROVE v[i] = a[i]
  <2>1. /\ ((n - k) - i) + 1 \in 1 .. n - k /\ i \in 1 .. n
        /\ (((n - k) - i) + 1) + k = (n - i) + 1
    BY <1>1
  <2> QED  BY <1>1, <1>2, <1>3, <1>5, <2>1
<1>7. v = a
  BY <1>2, <1>5, <1>6, SeqEqual
<1>8. SubSeq(a, 1, Len(a)) = a
  BY <1>2, SubSeqFull
<1>9. Len(a) <= Len(b) /\ SubSeq(a, 1, Len(a)) = SubSeq(b, 1, Len(a))
  <2>1. Len(a) <= Len(b)
    BY <1>1, <1>2, <1>3
  <2>2. SubSeq(b, 1, Len(a)) = v
    BY <1>2, Zenon DEF v
  <2> QED  BY <1>7, <1>8, <2>1, <2>2, Zenon
<1>10. IsSuffix(z, s)
  BY <1>9 DEF IsSuffix, IsPrefix, a, b
<1> QED  BY <1>10 DEF z

\* A text of the modem, in a ring that was just cleared and in any other.
LEMMA SayingCleared ==
  ASSUME NEW r \in Rings, NEW z \in Saying(RingInit(r))
  PROVE  Contents(z) \in {<<>>, <<Text>>}
<1> DEFINE o == RingInit(r)
<1>1. o \in Rings /\ Contents(o) = <<>>
  BY InitRing
<1>2. o.count = 0
  BY <1>1, ContentsIs, EmptySeq
<1> HIDE DEF o
<1>3. CASE z = o
  BY <1>1, <1>3
<1>4. CASE z = RingPut(o, Text)
  <2>1. o.count < RingSize
    BY <1>2, RingSizes
  <2>2. Contents(RingPut(o, Text)) = Append(Contents(o), Text)
    BY <1>1, <2>1, PutRing, TextIsWire
  <2>3. Append(<<>>, Text) = <<Text>>
    <3> DEFINE x == Text
    <3> HIDE DEF x
    <3>1. Append(<<>>, x) = <<x>>
      OBVIOUS
    <3> QED  BY <3>1 DEF x
  <2> QED  BY <1>1, <1>4, <2>2, <2>3, Zenon
<1> QED  BY <1>3, <1>4 DEF Saying, o

LEMMA SayingGrows ==
  ASSUME NEW r \in Rings, NEW z \in Saying(r)
  PROVE  \/ z = r
         \/ IsPrefix(Contents(r), Contents(z)) /\ Len(Contents(z)) <= RingSize
<1>1. CASE z = RingPut(r, Text) /\ r.count < RingSize
  <2> DEFINE c == Contents(r)
             x == Text
  <2>1. /\ z \in Rings /\ z.count = r.count + 1
    BY <1>1, PutFields, TextIsWire
  <2>2. Contents(z) = Append(c, x)
    BY <1>1, PutRing, TextIsWire
  <2>3. c \in Seq(Wire) /\ x \in Wire
    BY ContentsIs, TextIsWire
  <2> HIDE DEF c, x
  <2>4. Append(c, x) = c \o <<x>> /\ <<x>> \in Seq(Wire)
    BY <2>3, AppendIsConcat
  <2>5. IsPrefix(c, c \o <<x>>)
    BY <2>3, <2>4, PrefixConcat
  <2>6. IsPrefix(c, Contents(z))
    BY <2>2, <2>4, <2>5, Zenon
  <2>7. Len(Contents(z)) <= RingSize
    BY <2>1, ContentsIs, RingFields, RingSizes
  <2> QED  BY <2>6, <2>7 DEF c
<1>2. CASE z = RingPut(r, Text) /\ ~(r.count < RingSize)
  <2>1. r.count >= RingSize
    BY <1>2, RingFields, RingSizes
  <2> QED  BY <1>2, <2>1 DEF RingPut
<1> QED  BY <1>1, <1>2 DEF Saying

LEMMA StepFifo ==
  ASSUME RInv, [Next]_vars
  PROVE  [Fifo!Grow \/ Fifo!Shrink \/ Fifo!Clear]_(Contents(rx))
<1> DEFINE Goal == \/ IsPrefix(Contents(rx), Contents(rx')) /\ Len(Contents(rx')) <= RingSize
                   \/ IsSuffix(Contents(rx'), Contents(rx))
                   \/ Contents(rx') \in {<<>>, <<Text>>}
                   \/ Contents(rx') = Contents(rx)
<1>0. /\ \A a, b : Fifo!IsPrefix(a, b) <=> IsPrefix(a, b)
      /\ \A a, b : Fifo!IsSuffix(a, b) <=> IsSuffix(a, b)
  BY DEF IsPrefix, Fifo!IsPrefix, IsSuffix, Fifo!IsSuffix, Reverse, Fifo!Reverse
<1> SUFFICES Goal
  BY <1>0 DEF Fifo!Grow, Fifo!Shrink, Fifo!Clear
<1>1. rx \in Rings /\ rx.count \in Nat
  BY RingFields, RingSizes DEF RInv, Shape
<1>2. ASSUME UNCHANGED rx PROVE Goal
  BY <1>2
<1>3. ASSUME rx' = RingInit(rx) \/ rx' \in Saying(RingInit(rx)) PROVE Goal
  <2>1. Contents(rx') \in {<<>>, <<Text>>}
    BY <1>1, <1>3, SayingCleared, InitRing
  <2> QED  BY <2>1
<1>4. ASSUME rx' \in Saying(rx) PROVE Goal
  BY <1>1, <1>4, SayingGrows
<1>5. ASSUME NEW k \in 0 .. rx.count, Takes(k) PROVE Goal
  <2> DEFINE c == Contents(rx)
  <2>1. Contents(rx') = SubSeq(c, k + 1, rx.count)
    BY <1>1, <1>5, GetsRing DEF Takes
  <2>2. c \in Seq(Wire) /\ Len(c) = rx.count
    BY <1>1, ContentsIs
  <2>3. IsSuffix(SubSeq(c, k + 1, Len(c)), c)
    <3> HIDE DEF c
    <3> QED  BY <2>2, SuffixCut
  <2>4. IsSuffix(Contents(rx'), c)
    BY <2>1, <2>2, <2>3, Zenon
  <2> QED  BY <2>4
<1>6. ASSUME NEW k \in 1 .. Chunk, Drain(k) PROVE Goal
  <2> DEFINE p == SubSeq(tcp, 1, k)
             f == FilterAll(tel, p)
             c == Contents(rx)
             d == DataOf(p)
  <2>1. /\ line # "idle" /\ k <= Len(tcp) /\ rx.count <= RingSize - Chunk
        /\ rx' = IF Delivers THEN Puts(rx, f.out) ELSE rx
    BY <1>6 DEF Drain, MayDrain
  <2>2. /\ tel \in Tels /\ tcp \in Seq(Wire) /\ told \in SUBSET Sizes
        /\ InStream(told, tel, tcp)
    BY <2>1 DEF RInv, Shape, Stream
  <2>3. k \in 0 .. Len(tcp)
    BY <2>1, <2>2, RingSizes, LenProperties
  <2>4. f.out = d
    BY <2>2, <2>3, StreamDrained
  <2>5. p \in Seq(Wire) /\ Len(p) = k
    BY <2>2, <2>3, CutAt
  <2> HIDE DEF p, f
  <2>6. d \in Seq(Caller) /\ Len(d) <= k
    BY <2>5, DataType
  <2>7. d \in Seq(Wire) /\ c \in Seq(Wire) /\ Len(c) = rx.count
    <3>1. Seq(Caller) \subseteq Seq(Wire)
      BY DEF Caller
    <3> QED  BY <1>1, <2>6, <3>1, ContentsIs
  <2>8. Len(d) \in Nat /\ rx.count + Len(d) <= RingSize
    BY <1>1, <2>1, <2>6, <2>7, RingSizes, LenProperties
  <2> HIDE DEF d
  <2>9. CASE Delivers
    <3>1. rx' = Puts(rx, d)
      BY <2>1, <2>4, <2>9, Zenon
    <3>2. Contents(rx') = c \o d
      BY <1>1, <2>7, <2>8, <3>1, PutsRing
    <3> HIDE DEF c
    <3>3. IsPrefix(c, c \o d)
      BY <2>7, PrefixConcat
    <3>4. Len(c \o d) <= RingSize
      BY <2>7, <2>8, ConcatProperties
    <3>5. IsPrefix(c, Contents(rx')) /\ Len(Contents(rx')) <= RingSize
      BY <3>2, <3>3, <3>4, Zenon
    <3> QED  BY <3>5 DEF c
  <2>10. CASE ~Delivers
    BY <2>1, <2>10
  <2> QED  BY <2>9, <2>10
<1> HIDE DEF Goal
<1>7. CASE PeerSends
  BY <1>2, <1>7 DEF PeerSends
<1>8. CASE PeerAnswers
  BY <1>2, <1>8 DEF PeerAnswers
<1>9. CASE TakeCall
  BY <1>3, <1>9 DEF TakeCall
<1>10. CASE Answer
  BY <1>2, <1>10 DEF Answer
<1>11. CASE DeliverConnect
  BY <1>4, <1>11 DEF DeliverConnect
<1>12. CASE EndCall
  BY <1>3, <1>12 DEF EndCall
<1>13. CASE FossilInit
  BY <1>3, <1>13 DEF FossilInit
<1>14. CASE DrainSome
  BY <1>6, <1>14 DEF DrainSome
<1>15. CASE ModemText
  BY <1>4, <1>15 DEF ModemText, Saying
<1>16. CASE ReadChar
  <2>1. 1 \in 0 .. rx.count /\ Takes(1)
    BY <1>1, <1>16 DEF ReadChar
  <2> QED  BY <1>5, <2>1
<1>17. CASE ReadBlock
  <2>1. PICK max \in 1 .. RingSize : Takes(IF max < rx.count THEN max ELSE rx.count)
    BY <1>17 DEF ReadBlock
  <2>2. (IF max < rx.count THEN max ELSE rx.count) \in 0 .. rx.count
    BY <1>1, RingSizes
  <2> QED  BY <1>5, <2>1, <2>2
<1>18. CASE PurgeInput
  BY <1>3, <1>18 DEF PurgeInput
<1>19. CASE UNCHANGED vars
  BY <1>2, <1>19 DEF vars
<1> QED  BY <1>7, <1>8, <1>9, <1>10, <1>11, <1>12, <1>13, <1>14, <1>15, <1>16, <1>17,
            <1>18, <1>19 DEF Next

----------------------------------------------------------------------------
(***************************************************************************)
(* The theorems.                                                           *)
(***************************************************************************)
\* The head, the tail and the count of the ring agree with each other and stay in
\* range whatever is put and taken, and the parser is never in a state that
\* telnet_filter has no case for (ringbuf.c:11, telnet.c:242).
THEOREM RingTyped == Spec => []TypeOK
<1>1. RInv => TypeOK
  BY RingFields DEF RInv, Shape, TypeOK, Tels, States
<1> QED  BY <1>1, Invariant, PTL

\* Every byte that the caller sends once the application is connected is read once
\* and in order, FFh included, however TCP and the polls cut the stream: do_mtcp_poll
\* reads no more than the ring has room for, and telnet_filter keeps its place in an
\* option or a subnegotiation from one packet to the next (poll.c:408, telnet.c:254).
THEOREM CallerHeard == Spec => []Transparent
<1>1. RInv => Transparent
  BY DEF RInv
<1> QED  BY <1>1, Invariant, PTL

\* A window size that MUX_PORT_NAWS gives out is one that this caller's terminal
\* sent; a report that loses its FFh bytes in telnet_handle_sb is too short to be
\* taken (telnet.c:313, telnet.c:328).
THEOREM SizeTold == Spec => []NawsReal
<1>1. RInv => NawsReal
  BY DEF RInv
<1> QED  BY <1>1, Invariant, PTL

\* The ring of indices is a bounded queue: a step appends within its size, takes the
\* oldest, or clears it but for one text of the modem (ringbuf.c:23).
THEOREM RingIsQueue == Spec => ImplementsFifo
<1>1. Init => Fifo!Init
  BY EmptyRingIs DEF Init, Fifo!Init
<1>2. RInv /\ [Next]_vars => [Fifo!Grow \/ Fifo!Shrink \/ Fifo!Clear]_(Contents(rx))
  BY StepFifo
<1> QED  BY <1>1, <1>2, Invariant, PTL DEF Spec, ImplementsFifo, Fifo!Spec

=============================================================================
