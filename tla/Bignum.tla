------------------------------- MODULE Bignum -------------------------------
(***************************************************************************)
(* The multi-word arithmetic of lib/vtls.c: just enough for one RSA        *)
(* exponentiation.  A number is a sequence of words, least significant     *)
(* first; its length is the b[0] of the code.  A byte is DigitBits wide    *)
(* and a word is two bytes, 8 and 16 in the code.  The operations that     *)
(* call each other are functions of values: a sequence that was built with *)
(* << >> \o is one, where TLC would evaluate [i \in S |-> e] at every use. *)
(***************************************************************************)
EXTENDS Integers, Sequences

CONSTANT DigitBits
ASSUME DigitBitsAssumption == DigitBits \in Nat \ {0}

ByteBase == 2 ^ DigitBits
WordBits == 2 * DigitBits
WordBase == 2 ^ WordBits
Bignum == Seq(0..WordBase - 1)

bn_alloc(words) == [i \in 1..words |-> 0]
Word(b, i) == IF i \in DOMAIN b THEN b[i] ELSE 0
Highest[S \in SUBSET Nat] == CHOOSE x \in S : \A y \in S : y <= x

bn_from_bytes(data) ==
    LET n == Len(data)
        Byte(i) == IF i \in 0..n - 1 THEN data[n - i] ELSE 0
    IN << >> \o [w \in 1..(n + 1) \div 2 |-> Byte(2 * w - 2) + ByteBase * Byte(2 * w - 1)]

bn_to_bytes[b \in Bignum, len \in Nat] ==
    << >> \o [k \in 1..len |->
        LET i == len - k
            word == Word(b, i \div 2 + 1)
        IN IF i % 2 = 0 THEN word % ByteBase ELSE word \div ByteBase]

bn_bit(b, n) == (Word(b, n \div WordBits + 1) \div 2 ^ (n % WordBits)) % 2

\* The highest of the bits that are set, counted from 1; none is set in 0.
bn_bits[b \in Bignum] ==
    Highest[{0} \cup {k \in 1..Len(b) * WordBits : bn_bit(b, k - 1) = 1}]

\* One row of the schoolbook product: word times b, added into r at i.
MulRow[r \in Bignum, word \in Nat, b \in Bignum, i \in Nat] ==
    LET prod[j \in 1..Len(b)] ==
            word * b[j] + r[i + j - 1] + (IF j = 1 THEN 0 ELSE prod[j - 1] \div WordBase)
    IN << >> \o [k \in DOMAIN r |->
            IF k \in i..i + Len(b) - 1 THEN prod[k - i + 1] % WordBase
            ELSE IF k = i + Len(b) THEN (r[k] + prod[Len(b)] \div WordBase) % WordBase
            ELSE r[k]]

bn_mul[a \in Bignum, b \in Bignum] ==
    LET Rows[i \in 0..Len(a)] ==
            IF i = 0 THEN bn_alloc(Len(a) + Len(b)) ELSE MulRow[Rows[i - 1], a[i], b, i]
    IN Rows[Len(a)]

bn_cmp[a \in Bignum, b \in Bignum] ==
    LET words == 1..(IF Len(a) > Len(b) THEN Len(a) ELSE Len(b))
        top == Highest[{1} \cup {i \in words : Word(a, i) # Word(b, i)}]
    IN CASE Word(a, top) < Word(b, top) -> -1
         [] Word(a, top) > Word(b, top) -> 1
         [] OTHER -> 0

bn_shift_left[a \in Bignum, n \in Nat] ==
    LET words == n \div WordBits
        bits == n % WordBits
        moved == [i \in 1..Len(a) + words + 1 |-> IF i > words THEN Word(a, i - words) ELSE 0]
    IN << >> \o [i \in DOMAIN moved |->
            ((moved[i] * 2 ^ bits) % WordBase)
              + (IF i > 1 THEN (moved[i - 1] * 2 ^ bits) \div WordBase ELSE 0)]

\* r - s, in the words of r: sub[i] < 0 is a borrow from the next word.
BnSub[r \in Bignum, s \in Bignum] ==
    LET sub[i \in 1..Len(r)] ==
            Word(r, i) - Word(s, i) - (IF i > 1 THEN IF sub[i - 1] < 0 THEN 1 ELSE 0 ELSE 0)
    IN << >> \o [i \in 1..Len(r) |-> sub[i] % WordBase]

\* Trial subtraction: the modulus shifted so that the top bits align, or by one
\* bit less when that is too large, is taken off until the rest is below it.
bn_mod[a \in Bignum, m \in Bignum] ==
    LET shift == bn_bits[a] - bn_bits[m]
        mw == Highest[{1} \cup {i \in DOMAIN m : m[i] # 0}]
    IN IF bn_cmp[a, m] < 0 THEN IF Len(a) > mw THEN SubSeq(a, 1, mw) ELSE a
       ELSE IF bn_cmp[bn_shift_left[m, shift], a] <= 0
       THEN bn_mod[BnSub[a, bn_shift_left[m, shift]], m]
       ELSE bn_mod[BnSub[a, bn_shift_left[m, shift - 1]], m]

\* Square for every bit of the exponent, from the top; multiply where it is set.
bn_modpow[base \in Bignum, exp \in Bignum, mod \in Bignum] ==
    LET nbits == bn_bits[exp]
        Square[x \in Bignum] == bn_mod[bn_mul[x, x], mod]
        Power[k \in 0..nbits] ==
            IF k = 0 THEN <<1>>
            ELSE IF bn_bit(exp, nbits - k) = 1
                 THEN bn_mod[bn_mul[Square[Power[k - 1]], base], mod]
                 ELSE Square[Power[k - 1]]
    IN Power[nbits]

\* rsa_encrypt: PKCS#1 type 2 padding with the non-zero bytes of pad, then the
\* exponentiation.  Overhead is the 11 bytes the padding takes at the least.
Padded(msg, pad, len) ==
    <<0, 2>> \o [i \in 1..len - Len(msg) - 3 |-> pad] \o <<0>> \o msg

rsa_encrypt(n, e, msg, pad) ==
    bn_to_bytes[bn_modpow[bn_from_bytes(Padded(msg, pad, Len(n))),
                          bn_from_bytes(e), bn_from_bytes(n)], Len(n)]
=============================================================================
