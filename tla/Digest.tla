------------------------------- MODULE Digest -------------------------------
(***************************************************************************)
(* How the hash functions of lib/sha256.c and lib/vtls.c cut what they are *)
(* fed into blocks.  The compression of a block is left out: a digest is   *)
(* the sequence of blocks that were compressed, so two digests are equal   *)
(* exactly when the same bytes were hashed.  A block is 64 bytes in the    *)
(* code, 8 of them the length; here BlockLen, one of them the length.      *)
(***************************************************************************)
EXTENDS Integers, Sequences

CONSTANT BlockLen
ASSUME BlockLenAssumption == BlockLen \in Nat \ {0, 1}

\* totlen or lenlo, the blocks compressed, and the blkused bytes of the last one.
HashState == [totlen : Nat, done : Seq(Seq(Nat)), block : Seq(Nat)]
HashInit == [totlen |-> 0, done |-> << >>, block |-> << >>]

BlocksOf(bytes, n) == [k \in 1..n |-> SubSeq(bytes, (k - 1) * BlockLen + 1, k * BlockLen)]
Zeros(n) == [i \in 1..n |-> 0]
LengthByte(s) == <<s.totlen>>

\* A started block is filled up first; whole blocks go straight from the input.
sha256_update[s \in HashState] == [bytes \in Seq(Nat) |->
    LET blkused == Len(s.block)
        fill == IF blkused > 0 /\ blkused + Len(bytes) >= BlockLen THEN BlockLen - blkused ELSE 0
        filled == IF fill > 0 THEN <<s.block \o SubSeq(bytes, 1, fill)>> ELSE << >>
        d == SubSeq(bytes, fill + 1, Len(bytes))
        whole == Len(d) \div BlockLen
    IN [totlen |-> s.totlen + Len(bytes),
        done |-> s.done \o filled \o BlocksOf(d, whole),
        block |-> (IF fill > 0 THEN << >> ELSE s.block)
                    \o SubSeq(d, whole * BlockLen + 1, Len(d))]]

ZerosBeforeMark(s) ==   \* mutant: the mark is not counted as used
    LET marked == sha256_update[s][<<128>>]
        zeros == BlockLen - 1 - Len(s.block)
    IN sha256_update[sha256_update[marked][Zeros(zeros)]][LengthByte(s)].done

\* 0x80, zeros until only the length is missing, then the length.
sha256_final(s) ==
    LET marked == sha256_update[s][<<128>>]
        zeros == (2 * BlockLen - 1 - Len(marked.block)) % BlockLen
    IN sha256_update[sha256_update[marked][Zeros(zeros)]][LengthByte(s)].done

\* The other hash appends to a started block only when that does not fill it.
sha1_update[s \in HashState] == [bytes \in Seq(Nat) |->
    LET all == s.block \o bytes
        whole == Len(all) \div BlockLen
    IN IF s.block # << >> /\ Len(all) < BlockLen
       THEN [s EXCEPT !.totlen = @ + Len(bytes), !.block = all]
       ELSE [totlen |-> s.totlen + Len(bytes),
             done |-> s.done \o BlocksOf(all, whole),
             block |-> SubSeq(all, whole * BlockLen + 1, Len(all))]]

sha1_final(s) ==
    LET blkused == Len(s.block)
        room == BlockLen - 1
        pad == IF blkused >= room THEN room + BlockLen - blkused ELSE room - blkused
    IN sha1_update[sha1_update[s][<<128>> \o Zeros(pad - 1)]][LengthByte(s)].done

\* hmac_sha1: the block of the key, compressed first, is kept as the key itself,
\* and the outer hash, of one more block of the key and this digest, is left out.
hmac_sha1(key, data) ==
    [key |-> key,
     digest |-> sha1_final(sha1_update[[HashInit EXCEPT !.totlen = BlockLen]][data])]

-----------------------------------------------------------------------------
(* What the other side computes: the padded message, cut into blocks.      *)

PaddedMessage(message, length) ==
    message \o <<128>> \o Zeros((2 * BlockLen - 2 - (Len(message) % BlockLen)) % BlockLen)
            \o <<length>>

Digest(message, length) ==
    LET padded == PaddedMessage(message, length)
    IN BlocksOf(padded, Len(padded) \div BlockLen)

Sha(message) == Digest(message, Len(message))
Hmac(key, data) == [key |-> key, digest |-> Digest(data, BlockLen + Len(data))]
=============================================================================
