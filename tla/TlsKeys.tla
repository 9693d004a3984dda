------------------------------- MODULE TlsKeys -------------------------------
(***************************************************************************)
(* What vtls_handshake gets out of a certificate, and how it hands over    *)
(* the pre-master secret: X509 and Bignum put together, and the server     *)
(* that undoes the encryption.                                             *)
(***************************************************************************)
EXTENDS Bignum, X509

CONSTANT RsaOverhead     \* the bytes RSA padding takes at the least: 11 in the code

\* A certificate is a record as for X509!Certificate, with the private exponent.
Key(c) == x509_extract_rsa[Certificate(c, ByteBase)]
Name(c, buflen) == x509_extract_cn[Certificate(c, ByteBase), buflen]

\* The numbers drawn for handshake n: after the version a random byte, and the
\* random bytes of the padding, which are never zero.
PreMasterSecret(n) == <<3, n % ByteBase>>
PadByte(n) == 1 + (n % (ByteBase - 1))

TooShort(n) == Len(n) < Len(PreMasterSecret(1)) + RsaOverhead

RsaKey == [n : Octets, e : Octets]

\* What handshake n makes of the key of a certificate.
EncryptedSecret[key \in RsaKey, n \in Nat] ==
    IF TooShort(key.n) THEN << >> ELSE rsa_encrypt(key.n, key.e, PreMasterSecret(n), PadByte(n))

-----------------------------------------------------------------------------
(* The server.                                                             *)

\* The exponentiation with the private exponent, and the message unpadded.
Number(bytes) ==
    LET Sum[i \in 0..Len(bytes)] == IF i = 0 THEN 0 ELSE ByteBase * Sum[i - 1] + bytes[i]
    IN Sum[Len(bytes)]

Power[x \in Nat, d \in Nat, n \in Nat] ==
    LET Square[y \in Nat] == (y * y) % n
    IN IF d = 0 THEN 1
       ELSE IF d % 2 = 1 THEN (Square[Power[x, d \div 2, n]] * x) % n
       ELSE Square[Power[x, d \div 2, n]]

Block[m \in Nat, len \in Nat] == << >> \o [k \in 1..len |-> (m \div ByteBase ^ (len - k)) % ByteBase]

Unpadded[block \in Octets] ==
    LET gaps == {k \in 3..Len(block) : block[k] = 0}
        gap == CHOOSE k \in gaps : \A j \in gaps : k <= j
    IN IF block[1] = 0 /\ block[2] = 2 /\ gaps # {}
       THEN SubSeq(block, gap + 1, Len(block)) ELSE << >>

Decrypted(bytes, n, d) ==
    Unpadded[Block[Power[Number(bytes) % Number(n), d, Number(n)], Len(n)]]

\* What a client of this library can use: an RSA key that is long enough, in a
\* certificate that states its version.
Usable(c) == c.rsa /\ c.version /\ ~TooShort(c.n)
=============================================================================
