-------------------------------- MODULE X509 --------------------------------
(***************************************************************************)
(* How lib/vtls.c finds the RSA key and the name of the subject in a       *)
(* certificate, and the DER encoding of the certificates it is given.  A   *)
(* certificate is a sequence of bytes; a position is an index into it, and *)
(* end is the position after the last byte a walk may use.  As in Bignum,  *)
(* arguments of functions are passed by value.                             *)
(***************************************************************************)
EXTENDS Integers, Sequences

Octets == Seq(Nat)
INTEGER == 2
BITSTRING == 3
OID == 6
SEQUENCE == 48
SETOF == 49
AnyTag == -1

-----------------------------------------------------------------------------
(* The encoding: what a certificate authority writes.                      *)

\* Lengths below 128 take one byte, others the long form with as few as fit.
Der(tag, body) ==
    LET n == Len(body)
    IN <<tag>> \o (IF n < 128 THEN <<n>> ELSE IF n < 256 THEN <<129, n>>
                   ELSE <<130, n \div 256, n % 256>>) \o body

\* A positive integer whose top bit is set is written with a leading zero.
DerInteger(bytes, base) ==
    Der(INTEGER, IF 2 * Head(bytes) >= base THEN <<0>> \o bytes ELSE bytes)

\* One attribute of a name; attribute 3 is the commonName.
DerName(attribute, value) ==
    Der(SETOF, Der(SEQUENCE, Der(OID, <<85, 4, attribute>>) \o Der(12, value)))

\* A certificate as a record: whether it has the version field, the issuer, the
\* subject's organisation and common name, and the public key, RSA or not.
Certificate(c, base) ==
    LET key == IF c.rsa THEN Der(SEQUENCE, DerInteger(c.n, base) \o DerInteger(c.e, base))
               ELSE <<4>> \o c.n
        tbs == (IF c.version THEN Der(160, Der(INTEGER, <<2>>)) ELSE << >>)
               \o Der(INTEGER, <<1>>) \o Der(SEQUENCE, Der(OID, <<42>>))
               \o Der(SEQUENCE, DerName(3, c.issuer))
               \o Der(SEQUENCE, << >>)
               \o Der(SEQUENCE, DerName(10, c.org) \o DerName(3, c.name))
               \o Der(SEQUENCE, Der(SEQUENCE, Der(OID, <<42>>)) \o Der(BITSTRING, <<0>> \o key))
    IN Der(SEQUENCE, Der(SEQUENCE, tbs) \o Der(SEQUENCE, << >>) \o Der(BITSTRING, <<0, 7>>))

-----------------------------------------------------------------------------
(* The walk of lib/vtls.c.                                                 *)

BigEndian(bytes) ==
    LET Sum[i \in 0..Len(bytes)] == IF i = 0 THEN 0 ELSE 256 * Sum[i - 1] + bytes[i]
    IN Sum[Len(bytes)]

\* The element at p: where its body starts and where the next element does.
NoTlv == [ok |-> FALSE, tag |-> -1, body |-> 0, next |-> 0]
Tlv(tag, p, hlen, len) == [ok |-> TRUE, tag |-> tag, body |-> p + hlen, next |-> p + hlen + len]

asn1_tag_len[c \in Octets, p \in Nat, end \in Nat] ==
    LET avail == end - p
        nbytes == c[p + 1] - 128
    IN IF avail < 2 THEN NoTlv
       ELSE IF c[p + 1] < 128 THEN Tlv(c[p], p, 2, c[p + 1])
       ELSE IF nbytes > 3 \/ 2 + nbytes > avail THEN NoTlv
       ELSE Tlv(c[p], p, 2 + nbytes, BigEndian(SubSeq(c, p + 2, p + 1 + nbytes)))

Is(tlv, tag) == tlv.ok /\ (tag = AnyTag \/ tlv.tag = tag)
Body(c, tlv) == SubSeq(c, tlv.body, tlv.next - 1)

\* A walk is a sequence of moves: into an element, into the TBSCertificate, which
\* bounds the rest of the walk, into a bit string behind its count of unused
\* bits, which must be 0, or over an element.  It ends nowhere when the element
\* does not fit or has not the tag the move asks for.
Position == [p : Nat, end : Nat]
Move(kind, tag) == [kind |-> kind, tag |-> tag]
Moves == [kind : {"into", "tbs", "bits", "over"}, tag : Int]
Nowhere(c) == [p |-> Len(c) + 1, end |-> Len(c) + 1]

Moved[c \in Octets, s \in Position, move \in Moves] ==
    LET tlv == asn1_tag_len[c, s.p, s.end]
    IN IF ~Is(tlv, move.tag) \/ (move.kind = "bits" /\ c[tlv.body] # 0) THEN Nowhere(c)
       ELSE [p |-> CASE move.kind = "over" -> tlv.next
                     [] move.kind = "bits" -> tlv.body + 1
                     [] OTHER -> tlv.body,
             end |-> IF move.kind = "tbs" THEN tlv.next ELSE s.end]

Walk[c \in Octets, moves \in Seq(Moves)] ==
    LET At[k \in 0..Len(moves)] ==
            IF k = 0 THEN [p |-> 1, end |-> Len(c) + 1] ELSE Moved[c, At[k - 1], moves[k]]
    IN At[Len(moves)]

Element(c, moves) ==
    LET s == Walk[c, moves] IN asn1_tag_len[c, s.p, s.end]

\* To field k of the TBSCertificate: over k elements, the first of which is taken
\* for the version whether it is there or not.
ToField(k) ==
    <<Move("into", SEQUENCE), Move("tbs", SEQUENCE)>> \o [i \in 1..k |-> Move("over", AnyTag)]

NoKey == [n |-> << >>, e |-> << >>]

\* An INTEGER without its leading zero.
Unsigned(bytes) == IF bytes # << >> /\ Head(bytes) = 0 THEN Tail(bytes) ELSE bytes

\* SubjectPublicKeyInfo: over the algorithm, into the bit string and the key.
x509_extract_rsa[c \in Octets] ==
    LET toN == ToField(6)
                 \o <<Move("into", SEQUENCE), Move("over", SEQUENCE),
                      Move("bits", BITSTRING), Move("into", SEQUENCE)>>
        n == Element(c, toN)
        e == Element(c, Append(toN, Move("over", INTEGER)))
    IN IF Is(n, INTEGER) /\ Is(e, INTEGER)
       THEN [n |-> Unsigned(Body(c, n)), e |-> Unsigned(Body(c, e))]
       ELSE NoKey

NoName == << >>
Upto(s, n) == IF Len(s) <= n THEN s ELSE SubSeq(s, 1, n)

\* The sets of the subject are tried in turn; one that does not hold a sequence
\* that starts with an OID is stepped over.
x509_extract_cn[c \in Octets, buflen \in Nat] ==
    LET subject == Element(c, ToField(5))
        Scan[p \in Nat, end \in Nat] ==
            LET set == asn1_tag_len[c, p, end]
                seq == asn1_tag_len[c, set.body, set.next]
                oid == asn1_tag_len[c, seq.body, set.next]
                value == asn1_tag_len[c, oid.next, set.next]
            IN IF p >= end \/ ~Is(set, SETOF) THEN NoName
               ELSE IF Is(seq, SEQUENCE) /\ Is(oid, OID) /\ Body(c, oid) = <<85, 4, 3>>
               THEN IF value.ok THEN Upto(Body(c, value), buflen - 1) ELSE NoName
               ELSE Scan[set.next, end]
    IN IF Is(subject, SEQUENCE) THEN Scan[subject.body, subject.next] ELSE NoName
=============================================================================
