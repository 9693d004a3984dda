-------------------------------- MODULE MCTls --------------------------------
(* Small keys for Tls: a byte has 2 bits, and RSA padding takes 4 bytes. *)
EXTENDS Tls, TlsKeys

Digits(v, len) == << >> \o [k \in 1..len |-> (v \div 4 ^ (len - k)) % 4]

Cert(rsa, version, issuer, n, nlen, e, elen, d) ==
    [rsa |-> rsa, version |-> version, issuer |-> [i \in 1..issuer |-> 8], org |-> <<9>>,
     name |-> <<5, 6, 7>>, n |-> Digits(n, nlen), e |-> Digits(e, elen), d |-> d]

\* Moduli of odd and even length, with and without a leading zero, behind an
\* issuer of a long and of a short encoding; a key too short to be used, one that
\* is not RSA, a certificate without a version; and the first certificate with
\* its modulus damaged.
Issued == <<Cert(TRUE, TRUE, 118, 97 * 89, 7, 5, 2, 5069),
             Cert(TRUE, TRUE, 3, 29 * 53, 6, 3, 1, 971),
             Cert(TRUE, TRUE, 3, 3 * 11, 3, 3, 1, 7),
             Cert(FALSE, TRUE, 3, 29 * 53, 6, 3, 1, 971),
             Cert(TRUE, FALSE, 3, 29 * 53, 6, 3, 1, 971),
             Cert(TRUE, TRUE, 118, 97 * 89 + 2, 7, 5, 2, 0)>>

\* Where the servers cut their flights, and which certificates they have.
MCCuts == {{}, {1}, {1, 2, 3}}
MCServed == [f \in 0..2 |-> CASE f = 0 -> {1, 3, 4, 5} [] f = 1 -> {2} [] OTHER -> {}]

\* The parameters of Tls: functions given by their graphs, which are constant sets
\* and so computed from the certificates once.
At(graph, x) == (CHOOSE p \in graph : p[1] = x)[2]
BufLen == 3
Seen == DOMAIN Issued
Draws == 1..2
KeyLenGraph == {<<k, Len(Key(Issued[k]).n)>> : k \in Seen}
CertNameGraph == {<<k, Name(Issued[k], BufLen)>> : k \in Seen}
EncryptedGraph == {<<x, EncryptedSecret[Key(Issued[x[1]]), x[2]]>> : x \in Seen \X Draws}
Ciphertexts == {p[2] : p \in EncryptedGraph} \ {<< >>}
PreMasterOfGraph ==
    {<<x, Decrypted(x[2], Issued[x[1]].n, Issued[x[1]].d)>> : x \in Seen \X Ciphertexts}

MCCerts == [k \in Seen |-> [name |-> Upto(Issued[k].name, BufLen - 1),
                            keylen |-> Len(Issued[k].n), usable |-> Usable(Issued[k])]]
MCKeyLen == [k \in Seen |-> At(KeyLenGraph, k)]
MCCertName == [k \in Seen |-> At(CertNameGraph, k)]
MCPreMaster == [n \in Draws |-> PreMasterSecret(n)]
MCEncrypted == [k \in Seen |-> [n \in Draws |-> At(EncryptedGraph, <<k, n>>)]]
MCPreMasterOf == [k \in Seen |-> [c \in Ciphertexts |-> At(PreMasterOfGraph, <<k, c>>)]]
=============================================================================
