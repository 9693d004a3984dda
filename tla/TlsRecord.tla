------------------------------ MODULE TlsRecord ------------------------------
(***************************************************************************)
(* The record layer of lib/vtls.c: a connection's keys and counters, and   *)
(* how a record is written and read.  The cipher is symbolic: what is      *)
(* encrypted under a key comes back only under the same key.  The padding, *)
(* the lengths, the counters and the MAC are computed as the code does.    *)
(***************************************************************************)
EXTENDS Digest, SequencesExt

ChangeCipher == 20
Alert == 21
Handshake == 22
Application == 23

\* The types of handshake messages.
ClientHello == 1
ServerHello == 2
ServerCert == 11
CertRequest == 13
ServerDone == 14
ClientKeyEx == 16
Finished == 20

\* A handshake message: type, contents and, in a Finished, the verify data.
NoVerify == [secret |-> << >>, label |-> "none", hash |-> << >>]
Msg(t, v) == [t |-> t, v |-> v, verify |-> NoVerify]

\* What is hashed of a message, and what a record's MAC covers of its contents.
MsgBytes(m) == <<m.t, Len(m.v)>> \o m.v
Flat(ct, data) ==
    IF ct = Handshake THEN FlattenSeq([i \in DOMAIN data |-> MsgBytes(data[i])]) ELSE data

\* Only a Finished, with its 12 bytes of verify data, and an empty HelloRequest
\* are ever sent protected; other contents are counted as they are.
DataLen(ct, data) ==
    IF ct # Handshake THEN Len(data) ELSE IF data[1].t = Finished THEN 16 ELSE 4

\* tls_prf: bytes from..from+len-1 of the stream that the master secret, itself
\* made of the pre-master secret and both randoms, is expanded to.
Master(pms, client, server) == <<pms, <<client>>, <<server>>>>
Slice(master, from, len) == [master |-> master, from |-> from, len |-> len]
NoSlice == Slice(<< >>, 0, 0)
NoMac == [key |-> NoSlice, digest |-> << >>]

FreeConn == [active |-> FALSE, sockfd |-> 0, enc_ctx |-> NoSlice, dec_ctx |-> NoSlice,
             mac_enc_key |-> NoSlice, mac_dec_key |-> NoSlice, seq_send |-> 0, seq_recv |-> 0,
             cipher_active |-> FALSE, app_buf |-> << >>, peer_cert |-> 0, peer_key_bytes |-> 0]

\* The 104 bytes of the key block, in the order of the code.
WithKeys(c, master) ==
    [c EXCEPT !.mac_enc_key = Slice(master, 0, 20), !.mac_dec_key = Slice(master, 20, 20),
              !.enc_ctx = Slice(master, 40, 16), !.dec_ctx = Slice(master, 56, 16)]

\* The implicit number, the type and the length of the contents come first.
MacInput(seq, ct, len, data) == <<seq, ct, len>> \o Flat(ct, data)

Plain(ct, data) ==
    [ct |-> ct, data |-> data, len |-> 0, padlen |-> 0, key |-> NoSlice, mac |-> NoMac]

PadLen(len) == LET p == 16 - ((len + 20 + 1) % 16) IN IF p = 16 THEN 0 ELSE p

\* tls_write_record: the record sent, and the connection after it.
tls_write_record(c, ct, data) ==
    LET len == DataLen(ct, data)
    IN IF c.cipher_active
       THEN [ct |-> ct, data |-> data, padlen |-> PadLen(len),
             len |-> 16 + len + 20 + PadLen(len) + 1, key |-> c.enc_ctx,
             mac |-> hmac_sha1(c.mac_enc_key, MacInput(c.seq_send, ct, len, data))]
       ELSE Plain(ct, data)

Sent(c) == IF c.cipher_active THEN [c EXCEPT !.seq_send = @ + 1] ELSE c

\* tls_read_record: whether r is accepted, and the connection after it.  Alerts
\* and ChangeCipherSpec are never decrypted or counted.
Protected(c, r) == c.cipher_active /\ r.ct \in {Handshake, Application}

Accepted(c, r) ==
    LET content_len == r.len - 16 - 20 - r.padlen - 1
    IN Protected(c, r) =>
         /\ r.len >= 32 /\ content_len >= 0
         /\ r.key = c.dec_ctx
         /\ r.mac = hmac_sha1(c.mac_dec_key, MacInput(c.seq_recv, r.ct, content_len, r.data))

NotCounted(c, r) == c   \* mutant

Received(c, r) == IF Protected(c, r) THEN [c EXCEPT !.seq_recv = @ + 1] ELSE c

-----------------------------------------------------------------------------
(* The other side: TLS 1.2 with RSA key exchange, AES-128-CBC and SHA-1.   *)

\* The key block cut in the order of the protocol.
ServerSide(master) == [reads |-> Slice(master, 0, 20), writes |-> Slice(master, 20, 20),
                       decrypts |-> Slice(master, 2 * 20, 16), encrypts |-> Slice(master, 2 * 20 + 16, 16)]

ServerRecord(master, seq, ct, data) ==
    LET len == DataLen(ct, data)
        pad == CHOOSE p \in 0..15 : (len + 20 + p + 1) % 16 = 0
    IN [ct |-> ct, data |-> data, padlen |-> pad, len |-> 16 + len + 20 + pad + 1,
        key |-> ServerSide(master).encrypts,
        mac |-> Hmac(ServerSide(master).writes, MacInput(seq, ct, len, data))]

ServerAccepts(master, seq, r) ==
    LET len == DataLen(r.ct, r.data)
    IN /\ r.key = ServerSide(master).decrypts
       /\ r.len % 16 = 0 /\ r.len = 16 + len + 20 + r.padlen + 1
       /\ r.mac = Hmac(ServerSide(master).reads, MacInput(seq, r.ct, len, r.data))
=============================================================================
