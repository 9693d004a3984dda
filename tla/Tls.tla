--------------------------------- MODULE Tls ---------------------------------
(***************************************************************************)
(* lib/vtls.c: the TLS client of the library, used as vtls.h says, against *)
(* servers that follow the protocol over connections that may be lost.  A  *)
(* record travels in two parts, header and body; tls_recv_all waits for    *)
(* each, and everything can happen while it does.                          *)
(***************************************************************************)
EXTENDS TlsRecord, FiniteSets

CONSTANTS NFds,        \* sockets
          NSlots,      \* MAX_TLS_CONNS
          Certs,       \* certificates: the name and the modulus they hold, and
                       \* whether a client may use them
          PreMaster,   \* the pre-master secret drawn for handshake n
          KeyLen,      \* peer_key_bits: what x509_extract_rsa makes of certificate
                       \* k, in bytes, 0 when it returns -1
          CertName,    \* what x509_extract_cn makes of it
          Encrypted,   \* what rsa_encrypt makes of PreMaster[n] with the key of
                       \* certificate k, empty when it returns -1
          PreMasterOf, \* what the holder of key k decrypts a message to
          Served,      \* per socket: the indices of Certs its server may present
          Garbled,     \* an index of Certs: a certificate damaged on the way
          Cuts,        \* after which messages a flight may be cut into records
          SendSizes, RecvSizes,
          MaxConn, MaxSent, MaxLost, MaxDamage

ASSUME TlsAssumption ==
    /\ NSlots \in Nat \ {0}
    /\ MaxConn \in Nat /\ MaxSent \in Nat /\ MaxLost \in Nat /\ MaxDamage \in Nat
    /\ \A f \in DOMAIN Served : Served[f] \subseteq DOMAIN Certs
    /\ NFds \in Nat /\ DOMAIN Served = 0..NFds - 1 /\ Garbled \in DOMAIN Certs
    /\ SendSizes \subseteq Nat \ {0} /\ RecvSizes \subseteq Nat \ {0}
    /\ DOMAIN Certs \subseteq Nat \ {0}

\* What the certificate walk and the arithmetic of the key exchange owe the
\* handshake: from a certificate that a server presents, x509_extract_rsa takes
\* the key and x509_extract_cn the name, or nothing; a usable one yields its key,
\* and its holder gets back the pre-master secret that was encrypted.
ASSUME KeysAssumption ==
    /\ \A f \in DOMAIN Served : \A k \in Served[f] :
          KeyLen[k] # 0 => CertName[k] = Certs[k].name /\ KeyLen[k] = Certs[k].keylen
    /\ \A n \in 1..MaxConn :
          /\ \A k \in DOMAIN Certs : Encrypted[k][n] \in Seq(Nat)
          /\ \A f \in DOMAIN Served : \A k \in Served[f] :
                /\ Certs[k].usable => KeyLen[k] # 0 /\ Encrypted[k][n] # << >>
                /\ KeyLen[k] # 0 /\ Encrypted[k][n] # << >> =>
                      PreMasterOf[k][Encrypted[k][n]] = PreMaster[n] /\ PreMaster[n] # << >>

VARIABLES
    conns,    \* conns[MAX_TLS_CONNS]
    st,       \* per socket: what the program knows of it
    call,     \* the vtls_ function that runs, where it is and on which slot
    hs,       \* the locals of vtls_handshake
    draws,    \* how far the sequence of rand() has been used
    got,      \* per socket: the bytes vtls_recv has returned
    put,      \* per socket: the bytes vtls_send has taken
    toSrv, toCli,   \* per socket: the records under way
    line,     \* per socket: whether the TCP connection holds
    srv,      \* per socket: the server
    damaged   \* per socket: a record from the server was damaged

program == <<conns, st, call, hs, draws, got, put>>
net == <<toSrv, toCli, line>>
vars == <<program, net, srv, damaged>>

Fds == 0..NFds - 1
Slots == 0..NSlots - 1
Idle == [op |-> "none"]
NoHs == [at |-> "none"]
Busy == call.op # "none"

\* The bytes counted by c on all sockets: MaxSent bounds each direction.
Total(c) ==
    LET Sum[S \in SUBSET Fds] ==
            IF S = {} THEN 0 ELSE LET f == CHOOSE x \in S : TRUE IN c[f] + Sum[S \ {f}]
    IN Sum[Fds]
Bytes(from, n) == [i \in 1..n |-> from + i]

\* The server between its handshakes: nothing sent, nothing known.
FreshServer == [at |-> "hello", cert |-> 0, random |-> 0, client |-> 0,
                log |-> << >>, master |-> << >>, rseq |-> 0, wseq |-> 0,
                sent |-> 0, got |-> << >>, rejected |-> FALSE]

Init ==
    /\ conns = [i \in Slots |-> FreeConn]
    /\ st = [f \in Fds |-> "closed"]
    /\ call = Idle /\ hs = NoHs /\ draws = 0
    /\ got = [f \in Fds |-> << >>] /\ put = [f \in Fds |-> 0]
    /\ toSrv = [f \in Fds |-> << >>] /\ toCli = [f \in Fds |-> << >>]
    /\ line = [f \in Fds |-> "none"]
    /\ srv = [f \in Fds |-> FreshServer]
    /\ damaged = [f \in Fds |-> FALSE]

-----------------------------------------------------------------------------
(* Slots and sending.                                                      *)

find_conn(f) == {i \in Slots : conns[i].active /\ conns[i].sockfd = f}
First(S) == CHOOSE i \in S : \A j \in S : i <= j
Unused == {i \in Slots : ~conns[i].active}

\* The connection of the running call, its socket, and what is to be read there.
Slot == call.slot
Conn == conns[call.slot]
Fd == call.fd
Incoming == Head(toCli[Fd])

\* tls_write_record on slot i of socket f, with c the connection before it.
Send(i, f, c, ct, data) ==
    /\ line[f] = "up"
    /\ toSrv' = [toSrv EXCEPT ![f] = Append(@, tls_write_record(c, ct, data))]
    /\ conns' = [conns EXCEPT ![i] = Sent(c)]
    /\ UNCHANGED <<toCli, line>>

KeptActive(c) == c   \* mutant

\* The fail label: the slot is given up, whatever else it holds stays in it.
Deactivated(c) == [c EXCEPT !.active = FALSE]

Fail ==
    /\ conns' = [conns EXCEPT ![Slot] = Deactivated(@)]
    /\ st' = [st EXCEPT ![Fd] = "refused"]
    /\ call' = Idle /\ hs' = NoHs
    /\ UNCHANGED <<draws, got, put>>

-----------------------------------------------------------------------------
(* The handshake.                                                          *)

\* The program connects a socket, the first free one, and asks for a handshake at
\* once, when no other socket of it is about to be closed.
Connects(f) ==
    /\ ~Busy /\ st[f] = "closed"
    /\ \A g \in Fds : st[g] \in {"closed", "tls"} /\ (g < f => st[g] = "tls")

\* alloc_conn finds nothing.
HandshakeWithoutSlot(f) ==
    /\ Connects(f) /\ Unused = {}
    /\ st' = [st EXCEPT ![f] = "refused"]
    /\ UNCHANGED <<conns, call, hs, draws, got, put, net, srv, damaged>>

Allocated(f) == [FreeConn EXCEPT !.active = TRUE, !.sockfd = f]

vtls_handshake(f) ==
    LET i == First(Unused)
        hello == Msg(ClientHello, <<draws + 1>>)
    IN /\ Connects(f) /\ Unused # {} /\ draws < MaxConn
       /\ toSrv' = [toSrv EXCEPT ![f] =
                <<tls_write_record(Allocated(f), Handshake, <<hello>>)>>]
       /\ line' = [line EXCEPT ![f] = "up"]
       /\ conns' = [conns EXCEPT ![i] = Allocated(f)]
       /\ st' = [st EXCEPT ![f] = "tcp"]
       /\ draws' = draws + 1
       /\ call' = [op |-> "handshake", fd |-> f, slot |-> i, hdr |-> FALSE]
       /\ hs' = [at |-> "flight", hash |-> sha256_update[HashInit][MsgBytes(hello)],
                 client |-> draws + 1, server |-> 0, cert |-> 0,
                 got_hello |-> FALSE, got_cert |-> FALSE, got_done |-> FALSE,
                 cert_requested |-> FALSE, got_ccs |-> FALSE, master |-> << >>]
       /\ UNCHANGED <<got, put, toCli, srv, damaged>>

\* The connection goes down before the ClientHello is out.
HelloUnsent(f) ==
    /\ Connects(f) /\ Unused # {} /\ draws < MaxConn
    /\ conns' = [conns EXCEPT ![First(Unused)] = Deactivated(Allocated(f))]
    /\ st' = [st EXCEPT ![f] = "refused"]
    /\ line' = [line EXCEPT ![f] = "down"]
    /\ draws' = draws + 1
    /\ UNCHANGED <<call, hs, got, put, toSrv, toCli, srv, damaged>>

\* The two reads of tls_read_record; the second is part of the action that
\* handles the record.
Reading == Busy /\ (call.op = "recv" \/ hs.at \in {"flight", "finished"})

Header ==
    /\ Reading /\ ~call.hdr /\ toCli[Fd] # << >>
    /\ call' = [call EXCEPT !.hdr = TRUE]
    /\ UNCHANGED <<conns, st, hs, draws, got, put, net, srv, damaged>>

RecordRead(state) ==
    /\ Busy /\ call.op = "handshake" /\ hs.at = state /\ call.hdr /\ toCli[Fd] # << >>
    /\ toCli' = [toCli EXCEPT ![Fd] = Tail(@)]
    /\ UNCHANGED <<toSrv, line, srv, damaged>>

\* recv reports the end, or the loss, of the connection inside tls_recv_all.
Ended(f) == toCli[f] = << >> /\ (line[f] = "down" \/ srv[f].at = "closed")

HandshakeReadFails ==
    /\ Reading /\ call.op = "handshake" /\ Ended(Fd)
    /\ Fail
    /\ UNCHANGED <<net, srv, damaged>>

\* One message of the server's flight, then all messages of one record.
Noted(h, m) ==
    LET hashed == [h EXCEPT !.hash = sha256_update[@][MsgBytes(m)]]
    IN CASE m.t = ServerHello -> [hashed EXCEPT !.server = m.v[1], !.got_hello = TRUE]
         [] m.t = ServerCert -> [hashed EXCEPT !.cert = m.v[1], !.got_cert = TRUE]
         [] m.t = CertRequest -> [hashed EXCEPT !.cert_requested = TRUE]
         [] m.t = ServerDone -> [hashed EXCEPT !.got_done = TRUE]
         [] OTHER -> hashed

OneNoted(h, data) == Noted(h, data[1])   \* mutant

AllNoted(h, data) == FoldLeft(Noted, h, data)

FlightRecord ==
    /\ RecordRead("flight")
    /\ \E h \in {IF Incoming.ct = Handshake THEN AllNoted(hs, Incoming.data) ELSE hs} :
        LET usable == h.got_hello /\ h.got_cert /\ KeyLen[h.cert] # 0
        IN
          \/ /\ Incoming.ct # Alert /\ ~h.got_done
             /\ hs' = h
             /\ call' = [call EXCEPT !.hdr = FALSE]
             /\ UNCHANGED <<conns, st, draws, got, put>>
          \/ /\ Incoming.ct # Alert /\ h.got_done /\ usable
             /\ hs' = [h EXCEPT !.at = IF h.cert_requested THEN "cert" ELSE "key"]
             /\ conns' = [conns EXCEPT
                    ![Slot].peer_cert = h.cert,
                    ![Slot].peer_key_bytes = KeyLen[h.cert]]
             /\ call' = [call EXCEPT !.hdr = FALSE]
             /\ UNCHANGED <<st, draws, got, put>>
          \/ /\ Incoming.ct = Alert \/ (h.got_done /\ ~usable)
             /\ Fail

\* A handshake message sent in answer, hashed and written.
Answer(m, h) ==
    /\ Busy /\ call.op = "handshake"
    /\ hs' = [h EXCEPT !.hash = sha256_update[@][MsgBytes(m)]]
    /\ UNCHANGED <<st, call, draws, got, put, srv, damaged>>

EmptyCertificate ==
    /\ hs.at = "cert"
    /\ Answer(Msg(ServerCert, << >>), [hs EXCEPT !.at = "key"])
    /\ Send(Slot, Fd, Conn, Handshake, <<Msg(ServerCert, << >>)>>)

ClientKeyExchange ==
    LET m == Msg(ClientKeyEx, Encrypted[hs.cert][draws])
        master == Master(PreMaster[draws], hs.client, hs.server)
    IN /\ hs.at = "key" /\ Encrypted[hs.cert][draws] # << >>
       /\ Answer(m, [hs EXCEPT !.at = "ccs", !.master = master])
       /\ Send(Slot, Fd, WithKeys(Conn, master), Handshake, <<m>>)

\* The key is too short for the pre-master secret.
KeyTooShort ==
    /\ hs.at = "key" /\ Encrypted[hs.cert][draws] = << >>
    /\ Fail
    /\ UNCHANGED <<net, srv, damaged>>

SendChangeCipher ==
    /\ hs.at = "ccs"
    /\ line[Fd] = "up"
    /\ toSrv' = [toSrv EXCEPT ![Fd] = Append(@, tls_write_record(Conn, ChangeCipher, <<1>>))]
    /\ conns' = [conns EXCEPT ![Slot].cipher_active = TRUE, ![Slot].seq_send = 0]
    /\ hs' = [hs EXCEPT !.at = "fin"]
    /\ UNCHANGED <<st, call, draws, got, put, toCli, line, srv, damaged>>

Verify(label) == [secret |-> hs.master, label |-> label, hash |-> sha256_final(hs.hash)]

SendFinished ==
    LET m == [Msg(Finished, << >>) EXCEPT !.verify = Verify("client_finished")]
    IN /\ hs.at = "fin"
       /\ Answer(m, [hs EXCEPT !.at = "finished"])
       /\ Send(Slot, Fd, Conn, Handshake, <<m>>)

\* Any of the four writes finds the connection lost.
AnswerUnsent ==
    /\ Busy /\ hs.at \in {"cert", "key", "ccs", "fin"} /\ line[Fd] = "down"
    /\ Fail
    /\ UNCHANGED <<net, srv, damaged>>

\* Only the first message of a record is looked at, and only for a Finished.
FinishedRecord ==
    LET ct == Incoming.ct
        finished == ct = Handshake /\ Incoming.data[1].t = Finished
        verified == finished /\ Incoming.data[1].verify = Verify("server_finished")
        bad == \/ ~Accepted(Conn, Incoming) \/ ct = Alert
               \/ ct = Handshake /\ ~hs.got_ccs
               \/ finished /\ ~verified
    IN /\ RecordRead("finished")
       /\ \/ ~bad /\ verified
             /\ conns' = [conns EXCEPT ![Slot] = Received(@, Incoming)]
             /\ st' = [st EXCEPT ![Fd] = "tls"]
             /\ call' = Idle /\ hs' = NoHs
             /\ UNCHANGED <<draws, got, put>>
          \/ ~bad /\ ~verified
             /\ conns' = [conns EXCEPT ![Slot] = IF ct = ChangeCipher THEN [@ EXCEPT !.seq_recv = 0]
                                                 ELSE Received(@, Incoming)]
             /\ hs' = [hs EXCEPT !.got_ccs = @ \/ ct = ChangeCipher]
             /\ call' = [call EXCEPT !.hdr = FALSE]
             /\ UNCHANGED <<st, draws, got, put>>
          \/ bad /\ Fail

-----------------------------------------------------------------------------
(* vtls_send, vtls_recv and vtls_close, on an established session.         *)

Session(f) == First(find_conn(f))
Secure(f) == ~Busy /\ st[f] = "tls" /\ find_conn(f) # {}

vtls_send(f) ==
    \E n \in SendSizes :
        /\ Secure(f) /\ Total(put) + n <= MaxSent
        /\ Send(Session(f), f, conns[Session(f)], Application, Bytes(put[f], n))
        /\ put' = [put EXCEPT ![f] = @ + n]
        /\ UNCHANGED <<st, call, hs, draws, got, srv, damaged>>

\* The write fails, after the record has been counted.
SendFails(f) ==
    /\ Secure(f) /\ line[f] = "down"
    /\ conns' = [conns EXCEPT ![Session(f)] = Sent(@)]
    /\ st' = [st EXCEPT ![f] = "failed"]
    /\ UNCHANGED <<call, hs, draws, got, put, net, srv, damaged>>

RestDropped(bytes, len) == << >>   \* mutant

\* Up to len bytes go to the program; the rest of a record waits in app_buf.
Copied(bytes, len) == IF Len(bytes) <= len THEN bytes ELSE SubSeq(bytes, 1, len)
Rest(bytes, len) == SubSeq(bytes, len + 1, Len(bytes))

RecvBuffered(f) ==
    LET i == Session(f)
    IN \E len \in RecvSizes :
        /\ Secure(f) /\ conns[i].app_buf # << >>
        /\ got' = [got EXCEPT ![f] = @ \o Copied(conns[i].app_buf, len)]
        /\ conns' = [conns EXCEPT ![i].app_buf = Rest(@, len)]
        /\ UNCHANGED <<st, call, hs, draws, put, net, srv, damaged>>

\* Without data vtls_recv returns 0 at once, whether the connection holds or not.
vtls_recv(f) ==
    \E len \in RecvSizes :
        /\ Secure(f) /\ conns[Session(f)].app_buf = << >> /\ toCli[f] # << >>
        /\ call' = [op |-> "recv", fd |-> f, slot |-> Session(f), hdr |-> FALSE, len |-> len]
        /\ UNCHANGED <<conns, st, hs, draws, got, put, net, srv, damaged>>

Receiving == Busy /\ call.op = "recv"

RecvRecord ==
    LET accepted == Accepted(Conn, Incoming)
        c == Received(Conn, Incoming)
        data == Incoming.data
    IN /\ Receiving /\ call.hdr /\ toCli[Fd] # << >>
       /\ toCli' = [toCli EXCEPT ![Fd] = Tail(@)]
       /\ call' = Idle
       /\ UNCHANGED <<hs, draws, put, toSrv, line, srv, damaged>>
       /\ \/ /\ accepted /\ Incoming.ct = Application
             /\ got' = [got EXCEPT ![Fd] = @ \o Copied(data, call.len)]
             /\ conns' = [conns EXCEPT ![Slot] = [c EXCEPT !.app_buf = Rest(data, call.len)]]
             /\ UNCHANGED st
          \/ /\ accepted /\ Incoming.ct \notin {Application, Alert}
             /\ conns' = [conns EXCEPT ![Slot] = c]
             /\ UNCHANGED <<st, got>>
          \/ /\ ~accepted \/ Incoming.ct = Alert
             /\ st' = [st EXCEPT ![Fd] = "failed"]
             /\ UNCHANGED <<conns, got>>

RecvFails ==
    /\ Receiving /\ Ended(Fd)
    /\ st' = [st EXCEPT ![Fd] = "failed"]
    /\ call' = Idle
    /\ UNCHANGED <<conns, hs, draws, got, put, net, srv, damaged>>

\* close_notify, if it can still be sent, and the slot is cleared.
vtls_close(f) ==
    LET i == Session(f)
    IN /\ ~Busy /\ st[f] \in {"tls", "failed"} /\ find_conn(f) # {}
       /\ \/ /\ line[f] = "up"
             /\ toSrv' = [toSrv EXCEPT ![f] =
                    Append(@, tls_write_record(conns[i], Alert, <<1, 0>>))]
          \/ line[f] = "down" /\ UNCHANGED toSrv
       /\ conns' = [conns EXCEPT ![i] = FreeConn]
       /\ st' = [st EXCEPT ![f] = "ended"]
       /\ UNCHANGED <<call, hs, draws, got, put, toCli, line, srv, damaged>>

\* closesocket; the socket can be used for another connection.
CloseSocket(f) ==
    /\ ~Busy /\ st[f] \in {"refused", "ended"}
    /\ st' = [st EXCEPT ![f] = "closed"]
    /\ got' = [got EXCEPT ![f] = << >>] /\ put' = [put EXCEPT ![f] = 0]
    /\ toSrv' = [toSrv EXCEPT ![f] = << >>] /\ toCli' = [toCli EXCEPT ![f] = << >>]
    /\ line' = [line EXCEPT ![f] = "none"]
    /\ srv' = [srv EXCEPT ![f] = FreshServer]
    /\ damaged' = [damaged EXCEPT ![f] = FALSE]
    /\ UNCHANGED <<conns, call, hs, draws>>

-----------------------------------------------------------------------------
(* The servers, and what can happen to the connections.                    *)

\* The flight in records: a new one starts after every message in cuts.
Continued(pieces, part) ==
    IF part.starts THEN Append(pieces, <<part.m>>)
    ELSE [pieces EXCEPT ![Len(pieces)] = Append(@, part.m)]
Pieces(msgs, cuts) ==
    FoldLeft(Continued, << >>,
             [n \in DOMAIN msgs |-> [m |-> msgs[n], starts |-> n = 1 \/ n - 1 \in cuts]])

InRecords(pieces) == [i \in DOMAIN pieces |-> Plain(Handshake, pieces[i])]

\* The flight: ServerHello, Certificate, CertificateRequest if there is one, Done.
Flight(random, k, req) ==
    <<Msg(ServerHello, <<random>>), Msg(ServerCert, <<k>>)>>
      \o (IF req THEN <<Msg(CertRequest, << >>)>> ELSE << >>)
      \o <<Msg(ServerDone, << >>)>>

Arrived(f) == toSrv[f] # << >> /\ srv[f].at # "closed"

ServerFlight(f) ==
    \E k \in Served[f], req \in BOOLEAN :
        LET hello == Head(toSrv[f]).data
            random == 50 + hello[1].v[1]
            msgs == Flight(random, k, req)
        IN /\ Arrived(f) /\ srv[f].at = "hello"
           /\ toSrv' = [toSrv EXCEPT ![f] = Tail(@)]
           /\ \E cuts \in Cuts :
                toCli' = [toCli EXCEPT ![f] = @ \o InRecords(Pieces(msgs, cuts))]
           /\ srv' = [srv EXCEPT ![f] =
                [@ EXCEPT !.at = IF req THEN "cert" ELSE "key", !.cert = k,
                          !.random = random, !.client = hello[1].v[1],
                          !.log = Flat(Handshake, hello) \o Flat(Handshake, msgs)]]
           /\ UNCHANGED <<program, line, damaged>>

ServerRefuses(f) ==
    /\ Arrived(f) /\ srv[f].at = "hello"
    /\ toSrv' = [toSrv EXCEPT ![f] = Tail(@)]
    /\ toCli' = [toCli EXCEPT ![f] = Append(@, Plain(Alert, <<2, 40>>))]
    /\ srv' = [srv EXCEPT ![f].at = "closed"]
    /\ UNCHANGED <<program, line, damaged>>

ServerVerify(s, log, label) == [secret |-> s.master, label |-> label, hash |-> Sha(log)]

\* The server after record r: what it expects next, or a rejection.
After(s, r) ==
    LET m == r.data[1]
        logged == [s EXCEPT !.log = @ \o MsgBytes(m)]
        pms == PreMasterOf[s.cert][m.v]
        plain == r.key = NoSlice
        intact == ServerAccepts(s.master, s.rseq, r)
    IN CASE s.at = "cert" /\ plain /\ r.ct = Handshake /\ m = Msg(ServerCert, << >>)
              -> [logged EXCEPT !.at = "key"]
         [] s.at = "key" /\ plain /\ r.ct = Handshake /\ m.t = ClientKeyEx /\ pms # << >>
              -> [logged EXCEPT !.at = "ccs", !.master = Master(pms, s.client, s.random)]
         [] s.at = "ccs" /\ plain /\ r.ct = ChangeCipher
              -> [s EXCEPT !.at = "fin"]
         [] /\ s.at = "fin" /\ intact /\ r.ct = Handshake /\ m.t = Finished
            /\ m.verify = ServerVerify(s, s.log, "client_finished")
              -> [logged EXCEPT !.at = "open", !.rseq = 1, !.wseq = 1]
         [] s.at = "open" /\ intact /\ r.ct = Application
              -> [s EXCEPT !.rseq = @ + 1, !.got = @ \o r.data]
         [] s.at = "open" /\ intact /\ r.ct = Alert
              -> [s EXCEPT !.rseq = @ + 1, !.at = "closed"]
         [] OTHER -> [s EXCEPT !.at = "closed", !.rejected = TRUE]

\* The answer: ChangeCipherSpec and Finished, or an alert after a rejection.
Reply(s, t) ==
    LET m == [Msg(Finished, << >>) EXCEPT !.verify = ServerVerify(t, t.log, "server_finished")]
    IN IF s.at = "fin" /\ t.at = "open"
       THEN <<Plain(ChangeCipher, <<1>>), ServerRecord(t.master, 0, Handshake, <<m>>)>>
       ELSE IF t.rejected THEN <<Plain(Alert, <<2, 20>>)>> ELSE << >>

ServerTakes(f) ==
    /\ Arrived(f) /\ srv[f].at # "hello"
    /\ toSrv' = [toSrv EXCEPT ![f] = Tail(@)]
    /\ \E t \in {After(srv[f], Head(toSrv[f]))} :
        /\ toCli' = [toCli EXCEPT ![f] = @ \o Reply(srv[f], t)]
        /\ srv' = [srv EXCEPT ![f] = IF t.at = "open" THEN [t EXCEPT !.log = << >>] ELSE t]
    /\ UNCHANGED <<program, line, damaged>>

\* What happens to a connection the program has given up is never seen.
Watched(f) == st[f] \in {"tcp", "tls"}

\* A record of an open session: application data, or the wish to negotiate again.
ServerSends(f, ct, data) ==
    /\ Watched(f) /\ srv[f].at = "open" /\ line[f] = "up"
    /\ toCli' = [toCli EXCEPT ![f] =
            Append(@, ServerRecord(srv[f].master, srv[f].wseq, ct, data))]
    /\ UNCHANGED <<program, toSrv, line, damaged>>

ServerData(f) ==
    \E n \in SendSizes :
        /\ Total([g \in Fds |-> srv[g].sent]) + n <= MaxSent
        /\ ServerSends(f, Application, Bytes(srv[f].sent, n))
        /\ srv' = [srv EXCEPT ![f].sent = @ + n, ![f].wseq = @ + 1]

ServerAsks(f) ==
    /\ srv[f].wseq = 1
    /\ ServerSends(f, Handshake, <<Msg(0, << >>)>>)
    /\ srv' = [srv EXCEPT ![f].wseq = @ + 1]

\* The server ends the session, with close_notify or without.
ServerCloses(f) ==
    /\ Watched(f) /\ srv[f].at = "open" /\ line[f] = "up"
    /\ srv' = [srv EXCEPT ![f].at = "closed"]
    /\ \/ toCli' = [toCli EXCEPT ![f] =
                Append(@, ServerRecord(srv[f].master, srv[f].wseq, Alert, <<1, 0>>))]
       \/ UNCHANGED toCli
    /\ UNCHANGED <<program, toSrv, line, damaged>>

\* The connection is lost, with all that is under way.
Lost(f) ==
    /\ Watched(f) /\ line[f] = "up"
    /\ Cardinality({g \in Fds : line[g] = "down"}) < MaxLost
    /\ line' = [line EXCEPT ![f] = "down"]
    /\ toSrv' = [toSrv EXCEPT ![f] = << >>] /\ toCli' = [toCli EXCEPT ![f] = << >>]
    /\ UNCHANGED <<program, srv, damaged>>

\* A record from the server is damaged: a number in a handshake message, or
\* anything at all in a protected record, whose MAC then no longer fits.
Spoilt(m) == [m EXCEPT !.v = <<IF m.t = ServerCert THEN Garbled ELSE m.v[1] + 1>>]

Damage(f) ==
    /\ Watched(f) /\ Cardinality({g \in Fds : damaged[g]}) < MaxDamage /\ ~damaged[f]
    /\ damaged' = [damaged EXCEPT ![f] = TRUE]
    /\ \E i \in DOMAIN toCli[f] :
        LET r == toCli[f][i]
        IN \/ /\ r.key # NoSlice
              /\ toCli' = [toCli EXCEPT ![f][i].mac = NoMac]
           \/ /\ r.key = NoSlice /\ r.ct = Handshake
              /\ \E j \in DOMAIN r.data :
                    /\ r.data[j].v # << >>
                    /\ toCli' = [toCli EXCEPT ![f][i].data[j] = Spoilt(@)]
    /\ UNCHANGED <<program, toSrv, line, srv>>

-----------------------------------------------------------------------------

Handshaking ==
    \/ FlightRecord \/ EmptyCertificate \/ ClientKeyExchange \/ KeyTooShort
    \/ SendChangeCipher \/ SendFinished \/ AnswerUnsent \/ FinishedRecord
    \/ HandshakeReadFails

\* A call that runs goes on until it returns.
Running == Header \/ Handshaking \/ RecvRecord \/ RecvFails

Program(f) ==
    \/ HandshakeWithoutSlot(f) \/ vtls_handshake(f) \/ HelloUnsent(f)
    \/ vtls_send(f) \/ SendFails(f) \/ RecvBuffered(f) \/ vtls_recv(f)
    \/ vtls_close(f) \/ CloseSocket(f)

Server(f) == ServerFlight(f) \/ ServerRefuses(f) \/ ServerTakes(f)

Environment(f) ==
    \/ Server(f) \/ ServerData(f) \/ ServerAsks(f) \/ ServerCloses(f) \/ Lost(f) \/ Damage(f)

Next == Running \/ \E f \in Fds : Program(f) \/ Environment(f)

Spec == Init /\ [][Next]_vars

\* A call that can go on does, and a server answers what has arrived.
FairSpec == Spec /\ WF_vars(Running) /\ \A f \in Fds : WF_vars(Server(f))

-----------------------------------------------------------------------------
(* Properties.                                                             *)

\* Every slot in use belongs to the handshake that runs or to a session the
\* program still holds, and no socket has two: alloc_conn (1047-1058), the fail
\* label (1645-1648) and vtls_close (1730-1744) against find_conn (1038-1045),
\* which takes the first slot of the socket.
SessionPerSlot ==
    /\ \A i \in Slots : conns[i].active =>
          \/ Busy /\ call.slot = i /\ call.fd = conns[i].sockfd
          \/ st[conns[i].sockfd] \in {"tls", "failed"}
    /\ \A f \in Fds :
          /\ Cardinality(find_conn(f)) <= 1
          /\ st[f] \in {"tls", "failed"} => find_conn(f) # {}

\* When vtls_handshake has returned 0, both sides hold the same keys, count the
\* records alike, and the name and key size reported are those of the server's
\* own certificate; a server never rejects what the client sent unless a record
\* of its own was damaged on the way (1291-1649, with the arithmetic, the hash,
\* the key block and the certificate walk they rest on).
PeersAgree ==
    \A f \in Fds :
        /\ srv[f].rejected => damaged[f]
        /\ st[f] = "tls" =>
            LET c == conns[Session(f)]
                keys == ServerSide(srv[f].master)
                unread == {i \in DOMAIN toCli[f] : toCli[f][i].ct \in {Handshake, Application}}
            IN /\ c.cipher_active
               /\ c.mac_enc_key = keys.reads /\ c.mac_dec_key = keys.writes
               /\ c.enc_ctx = keys.decrypts /\ c.dec_ctx = keys.encrypts
               /\ CertName[c.peer_cert] = Certs[srv[f].cert].name
               /\ c.peer_key_bytes = Certs[srv[f].cert].keylen
               /\ line[f] = "up" => /\ c.seq_send = srv[f].rseq + Len(toSrv[f])
                                    /\ c.seq_recv + Cardinality(unread) = srv[f].wseq

\* The application data in records under way.
Payload(r) == IF r.ct = Application THEN r.data ELSE << >>
Carried(records) == FlattenSeq([i \in DOMAIN records |-> Payload(records[i])])

\* While a session lasts, what vtls_recv has handed out, what it has kept and what
\* is still under way are together the bytes the server sent, in order, once,
\* however they are cut into records and reads, and so for what the server gets;
\* what either side has received is a beginning of it for ever (1181-1249,
\* 1655-1714).
StreamIntact ==
    \A f \in Fds :
        /\ got[f] = Bytes(0, Len(got[f])) /\ srv[f].got = Bytes(0, Len(srv[f].got))
        /\ st[f] = "tls" /\ line[f] = "up" =>
            /\ got[f] \o conns[Session(f)].app_buf \o Carried(toCli[f]) = Bytes(0, srv[f].sent)
            /\ srv[f].got \o Carried(toSrv[f]) = Bytes(0, put[f])

\* vtls_handshake, vtls_recv and vtls_send fail only for a reason: no slot is
\* free, the certificate cannot be used, the connection was lost, the server
\* refused or closed, or a record was damaged.  Nothing that was sent correctly
\* is taken for an error (1101-1178, 1369-1450, 1602-1641).
FailureIsReal ==
    [][\A f \in Fds :
        st[f] # st'[f] /\ st'[f] \in {"refused", "failed"} =>
            \/ st[f] = "closed" /\ Unused = {}
            \/ line'[f] = "down" \/ damaged[f]
            \/ srv[f].at = "closed" /\ ~srv[f].rejected
            \/ srv[f].cert # 0 /\ ~Certs[srv[f].cert].usable]_vars

\* A handshake or a read that has started comes to an end, however the server
\* cuts its flight into records and wherever the connection is lost, as long as
\* a server answers what it receives (1061-1079, 1369-1450, 1602-1641).
CallEnds == Busy ~> ~Busy
=============================================================================
