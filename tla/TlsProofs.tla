------------------------------ MODULE TlsProofs ------------------------------
(***************************************************************************)
(* Proofs about the TLS sessions of vtls.c, for any number of sockets and  *)
(* slots, all certificates, and whatever servers and the network do.       *)
(*                                                                         *)
(* SessionPerSlot says of a slot in use only that the running call or a    *)
(* session has it.  What is missing for an induction is the other          *)
(* direction, for the time a call runs (Handshakes, Receives): its slot is *)
(* in use and carries its socket, and that socket has no session yet, so   *)
(* that the fail label gives up the one slot that the socket has.  Of the  *)
(* data only the shapes of the records matter (Shapes).  This invariant is *)
(* TInv.                                                                   *)
(*                                                                         *)
(* PeersAgree, StreamIntact and FailureIsReal need the whole conversation  *)
(* of every socket (Conversations): not only what an open session has      *)
(* agreed on but how far a handshake has come on both sides, what each has *)
(* hashed, and which records are under way.                                *)
(***************************************************************************)
EXTENDS TlsSessionProofs, FiniteSetTheorems, WellFoundedInduction

States == {"closed", "refused", "tcp", "tls", "failed", "ended"}

CallShape ==
  \/ call = Idle
  \/ call \in [op : {"handshake"}, fd : Fds, slot : Slots, hdr : BOOLEAN]
  \/ call \in [op : {"recv"}, fd : Fds, slot : Slots, hdr : BOOLEAN, len : RecvSizes]

Shapes ==
  /\ conns = [i \in Slots |-> conns[i]]
  /\ \A i \in Slots : IsConn(conns[i]) /\ conns[i].active \in BOOLEAN
  /\ st \in [Fds -> States]
  /\ CallShape

\* The slot of a handshake is in use for a socket that has no session yet.
Handshakes ==
  /\ call.op = "handshake" =>
       st[call.fd] = "tcp" /\ conns[call.slot].active /\ conns[call.slot].sockfd = call.fd
  /\ hs.at # "none" => call.op = "handshake"

Receives == call.op = "recv" => st[call.fd] = "tls"

\* SessionPerSlot without Cardinality.
InUse(i, f) == conns[i].active /\ conns[i].sockfd = f
Sessions ==
  /\ \A i \in Slots : conns[i].active =>
       /\ conns[i].sockfd \in Fds
       /\ \/ call.op = "handshake" /\ call.slot = i /\ call.fd = conns[i].sockfd
          \/ st[conns[i].sockfd] \in {"tls", "failed"}
  /\ \A i, j \in Slots, f \in Fds : InUse(i, f) /\ InUse(j, f) => i = j
  /\ \A f \in Fds : st[f] \in {"tls", "failed"} => \E i \in Slots : InUse(i, f)

TInv == Shapes /\ Handshakes /\ Receives /\ Sessions

\* The order of the natural numbers as the library's relation.
LEMMA NatOrder ==
  \E R : /\ IsWellFoundedOn(R, Nat)
         /\ \A x, y \in Nat : x < y => <<x, y>> \in R
<1>1. \A x, y \in Nat : x < y => <<x, y>> \in OpToRel(<, Nat)
  BY Zenon DEF OpToRel
<1> QED  BY <1>1, NatLessThanWellFounded, Zenon

\* The loops over conns[] take the first of the slots they look for.
LEMMA FirstIs ==
  ASSUME NEW S \in SUBSET Slots, S # {} PROVE First(S) \in S
<1>0. S \subseteq Nat
  BY TlsAssumption DEF Slots
<1>1. PICK R : /\ IsWellFoundedOn(R, Nat)
               /\ \A x, y \in Nat : x < y => <<x, y>> \in R
  BY NatOrder
<1>2. PICK m \in S : \A k \in S : ~ (<<k, m>> \in R)
  <2>1. IsWellFoundedOn(R, Nat) /\ S \subseteq Nat /\ S # {}
    BY <1>0, <1>1
  <2> QED  BY ONLY <2>1, WFMin
<1>3. ASSUME NEW k \in S PROVE m <= k
  <2>1. k \in Nat /\ m \in Nat /\ ~ (k < m)
    BY <1>0, <1>1, <1>2, Zenon
  <2> QED  BY <2>1
<1> QED  BY <1>3 DEF First

LEMMA AtMostOne ==
  ASSUME NEW S, \A x, y \in S : x = y PROVE Cardinality(S) \in {0, 1}
<1>1. CASE S = {}
  BY <1>1, FS_EmptySet
<1>2. CASE S # {}
  <2>1. PICK x : S = {x}
    BY <1>2
  <2> QED  BY <2>1, FS_Singleton
<1> QED  BY <1>1, <1>2

\* The invariant says what SessionPerSlot says.
LEMMA SessionsSuffice == TInv => SessionPerSlot
<1> SUFFICES ASSUME TInv PROVE SessionPerSlot  OBVIOUS
<1>1. ASSUME NEW i \in Slots, conns[i].active
      PROVE  \/ Busy /\ call.slot = i /\ call.fd = conns[i].sockfd
             \/ st[conns[i].sockfd] \in {"tls", "failed"}
  BY <1>1 DEF TInv, Sessions, Busy
<1>2. ASSUME NEW f \in Fds PROVE Cardinality(find_conn(f)) <= 1
  <2>1. \A i, j \in find_conn(f) : i = j
    BY DEF TInv, Sessions, InUse, find_conn
  <2>2. Cardinality(find_conn(f)) \in {0, 1}
    BY <2>1, AtMostOne
  <2> QED  BY <2>2
<1>3. ASSUME NEW f \in Fds, st[f] \in {"tls", "failed"} PROVE find_conn(f) # {}
  BY <1>3 DEF TInv, Sessions, InUse, find_conn
<1> QED  BY <1>1, <1>2, <1>3 DEF SessionPerSlot

LEMMA InitTInv == Init => TInv
<1> SUFFICES ASSUME Init PROVE TInv  OBVIOUS
<1>1. \A i \in Slots : conns[i] = FreeConn /\ IsConn(conns[i]) /\ conns[i].active = FALSE
  BY DEF Init, FreeConn, IsConn
<1>2. Shapes
  BY <1>1 DEF Init, Shapes, CallShape, States
<1> QED  BY <1>1, <1>2 DEF Init, TInv, Handshakes, Receives, Sessions, InUse, Idle, NoHs

----------------------------------------------------------------------------
(***************************************************************************)
(* What a step may do to the table, one lemma per way.                     *)
(***************************************************************************)
\* The slots in use, their sockets and the running call stay as they are.
LEMMA TableKept ==
  ASSUME TInv, conns' = [j \in Slots |-> conns'[j]],
         \A j \in Slots : Same(conns[j], conns'[j]),
         st' = st, CallShape',
         call'.op = call.op, call'.fd = call.fd, call'.slot = call.slot,
         hs'.at # "none" => call.op = "handshake"
  PROVE  TInv'
<1>1. Shapes'
  BY DEF TInv, Shapes, Same
<1>2. Handshakes' /\ Receives'
  <2>1. call.op = "handshake" => call.slot \in Slots
    BY DEF TInv, Shapes, CallShape, Idle
  <2> QED  BY <2>1 DEF TInv, Handshakes, Receives, Same
<1>3. \A j \in Slots : \A f : InUse(j, f)' <=> InUse(j, f)
  BY DEF InUse, Same
<1>4. Sessions'
  BY <1>3 DEF TInv, Sessions, Same
<1> QED  BY <1>1, <1>2, <1>4 DEF TInv

LEMMA ConnKept ==
  ASSUME TInv, NEW i \in Slots, NEW c, Same(conns[i], c),
         conns' = [conns EXCEPT ![i] = c], st' = st, CallShape',
         call'.op = call.op, call'.fd = call.fd, call'.slot = call.slot,
         hs'.at # "none" => call.op = "handshake"
  PROVE  TInv'
<1>1. conns' = [j \in Slots |-> conns'[j]]
  BY DEF TInv, Shapes
<1>2. \A j \in Slots : Same(conns[j], conns'[j])
  BY RecordsKeep DEF TInv, Shapes
<1> QED  BY <1>1, <1>2, TableKept

\* The running handshake, and what its slot is.
LEMMA HandshakeFacts ==
  ASSUME TInv, Busy, call.op = "handshake"
  PROVE  /\ call.fd \in Fds /\ call.slot \in Slots /\ IsConn(conns[call.slot])
         /\ st[call.fd] = "tcp" /\ InUse(call.slot, call.fd)
         /\ \A b \in BOOLEAN : LET d == [call EXCEPT !.hdr = b]
                               IN /\ d \in [op : {"handshake"}, fd : Fds, slot : Slots,
                                            hdr : BOOLEAN]
                                  /\ d.op = call.op /\ d.fd = call.fd /\ d.slot = call.slot
<1>1. call \in [op : {"handshake"}, fd : Fds, slot : Slots, hdr : BOOLEAN]
  BY DEF TInv, Shapes, CallShape, Idle
<1> QED  BY <1>1 DEF TInv, Shapes, Handshakes, InUse

LEMMA ReceiveFacts ==
  ASSUME TInv, Busy, call.op = "recv"
  PROVE  /\ call.fd \in Fds /\ call.slot \in Slots /\ IsConn(conns[call.slot])
         /\ st[call.fd] = "tls"
         /\ \A b \in BOOLEAN : LET d == [call EXCEPT !.hdr = b]
                               IN /\ d \in [op : {"recv"}, fd : Fds, slot : Slots,
                                            hdr : BOOLEAN, len : RecvSizes]
                                  /\ d.op = call.op /\ d.fd = call.fd /\ d.slot = call.slot
<1>1. call \in [op : {"recv"}, fd : Fds, slot : Slots, hdr : BOOLEAN, len : RecvSizes]
  BY DEF TInv, Shapes, CallShape, Idle
<1> QED  BY <1>1 DEF TInv, Shapes, Receives

\* The fail label frees the slot of the handshake.
LEMMA FailTInv == TInv /\ Busy /\ call.op = "handshake" /\ Fail => TInv'
<1> SUFFICES ASSUME TInv, Busy, call.op = "handshake", Fail PROVE TInv'
  OBVIOUS
<1>0. /\ call.fd \in Fds /\ call.slot \in Slots /\ IsConn(conns[call.slot])
      /\ InUse(call.slot, call.fd)
  BY HandshakeFacts
<1>1. /\ conns' = [conns EXCEPT ![call.slot] = Deactivated(@)]
      /\ st' = [st EXCEPT ![call.fd] = "refused"] /\ call' = Idle /\ hs' = NoHs
  BY DEF Fail, Slot, Fd
<1>2. /\ conns'[call.slot].active = FALSE /\ IsConn(conns'[call.slot])
      /\ \A j \in Slots : j # call.slot => conns'[j] = conns[j]
      /\ conns' = [j \in Slots |-> conns'[j]]
  BY <1>0, <1>1 DEF TInv, Shapes, Deactivated, IsConn
<1>3. Shapes'
  BY <1>0, <1>1, <1>2 DEF TInv, Shapes, CallShape, States
<1>4. Handshakes' /\ Receives'
  BY <1>1 DEF Handshakes, Receives, Idle, NoHs
<1>5. \A j \in Slots : \A f : InUse(j, f)' <=> InUse(j, f) /\ j # call.slot
  BY <1>2 DEF InUse
<1>6. \A f \in Fds : f # call.fd => st'[f] = st[f]
  BY <1>1 DEF TInv, Shapes
<1>7. \A f \in Fds : st'[f] \in {"tls", "failed"} => f # call.fd /\ st[f] \in {"tls", "failed"}
  BY <1>0, <1>1 DEF TInv, Shapes
<1>8. Sessions'
  <2>1. ASSUME NEW j \in Slots, conns'[j].active
        PROVE  conns'[j].sockfd \in Fds /\ st'[conns'[j].sockfd] \in {"tls", "failed"}
    <3>1. j # call.slot /\ conns'[j] = conns[j]
      BY <1>2, <2>1
    <3>2. conns[j].sockfd \in Fds /\ conns[j].sockfd # call.fd
      BY <1>0, <2>1, <3>1 DEF TInv, Sessions, InUse
    <3> QED  BY <1>6, <2>1, <3>1, <3>2 DEF TInv, Sessions
  <2>2. \A i, j \in Slots, f \in Fds : InUse(i, f)' /\ InUse(j, f)' => i = j
    BY <1>5 DEF TInv, Sessions
  <2>3. ASSUME NEW f \in Fds, st'[f] \in {"tls", "failed"}
        PROVE  \E i \in Slots : InUse(i, f)'
    <3>1. f # call.fd /\ \E i \in Slots : InUse(i, f)
      BY <1>7, <2>3 DEF TInv, Sessions
    <3> QED  BY <1>0, <1>5, <3>1 DEF InUse
  <2> QED  BY <2>1, <2>2, <2>3 DEF Sessions
<1> QED  BY <1>3, <1>4, <1>8 DEF TInv

\* Only the call or the state of sockets changes, and no session begins or ends.
LEMMA SlotsKept ==
  ASSUME TInv, conns' = conns, st' \in [Fds -> States], CallShape', Handshakes', Receives',
         call.op # "handshake",
         \A f \in Fds : st'[f] \in {"tls", "failed"} <=> st[f] \in {"tls", "failed"}
  PROVE  TInv'
<1>1. Shapes'
  BY DEF TInv, Shapes
<1>2. \A j \in Slots : \A f : InUse(j, f)' <=> InUse(j, f)
  BY DEF InUse
<1>3. Sessions'
  BY <1>2 DEF TInv, Sessions
<1> QED  BY <1>1, <1>3 DEF TInv

----------------------------------------------------------------------------
(***************************************************************************)
(* The steps of a call that runs.                                          *)
(***************************************************************************)
LEMMA HeaderTInv == TInv /\ Header => TInv'
<1> SUFFICES ASSUME TInv, Header PROVE TInv'  OBVIOUS
<1>1. Busy /\ call' = [call EXCEPT !.hdr = TRUE] /\ UNCHANGED <<conns, st, hs>>
  BY DEF Header, Reading
<1>2. \/ call \in [op : {"handshake"}, fd : Fds, slot : Slots, hdr : BOOLEAN]
      \/ call \in [op : {"recv"}, fd : Fds, slot : Slots, hdr : BOOLEAN, len : RecvSizes]
  BY <1>1 DEF TInv, Shapes, CallShape, Busy, Idle
<1>3. CallShape' /\ call'.op = call.op /\ call'.fd = call.fd /\ call'.slot = call.slot
  BY <1>1, <1>2 DEF CallShape
<1>4. conns' = [j \in Slots |-> conns'[j]] /\ \A j \in Slots : Same(conns[j], conns'[j])
  BY <1>1, RecordsKeep DEF TInv, Shapes
<1> QED  BY <1>1, <1>3, <1>4, TableKept DEF TInv, Handshakes

\* Records read by the handshake (tls_read_record, 1101-1178).
LEMMA FlightTInv == TInv /\ FlightRecord => TInv'
<1> SUFFICES ASSUME TInv, FlightRecord PROVE TInv'  OBVIOUS
<1>1. Busy /\ call.op = "handshake"
  BY DEF FlightRecord, RecordRead
<1>2. /\ call.slot \in Slots /\ IsConn(conns[call.slot])
      /\ [call EXCEPT !.hdr = FALSE] \in [op : {"handshake"}, fd : Fds, slot : Slots,
                                          hdr : BOOLEAN]
      /\ [call EXCEPT !.hdr = FALSE].op = call.op
      /\ [call EXCEPT !.hdr = FALSE].fd = call.fd
      /\ [call EXCEPT !.hdr = FALSE].slot = call.slot
  BY <1>1, HandshakeFacts
<1>3. \/ conns' = conns /\ st' = st /\ call' = [call EXCEPT !.hdr = FALSE]
      \/ /\ st' = st /\ call' = [call EXCEPT !.hdr = FALSE]
         /\ \E k, n : conns' = [conns EXCEPT ![call.slot].peer_cert = k,
                                             ![call.slot].peer_key_bytes = n]
      \/ Fail
  BY DEF FlightRecord, Slot
<1>4. CASE conns' = conns /\ st' = st /\ call' = [call EXCEPT !.hdr = FALSE]
  <2>1. conns' = [j \in Slots |-> conns'[j]] /\ \A j \in Slots : Same(conns[j], conns'[j])
    BY <1>4, RecordsKeep DEF TInv, Shapes
  <2> QED  BY <1>1, <1>2, <1>4, <2>1, TableKept DEF CallShape
<1>5. ASSUME st' = st, call' = [call EXCEPT !.hdr = FALSE], NEW k, NEW n,
             conns' = [conns EXCEPT ![call.slot].peer_cert = k,
                                    ![call.slot].peer_key_bytes = n]
      PROVE  TInv'
  <2>1. conns' = [conns EXCEPT ![call.slot] =
                     [@ EXCEPT !.peer_cert = k, !.peer_key_bytes = n]]
    BY <1>2, <1>5 DEF TInv, Shapes
  <2>2. Same(conns[call.slot],
             [conns[call.slot] EXCEPT !.peer_cert = k, !.peer_key_bytes = n])
    BY <1>2, RecordsKeep
  <2> QED  BY <1>1, <1>2, <1>5, <2>1, <2>2, ConnKept DEF CallShape
<1> QED  BY <1>1, <1>3, <1>4, <1>5, FailTInv

\* The answers of the handshake (1475-1599).
LEMMA AnswersTInv ==
  TInv /\ (EmptyCertificate \/ ClientKeyExchange \/ SendChangeCipher \/ SendFinished) => TInv'
<1> SUFFICES ASSUME TInv,
                    EmptyCertificate \/ ClientKeyExchange \/ SendChangeCipher \/ SendFinished
             PROVE  TInv'
  OBVIOUS
<1>1. Busy /\ call.op = "handshake" /\ st' = st /\ call' = call
  BY DEF EmptyCertificate, ClientKeyExchange, SendChangeCipher, SendFinished, Answer,
         TInv, Handshakes, Busy
<1>2. call.slot \in Slots /\ IsConn(conns[call.slot])
  BY <1>1, HandshakeFacts
<1>3. \E c : Same(conns[call.slot], c) /\ conns' = [conns EXCEPT ![call.slot] = c]
  <2>1. CASE EmptyCertificate \/ SendFinished
    <3>1. conns' = [conns EXCEPT ![call.slot] = Sent(conns[call.slot])]
      BY <2>1 DEF EmptyCertificate, SendFinished, Send, Conn, Slot
    <3> QED  BY <1>2, <3>1, RecordsKeep
  <2>2. CASE ClientKeyExchange
    <3>1. PICK m : conns' = [conns EXCEPT ![call.slot] = Sent(WithKeys(conns[call.slot], m))]
      BY <2>2 DEF ClientKeyExchange, Send, Conn, Slot
    <3>2. Same(conns[call.slot], WithKeys(conns[call.slot], m))
      BY <1>2, RecordsKeep
    <3>3. Same(WithKeys(conns[call.slot], m), Sent(WithKeys(conns[call.slot], m)))
      BY <3>2, RecordsKeep DEF Same
    <3> QED  BY <3>1, <3>2, <3>3 DEF Same
  <2>3. CASE SendChangeCipher
    <3>1. conns' = [conns EXCEPT ![call.slot] =
                       [@ EXCEPT !.cipher_active = TRUE, !.seq_send = 0]]
      BY <1>2, <2>3 DEF SendChangeCipher, Slot, TInv, Shapes
    <3> QED  BY <1>2, <3>1, RecordsKeep
  <2> QED  BY <2>1, <2>2, <2>3
<1> QED  BY <1>1, <1>2, <1>3, ConnKept DEF TInv, Shapes, CallShape

\* Every way to the fail label, but for the records that lead there.
LEMMA FailuresTInv == TInv /\ (KeyTooShort \/ AnswerUnsent \/ HandshakeReadFails) => TInv'
<1> SUFFICES ASSUME TInv, KeyTooShort \/ AnswerUnsent \/ HandshakeReadFails
             PROVE  TInv'
  OBVIOUS
<1>1. Busy /\ call.op = "handshake" /\ Fail
  BY DEF KeyTooShort, AnswerUnsent, HandshakeReadFails, TInv, Handshakes, Busy
<1> QED  BY <1>1, FailTInv

\* ChangeCipherSpec and Finished of the server (1602-1641).
LEMMA FinishedTInv == TInv /\ FinishedRecord => TInv'
<1> SUFFICES ASSUME TInv, FinishedRecord PROVE TInv'  OBVIOUS
<1>1. Busy /\ call.op = "handshake"
  BY DEF FinishedRecord, RecordRead
<1>2. /\ call.fd \in Fds /\ call.slot \in Slots /\ IsConn(conns[call.slot])
      /\ InUse(call.slot, call.fd)
      /\ [call EXCEPT !.hdr = FALSE] \in [op : {"handshake"}, fd : Fds, slot : Slots,
                                          hdr : BOOLEAN]
      /\ [call EXCEPT !.hdr = FALSE].op = call.op
      /\ [call EXCEPT !.hdr = FALSE].fd = call.fd
      /\ [call EXCEPT !.hdr = FALSE].slot = call.slot
  BY <1>1, HandshakeFacts
<1> DEFINE done == /\ conns' = [conns EXCEPT ![call.slot] = Received(@, Incoming)]
                   /\ st' = [st EXCEPT ![call.fd] = "tls"] /\ call' = Idle /\ hs' = NoHs
           more == /\ conns' = [conns EXCEPT ![call.slot] =
                                   IF Incoming.ct = ChangeCipher THEN [@ EXCEPT !.seq_recv = 0]
                                   ELSE Received(@, Incoming)]
                   /\ call' = [call EXCEPT !.hdr = FALSE] /\ st' = st
<1>3. done \/ more \/ Fail
  BY DEF FinishedRecord, Slot, Fd
<1>4. CASE done
  <2>1. /\ \A j \in Slots : Same(conns[j], conns'[j])
        /\ conns' = [j \in Slots |-> conns'[j]]
    BY <1>2, <1>4, RecordsKeep DEF TInv, Shapes
  <2>2. Shapes'
    BY <1>2, <1>4, <2>1 DEF TInv, Shapes, Same, States, CallShape
  <2>3. Handshakes' /\ Receives'
    BY <1>4 DEF Handshakes, Receives, Idle, NoHs
  <2>4. \A j \in Slots : \A f : InUse(j, f)' <=> InUse(j, f)
    BY <2>1 DEF InUse, Same
  <2>5. \A f \in Fds : /\ st[f] \in {"tls", "failed"} => st'[f] \in {"tls", "failed"}
                       /\ f # call.fd => st'[f] = st[f]
    BY <1>2, <1>4 DEF TInv, Shapes
  <2>6. st'[call.fd] = "tls"
    BY <1>2, <1>4 DEF TInv, Shapes
  <2>7. Sessions'
    <3>1. ASSUME NEW j \in Slots, conns'[j].active
          PROVE  conns'[j].sockfd \in Fds /\ st'[conns'[j].sockfd] \in {"tls", "failed"}
      <4>1. conns[j].active /\ conns'[j].sockfd = conns[j].sockfd /\ conns[j].sockfd \in Fds
        BY <2>1, <3>1 DEF Same, TInv, Sessions
      <4> QED  BY <2>5, <2>6, <4>1 DEF TInv, Sessions
    <3>2. \A i, j \in Slots, f \in Fds : InUse(i, f)' /\ InUse(j, f)' => i = j
      BY <2>4 DEF TInv, Sessions
    <3>3. ASSUME NEW f \in Fds, st'[f] \in {"tls", "failed"}
          PROVE  \E i \in Slots : InUse(i, f)'
      BY <1>2, <2>4, <2>5, <3>3 DEF TInv, Sessions
    <3> QED  BY <3>1, <3>2, <3>3 DEF Sessions
  <2> QED  BY <2>2, <2>3, <2>7 DEF TInv
<1>5. CASE more
  <2>1. \E c : Same(conns[call.slot], c) /\ conns' = [conns EXCEPT ![call.slot] = c]
    BY <1>2, <1>5, RecordsKeep
  <2> QED  BY <1>1, <1>2, <1>5, <2>1, ConnKept DEF CallShape
<1> QED  BY <1>1, <1>3, <1>4, <1>5, FailTInv

\* What vtls_recv waited for, or its failure (1687-1713).
LEMMA ReceiveTInv == TInv /\ (RecvRecord \/ RecvFails) => TInv'
<1> SUFFICES ASSUME TInv, RecvRecord \/ RecvFails PROVE TInv'  OBVIOUS
<1>1. Busy /\ call.op = "recv" /\ call' = Idle /\ hs' = hs
  BY DEF RecvRecord, RecvFails, Receiving
<1>2. call.fd \in Fds /\ call.slot \in Slots /\ IsConn(conns[call.slot]) /\ st[call.fd] = "tls"
  BY <1>1, ReceiveFacts
<1>3. /\ \A j \in Slots : Same(conns[j], conns'[j])
      /\ conns' = [j \in Slots |-> conns'[j]]
  <2>1. \/ conns' = conns
        \/ \E b : conns' = [conns EXCEPT ![call.slot] =
                               [Received(conns[call.slot], Incoming) EXCEPT !.app_buf = b]]
        \/ conns' = [conns EXCEPT ![call.slot] = Received(conns[call.slot], Incoming)]
    BY DEF RecvRecord, RecvFails, Conn, Slot
  <2>2. conns' = conns \/ \E c : /\ Same(conns[call.slot], c)
                                 /\ conns' = [conns EXCEPT ![call.slot] = c]
    BY <1>2, <2>1, RecordsKeep
  <2> QED  BY <1>2, <2>2, RecordsKeep DEF TInv, Shapes
<1>4. st' = st \/ st' = [st EXCEPT ![call.fd] = "failed"]
  BY DEF RecvRecord, RecvFails, Fd
<1>5. Shapes'
  BY <1>1, <1>2, <1>3, <1>4 DEF TInv, Shapes, Same, States, CallShape
<1>6. Handshakes' /\ Receives'
  BY <1>1 DEF TInv, Handshakes, Receives, Idle
<1>7. \A j \in Slots : \A f : InUse(j, f)' <=> InUse(j, f)
  BY <1>3 DEF InUse, Same
<1>8. \A f \in Fds : st'[f] \in {"tls", "failed"} <=> st[f] \in {"tls", "failed"}
  BY <1>2, <1>4 DEF TInv, Shapes
<1>9. Sessions'
  BY <1>1, <1>3, <1>7, <1>8 DEF TInv, Sessions, Same
<1> QED  BY <1>5, <1>6, <1>9 DEF TInv

----------------------------------------------------------------------------
(***************************************************************************)
(* The calls of the program.                                               *)
(***************************************************************************)
\* Between two calls no handshake runs, and slots in use are sessions.
LEMMA BetweenCalls ==
  ASSUME TInv, ~Busy
  PROVE  /\ call = Idle /\ call.op = "none" /\ hs.at = "none"
         /\ \A i \in Slots : conns[i].active =>
              conns[i].sockfd \in Fds /\ st[conns[i].sockfd] \in {"tls", "failed"}
<1>1. call = Idle /\ call.op = "none"
  BY DEF Busy, TInv, Shapes, CallShape, Idle
<1> QED  BY <1>1 DEF TInv, Handshakes, Sessions

LEMMA UnusedSlot ==
  ASSUME TInv, Unused # {}
  PROVE  First(Unused) \in Slots /\ conns[First(Unused)].active = FALSE
<1>1. First(Unused) \in Unused
  BY FirstIs DEF Unused
<1> QED  BY <1>1 DEF Unused, TInv, Shapes

LEMMA SessionSlot ==
  ASSUME TInv, NEW f \in Fds, find_conn(f) # {}
  PROVE  Session(f) \in Slots /\ InUse(Session(f), f) /\ IsConn(conns[Session(f)])
<1>1. Session(f) \in find_conn(f)
  BY FirstIs DEF Session, find_conn
<1> QED  BY <1>1 DEF find_conn, InUse, TInv, Shapes

\* vtls_handshake up to the ClientHello, and the ways it fails before (1308-1366).
LEMMA NoSlotTInv == \A f \in Fds : TInv /\ HandshakeWithoutSlot(f) => TInv'
<1> SUFFICES ASSUME NEW f \in Fds, TInv, HandshakeWithoutSlot(f) PROVE TInv'  OBVIOUS
<1>1. /\ ~Busy /\ st[f] = "closed" /\ st' = [st EXCEPT ![f] = "refused"]
      /\ UNCHANGED <<conns, call, hs>>
  BY DEF HandshakeWithoutSlot, Connects
<1>2. call.op = "none" /\ hs.at = "none"
  BY <1>1, BetweenCalls
<1>3. CallShape' /\ Handshakes' /\ Receives'
  BY <1>1, <1>2 DEF TInv, Shapes, CallShape, Handshakes, Receives
<1>4. /\ st' \in [Fds -> States]
      /\ \A g \in Fds : st'[g] \in {"tls", "failed"} <=> st[g] \in {"tls", "failed"}
  BY <1>1 DEF TInv, Shapes, States
<1> QED  BY <1>1, <1>2, <1>3, <1>4, SlotsKept

LEMMA HelloTInv == \A f \in Fds : TInv /\ vtls_handshake(f) => TInv'
<1> SUFFICES ASSUME NEW f \in Fds, TInv, vtls_handshake(f) PROVE TInv'  OBVIOUS
<1> DEFINE i == First(Unused)
<1>1. /\ ~Busy /\ st[f] = "closed" /\ Unused # {}
      /\ conns' = [conns EXCEPT ![i] = Allocated(f)]
      /\ st' = [st EXCEPT ![f] = "tcp"]
      /\ call' = [op |-> "handshake", fd |-> f, slot |-> i, hdr |-> FALSE]
  BY DEF vtls_handshake, Connects
<1>2. i \in Slots /\ conns[i].active = FALSE
  BY <1>1, UnusedSlot
<1> HIDE DEF i
<1>3. /\ IsConn(conns'[i]) /\ conns'[i].active = TRUE /\ conns'[i].sockfd = f
      /\ \A j \in Slots : j # i => conns'[j] = conns[j]
      /\ conns' = [j \in Slots |-> conns'[j]]
  BY <1>1, <1>2, AllocatedIs DEF TInv, Shapes
<1>4. /\ st' \in [Fds -> States] /\ st'[f] = "tcp"
      /\ \A g \in Fds : g # f => st'[g] = st[g]
  BY <1>1 DEF TInv, Shapes, States
<1>5. Shapes'
  BY <1>1, <1>2, <1>3, <1>4 DEF TInv, Shapes, CallShape
<1>6. Handshakes' /\ Receives'
  BY <1>1, <1>3, <1>4 DEF Handshakes, Receives
<1>7. \A j \in Slots : conns[j].active =>
         conns[j].sockfd \in Fds /\ st[conns[j].sockfd] \in {"tls", "failed"}
  BY <1>1, BetweenCalls
<1>8. \A j \in Slots : ~InUse(j, f)
  BY <1>1, <1>7 DEF InUse
<1>9. \A j \in Slots : \A g : InUse(j, g)' <=> InUse(j, g) \/ (j = i /\ g = f)
  BY <1>2, <1>3 DEF InUse
<1>10. Sessions'
  <2>1. ASSUME NEW j \in Slots, conns'[j].active
        PROVE  /\ conns'[j].sockfd \in Fds
               /\ \/ call'.op = "handshake" /\ call'.slot = j /\ call'.fd = conns'[j].sockfd
                  \/ st'[conns'[j].sockfd] \in {"tls", "failed"}
    <3>1. CASE j = i  BY <1>1, <1>3, <3>1
    <3>2. CASE j # i  BY <1>1, <1>3, <1>4, <1>7, <2>1, <3>2
    <3> QED  BY <3>1, <3>2
  <2>2. \A j, k \in Slots, g \in Fds : InUse(j, g)' /\ InUse(k, g)' => j = k
    BY <1>8, <1>9 DEF TInv, Sessions
  <2>3. \A g \in Fds : st'[g] \in {"tls", "failed"} => \E j \in Slots : InUse(j, g)'
    BY <1>4, <1>9 DEF TInv, Sessions
  <2> QED  BY <2>1, <2>2, <2>3 DEF Sessions
<1> QED  BY <1>5, <1>6, <1>10 DEF TInv

LEMMA HelloUnsentTInv == \A f \in Fds : TInv /\ HelloUnsent(f) => TInv'
<1> SUFFICES ASSUME NEW f \in Fds, TInv, HelloUnsent(f) PROVE TInv'  OBVIOUS
<1> DEFINE i == First(Unused)
<1>1. /\ ~Busy /\ st[f] = "closed" /\ Unused # {}
      /\ conns' = [conns EXCEPT ![i] = Deactivated(Allocated(f))]
      /\ st' = [st EXCEPT ![f] = "refused"] /\ UNCHANGED <<call, hs>>
  BY DEF HelloUnsent, Connects
<1>2. i \in Slots /\ conns[i].active = FALSE
  BY <1>1, UnusedSlot
<1> HIDE DEF i
<1>3. /\ IsConn(conns'[i]) /\ conns'[i].active = FALSE
      /\ \A j \in Slots : j # i => conns'[j] = conns[j]
      /\ conns' = [j \in Slots |-> conns'[j]]
  BY <1>1, <1>2, AllocatedIs DEF TInv, Shapes
<1>4. /\ st' \in [Fds -> States]
      /\ \A g \in Fds : st'[g] \in {"tls", "failed"} <=> st[g] \in {"tls", "failed"}
  BY <1>1 DEF TInv, Shapes, States
<1>5. Shapes'
  BY <1>1, <1>3, <1>4 DEF TInv, Shapes, CallShape
<1>6. call.op = "none" /\ hs.at = "none"
  BY <1>1, BetweenCalls
<1>7. Handshakes' /\ Receives'
  BY <1>1, <1>6 DEF Handshakes, Receives
<1>8. \A j \in Slots : \A g : InUse(j, g)' <=> InUse(j, g)
  BY <1>2, <1>3 DEF InUse
<1>9. Sessions'
  BY <1>3, <1>4, <1>6, <1>8 DEF TInv, Sessions, InUse
<1> QED  BY <1>5, <1>7, <1>9 DEF TInv

\* Sending and reading on a session (1655-1713).
LEMMA DataTInv ==
  \A f \in Fds :
    TInv /\ (vtls_send(f) \/ SendFails(f) \/ RecvBuffered(f) \/ vtls_recv(f)) => TInv'
<1> SUFFICES ASSUME NEW f \in Fds, TInv,
                    vtls_send(f) \/ SendFails(f) \/ RecvBuffered(f) \/ vtls_recv(f)
             PROVE  TInv'
  OBVIOUS
<1> DEFINE i == Session(f)
<1>1. ~Busy /\ st[f] = "tls" /\ find_conn(f) # {} /\ hs' = hs
  BY DEF vtls_send, SendFails, RecvBuffered, vtls_recv, Secure
<1>2. call.op = "none" /\ hs.at = "none"
  BY <1>1, BetweenCalls
<1>3. i \in Slots /\ IsConn(conns[i])
  BY <1>1, SessionSlot
<1> HIDE DEF i
<1>4. CASE vtls_send(f)
  <2>1. conns' = [conns EXCEPT ![i] = Sent(conns[i])] /\ st' = st /\ call' = call
    BY <1>4 DEF vtls_send, Send, i
  <2>2. Same(conns[i], Sent(conns[i])) /\ CallShape'
    BY <1>3, <2>1, RecordsKeep DEF TInv, Shapes, CallShape
  <2> QED  BY <1>1, <1>2, <1>3, <2>1, <2>2, ConnKept
<1>5. CASE RecvBuffered(f)
  <2>1. \E b : conns' = [conns EXCEPT ![i].app_buf = b] /\ st' = st /\ call' = call
    BY <1>5 DEF RecvBuffered, i
  <2>2. \E c : Same(conns[i], c) /\ conns' = [conns EXCEPT ![i] = c]
    BY <1>3, <2>1, RecordsKeep
  <2>3. st' = st /\ call' = call /\ CallShape'
    BY <2>1 DEF TInv, Shapes, CallShape
  <2> QED  BY <1>1, <1>2, <1>3, <2>2, <2>3, ConnKept
<1>6. CASE SendFails(f)
  <2>1. /\ conns' = [conns EXCEPT ![i] = Sent(conns[i])]
        /\ st' = [st EXCEPT ![f] = "failed"] /\ call' = call
    BY <1>6 DEF SendFails, i
  <2>2. /\ \A j \in Slots : Same(conns[j], conns'[j])
        /\ conns' = [j \in Slots |-> conns'[j]]
    BY <1>3, <2>1, RecordsKeep DEF TInv, Shapes
  <2>3. /\ st' \in [Fds -> States]
        /\ \A g \in Fds : st'[g] \in {"tls", "failed"} <=> st[g] \in {"tls", "failed"}
    BY <1>1, <2>1 DEF TInv, Shapes, States
  <2>4. Shapes'
    BY <2>1, <2>2, <2>3 DEF TInv, Shapes, Same, CallShape
  <2>5. Handshakes' /\ Receives'
    BY <1>1, <1>2, <2>1 DEF Handshakes, Receives
  <2>6. \A j \in Slots : \A g : InUse(j, g)' <=> InUse(j, g)
    BY <2>2 DEF InUse, Same
  <2>7. Sessions'
    BY <1>2, <2>2, <2>3, <2>6 DEF TInv, Sessions, Same
  <2> QED  BY <2>4, <2>5, <2>7 DEF TInv
<1>7. CASE vtls_recv(f)
  <2>1. /\ conns' = conns /\ st' = st
        /\ \E len \in RecvSizes :
             call' = [op |-> "recv", fd |-> f, slot |-> i, hdr |-> FALSE, len |-> len]
    BY <1>7 DEF vtls_recv, i
  <2>2. CallShape' /\ Handshakes' /\ Receives'
    BY <1>1, <1>2, <1>3, <2>1 DEF CallShape, Handshakes, Receives
  <2> QED  BY <1>2, <2>1, <2>2, SlotsKept DEF TInv, Shapes
<1> QED  BY <1>4, <1>5, <1>6, <1>7

\* vtls_close clears the one slot of the socket (1730-1744).
LEMMA CloseTInv == \A f \in Fds : TInv /\ vtls_close(f) => TInv'
<1> SUFFICES ASSUME NEW f \in Fds, TInv, vtls_close(f) PROVE TInv'  OBVIOUS
<1> DEFINE i == Session(f)
<1>1. /\ ~Busy /\ find_conn(f) # {} /\ conns' = [conns EXCEPT ![i] = FreeConn]
      /\ st' = [st EXCEPT ![f] = "ended"] /\ UNCHANGED <<call, hs>>
  BY DEF vtls_close
<1>2. i \in Slots /\ InUse(i, f)
  BY <1>1, SessionSlot
<1> HIDE DEF i
<1>3. call.op = "none" /\ hs.at = "none"
  BY <1>1, BetweenCalls
<1>4. /\ IsConn(conns'[i]) /\ conns'[i].active = FALSE
      /\ \A j \in Slots : j # i => conns'[j] = conns[j]
      /\ conns' = [j \in Slots |-> conns'[j]]
  BY <1>1, <1>2, AllocatedIs DEF TInv, Shapes
<1>5. /\ st' \in [Fds -> States] /\ st'[f] = "ended"
      /\ \A g \in Fds : g # f => st'[g] = st[g]
  BY <1>1 DEF TInv, Shapes, States
<1>6. Shapes'
  BY <1>1, <1>4, <1>5 DEF TInv, Shapes, CallShape
<1>7. Handshakes' /\ Receives'
  BY <1>1, <1>3 DEF Handshakes, Receives
<1>8. \A j \in Slots : \A g : InUse(j, g)' <=> InUse(j, g) /\ j # i
  BY <1>4 DEF InUse
<1>9. Sessions'
  <2>1. ASSUME NEW j \in Slots, conns'[j].active
        PROVE  conns'[j].sockfd \in Fds /\ st'[conns'[j].sockfd] \in {"tls", "failed"}
    <3>1. j # i /\ conns'[j] = conns[j] /\ conns[j].active
      BY <1>4, <2>1
    <3>2. conns[j].sockfd # f
      BY <1>2, <3>1 DEF TInv, Sessions, InUse
    <3> QED  BY <1>3, <1>5, <3>1, <3>2 DEF TInv, Sessions
  <2>2. \A j, k \in Slots, g \in Fds : InUse(j, g)' /\ InUse(k, g)' => j = k
    BY <1>8 DEF TInv, Sessions
  <2>3. ASSUME NEW g \in Fds, st'[g] \in {"tls", "failed"}
        PROVE  \E j \in Slots : InUse(j, g)'
    <3>1. g # f /\ st[g] \in {"tls", "failed"}
      BY <1>5, <2>3
    <3>2. PICK j \in Slots : InUse(j, g)
      BY <3>1 DEF TInv, Sessions
    <3> QED  BY <1>2, <1>8, <3>1, <3>2 DEF InUse
  <2> QED  BY <2>1, <2>2, <2>3 DEF Sessions
<1> QED  BY <1>6, <1>7, <1>9 DEF TInv

LEMMA CloseSocketTInv == \A f \in Fds : TInv /\ CloseSocket(f) => TInv'
<1> SUFFICES ASSUME NEW f \in Fds, TInv, CloseSocket(f) PROVE TInv'  OBVIOUS
<1>1. /\ ~Busy /\ st[f] \in {"refused", "ended"} /\ st' = [st EXCEPT ![f] = "closed"]
      /\ UNCHANGED <<conns, call, hs>>
  BY DEF CloseSocket
<1>2. call.op = "none" /\ hs.at = "none"
  BY <1>1, BetweenCalls
<1>3. CallShape' /\ Handshakes' /\ Receives'
  BY <1>1, <1>2 DEF TInv, Shapes, CallShape, Handshakes, Receives
<1>4. /\ st' \in [Fds -> States]
      /\ \A g \in Fds : st'[g] \in {"tls", "failed"} <=> st[g] \in {"tls", "failed"}
  BY <1>1 DEF TInv, Shapes, States
<1> QED  BY <1>1, <1>2, <1>3, <1>4, SlotsKept

----------------------------------------------------------------------------
\* Servers and the network touch nothing of the program.
LEMMA ProgramKept == TInv /\ UNCHANGED program => TInv'
BY SMTT(40) DEF program, TInv, Shapes, CallShape, Handshakes, Receives, Sessions, InUse

LEMMA EnvironmentKeeps == \A f \in Fds : Environment(f) => UNCHANGED program
BY ZenonT(45) DEF Environment, Server, ServerFlight, ServerRefuses, ServerTakes, ServerData,
       ServerAsks, ServerSends, ServerCloses, Lost, Damage

LEMMA NextTInv == TInv /\ [Next]_vars => TInv'
<1> SUFFICES ASSUME TInv, [Next]_vars PROVE TInv'  OBVIOUS
<1>1. CASE Running
  BY <1>1, HeaderTInv, FlightTInv, AnswersTInv, FailuresTInv, FinishedTInv, ReceiveTInv
     DEF Running, Handshaking
<1>2. ASSUME NEW f \in Fds, Program(f) PROVE TInv'
  BY <1>2, NoSlotTInv, HelloTInv, HelloUnsentTInv, DataTInv, CloseTInv, CloseSocketTInv
     DEF Program
<1>3. ASSUME NEW f \in Fds, Environment(f) PROVE TInv'
  BY <1>3, EnvironmentKeeps, ProgramKept
<1>4. CASE UNCHANGED vars
  BY <1>4, ProgramKept DEF vars
<1> QED  BY <1>1, <1>2, <1>3, <1>4 DEF Next

LEMMA Invariance == Spec => []TInv
<1> QED  BY InitTInv, NextTInv, PTL DEF Spec

----------------------------------------------------------------------------
(***************************************************************************)
(* The conversation of a socket, in terms of the variables: what the       *)
(* program knows of the socket, and what then holds (TlsSessionProofs says *)
(* what the words mean).                                                   *)
(***************************************************************************)
\* What is so whatever the program knows of socket f.
Kinds(f) ==
  /\ IsSeq(toSrv[f]) /\ IsSeq(toCli[f]) /\ \A i \in 1 .. Len(toCli[f]) : IsRecord(toCli[f][i])
  /\ IsServer(srv[f]) /\ srv[f].rejected \in BOOLEAN /\ srv[f].sent \in Nat
  /\ srv[f].got \in Seq(Nat) /\ got[f] \in Seq(Nat) /\ put[f] \in Nat /\ damaged[f] \in BOOLEAN
Quiet(f) == got[f] = << >> /\ put[f] = 0 /\ srv[f].got = << >>
Always(f) ==
  /\ Kinds(f)
  /\ srv[f].rejected = TRUE => damaged[f] = TRUE
  /\ line[f] # "up" => toSrv[f] = << >> /\ toCli[f] = << >>
  /\ got[f] = Bytes(0, Len(got[f])) /\ srv[f].got = Bytes(0, Len(srv[f].got))

\* The invariant of one socket.
Sound(f) ==
  /\ Always(f)
  /\ st[f] \in {"closed", "tcp", "refused"} => Quiet(f)
  /\ st[f] = "closed" => line[f] = "none" /\ srv[f] = FreshServer /\ damaged[f] = FALSE
  /\ st[f] = "tcp" =>
       /\ call.op = "handshake" /\ call.fd = f /\ hs.client = draws /\ line[f] \in {"up", "down"}
       /\ Talking(hs, conns[call.slot], srv[f], toSrv[f], toCli[f], damaged[f], f, line[f] = "up")
  /\ st[f] = "refused" => Refused(srv[f], toSrv[f])
  /\ st[f] \in {"tls", "failed", "ended"} =>
       /\ srv[f].rejected = FALSE
       /\ line[f] = "up" => Outgoing(srv[f], toSrv[f], put[f], st[f] = "ended")
  /\ st[f] \in {"tls", "failed"} =>
       \A i \in Slots : InUse(i, f) =>
         Served1(conns[i], srv[f], toSrv[f], toCli[f], got[f], damaged[f], f,
                 line[f] = "up", st[f] = "tls")

\* The variables as functions on the sockets, and the call that reads.
Tables ==
  /\ toSrv = [f \in Fds |-> toSrv[f]] /\ toCli = [f \in Fds |-> toCli[f]]
  /\ line = [f \in Fds |-> line[f]] /\ srv = [f \in Fds |-> srv[f]]
  /\ got = [f \in Fds |-> got[f]] /\ put = [f \in Fds |-> put[f]]
  /\ damaged = [f \in Fds |-> damaged[f]]
  /\ draws \in 0 .. MaxConn
  /\ call.op = "recv" => InUse(call.slot, call.fd) /\ conns[call.slot].app_buf = << >>

Conversations == Tables /\ \A f \in Fds : Sound(f)

----------------------------------------------------------------------------
(***************************************************************************)
(* The conversations of other sockets.                                     *)
(***************************************************************************)
\* A step that leaves socket g, its session and its handshake alone.
Apart(g) ==
  /\ toSrv'[g] = toSrv[g] /\ toCli'[g] = toCli[g] /\ line'[g] = line[g] /\ srv'[g] = srv[g]
  /\ got'[g] = got[g] /\ put'[g] = put[g] /\ damaged'[g] = damaged[g] /\ st'[g] = st[g]
  /\ \A i \in Slots : InUse(i, g)' => InUse(i, g) /\ conns'[i] = conns[i]
  /\ st[g] = "tcp" => /\ call'.op = call.op /\ call'.fd = call.fd /\ call'.slot = call.slot
                      /\ hs' = hs /\ draws' = draws /\ conns'[call.slot] = conns[call.slot]

LEMMA ApartSound == ASSUME NEW g \in Fds, Sound(g), Apart(g) PROVE Sound(g)'
<1>1. Always(g)'
  BY DEF Sound, Always, Kinds, Apart
<1>2. /\ st[g] \in {"closed", "tcp", "refused"} => Quiet(g)'
      /\ st[g] = "closed" => line'[g] = "none" /\ srv'[g] = FreshServer /\ damaged'[g] = FALSE
  BY DEF Sound, Quiet, Apart
<1>3. st[g] = "tcp" =>
        /\ call'.op = "handshake" /\ call'.fd = g /\ hs'.client = draws'
        /\ line'[g] \in {"up", "down"}
        /\ Talking(hs', conns'[call'.slot], srv'[g], toSrv'[g], toCli'[g], damaged'[g], g,
                   line'[g] = "up")
  BY DEF Sound, Apart
<1>4. /\ st[g] = "refused" => Refused(srv'[g], toSrv'[g])
      /\ st[g] \in {"tls", "failed", "ended"} =>
           /\ srv'[g].rejected = FALSE
           /\ line'[g] = "up" => Outgoing(srv'[g], toSrv'[g], put'[g], st'[g] = "ended")
  BY DEF Sound, Apart
<1>5. st[g] \in {"tls", "failed"} =>
        \A i \in Slots : InUse(i, g)' =>
          Served1(conns'[i], srv'[g], toSrv'[g], toCli'[g], got'[g], damaged'[g], g,
                  line'[g] = "up", st'[g] = "tls")
  BY DEF Sound, Apart
<1>6. st'[g] = st[g]
  BY DEF Apart
<1> QED  BY <1>1, <1>2, <1>3, <1>4, <1>5, <1>6 DEF Sound

\* Of the sockets, only f is touched; of the slots, only one that is or was for f.
Touches(f) ==
  /\ toSrv' = [toSrv EXCEPT ![f] = toSrv'[f]] /\ toCli' = [toCli EXCEPT ![f] = toCli'[f]]
  /\ line' = [line EXCEPT ![f] = line'[f]] /\ srv' = [srv EXCEPT ![f] = srv'[f]]
  /\ got' = [got EXCEPT ![f] = got'[f]] /\ put' = [put EXCEPT ![f] = put'[f]]
  /\ damaged' = [damaged EXCEPT ![f] = damaged'[f]] /\ st' = [st EXCEPT ![f] = st'[f]]
  /\ \/ conns' = conns
     \/ \E i \in Slots : \E c :
          conns' = [conns EXCEPT ![i] = c] /\ (c.active = FALSE \/ c.sockfd = f)

\* The variables stay functions.
LEMMA Retabled ==
  ASSUME TInv, Tables, NEW f \in Fds, Touches(f), draws' \in 0 .. MaxConn,
         call'.op = "recv" => InUse(call.slot, call.fd)' /\ conns'[call'.slot].app_buf = << >>
  PROVE  Tables'
<1>1. /\ toSrv' = [g \in Fds |-> toSrv'[g]] /\ toCli' = [g \in Fds |-> toCli'[g]]
      /\ line' = [g \in Fds |-> line'[g]] /\ srv' = [g \in Fds |-> srv'[g]]
      /\ got' = [g \in Fds |-> got'[g]] /\ put' = [g \in Fds |-> put'[g]]
      /\ damaged' = [g \in Fds |-> damaged'[g]]
  BY DEF Tables, Touches
<1> QED  BY <1>1 DEF Tables

LEMMA OthersApart ==
  ASSUME TInv, Tables, NEW f \in Fds, Touches(f), NEW g \in Fds, g # f, st[g] # "tcp"
  PROVE  Apart(g)
<1>1. /\ toSrv'[g] = toSrv[g] /\ toCli'[g] = toCli[g] /\ line'[g] = line[g] /\ srv'[g] = srv[g]
      /\ got'[g] = got[g] /\ put'[g] = put[g] /\ damaged'[g] = damaged[g] /\ st'[g] = st[g]
  BY DEF Tables, Touches, TInv, Shapes
<1>2. ASSUME NEW i \in Slots, InUse(i, g)'
      PROVE  InUse(i, g) /\ conns'[i] = conns[i]
  <2>1. CASE conns' = conns
    BY <1>2, <2>1 DEF InUse
  <2>2. ASSUME NEW j \in Slots, NEW c, conns' = [conns EXCEPT ![j] = c],
               c.active = FALSE \/ c.sockfd = f
        PROVE  InUse(i, g) /\ conns'[i] = conns[i]
    <3>1. conns = [k \in Slots |-> conns[k]]
      BY DEF TInv, Shapes
    <3>2. i # j
      BY <1>2, <2>2, <3>1 DEF InUse
    <3>3. conns'[i] = conns[i]
      BY <2>2, <3>1, <3>2
    <3> QED  BY <1>2, <3>3 DEF InUse
  <2> QED  BY <2>1, <2>2 DEF Touches
<1> QED  BY <1>1, <1>2 DEF Apart

\* A step that touches a socket where no other is in a handshake.
LEMMA OneTouched ==
  ASSUME TInv, Conversations, NEW f \in Fds, Touches(f), \A g \in Fds : g # f => st[g] # "tcp",
         draws' \in 0 .. MaxConn,
         call'.op = "recv" => InUse(call.slot, call.fd)' /\ conns'[call'.slot].app_buf = << >>,
         Sound(f)'
  PROVE  Conversations'
<1>1. Tables'
  BY Retabled DEF Conversations
<1>2. ASSUME NEW g \in Fds, g # f PROVE Sound(g)'
  BY <1>2, OthersApart, ApartSound DEF Conversations
<1> QED  BY <1>1, <1>2 DEF Conversations

\* A step of a server or of the network, whatever the program does.
LEMMA OutsideTouched ==
  ASSUME TInv, Conversations, NEW f \in Fds, Touches(f), UNCHANGED program, Sound(f)'
  PROVE  Conversations'
<1>0. UNCHANGED <<conns, st, call, hs, draws, got, put>>
  BY DEF program
<1>1. Tables'
  <2>1. /\ draws' \in 0 .. MaxConn
        /\ call'.op = "recv" => InUse(call.slot, call.fd)' /\ conns'[call'.slot].app_buf = << >>
    BY <1>0, Zenon DEF Conversations, Tables, InUse
  <2> QED  BY <2>1, Retabled DEF Conversations
<1>2. ASSUME NEW g \in Fds, g # f PROVE Sound(g)'
  <2>1. /\ toSrv'[g] = toSrv[g] /\ toCli'[g] = toCli[g] /\ line'[g] = line[g] /\ srv'[g] = srv[g]
        /\ damaged'[g] = damaged[g]
    BY <1>2 DEF Conversations, Tables, Touches
  <2>2. Apart(g)
    BY <1>0, <2>1 DEF Apart, InUse
  <2> QED  BY <2>2, ApartSound DEF Conversations
<1> QED  BY <1>1, <1>2 DEF Conversations

\* Nothing but the part of the record that the call reads.
LEMMA NothingTouched ==
  ASSUME TInv, Conversations, UNCHANGED <<conns, st, hs, draws, got, put, net, srv, damaged>>,
         call'.op = call.op, call'.fd = call.fd, call'.slot = call.slot
  PROVE  Conversations'
<1>0. UNCHANGED <<toSrv, toCli, line>>
  BY DEF net
<1>1. Tables'
  BY <1>0 DEF Conversations, Tables, InUse
<1>2. ASSUME NEW g \in Fds PROVE Sound(g)'
  <2>1. Apart(g)
    BY <1>0 DEF Apart, InUse
  <2> QED  BY <2>1, ApartSound DEF Conversations
<1> QED  BY <1>1, <1>2 DEF Conversations

LEMMA HeaderSound == TInv /\ Conversations /\ Header => Conversations'
<1> SUFFICES ASSUME TInv, Conversations, Header PROVE Conversations'  OBVIOUS
<1>1. Busy /\ call' = [call EXCEPT !.hdr = TRUE]
      /\ UNCHANGED <<conns, st, hs, draws, got, put, net, srv, damaged>>
  BY DEF Header, Reading
<1>2. \/ call \in [op : {"handshake"}, fd : Fds, slot : Slots, hdr : BOOLEAN]
      \/ call \in [op : {"recv"}, fd : Fds, slot : Slots, hdr : BOOLEAN, len : RecvSizes]
  BY <1>1 DEF TInv, Shapes, CallShape, Busy, Idle
<1>3. call'.op = call.op /\ call'.fd = call.fd /\ call'.slot = call.slot
  BY <1>1, <1>2
<1> QED  BY <1>1, <1>3, NothingTouched

LEMMA InitSound == Init => Conversations
<1> SUFFICES ASSUME Init PROVE Conversations  OBVIOUS
<1>1. Tables
  BY TlsAssumption DEF Init, Tables, Idle
<1>2. ASSUME NEW f \in Fds PROVE Sound(f)
  <2>1. /\ st[f] = "closed" /\ line[f] = "none" /\ srv[f] = FreshServer /\ damaged[f] = FALSE
        /\ toSrv[f] = << >> /\ toCli[f] = << >> /\ got[f] = << >> /\ put[f] = 0
    BY DEF Init
  <2>2. /\ IsServer(FreshServer) /\ FreshServer.rejected = FALSE /\ FreshServer.sent = 0
        /\ FreshServer.got = << >>
    BY DEF FreshServer, IsServer
  <2>3. Bytes(0, 0) = << >> /\ Len(<< >>) = 0 /\ IsSeq(<< >>) /\ << >> \in Seq(Nat)
    BY BytesAre, SmallSeqs
  <2>4. Always(f)
    <3>1. Kinds(f)
      <4>1. IsSeq(toSrv[f]) /\ IsSeq(toCli[f]) /\ Len(toCli[f]) = 0
        BY <2>1, SmallSeqs, Zenon
      <4>2. \A i \in 1 .. Len(toCli[f]) : IsRecord(toCli[f][i])
        BY <4>1
      <4>3. /\ IsServer(srv[f]) /\ srv[f].rejected \in BOOLEAN /\ srv[f].sent \in Nat
            /\ srv[f].got \in Seq(Nat) /\ got[f] \in Seq(Nat) /\ put[f] \in Nat
            /\ damaged[f] \in BOOLEAN
        <5>1. 0 \in Nat /\ FALSE \in BOOLEAN
          OBVIOUS
        <5> QED  BY <2>1, <2>2, <2>3, <5>1, Zenon
      <4> QED  BY <4>1, <4>2, <4>3 DEF Kinds
    <3> QED  BY <2>1, <2>2, <2>3, <3>1 DEF Always
  <2> QED  BY <2>1, <2>2, <2>4 DEF Sound, Quiet
<1> QED  BY <1>1, <1>2 DEF Conversations
----------------------------------------------------------------------------
(***************************************************************************)
(* The steps of a handshake.                                               *)
(***************************************************************************)
\* Why a call on socket f may fail, and that every call that fails had a reason.
Reason(f) ==
  \/ line'[f] = "down" \/ damaged[f] = TRUE
  \/ srv[f].at = "closed" /\ srv[f].rejected = FALSE
  \/ srv[f].cert # 0 /\ ~ Certs[srv[f].cert].usable
Justified ==
  \A f \in Fds :
    st[f] # st'[f] /\ st'[f] \in {"refused", "failed"} =>
      (st[f] = "closed" /\ Unused = {}) \/ Reason(f)

\* The handshake that runs, for socket f with slot i.
HandshakeOf(f, i) ==
  /\ f \in Fds /\ i \in Slots /\ IsConn(conns[i]) /\ InUse(i, f) /\ st[f] = "tcp"
  /\ call.op = "handshake" /\ call.fd = f /\ call.slot = i
  /\ Always(f) /\ Quiet(f) /\ line[f] \in {"up", "down"}
  /\ hs.client = draws /\ draws \in 0 .. MaxConn
  /\ Talking(hs, conns[i], srv[f], toSrv[f], toCli[f], damaged[f], f, line[f] = "up")
  /\ IsHandshake(hs) /\ hs.client \in 1 .. MaxConn
  /\ \A g \in Fds : g # f => st[g] # "tcp"

LEMMA TheHandshake ==
  ASSUME TInv, Conversations, Busy, call.op = "handshake"
  PROVE  HandshakeOf(call.fd, call.slot)
<1>1. /\ call.fd \in Fds /\ call.slot \in Slots /\ IsConn(conns[call.slot])
      /\ st[call.fd] = "tcp" /\ InUse(call.slot, call.fd)
  BY HandshakeFacts
<1>2. Sound(call.fd) /\ draws \in 0 .. MaxConn
  BY <1>1 DEF Conversations, Tables
<1>3. /\ Always(call.fd) /\ Quiet(call.fd) /\ hs.client = draws /\ line[call.fd] \in {"up", "down"}
      /\ Talking(hs, conns[call.slot], srv[call.fd], toSrv[call.fd], toCli[call.fd],
                 damaged[call.fd], call.fd, line[call.fd] = "up")
  BY <1>1, <1>2 DEF Sound
<1>4. IsHandshake(hs) /\ hs.client \in 1 .. MaxConn
  BY <1>3 DEF Talking
<1>5. ASSUME NEW g \in Fds, g # call.fd PROVE st[g] # "tcp"
  BY <1>5 DEF Conversations, Sound
<1> QED  BY <1>1, <1>2, <1>3, <1>4, <1>5 DEF HandshakeOf

\* What the handshake knows of the queues.
LEMMA QueuesAre ==
  ASSUME NEW f, Always(f)
  PROVE  /\ IsSeq(toSrv[f]) /\ IsSeq(toCli[f])
         /\ \A i \in 1 .. Len(toCli[f]) : IsRecord(toCli[f][i])
         /\ line[f] # "up" => toSrv[f] = << >> /\ toCli[f] = << >>
         /\ IsServer(srv[f]) /\ srv[f].rejected \in BOOLEAN /\ srv[f].sent \in Nat
         /\ srv[f].got \in Seq(Nat) /\ got[f] \in Seq(Nat) /\ put[f] \in Nat
         /\ damaged[f] \in BOOLEAN
         /\ srv[f].rejected = TRUE => damaged[f] = TRUE
BY DEF Always, Kinds

\* The queues of socket f after a step are still sequences of records.
Queued(f) ==
  /\ IsSeq(toSrv'[f]) /\ IsSeq(toCli'[f]) /\ \A i \in 1 .. Len(toCli'[f]) : IsRecord(toCli'[f][i])
  /\ line'[f] # "up" => toSrv'[f] = << >> /\ toCli'[f] = << >>

LEMMA TailQueued ==
  ASSUME NEW q, IsSeq(q), q # << >>, \A i \in 1 .. Len(q) : IsRecord(q[i])
  PROVE  IsSeq(Tail(q)) /\ \A i \in 1 .. Len(Tail(q)) : IsRecord(Tail(q)[i])
<1>1. /\ IsSeq(Tail(q)) /\ Len(q) \in Nat /\ Len(q) >= 1 /\ Len(Tail(q)) = Len(q) - 1
      /\ \A i \in 1 .. Len(q) - 1 : Tail(q)[i] = q[i + 1]
  BY TailIs
<1>2. ASSUME NEW i \in 1 .. Len(Tail(q)) PROVE IsRecord(Tail(q)[i])
  <2>1. i \in 1 .. Len(q) - 1 /\ i + 1 \in 1 .. Len(q)
    BY <1>1
  <2> QED  BY <1>1, <2>1, Zenon
<1> QED  BY <1>1, <1>2

\* The handshake goes on with h and c.
LEMMA GoesOn ==
  ASSUME TInv, Conversations, NEW f, NEW i, HandshakeOf(f, i),
         line[f] = "up", NEW h, NEW c, hs' = h, h.client = hs.client, IsHandshake(h),
         Same(conns[i], c), conns' = [conns EXCEPT ![i] = c],
         UNCHANGED <<st, draws, got, put, srv, damaged, line>>,
         call'.op = call.op, call'.fd = f, call'.slot = i,
         toSrv' = [toSrv EXCEPT ![f] = toSrv'[f]],
         toCli' = [toCli EXCEPT ![f] = toCli'[f]], Queued(f),
         Talking(h, c, srv[f], toSrv'[f], toCli'[f], damaged[f], f, TRUE)
  PROVE  Conversations' /\ Justified
<1>1. /\ f \in Fds /\ i \in Slots /\ st[f] = "tcp" /\ Always(f) /\ Quiet(f)
      /\ \A g \in Fds : g # f => st[g] # "tcp"
      /\ call.op = "handshake" /\ c.sockfd = f /\ hs.client = draws /\ draws \in 0 .. MaxConn
      /\ call'.fd = f /\ call'.slot = i
  BY DEF HandshakeOf, Same, InUse
<1>2. conns' = [conns EXCEPT ![i] = c] /\ conns'[i] = c
  BY <1>1 DEF TInv, Shapes
<1>3. Touches(f)
  <2>1. /\ line' = [line EXCEPT ![f] = line'[f]] /\ srv' = [srv EXCEPT ![f] = srv'[f]]
        /\ got' = [got EXCEPT ![f] = got'[f]] /\ put' = [put EXCEPT ![f] = put'[f]]
        /\ damaged' = [damaged EXCEPT ![f] = damaged'[f]] /\ st' = [st EXCEPT ![f] = st'[f]]
    BY <1>1 DEF Conversations, Tables, TInv, Shapes
  <2> QED  BY <1>1, <1>2, <2>1, ZenonT(45) DEF Touches
<1>4. Always(f)'
  BY <1>1 DEF Always, Kinds, Queued
<1>5. Sound(f)'
  <2>1. Quiet(f)' /\ st'[f] = "tcp" /\ line'[f] = "up"
    BY <1>1 DEF Quiet
  <2>2. Talking(hs', conns'[call'.slot], srv'[f], toSrv'[f], toCli'[f], damaged'[f], f,
                line'[f] = "up")
    <3>1. hs' = h /\ conns'[call'.slot] = c /\ srv'[f] = srv[f] /\ damaged'[f] = damaged[f]
          /\ (line'[f] = "up") = TRUE
      BY <1>1, <1>2, <2>1
    <3> QED  BY <3>1
  <2>3. call'.op = "handshake" /\ hs'.client = draws'
    BY <1>1
  <2>4. call'.fd = f /\ line'[f] \in {"up", "down"}
    BY <1>1, <2>1
  <2> QED  BY ONLY <1>4, <2>1, <2>2, <2>3, <2>4 DEF Sound
<1>6. Conversations'
  <2>1. draws' \in 0 .. MaxConn /\ call'.op # "recv"
    BY <1>1
  <2>2. TInv /\ Conversations
    OBVIOUS
  <2> QED  BY ONLY <1>1, <1>3, <1>5, <2>1, <2>2, OneTouched
<1>7. Justified
  BY DEF Justified
<1> QED  BY <1>6, <1>7

\* The fail label.
LEMMA GivesUp ==
  ASSUME TInv, Conversations, NEW f, NEW i, HandshakeOf(f, i), Fail,
         UNCHANGED <<toSrv, line, srv, damaged>>,
         toCli' = [toCli EXCEPT ![f] = toCli'[f]], Queued(f),
         Refused(srv[f], toSrv[f]), Reason(f)
  PROVE  Conversations' /\ Justified
<1> DEFINE c == Deactivated(conns[i])
<1>1. /\ f \in Fds /\ i \in Slots /\ st[f] = "tcp" /\ Always(f) /\ Quiet(f) /\ IsConn(conns[i])
      /\ \A g \in Fds : g # f => st[g] # "tcp"
      /\ draws \in 0 .. MaxConn
  BY DEF HandshakeOf
<1>2. c.active = FALSE
  BY <1>1 DEF Deactivated, IsConn
<1> HIDE DEF c
<1>3. /\ conns' = [conns EXCEPT ![i] = c] /\ st' = [st EXCEPT ![f] = "refused"] /\ call' = Idle
      /\ UNCHANGED <<draws, got, put>>
  BY DEF Fail, Slot, Fd, HandshakeOf, c
<1>4. st'[f] = "refused" /\ \A g \in Fds : g # f => st'[g] = st[g]
  BY <1>1, <1>3 DEF TInv, Shapes
<1>5. Touches(f)
  <2>1. /\ line' = [line EXCEPT ![f] = line'[f]] /\ srv' = [srv EXCEPT ![f] = srv'[f]]
        /\ got' = [got EXCEPT ![f] = got'[f]] /\ put' = [put EXCEPT ![f] = put'[f]]
        /\ damaged' = [damaged EXCEPT ![f] = damaged'[f]]
        /\ toSrv' = [toSrv EXCEPT ![f] = toSrv'[f]]
    BY <1>1, <1>3 DEF Conversations, Tables
  <2> QED  BY <1>1, <1>2, <1>3, <1>4, <2>1 DEF Touches
<1>6. Always(f)'
  <2>1. Queued(f) /\ UNCHANGED <<toSrv, line, srv, damaged, got, put>>
    BY <1>3
  <2> QED  BY ONLY <1>1, <2>1 DEF Always, Kinds, Queued
<1>7. Sound(f)'
  <2>1. Quiet(f)' /\ Refused(srv'[f], toSrv'[f])
    <3>1. Refused(srv[f], toSrv[f]) /\ UNCHANGED <<toSrv, srv, got, put>>
      BY <1>3
    <3> QED  BY ONLY <1>1, <3>1 DEF Quiet
  <2> QED  BY ONLY <1>4, <1>6, <2>1 DEF Sound
<1>8. Conversations'
  <2>1. draws' \in 0 .. MaxConn /\ call'.op # "recv"
    BY <1>1, <1>3 DEF Idle
  <2>2. TInv /\ Conversations
    OBVIOUS
  <2> QED  BY ONLY <1>1, <1>5, <1>7, <2>1, <2>2, OneTouched
<1>9. Justified
  BY <1>4 DEF Justified
<1> QED  BY <1>8, <1>9

\* A record is read from what comes in.
LEMMA OneRead ==
  ASSUME Conversations, NEW f \in Fds, toCli[f] # << >>, toCli' = [toCli EXCEPT ![f] = Tail(@)],
         UNCHANGED <<toSrv, line>>
  PROVE  /\ line[f] = "up" /\ IsSeq(toCli[f]) /\ IsRecord(Head(toCli[f])) /\ IsSeq(toSrv[f])
         /\ Head(toCli[f]) = toCli[f][1] /\ 1 \in 1 .. Len(toCli[f])
         /\ toCli'[f] = Tail(toCli[f]) /\ toCli' = [toCli EXCEPT ![f] = toCli'[f]]
         /\ toSrv'[f] = toSrv[f] /\ toSrv' = [toSrv EXCEPT ![f] = toSrv'[f]] /\ Queued(f)
<1>1. Always(f) /\ toCli = [g \in Fds |-> toCli[g]] /\ toSrv = [g \in Fds |-> toSrv[g]]
  BY DEF Conversations, Sound, Tables
<1>2. /\ IsSeq(toSrv[f]) /\ IsSeq(toCli[f]) /\ \A i \in 1 .. Len(toCli[f]) : IsRecord(toCli[f][i])
      /\ line[f] = "up"
  BY <1>1, QueuesAre
<1>3. 1 \in 1 .. Len(toCli[f]) /\ Head(toCli[f]) = toCli[f][1]
  BY <1>2, NoneIs
<1>4. toCli'[f] = Tail(toCli[f]) /\ toCli' = [toCli EXCEPT ![f] = toCli'[f]]
  BY <1>1
<1>5. toSrv'[f] = toSrv[f] /\ toSrv' = [toSrv EXCEPT ![f] = toSrv'[f]] /\ line'[f] = line[f]
  BY <1>1
<1>6. IsSeq(Tail(toCli[f])) /\ \A i \in 1 .. Len(Tail(toCli[f])) : IsRecord(Tail(toCli[f])[i])
  BY <1>2, TailQueued
<1>7. Queued(f)
  BY ONLY <1>2, <1>4, <1>5, <1>6 DEF Queued
<1> QED  BY <1>2, <1>3, <1>4, <1>5, <1>7

\* The peer that has closed, or refused, is a reason to fail.
LEMMA DeadReason ==
  ASSUME NEW f, Always(f), srv[f].at = "closed" PROVE Reason(f) /\ \A up : Refused(srv[f], up)
<1>1. srv[f].rejected \in BOOLEAN /\ (srv[f].rejected = TRUE => damaged[f] = TRUE)
  BY QueuesAre
<1> QED  BY <1>1 DEF Reason, Refused

\* The records of the flight (1369-1450).
LEMMA FlightSound ==
  ASSUME TInv, Conversations, FlightRecord PROVE Conversations' /\ Justified
<1>1. Busy /\ call.op = "handshake" /\ hs.at = "flight"
  BY DEF FlightRecord, RecordRead
<1>2. PICK f, i : f = call.fd /\ i = call.slot /\ HandshakeOf(f, i)
  BY <1>1, TheHandshake
<1>3. /\ f \in Fds /\ i \in Slots /\ IsConn(conns[i]) /\ st[f] = "tcp" /\ call.op = "handshake"
      /\ Always(f) /\ IsHandshake(hs) /\ hs.client \in 1 .. MaxConn
      /\ Talking(hs, conns[i], srv[f], toSrv[f], toCli[f], damaged[f], f, line[f] = "up")
      /\ call \in [op : {"handshake"}, fd : Fds, slot : Slots, hdr : BOOLEAN]
  BY <1>1, <1>2 DEF HandshakeOf, TInv, Shapes, CallShape, Idle
<1>4. toCli[f] # << >> /\ toCli' = [toCli EXCEPT ![f] = Tail(@)]
      /\ UNCHANGED <<toSrv, line, srv, damaged>>
  BY <1>2 DEF FlightRecord, RecordRead, Fd
<1>5. /\ line[f] = "up" /\ IsSeq(toCli[f]) /\ IsRecord(Head(toCli[f])) /\ IsSeq(toSrv[f])
      /\ Head(toCli[f]) = toCli[f][1] /\ 1 \in 1 .. Len(toCli[f])
      /\ toCli'[f] = Tail(toCli[f]) /\ toCli' = [toCli EXCEPT ![f] = toCli'[f]]
      /\ toSrv'[f] = toSrv[f] /\ toSrv' = [toSrv EXCEPT ![f] = toSrv'[f]] /\ Queued(f)
  BY <1>3, <1>4, OneRead
<1> DEFINE r == Head(toCli[f])
<1>6. PICK h : /\ h = IF r.ct = Handshake THEN AllNoted(hs, r.data) ELSE hs
               /\ \/ /\ r.ct # Alert /\ ~ h.got_done /\ hs' = h
                     /\ call' = [call EXCEPT !.hdr = FALSE]
                     /\ UNCHANGED <<conns, st, draws, got, put>>
                  \/ /\ r.ct # Alert /\ h.got_done
                     /\ h.got_hello /\ h.got_cert /\ KeyLen[h.cert] # 0
                     /\ hs' = [h EXCEPT !.at = IF h.cert_requested THEN "cert" ELSE "key"]
                     /\ conns' = [conns EXCEPT ![i].peer_cert = h.cert,
                                               ![i].peer_key_bytes = KeyLen[h.cert]]
                     /\ call' = [call EXCEPT !.hdr = FALSE]
                     /\ UNCHANGED <<st, draws, got, put>>
                  \/ /\ r.ct = Alert
                          \/ (h.got_done /\ ~ (h.got_hello /\ h.got_cert /\ KeyLen[h.cert] # 0))
                     /\ Fail
  <2>1. Incoming = r /\ Slot = i
    BY <1>2 DEF Incoming, Fd, Slot
  <2>2. \E h : /\ h = IF Incoming.ct = Handshake THEN AllNoted(hs, Incoming.data) ELSE hs
          /\ \/ /\ Incoming.ct # Alert /\ ~ h.got_done /\ hs' = h
                /\ call' = [call EXCEPT !.hdr = FALSE]
                /\ UNCHANGED <<conns, st, draws, got, put>>
             \/ /\ Incoming.ct # Alert /\ h.got_done
                /\ h.got_hello /\ h.got_cert /\ KeyLen[h.cert] # 0
                /\ hs' = [h EXCEPT !.at = IF h.cert_requested THEN "cert" ELSE "key"]
                /\ conns' = [conns EXCEPT ![Slot].peer_cert = h.cert,
                                          ![Slot].peer_key_bytes = KeyLen[h.cert]]
                /\ call' = [call EXCEPT !.hdr = FALSE]
                /\ UNCHANGED <<st, draws, got, put>>
             \/ /\ Incoming.ct = Alert
                     \/ (h.got_done /\ ~ (h.got_hello /\ h.got_cert /\ KeyLen[h.cert] # 0))
                /\ Fail
    <3>1. FlightRecord
      OBVIOUS
    <3> QED  BY ONLY <3>1, Zenon DEF FlightRecord
  <2> HIDE DEF r
  <2> QED  BY ONLY <2>1, <2>2
<1> HIDE DEF r
<1>7. (call'.op = call.op /\ call'.fd = f /\ call'.slot = i) \/ Fail
  BY <1>2, <1>3, <1>6
<1>8. CASE Dead(srv[f], toCli[f])
  <2>1. r.ct = Alert /\ srv[f].at = "closed"
    BY <1>5, <1>8 DEF Dead, r
  <2>2. Fail /\ Reason(f) /\ Refused(srv[f], toSrv[f])
    BY <1>3, <1>6, <2>1, DeadReason
  <2> QED  BY <1>2, <1>4, <1>5, <2>2, GivesUp
<1>9. CASE Flying(hs, srv[f], toSrv[f], toCli[f], damaged[f], f)
  <2> DEFINE c == conns[i]
             g == AllNoted(hs, r.data)
             b == [c EXCEPT !.peer_cert = g.cert, !.peer_key_bytes = KeyLen[g.cert]]
             k == [g EXCEPT !.at = IF g.cert_requested THEN "cert" ELSE "key"]
  <2>1. /\ c.seq_recv = 0 /\ c.app_buf = << >> /\ c.cipher_active = FALSE /\ c.seq_send = 0
        /\ damaged[f] \in BOOLEAN
    BY <1>1, <1>3, <1>5, QueuesAre DEF Talking
  <2>2. /\ r.ct = Handshake /\ SameCall(hs, g) /\ g.got_done \in BOOLEAN
        /\ toSrv[f] = << >> /\ g.cert_requested \in BOOLEAN
        /\ g.got_done = FALSE => Flying(g, srv[f], toSrv[f], Tail(toCli[f]), damaged[f], f)
        /\ g.got_done = TRUE => g.got_hello = TRUE /\ g.got_cert = TRUE
        /\ g.got_done = TRUE /\ KeyLen[g.cert] # 0 =>
             Answering(k, b, srv[f], toSrv[f], Tail(toCli[f]), damaged[f], f)
        /\ g.got_done = TRUE /\ KeyLen[g.cert] = 0 =>
             damaged[f] = TRUE \/ (srv[f].cert # 0 /\ ~ Certs[srv[f].cert].usable)
    <3>1. /\ IsHandshake(hs) /\ hs.client \in 1 .. MaxConn /\ IsConn(c)
          /\ c.cipher_active = FALSE /\ c.seq_send = 0 /\ damaged[f] \in BOOLEAN
          /\ f \in Fds /\ IsSeq(toCli[f]) /\ toCli[f] # << >>
          /\ Flying(hs, srv[f], toSrv[f], toCli[f], damaged[f], f)
          /\ g = AllNoted(hs, Head(toCli[f]).data) /\ r = Head(toCli[f])
      BY <1>3, <1>4, <1>5, <1>9, <2>1 DEF r
    <3> HIDE DEF c, g
    <3>2. Noticed(hs, c, srv[f], toSrv[f], toCli[f], damaged[f], f, g)
      BY ONLY <3>1, FlyingHeard
    <3> QED  BY ONLY <3>1, <3>2, Zenon DEF b, k, Noticed
  <2>3. h = g /\ r.ct # Alert /\ IsHandshake(g) /\ g.client = hs.client /\ g.at = "flight"
    BY <1>1, <1>6, <2>2, CodesDiffer DEF SameCall
  <2>4. CASE g.got_done = FALSE
    <3>1. /\ hs' = g /\ UNCHANGED <<conns, st, draws, got, put>>
          /\ call'.op = call.op /\ call'.fd = f /\ call'.slot = i
      BY <1>2, <1>3, <1>6, <2>3, <2>4
    <3>2. Talking(g, c, srv[f], toSrv'[f], toCli'[f], damaged[f], f, TRUE)
      BY <1>3, <1>5, <2>1, <2>2, <2>3, <2>4 DEF Talking
    <3>3. Same(conns[i], c) /\ conns' = [conns EXCEPT ![i] = c]
      BY <1>3, <3>1, RecordsKeep DEF TInv, Shapes
    <3> QED  BY <1>2, <1>4, <1>5, <2>3, <3>1, <3>2, <3>3, GoesOn
  <2>5. CASE g.got_done = TRUE /\ KeyLen[g.cert] # 0
    <3>1. /\ hs' = k /\ UNCHANGED <<st, draws, got, put>>
          /\ call'.op = call.op /\ call'.fd = f /\ call'.slot = i
          /\ conns' = [conns EXCEPT ![i].peer_cert = g.cert, ![i].peer_key_bytes = KeyLen[g.cert]]
      BY <1>2, <1>3, <1>6, <2>2, <2>3, <2>5
    <3>2. conns' = [conns EXCEPT ![i] = b]
      BY <1>3, <3>1 DEF TInv, Shapes
    <3>3. Same(conns[i], b) /\ b.seq_recv = 0 /\ b.app_buf = << >>
      BY <1>3, <2>1, RecordsKeep DEF IsConn
    <3>4. IsHandshake(k) /\ k.client = hs.client /\ k.at # "flight"
      BY <2>3 DEF IsHandshake
    <3>5. Answering(k, b, srv[f], toSrv'[f], toCli'[f], damaged[f], f)
      BY <1>5, <2>2, <2>5
    <3> HIDE DEF k, b
    <3>6. Talking(k, b, srv[f], toSrv'[f], toCli'[f], damaged[f], f, TRUE)
      BY <1>3, <3>3, <3>4, <3>5 DEF Talking
    <3> QED  BY <1>2, <1>4, <1>5, <3>1, <3>2, <3>3, <3>4, <3>6, GoesOn
  <2>6. CASE g.got_done = TRUE /\ KeyLen[g.cert] = 0
    <3>1. Fail
      BY <1>6, <2>2, <2>3, <2>6
    <3>2. Reason(f) /\ Refused(srv[f], toSrv[f])
      BY <2>2, <2>6 DEF Reason, Refused
    <3> QED  BY <1>2, <1>4, <1>5, <3>1, <3>2, GivesUp
  <2> QED  BY <2>2, <2>4, <2>5, <2>6
<1> QED
  <2>1. ~ Asking(hs, srv[f], toSrv[f], toCli[f])
    BY <1>4 DEF Asking
  <2>2. Talking(hs, conns[i], srv[f], toSrv[f], toCli[f], damaged[f], f, TRUE)
    BY <1>3, <1>5
  <2>3. \/ Flying(hs, srv[f], toSrv[f], toCli[f], damaged[f], f)
        \/ Dead(srv[f], toCli[f])
    BY <1>1, <2>1, <2>2, TalkingAt
  <2> QED  BY <1>8, <1>9, <2>3

\* A record is written by the program.
LEMMA OneWritten ==
  ASSUME Conversations, NEW f \in Fds, line[f] = "up", NEW r,
         toSrv' = [toSrv EXCEPT ![f] = Append(@, r)], UNCHANGED <<toCli, line>>
  PROVE  /\ toSrv'[f] = Append(toSrv[f], r) /\ toSrv' = [toSrv EXCEPT ![f] = toSrv'[f]]
         /\ toCli'[f] = toCli[f] /\ toCli' = [toCli EXCEPT ![f] = toCli'[f]] /\ Queued(f)
<1>1. Always(f) /\ toCli = [g \in Fds |-> toCli[g]] /\ toSrv = [g \in Fds |-> toSrv[g]]
  BY DEF Conversations, Sound, Tables
<1>2. /\ IsSeq(toSrv[f]) /\ IsSeq(toCli[f]) /\ \A i \in 1 .. Len(toCli[f]) : IsRecord(toCli[f][i])
  BY <1>1, QueuesAre
<1>3. toSrv'[f] = Append(toSrv[f], r) /\ toSrv' = [toSrv EXCEPT ![f] = toSrv'[f]]
  BY <1>1
<1>4. toCli'[f] = toCli[f] /\ toCli' = [toCli EXCEPT ![f] = toCli'[f]] /\ line'[f] = "up"
  BY <1>1
<1>5. IsSeq(Append(toSrv[f], r))
  BY <1>2, AppendIs
<1>6. Queued(f)
  BY ONLY <1>2, <1>3, <1>4, <1>5 DEF Queued
<1> QED  BY <1>3, <1>4, <1>6

\* An answer is sent.
LEMMA AnswerSound ==
  ASSUME TInv, Conversations, NEW f, NEW i, HandshakeOf(f, i), line[f] = "up",
         hs.at \in {"cert", "key", "ccs", "fin"}, NEW h, NEW c, NEW r, hs' = h, IsHandshake(h),
         h.client = hs.client, h.at # "flight", Same(conns[i], c),
         c.seq_recv = conns[i].seq_recv, c.app_buf = conns[i].app_buf,
         conns' = [conns EXCEPT ![i] = c],
         UNCHANGED <<st, call, draws, got, put, srv, damaged, toCli, line>>,
         toSrv' = [toSrv EXCEPT ![f] = Append(@, r)],
         Answering(hs, conns[i], srv[f], toSrv[f], toCli[f], damaged[f], f) =>
           Answering(h, c, srv[f], Append(toSrv[f], r), toCli[f], damaged[f], f)
  PROVE  Conversations' /\ Justified
<1>1. /\ f \in Fds /\ call.op = "handshake" /\ call.fd = f /\ call.slot = i
      /\ hs.client \in 1 .. MaxConn
      /\ Talking(hs, conns[i], srv[f], toSrv[f], toCli[f], damaged[f], f, TRUE)
  BY DEF HandshakeOf
<1>2. /\ toSrv'[f] = Append(toSrv[f], r) /\ toSrv' = [toSrv EXCEPT ![f] = toSrv'[f]]
      /\ toCli'[f] = toCli[f] /\ toCli' = [toCli EXCEPT ![f] = toCli'[f]] /\ Queued(f)
  BY <1>1, OneWritten
<1>3. \/ Answering(hs, conns[i], srv[f], toSrv[f], toCli[f], damaged[f], f)
      \/ Dead(srv[f], toCli[f])
  BY <1>1, TalkingAt
<1>4. conns[i].seq_recv = 0 /\ conns[i].app_buf = << >>
  BY <1>1 DEF Talking
<1>5. Talking(h, c, srv[f], toSrv'[f], toCli'[f], damaged[f], f, TRUE)
  <2>1. \/ Answering(h, c, srv[f], toSrv'[f], toCli'[f], damaged[f], f)
        \/ Dead(srv[f], toCli'[f])
    BY <1>2, <1>3
  <2>2. IsHandshake(h) /\ h.client \in 1 .. MaxConn /\ c.seq_recv = 0 /\ c.app_buf = << >>
          /\ h.at # "flight"
    BY <1>1, <1>4
  <2> QED  BY ONLY <2>1, <2>2 DEF Talking
<1>6. call'.op = call.op /\ call'.fd = f /\ call'.slot = i
  BY <1>1, SMTT(40)
<1> QED  BY <1>2, <1>5, <1>6, GoesOn, ZenonT(45)

\* What sending does to a connection.
LEMMA SentIs ==
  ASSUME NEW c, IsConn(c)
  PROVE  /\ Same(c, Sent(c)) /\ Sent(c).seq_recv = c.seq_recv /\ Sent(c).app_buf = c.app_buf
         /\ \A m : /\ Same(c, WithKeys(c, m)) /\ WithKeys(c, m).seq_recv = c.seq_recv
                   /\ WithKeys(c, m).app_buf = c.app_buf
BY RecordsKeep DEF Sent, WithKeys, IsConn

\* An empty certificate (1475-1486).
LEMMA CertSound ==
  ASSUME TInv, Conversations, EmptyCertificate PROVE Conversations' /\ Justified
<1>1. Busy /\ call.op = "handshake" /\ hs.at = "cert"
  BY DEF EmptyCertificate, Answer
<1>2. PICK f, i : f = call.fd /\ i = call.slot /\ HandshakeOf(f, i)
  BY <1>1, TheHandshake
<1>3. /\ f \in Fds /\ i \in Slots /\ IsConn(conns[i]) /\ IsHandshake(hs)
      /\ hs.client \in 1 .. MaxConn
      /\ Always(f)
  BY <1>2 DEF HandshakeOf
<1> DEFINE c == Sent(conns[i])
           h == Hashed(hs, "key", NoCert)
           r == tls_write_record(conns[i], Handshake, <<NoCert>>)
<1>4. /\ hs' = h /\ conns' = [conns EXCEPT ![i] = c] /\ line[f] = "up"
      /\ toSrv' = [toSrv EXCEPT ![f] = Append(@, r)]
      /\ UNCHANGED <<st, call, draws, got, put, srv, damaged, toCli, line>>
  BY <1>2 DEF EmptyCertificate, Answer, Send, Hashed, NoCert, Conn, Slot, Fd
<1>5. IsHandshake(h) /\ h.client = hs.client /\ h.at # "flight"
  BY <1>3, HashedIs
<1>6. Same(conns[i], c) /\ c.seq_recv = conns[i].seq_recv /\ c.app_buf = conns[i].app_buf
  BY <1>3, SentIs
<1>7. Answering(hs, conns[i], srv[f], toSrv[f], toCli[f], damaged[f], f) =>
        Answering(h, c, srv[f], Append(toSrv[f], r), toCli[f], damaged[f], f)
  <2>1. IsSeq(toSrv[f]) /\ IsHandshake(hs) /\ hs.client \in 1 .. MaxConn /\ hs.at = "cert"
          /\ f \in Fds
    BY <1>1, <1>3, QueuesAre
  <2> QED  BY ONLY <2>1, CertSaid
<1> HIDE DEF c, h, r
<1> QED  BY <1>1, <1>2, <1>4, <1>5, <1>6, <1>7, AnswerSound

\* ClientKeyExchange, with the keys derived from its secret (1488-1564).
LEMMA KeySound ==
  ASSUME TInv, Conversations, ClientKeyExchange PROVE Conversations' /\ Justified
<1>1. Busy /\ call.op = "handshake" /\ hs.at = "key" /\ Encrypted[hs.cert][draws] # << >>
  BY DEF ClientKeyExchange, Answer
<1>2. PICK f, i : f = call.fd /\ i = call.slot /\ HandshakeOf(f, i)
  BY <1>1, TheHandshake
<1>3. /\ f \in Fds /\ i \in Slots /\ IsConn(conns[i]) /\ IsHandshake(hs)
      /\ hs.client \in 1 .. MaxConn
      /\ Always(f) /\ hs.client = draws
  BY <1>2 DEF HandshakeOf
<1> DEFINE m == Msg(ClientKeyEx, Encrypted[hs.cert][hs.client])
           master == Master(PreMaster[hs.client], hs.client, hs.server)
           b == WithKeys(conns[i], master)
           c == Sent(b)
           g == [hs EXCEPT !.master = master]
           h == Hashed(g, "ccs", m)
           r == tls_write_record(b, Handshake, <<m>>)
<1>4. /\ hs' = h /\ conns' = [conns EXCEPT ![i] = c] /\ line[f] = "up"
      /\ toSrv' = [toSrv EXCEPT ![f] = Append(@, r)]
      /\ UNCHANGED <<st, call, draws, got, put, srv, damaged, toCli, line>>
  <2>1. /\ hs' = [[hs EXCEPT !.at = "ccs", !.master = master] EXCEPT
                    !.hash = sha256_update[@][MsgBytes(m)]]
        /\ conns' = [conns EXCEPT ![i] = c] /\ line[f] = "up"
        /\ toSrv' = [toSrv EXCEPT ![f] = Append(@, r)]
        /\ UNCHANGED <<st, call, draws, got, put, srv, damaged, toCli, line>>
    BY <1>2, <1>3 DEF ClientKeyExchange, Answer, Send, Conn, Slot, Fd
  <2>2. [hs EXCEPT !.at = "ccs", !.master = master]
          = [[hs EXCEPT !.master = master] EXCEPT !.at = "ccs"]
    BY <1>3 DEF IsHandshake
  <2> HIDE DEF m, master, c, r
  <2> QED  BY <2>1, <2>2, Zenon DEF Hashed
<1>5. IsHandshake(h) /\ h.client = hs.client /\ h.at # "flight"
  <2>1. IsHandshake(g) /\ g.client = hs.client
    BY <1>3 DEF IsHandshake
  <2> HIDE DEF m, g
  <2> QED  BY <2>1, HashedIs
<1>6. Same(conns[i], c) /\ c.seq_recv = conns[i].seq_recv /\ c.app_buf = conns[i].app_buf
  <2>1. Same(conns[i], b) /\ b.seq_recv = conns[i].seq_recv /\ b.app_buf = conns[i].app_buf
          /\ IsConn(b)
    BY <1>3, SentIs DEF Same
  <2>2. Same(b, c) /\ c.seq_recv = b.seq_recv /\ c.app_buf = b.app_buf
    BY <2>1, SentIs
  <2> QED  BY <2>1, <2>2 DEF Same
<1>7. Answering(hs, conns[i], srv[f], toSrv[f], toCli[f], damaged[f], f) =>
        Answering(h, c, srv[f], Append(toSrv[f], r), toCli[f], damaged[f], f)
  <2>1. /\ IsSeq(toSrv[f]) /\ IsHandshake(hs) /\ hs.client \in 1 .. MaxConn /\ hs.at = "key"
        /\ f \in Fds
        /\ IsConn(conns[i]) /\ Encrypted[hs.cert][hs.client] # << >>
    BY <1>1, <1>3, QueuesAre
  <2> QED  BY ONLY <2>1, KeySaid
<1> HIDE DEF c, h, r
<1> QED  BY <1>1, <1>2, <1>4, <1>5, <1>6, <1>7, AnswerSound

\* ChangeCipherSpec (1567-1576).
LEMMA CipherSound ==
  ASSUME TInv, Conversations, SendChangeCipher PROVE Conversations' /\ Justified
<1>0. hs.at = "ccs"
  BY DEF SendChangeCipher
<1>1. Busy /\ call.op = "handshake"
  BY <1>0 DEF TInv, Handshakes, Busy
<1>2. PICK f, i : f = call.fd /\ i = call.slot /\ HandshakeOf(f, i)
  BY <1>1, TheHandshake
<1>3. /\ f \in Fds /\ i \in Slots /\ IsConn(conns[i]) /\ IsHandshake(hs)
      /\ hs.client \in 1 .. MaxConn
      /\ Always(f)
  BY <1>2 DEF HandshakeOf
<1> DEFINE c == [conns[i] EXCEPT !.cipher_active = TRUE, !.seq_send = 0]
           h == [hs EXCEPT !.at = "fin"]
           r == tls_write_record(conns[i], ChangeCipher, <<1>>)
<1>4. /\ hs' = h /\ conns' = [conns EXCEPT ![i] = c] /\ line[f] = "up"
      /\ toSrv' = [toSrv EXCEPT ![f] = Append(@, r)]
      /\ UNCHANGED <<st, call, draws, got, put, srv, damaged, toCli, line>>
  <2>1. /\ hs' = h /\ line[f] = "up" /\ toSrv' = [toSrv EXCEPT ![f] = Append(@, r)]
        /\ UNCHANGED <<st, call, draws, got, put, srv, damaged, toCli, line>>
    BY <1>2 DEF SendChangeCipher, Conn, Slot, Fd
  <2>2. conns' = [conns EXCEPT ![i].cipher_active = TRUE, ![i].seq_send = 0]
    BY <1>2 DEF SendChangeCipher, Slot
  <2>3. conns' = [conns EXCEPT ![i] = c]
    BY <1>3, <2>2 DEF TInv, Shapes
  <2> QED  BY <2>1, <2>3
<1>5. IsHandshake(h) /\ h.client = hs.client /\ h.at # "flight"
  BY <1>3 DEF IsHandshake
<1>6. Same(conns[i], c) /\ c.seq_recv = conns[i].seq_recv /\ c.app_buf = conns[i].app_buf
  BY <1>3, RecordsKeep DEF IsConn
<1>7. Answering(hs, conns[i], srv[f], toSrv[f], toCli[f], damaged[f], f) =>
        Answering(h, c, srv[f], Append(toSrv[f], r), toCli[f], damaged[f], f)
  <2>1. /\ IsSeq(toSrv[f]) /\ IsHandshake(hs) /\ hs.client \in 1 .. MaxConn /\ hs.at = "ccs"
        /\ f \in Fds
        /\ IsConn(conns[i])
    BY <1>0, <1>3, QueuesAre
  <2> QED  BY ONLY <2>1, CipherSaid
<1> HIDE DEF c, h, r
<1> QED  BY <1>0, <1>2, <1>4, <1>5, <1>6, <1>7, AnswerSound

\* The Finished of the client (1578-1599).
LEMMA FinishedSentSound ==
  ASSUME TInv, Conversations, SendFinished PROVE Conversations' /\ Justified
<1>1. Busy /\ call.op = "handshake" /\ hs.at = "fin"
  BY DEF SendFinished, Answer
<1>2. PICK f, i : f = call.fd /\ i = call.slot /\ HandshakeOf(f, i)
  BY <1>1, TheHandshake
<1>3. /\ f \in Fds /\ i \in Slots /\ IsConn(conns[i]) /\ IsHandshake(hs)
      /\ hs.client \in 1 .. MaxConn
      /\ Always(f)
  BY <1>2 DEF HandshakeOf
<1> DEFINE m == FinishedMsg(hs.master, "client_finished", sha256_final(hs.hash))
           c == Sent(conns[i])
           h == Hashed(hs, "finished", m)
           r == tls_write_record(conns[i], Handshake, <<m>>)
<1>4. /\ hs' = h /\ conns' = [conns EXCEPT ![i] = c] /\ line[f] = "up"
      /\ toSrv' = [toSrv EXCEPT ![f] = Append(@, r)]
      /\ UNCHANGED <<st, call, draws, got, put, srv, damaged, toCli, line>>
  BY <1>2 DEF SendFinished, Answer, Send, Hashed, FinishedMsg, Verify, Conn, Slot, Fd
<1>5. IsHandshake(h) /\ h.client = hs.client /\ h.at # "flight"
  <2> HIDE DEF m
  <2> QED  BY <1>3, HashedIs
<1>6. Same(conns[i], c) /\ c.seq_recv = conns[i].seq_recv /\ c.app_buf = conns[i].app_buf
  BY <1>3, SentIs
<1>7. Answering(hs, conns[i], srv[f], toSrv[f], toCli[f], damaged[f], f) =>
        Answering(h, c, srv[f], Append(toSrv[f], r), toCli[f], damaged[f], f)
  <2>1. /\ IsSeq(toSrv[f]) /\ IsHandshake(hs) /\ hs.client \in 1 .. MaxConn /\ hs.at = "fin"
        /\ f \in Fds
        /\ IsConn(conns[i]) /\ m = FinishedMsg(hs.master, "client_finished", sha256_final(hs.hash))
    BY <1>1, <1>3, QueuesAre
  <2> HIDE DEF m
  <2> QED  BY ONLY <2>1, FinishedSaid
<1> HIDE DEF c, h, r
<1> QED  BY <1>1, <1>2, <1>4, <1>5, <1>6, <1>7, AnswerSound

\* The key of the peer does not fit, a write fails, or the connection ends
\* (the fail label, 1645).
LEMMA FailuresSound ==
  ASSUME TInv, Conversations, KeyTooShort \/ AnswerUnsent \/ HandshakeReadFails
  PROVE  Conversations' /\ Justified
<1>1. Busy /\ call.op = "handshake" /\ Fail /\ UNCHANGED <<net, srv, damaged>>
  BY DEF KeyTooShort, AnswerUnsent, HandshakeReadFails, TInv, Handshakes, Busy
<1>2. PICK f, i : f = call.fd /\ i = call.slot /\ HandshakeOf(f, i)
  BY <1>1, TheHandshake
<1>3. /\ f \in Fds /\ i \in Slots /\ IsConn(conns[i]) /\ IsHandshake(hs)
      /\ hs.client \in 1 .. MaxConn
      /\ Always(f) /\ hs.client = draws /\ line[f] \in {"up", "down"}
      /\ Talking(hs, conns[i], srv[f], toSrv[f], toCli[f], damaged[f], f, line[f] = "up")
  BY <1>2 DEF HandshakeOf
<1>4. UNCHANGED <<toSrv, toCli, line, srv, damaged>>
  BY <1>1 DEF net
<1>5. Queued(f) /\ toCli' = [toCli EXCEPT ![f] = toCli'[f]]
  BY <1>3, <1>4, QueuesAre DEF Queued, Conversations, Tables
<1>6. Refused(srv[f], toSrv[f]) /\ Reason(f)
  <2>1. CASE line[f] = "down"
    BY <1>3, <1>4, <2>1, QueuesAre DEF Refused, Reason
  <2>2. CASE srv[f].at = "closed"
    BY <1>3, <2>2, DeadReason
  <2>3. CASE line[f] = "up" /\ srv[f].at # "closed"
    <3>1. KeyTooShort
      BY <1>2, <2>3 DEF AnswerUnsent, HandshakeReadFails, Ended, Fd
    <3>2. hs.at = "key" /\ Encrypted[hs.cert][hs.client] = << >>
      BY <1>3, <3>1 DEF KeyTooShort
    <3>3. Talking(hs, conns[i], srv[f], toSrv[f], toCli[f], damaged[f], f, TRUE)
      BY <1>3, <2>3
    <3>4. Answering(hs, conns[i], srv[f], toSrv[f], toCli[f], damaged[f], f)
      BY <2>3, <3>2, <3>3, TalkingAt DEF Dead
    <3>5. PICK x \in {srv[f].random, srv[f].random + 1}, k \in DOMAIN Certs, req \in BOOLEAN,
               j \in 0 .. 4, n \in 0 .. 3 :
            AnsweringAt(hs, conns[i], srv[f], toSrv[f], toCli[f], damaged[f], f, x, k, req, j, n)
      BY <3>4 DEF Answering
    <3>6. /\ Answers(hs, conns[i], x, k, req, j) /\ n <= j /\ Len(toSrv[f]) = j - n
          /\ ServerAt(srv[f], f, hs.client, req, Encrypted[k][hs.client], n)
          /\ Untouched(x, k, srv[f], damaged[f])
          /\ \A l \in 1 .. j - n : AnswerIs(n + l, toSrv[f][l], Encrypted[k][hs.client], hs.master,
                                            Log(hs.client, x, k, req, Encrypted[k][hs.client], 3))
      BY <3>5 DEF AnsweringAt
    <3>7. j = 1 /\ hs.cert = k /\ KeyLen[k] # 0
      BY <3>2, <3>6, StageIs DEF Answers
    <3>8. Reason(f)
      <4>1. CASE damaged[f] = TRUE
        BY <4>1 DEF Reason
      <4>2. CASE damaged[f] = FALSE
        <5>1. k = srv[f].cert /\ k \in Served[f]
          BY <3>6, <4>2 DEF Untouched, ServerAt
        <5>2. k # 0 /\ ~ Certs[k].usable
          BY <1>3, <3>2, <3>7, <5>1, KeyFacts
        <5> QED  BY <5>1, <5>2 DEF Reason
      <4> QED  BY <1>3, <4>1, <4>2, QueuesAre
    <3>9. Refused(srv[f], toSrv[f])
      <4>1. IsSeq(toSrv[f])
        BY <1>3, QueuesAre
      <4>2. n = 0 \/ n = 1
        BY <3>6, <3>7
      <4>3. CASE n = 1
        <5>1. Len(toSrv[f]) = 0
          BY <3>6, <3>7, <4>3
        <5> QED  BY <4>1, <5>1, NoneIs DEF Refused
      <4>4. CASE n = 0
        <5>1. srv[f].at = "cert" /\ Len(toSrv[f]) = 1
          BY <3>6, <3>7, <4>4, StageIs DEF ServerAt
        <5>2. AnswerIs(1, toSrv[f][1], Encrypted[k][hs.client], hs.master,
                       Log(hs.client, x, k, req, Encrypted[k][hs.client], 3))
          <6>1. 1 \in 1 .. j - n /\ n + 1 = 1
            BY <3>7, <4>4
          <6> QED  BY <3>6, <6>1
        <5>3. toSrv[f][1] = Plain(Handshake, <<NoCert>>)
          BY <5>2 DEF AnswerIs
        <5>4. toSrv[f] = <<Plain(Handshake, <<NoCert>>)>>
          <6> DEFINE z == Plain(Handshake, <<NoCert>>)
          <6>1. IsSeq(<<z>>) /\ Len(<<z>>) = 1 /\ <<z>>[1] = z
            BY SmallSeqs
          <6> HIDE DEF z
          <6>2. \A l \in 1 .. Len(toSrv[f]) : toSrv[f][l] = <<z>>[l]
            BY <5>1, <5>3, <6>1 DEF z
          <6>3. toSrv[f] = <<z>>
            BY <4>1, <5>1, <6>1, <6>2, SameSeqs
          <6> QED  BY <6>3 DEF z
        <5> QED  BY <5>1, <5>4 DEF Refused
      <4> QED  BY <4>2, <4>3, <4>4
    <3> QED  BY <3>8, <3>9
  <2> QED  BY <1>3, <2>1, <2>2, <2>3
<1> QED  BY <1>1, <1>2, <1>4, <1>5, <1>6, GivesUp

\* The session is established.
LEMMA Established ==
  ASSUME TInv, Conversations, NEW f, NEW i, HandshakeOf(f, i), NEW c, Same(conns[i], c),
         conns' = [conns EXCEPT ![i] = c], st' = [st EXCEPT ![f] = "tls"], call' = Idle,
         UNCHANGED <<draws, got, put, toSrv, line, srv, damaged>>, line[f] = "up",
         toCli' = [toCli EXCEPT ![f] = toCli'[f]], Queued(f), srv[f].rejected = FALSE,
         Served1(c, srv[f], toSrv[f], toCli'[f], << >>, damaged[f], f, TRUE, TRUE),
         Outgoing(srv[f], toSrv[f], 0, FALSE)
  PROVE  Conversations' /\ Justified
<1>1. /\ f \in Fds /\ i \in Slots /\ st[f] = "tcp" /\ Always(f) /\ Quiet(f) /\ InUse(i, f)
      /\ \A g \in Fds : g # f => st[g] # "tcp"
      /\ draws \in 0 .. MaxConn
  BY DEF HandshakeOf
<1>2. c.sockfd = f /\ conns'[i] = c
  BY <1>1 DEF Same, InUse, TInv, Shapes
<1>3. st'[f] = "tls" /\ \A g \in Fds : g # f => st'[g] = st[g]
  BY <1>1 DEF TInv, Shapes
<1>4. Touches(f)
  <2>1. /\ line' = [line EXCEPT ![f] = line'[f]] /\ srv' = [srv EXCEPT ![f] = srv'[f]]
        /\ got' = [got EXCEPT ![f] = got'[f]] /\ put' = [put EXCEPT ![f] = put'[f]]
        /\ damaged' = [damaged EXCEPT ![f] = damaged'[f]]
        /\ toSrv' = [toSrv EXCEPT ![f] = toSrv'[f]]
    BY <1>1 DEF Conversations, Tables
  <2> QED  BY <1>1, <1>2, <1>3, <2>1 DEF Touches
<1>5. Always(f)'
  <2>1. Queued(f) /\ UNCHANGED <<toSrv, line, srv, damaged, got, put>>
    OBVIOUS
  <2> QED  BY ONLY <1>1, <2>1 DEF Always, Kinds, Queued
<1>6. Sound(f)'
  <2>1. ASSUME NEW j \in Slots, InUse(j, f)' PROVE j = i
    <3>1. conns = [k \in Slots |-> conns[k]]
      BY DEF TInv, Shapes
    <3>2. j # i => InUse(j, f)
      BY <1>1, <2>1, <3>1 DEF InUse
    <3> QED  BY <1>1, <3>2 DEF TInv, Sessions
  <2>2. /\ srv'[f].rejected = FALSE /\ line'[f] = "up" /\ put'[f] = 0 /\ got'[f] = << >>
        /\ srv'[f] = srv[f] /\ toSrv'[f] = toSrv[f] /\ damaged'[f] = damaged[f]
    BY <1>1 DEF Quiet
  <2>3. Outgoing(srv'[f], toSrv'[f], put'[f], st'[f] = "ended")
    <3>1. (st'[f] = "ended") = FALSE
      BY <1>3
    <3> QED  BY <2>2, <3>1
  <2>4. Served1(conns'[i], srv'[f], toSrv'[f], toCli'[f], got'[f], damaged'[f], f,
                line'[f] = "up", st'[f] = "tls")
    <3>1. (st'[f] = "tls") = TRUE /\ (line'[f] = "up") = TRUE
      BY <1>3, <2>2
    <3> QED  BY <1>2, <2>2, <3>1
  <2> QED  BY ONLY <1>3, <1>5, <2>1, <2>2, <2>3, <2>4 DEF Sound
<1>7. Conversations'
  <2>1. draws' \in 0 .. MaxConn /\ call'.op # "recv"
    BY <1>1 DEF Idle
  <2>2. TInv /\ Conversations
    OBVIOUS
  <2> QED  BY ONLY <1>1, <1>4, <1>6, <2>1, <2>2, OneTouched
<1>8. Justified
  BY <1>3 DEF Justified
<1> QED  BY <1>7, <1>8

\* ChangeCipherSpec and Finished of the server (1602-1641).
LEMMA FinishedSound ==
  ASSUME TInv, Conversations, FinishedRecord PROVE Conversations' /\ Justified
<1>1. Busy /\ call.op = "handshake" /\ hs.at = "finished"
  BY DEF FinishedRecord, RecordRead
<1>2. PICK f, i : f = call.fd /\ i = call.slot /\ HandshakeOf(f, i)
  BY <1>1, TheHandshake
<1>3. /\ f \in Fds /\ i \in Slots /\ IsConn(conns[i]) /\ st[f] = "tcp" /\ call.op = "handshake"
      /\ Always(f) /\ Quiet(f) /\ IsHandshake(hs) /\ hs.client \in 1 .. MaxConn
      /\ Talking(hs, conns[i], srv[f], toSrv[f], toCli[f], damaged[f], f, line[f] = "up")
      /\ call \in [op : {"handshake"}, fd : Fds, slot : Slots, hdr : BOOLEAN]
  BY <1>1, <1>2 DEF HandshakeOf, TInv, Shapes, CallShape, Idle
<1>4. toCli[f] # << >> /\ toCli' = [toCli EXCEPT ![f] = Tail(@)]
      /\ UNCHANGED <<toSrv, line, srv, damaged>>
  BY <1>2 DEF FinishedRecord, RecordRead, Fd
<1>5. /\ line[f] = "up" /\ IsSeq(toCli[f]) /\ IsRecord(Head(toCli[f])) /\ IsSeq(toSrv[f])
      /\ Head(toCli[f]) = toCli[f][1] /\ 1 \in 1 .. Len(toCli[f])
      /\ toCli'[f] = Tail(toCli[f]) /\ toCli' = [toCli EXCEPT ![f] = toCli'[f]]
      /\ toSrv'[f] = toSrv[f] /\ toSrv' = [toSrv EXCEPT ![f] = toSrv'[f]] /\ Queued(f)
  BY <1>3, <1>4, OneRead
<1> DEFINE r == Head(toCli[f])
           c == conns[i]
           proof == [secret |-> hs.master, label |-> "server_finished",
                     hash |-> sha256_final(hs.hash)]
           finished == r.ct = Handshake /\ r.data[1].t = Finished
           verified == finished /\ r.data[1].verify = proof
           bad == \/ ~ Accepted(c, r) \/ r.ct = Alert
                  \/ r.ct = Handshake /\ ~ hs.got_ccs
                  \/ finished /\ ~ verified
<1>6. \/ /\ ~ bad /\ verified
         /\ conns' = [conns EXCEPT ![i] = Received(@, r)]
         /\ st' = [st EXCEPT ![f] = "tls"]
         /\ call' = Idle /\ hs' = NoHs
         /\ UNCHANGED <<draws, got, put>>
      \/ /\ ~ bad /\ ~ verified
         /\ conns' = [conns EXCEPT ![i] = IF r.ct = ChangeCipher THEN [@ EXCEPT !.seq_recv = 0]
                                          ELSE Received(@, r)]
         /\ hs' = [hs EXCEPT !.got_ccs = @ \/ r.ct = ChangeCipher]
         /\ call' = [call EXCEPT !.hdr = FALSE]
         /\ UNCHANGED <<st, draws, got, put>>
      \/ bad /\ Fail
  BY <1>2 DEF FinishedRecord, Verify, Incoming, Fd, Slot, Conn
<1>7. CASE Dead(srv[f], toCli[f])
  <2>1. r.ct = Alert /\ srv[f].at = "closed"
    BY <1>5, <1>7 DEF Dead
  <2>2. Fail /\ Reason(f) /\ Refused(srv[f], toSrv[f])
    BY <1>3, <1>6, <2>1, DeadReason
  <2> QED  BY <1>2, <1>4, <1>5, <2>2, GivesUp
<1>8. ASSUME Opened(hs, c, srv[f], toSrv[f], toCli[f], damaged[f], f), hs.got_ccs = FALSE
      PROVE  Conversations' /\ Justified
  <2> DEFINE b == [c EXCEPT !.seq_recv = 0]
             h == [hs EXCEPT !.got_ccs = TRUE]
  <2>1. r = Plain(ChangeCipher, <<1>>)
        /\ Opened(h, b, srv[f], toSrv[f], Tail(toCli[f]), damaged[f], f)
    BY <1>3, <1>8, CipherHeard
  <2>2. r.ct = ChangeCipher /\ r.ct # Handshake /\ r.ct # Alert /\ Accepted(c, r)
    BY <2>1, CodesDiffer DEF Plain, Accepted, Protected
  <2>3. /\ conns' = [conns EXCEPT ![i] = b] /\ hs' = h
        /\ call'.op = call.op /\ call'.fd = f /\ call'.slot = i
        /\ UNCHANGED <<st, draws, got, put>>
    BY <1>2, <1>3, <1>6, <1>8, <2>2
  <2>4. Same(c, b) /\ b.seq_recv = 0 /\ b.app_buf = c.app_buf
    BY <1>3, RecordsKeep DEF IsConn
  <2>5. IsHandshake(h) /\ h.client = hs.client /\ h.at = "finished"
    BY <1>1, <1>3 DEF IsHandshake
  <2>6. c.app_buf = << >>
    BY <1>3, <1>5 DEF Talking
  <2>7. Opened(h, b, srv[f], toSrv'[f], toCli'[f], damaged[f], f)
    BY <1>5, <2>1
  <2> HIDE DEF b, h
  <2>8. Talking(h, b, srv[f], toSrv'[f], toCli'[f], damaged[f], f, TRUE)
    BY <1>3, <2>4, <2>5, <2>6, <2>7 DEF Talking
  <2> QED  BY <1>2, <1>4, <1>5, <2>3, <2>4, <2>5, <2>8, GoesOn
<1>9. ASSUME Opened(hs, c, srv[f], toSrv[f], toCli[f], damaged[f], f), hs.got_ccs = TRUE
      PROVE  Conversations' /\ Justified
  <2> DEFINE m == FinishedMsg(hs.master, "server_finished", sha256_final(hs.hash))
  <2>1. /\ c.seq_recv = 0 /\ c.app_buf = << >> /\ srv[f].got = << >> /\ damaged[f] \in BOOLEAN
    BY <1>3, <1>5, QueuesAre DEF Talking, Quiet
  <2>2. /\ r.ct = Handshake /\ r.data = <<m>> /\ (damaged[f] = FALSE => Accepted(c, r))
        /\ toSrv[f] = << >> /\ srv[f].rejected = FALSE
        /\ Served1(Received(c, r), srv[f], toSrv[f], Tail(toCli[f]), << >>, damaged[f], f, TRUE,
                   TRUE)
        /\ Outgoing(srv[f], toSrv[f], 0, FALSE)
    <3>1. /\ hs.got_ccs = TRUE /\ IsConn(c) /\ c.seq_recv = 0 /\ c.app_buf = << >>
          /\ srv[f].got = << >> /\ IsSeq(toCli[f]) /\ damaged[f] \in BOOLEAN
          /\ Opened(hs, c, srv[f], toSrv[f], toCli[f], damaged[f], f)
      BY <1>3, <1>5, <1>9, <2>1
    <3> HIDE DEF c
    <3>2. Trusted(hs, c, srv[f], toSrv[f], toCli[f], damaged[f], f)
      BY ONLY <3>1, FinishedHeard
    <3>3. r = Head(toCli[f])
      OBVIOUS
    <3>4. toSrv[f] = << >> /\ srv[f].rejected = FALSE /\ Outgoing(srv[f], toSrv[f], 0, FALSE)
          /\ Head(toCli[f]).ct = Handshake /\ Head(toCli[f]).data = <<m>>
          /\ (damaged[f] = FALSE => Accepted(c, Head(toCli[f])))
          /\ Served1(Received(c, Head(toCli[f])), srv[f], toSrv[f], Tail(toCli[f]), << >>,
                     damaged[f], f, TRUE, TRUE)
      BY ONLY <3>2, Zenon DEF Trusted, m
    <3> HIDE DEF m, r
    <3> QED  BY ONLY <3>3, <3>4
  <2>3. m.t = Finished /\ m.verify = proof
    BY ONLY TRUE DEF m, proof, FinishedMsg, Msg
  <2> HIDE DEF m
  <2>4. verified /\ r.ct # Alert
    BY <2>2, <2>3, CodesDiffer
  <2>5. CASE Accepted(c, r)
    <3>1. /\ conns' = [conns EXCEPT ![i] = Received(c, r)] /\ st' = [st EXCEPT ![f] = "tls"]
          /\ call' = Idle /\ UNCHANGED <<draws, got, put>>
      BY <1>6, <1>9, <2>4, <2>5
    <3>2. Same(c, Received(c, r))
      BY <1>3, RecordsKeep
    <3>3. Served1(Received(c, r), srv[f], toSrv[f], toCli'[f], << >>, damaged[f], f, TRUE, TRUE)
      BY <1>5, <2>2
    <3> QED  BY <1>2, <1>4, <1>5, <2>2, <3>1, <3>2, <3>3, Established, ZenonT(45)
  <2>6. CASE ~ Accepted(c, r)
    <3>1. Fail
      BY <1>6, <2>6
    <3>2. Reason(f) /\ Refused(srv[f], toSrv[f])
      BY <2>1, <2>2, <2>6 DEF Reason, Refused
    <3> QED  BY <1>2, <1>4, <1>5, <3>1, <3>2, GivesUp
  <2> QED  BY <2>5, <2>6
<1> QED
  <2>1. ~ Answering(hs, c, srv[f], toSrv[f], toCli[f], damaged[f], f)
    BY <1>4 DEF Answering, AnsweringAt
  <2>2. Talking(hs, c, srv[f], toSrv[f], toCli[f], damaged[f], f, TRUE)
    BY <1>3, <1>5
  <2>3. \/ Opened(hs, c, srv[f], toSrv[f], toCli[f], damaged[f], f)
        \/ Dead(srv[f], toCli[f])
    BY <1>1, <2>1, <2>2, TalkingAt
  <2>4. Opened(hs, c, srv[f], toSrv[f], toCli[f], damaged[f], f) => hs.got_ccs \in BOOLEAN
    BY DEF Opened
  <2> QED  BY <1>7, <1>8, <1>9, <2>3, <2>4

LEMMA HandshakingSound ==
  TInv /\ Conversations /\ Handshaking => Conversations' /\ Justified
BY FlightSound, CertSound, KeySound, CipherSound, FinishedSentSound, FailuresSound,
   FinishedSound DEF Handshaking

----------------------------------------------------------------------------
(***************************************************************************)
(* The steps of a session.                                                 *)
(***************************************************************************)
\* The session of socket f in slot i, when no handshake runs.
SessionOf(f, i) ==
  /\ f \in Fds /\ i \in Slots /\ IsConn(conns[i]) /\ InUse(i, f) /\ st[f] \in {"tls", "failed"}
  /\ Always(f) /\ srv[f].rejected = FALSE
  /\ line[f] = "up" => Outgoing(srv[f], toSrv[f], put[f], FALSE)
  /\ Served1(conns[i], srv[f], toSrv[f], toCli[f], got[f], damaged[f], f,
             line[f] = "up", st[f] = "tls")
  /\ \A g \in Fds : st[g] # "tcp"
  /\ draws \in 0 .. MaxConn

LEMMA TheSession ==
  ASSUME TInv, Conversations, call.op # "handshake", NEW f \in Fds, NEW i \in Slots,
         st[f] \in {"tls", "failed"}, InUse(i, f)
  PROVE  SessionOf(f, i)
<1>1. Sound(f) /\ draws \in 0 .. MaxConn /\ IsConn(conns[i])
  BY DEF Conversations, Tables, TInv, Shapes
<1>2. (st[f] = "ended") = FALSE
  OBVIOUS
<1>3. line[f] = "up" => Outgoing(srv[f], toSrv[f], put[f], FALSE)
  <2>1. line[f] = "up" => Outgoing(srv[f], toSrv[f], put[f], st[f] = "ended")
    BY <1>1 DEF Sound
  <2> QED  BY <1>2, <2>1
<1>4. Always(f) /\ srv[f].rejected = FALSE
      /\ Served1(conns[i], srv[f], toSrv[f], toCli[f], got[f], damaged[f], f,
                 line[f] = "up", st[f] = "tls")
  BY <1>1 DEF Sound
<1>5. \A g \in Fds : st[g] # "tcp"
  BY DEF Conversations, Sound
<1> QED  BY ONLY <1>1, <1>3, <1>4, <1>5, f \in Fds, i \in Slots, InUse(i, f),
                 st[f] \in {"tls", "failed"} DEF SessionOf

\* The session has connection c after a step of the program, and is in state w.
LEMMA Progressed ==
  ASSUME TInv, Conversations, NEW f, NEW i, SessionOf(f, i), NEW c, Same(conns[i], c),
         NEW w \in {"tls", "failed"}, conns' = [conns EXCEPT ![i] = c], st' = [st EXCEPT ![f] = w],
         call'.op = "none", UNCHANGED <<draws, line, srv, damaged>>,
         toSrv' = [toSrv EXCEPT ![f] = toSrv'[f]], toCli' = [toCli EXCEPT ![f] = toCli'[f]],
         got' = [got EXCEPT ![f] = got'[f]], put' = [put EXCEPT ![f] = put'[f]], Queued(f),
         got'[f] \in Seq(Nat), got'[f] = Bytes(0, Len(got'[f])), put'[f] \in Nat,
         line[f] = "up" => Outgoing(srv[f], toSrv'[f], put'[f], FALSE),
         Served1(c, srv[f], toSrv'[f], toCli'[f], got'[f], damaged[f], f, line[f] = "up", w = "tls")
  PROVE  Conversations'
<1>1. /\ f \in Fds /\ i \in Slots /\ IsConn(conns[i]) /\ InUse(i, f) /\ st[f] \in {"tls", "failed"}
      /\ Always(f) /\ srv[f].rejected = FALSE /\ draws \in 0 .. MaxConn
      /\ \A g \in Fds : st[g] # "tcp"
  BY DEF SessionOf
<1>2. c.sockfd = f /\ conns'[i] = c
  BY <1>1 DEF Same, InUse, TInv, Shapes
<1>3. st'[f] = w /\ \A g \in Fds : g # f => st'[g] = st[g]
  BY <1>1 DEF TInv, Shapes
<1>4. Touches(f)
  <2>1. /\ line' = [line EXCEPT ![f] = line'[f]] /\ srv' = [srv EXCEPT ![f] = srv'[f]]
        /\ damaged' = [damaged EXCEPT ![f] = damaged'[f]]
    BY <1>1 DEF Conversations, Tables
  <2> QED  BY <1>1, <1>2, <1>3, <2>1 DEF Touches
<1>5. Always(f)'
  <2>1. /\ Queued(f) /\ UNCHANGED <<line, srv, damaged>> /\ got'[f] \in Seq(Nat)
        /\ got'[f] = Bytes(0, Len(got'[f])) /\ put'[f] \in Nat
    OBVIOUS
  <2> QED  BY ONLY <1>1, <2>1 DEF Always, Kinds, Queued
<1>6. Sound(f)'
  <2>1. ASSUME NEW j \in Slots, InUse(j, f)' PROVE j = i
    <3>1. conns = [k \in Slots |-> conns[k]]
      BY DEF TInv, Shapes
    <3>2. j # i => InUse(j, f)
      BY <1>1, <2>1, <3>1 DEF InUse
    <3> QED  BY <1>1, <3>2 DEF TInv, Sessions
  <2>2. srv'[f].rejected = FALSE /\ line' = line /\ srv'[f] = srv[f] /\ damaged'[f] = damaged[f]
    BY <1>1
  <2>3. line'[f] = "up" => Outgoing(srv'[f], toSrv'[f], put'[f], st'[f] = "ended")
    <3>1. (st'[f] = "ended") = FALSE
      BY <1>3
    <3> QED  BY <2>2, <3>1
  <2>4. Served1(conns'[i], srv'[f], toSrv'[f], toCli'[f], got'[f], damaged'[f], f,
                line'[f] = "up", st'[f] = "tls")
    BY <1>2, <1>3, <2>2
  <2>5. st'[f] \in {"tls", "failed"}
    BY <1>3
  <2> QED  BY ONLY <1>5, <2>1, <2>2, <2>3, <2>4, <2>5 DEF Sound
<1> QED
  <2>1. draws' \in 0 .. MaxConn /\ call'.op # "recv" /\ \A g \in Fds : g # f => st[g] # "tcp"
    BY <1>1
  <2>2. TInv /\ Conversations
    OBVIOUS
  <2> QED  BY ONLY <1>1, <1>4, <1>6, <2>1, <2>2, OneTouched

\* What a step that fails owes, when it is one of socket f.
LEMMA OneJustified ==
  ASSUME TInv, NEW f \in Fds, NEW w, st' = [st EXCEPT ![f] = w], w = "failed" => Reason(f),
         w # "refused"
  PROVE  Justified
<1>1. st'[f] = w /\ \A g \in Fds : g # f => st'[g] = st[g]
  BY DEF TInv, Shapes
<1> QED  BY <1>1 DEF Justified

\* The session of vtls_recv while it runs (1687-1713).
LEMMA TheReceiver ==
  ASSUME TInv, Conversations, Receiving
  PROVE  /\ SessionOf(call.fd, call.slot) /\ st[call.fd] = "tls"
         /\ conns[call.slot].app_buf = << >>
         /\ call \in [op : {"recv"}, fd : Fds, slot : Slots, hdr : BOOLEAN, len : RecvSizes]
<1>1. Busy /\ call.op = "recv"
  BY DEF Receiving
<1>2. call.fd \in Fds /\ call.slot \in Slots /\ st[call.fd] = "tls"
  BY <1>1, ReceiveFacts
<1>3. InUse(call.slot, call.fd) /\ conns[call.slot].app_buf = << >>
  BY <1>1 DEF Conversations, Tables
<1>4. call \in [op : {"recv"}, fd : Fds, slot : Slots, hdr : BOOLEAN, len : RecvSizes]
  BY <1>1 DEF TInv, Shapes, CallShape, Idle
<1> QED  BY <1>1, <1>2, <1>3, <1>4, TheSession

\* What a session knows.
LEMMA SessionIs ==
  ASSUME NEW f, NEW i, SessionOf(f, i), st[f] = "tls"
  PROVE  /\ f \in Fds /\ i \in Slots /\ IsConn(conns[i]) /\ InUse(i, f) /\ Always(f)
         /\ srv[f].rejected = FALSE
         /\ line[f] = "up" => Outgoing(srv[f], toSrv[f], put[f], FALSE)
         /\ Served1(conns[i], srv[f], toSrv[f], toCli[f], got[f], damaged[f], f, line[f] = "up",
                    TRUE)
         /\ Keyed(conns[i], srv[f], f)
         /\ got[f] = Bytes(0, Len(got[f]))
<1>1. (st[f] = "tls") = TRUE
  OBVIOUS
<1>2. Served1(conns[i], srv[f], toSrv[f], toCli[f], got[f], damaged[f], f, line[f] = "up",
              st[f] = "tls")
  BY DEF SessionOf
<1>3. Served1(conns[i], srv[f], toSrv[f], toCli[f], got[f], damaged[f], f, line[f] = "up", TRUE)
  BY <1>1, <1>2
<1>4. Keyed(conns[i], srv[f], f)
  BY <1>3 DEF Served1
<1>5. got[f] = Bytes(0, Len(got[f]))
  BY DEF SessionOf, Always
<1> QED  BY <1>3, <1>4, <1>5 DEF SessionOf

\* The call fails and leaves the connection as it is.
LEMMA Fails ==
  ASSUME TInv, Conversations, NEW f, NEW i, SessionOf(f, i), st[f] = "tls", NEW c,
         Same(conns[i], c),
         Served1(c, srv[f], toSrv[f], toCli[f], got[f], damaged[f], f, line[f] = "up", FALSE),
         conns' = [conns EXCEPT ![i] = c], st' = [st EXCEPT ![f] = "failed"], call'.op = "none",
         UNCHANGED <<draws, line, srv, damaged, toSrv, got, put>>,
         toCli' = [toCli EXCEPT ![f] = toCli'[f]], Queued(f), Reason(f)
  PROVE  Conversations' /\ Justified
<1>1. /\ f \in Fds /\ i \in Slots /\ Always(f)
      /\ line[f] = "up" => Outgoing(srv[f], toSrv[f], put[f], FALSE)
      /\ got[f] = Bytes(0, Len(got[f]))
  BY SessionIs
<1>2. /\ toSrv' = [toSrv EXCEPT ![f] = toSrv'[f]] /\ got' = [got EXCEPT ![f] = got'[f]]
      /\ put' = [put EXCEPT ![f] = put'[f]]
  BY <1>1 DEF Conversations, Tables
<1>3. got'[f] \in Seq(Nat) /\ got'[f] = Bytes(0, Len(got'[f])) /\ put'[f] \in Nat
  BY <1>1, QueuesAre
<1>4. line[f] = "up" => Outgoing(srv[f], toSrv'[f], put'[f], FALSE)
  BY <1>1
<1>5. Served1(c, srv[f], toSrv'[f], toCli'[f], got'[f], damaged[f], f, line[f] = "up", FALSE)
  BY ServedFailed, ZenonT(45)
<1>6. ("failed" = "tls") = FALSE /\ "failed" \in {"tls", "failed"}
  OBVIOUS
<1>7. Served1(c, srv[f], toSrv'[f], toCli'[f], got'[f], damaged[f], f, line[f] = "up",
              "failed" = "tls")
  BY <1>5, <1>6
<1>8. Conversations'
  <2>1. /\ TInv /\ Conversations /\ SessionOf(f, i) /\ Same(conns[i], c)
        /\ conns' = [conns EXCEPT ![i] = c] /\ st' = [st EXCEPT ![f] = "failed"]
        /\ call'.op = "none"
        /\ UNCHANGED <<draws, line, srv, damaged>> /\ toCli' = [toCli EXCEPT ![f] = toCli'[f]]
        /\ Queued(f)
    OBVIOUS
  <2> QED  BY ONLY <1>2, <1>3, <1>4, <1>6, <1>7, <2>1, Progressed
<1>9. Justified
  BY <1>1, OneJustified
<1> QED  BY <1>8, <1>9

\* A record with data is taken by vtls_recv, or a record that carries none.
LEMMA ReadSound ==
  ASSUME TInv, Conversations, NEW f, NEW i, SessionOf(f, i), st[f] = "tls", line[f] = "up",
         conns[i].app_buf = << >>, toCli[f] # << >>, Head(toCli[f]).ct # Alert,
         NEW x \in Seq(Nat), NEW y \in Seq(Nat), x \o y = Payload(Head(toCli[f])),
         NEW b, ButBuffer(Received(conns[i], Head(toCli[f])), b), b.app_buf = y, Same(conns[i], b),
         conns' = [conns EXCEPT ![i] = b], st' = st, call'.op = "none",
         UNCHANGED <<draws, line, srv, damaged, toSrv, put>>,
         toCli' = [toCli EXCEPT ![f] = toCli'[f]], toCli'[f] = Tail(toCli[f]), Queued(f),
         got' = [got EXCEPT ![f] = got[f] \o x]
  PROVE  Conversations' /\ Justified
<1>1. /\ f \in Fds /\ i \in Slots /\ IsConn(conns[i]) /\ Always(f)
      /\ Outgoing(srv[f], toSrv[f], put[f], FALSE)
      /\ Served1(conns[i], srv[f], toSrv[f], toCli[f], got[f], damaged[f], f, TRUE, TRUE)
  <2>1. /\ f \in Fds /\ i \in Slots /\ IsConn(conns[i]) /\ Always(f)
        /\ Outgoing(srv[f], toSrv[f], put[f], FALSE)
        /\ Served1(conns[i], srv[f], toSrv[f], toCli[f], got[f], damaged[f], f, line[f] = "up",
                   TRUE)
    BY SessionIs
  <2>2. (line[f] = "up") = TRUE
    OBVIOUS
  <2> QED  BY <2>1, <2>2
<1>2. /\ IsSeq(toCli[f]) /\ srv[f].sent \in Nat /\ got[f] \in Seq(Nat) /\ damaged[f] \in BOOLEAN
      /\ put[f] \in Nat
  BY <1>1, QueuesAre
<1>3. got'[f] = got[f] \o x /\ got' = [got EXCEPT ![f] = got'[f]]
  BY <1>1 DEF Conversations, Tables
<1>4. BufferGiven(conns[i], b, srv[f], toSrv[f], Tail(toCli[f]), got[f], got[f] \o x, damaged[f],
                  f, TRUE)
  <2>1. /\ IsConn(conns[i]) /\ conns[i].app_buf = << >> /\ srv[f].sent \in Nat /\ IsSeq(toCli[f])
        /\ toCli[f] # << >> /\ got[f] \in Seq(Nat) /\ damaged[f] \in BOOLEAN
        /\ Served1(conns[i], srv[f], toSrv[f], toCli[f], got[f], damaged[f], f, TRUE, TRUE)
        /\ Head(toCli[f]).ct # Alert /\ x \in Seq(Nat) /\ y \in Seq(Nat)
        /\ x \o y = Payload(Head(toCli[f]))
        /\ ButBuffer(Received(conns[i], Head(toCli[f])), b) /\ b.app_buf = y
    BY <1>1, <1>2
  <2> QED  BY ONLY <2>1, RecordRead1
<1>5. got'[f] \in Seq(Nat) /\ got'[f] = Bytes(0, Len(got'[f]))
      /\ Served1(b, srv[f], toSrv'[f], toCli'[f], got'[f], damaged[f], f, TRUE, TRUE)
  <2>1. toSrv'[f] = toSrv[f] /\ toCli'[f] = Tail(toCli[f])
    OBVIOUS
  <2> QED  BY ONLY <1>3, <1>4, <2>1 DEF BufferGiven
<1>6. /\ toSrv' = [toSrv EXCEPT ![f] = toSrv'[f]] /\ put' = [put EXCEPT ![f] = put'[f]]
      /\ put'[f] \in Nat /\ st' = [st EXCEPT ![f] = "tls"] /\ "tls" \in {"tls", "failed"}
      /\ line[f] = "up" => Outgoing(srv[f], toSrv'[f], put'[f], FALSE)
  BY <1>1, <1>2 DEF Conversations, Tables, TInv, Shapes
<1>7. Served1(b, srv[f], toSrv'[f], toCli'[f], got'[f], damaged[f], f, line[f] = "up",
              "tls" = "tls")
  <2>1. (line[f] = "up") = TRUE /\ ("tls" = "tls") = TRUE
    OBVIOUS
  <2> QED  BY <1>5, <2>1
<1>8. Conversations'
  <2>1. /\ TInv /\ Conversations /\ SessionOf(f, i) /\ Same(conns[i], b)
        /\ conns' = [conns EXCEPT ![i] = b] /\ call'.op = "none"
        /\ UNCHANGED <<draws, line, srv, damaged>> /\ toCli' = [toCli EXCEPT ![f] = toCli'[f]]
        /\ Queued(f)
    OBVIOUS
  <2> QED  BY ONLY <1>3, <1>5, <1>6, <1>7, <2>1, Progressed
<1>9. Justified
  BY DEF Justified
<1> QED  BY <1>8, <1>9

\* A record is read (1687-1713).
LEMMA RecvSound ==
  ASSUME TInv, Conversations, RecvRecord PROVE Conversations' /\ Justified
<1>1. Receiving
  BY DEF RecvRecord
<1>2. PICK f, i : /\ f = call.fd /\ i = call.slot /\ SessionOf(f, i) /\ st[f] = "tls"
                  /\ conns[i].app_buf = << >>
  BY <1>1, TheReceiver
<1>3. /\ f \in Fds /\ i \in Slots /\ IsConn(conns[i]) /\ Always(f)
      /\ Served1(conns[i], srv[f], toSrv[f], toCli[f], got[f], damaged[f], f, line[f] = "up", TRUE)
      /\ Keyed(conns[i], srv[f], f)
  BY <1>2, SessionIs
<1>4. toCli[f] # << >> /\ toCli' = [toCli EXCEPT ![f] = Tail(@)]
      /\ UNCHANGED <<hs, draws, put, toSrv, line, srv, damaged>> /\ call'.op = "none"
  BY <1>2 DEF RecvRecord, Fd, Idle
<1>5. /\ line[f] = "up" /\ IsSeq(toCli[f]) /\ IsRecord(Head(toCli[f])) /\ IsSeq(toSrv[f])
      /\ Head(toCli[f]) = toCli[f][1] /\ 1 \in 1 .. Len(toCli[f])
      /\ toCli'[f] = Tail(toCli[f]) /\ toCli' = [toCli EXCEPT ![f] = toCli'[f]]
      /\ toSrv'[f] = toSrv[f] /\ toSrv' = [toSrv EXCEPT ![f] = toSrv'[f]] /\ Queued(f)
  BY <1>3, <1>4, OneRead
<1> DEFINE r == Head(toCli[f])
           c == conns[i]
           n == call.len
<1>6. n \in Nat
  BY <1>1, TheReceiver, TlsAssumption
<1>7. \/ /\ Accepted(c, r) /\ r.ct = Application
         /\ got' = [got EXCEPT ![f] = @ \o Copied(r.data, n)]
         /\ conns' = [conns EXCEPT ![i] = [Received(c, r) EXCEPT !.app_buf = Rest(r.data, n)]]
         /\ UNCHANGED st
      \/ /\ Accepted(c, r) /\ r.ct \notin {Application, Alert}
         /\ conns' = [conns EXCEPT ![i] = Received(c, r)]
         /\ UNCHANGED <<st, got>>
      \/ /\ ~ Accepted(c, r) \/ r.ct = Alert
         /\ st' = [st EXCEPT ![f] = "failed"]
         /\ UNCHANGED <<conns, got>>
  BY <1>2 DEF RecvRecord, Incoming, Fd, Slot, Conn
<1>8. damaged[f] \in BOOLEAN /\ got[f] \in Seq(Nat)
  BY <1>3, QueuesAre
<1>9. ASSUME Reason(f), ~ Accepted(c, r) \/ r.ct = Alert PROVE Conversations' /\ Justified
  <2>1. st' = [st EXCEPT ![f] = "failed"] /\ UNCHANGED <<conns, got>>
    BY <1>7, <1>9, CodesDiffer
  <2>2. conns' = [conns EXCEPT ![i] = c] /\ Same(c, c)
    BY <1>3, <2>1, RecordsKeep DEF TInv, Shapes
  <2>3. Served1(c, srv[f], toSrv[f], toCli[f], got[f], damaged[f], f, line[f] = "up", FALSE)
    <3>1. (line[f] = "up") = TRUE
      BY <1>5
    <3>2. Served1(c, srv[f], toSrv[f], toCli[f], got[f], damaged[f], f, TRUE, TRUE)
      BY <1>3, <3>1
    <3>3. Served1(c, srv[f], toSrv[f], toCli[f], got[f], damaged[f], f, TRUE, FALSE)
      BY <3>2, ServedFailed
    <3> QED  BY <3>1, <3>3
  <2>4. /\ TInv /\ Conversations /\ SessionOf(f, i) /\ st[f] = "tls" /\ call'.op = "none"
        /\ UNCHANGED <<draws, line, srv, damaged, toSrv, got, put>> /\ Reason(f)
    BY <1>2, <1>4, <1>9, <2>1
  <2> QED  BY ONLY <1>5, <2>1, <2>2, <2>3, <2>4, Fails
<1>10. CASE r.ct = Alert /\ srv[f].at = "closed"
  BY <1>3, <1>9, <1>10, DeadReason
<1>11. ASSUME r.ct \in {Handshake, Application}, Payload(r) \in Seq(Nat),
              damaged[f] = FALSE => Accepted(c, r)
       PROVE  Conversations' /\ Justified
  <2>0. r.ct # Alert
    BY <1>11, CodesDiffer
  <2>1. CASE ~ Accepted(c, r)
    <3>1. Reason(f)
      BY <1>8, <1>11, <2>1 DEF Reason
    <3> QED  BY <1>9, <2>1, <3>1
  <2>2. CASE Accepted(c, r) /\ r.ct = Application
    <3> DEFINE x == Copied(r.data, n)
               y == Rest(r.data, n)
               b == [Received(c, r) EXCEPT !.app_buf = y]
    <3>1. Payload(r) = r.data
      BY <2>2 DEF Payload
    <3>2. x \in Seq(Nat) /\ y \in Seq(Nat) /\ x \o y = Payload(r)
      BY <1>6, <1>11, <3>1, CopiedRest
    <3>3. ButBuffer(Received(c, r), b) /\ b.app_buf = y /\ Same(c, b)
      <4>1. IsConn(c)
        BY <1>3
      <4> HIDE DEF c, r, y
      <4>2. LET z == [Received(c, r) EXCEPT !.app_buf = y]
            IN ButBuffer(Received(c, r), z) /\ z.app_buf = y
        BY ONLY <4>1, ButBufferIs
      <4>3. Same(c, [Received(c, r) EXCEPT !.app_buf = y])
        BY ONLY <4>1, RecordsKeep
      <4> QED  BY ONLY <4>2, <4>3 DEF b
    <3>4. conns' = [conns EXCEPT ![i] = b] /\ st' = st /\ got' = [got EXCEPT ![f] = got[f] \o x]
      BY <1>7, <2>0, <2>2
    <3> HIDE DEF b, x, y
    <3>5. /\ TInv /\ Conversations /\ SessionOf(f, i) /\ st[f] = "tls" /\ line[f] = "up"
          /\ conns[i].app_buf = << >> /\ toCli[f] # << >> /\ Head(toCli[f]).ct # Alert
          /\ x \o y = Payload(Head(toCli[f])) /\ ButBuffer(Received(conns[i], Head(toCli[f])), b)
          /\ Same(conns[i], b) /\ call'.op = "none"
          /\ UNCHANGED <<draws, line, srv, damaged, toSrv, put>>
      BY <1>2, <1>4, <1>5, <2>0, <3>2, <3>3
    <3> QED  BY ONLY <1>5, <3>2, <3>3, <3>4, <3>5, ReadSound
  <2>3. CASE Accepted(c, r) /\ r.ct # Application
    <3> DEFINE x == << >>
               b == Received(c, r)
    <3>1. Payload(r) = x
      BY <2>3 DEF Payload
    <3>2. x \in Seq(Nat) /\ x \o x = Payload(r) /\ got[f] \o x = got[f]
      BY <1>8, <3>1
    <3>3. ButBuffer(Received(c, r), b) /\ b.app_buf = x /\ Same(c, b)
      BY <1>2, <1>3, ButBufferIs, RecordsKeep
    <3>4. conns' = [conns EXCEPT ![i] = b] /\ st' = st /\ got' = got
      BY <1>7, <2>0, <2>3
    <3>5. got' = [got EXCEPT ![f] = got[f] \o x]
      <4>1. got = [g \in Fds |-> got[g]]
        BY DEF Conversations, Tables
      <4> HIDE DEF x
      <4> QED  BY ONLY <1>3, <3>2, <3>4, <4>1
    <3> HIDE DEF b, x
    <3>6. /\ TInv /\ Conversations /\ SessionOf(f, i) /\ st[f] = "tls" /\ line[f] = "up"
          /\ conns[i].app_buf = << >> /\ toCli[f] # << >> /\ Head(toCli[f]).ct # Alert
          /\ x \o x = Payload(Head(toCli[f])) /\ ButBuffer(Received(conns[i], Head(toCli[f])), b)
          /\ Same(conns[i], b) /\ call'.op = "none"
          /\ UNCHANGED <<draws, line, srv, damaged, toSrv, put>>
      BY <1>2, <1>4, <1>5, <2>0, <3>2, <3>3
    <3> QED  BY ONLY <1>5, <3>2, <3>3, <3>4, <3>5, <3>6, ReadSound
  <2> QED  BY <2>1, <2>2, <2>3
<1> QED
  <2>1. Arriving(c, srv[f], toCli[f], got[f], damaged[f])
    <3>1. (line[f] = "up") = TRUE
      BY <1>5
    <3>2. Served1(c, srv[f], toSrv[f], toCli[f], got[f], damaged[f], f, TRUE, TRUE)
      BY <1>3, <3>1
    <3> QED  BY <3>2 DEF Served1
  <2>2. \/ /\ r.ct \in {Handshake, Application} /\ Payload(r) \in Seq(Nat)
           /\ damaged[f] = FALSE => Accepted(c, r)
        \/ r.ct = Alert /\ srv[f].at = "closed"
    <3>1. Keyed(c, srv[f], f) /\ IsSeq(toCli[f]) /\ toCli[f] # << >> /\ damaged[f] \in BOOLEAN
      BY <1>3, <1>4, <1>5, <1>8
    <3> HIDE DEF c
    <3>2. \/ /\ Numbered(srv[f].master, c.seq_recv, Head(toCli[f]), damaged[f])
             /\ InSeq(Tail(toCli[f]), srv[f], c.seq_recv + 1, damaged[f])
             /\ Protected(c, Head(toCli[f]))
             /\ damaged[f] = FALSE => Accepted(c, Head(toCli[f]))
             /\ Head(toCli[f]).ct \in {Handshake, Application}
             /\ Payload(Head(toCli[f])) \in Seq(Nat)
             /\ Carried(toCli[f]) = Payload(Head(toCli[f])) \o Carried(Tail(toCli[f]))
             /\ Carried(Tail(toCli[f])) \in Seq(Nat)
          \/ Head(toCli[f]).ct = Alert /\ srv[f].at = "closed"
      BY ONLY <2>1, <3>1, NextRecord
    <3> QED  BY ONLY <3>2, Zenon DEF r
  <2> QED  BY <1>10, <1>11, <2>2

\* The end, or the loss, of the connection inside tls_recv_all (1061-1079).
LEMMA RecvFailsSound ==
  ASSUME TInv, Conversations, RecvFails PROVE Conversations' /\ Justified
<1>1. Receiving
  BY DEF RecvFails
<1>2. PICK f, i : /\ f = call.fd /\ i = call.slot /\ SessionOf(f, i) /\ st[f] = "tls"
  BY <1>1, TheReceiver
<1>3. /\ f \in Fds /\ i \in Slots /\ IsConn(conns[i]) /\ Always(f) /\ srv[f].rejected = FALSE
      /\ Served1(conns[i], srv[f], toSrv[f], toCli[f], got[f], damaged[f], f, line[f] = "up", TRUE)
  BY <1>2, SessionIs
<1>4. /\ st' = [st EXCEPT ![f] = "failed"] /\ call'.op = "none"
      /\ UNCHANGED <<conns, draws, got, put, toSrv, toCli, line, srv, damaged>>
      /\ line[f] = "down" \/ srv[f].at = "closed"
  BY <1>2 DEF RecvFails, Fd, Idle, net, Ended
<1> DEFINE c == conns[i]
<1>5. conns' = [conns EXCEPT ![i] = c] /\ Same(c, c)
  BY <1>3, <1>4, RecordsKeep DEF TInv, Shapes
<1>6. toCli' = [toCli EXCEPT ![f] = toCli'[f]] /\ Queued(f)
  <2>1. toCli' = [toCli EXCEPT ![f] = toCli'[f]]
    BY <1>3, <1>4 DEF Conversations, Tables
  <2> QED  BY <1>3, <1>4, <2>1, QueuesAre DEF Queued
<1>7. Served1(c, srv[f], toSrv[f], toCli[f], got[f], damaged[f], f, line[f] = "up", FALSE)
  BY <1>3, ServedFailed
<1>8. Reason(f)
  BY <1>3, <1>4 DEF Reason
<1>9. /\ TInv /\ Conversations /\ SessionOf(f, i) /\ st[f] = "tls"
      /\ UNCHANGED <<draws, line, srv, damaged, toSrv, got, put>>
  BY <1>2, <1>4
<1> QED  BY ONLY <1>4, <1>5, <1>6, <1>7, <1>8, <1>9, Fails

----------------------------------------------------------------------------
(***************************************************************************)
(* The calls of the program on a socket.                                   *)
(***************************************************************************)
\* Nobody is in a handshake between the calls.
LEMMA Between ==
  ASSUME TInv, Conversations, ~ Busy
  PROVE  /\ call = Idle /\ call.op = "none" /\ draws \in 0 .. MaxConn
         /\ \A g \in Fds : st[g] # "tcp" /\ Always(g)
<1>1. call = Idle /\ call.op = "none"
  BY BetweenCalls
<1>2. ASSUME NEW g \in Fds PROVE st[g] # "tcp" /\ Always(g)
  BY <1>1 DEF Conversations, Sound
<1> QED  BY <1>1, <1>2 DEF Conversations, Tables

\* A closed socket knows nobody.
LEMMA ClosedIs ==
  ASSUME Conversations, NEW f \in Fds, st[f] = "closed"
  PROVE  /\ line[f] = "none" /\ srv[f] = FreshServer /\ damaged[f] = FALSE
         /\ toSrv[f] = << >> /\ toCli[f] = << >> /\ Quiet(f) /\ Always(f)
<1>1. Sound(f)
  BY DEF Conversations
<1>2. /\ line[f] = "none" /\ srv[f] = FreshServer /\ damaged[f] = FALSE /\ Quiet(f) /\ Always(f)
  BY <1>1 DEF Sound
<1> QED  BY <1>2, QueuesAre

\* Socket f is refused before anything is sent.
LEMMA Unasked ==
  ASSUME TInv, Conversations, ~ Busy, NEW f \in Fds, st[f] = "closed",
         conns' = conns \/ \E i \in Slots : \E c : conns' = [conns EXCEPT ![i] = c]
           /\ c.active = FALSE,
         st' = [st EXCEPT ![f] = "refused"], line' = [line EXCEPT ![f] = line'[f]],
         line'[f] # "up", draws' \in 0 .. MaxConn,
         UNCHANGED <<call, got, put, toSrv, toCli, srv, damaged>>
  PROVE  Conversations'
<1>1. /\ toSrv[f] = << >> /\ toCli[f] = << >> /\ Quiet(f) /\ Always(f)
  BY ClosedIs
<1>2. call'.op = "none" /\ \A g \in Fds : g # f => st[g] # "tcp"
  BY Between
<1>3. st'[f] = "refused" /\ st' = [st EXCEPT ![f] = st'[f]]
  BY DEF TInv, Shapes
<1>4. Touches(f)
  <2>1. /\ srv' = [srv EXCEPT ![f] = srv'[f]] /\ toSrv' = [toSrv EXCEPT ![f] = toSrv'[f]]
        /\ got' = [got EXCEPT ![f] = got'[f]] /\ put' = [put EXCEPT ![f] = put'[f]]
        /\ damaged' = [damaged EXCEPT ![f] = damaged'[f]]
        /\ toCli' = [toCli EXCEPT ![f] = toCli'[f]]
    BY DEF Conversations, Tables
  <2> QED  BY <1>3, <2>1 DEF Touches
<1>5. Sound(f)'
  <2>1. /\ toSrv'[f] = << >> /\ toCli'[f] = << >> /\ srv'[f] = srv[f] /\ got'[f] = got[f]
        /\ put'[f] = put[f] /\ damaged'[f] = damaged[f]
    BY <1>1
  <2>2. Always(f)'
    BY ONLY <1>1, <2>1 DEF Always, Kinds
  <2>3. Quiet(f)' /\ Refused(srv'[f], toSrv'[f])
    BY ONLY <1>1, <2>1 DEF Quiet, Refused
  <2> QED  BY ONLY <1>3, <2>2, <2>3 DEF Sound
<1> QED
  <2>1. TInv /\ Conversations /\ draws' \in 0 .. MaxConn /\ f \in Fds
        /\ (call'.op = "recv" => InUse(call.slot, call.fd)' /\ conns'[call'.slot].app_buf = << >>)
    BY <1>2
  <2> QED  BY ONLY <1>2, <1>4, <1>5, <2>1, OneTouched

LEMMA NoSlotSound ==
  ASSUME TInv, Conversations, NEW f \in Fds, HandshakeWithoutSlot(f)
  PROVE  Conversations' /\ Justified
<1>1. /\ ~ Busy /\ st[f] = "closed" /\ Unused = {} /\ st' = [st EXCEPT ![f] = "refused"]
      /\ UNCHANGED <<conns, call, draws, got, put, toSrv, toCli, line, srv, damaged>>
  BY DEF HandshakeWithoutSlot, Connects, net
<1>2. line' = [line EXCEPT ![f] = line'[f]] /\ line'[f] # "up" /\ draws' \in 0 .. MaxConn
  BY <1>1, ClosedIs DEF Conversations, Tables
<1>3. Conversations'
  BY <1>1, <1>2, Unasked
<1>4. Justified
  BY <1>1 DEF Justified, TInv, Shapes
<1> QED  BY <1>3, <1>4

\* The ClientHello is not sent (1358-1363).
LEMMA HelloUnsentSound ==
  ASSUME TInv, Conversations, NEW f \in Fds, HelloUnsent(f)
  PROVE  Conversations' /\ Justified
<1>1. /\ ~ Busy /\ st[f] = "closed" /\ Unused # {} /\ draws < MaxConn
      /\ conns' = [conns EXCEPT ![First(Unused)] = Deactivated(Allocated(f))]
      /\ st' = [st EXCEPT ![f] = "refused"] /\ line' = [line EXCEPT ![f] = "down"]
      /\ draws' = draws + 1 /\ UNCHANGED <<call, got, put, toSrv, toCli, srv, damaged>>
  BY DEF HelloUnsent, Connects
<1>2. First(Unused) \in Slots /\ Deactivated(Allocated(f)).active = FALSE
  BY <1>1, UnusedSlot, AllocatedIs
<1>3. line'[f] = "down" /\ line' = [line EXCEPT ![f] = line'[f]]
  BY <1>1 DEF Conversations, Tables
<1>4. draws' \in 0 .. MaxConn
  BY <1>1, TlsAssumption DEF Conversations, Tables
<1>5. Conversations'
  <2>1. \E i \in Slots : \E c : conns' = [conns EXCEPT ![i] = c] /\ c.active = FALSE
    BY <1>1, <1>2
  <2> QED  BY <1>1, <1>3, <1>4, <2>1, Unasked
<1>6. Justified
  BY <1>1, <1>3 DEF Justified, Reason, TInv, Shapes
<1> QED  BY <1>5, <1>6

\* The ClientHello is sent (1291-1366).
LEMMA HelloSound ==
  ASSUME TInv, Conversations, NEW f \in Fds, vtls_handshake(f)
  PROVE  Conversations' /\ Justified
<1> DEFINE i == First(Unused)
           n == draws + 1
           hello == Msg(ClientHello, <<n>>)
           c == Allocated(f)
           h == [at |-> "flight", hash |-> sha256_update[HashInit][MsgBytes(hello)],
                 client |-> n, server |-> 0, cert |-> 0,
                 got_hello |-> FALSE, got_cert |-> FALSE, got_done |-> FALSE,
                 cert_requested |-> FALSE, got_ccs |-> FALSE, master |-> << >>]
           up == <<tls_write_record(c, Handshake, <<hello>>)>>
<1>1. /\ ~ Busy /\ st[f] = "closed" /\ Unused # {} /\ draws < MaxConn
      /\ toSrv' = [toSrv EXCEPT ![f] = up] /\ line' = [line EXCEPT ![f] = "up"]
      /\ conns' = [conns EXCEPT ![i] = c] /\ st' = [st EXCEPT ![f] = "tcp"] /\ draws' = n
      /\ call'.op = "handshake" /\ call'.fd = f /\ call'.slot = i /\ hs' = h
      /\ UNCHANGED <<got, put, toCli, srv, damaged>>
  BY DEF vtls_handshake, Connects
<1>2. /\ line[f] = "none" /\ srv[f] = FreshServer /\ damaged[f] = FALSE
      /\ toSrv[f] = << >> /\ toCli[f] = << >> /\ Quiet(f) /\ Always(f)
  BY <1>1, ClosedIs
<1>3. i \in Slots /\ c.sockfd = f
  BY <1>1, UnusedSlot, AllocatedIs
<1>4. draws' \in 0 .. MaxConn /\ n \in 1 .. MaxConn /\ n \in Nat
  BY <1>1, TlsAssumption DEF Conversations, Tables
<1>5. /\ h.at = "flight" /\ h.hash = sha256_update[HashInit][MsgBytes(hello)] /\ h.client = n
      /\ h.got_ccs = FALSE /\ h.got_done = FALSE /\ h.cert_requested = FALSE /\ IsHandshake(h)
  BY DEF IsHandshake
<1> HIDE DEF i, n, h
<1>6. Asking(h, FreshServer, up, << >>)
      /\ c.seq_recv = 0 /\ c.app_buf = << >> /\ c.cipher_active = FALSE /\ c.seq_send = 0
  BY <1>4, <1>5, HelloAsks
<1> HIDE DEF c
<1>7. conns'[i] = c /\ st'[f] = "tcp" /\ toSrv'[f] = up /\ line'[f] = "up"
      /\ \A g \in Fds : g # f => st[g] # "tcp"
  BY <1>1, <1>3, Between DEF TInv, Shapes, Conversations, Tables
<1>8. Touches(f)
  <2>1. /\ srv' = [srv EXCEPT ![f] = srv'[f]] /\ toSrv' = [toSrv EXCEPT ![f] = toSrv'[f]]
        /\ got' = [got EXCEPT ![f] = got'[f]] /\ put' = [put EXCEPT ![f] = put'[f]]
        /\ damaged' = [damaged EXCEPT ![f] = damaged'[f]]
        /\ toCli' = [toCli EXCEPT ![f] = toCli'[f]]
        /\ line' = [line EXCEPT ![f] = line'[f]] /\ st' = [st EXCEPT ![f] = st'[f]]
    BY <1>1, <1>7 DEF Conversations, Tables
  <2> QED  BY <1>1, <1>3, <2>1 DEF Touches
<1>9. Sound(f)'
  <2>1. /\ toCli'[f] = << >> /\ srv'[f] = FreshServer /\ got'[f] = got[f]
        /\ put'[f] = put[f] /\ damaged'[f] = FALSE
    BY <1>1, <1>2
  <2>2. IsSeq(toSrv'[f])
    <3>1. IsSeq(up)
      BY DEF IsSeq
    <3> QED  BY <1>7, <3>1
  <2>3. Always(f)'
    BY ONLY <1>2, <1>7, <2>1, <2>2 DEF Always, Kinds
  <2>4. Quiet(f)'
    BY ONLY <1>2, <2>1 DEF Quiet
  <2>5. Talking(hs', conns'[call'.slot], srv'[f], toSrv'[f], toCli'[f], damaged'[f], f,
                line'[f] = "up")
    <3>1. Talking(h, c, FreshServer, up, << >>, FALSE, f, TRUE)
      BY <1>4, <1>5, <1>6 DEF Talking
    <3>2. hs' = h /\ conns'[call'.slot] = c /\ toSrv'[f] = up /\ (line'[f] = "up") = TRUE
      BY <1>1, <1>7
    <3> QED  BY <2>1, <3>1, <3>2
  <2>6. call'.op = "handshake" /\ call'.fd = f /\ hs'.client = draws' /\ line'[f] \in {"up", "down"}
    BY <1>1, <1>5, <1>7
  <2> QED  BY ONLY <1>7, <2>3, <2>4, <2>5, <2>6 DEF Sound
<1>10. Conversations'
  <2>1. call'.op # "recv" /\ TInv /\ Conversations /\ f \in Fds
    BY <1>1
  <2> QED  BY ONLY <1>4, <1>7, <1>8, <1>9, <2>1, OneTouched
<1>11. Justified
  BY <1>1, <1>7 DEF Justified, TInv, Shapes
<1> QED  BY <1>10, <1>11

\* The session that vtls_send, vtls_recv and vtls_close find (1038-1045).
LEMMA TheUser ==
  ASSUME TInv, Conversations, NEW f \in Fds, ~ Busy, st[f] \in {"tls", "failed"}, find_conn(f) # {}
  PROVE  SessionOf(f, Session(f)) /\ call.op = "none"
<1>1. call.op = "none"
  BY Between
<1>2. Session(f) \in Slots /\ InUse(Session(f), f)
  BY SessionSlot
<1> QED  BY <1>1, <1>2, TheSession

LEMMA SendSound ==
  ASSUME TInv, Conversations, NEW f \in Fds, vtls_send(f)
  PROVE  Conversations' /\ Justified
<1>1. PICK i, n : /\ i = Session(f) /\ n \in SendSizes /\ Secure(f)
                  /\ Send(i, f, conns[i], Application, Bytes(put[f], n))
                  /\ put' = [put EXCEPT ![f] = @ + n]
                  /\ UNCHANGED <<st, call, hs, draws, got, srv, damaged>>
  BY DEF vtls_send
<1>2. SessionOf(f, i) /\ call.op = "none" /\ st[f] = "tls"
  BY <1>1, TheUser DEF Secure
<1> DEFINE c == conns[i]
           r == tls_write_record(c, Application, Bytes(put[f], n))
<1>3. /\ line[f] = "up" /\ toSrv' = [toSrv EXCEPT ![f] = Append(@, r)]
      /\ conns' = [conns EXCEPT ![i] = Sent(c)] /\ UNCHANGED <<toCli, line>>
  BY <1>1 DEF Send
<1>4. /\ IsConn(c) /\ i \in Slots /\ Always(f) /\ Outgoing(srv[f], toSrv[f], put[f], FALSE)
      /\ Served1(c, srv[f], toSrv[f], toCli[f], got[f], damaged[f], f, line[f] = "up", TRUE)
      /\ got[f] = Bytes(0, Len(got[f]))
  BY <1>2, <1>3, SessionIs
<1>5. /\ IsSeq(toSrv[f]) /\ srv[f].got \in Seq(Nat) /\ put[f] \in Nat /\ n \in Nat
      /\ got[f] \in Seq(Nat)
      /\ damaged[f] \in BOOLEAN
  BY <1>1, <1>4, QueuesAre, TlsAssumption
<1>6. /\ toSrv'[f] = Append(toSrv[f], r) /\ toSrv' = [toSrv EXCEPT ![f] = toSrv'[f]]
      /\ toCli'[f] = toCli[f] /\ toCli' = [toCli EXCEPT ![f] = toCli'[f]] /\ Queued(f)
  <2> HIDE DEF r
  <2> QED  BY <1>3, OneWritten
<1>7. /\ put'[f] = put[f] + n /\ put' = [put EXCEPT ![f] = put'[f]]
      /\ got' = [got EXCEPT ![f] = got'[f]]
      /\ got'[f] = got[f] /\ st' = [st EXCEPT ![f] = "tls"] /\ put'[f] \in Nat
  <2>1. put = [g \in Fds |-> put[g]] /\ got = [g \in Fds |-> got[g]]
    BY DEF Conversations, Tables
  <2>2. put' = [put EXCEPT ![f] = @ + n] /\ got' = got /\ f \in Fds /\ st' = st
    BY <1>1
  <2>3. put'[f] = put[f] + n /\ put' = [put EXCEPT ![f] = put'[f]]
    BY ONLY <2>1, <2>2
  <2>4. got' = [got EXCEPT ![f] = got'[f]] /\ got'[f] = got[f]
    BY ONLY <2>1, <2>2
  <2>5. st' = [st EXCEPT ![f] = "tls"]
    BY <1>2, <2>2 DEF TInv, Shapes
  <2>6. put[f] + n \in Nat
    BY ONLY <1>5
  <2> QED  BY <2>3, <2>4, <2>5, <2>6
<1>8. DataSentTo(c, srv[f], toSrv[f], toCli[f], got[f], damaged[f], f, put[f], n)
  <2>1. (line[f] = "up") = TRUE
    BY <1>3
  <2>2. Served1(c, srv[f], toSrv[f], toCli[f], got[f], damaged[f], f, TRUE, TRUE)
    BY <1>4, <2>1
  <2> HIDE DEF c, r
  <2> QED  BY ONLY <1>4, <1>5, <2>2, DataSent
<1>9. /\ Outgoing(srv[f], toSrv'[f], put'[f], FALSE)
      /\ Served1(Sent(c), srv[f], toSrv'[f], toCli'[f], got'[f], damaged[f], f, line[f] = "up",
                 "tls" = "tls")
  <2>1. /\ Outgoing(srv[f], Append(toSrv[f], r), put[f] + n, FALSE)
        /\ Served1(Sent(c), srv[f], Append(toSrv[f], r), toCli[f], got[f], damaged[f], f, TRUE,
                   TRUE)
    BY ONLY <1>8 DEF DataSentTo, r
  <2>2. (line[f] = "up") = TRUE /\ ("tls" = "tls") = TRUE
    BY <1>3
  <2> HIDE DEF c, r
  <2> QED  BY ONLY <1>6, <1>7, <2>1, <2>2
<1>10. Same(c, Sent(c))
  BY <1>4, RecordsKeep
<1>11. Conversations'
  <2>1. /\ TInv /\ Conversations /\ SessionOf(f, i) /\ "tls" \in {"tls", "failed"}
        /\ UNCHANGED <<draws, line, srv, damaged>> /\ call'.op = "none"
        /\ got'[f] \in Seq(Nat) /\ got'[f] = Bytes(0, Len(got'[f]))
    BY <1>1, <1>2, <1>3, <1>4, <1>5, <1>7
  <2> QED  BY ONLY <1>3, <1>6, <1>7, <1>9, <1>10, <2>1, Progressed
<1>12. Justified
  BY <1>1 DEF Justified
<1> QED  BY <1>11, <1>12

\* vtls_send finds the connection lost (1655-1663).
LEMMA SendFailsSound ==
  ASSUME TInv, Conversations, NEW f \in Fds, SendFails(f)
  PROVE  Conversations' /\ Justified
<1>1. PICK i : i = Session(f) /\ Secure(f) /\ line[f] = "down"
               /\ conns' = [conns EXCEPT ![i] = Sent(@)] /\ st' = [st EXCEPT ![f] = "failed"]
               /\ UNCHANGED <<call, draws, got, put, toSrv, toCli, line, srv, damaged>>
  BY DEF SendFails, net
<1>2. SessionOf(f, i) /\ call.op = "none" /\ st[f] = "tls"
  BY <1>1, TheUser DEF Secure
<1>3. /\ IsConn(conns[i]) /\ i \in Slots /\ Always(f)
      /\ Served1(conns[i], srv[f], toSrv[f], toCli[f], got[f], damaged[f], f, line[f] = "up", TRUE)
  BY <1>2, SessionIs
<1> DEFINE c == Sent(conns[i])
<1>4. conns' = [conns EXCEPT ![i] = c] /\ Same(conns[i], c)
  BY <1>1, <1>3, RecordsKeep
<1>5. Served1(c, srv[f], toSrv[f], toCli[f], got[f], damaged[f], f, line[f] = "up", FALSE)
  <2>1. (line[f] = "up") = FALSE
    BY <1>1
  <2>2. Served1(c, srv[f], toSrv[f], toCli[f], got[f], damaged[f], f, FALSE, FALSE)
    BY <1>3, ServedUnsent
  <2> QED  BY <2>1, <2>2
<1>6. toCli' = [toCli EXCEPT ![f] = toCli'[f]] /\ Queued(f)
  <2>1. toCli' = [toCli EXCEPT ![f] = toCli'[f]]
    BY <1>1 DEF Conversations, Tables
  <2> QED  BY <1>1, <1>3, <2>1, QueuesAre DEF Queued
<1>7. Reason(f)
  BY <1>1 DEF Reason
<1>8. /\ TInv /\ Conversations /\ call'.op = "none" /\ st' = [st EXCEPT ![f] = "failed"]
      /\ UNCHANGED <<draws, line, srv, damaged, toSrv, got, put>>
  BY <1>1, <1>2
<1> HIDE DEF c
<1> QED  BY ONLY <1>2, <1>4, <1>5, <1>6, <1>7, <1>8, Fails

\* vtls_recv hands out what it has kept (1665-1682).
LEMMA BufferedSound ==
  ASSUME TInv, Conversations, NEW f \in Fds, RecvBuffered(f)
  PROVE  Conversations' /\ Justified
<1>1. PICK i, n : /\ i = Session(f) /\ n \in RecvSizes /\ Secure(f)
                  /\ got' = [got EXCEPT ![f] = @ \o Copied(conns[i].app_buf, n)]
                  /\ conns' = [conns EXCEPT ![i].app_buf = Rest(@, n)]
                  /\ UNCHANGED <<st, call, hs, draws, put, net, srv, damaged>>
  BY DEF RecvBuffered
<1>2. SessionOf(f, i) /\ call.op = "none" /\ st[f] = "tls"
  BY <1>1, TheUser DEF Secure
<1>3. /\ IsConn(conns[i]) /\ i \in Slots /\ Always(f)
      /\ line[f] = "up" => Outgoing(srv[f], toSrv[f], put[f], FALSE)
      /\ Served1(conns[i], srv[f], toSrv[f], toCli[f], got[f], damaged[f], f, line[f] = "up", TRUE)
  BY <1>2, SessionIs
<1> DEFINE c == conns[i]
           b == [c EXCEPT !.app_buf = Rest(@, n)]
           more == got[f] \o Copied(c.app_buf, n)
<1>4. n \in Nat /\ got[f] \in Seq(Nat) /\ put[f] \in Nat
  BY <1>1, <1>3, QueuesAre, TlsAssumption
<1>5. conns' = [conns EXCEPT ![i] = b] /\ Same(c, b)
  BY <1>1, <1>3, RecordsKeep
<1> HIDE DEF b, more
<1>6. got'[f] = more /\ got' = [got EXCEPT ![f] = more]
  <2>1. got = [g \in Fds |-> got[g]]
    BY DEF Conversations, Tables
  <2> QED  BY <1>1, <2>1 DEF more
<1>7. BufferGiven(c, b, srv[f], toSrv[f], toCli[f], got[f], more, damaged[f], f, line[f] = "up")
  <2>1. /\ more = got[f] \o Copied(c.app_buf, n) /\ b = [c EXCEPT !.app_buf = Rest(@, n)]
        /\ IsConn(c)
        /\ Served1(c, srv[f], toSrv[f], toCli[f], got[f], damaged[f], f, line[f] = "up", TRUE)
    BY <1>3 DEF more, b
  <2> HIDE DEF c
  <2> QED  BY ONLY <1>4, <2>1, BufferRead
<1>8. more \in Seq(Nat) /\ more = Bytes(0, Len(more))
      /\ Served1(b, srv[f], toSrv[f], toCli[f], more, damaged[f], f, line[f] = "up", TRUE)
  BY ONLY <1>7 DEF BufferGiven
<1>9. /\ toSrv' = [toSrv EXCEPT ![f] = toSrv'[f]] /\ toCli' = [toCli EXCEPT ![f] = toCli'[f]]
      /\ put' = [put EXCEPT ![f] = put'[f]] /\ got' = [got EXCEPT ![f] = got'[f]]
      /\ st' = [st EXCEPT ![f] = "tls"] /\ "tls" \in {"tls", "failed"}
      /\ toSrv'[f] = toSrv[f] /\ toCli'[f] = toCli[f] /\ put'[f] = put[f] /\ put'[f] \in Nat
      /\ UNCHANGED <<draws, line, srv, damaged>> /\ call'.op = "none"
  BY <1>1, <1>2, <1>4, <1>6 DEF net, Conversations, Tables, TInv, Shapes
<1>10. Queued(f)
  BY <1>1, <1>3, QueuesAre DEF Queued, net
<1>11. /\ line[f] = "up" => Outgoing(srv[f], toSrv'[f], put'[f], FALSE)
       /\ Served1(b, srv[f], toSrv'[f], toCli'[f], got'[f], damaged[f], f, line[f] = "up",
                  "tls" = "tls")
  <2>1. ("tls" = "tls") = TRUE
    OBVIOUS
  <2> QED  BY <1>3, <1>6, <1>8, <1>9, <2>1
<1>12. Conversations'
  <2>1. /\ TInv /\ Conversations /\ SessionOf(f, i)
        /\ got'[f] \in Seq(Nat) /\ got'[f] = Bytes(0, Len(got'[f]))
    BY <1>2, <1>6, <1>8
  <2> QED  BY ONLY <1>5, <1>9, <1>10, <1>11, <2>1, Progressed
<1>13. Justified
  BY <1>1 DEF Justified
<1> QED  BY <1>12, <1>13

\* vtls_recv begins to read a record.
LEMMA RecvStarts ==
  ASSUME TInv, Conversations, NEW f \in Fds, vtls_recv(f)
  PROVE  Conversations' /\ Justified
<1>1. /\ Secure(f) /\ conns[Session(f)].app_buf = << >>
      /\ call'.op = "recv" /\ call'.fd = f /\ call'.slot = Session(f)
      /\ UNCHANGED <<conns, st, hs, draws, got, put, toSrv, toCli, line, srv, damaged>>
  BY DEF vtls_recv, net
<1>2. Session(f) \in Slots /\ InUse(Session(f), f)
  BY <1>1, SessionSlot DEF Secure
<1>3. \A g \in Fds : st[g] # "tcp"
  BY <1>1, Between DEF Secure
<1>4. Tables'
  <2>1. /\ toSrv' = [g \in Fds |-> toSrv'[g]] /\ toCli' = [g \in Fds |-> toCli'[g]]
        /\ line' = [g \in Fds |-> line'[g]] /\ srv' = [g \in Fds |-> srv'[g]]
        /\ got' = [g \in Fds |-> got'[g]] /\ put' = [g \in Fds |-> put'[g]]
        /\ damaged' = [g \in Fds |-> damaged'[g]] /\ draws' \in 0 .. MaxConn
    BY <1>1 DEF Conversations, Tables
  <2>2. conns'[call'.slot].active /\ conns'[call'.slot].sockfd = call'.fd
        /\ conns'[call'.slot].app_buf = << >>
    BY <1>1, <1>2 DEF InUse
  <2> QED  BY ONLY <2>1, <2>2 DEF Tables, InUse
<1>5. ASSUME NEW g \in Fds PROVE Sound(g)'
  <2>1. Apart(g)
    BY <1>1, <1>3 DEF Apart, InUse
  <2> QED  BY <2>1, ApartSound DEF Conversations
<1>6. Justified
  BY <1>1 DEF Justified
<1> QED  BY <1>4, <1>5, <1>6 DEF Conversations

\* close_notify, and the slot is cleared (1730-1744).
LEMMA CloseSound ==
  ASSUME TInv, Conversations, NEW f \in Fds, vtls_close(f)
  PROVE  Conversations' /\ Justified
<1>1. PICK i : /\ i = Session(f) /\ ~ Busy /\ st[f] \in {"tls", "failed"} /\ find_conn(f) # {}
               /\ \/ /\ line[f] = "up"
                     /\ toSrv' = [toSrv EXCEPT ![f] =
                          Append(@, tls_write_record(conns[i], Alert, <<1, 0>>))]
                  \/ line[f] = "down" /\ UNCHANGED toSrv
               /\ conns' = [conns EXCEPT ![i] = FreeConn] /\ st' = [st EXCEPT ![f] = "ended"]
               /\ UNCHANGED <<call, hs, draws, got, put, toCli, line, srv, damaged>>
  BY DEF vtls_close
<1>2. SessionOf(f, i) /\ call.op = "none"
  BY <1>1, TheUser
<1> DEFINE c == conns[i]
           r == tls_write_record(c, Alert, <<1, 0>>)
<1>3. /\ IsConn(c) /\ i \in Slots /\ Always(f) /\ srv[f].rejected = FALSE /\ draws \in 0 .. MaxConn
      /\ line[f] = "up" => Outgoing(srv[f], toSrv[f], put[f], FALSE)
      /\ Served1(c, srv[f], toSrv[f], toCli[f], got[f], damaged[f], f, line[f] = "up",
                 st[f] = "tls")
      /\ \A g \in Fds : st[g] # "tcp"
  BY <1>2 DEF SessionOf
<1>4. /\ IsSeq(toSrv[f]) /\ IsSeq(toCli[f]) /\ \A j \in 1 .. Len(toCli[f]) : IsRecord(toCli[f][j])
      /\ srv[f].got \in Seq(Nat) /\ put[f] \in Nat /\ got[f] \in Seq(Nat)
      /\ line[f] # "up" => toSrv[f] = << >> /\ toCli[f] = << >>
  BY <1>3, QueuesAre
<1>5. line[f] = "up"
           => IsSeq(Append(toSrv[f], r)) /\ Outgoing(srv[f], Append(toSrv[f], r), put[f], TRUE)
  <2> SUFFICES ASSUME line[f] = "up"
               PROVE  IsSeq(Append(toSrv[f], r))
                        /\ Outgoing(srv[f], Append(toSrv[f], r), put[f], TRUE)
    OBVIOUS
  <2>1. (line[f] = "up") = TRUE
    OBVIOUS
  <2>2. Served1(c, srv[f], toSrv[f], toCli[f], got[f], damaged[f], f, TRUE, st[f] = "tls")
        /\ Outgoing(srv[f], toSrv[f], put[f], FALSE)
    BY <1>3, <2>1
  <2> HIDE DEF c
  <2> QED  BY ONLY <1>4, <2>2, CloseSent
<1> HIDE DEF r
<1>6. /\ line[f] = "up" => toSrv'[f] = Append(toSrv[f], r)
      /\ line[f] # "up" => toSrv'[f] = toSrv[f]
      /\ toSrv' = [toSrv EXCEPT ![f] = toSrv'[f]]
  <2>1. toSrv = [g \in Fds |-> toSrv[g]]
    BY DEF Conversations, Tables
  <2>2. \/ line[f] = "up" /\ toSrv' = [toSrv EXCEPT ![f] = Append(@, r)]
        \/ line[f] = "down" /\ toSrv' = toSrv
    BY <1>1 DEF r
  <2> QED  BY ONLY <2>1, <2>2, f \in Fds
<1>7. st'[f] = "ended" /\ st' = [st EXCEPT ![f] = st'[f]]
  BY <1>1 DEF TInv, Shapes
<1>8. Touches(f)
  <2>1. /\ srv' = [srv EXCEPT ![f] = srv'[f]] /\ toCli' = [toCli EXCEPT ![f] = toCli'[f]]
        /\ got' = [got EXCEPT ![f] = got'[f]] /\ put' = [put EXCEPT ![f] = put'[f]]
        /\ damaged' = [damaged EXCEPT ![f] = damaged'[f]] /\ line' = [line EXCEPT ![f] = line'[f]]
    BY <1>1 DEF Conversations, Tables
  <2>2. FreeConn.active = FALSE
    BY AllocatedIs
  <2> QED  BY <1>1, <1>3, <1>6, <1>7, <2>1, <2>2 DEF Touches
<1>9. Sound(f)'
  <2>1. /\ toCli'[f] = toCli[f] /\ srv'[f] = srv[f] /\ got'[f] = got[f] /\ line'[f] = line[f]
        /\ put'[f] = put[f] /\ damaged'[f] = damaged[f]
    BY <1>1
  <2>2. IsSeq(toSrv'[f]) /\ (line'[f] # "up" => toSrv'[f] = << >> /\ toCli'[f] = << >>)
    BY <1>4, <1>5, <1>6, <2>1
  <2>3. Always(f)'
    BY ONLY <1>3, <2>1, <2>2 DEF Always, Kinds
  <2>4. line'[f] = "up" => Outgoing(srv'[f], toSrv'[f], put'[f], st'[f] = "ended")
    <3>1. (st'[f] = "ended") = TRUE
      BY <1>7
    <3> QED  BY <1>5, <1>6, <2>1, <3>1
  <2>5. srv'[f].rejected = FALSE
    BY <1>3, <2>1
  <2> QED  BY ONLY <1>7, <2>3, <2>4, <2>5 DEF Sound
<1>10. Conversations'
  <2>1. /\ TInv /\ Conversations /\ f \in Fds /\ draws' \in 0 .. MaxConn /\ call'.op # "recv"
        /\ \A g \in Fds : g # f => st[g] # "tcp"
    BY <1>1, <1>2, <1>3
  <2> QED  BY ONLY <1>8, <1>9, <2>1, OneTouched
<1>11. Justified
  BY <1>1, <1>7 DEF Justified, TInv, Shapes
<1> QED  BY <1>10, <1>11

LEMMA CloseSocketSound ==
  ASSUME TInv, Conversations, NEW f \in Fds, CloseSocket(f)
  PROVE  Conversations' /\ Justified
<1>1. /\ ~ Busy /\ st' = [st EXCEPT ![f] = "closed"]
      /\ got' = [got EXCEPT ![f] = << >>] /\ put' = [put EXCEPT ![f] = 0]
      /\ toSrv' = [toSrv EXCEPT ![f] = << >>] /\ toCli' = [toCli EXCEPT ![f] = << >>]
      /\ line' = [line EXCEPT ![f] = "none"] /\ srv' = [srv EXCEPT ![f] = FreshServer]
      /\ damaged' = [damaged EXCEPT ![f] = FALSE] /\ UNCHANGED <<conns, call, draws>>
  BY DEF CloseSocket
<1>2. call'.op = "none" /\ draws' \in 0 .. MaxConn /\ \A g \in Fds : g # f => st[g] # "tcp"
  BY <1>1, Between
<1>3. /\ st'[f] = "closed" /\ got'[f] = << >> /\ put'[f] = 0 /\ toSrv'[f] = << >>
      /\ toCli'[f] = << >> /\ line'[f] = "none" /\ srv'[f] = FreshServer /\ damaged'[f] = FALSE
  BY <1>1 DEF Conversations, Tables, TInv, Shapes
<1>4. Touches(f)
  BY <1>1, <1>3 DEF Touches
<1>5. Sound(f)'
  <2>1. /\ IsServer(FreshServer) /\ FreshServer.rejected = FALSE /\ FreshServer.sent = 0
        /\ FreshServer.got = << >>
    BY DEF FreshServer, IsServer
  <2>2. Bytes(0, 0) = << >> /\ Len(<< >>) = 0 /\ IsSeq(<< >>) /\ << >> \in Seq(Nat)
    BY BytesAre, SmallSeqs
  <2>3. IsSeq(toSrv'[f]) /\ IsSeq(toCli'[f]) /\ Len(toCli'[f]) = 0
    BY <1>3, <2>2, Zenon
  <2>4. \A i \in 1 .. Len(toCli'[f]) : IsRecord(toCli'[f][i])
    BY <2>3
  <2>5. /\ IsServer(srv'[f]) /\ srv'[f].rejected \in BOOLEAN /\ srv'[f].sent \in Nat
        /\ srv'[f].got \in Seq(Nat) /\ got'[f] \in Seq(Nat) /\ put'[f] \in Nat
        /\ damaged'[f] \in BOOLEAN
    <3>1. 0 \in Nat /\ FALSE \in BOOLEAN
      OBVIOUS
    <3> QED  BY <1>3, <2>1, <2>2, <3>1, Zenon
  <2>6. Kinds(f)'
    BY <2>3, <2>4, <2>5 DEF Kinds
  <2>7. Always(f)'
    BY ONLY <1>3, <2>1, <2>2, <2>6 DEF Always
  <2>8. Quiet(f)'
    BY <1>3, <2>1 DEF Quiet
  <2> QED  BY ONLY <1>3, <2>7, <2>8 DEF Sound
<1>6. Conversations'
  <2>1. TInv /\ Conversations /\ f \in Fds /\ call'.op # "recv"
    BY <1>2
  <2> QED  BY ONLY <1>2, <1>4, <1>5, <2>1, OneTouched
<1>7. Justified
  BY <1>1, <1>3 DEF Justified, TInv, Shapes
<1> QED  BY <1>6, <1>7

LEMMA ProgramSound ==
  ASSUME TInv, Conversations, NEW f \in Fds, Program(f)
  PROVE  Conversations' /\ Justified
BY NoSlotSound, HelloSound, HelloUnsentSound, SendSound, SendFailsSound, BufferedSound,
   RecvStarts, CloseSound, CloseSocketSound DEF Program

----------------------------------------------------------------------------
(***************************************************************************)
(* The steps of the servers and of the network.                            *)
(***************************************************************************)
\* What socket f knows while its connection holds, with server s, up and down
\* under way, and damage d.
Held(f, s, up, down, d) ==
  /\ st[f] = "tcp" => s.got = << >> /\ Talking(hs, conns[call.slot], s, up, down, d, f, TRUE)
  /\ st[f] = "refused" => s.got = << >> /\ Refused(s, up)
  /\ st[f] \in {"tls", "failed", "ended"} =>
       s.rejected = FALSE /\ Outgoing(s, up, put[f], st[f] = "ended")
  /\ st[f] \in {"tls", "failed"} =>
       \A i \in Slots : InUse(i, f)
            => Served1(conns[i], s, up, down, got[f], d, f, TRUE, st[f] = "tls")

\* A server, and what is under way, after a step.
Formed(s, up, down, d) ==
  /\ IsSeq(up) /\ IsSeq(down) /\ \A i \in 1 .. Len(down) : IsRecord(down[i])
  /\ IsServer(s) /\ s.rejected \in BOOLEAN /\ s.sent \in Nat
  /\ s.got \in Seq(Nat) /\ s.got = Bytes(0, Len(s.got)) /\ d \in BOOLEAN
  /\ s.rejected = TRUE => d = TRUE

LEMMA UpIs ==
  ASSUME TInv, Conversations, NEW f \in Fds, line[f] = "up"
  PROVE  /\ Held(f, srv[f], toSrv[f], toCli[f], damaged[f])
         /\ Formed(srv[f], toSrv[f], toCli[f], damaged[f])
         /\ st[f] # "closed" /\ got[f] \in Seq(Nat) /\ put[f] \in Nat
<1>1. Sound(f) /\ (line[f] = "up") = TRUE
  BY DEF Conversations
<1>2. Always(f)
  BY <1>1 DEF Sound
<1>3. Formed(srv[f], toSrv[f], toCli[f], damaged[f]) /\ got[f] \in Seq(Nat) /\ put[f] \in Nat
  BY <1>2 DEF Always, Kinds, Formed
<1>4. st[f] # "closed"
  BY <1>1 DEF Sound
<1>5. /\ st[f] = "tcp" =>
           /\ call.fd = f /\ srv[f].got = << >>
           /\ Talking(hs, conns[call.slot], srv[f], toSrv[f], toCli[f], damaged[f], f, TRUE)
      /\ st[f] = "refused" => srv[f].got = << >> /\ Refused(srv[f], toSrv[f])
  BY <1>1 DEF Sound, Quiet
<1>6. /\ st[f] \in {"tls", "failed", "ended"} =>
           srv[f].rejected = FALSE /\ Outgoing(srv[f], toSrv[f], put[f], st[f] = "ended")
      /\ st[f] \in {"tls", "failed"} =>
           \A i \in Slots : InUse(i, f) =>
             Served1(conns[i], srv[f], toSrv[f], toCli[f], got[f], damaged[f], f, TRUE,
                     st[f] = "tls")
  BY <1>1 DEF Sound
<1> QED  BY <1>3, <1>4, <1>5, <1>6 DEF Held

\* The variables outside the program, but for socket f.
Beside(f) ==
  /\ toSrv' = [toSrv EXCEPT ![f] = toSrv'[f]] /\ toCli' = [toCli EXCEPT ![f] = toCli'[f]]
  /\ srv' = [srv EXCEPT ![f] = srv'[f]] /\ damaged' = [damaged EXCEPT ![f] = damaged'[f]]

LEMMA UpSound ==
  ASSUME TInv, Conversations, NEW f \in Fds, line[f] = "up", UNCHANGED program, UNCHANGED line,
         Beside(f), Formed(srv'[f], toSrv'[f], toCli'[f], damaged'[f]),
         Held(f, srv'[f], toSrv'[f], toCli'[f], damaged'[f])
  PROVE  Conversations'
<1>1. UNCHANGED <<conns, st, call, hs, draws, got, put>> /\ line' = line
  BY DEF program
<1>2. Sound(f) /\ (line'[f] = "up") = TRUE /\ st[f] # "closed"
  BY <1>1, UpIs DEF Conversations
<1>3. Touches(f)
  <2>1. /\ line' = [line EXCEPT ![f] = line'[f]] /\ got' = [got EXCEPT ![f] = got'[f]]
        /\ put' = [put EXCEPT ![f] = put'[f]] /\ st' = [st EXCEPT ![f] = st'[f]]
    BY <1>1 DEF Conversations, Tables, TInv, Shapes
  <2> QED  BY <1>1, <2>1 DEF Touches, Beside
<1>4. Always(f)'
  BY <1>1, <1>2 DEF Sound, Always, Kinds, Formed
<1>5. /\ st'[f] \in {"closed", "tcp", "refused"} => Quiet(f)'
      /\ st'[f] = "tcp" =>
           /\ call'.op = "handshake" /\ call'.fd = f /\ hs'.client = draws'
           /\ line'[f] \in {"up", "down"}
           /\ Talking(hs', conns'[call'.slot], srv'[f], toSrv'[f], toCli'[f], damaged'[f], f,
                      line'[f] = "up")
  BY <1>1, <1>2 DEF Sound, Quiet, Held
<1>6. /\ st'[f] = "refused" => Refused(srv'[f], toSrv'[f])
      /\ st'[f] \in {"tls", "failed", "ended"} =>
           /\ srv'[f].rejected = FALSE
           /\ line'[f] = "up" => Outgoing(srv'[f], toSrv'[f], put'[f], st'[f] = "ended")
  BY <1>1, <1>2 DEF Held
<1>7. st'[f] \in {"tls", "failed"} =>
        \A i \in Slots : InUse(i, f)' =>
          Served1(conns'[i], srv'[f], toSrv'[f], toCli'[f], got'[f], damaged'[f], f,
                  line'[f] = "up", st'[f] = "tls")
  BY <1>1, <1>2 DEF Held, InUse
<1>8. Sound(f)'
  <2>1. st'[f] # "closed"
    BY <1>1, <1>2
  <2> QED  BY ONLY <1>4, <1>5, <1>6, <1>7, <2>1 DEF Sound
<1> QED  BY <1>3, <1>8, OutsideTouched

\* The connection is lost.
LEMMA LostSound ==
  ASSUME TInv, Conversations, NEW f \in Fds, Lost(f) PROVE Conversations'
<1>1. /\ line[f] = "up" /\ line' = [line EXCEPT ![f] = "down"]
      /\ toSrv' = [toSrv EXCEPT ![f] = << >>] /\ toCli' = [toCli EXCEPT ![f] = << >>]
      /\ UNCHANGED <<conns, st, call, hs, draws, got, put, srv, damaged>> /\ UNCHANGED program
  BY DEF Lost, program
<1>2. /\ Held(f, srv[f], toSrv[f], toCli[f], damaged[f]) /\ st[f] # "closed" /\ Sound(f)
  BY <1>1, UpIs DEF Conversations
<1>3. /\ line'[f] = "down" /\ (line'[f] = "up") = FALSE /\ toSrv'[f] = << >> /\ toCli'[f] = << >>
  BY <1>1 DEF Conversations, Tables
<1>4. Touches(f)
  <2>1. /\ line' = [line EXCEPT ![f] = line'[f]] /\ toSrv' = [toSrv EXCEPT ![f] = toSrv'[f]]
        /\ toCli' = [toCli EXCEPT ![f] = toCli'[f]]
    BY <1>1, <1>3
  <2>2. /\ srv' = [srv EXCEPT ![f] = srv'[f]] /\ got' = [got EXCEPT ![f] = got'[f]]
        /\ put' = [put EXCEPT ![f] = put'[f]] /\ st' = [st EXCEPT ![f] = st'[f]]
        /\ damaged' = [damaged EXCEPT ![f] = damaged'[f]]
    BY <1>1 DEF Conversations, Tables, TInv, Shapes
  <2> QED  BY <1>1, <2>1, <2>2 DEF Touches
<1>5. Always(f)'
  <2>1. Always(f)
    BY <1>2 DEF Sound
  <2>2. IsSeq(toSrv'[f]) /\ IsSeq(toCli'[f]) /\ Len(toCli'[f]) = 0
    BY <1>3, SmallSeqs, Zenon
  <2>3. \A i \in 1 .. Len(toCli'[f]) : IsRecord(toCli'[f][i])
    BY <2>2
  <2>4. /\ srv'[f] = srv[f] /\ got'[f] = got[f] /\ put'[f] = put[f] /\ damaged'[f] = damaged[f]
    BY <1>1
  <2> QED  BY ONLY <1>3, <2>1, <2>2, <2>3, <2>4 DEF Always, Kinds
<1>6. /\ st'[f] \in {"closed", "tcp", "refused"} => Quiet(f)'
      /\ st'[f] = "tcp" =>
           /\ call'.op = "handshake" /\ call'.fd = f /\ hs'.client = draws'
           /\ line'[f] \in {"up", "down"}
           /\ Talking(hs', conns'[call'.slot], srv'[f], toSrv'[f], toCli'[f], damaged'[f], f,
                      line'[f] = "up")
  BY <1>1, <1>2, <1>3 DEF Sound, Quiet, Talking
<1>7. /\ st'[f] = "refused" => Refused(srv'[f], toSrv'[f])
      /\ st'[f] \in {"tls", "failed", "ended"} =>
           /\ srv'[f].rejected = FALSE
           /\ line'[f] = "up" => Outgoing(srv'[f], toSrv'[f], put'[f], st'[f] = "ended")
  BY <1>1, <1>2, <1>3 DEF Held, Refused
<1>8. st'[f] \in {"tls", "failed"} =>
        \A i \in Slots : InUse(i, f)' =>
          Served1(conns'[i], srv'[f], toSrv'[f], toCli'[f], got'[f], damaged'[f], f,
                  line'[f] = "up", st'[f] = "tls")
  <2>1. ASSUME st[f] \in {"tls", "failed"}, NEW i \in Slots, InUse(i, f)
        PROVE  Served1(conns[i], srv[f], toSrv'[f], toCli'[f], got[f], damaged[f], f, FALSE,
                       st[f] = "tls")
    BY <1>2, <2>1 DEF Held, Served1
  <2> QED  BY <1>1, <1>3, <2>1 DEF InUse
<1>9. Sound(f)'
  <2>1. st'[f] # "closed"
    BY <1>1, <1>2
  <2> QED  BY ONLY <1>5, <1>6, <1>7, <1>8, <2>1 DEF Sound
<1> QED  BY <1>1, <1>4, <1>9, OutsideTouched

\* Only a ClientHello finds a fresh server.
LEMMA HelloFinds ==
  ASSUME TInv, NEW f \in Fds, NEW s, NEW up, NEW down, NEW d, Held(f, s, up, down, d),
         st[f] # "closed", up # << >>, s.at = "hello"
  PROVE  st[f] = "tcp" /\ Asking(hs, s, up, down) /\ hs.client \in 1 .. MaxConn
<1>1. st[f] = "tcp"
  <2>1. st[f] # "refused"
    BY DEF Held, Refused
  <2>2. st[f] \notin {"tls", "failed", "ended"}
    BY DEF Held, Outgoing
  <2> QED  BY <2>1, <2>2 DEF TInv, Shapes, States
<1> DEFINE c == conns[call.slot]
<1>2. Talking(hs, c, s, up, down, d, f, TRUE)
  BY <1>1 DEF Held
<1>3. ~ Flying(hs, s, up, down, d, f)
  BY DEF Flying, FlyingAt
<1>4. ~ Answering(hs, c, s, up, down, d, f)
  BY DEF Answering, AnsweringAt, ServerAt, Stage
<1>5. ~ Opened(hs, c, s, up, down, d, f)
  BY DEF Opened, OpenedAt
<1>6. ~ Dead(s, down)
  BY DEF Dead
<1> HIDE DEF c
<1> QED  BY <1>1, <1>2, <1>3, <1>4, <1>5, <1>6 DEF Talking

\* Server s has become t, and socket f is in a handshake.
LEMMA HeldTalking ==
  ASSUME NEW f, NEW s, NEW up, NEW down, NEW d, st[f] = "tcp", s.got = << >>,
         Talking(hs, conns[call.slot], s, up, down, d, f, TRUE)
  PROVE  Held(f, s, up, down, d)
BY DEF Held

\* The handshake with other words.
LEMMA TalkingOn ==
  ASSUME NEW h, NEW c, NEW s, NEW up, NEW down, NEW d, NEW f,
         Talking(h, c, s, up, down, d, f, TRUE),
         NEW t, NEW p, NEW q, NEW e,
         \/ Flying(h, t, p, q, e, f)
         \/ Answering(h, c, t, p, q, e, f)
         \/ Opened(h, c, t, p, q, e, f)
         \/ Dead(t, q)
  PROVE  Talking(h, c, t, p, q, e, f, TRUE)
<1>1. /\ IsHandshake(h) /\ h.client \in 1 .. MaxConn /\ c.seq_recv = 0 /\ c.app_buf = << >>
      /\ h.at = "flight" => c.cipher_active = FALSE /\ c.seq_send = 0
  BY DEF Talking
<1> QED  BY <1>1 DEF Talking

LEMMA ServerFlightSound ==
  ASSUME TInv, Conversations, NEW f \in Fds, ServerFlight(f) PROVE Conversations'
<1> DEFINE hello == Head(toSrv[f]).data
           random == 50 + hello[1].v[1]
<1>1. PICK k \in Served[f], req \in BOOLEAN, cuts \in Cuts :
        /\ toSrv[f] # << >> /\ srv[f].at = "hello"
        /\ toSrv' = [toSrv EXCEPT ![f] = Tail(@)]
        /\ toCli' = [toCli EXCEPT ![f] = @ \o InRecords(Pieces(Flight(random, k, req), cuts))]
        /\ srv' = [srv EXCEPT ![f] =
             [@ EXCEPT !.at = IF req THEN "cert" ELSE "key", !.cert = k,
                       !.random = random, !.client = hello[1].v[1],
                       !.log = Flat(Handshake, hello) \o Flat(Handshake, Flight(random, k, req))]]
        /\ UNCHANGED program /\ UNCHANGED <<line, damaged>>
  <2>1. PICK k \in Served[f], req \in BOOLEAN :
          LET hi == Head(toSrv[f]).data
              x == 50 + hi[1].v[1]
              msgs == Flight(x, k, req)
          IN /\ Arrived(f) /\ srv[f].at = "hello"
             /\ toSrv' = [toSrv EXCEPT ![f] = Tail(@)]
             /\ \E cuts \in Cuts :
                  toCli' = [toCli EXCEPT ![f] = @ \o InRecords(Pieces(msgs, cuts))]
             /\ srv' = [srv EXCEPT ![f] =
                  [@ EXCEPT !.at = IF req THEN "cert" ELSE "key", !.cert = k,
                            !.random = x, !.client = hi[1].v[1],
                            !.log = Flat(Handshake, hi) \o Flat(Handshake, msgs)]]
             /\ UNCHANGED <<program, line, damaged>>
    BY DEF ServerFlight
  <2>2. PICK cuts : toCli' =
                      [toCli EXCEPT ![f] = @ \o InRecords(Pieces(Flight(random, k, req), cuts))]
    BY <2>1, Zenon
  <2>3. toSrv[f] # << >>
    BY <2>1, SMTT(40) DEF Arrived
  <2> QED  BY <2>1, <2>2, <2>3, ZenonT(45)
<1>2. line[f] = "up"
  BY <1>1, QueuesAre DEF Conversations, Sound
<1> DEFINE s == srv[f]
           up == toSrv[f]
           down == toCli[f]
           d == damaged[f]
           t == Presented(s, req, k, random,
                          Flat(Handshake, hello) \o Flat(Handshake, Flight(random, k, req)),
                          hello[1].v[1])
           q == down \o InRecords(Pieces(Flight(random, k, req), cuts))
<1>3. /\ Held(f, s, up, down, d) /\ st[f] # "closed" /\ d \in BOOLEAN
  BY <1>2, UpIs DEF Formed
<1>4. st[f] = "tcp" /\ Asking(hs, s, up, down) /\ hs.client \in 1 .. MaxConn
  <2>1. TInv /\ f \in Fds /\ up # << >> /\ s.at = "hello"
    BY <1>1
  <2> HIDE DEF s, up, down, d
  <2> QED  BY ONLY <1>3, <2>1, HelloFinds, SMTT(40)
<1>5. Departed(hs, t, Tail(up), q, d, f)
  <2>1. hello = Head(up).data /\ random = 50 + hello[1].v[1]
    OBVIOUS
  <2>2. f \in Fds /\ k \in Served[f] /\ req \in BOOLEAN
    BY <1>1
  <2>3. t = Presented(s, req, k, random,
                      Flat(Handshake, hello) \o Flat(Handshake, Flight(random, k, req)),
                      hello[1].v[1])
    OBVIOUS
  <2> HIDE DEF s, up, down, d, hello, random, t
  <2>4. Departed(hs, t, Tail(up), down \o InRecords(Pieces(Flight(random, k, req), cuts)), d, f)
    BY ONLY <1>4, <2>1, <2>2, <2>3, FlightLeaves, ZenonT(30)
  <2> QED  BY ONLY <2>4 DEF q
<1>6. /\ srv'[f] = t /\ toSrv'[f] = Tail(up) /\ toCli'[f] = q /\ damaged'[f] = d /\ Beside(f)
  <2>1. /\ toSrv = [g \in Fds |-> toSrv[g]] /\ toCli = [g \in Fds |-> toCli[g]]
        /\ srv = [g \in Fds |-> srv[g]] /\ damaged = [g \in Fds |-> damaged[g]]
    BY DEF Conversations, Tables
  <2>2. /\ toSrv' = [toSrv EXCEPT ![f] = Tail(up)] /\ toCli' = [toCli EXCEPT ![f] = q]
        /\ srv' = [srv EXCEPT ![f] = t] /\ damaged' = damaged
    BY <1>1 DEF Presented
  <2> HIDE DEF up, q, t
  <2> QED  BY ONLY <2>1, <2>2, f \in Fds DEF Beside, d
<1> HIDE DEF s, up, down, d, t, q
<1>7. Formed(t, Tail(up), q, d)
  <2>1. Bytes(0, 0) = << >> /\ Len(<< >>) = 0 /\ << >> \in Seq(Nat)
    BY BytesAre, SmallSeqs
  <2>2. /\ IsServer(t) /\ t.rejected = FALSE /\ t.sent = 0 /\ t.got = << >>
        /\ IsSeq(Tail(up)) /\ IsSeq(q) /\ \A i \in 1 .. Len(q) : IsRecord(q[i])
    BY <1>5 DEF Departed
  <2>3. t.rejected \in BOOLEAN /\ t.sent \in Nat
    <3>1. t.rejected = FALSE /\ t.sent = 0
      BY <2>2
    <3>2. FALSE \in BOOLEAN /\ 0 \in Nat
      OBVIOUS
    <3> QED  BY ONLY <3>1, <3>2, Zenon
  <2>4. t.got \in Seq(Nat) /\ t.got = Bytes(0, Len(t.got)) /\ (t.rejected = TRUE => d = TRUE)
    BY ONLY <2>1, <2>2, Zenon
  <2> QED  BY ONLY <1>3, <2>2, <2>3, <2>4, Zenon DEF Formed
<1>8. Held(f, t, Tail(up), q, d)
  <2>1. Talking(hs, conns[call.slot], s, up, down, d, f, TRUE)
    BY <1>3, <1>4 DEF Held
  <2>2. t.got = << >> /\ Flying(hs, t, Tail(up), q, d, f)
    BY <1>5 DEF Departed
  <2>3. Talking(hs, conns[call.slot], t, Tail(up), q, d, f, TRUE)
    BY ONLY <2>1, <2>2, TalkingOn
  <2> QED  BY <1>4, <2>2, <2>3, HeldTalking
<1> QED
  <2>1. TInv /\ Conversations /\ f \in Fds /\ UNCHANGED program /\ UNCHANGED line
    BY <1>1
  <2>2. Formed(srv'[f], toSrv'[f], toCli'[f], damaged'[f])
        /\ Held(f, srv'[f], toSrv'[f], toCli'[f], damaged'[f]) /\ Beside(f)
    BY ONLY <1>6, <1>7, <1>8
  <2> QED  BY ONLY <1>2, <2>1, <2>2, UpSound

LEMMA ServerRefusesSound ==
  ASSUME TInv, Conversations, NEW f \in Fds, ServerRefuses(f) PROVE Conversations'
<1> DEFINE s == srv[f]
           up == toSrv[f]
           down == toCli[f]
           d == damaged[f]
           t == [s EXCEPT !.at = "closed"]
           q == Append(down, Plain(Alert, <<2, 40>>))
<1>1. /\ up # << >> /\ s.at = "hello"
      /\ toSrv' = [toSrv EXCEPT ![f] = Tail(up)] /\ toCli' = [toCli EXCEPT ![f] = q]
      /\ srv' = [srv EXCEPT ![f] = t] /\ UNCHANGED program /\ UNCHANGED <<line, damaged>>
  BY DEF ServerRefuses, Arrived
<1>2. line[f] = "up"
  BY <1>1, QueuesAre DEF Conversations, Sound
<1>3. /\ Held(f, s, up, down, d) /\ st[f] # "closed" /\ Formed(s, up, down, d)
  BY <1>2, UpIs
<1>4. st[f] = "tcp" /\ Asking(hs, s, up, down)
  <2>1. TInv /\ f \in Fds /\ up # << >> /\ s.at = "hello"
    BY <1>1
  <2> HIDE DEF s, up, down, d
  <2> QED  BY ONLY <1>3, <2>1, HelloFinds
<1>5. /\ srv'[f] = t /\ toSrv'[f] = Tail(up) /\ toCli'[f] = q /\ damaged'[f] = d /\ Beside(f)
  <2>1. /\ toSrv = [g \in Fds |-> toSrv[g]] /\ toCli = [g \in Fds |-> toCli[g]]
        /\ srv = [g \in Fds |-> srv[g]] /\ damaged = [g \in Fds |-> damaged[g]]
    BY DEF Conversations, Tables
  <2>2. /\ toSrv' = [toSrv EXCEPT ![f] = Tail(up)] /\ toCli' = [toCli EXCEPT ![f] = q]
        /\ srv' = [srv EXCEPT ![f] = t] /\ damaged' = damaged
    BY <1>1
  <2> HIDE DEF up, q, t
  <2> QED  BY ONLY <2>1, <2>2, f \in Fds DEF Beside, d
<1>6. /\ t.at = "closed" /\ IsServer(t) /\ t.rejected = s.rejected /\ t.sent = s.sent
      /\ t.got = s.got
  BY <1>3 DEF Formed, IsServer
<1>7. IsSeq(Tail(up)) /\ IsSeq(q) /\ \A i \in 1 .. Len(q) : q[i].ct = Alert /\ IsRecord(q[i])
  <2>1. IsSeq(up) /\ up # << >> /\ down = << >>
    BY <1>1, <1>3, <1>4 DEF Formed, Asking
  <2> HIDE DEF up
  <2>2. IsSeq(Tail(up))
    BY ONLY <2>1, TailIs
  <2> DEFINE r == Plain(Alert, <<2, 40>>)
  <2>3. r.ct = Alert /\ IsRecord(r)
    BY DEF Plain, IsRecord
  <2>4. q = Append(<< >>, r)
    BY <2>1
  <2> HIDE DEF r, q
  <2>5. q = <<r>>
    BY <2>4
  <2>6. IsSeq(q) /\ Len(q) = 1 /\ q[1] = r
    BY ONLY <2>5, SmallSeqs, Zenon
  <2> QED  BY ONLY <2>2, <2>3, <2>6
<1> HIDE DEF s, up, down, d, t, q
<1>8. Formed(t, Tail(up), q, d)
  <2>1. /\ IsServer(t) /\ t.rejected = s.rejected /\ t.sent = s.sent /\ t.got = s.got
        /\ s.rejected \in BOOLEAN /\ s.sent \in Nat /\ s.got \in Seq(Nat)
        /\ s.got = Bytes(0, Len(s.got)) /\ d \in BOOLEAN /\ (s.rejected = TRUE => d = TRUE)
    BY <1>3, <1>6 DEF Formed
  <2> QED  BY ONLY <1>7, <2>1 DEF Formed
<1>9. Held(f, t, Tail(up), q, d)
  <2>1. Talking(hs, conns[call.slot], s, up, down, d, f, TRUE) /\ t.got = << >>
    BY <1>3, <1>4, <1>6 DEF Held
  <2>2. Dead(t, q)
    BY <1>6, <1>7 DEF Dead
  <2>3. Talking(hs, conns[call.slot], t, Tail(up), q, d, f, TRUE)
    BY ONLY <2>1, <2>2, TalkingOn
  <2> QED  BY <1>4, <2>1, <2>3, HeldTalking
<1> QED
  <2>1. TInv /\ Conversations /\ f \in Fds /\ UNCHANGED program /\ UNCHANGED line
    BY <1>1
  <2>2. Formed(srv'[f], toSrv'[f], toCli'[f], damaged'[f])
        /\ Held(f, srv'[f], toSrv'[f], toCli'[f], damaged'[f]) /\ Beside(f)
    BY ONLY <1>5, <1>8, <1>9
  <2> QED  BY ONLY <1>2, <2>1, <2>2, UpSound

\* A server either goes on as it is or rejects what it gets.
LEMMA AfterRejects ==
  ASSUME NEW s, IsServer(s), s.rejected \in BOOLEAN, NEW r, NEW t, t = After(s, r)
  PROVE  IsServer(t) /\ t.rejected \in BOOLEAN
<1> DEFINE m == r.data[1]
           z == s.log \o MsgBytes(m)
           pms == PreMasterOf[s.cert][m.v]
           y == s.got \o r.data
           g == [s EXCEPT !.log = z]
           master == Master(pms, s.client, s.random)
<1>1. \/ t = [g EXCEPT !.at = "key"]
      \/ t = [g EXCEPT !.at = "ccs", !.master = master]
      \/ t = [s EXCEPT !.at = "fin"]
      \/ t = [g EXCEPT !.at = "open", !.rseq = 1, !.wseq = 1]
      \/ t = [s EXCEPT !.rseq = @ + 1, !.got = y]
      \/ t = [s EXCEPT !.rseq = @ + 1, !.at = "closed"]
      \/ t = [s EXCEPT !.at = "closed", !.rejected = TRUE]
  <2> DEFINE k1 == [g EXCEPT !.at = "key"]
             k2 == [g EXCEPT !.at = "ccs", !.master = master]
             k3 == [s EXCEPT !.at = "fin"]
             k4 == [g EXCEPT !.at = "open", !.rseq = 1, !.wseq = 1]
             k5 == [s EXCEPT !.rseq = @ + 1, !.got = y]
             k6 == [s EXCEPT !.rseq = @ + 1, !.at = "closed"]
             k7 == [s EXCEPT !.at = "closed", !.rejected = TRUE]
             c1 == s.at = "cert" /\ r.key = NoSlice /\ r.ct = Handshake
                  /\ m = Msg(ServerCert, << >>)
             c2 == s.at = "key" /\ r.key = NoSlice /\ r.ct = Handshake /\ m.t = ClientKeyEx
                  /\ pms # << >>
             c3 == s.at = "ccs" /\ r.key = NoSlice /\ r.ct = ChangeCipher
             c4 == /\ s.at = "fin" /\ ServerAccepts(s.master, s.rseq, r) /\ r.ct = Handshake
                   /\ m.t = Finished /\ m.verify = ServerVerify(s, s.log, "client_finished")
             c5 == s.at = "open" /\ ServerAccepts(s.master, s.rseq, r) /\ r.ct = Application
             c6 == s.at = "open" /\ ServerAccepts(s.master, s.rseq, r) /\ r.ct = Alert
  <2>1. t = CASE c1 -> k1 [] c2 -> k2 [] c3 -> k3 [] c4 -> k4 [] c5 -> k5 [] c6 -> k6 [] OTHER -> k7
    <3>1. [s EXCEPT !.log = @ \o MsgBytes(m)] = g
      BY DEF IsServer
    <3>2. [s EXCEPT !.rseq = @ + 1, !.got = @ \o r.data] = k5
      BY DEF IsServer
    <3> QED  BY <3>1, <3>2 DEF After
  <2> HIDE DEF k1, k2, k3, k4, k5, k6, k7, c1, c2, c3, c4, c5, c6
  <2>2. t = k1 \/ t = k2 \/ t = k3 \/ t = k4 \/ t = k5 \/ t = k6 \/ t = k7
    BY ONLY <2>1
  <2> QED  BY ONLY <2>2 DEF k1, k2, k3, k4, k5, k6, k7
<1> HIDE DEF z, y, master
<1>2. IsServer(g) /\ g.rejected = s.rejected
  BY DEF IsServer
<1> HIDE DEF g
<1>3. IsServer(t) /\ (t.rejected = s.rejected \/ t.rejected = TRUE)
  BY <1>1, <1>2 DEF IsServer
<1> QED  BY <1>3

\* The session has one record less under way to the server.
LEMMA ServedTaken ==
  ASSUME NEW c, NEW s, s.at # "closed", s.rseq \in Nat, NEW up, IsSeq(up), up # << >>, NEW down,
         NEW read,
         NEW d, NEW f, NEW open, Served1(c, s, up, down, read, d, f, TRUE, open),
         NEW u, Steady(s, u), u.rseq = s.rseq + 1
  PROVE  Served1(c, u, Tail(up), down, read, d, f, TRUE, open)
<1>1. /\ Keyed(c, s, f) /\ c.seq_send = s.rseq + Len(up)
      /\ open => Arriving(c, s, down, read, d)
      /\ open => read \o c.app_buf = Bytes(0, Len(read \o c.app_buf))
  BY DEF Served1
<1>2. Keyed(c, u, f)
  BY <1>1 DEF Keyed, Steady
<1>3. Len(Tail(up)) = Len(up) - 1 /\ Len(up) \in Nat
  BY TailIs
<1>4. c.seq_send = u.rseq + Len(Tail(up))
  <2>1. c.seq_send = s.rseq + Len(up) /\ s.rseq \in Nat /\ u.rseq = s.rseq + 1
    BY <1>1
  <2> DEFINE n == Len(up)
             k == Len(Tail(up))
             a == s.rseq
  <2>2. n \in Nat /\ k = n - 1 /\ a \in Nat /\ c.seq_send = a + n /\ u.rseq = a + 1
    BY <1>3, <2>1
  <2> HIDE DEF n, k, a
  <2>3. c.seq_send = u.rseq + k
    BY ONLY <2>2
  <2> QED  BY ONLY <2>3 DEF k
<1>5. Arriving(c, s, down, read, d) => Arriving(c, u, down, read, d)
  <2> SUFFICES ASSUME Arriving(c, s, down, read, d) PROVE Arriving(c, u, down, read, d)
    OBVIOUS
  <2>1. InOrder(down, s, c.seq_recv, d, 0)
    BY DEF Arriving, InSeq, InOrder
  <2>2. u.wseq = s.wseq /\ u.master = s.master /\ u.sent = s.sent
    BY DEF Steady
  <2>3. InOrder(down, u, c.seq_recv, d, 0)
    BY <2>1, <2>2 DEF InOrder
  <2>4. (read \o c.app_buf) \o Carried(down) = Bytes(0, u.sent)
    BY <2>2 DEF Arriving
  <2> QED  BY <2>3, <2>4 DEF Arriving, InSeq
<1> QED  BY <1>1, <1>2, <1>4, <1>5 DEF Served1

\* Records and an answer to them.
LEMMA JoinedRecords ==
  ASSUME NEW p, IsSeq(p), \A i \in 1 .. Len(p) : IsRecord(p[i]),
         NEW r, IsSeq(r), \A i \in 1 .. Len(r) : IsRecord(r[i]), NEW q, q = p \o r
  PROVE  IsSeq(q) /\ \A i \in 1 .. Len(q) : IsRecord(q[i])
<1>1. /\ IsSeq(p \o r) /\ Len(p \o r) = Len(p) + Len(r)
      /\ \A i \in 1 .. Len(p) : (p \o r)[i] = p[i]
      /\ \A i \in 1 .. Len(r) : (p \o r)[Len(p) + i] = r[i]
  BY CatIs
<1>2. Len(p) \in Nat /\ Len(r) \in Nat
  BY DEF IsSeq
<1>3. /\ IsSeq(q) /\ Len(q) = Len(p) + Len(r) /\ \A i \in 1 .. Len(p) : q[i] = p[i]
      /\ \A i \in 1 .. Len(r) : q[Len(p) + i] = r[i]
  BY <1>1
<1>4. ASSUME NEW i \in 1 .. Len(q) PROVE IsRecord(q[i])
  <2>1. CASE i <= Len(p)
    <3>1. i \in 1 .. Len(p)
      BY <1>2, <1>3, <2>1
    <3>2. q[i] = p[i] /\ IsRecord(p[i])
      BY <1>3, <3>1
    <3> QED  BY ONLY <3>2, Zenon
  <2>2. CASE ~ (i <= Len(p))
    <3> DEFINE k == i - Len(p)
    <3>1. k \in 1 .. Len(r) /\ Len(p) + k = i
      BY <1>2, <1>3, <2>2
    <3> HIDE DEF k
    <3>2. q[Len(p) + k] = r[k] /\ IsRecord(r[k])
      BY <1>3, <3>1
    <3> QED  BY ONLY <3>1, <3>2, Zenon
  <2> QED  BY <2>1, <2>2
<1> QED  BY <1>3, <1>4

LEMMA NothingJoined ==
  ASSUME NEW p, IsSeq(p), NEW r, r = << >>, NEW q, q = p \o r PROVE q = p
<1>1. p \in Seq(Parts(p))
  BY SeqTyped
<1>2. p \o << >> = p
  BY ONLY <1>1
<1> QED  BY <1>2

\* The server takes what has arrived, after the ClientHello.
LEMMA ServerTakesSound ==
  ASSUME TInv, Conversations, NEW f \in Fds, ServerTakes(f) PROVE Conversations'
<1> DEFINE s == srv[f]
           up == toSrv[f]
           down == toCli[f]
           d == damaged[f]
           t == After(s, Head(up))
           u == Turned(t)
           q == down \o Reply(s, t)
<1>1. /\ up # << >> /\ s.at # "closed" /\ s.at # "hello"
      /\ toSrv' = [toSrv EXCEPT ![f] = Tail(up)] /\ toCli' = [toCli EXCEPT ![f] = q]
      /\ srv' = [srv EXCEPT ![f] = u] /\ UNCHANGED program /\ UNCHANGED <<line, damaged>>
  BY DEF ServerTakes, Arrived, Turned
<1>2. line[f] = "up"
  BY <1>1, QueuesAre DEF Conversations, Sound
<1>3. /\ Held(f, s, up, down, d) /\ Formed(s, up, down, d) /\ st[f] # "closed"
      /\ got[f] \in Seq(Nat) /\ put[f] \in Nat
  BY <1>2, UpIs
<1>4. /\ srv'[f] = u /\ toSrv'[f] = Tail(up) /\ toCli'[f] = q /\ damaged'[f] = d /\ Beside(f)
  <2>1. /\ toSrv = [g \in Fds |-> toSrv[g]] /\ toCli = [g \in Fds |-> toCli[g]]
        /\ srv = [g \in Fds |-> srv[g]] /\ damaged = [g \in Fds |-> damaged[g]]
    BY DEF Conversations, Tables
  <2>2. /\ toSrv' = [toSrv EXCEPT ![f] = Tail(up)] /\ toCli' = [toCli EXCEPT ![f] = q]
        /\ srv' = [srv EXCEPT ![f] = u] /\ damaged' = damaged
    BY <1>1
  <2> HIDE DEF up, q, u
  <2> QED  BY ONLY <2>1, <2>2, f \in Fds DEF Beside, d
<1>5. st[f] \in {"tcp", "refused", "tls", "failed", "ended"}
  BY <1>3 DEF TInv, Shapes, States
<1>6. f \in Fds /\ up # << >> /\ s.at # "closed"
  BY <1>1
<1>7. t = After(s, Head(up)) /\ u = Turned(t) /\ q = down \o Reply(s, t)
  OBVIOUS
<1> HIDE DEF s, up, down, d, t, u, q
<1>8. /\ IsServer(s) /\ s.rejected \in BOOLEAN /\ s.sent \in Nat /\ s.got \in Seq(Nat)
      /\ s.got = Bytes(0, Len(s.got)) /\ d \in BOOLEAN /\ (s.rejected = TRUE => d = TRUE)
      /\ IsSeq(up) /\ IsSeq(down) /\ \A i \in 1 .. Len(down) : IsRecord(down[i])
  BY ONLY <1>3 DEF Formed
<1>9. /\ IsSeq(Tail(up)) /\ IsSeq(q) /\ \A i \in 1 .. Len(q) : IsRecord(q[i])
  <2>1. IsSeq(Tail(up))
    BY ONLY <1>6, <1>8, TailIs
  <2>2. t.rejected \in BOOLEAN
    BY ONLY <1>7, <1>8, AfterRejects
  <2>3. IsSeq(Reply(s, t)) /\ \A i \in 1 .. Len(Reply(s, t)) : IsRecord(Reply(s, t)[i])
    BY ONLY <2>2, ReplyShape
  <2>4. IsSeq(q) /\ \A i \in 1 .. Len(q) : IsRecord(q[i])
    BY ONLY <1>7, <1>8, <2>3, JoinedRecords
  <2> QED  BY <2>1, <2>4
<1>10. CASE st[f] = "tcp"
  <2> DEFINE c == conns[call.slot]
  <2>1. Talking(hs, c, s, up, down, d, f, TRUE) /\ s.got = << >>
    BY <1>3, <1>10 DEF Held
  <2> HIDE DEF c
  <2>2. /\ ~ Asking(hs, s, up, down) /\ ~ Flying(hs, s, up, down, d, f)
        /\ ~ Opened(hs, c, s, up, down, d, f) /\ ~ Dead(s, down)
    <3>1. s.at # "hello"
      BY <1>1 DEF s
    <3>2. ~ Asking(hs, s, up, down)
      BY <3>1 DEF Asking, FreshServer
    <3> QED  BY ONLY <1>6, <3>2 DEF Flying, FlyingAt, Opened, OpenedAt, Dead
  <2>3. Answering(hs, c, s, up, down, d, f) /\ hs.client \in 1 .. MaxConn
    BY <2>1, <2>2 DEF Talking
  <2>4. Heeded(hs, c, s, t, up, down, d, f)
    BY ONLY <1>6, <1>7, <1>8, <2>3, ServerHears
  <2>5. /\ IsServer(u) /\ u.rejected \in BOOLEAN /\ u.sent = s.sent /\ u.got = s.got
        /\ u.rejected = TRUE => d = TRUE
        /\ Answering(hs, c, u, Tail(up), q, d, f) \/ Opened(hs, c, u, Tail(up), q, d, f)
             \/ Dead(u, q)
    BY ONLY <1>7, <2>4 DEF Heeded
  <2>6. Talking(hs, c, u, Tail(up), q, d, f, TRUE)
    BY ONLY <2>1, <2>5, TalkingOn
  <2>7. Held(f, u, Tail(up), q, d)
    BY <1>10, <2>1, <2>5, <2>6, HeldTalking DEF c
  <2>8. Formed(u, Tail(up), q, d)
    BY ONLY <1>8, <1>9, <2>5 DEF Formed
  <2> QED  BY <1>1, <1>2, <1>4, <2>7, <2>8, UpSound
<1>11. CASE st[f] = "refused"
  <2>1. s.got = << >> /\ Refused(s, up)
    BY <1>3, <1>11 DEF Held
  <2>2. RefusedTaken(s, t, up)
    BY ONLY <1>6, <1>7, <1>8, <2>1, RefusedHears
  <2>3. /\ IsServer(u) /\ u.rejected = s.rejected /\ u.sent = s.sent /\ u.got = s.got
        /\ u.rejected \in BOOLEAN /\ Refused(u, Tail(up))
    BY ONLY <1>7, <2>2 DEF RefusedTaken
  <2>4. Held(f, u, Tail(up), q, d)
    BY <1>11, <2>1, <2>3 DEF Held
  <2>5. Formed(u, Tail(up), q, d)
    BY ONLY <1>8, <1>9, <2>3 DEF Formed
  <2> QED  BY <1>1, <1>2, <1>4, <2>4, <2>5, UpSound
<1>12. CASE st[f] \in {"tls", "failed", "ended"}
  <2> DEFINE ended == st[f] = "ended"
             sent == put[f]
  <2>1. s.rejected = FALSE /\ Outgoing(s, up, sent, ended)
    BY <1>3, <1>12 DEF Held
  <2>2. sent \in Nat
    BY <1>3
  <2> HIDE DEF sent, ended
  <2>3. OpenTaken(s, t, up, sent, ended)
    BY ONLY <1>6, <1>7, <1>8, <2>1, <2>2, OpenHears
  <2>4. /\ Steady(s, u) /\ u.rseq = s.rseq + 1 /\ Reply(s, t) = << >> /\ u.got \in Seq(Nat)
        /\ Outgoing(u, Tail(up), sent, ended) /\ u.got = Bytes(0, Len(u.got))
    BY ONLY <1>7, <2>3 DEF OpenTaken
  <2>5. q = down
    BY ONLY <1>7, <1>8, <2>4, NothingJoined
  <2>6. IsServer(u) /\ u.rejected = FALSE /\ u.sent = s.sent
    BY ONLY <2>1, <2>4 DEF Steady
  <2>7. Held(f, u, Tail(up), q, d)
    <3>1. ASSUME st[f] \in {"tls", "failed"}, NEW i \in Slots, InUse(i, f)
          PROVE  Served1(conns[i], u, Tail(up), q, got[f], d, f, TRUE, st[f] = "tls")
      <4> DEFINE c == conns[i]
                 open == st[f] = "tls"
                 read == got[f]
      <4>1. Served1(c, s, up, down, read, d, f, TRUE, open)
        BY <1>3, <3>1 DEF Held
      <4>2. s.rseq \in Nat
        BY <2>1 DEF Outgoing
      <4> HIDE DEF c, open, read
      <4>3. Served1(c, u, Tail(up), down, read, d, f, TRUE, open)
        BY ONLY <1>6, <1>8, <2>4, <4>1, <4>2, ServedTaken
      <4> QED  BY ONLY <2>5, <4>3 DEF c, open, read
    <3>2. u.rejected = FALSE /\ Outgoing(u, Tail(up), put[f], st[f] = "ended")
      BY <2>4, <2>6 DEF sent, ended
    <3> QED  BY <1>12, <3>1, <3>2 DEF Held
  <2>8. Formed(u, Tail(up), q, d)
    BY ONLY <1>8, <1>9, <2>4, <2>6 DEF Formed
  <2> QED  BY <1>1, <1>2, <1>4, <2>7, <2>8, UpSound
<1> QED  BY <1>5, <1>10, <1>11, <1>12

\* Server s of an open session is now t, and q is under way to the client.
LEMMA ServedOn ==
  ASSUME NEW c, NEW s, NEW up, NEW down, NEW read, NEW d, NEW f, NEW open,
         Served1(c, s, up, down, read, d, f, TRUE, open), NEW t, Stays(s, t), NEW q, NEW e,
         open => Arriving(c, t, q, read, e)
  PROVE  Served1(c, t, up, q, read, e, f, TRUE, open)
<1>1. /\ Keyed(c, s, f) /\ c.seq_send = s.rseq + Len(up)
      /\ open => read \o c.app_buf = Bytes(0, Len(read \o c.app_buf))
  BY DEF Served1
<1>2. Keyed(c, t, f)
  BY <1>1, SessionStays
<1>3. t.rseq = s.rseq
  BY DEF Stays
<1> QED  BY <1>1, <1>2, <1>3 DEF Served1

\* What the server of an open session does on its own: it is then t, and q is
\* under way to the client.
LEMMA OpenSound ==
  ASSUME TInv, Conversations, NEW f \in Fds, line[f] = "up", st[f] \in {"tcp", "tls"},
         NEW s, s = srv[f], NEW up, up = toSrv[f], NEW down, down = toCli[f], NEW d, d = damaged[f],
         s.at = "open", NEW t, Stays(s, t), NEW q, IsSeq(q), \A i \in 1 .. Len(q) : IsRecord(q[i]),
         \A h, c : Opened(h, c, s, up, down, d, f) => Opened(h, c, t, up, q, d, f),
         \A c, read : c.seq_recv \in Nat /\ c.app_buf \in Seq(Nat) /\ read \in Seq(Nat)
                        /\ Arriving(c, s, down, read, d) => Arriving(c, t, q, read, d),
         srv' = [srv EXCEPT ![f] = t], toCli' = [toCli EXCEPT ![f] = q],
         UNCHANGED program, UNCHANGED <<toSrv, line, damaged>>
  PROVE  Conversations'
<1>1. /\ Held(f, s, up, down, d) /\ Formed(s, up, down, d) /\ got[f] \in Seq(Nat)
  BY UpIs
<1>2. /\ srv'[f] = t /\ toSrv'[f] = up /\ toCli'[f] = q /\ damaged'[f] = d /\ Beside(f)
  <2>1. /\ toSrv = [g \in Fds |-> toSrv[g]] /\ toCli = [g \in Fds |-> toCli[g]]
        /\ srv = [g \in Fds |-> srv[g]] /\ damaged = [g \in Fds |-> damaged[g]]
    BY DEF Conversations, Tables
  <2>2. /\ toCli' = [toCli EXCEPT ![f] = q] /\ srv' = [srv EXCEPT ![f] = t]
        /\ UNCHANGED <<toSrv, damaged>> /\ f \in Fds /\ up = toSrv[f] /\ d = damaged[f]
    OBVIOUS
  <2> QED  BY ONLY <2>1, <2>2 DEF Beside
<1>3. /\ IsServer(t) /\ t.rejected = s.rejected /\ t.got = s.got /\ t.sent \in Nat
  BY DEF Stays
<1>4. Formed(t, up, q, d)
  <2>1. IsSeq(q) /\ \A i \in 1 .. Len(q) : IsRecord(q[i])
    OBVIOUS
  <2> QED  BY ONLY <1>1, <1>3, <2>1 DEF Formed
<1>5. CASE st[f] = "tcp"
  <2> DEFINE c == conns[call.slot]
  <2>1. Talking(hs, c, s, up, down, d, f, TRUE) /\ s.got = << >>
    BY <1>1, <1>5 DEF Held
  <2> HIDE DEF c
  <2>2. \/ Asking(hs, s, up, down)
        \/ Flying(hs, s, up, down, d, f)
        \/ Answering(hs, c, s, up, down, d, f)
        \/ Opened(hs, c, s, up, down, d, f)
        \/ Dead(s, down)
    BY ONLY <2>1 DEF Talking
  <2>3. s.at = "open"
    OBVIOUS
  <2>4. Opened(hs, c, s, up, down, d, f)
    BY ONLY <2>2, <2>3, OpenServer
  <2>5. Opened(hs, c, t, up, q, d, f)
    BY <2>4
  <2>6. Talking(hs, c, t, up, q, d, f, TRUE)
    BY ONLY <2>1, <2>5, TalkingOn
  <2>7. Held(f, t, up, q, d)
    BY <1>3, <1>5, <2>1, <2>6, HeldTalking DEF c
  <2> QED  BY <1>2, <1>4, <2>7, UpSound
<1>6. CASE st[f] = "tls"
  <2>1. s.rejected = FALSE /\ Outgoing(s, up, put[f], st[f] = "ended")
    BY <1>1, <1>6 DEF Held
  <2>2. t.rejected = FALSE /\ Outgoing(t, up, put[f], st[f] = "ended")
    BY <1>3, <2>1, SessionStays
  <2>3. ASSUME NEW i \in Slots, InUse(i, f)
        PROVE  Served1(conns[i], t, up, q, got[f], d, f, TRUE, st[f] = "tls")
    <3> DEFINE c == conns[i]
               read == got[f]
    <3>1. (st[f] = "tls") = TRUE
      BY <1>6
    <3>2. Served1(c, s, up, down, read, d, f, TRUE, TRUE) /\ read \in Seq(Nat)
      BY <1>1, <1>6, <2>3, <3>1 DEF Held
    <3> HIDE DEF c, read
    <3>3. c.seq_recv \in Nat /\ c.app_buf \in Seq(Nat) /\ Arriving(c, s, down, read, d)
      BY <3>2 DEF Served1, Keyed
    <3>4. Stays(s, t) /\ Arriving(c, t, q, read, d)
      BY <3>2, <3>3
    <3>5. Served1(c, t, up, q, read, d, f, TRUE, TRUE)
      BY ONLY <3>2, <3>4, ServedOn
    <3> QED  BY <3>1, <3>5 DEF c, read
  <2>4. Held(f, t, up, q, d)
    BY <1>6, <2>2, <2>3 DEF Held
  <2> QED  BY <1>2, <1>4, <2>4, UpSound
<1> QED  BY <1>5, <1>6

\* It sends record r.
LEMMA SpokenSound ==
  ASSUME TInv, Conversations, NEW f \in Fds, line[f] = "up", st[f] \in {"tcp", "tls"},
         srv[f].at = "open", NEW t, NEW r, Spoken(srv[f], t, r, damaged[f]),
         srv' = [srv EXCEPT ![f] = t], toCli' = [toCli EXCEPT ![f] = Append(@, r)],
         UNCHANGED program, UNCHANGED <<toSrv, line, damaged>>
  PROVE  Conversations'
<1>1. PICK s, up, down, d, q : /\ s = srv[f] /\ up = toSrv[f] /\ down = toCli[f] /\ d = damaged[f]
                               /\ q = Append(down, r)
  OBVIOUS
<1>2. IsSeq(down) /\ \A i \in 1 .. Len(down) : IsRecord(down[i])
  BY <1>1, UpIs DEF Formed
<1>3. s.at = "open" /\ Spoken(s, t, r, d)
  BY <1>1
<1>4. Stays(s, t) /\ IsRecord(r)
  BY ONLY <1>3 DEF Spoken
<1>5. IsSeq(q) /\ \A i \in 1 .. Len(q) : IsRecord(q[i])
  <2>1. IsSeq(<<r>>) /\ Len(<<r>>) = 1 /\ <<r>>[1] = r
    BY SmallSeqs, Zenon
  <2>2. \A i \in 1 .. Len(<<r>>) : IsRecord(<<r>>[i])
    BY ONLY <1>4, <2>1
  <2>3. q = down \o <<r>>
    <3>1. q = Append(down, r) /\ down \in Seq(Parts(down))
      BY <1>1, <1>2, SeqTyped
    <3> QED  BY ONLY <3>1
  <2> DEFINE p == <<r>>
  <2>4. IsSeq(p) /\ (\A i \in 1 .. Len(p) : IsRecord(p[i])) /\ q = down \o p
    BY <2>1, <2>2, <2>3
  <2> HIDE DEF p
  <2> QED  BY ONLY <1>2, <2>4, JoinedRecords
<1>6. ASSUME NEW h, NEW c, Opened(h, c, s, up, down, d, f) PROVE Opened(h, c, t, up, q, d, f)
  <2>1. Opened(h, c, t, up, Append(down, r), d, f)
    BY ONLY <1>2, <1>3, <1>6, OpenedMore
  <2>2. q = Append(down, r)
    BY <1>1
  <2> QED  BY ONLY <2>1, <2>2, Zenon
<1>7. ASSUME NEW c, NEW read, c.seq_recv \in Nat, c.app_buf \in Seq(Nat), read \in Seq(Nat),
             Arriving(c, s, down, read, d)
      PROVE  Arriving(c, t, q, read, d)
  <2>1. Arriving(c, t, Append(down, r), read, d)
    BY ONLY <1>2, <1>3, <1>7, ArrivingMore
  <2>2. q = Append(down, r)
    BY <1>1
  <2> QED  BY ONLY <2>1, <2>2, Zenon
<1>8. /\ TInv /\ Conversations /\ f \in Fds /\ line[f] = "up" /\ st[f] \in {"tcp", "tls"}
      /\ srv' = [srv EXCEPT ![f] = t] /\ toCli' = [toCli EXCEPT ![f] = q]
      /\ UNCHANGED program /\ UNCHANGED <<toSrv, line, damaged>>
  BY <1>1
<1>9. s = srv[f] /\ up = toSrv[f] /\ down = toCli[f] /\ d = damaged[f]
  BY <1>1
<1> QED  BY ONLY <1>3, <1>4, <1>5, <1>6, <1>7, <1>8, <1>9, OpenSound

\* The server sends application data, asks for another negotiation, or closes.
LEMMA ServerDataSound ==
  ASSUME TInv, Conversations, NEW f \in Fds, ServerData(f) PROVE Conversations'
<1>1. PICK n \in SendSizes :
        /\ ServerSends(f, Application, Bytes(srv[f].sent, n))
        /\ srv' = [srv EXCEPT ![f].sent = @ + n, ![f].wseq = @ + 1]
  BY DEF ServerData
<1>2. PICK s, d, t, r :
        /\ s = srv[f] /\ d = damaged[f] /\ t = [s EXCEPT !.sent = @ + n, !.wseq = @ + 1]
        /\ r = ServerRecord(s.master, s.wseq, Application, Bytes(s.sent, n))
  OBVIOUS
<1>3. /\ st[f] \in {"tcp", "tls"} /\ srv[f].at = "open" /\ line[f] = "up"
      /\ toCli' = [toCli EXCEPT ![f] = Append(@, r)] /\ srv' = [srv EXCEPT ![f] = t]
      /\ UNCHANGED program /\ UNCHANGED <<toSrv, line, damaged>>
  <2>1. srv = [g \in Fds |-> srv[g]] /\ f \in Fds
    BY DEF Conversations, Tables
  <2>2. srv' = [srv EXCEPT ![f] = [srv[f] EXCEPT !.sent = @ + n, !.wseq = @ + 1]]
    BY ONLY <1>1, <2>1
  <2>3. srv' = [srv EXCEPT ![f] = t]
    BY ONLY <1>2, <2>2
  <2> QED  BY <1>1, <1>2, <2>3 DEF ServerSends, Watched
<1>4. /\ IsServer(s) /\ s.at = "open" /\ s.sent \in Nat
  BY <1>2, <1>3, UpIs DEF Formed
<1>5. n \in Nat
  BY TlsAssumption
<1>6. Spoken(s, t, r, d)
  <2>1. Spoken(s, t, ServerRecord(s.master, s.wseq, Application, Bytes(s.sent, n)), d)
    BY ONLY <1>2, <1>4, <1>5, DataSpoken
  <2> QED  BY ONLY <1>2, <2>1, Zenon
<1>7. TInv /\ Conversations /\ f \in Fds /\ Spoken(srv[f], t, r, damaged[f])
  BY <1>2, <1>6
<1> QED  BY ONLY <1>3, <1>7, SpokenSound

LEMMA ServerAsksSound ==
  ASSUME TInv, Conversations, NEW f \in Fds, ServerAsks(f) PROVE Conversations'
<1>1. /\ ServerSends(f, Handshake, <<Msg(0, << >>)>>)
      /\ srv' = [srv EXCEPT ![f] = [srv[f] EXCEPT !.wseq = @ + 1]]
  BY DEF ServerAsks, Conversations, Tables
<1>2. PICK s, d, t, r :
        /\ s = srv[f] /\ d = damaged[f] /\ t = [s EXCEPT !.wseq = @ + 1]
        /\ r = ServerRecord(s.master, s.wseq, Handshake, <<Msg(0, << >>)>>)
  OBVIOUS
<1>3. /\ st[f] \in {"tcp", "tls"} /\ srv[f].at = "open" /\ line[f] = "up"
      /\ toCli' = [toCli EXCEPT ![f] = Append(@, r)] /\ srv' = [srv EXCEPT ![f] = t]
      /\ UNCHANGED program /\ UNCHANGED <<toSrv, line, damaged>>
  BY <1>1, <1>2 DEF ServerSends, Watched
<1>4. /\ IsServer(s) /\ s.at = "open" /\ s.sent \in Nat
  BY <1>2, <1>3, UpIs DEF Formed
<1>5. Spoken(s, t, r, d)
  <2>1. Spoken(s, t, ServerRecord(s.master, s.wseq, Handshake, <<Msg(0, << >>)>>), d)
    BY ONLY <1>2, <1>4, AskSpoken
  <2> QED  BY ONLY <1>2, <2>1, Zenon
<1>6. TInv /\ Conversations /\ f \in Fds /\ Spoken(srv[f], t, r, damaged[f])
  BY <1>2, <1>5
<1> QED  BY ONLY <1>3, <1>6, SpokenSound

LEMMA ServerClosesSound ==
  ASSUME TInv, Conversations, NEW f \in Fds, ServerCloses(f) PROVE Conversations'
<1>1. /\ st[f] \in {"tcp", "tls"} /\ srv[f].at = "open" /\ line[f] = "up"
      /\ srv' = [srv EXCEPT ![f] = [srv[f] EXCEPT !.at = "closed"]]
      /\ UNCHANGED program /\ UNCHANGED <<toSrv, line, damaged>>
  BY DEF ServerCloses, Watched
<1>2. \/ toCli' = [toCli EXCEPT ![f] =
                     Append(@, ServerRecord(srv[f].master, srv[f].wseq, Alert, <<1, 0>>))]
      \/ toCli' = toCli
  BY DEF ServerCloses
<1>3. PICK s, up, down, d, t, r :
        /\ s = srv[f] /\ up = toSrv[f] /\ down = toCli[f] /\ d = damaged[f]
        /\ t = [s EXCEPT !.at = "closed"]
        /\ r = ServerRecord(s.master, s.wseq, Alert, <<1, 0>>)
  OBVIOUS
<1>4. /\ IsServer(s) /\ s.at = "open" /\ s.sent \in Nat
      /\ IsSeq(down) /\ \A i \in 1 .. Len(down) : IsRecord(down[i])
  BY <1>1, <1>3, UpIs DEF Formed
<1>5. Silent(s, t) /\ Spoken(s, t, r, d)
  <2>1. Silent(s, t) /\ Spoken(s, t, ServerRecord(s.master, s.wseq, Alert, <<1, 0>>), d)
    BY ONLY <1>3, <1>4, CloseSpoken
  <2> QED  BY ONLY <1>3, <2>1, Zenon
<1>6. CASE toCli' = [toCli EXCEPT ![f] = Append(@, r)]
  <2>1. /\ TInv /\ Conversations /\ f \in Fds /\ Spoken(srv[f], t, r, damaged[f])
        /\ srv' = [srv EXCEPT ![f] = t]
    BY <1>1, <1>3, <1>5
  <2> QED  BY ONLY <1>1, <1>6, <2>1, SpokenSound
<1>7. CASE toCli' = toCli
  <2>1. /\ TInv /\ Conversations /\ f \in Fds /\ line[f] = "up" /\ st[f] \in {"tcp", "tls"}
        /\ srv' = [srv EXCEPT ![f] = t] /\ toCli' = [toCli EXCEPT ![f] = down]
        /\ UNCHANGED program /\ UNCHANGED <<toSrv, line, damaged>>
    BY <1>1, <1>3, <1>7 DEF Conversations, Tables
  <2>2. Stays(s, t)
    BY <1>5 DEF Silent
  <2>3. \A h, c : Opened(h, c, s, up, down, d, f) => Opened(h, c, t, up, down, d, f)
    BY ONLY <1>4, <1>5, OpenedSilent
  <2>4. \A c, read : c.seq_recv \in Nat /\ c.app_buf \in Seq(Nat) /\ read \in Seq(Nat)
                       /\ Arriving(c, s, down, read, d) => Arriving(c, t, down, read, d)
    BY ONLY <1>4, <1>5, ArrivingSilent
  <2>5. s = srv[f] /\ up = toSrv[f] /\ down = toCli[f] /\ d = damaged[f]
    BY <1>3
  <2> QED  BY ONLY <1>4, <2>1, <2>2, <2>3, <2>4, <2>5, OpenSound
<1> QED  BY <1>2, <1>3, <1>6, <1>7

\* What is under way to the client is now p, damaged.
LEMMA SpoiltSound ==
  ASSUME TInv, Conversations, NEW f \in Fds, line[f] = "up", st[f] \in {"tcp", "tls"},
         NEW s, s = srv[f], NEW up, up = toSrv[f], NEW down, down = toCli[f], NEW d, d = damaged[f],
         NEW p, IsSeq(p), \A i \in 1 .. Len(p) : IsRecord(p[i]),
         \A h, c : /\ h.client \in 1 .. MaxConn
                   /\ \/ Asking(h, s, up, down)
                      \/ Flying(h, s, up, down, d, f)
                      \/ Answering(h, c, s, up, down, d, f)
                      \/ Opened(h, c, s, up, down, d, f)
                      \/ Dead(s, down)
                   => \/ Flying(h, s, up, p, TRUE, f)
                      \/ Opened(h, c, s, up, p, TRUE, f)
                      \/ Dead(s, p),
         \A c, read : Arriving(c, s, down, read, d) => Arriving(c, s, p, read, TRUE),
         damaged' = [damaged EXCEPT ![f] = TRUE], toCli' = [toCli EXCEPT ![f] = p],
         UNCHANGED program, UNCHANGED <<toSrv, line, srv>>
  PROVE  Conversations'
<1>1. /\ Held(f, s, up, down, d) /\ Formed(s, up, down, d)
  BY UpIs
<1>2. /\ srv'[f] = s /\ toSrv'[f] = up /\ toCli'[f] = p /\ damaged'[f] = TRUE /\ Beside(f)
  <2>1. /\ toSrv = [g \in Fds |-> toSrv[g]] /\ toCli = [g \in Fds |-> toCli[g]]
        /\ srv = [g \in Fds |-> srv[g]] /\ damaged = [g \in Fds |-> damaged[g]]
    BY DEF Conversations, Tables
  <2>2. /\ toCli' = [toCli EXCEPT ![f] = p] /\ damaged' = [damaged EXCEPT ![f] = TRUE]
        /\ UNCHANGED <<toSrv, srv>> /\ f \in Fds /\ up = toSrv[f] /\ s = srv[f]
    OBVIOUS
  <2> QED  BY ONLY <2>1, <2>2 DEF Beside
<1>3. Formed(s, up, p, TRUE)
  <2>1. IsSeq(p) /\ \A i \in 1 .. Len(p) : IsRecord(p[i])
    OBVIOUS
  <2>2. TRUE \in BOOLEAN
    OBVIOUS
  <2> QED  BY ONLY <1>1, <2>1, <2>2, Zenon DEF Formed
<1>4. CASE st[f] = "tcp"
  <2> DEFINE c == conns[call.slot]
  <2>1. Talking(hs, c, s, up, down, d, f, TRUE) /\ s.got = << >>
    BY <1>1, <1>4 DEF Held
  <2> HIDE DEF c
  <2>2. /\ hs.client \in 1 .. MaxConn
        /\ \/ Asking(hs, s, up, down)
           \/ Flying(hs, s, up, down, d, f)
           \/ Answering(hs, c, s, up, down, d, f)
           \/ Opened(hs, c, s, up, down, d, f)
           \/ Dead(s, down)
    BY ONLY <2>1 DEF Talking
  <2>3. \/ Flying(hs, s, up, p, TRUE, f)
        \/ Opened(hs, c, s, up, p, TRUE, f)
        \/ Dead(s, p)
    BY <2>2
  <2>4. Talking(hs, c, s, up, p, TRUE, f, TRUE)
    BY ONLY <2>1, <2>3, TalkingOn
  <2>5. Held(f, s, up, p, TRUE)
    BY <1>4, <2>1, <2>4, HeldTalking DEF c
  <2> QED  BY <1>2, <1>3, <2>5, UpSound
<1>5. CASE st[f] = "tls"
  <2>1. s.rejected = FALSE /\ Outgoing(s, up, put[f], st[f] = "ended")
    BY <1>1, <1>5 DEF Held
  <2>2. ASSUME NEW i \in Slots, InUse(i, f)
        PROVE  Served1(conns[i], s, up, p, got[f], TRUE, f, TRUE, st[f] = "tls")
    <3> DEFINE c == conns[i]
               read == got[f]
    <3>1. (st[f] = "tls") = TRUE
      BY <1>5
    <3>2. Served1(c, s, up, down, read, d, f, TRUE, TRUE)
      BY <1>1, <1>5, <2>2, <3>1 DEF Held
    <3> HIDE DEF c, read
    <3>3. Arriving(c, s, down, read, d)
      BY ONLY <3>2 DEF Served1
    <3>4. Arriving(c, s, p, read, TRUE)
      BY <3>3
    <3>5. Served1(c, s, up, p, read, TRUE, f, TRUE, TRUE)
      BY ONLY <3>2, <3>4 DEF Served1
    <3> QED  BY <3>1, <3>5 DEF c, read
  <2>3. Held(f, s, up, p, TRUE)
    BY <1>5, <2>1, <2>2 DEF Held
  <2> QED  BY <1>2, <1>3, <2>3, UpSound
<1> QED  BY <1>4, <1>5

LEMMA SpoiltRecords ==
  ASSUME NEW q, IsSeq(q), \A n \in 1 .. Len(q) : IsRecord(q[n]), NEW i \in 1 .. Len(q), NEW j
  PROVE  IsSeq(SpoiltAt(q, i, j))
           /\ \A n \in 1 .. Len(SpoiltAt(q, i, j)) : IsRecord(SpoiltAt(q, i, j)[n])
<1> DEFINE y == [q[i] EXCEPT !.data[j] = Spoilt(@)]
           T == Parts(q) \cup {y}
           p == [q EXCEPT ![i] = y]
<1>1. IsRecord(y)
  BY DEF IsRecord
<1>2. SpoiltAt(q, i, j) = p
  BY DEF IsSeq, SpoiltAt
<1> HIDE DEF y
<1>3. q \in Seq(Parts(q)) /\ Parts(q) \subseteq T /\ y \in T
  BY SeqTyped
<1> HIDE DEF T
<1>4. q \in Seq(T)
  BY <1>3, SeqWider
<1>5. IsSeq(p) /\ Len(p) = Len(q) /\ p[i] = y /\ \A n \in 1 .. Len(q) : n # i => p[n] = q[n]
  BY <1>3, <1>4, ExceptIs
<1> HIDE DEF p
<1>6. \A n \in 1 .. Len(p) : IsRecord(p[n])
  BY <1>1, <1>5
<1> QED  BY <1>2, <1>5, <1>6

LEMMA DamageSound ==
  ASSUME TInv, Conversations, NEW f \in Fds, Damage(f) PROVE Conversations'
<1>1. PICK s, up, down, d : s = srv[f] /\ up = toSrv[f] /\ down = toCli[f] /\ d = damaged[f]
  OBVIOUS
<1>2. /\ st[f] \in {"tcp", "tls"} /\ ~ d /\ damaged' = [damaged EXCEPT ![f] = TRUE]
      /\ UNCHANGED program /\ UNCHANGED <<toSrv, line, srv>>
  BY <1>1 DEF Damage, Watched
<1>3. PICK i \in DOMAIN down :
        \/ /\ down[i].key # NoSlice
           /\ toCli' = [toCli EXCEPT ![f][i].mac = NoMac]
        \/ /\ down[i].key = NoSlice /\ down[i].ct = Handshake
           /\ \E j \in DOMAIN down[i].data :
                /\ down[i].data[j].v # << >>
                /\ toCli' = [toCli EXCEPT ![f][i].data[j] = Spoilt(@)]
  BY <1>1 DEF Damage
<1>4. IsSeq(down) /\ \A n \in 1 .. Len(down) : IsRecord(down[n])
  BY <1>1 DEF Conversations, Sound, Always, Kinds
<1>5. i \in 1 .. Len(down) /\ down # << >>
  BY <1>3, <1>4, SmallSeqs DEF IsSeq
<1>6. line[f] = "up"
  BY <1>1, <1>5 DEF Conversations, Sound, Always
<1>7. d = FALSE
  BY <1>1, <1>2, <1>6, UpIs DEF Formed
<1>8. toCli = [g \in Fds |-> toCli[g]] /\ f \in Fds
  BY DEF Conversations, Tables
<1>9. /\ TInv /\ Conversations /\ f \in Fds /\ line[f] = "up" /\ st[f] \in {"tcp", "tls"}
      /\ s = srv[f] /\ up = toSrv[f] /\ down = toCli[f] /\ d = damaged[f]
      /\ damaged' = [damaged EXCEPT ![f] = TRUE]
      /\ UNCHANGED program /\ UNCHANGED <<toSrv, line, srv>>
  BY <1>1, <1>2, <1>6
<1>10. ASSUME down[i].key # NoSlice, toCli' = [toCli EXCEPT ![f][i].mac = NoMac]
       PROVE  Conversations'
  <2> DEFINE p == [down EXCEPT ![i].mac = NoMac]
  <2>1. toCli' = [toCli EXCEPT ![f] = p]
    BY <1>1, <1>8, <1>10
  <2>2. Marred(down, p)
    BY ONLY <1>4, <1>5, <1>10, MacChanged
  <2> HIDE DEF p
  <2>3. IsSeq(p) /\ \A n \in 1 .. Len(p) : IsRecord(p[n])
    BY ONLY <2>2, MarredRecords
  <2>4. ASSUME NEW h, NEW c, h.client \in 1 .. MaxConn,
               \/ Asking(h, s, up, down)
               \/ Flying(h, s, up, down, d, f)
               \/ Answering(h, c, s, up, down, d, f)
               \/ Opened(h, c, s, up, down, d, f)
               \/ Dead(s, down)
        PROVE  \/ Flying(h, s, up, p, TRUE, f)
               \/ Opened(h, c, s, up, p, TRUE, f)
               \/ Dead(s, p)
    <3>1. ~ Asking(h, s, up, down) /\ ~ Answering(h, c, s, up, down, d, f)
      BY ONLY <1>5 DEF Asking, Answering, AnsweringAt
    <3>2. ~ Flying(h, s, up, down, d, f)
      <4>1. ~ FlightPart(down)
        <5>1. Plain(Handshake, down[i].data).key = NoSlice
          BY DEF Plain
        <5> QED  BY ONLY <1>5, <1>10, <5>1 DEF FlightPart
      <4> QED  BY ONLY <4>1 DEF Flying, FlyingAt
    <3>3. Opened(h, c, s, up, down, d, f) => Opened(h, c, s, up, p, TRUE, f)
      BY ONLY <1>4, <2>2, OpenedMarred
    <3>4. Dead(s, down) => Dead(s, p)
      BY ONLY <2>2, DeadMarred
    <3> QED  BY ONLY <2>4, <3>1, <3>2, <3>3, <3>4, Zenon
  <2>5. \A c, read : Arriving(c, s, down, read, d) => Arriving(c, s, p, read, TRUE)
    BY ONLY <1>4, <2>2, ArrivingMarred
  <2> QED  BY ONLY <1>9, <2>1, <2>3, <2>4, <2>5, SpoiltSound
<1>11. ASSUME down[i].key = NoSlice, down[i].ct = Handshake, NEW j \in DOMAIN down[i].data,
              down[i].data[j].v # << >>, toCli' = [toCli EXCEPT ![f][i].data[j] = Spoilt(@)]
       PROVE  Conversations'
  <2> DEFINE p == [down EXCEPT ![i].data[j] = Spoilt(@)]
  <2>1. toCli' = [toCli EXCEPT ![f] = p]
    BY <1>1, <1>8, <1>11
  <2>2. ~ Dead(s, down)
    BY <1>5, <1>11, CodesDiffer DEF Dead
  <2>3. \A h, c : ~ Opened(h, c, s, up, down, d, f)
    BY ONLY <1>4, <1>5, <1>11, OpenedPlain
  <2>4. \A c, read : ~ Arriving(c, s, down, read, d)
    BY ONLY <1>4, <1>5, <1>11, ArrivingPlain
  <2>5. ASSUME NEW h, NEW c, h.client \in 1 .. MaxConn,
               \/ Asking(h, s, up, down)
               \/ Flying(h, s, up, down, d, f)
               \/ Answering(h, c, s, up, down, d, f)
               \/ Opened(h, c, s, up, down, d, f)
               \/ Dead(s, down)
        PROVE  DamagedTo(h, s, up, p, f)
    <3>1. ~ Asking(h, s, up, down) /\ ~ Answering(h, c, s, up, down, d, f)
      BY ONLY <1>5 DEF Asking, Answering, AnsweringAt
    <3>2. Flying(h, s, up, down, FALSE, f)
      BY ONLY <1>7, <2>2, <2>3, <2>5, <3>1
    <3>3. FlightPart(down)
      BY ONLY <3>2 DEF Flying, FlyingAt
    <3>4. j \in 1 .. Len(down[i].data) /\ down[i].data[j].v # << >> /\ f \in Fds
      BY <1>5, <1>11, <3>3 DEF FlightPart
    <3>5. h.client \in 1 .. MaxConn
      BY <2>5
    <3> QED  BY ONLY <1>4, <1>5, <3>2, <3>4, <3>5, FlyingDamaged
  <2> HIDE DEF p
  <2>6. \A h, c : /\ h.client \in 1 .. MaxConn
                  /\ \/ Asking(h, s, up, down)
                     \/ Flying(h, s, up, down, d, f)
                     \/ Answering(h, c, s, up, down, d, f)
                     \/ Opened(h, c, s, up, down, d, f)
                     \/ Dead(s, down)
                  => \/ Flying(h, s, up, p, TRUE, f)
                     \/ Opened(h, c, s, up, p, TRUE, f)
                     \/ Dead(s, p)
    BY ONLY <2>5 DEF DamagedTo
  <2>7. \A c, read : Arriving(c, s, down, read, d) => Arriving(c, s, p, read, TRUE)
    BY ONLY <2>4
  <2>8. IsSeq(p) /\ \A n \in 1 .. Len(p) : IsRecord(p[n])
    <3>1. IsSeq(SpoiltAt(down, i, j)) /\ \A n \in 1 .. Len(SpoiltAt(down, i, j)) :
                                         IsRecord(SpoiltAt(down, i, j)[n])
      BY ONLY <1>4, <1>5, SpoiltRecords
    <3> QED  BY <3>1 DEF p, SpoiltAt
  <2> QED  BY ONLY <1>9, <2>1, <2>6, <2>7, <2>8, SpoiltSound
<1> QED  BY <1>3, <1>10, <1>11

----------------------------------------------------------------------------
(***************************************************************************)
(* The invariant, and what it says of every state and step.                *)
(***************************************************************************)
LEMMA EnvironmentSound ==
  ASSUME TInv, Conversations, NEW f \in Fds, Environment(f) PROVE Conversations'
BY ServerFlightSound, ServerRefusesSound, ServerTakesSound, ServerDataSound, ServerAsksSound,
   ServerClosesSound, LostSound, DamageSound DEF Environment, Server

LEMMA Unfailed == ASSUME st' = st PROVE Justified
BY DEF Justified

LEMMA NextSound == TInv /\ Conversations /\ [Next]_vars => Conversations' /\ Justified
<1> SUFFICES ASSUME TInv, Conversations, [Next]_vars PROVE Conversations' /\ Justified  OBVIOUS
<1>1. CASE Header
  <2>1. st' = st
    BY <1>1 DEF Header
  <2> QED  BY <1>1, <2>1, HeaderSound, Unfailed
<1>2. CASE Handshaking \/ RecvRecord \/ RecvFails
  BY <1>2, HandshakingSound, RecvSound, RecvFailsSound
<1>3. ASSUME NEW f \in Fds, Program(f) PROVE Conversations' /\ Justified
  BY <1>3, ProgramSound
<1>4. ASSUME NEW f \in Fds, Environment(f) PROVE Conversations' /\ Justified
  BY <1>4, EnvironmentSound, EnvironmentKeeps, Unfailed DEF program
<1>5. CASE UNCHANGED vars
  <2>1. UNCHANGED <<conns, st, hs, draws, got, put, net, srv, damaged, call>>
    BY <1>5 DEF vars, program
  <2> QED  BY <2>1, NothingTouched, Unfailed
<1> QED  BY <1>1, <1>2, <1>3, <1>4, <1>5 DEF Next, Running

LEMMA ConversationsHold == Spec => [](TInv /\ Conversations)
<1>1. Init => TInv /\ Conversations
  BY InitTInv, InitSound
<1>2. TInv /\ Conversations /\ [Next]_vars => (TInv /\ Conversations)'
  BY NextTInv, NextSound
<1> QED  BY <1>1, <1>2, PTL DEF Spec

\* The records of an open session that are under way, counted.
LEMMA Unread ==
  ASSUME NEW q, IsSeq(q), NEW s, NEW n \in Nat, NEW d, InSeq(q, s, n, d)
  PROVE  n + Cardinality({i \in DOMAIN q : q[i].ct \in {Handshake, Application}}) = s.wseq
<1>1. PICK b \in {0, 1} : InOrder(q, s, n, d, b)
  BY DEF InSeq
<1> DEFINE L == Len(q)
           U == {i \in DOMAIN q : q[i].ct \in {Handshake, Application}}
<1>2. L \in Nat /\ L >= b /\ s.wseq = n + L - b /\ DOMAIN q = 1 .. L
  BY <1>1 DEF InOrder, IsSeq
<1>3. \A i \in 1 .. L - b : q[i].ct \in {Handshake, Application}
  BY <1>1 DEF InOrder, Numbered
<1>4. b = 1 => q[L].ct = Alert
  BY <1>1 DEF InOrder
<1>5. Alert \notin {Handshake, Application}
  BY CodesDiffer
<1>6. U = {i \in 1 .. L : q[i].ct \in {Handshake, Application}}
  BY <1>2
<1> HIDE DEF L, U
<1>7. U = 1 .. L - b
  BY ONLY <1>2, <1>3, <1>4, <1>5, <1>6, <1>1
<1>8. Cardinality(1 .. L - b) = L - b
  <2>1. L - b \in Nat
    BY <1>2
  <2> QED  BY <2>1, FS_Interval
<1>9. n + Cardinality(U) = s.wseq
  BY <1>1, <1>2, <1>7, <1>8
<1> QED  BY <1>9 DEF U

\* What a session of socket f comes to.
LEMMA SessionHolds ==
  ASSUME TInv, Conversations, NEW f \in Fds, st[f] = "tls"
  PROVE  /\ Always(f) /\ srv[f].rejected = FALSE
         /\ line[f] = "up" => Outgoing(srv[f], toSrv[f], put[f], FALSE)
         /\ Served1(conns[Session(f)], srv[f], toSrv[f], toCli[f], got[f], damaged[f], f,
                    line[f] = "up", TRUE)
<1>1. SessionPerSlot
  BY SessionsSuffice
<1>2. find_conn(f) # {}
  BY <1>1 DEF SessionPerSlot
<1>3. Session(f) \in Slots /\ InUse(Session(f), f)
  BY <1>2, SessionSlot
<1>4. Sound(f) /\ (st[f] = "tls") = TRUE /\ (st[f] = "ended") = FALSE
  BY DEF Conversations
<1> QED  BY <1>3, <1>4 DEF Sound

LEMMA AgreementHolds == TInv /\ Conversations => PeersAgree
<1> SUFFICES ASSUME TInv, Conversations, NEW f \in Fds
    PROVE  /\ srv[f].rejected => damaged[f]
           /\ st[f] = "tls" =>
               LET c == conns[Session(f)]
                   keys == ServerSide(srv[f].master)
                   unread == {i \in DOMAIN toCli[f] : toCli[f][i].ct \in {Handshake, Application}}
               IN /\ c.cipher_active
                  /\ c.mac_enc_key = keys.reads /\ c.mac_dec_key = keys.writes
                  /\ c.enc_ctx = keys.decrypts /\ c.dec_ctx = keys.encrypts
                  /\ CertName[c.peer_cert] = Certs[srv[f].cert].name
                  /\ c.peer_key_bytes = Certs[srv[f].cert].keylen
                  /\ line[f] = "up" => /\ c.seq_send = srv[f].rseq + Len(toSrv[f])
                                       /\ c.seq_recv + Cardinality(unread) = srv[f].wseq
  BY DEF PeersAgree
<1>1. Always(f)
  BY DEF Conversations, Sound
<1>2. srv[f].rejected => damaged[f]
  BY <1>1 DEF Always, Kinds
<1>3. ASSUME st[f] = "tls"
      PROVE  \E c, s : /\ c = conns[Session(f)] /\ s = srv[f]
                       /\ Served1(c, s, toSrv[f], toCli[f], got[f], damaged[f], f, line[f] = "up",
                                  TRUE)
  BY <1>3, SessionHolds
<1>4. ASSUME NEW c, NEW s, Keyed(c, s, f)
      PROVE  /\ c.cipher_active
             /\ c.mac_enc_key = ServerSide(s.master).reads
             /\ c.mac_dec_key = ServerSide(s.master).writes
             /\ c.enc_ctx = ServerSide(s.master).decrypts
             /\ c.dec_ctx = ServerSide(s.master).encrypts
             /\ CertName[c.peer_cert] = Certs[s.cert].name
             /\ c.peer_key_bytes = Certs[s.cert].keylen
  <2>1. DOMAIN Served = Fds
    BY TlsAssumption DEF Fds
  <2>2. CertName[s.cert] = Certs[s.cert].name /\ KeyLen[s.cert] = Certs[s.cert].keylen
    BY <1>4, <2>1, KeysAssumption DEF Keyed
  <2> QED  BY <1>4, <2>2 DEF Keyed, HasKeys
<1>5. ASSUME st[f] = "tls", line[f] = "up"
      PROVE  /\ conns[Session(f)].seq_send = srv[f].rseq + Len(toSrv[f])
             /\ conns[Session(f)].seq_recv
                  + Cardinality(
                      {i \in DOMAIN toCli[f] : toCli[f][i].ct \in {Handshake, Application}})
                  = srv[f].wseq
  <2>1. PICK c, s, q, d : c = conns[Session(f)] /\ s = srv[f] /\ q = toCli[f] /\ d = damaged[f]
    OBVIOUS
  <2>2. /\ c.seq_send = s.rseq + Len(toSrv[f]) /\ InSeq(q, s, c.seq_recv, d)
        /\ c.seq_recv \in Nat /\ IsSeq(q)
    BY <1>1, <1>5, <2>1, SessionHolds DEF Served1, Arriving, Keyed, Always, Kinds
  <2>3. c.seq_recv + Cardinality({i \in DOMAIN q : q[i].ct \in {Handshake, Application}}) = s.wseq
    BY ONLY <2>2, Unread
  <2> QED  BY <2>1, <2>2, <2>3
<1>6. ASSUME st[f] = "tls" PROVE Keyed(conns[Session(f)], srv[f], f)
  BY <1>6, SessionHolds DEF Served1
<1> QED  BY <1>2, <1>4, <1>5, <1>6

LEMMA StreamHolds == TInv /\ Conversations => StreamIntact
<1> SUFFICES ASSUME TInv, Conversations, NEW f \in Fds
    PROVE  /\ got[f] = Bytes(0, Len(got[f])) /\ srv[f].got = Bytes(0, Len(srv[f].got))
           /\ st[f] = "tls" /\ line[f] = "up" =>
               /\ got[f] \o conns[Session(f)].app_buf \o Carried(toCli[f]) = Bytes(0, srv[f].sent)
               /\ srv[f].got \o Carried(toSrv[f]) = Bytes(0, put[f])
  BY DEF StreamIntact
<1>1. got[f] = Bytes(0, Len(got[f])) /\ srv[f].got = Bytes(0, Len(srv[f].got))
  BY DEF Conversations, Sound, Always
<1>2. ASSUME st[f] = "tls", line[f] = "up"
      PROVE  /\ got[f] \o conns[Session(f)].app_buf \o Carried(toCli[f]) = Bytes(0, srv[f].sent)
             /\ srv[f].got \o Carried(toSrv[f]) = Bytes(0, put[f])
  BY <1>2, SessionHolds DEF Served1, Arriving, Outgoing
<1> QED  BY <1>1, <1>2

LEMMA ReasonsReal ==
  ASSUME TInv, Conversations, Justified
  PROVE  \A f \in Fds :
           st[f] # st'[f] /\ st'[f] \in {"refused", "failed"} =>
             \/ st[f] = "closed" /\ Unused = {}
             \/ line'[f] = "down" \/ damaged[f]
             \/ srv[f].at = "closed" /\ ~srv[f].rejected
             \/ srv[f].cert # 0 /\ ~Certs[srv[f].cert].usable
<1> SUFFICES ASSUME NEW f \in Fds, st[f] # st'[f], st'[f] \in {"refused", "failed"}
    PROVE  \/ st[f] = "closed" /\ Unused = {}
           \/ line'[f] = "down" \/ damaged[f]
           \/ srv[f].at = "closed" /\ ~srv[f].rejected
           \/ srv[f].cert # 0 /\ ~Certs[srv[f].cert].usable
  OBVIOUS
<1>1. (st[f] = "closed" /\ Unused = {}) \/ Reason(f)
  BY DEF Justified
<1>2. ASSUME damaged[f] = TRUE PROVE damaged[f]
  BY <1>2
<1>3. ASSUME srv[f].rejected = FALSE PROVE ~ srv[f].rejected
  BY <1>3
<1> QED  BY <1>1, <1>2, <1>3, Zenon DEF Reason

----------------------------------------------------------------------------
(***************************************************************************)
(* The theorems.                                                           *)
(***************************************************************************)
\* No slot of conns[] is lost and no socket has two: a slot in use belongs to the
\* handshake that runs or to a session the program still holds, after every way a
\* handshake can fail (the fail label, vtls.c:1646), for any number of sockets and
\* slots.  find_conn (vtls.c:1038) so finds the slot of the socket it is asked for.
THEOREM SlotsBelong == Spec => []SessionPerSlot
<1> QED  BY Invariance, SessionsSuffice, PTL

\* A handshake that vtls_handshake (vtls.c:1291-1649) reports as successful has
\* given both sides the same keys in the right directions and record counters that
\* agree with what is under way, and the subject and key size shown to the user are
\* those of the server's own certificate, however the server cut its flight and
\* whatever a damaged record held; a server never rejects what the client sent
\* unless a record of its own had been damaged on the way.  This holds for any
\* number of sockets and slots, and whatever the certificates, keys and key
\* exchange are that the assumptions describe.
THEOREM KeysAgree == Spec => []PeersAgree
<1> QED  BY ConversationsHold, AgreementHolds, PTL

\* The application data of a session arrives once and in order in both directions:
\* what vtls_recv (vtls.c:1665-1713) has handed out, what app_buf keeps and what
\* is under way are together what the server sent, however it is cut into records
\* and reads, and damage is never handed out as data (tls_read_record,
\* vtls.c:1101-1178).
THEOREM StreamsIntact == Spec => []StreamIntact
<1> QED  BY ConversationsHold, StreamHolds, PTL

\* vtls_handshake, vtls_recv and vtls_send fail only for a reason: every way to
\* the fail label (vtls.c:1646), and every negative return of vtls_recv and
\* vtls_send, means that no slot was free, that the certificate could not be used,
\* that the connection was lost, that the server had closed or refused, or that a
\* record had been damaged.  In particular the client's MAC, padding, hash and
\* verify_data checks never fail on what a server sent correctly.
THEOREM FailuresReal == Spec => FailureIsReal
<1>1. TInv /\ Conversations /\ [Next]_vars =>
        [\A f \in Fds :
           st[f] # st'[f] /\ st'[f] \in {"refused", "failed"} =>
             \/ st[f] = "closed" /\ Unused = {}
             \/ line'[f] = "down" \/ damaged[f]
             \/ srv[f].at = "closed" /\ ~srv[f].rejected
             \/ srv[f].cert # 0 /\ ~Certs[srv[f].cert].usable]_vars
  BY NextSound, ReasonsReal
<1> QED  BY <1>1, ConversationsHold, PTL DEF Spec, FailureIsReal

=============================================================================
