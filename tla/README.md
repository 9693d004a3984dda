# vmodem: a TLA+ model of the TSR

vmodem is a DOS TSR that makes TCP callers look like modem callers.  A bulletin
board (BBS) talks to it through the FOSSIL interface (INT 14h), utilities through
INT 2Fh, and mTCP carries the TCP connections.  There are no threads: everything
runs on the stack of whoever issued a software interrupt.  What makes the program
hard is that one call of a caller is driven by many short pieces of code that are
run in an order nobody controls (the BBS, the DOS idle interrupt INT 28h, utilities,
the network), and that each piece looks at state the others left behind.

Sources are named relative to the repository: `src/poll.c`, `README.md`, and so on.
In `PROJECT.json` the same files carry one more `src/` in front.

## Inventory

| Component | State | Operations | Hard behaviour | What makes it correct |
|---|---|---|---|---|
| Ports and hunt groups (`src/poll.c`, `src/vmodem.c`, `src/vmodem.h`) | `PortState` (mode, socket, listener, hunt group, `pending_close`), `huntGroups[]`, the deferred-close queue | `do_mtcp_poll`, `sock_close_fast`, `cmd_listen`, `cmd_disconnect`, `cmd_hunt_listen` | connections come and go between two phases of one poll; a close is asked for in one context and done in another; one `accept()` for all listeners; the queue can be full | each socket has one owner; a hang-up ends the call it was meant for and no other; a line is never dead |
| FOSSIL (`src/int14.c`) | `g_fossil_init`, `g_dtr`, `g_purge_seen`, flow flags | AH=00h to 1Bh | init in the middle of a call; status polls drive the network | carrier and ringing tell the truth about the call |
| TX path (`src/int14.c`) | `g_tx[]`, the shared `g_tx_pending` | AH=01h, 0Bh, 19h, 08h, 09h, `fossil_flush_tx` | partial sends; one leftover buffer for all ports | the caller gets what was written, in order, once |
| AT modem (`src/atcmd.c`) | `AtState`: ringing, rings, pending CONNECT, command mode, S registers, line buffer | `at_input`, `at_execute`, `at_check_ring` | timers against commands; the no-answer time-out | an unanswered call rings; CONNECT only after an answer |
| RX ring (`src/ringbuf.c`, `src/poll.c`) | 4096-byte ring per port | `ring_put`, `ring_get`, the drain loop | back-pressure against telnet expansion | FIFO; nothing dropped silently |
| Telnet (`src/telnet.c`) | negotiation and parser state | `telnet_on_connect`, `telnet_filter`, `telnet_send_byte` | commands split over packets; negotiation loops; `sb_len` wraps | transparent to data |
| External sockets (`src/int8.c`, `src/poll.c`) | table of sockets: state, `mux_sock_result` | `MUX_SOCK_*`, the table walk in `do_mtcp_poll` | the poll and the client both write the state | a handle comes back; nobody closes twice |
| Client library (`src/lib/vsocket.c`) | flags of the handles in use, deadlines | `socket`, `connect`, `send`, `recv`, `closesocket`, `vsock_data_ready`, `gethostbyname` | waiting loops against time-outs, states and midnight; the program's memory ends before the TSR's table | every handle it takes it gives back; a lookup ends |
| DNS (`src/int8.c`) | `dns_hostname`, `dns_resolve_state`, `dns_resolved_ip` | `MUX_SOCK_RESOLVE`, `MUX_SOCK_RESOLVE_RESULT`, `MUX_SOCK_DNS_FLUSH` | one query and a shared cache; a lookup that was given up leaves its query behind | the address belongs to the name |
| ICMP (`src/poll.c`, `src/int8.c`) | one echo request | `MUX_ICMP_*`, `vmodem_icmp_handler` | late answers; unresolved ARP | the answer belongs to the request; a request ends |
| Entry (`src/int8.c`, `src/fossil.asm`) | `busy`, safe-context flags, private stack | INT 28h, INT 2Fh | re-entrancy | one poll at a time |
| Debug log | 2 KB ring, file handle | `dbg`, flush in the poll, `MUX_DBGLOG` | file writes only when DOS is idle | no tearing |
| TLS (`src/lib/vtls.c`) | `conns[4]`: socket, keys, counters, `cipher_active`, the rest of a record; the locals of the handshake | `vtls_handshake`, `vtls_send`, `vtls_recv`, `vtls_close`, `vtls_peer_cn`, `vtls_peer_key_bits` | a flight cut into records anyhow; a failure after any message; counters that start again in mid-handshake; waiting for a server | both sides hold the same keys and counts; data intact; no slot lost; a failure has a reason |
| Hashes, ciphers, big numbers (`src/lib/vtls.c`, `src/lib/sha256.c`) | a hash's block and length; word arrays | `sha1_*`, `sha256_*`, `hmac_*`, `tls_prf`, `bn_*`, `rsa_encrypt`, `aes_*` | carries, borrows, leading zeros, odd lengths | what the other side computes |
| Installation, utilities, tests | - | - | DOS memory and vectors | - |

The hazards of this code are listed in `PROJECT.json`, each with its line and with
the properties that watch it.

## Modules

| Module | Models | Composed with |
|---|---|---|
| `VmodemPorts` | life of a call: ports, groups, sockets, the poll cycle, the FOSSIL calls and AT commands that move a call, INT 2Fh commands | mTCP as environment |
| `MCPortsLine`, `MCPortsHunt` | values of the constants for TLC | `VmodemPorts` |
| `VmodemPortsProofs` | type correctness, that a poll never goes on with a socket that was closed under it, socket ownership, and what a call goes through: ringing, hang-ups, and a line that comes back after it | `VmodemPorts` |
| `TxPath` | the way of output bytes: TX rings, shared pending buffer, partial sends, purges, block writes | of the call only what the transmitter looks at |
| `MCTxPath` | values for TLC: how much each port writes | `TxPath` |
| `TxPathProofs` | the bounds of the buffers, and that output arrives intact and with nobody else | `TxPath` |
| `RxPath` | the way of input bytes: drain loop, telnet filter and negotiation, RX ring, FOSSIL reads | the terminal program and mTCP as environment; of the call only what the receiver looks at |
| `RxFifo` | what the RX ring promises: a bounded queue, emptied only as a whole | implemented by `RxPath` |
| `MCRxPath` | values for TLC: window sizes, one with a byte of 255 | `RxPath` |
| `FoldTheorems` | what `FoldLeft` computes, for any operator | used by the proofs of `RxPath` and `Tls` |
| `RxPathProofs` | that the caller's bytes arrive, that window sizes are real, and that the ring implements `RxFifo` | `RxPath`, `FoldTheorems` |
| `ExtSockets` | the table of outgoing connections: `MUX_SOCK_*` and step 3 of the poll | mTCP as environment |
| `VSocket` | programs that use `vsocket.lib`, one after the other: `socket` to `closesocket` with their waiting loops | `ExtSockets`, extended with the library's state |
| `VSocketProofs` | ownership of those sockets, that empty entries are clean, and what the library tells a program | `VSocket` |
| `MuxIcmp` | the one echo request behind `MUX_ICMP_*` | the network and the BIOS clock as environment |
| `Resolver` | name resolution, in the TSR and in the library, of a program that also pings | `MuxIcmp`, extended; mTCP's query and cache as environment |
| `NetToolProofs` | that answers, time-outs and addresses belong to what was asked, and that `Resolver` does to a ping only what `MuxIcmp` allows | `Resolver` |
| `Bignum` | the word arithmetic and the RSA encryption of `vtls.c` | - |
| `X509` | the walk through a certificate, and the encoding it walks | - |
| `Digest` | how the hashes cut their input into blocks, and what the other side computes | - |
| `TlsRecord` | a connection, its keys and counters; writing and reading a record | `Digest` |
| `TlsKeys` | from a certificate to the encrypted pre-master secret, and the server's way back | `Bignum`, `X509` |
| `Tls` | the four calls of `vtls.h` over several sockets, the servers, losses and damage | `TlsRecord` |
| `MCTls` | certificates with small keys, and the values `TlsKeys` gives for them | `Tls`, `TlsKeys` |
| `TlsSessionProofs` | what hashes and records promise, and what a conversation between a client and a server goes through | `Tls`, `FoldTheorems` |
| `TlsProofs` | that slots and sessions belong together, that both sides agree, that data arrives intact, and that failures are real | `TlsSessionProofs` |


### How VmodemPorts corresponds to the code

A FOSSIL call, an AT command and an INT 2Fh command run to completion and are one
action each.  `do_mtcp_poll` is not one action: it processes packets half-way, and
mTCP's state moves under it.  The variable `poll` says where it is:

| `poll.phase` | code | actions |
|---|---|---|
| `drain` | deferred-close queue, `poll.c:106` | `PollDrain` |
| `hunt` | one step per hunt group, `poll.c:193` | `HuntAccept`, `HuntReject`, `HuntSkip` |
| `port` | accept, or turn away a second caller, `poll.c:242` | `PortAccept`, `PortBusyReject`, `PortNoCaller`, `PortIdle` |
| `ring` | `at_check_ring`, `poll.c:350` | `PortRing` |
| `close` | the pending hang-up, `poll.c:366` | `PollClose`, `NothingToClose` |
| `traffic` | bytes, idle time-out, disconnect, `poll.c:398` | `PortTraffic`, `PortIdleTimeout`, `PortDisconnect` |
| `status` | what AH=03h does after its poll, `int14.c:497` | `StatusTail` |

`poll.safe` is `g_dos_safe || g_int14_safe`; `poll.caller` is the port of an AH=03h
call.  `poll.phase = "idle"` is `g_state.busy == 0`: no other call starts otherwise.
A comparison of BIOS ticks is a choice, so that a timer may fire or not at each
look.  mTCP is the environment: callers arrive while its pool of sockets lasts,
close, vanish; a close ends at some time.  `orphans`, `answered`, `hangup` and `via`
are history variables: the code has no such state.  Both values 1 and 2 of
`pending_close` (2 suppresses the farewell text) are `TRUE`.

### How TxPath corresponds to the code

`ring[p]` is `g_tx[p]`, `pend` and `owner` are `g_tx_pending[off..len)` and
`g_tx_pend_port`, which is 0 at start-up although 0 is a port, as in the code.
`Flushes(p)` is the set of outcomes of `fossil_flush_tx`, one for each number of bytes
that `send()` may take of the leftovers and of the batch.  `block` is the loop of
AH=19h.  A byte is its port, its number and whether it is FFh, so that loss,
duplication and reordering all show.  `wire` and `owed` are history: what mTCP took
in this call, and what the application wrote and did not purge.

### How RxPath corresponds to the code

`rx` is the `RingBuf` of the port with its indices; `tel` is the telnet part of `PortState`:
`st` is `iac_state`, with `iac_cmd` in place of `IAC_SAW_CMD`, `neg` the set of options whose
`neg_` flag is set, `opt`, `buf` and `len` the accumulator of subnegotiations, `naws` the
window size.  `Drain(k)` is one round of the loop at `poll.c:407` that reads `k` bytes; that
`k` may be anything stands for packets and polls that cut the stream anywhere.  A byte is
its code, and the number of the datum that it is when the terminal means it as data; the
two halves of a doubled FFh are one byte of telnet's own and one of data, so a byte that is
lost, doubled, misread or delivered too early shows.  `tcp` is what mTCP holds, `toPeer` what the
terminal has been told and has not reacted to.  `PeerSends` and `PeerAnswers` are a terminal
that doubles FFh and otherwise does as it likes: it agrees, refuses, keeps silent, and talks
unasked.  A text of the modem is one entry of the ring; the actions of the call
(`TakeCall` to `FossilInit`) keep what matters here: whether bytes are delivered, and that
the ring is cleared.  `owed`, `got` and `told` are history.  `iac_has_pending` is never set by
the code and has no counterpart.  Ports that are set up anew in a call are left to `VmodemPorts`.

### How ExtSockets and VSocket correspond to the code

`sock`, `state` and `pendingConnect` are the fields of `ext_sockets[]`, `result` is
`mux_sock_result`.  Each INT 2Fh call is one action, enabled when no poll is under way.
A poll is `StartPoll` (which also finishes deferred closes), then for every entry
`ExtEmpty` or `ExtService`; the latter does the deferred connect, the close and the
tracking of one entry in the order of `poll.c:590-625`.  `net` is what mTCP would answer
of a socket: a socket that was never connected reads as closed.  The ports share the
deferred-close queue, so `CloseFast` may find it full at any time.  In `ExtSockets`
clients call in any order, which is what utilities without the library may do; in
`VSocket` such a program comes first (`raw`), and after it programs that use the library.
There `pc` says where in which library call the program is, and a deadline or retry limit
may be reached at each look.  `ProgramEnds` may come between any two calls: the flags
`vsock_allocated[]` are gone with the program, the table of the TSR is not.  `left` is
history: the slots that ended programs left behind.

### How MuxIcmp corresponds to the code

`icmpState`, `sendPending`, `seq` and `res` are the fields of `g_state` with those names
and `age` is the tick count minus `icmp_send_tick`.  The network may answer a request
with an echo reply, an error, or both; `onTheWay` keeps an answer that may still come,
or come again.  `res.for` and `sentAge` are history: whose answer it really was, and how
long the request has really been on its way.  At midnight the tick count starts again from 0 and
`age`, a difference of 16 bits, jumps; `midnight` remembers that it did.

### How Resolver corresponds to the code

`hostname` and `dnsState` are `g_state.dns_hostname` and `dns_resolve_state`; an address is the
name it belongs to, so that a wrong one shows.  `query` and `cache` are what mTCP keeps: one
query under way and one entry.  `GetHostByName` is the library call up to its loop with the
`MUX_SOCK_RESOLVE` it makes: the answer is in the cache, a query was sent, or there is an error;
`LoopHead` is the `while` of `vsocket.c:606` and `Look` its body, with the whole of
`MUX_SOCK_RESOLVE_RESULT`.  `left` counts the ticks to the deadline; at midnight it becomes
`Never`, since the deadline is a tick number larger than any of the new day.  `Tick` and
`Midnight` move the ping and the lookup at once.  While `gethostbyname` waits the program makes
no other call, but the TSR still handles what arrives for its ping.

### How the TLS modules correspond to the code

`conns` is the table of `vtls.c:1036`; `hs` holds the locals of `vtls_handshake`, `hs.at` says where
it is; `st` is what a program knows of its socket.  A message or a record is a record of what
it says; its bytes are those that are hashed (`MsgBytes`).

| `hs.at` | code | actions |
|---|---|---|
| - | slot and ClientHello, `vtls.c:1308` | `vtls_handshake`, `HandshakeWithoutSlot`, `HelloUnsent` |
| `flight` | ServerHello to ServerHelloDone, `vtls.c:1374` | `FlightRecord` |
| `cert`, `key` | empty Certificate, ClientKeyExchange and the keys, `vtls.c:1475` | `EmptyCertificate`, `ClientKeyExchange`, `KeyTooShort` |
| `ccs`, `fin` | ChangeCipherSpec and Finished, `vtls.c:1567` | `SendChangeCipher`, `SendFinished` |
| `finished` | the server's answer, `vtls.c:1602` | `FinishedRecord` |

`tls_recv_all` waits twice for every record, for its header and for its body: `Header`, and the
action that handles the record.  In between the environment may do anything.  Any wait and any write can
find the connection gone (`HandshakeReadFails`, `AnswerUnsent`, `RecvFails`, `SendFails`).

Of the cryptography, the parts that are easy to get wrong by one are computed, the rest is
symbolic.  `Bignum` is the arithmetic of the code, word by word, with words of 4 bits for 16;
`X509` walks real DER bytes; `Digest` cuts bytes into blocks, pads and appends the length as
`sha256.c` and `vtls.c` do, and a digest is the list of compressed blocks, so that two digests
are equal exactly when the same bytes were hashed.  What AES encrypts under a key comes back
under that key only; `tls_prf` gives slices of a stream named by the secret; HMAC keeps its key
as it is.  The server side, all of it external, is written from the protocol and not from the code: it
decrypts with the private exponent and plain integers, counts its own records, and checks MACs
with the definition of the padded message.  `PreMaster`, `KeyLen`, `CertName`, `Encrypted` and
`PreMasterOf`, constants of `Tls`, are given by `MCTls` as what `TlsKeys` computes for each certificate.
What `Tls` needs of them is `KeysAssumption`: the key and the name that the walk takes from a server's
certificate are the certificate's, and its holder gets back the pre-master secret.  TLC evaluates it
for the six certificates on every run of `MCTls`, and the proofs use nothing else of the arithmetic.


## Runs

| Run | Bounds | Shows |
|---|---|---|
| `PortsLine` | 1 port, 3 sockets, queue of 1, 2 rings, S0 up to 1, every optional call | types, a port's socket under service, ringing, hang-ups and their context |
| `PortsReconf` | 2 ports standalone or in a group, 4 sockets, `MUX_LISTEN` and `MUX_HUNT_LISTEN` at any time | dispatch and busy callers; each socket owned once, the abandoned ones the only ones lost; no dead line |
| `PortsLive` | 1 port standalone or in a group, 3 sockets, fair polls | hang-ups are honoured, sockets come back, callers are served or turned away |
| `PortsStaleHangup`, `PortsWrongLine` | 1 or 2 ports | findings, below |
| `TxPorts` | 2 ports, ring of 1, the busy one writes 2 bytes and the quiet one 1, blocks of up to 2, fair polls | the caller of a port that writes alone gets its stream intact, TSRE is honest, nobody gets another's bytes, output drains |
| `TxShared` | 2 ports, 1 byte each | a finding, below |
| `RxCall` | ring of 2, batches of up to 2, 2 options (one unknown to the code), 2 window sizes, 2 things sent unasked, call after call, fair polls | the application reads exactly the caller's data, reported window sizes are real, negotiation ends, back-pressure lets go, the ring implements a bounded queue |
| `VSocketUse` | 2 handles, 2 sockets, queue of 1, a program without the library and then programs with it, fair polls | sockets have one owner and empty entries are clean; descriptors and slots agree; refusals and ends of data are real; slots come back |
| `NetToolUse` | 2 echo requests and 2 names, time-out of 1 tick, a lookup of 1 tick, midnights at any time, one cache entry | an address is that of the name asked for; answers and time-outs belong to the present request; requests and lookups end |
| `Tls` | 3 sockets, 2 slots, 6 certificates, flights cut in 3 ways, 2 handshakes, one write of 11 bytes each way read 8 at a time, 1 lost connection, 1 damaged record | sessions and slots agree, both sides hold the same keys and counts, data is intact, failures have a reason, calls return |
| `IcmpStale` | 2 requests | a finding, below |

Why the bounds are enough.  A deferred-close queue of 1 is full as soon as two calls
end in turn, which the code's 4 hides; 3 or 4 sockets are one listener, a call, and
callers that wait or are being closed.  `MaxRings` = 10 in the code only counts how
often the same choice is offered.  `PurgeMod` is the width of `g_purge_seen`: the
code compares it with 3, so any value above 3 has the same wrap.  In `TxPath` a ring
of 1 with 2 bytes, each of them possibly FFh, fills, drains in part and fills again, and a block of 2 exceeds the
ring; the code's ring only takes longer to do so.  `TypeOK` there says that what is pending fits in a buffer of twice the ring.
In `RxPath` a ring of 2 wraps and fills with data and texts, and a batch is as long as the
ring, so that back-pressure works on every batch; `Window` bounds what waits in mTCP and
`MaxUnits` what a terminal starts by itself, its answers not counted.  Two window sizes in one call are
enough to put one together from two, and an option that the code does not know shows the refusals.
Two handles are enough for one descriptor to be closed, or reused, while another one
is in a call, and two sockets let an entry be reused while its last
socket is still in the close queue.  Two echo requests are one that is late and the
present one; the time-out of 1 tick stands for 91 and the lookup's 1 for 273, and nothing
depends on their values (the proofs about the ping hold for every one); two names are one that
was given up and the present one.

In `Tls`, two slots and three sockets leave one handshake without a slot; two handshakes are one after
another on the same socket, or one on each of two, so that a slot left behind would be found again.  The six
certificates have moduli of odd and even length, with and without a sign byte, behind short and long
length fields; one is too short, one is not RSA, one states no version, and the last is what damage makes
of the first.  The flight comes in one record, in one for each message, or cut after the first.  Eleven bytes
read eight at a time leave a rest, and with the MAC they exactly fill a cipher block, where the padding
is empty.  A hash block of 4 bytes is filled, overfilled and left open by messages of 2 to 9 bytes.  More losses or
damaged records only end more sessions.  `DigitBits` = 2 makes a word 4 bits wide: every carry and borrow
between words happens, and the moduli that are used have 3 and 4 of them.

`CHECK_DEADLOCK` is on except in `Tls`, where all handshakes may be over and all sockets closed.

Fairness.  `SF(Int28Poll)`: DOS issues INT 28h over and over while it waits for input,
and the guard (`busy`) is free again and again.  `WF(PollStep)`: a poll that has begun
runs to its end.  `WF(CloseDone)`: mTCP's close succeeds or times out.  In `TxPath`,
a poll cycle comes round for a port in a call, and as long as the caller reads, mTCP
takes some bytes again and again.  In `RxPath`, `SF(DrainSome)`
is the poll again (a FOSSIL read itself begins with one), `SF(PeerAnswers)` says that the terminal deals with what it
was told, if only by silence, and `SF(ReadAll)` that the application now and then reads the
ring empty, which AH=18h does; a BBS that does not read is what back-pressure is for.  In `VSocket`, `SF(OtherPoll)` is INT 28h again,
`WF(PollStep)` as above, and `WF(InCall)` says that a library call goes on.  In `Resolver`,
mTCP ends each query, by an answer or by giving up, and `gethostbyname` goes on.  In `Tls`, a call
that can go on does (`WF(Running)`; it is a plain loop), and a server answers what has arrived; nothing is
assumed of how it cuts its records, of losses, or of the program.  In
`MuxIcmp`, time passes, the client asks again, and ARP resolves in the end; without the
last one a ping waits for ever, since the code does not look at the time-out before
the request has left (`int8.c:689`).  Nothing is assumed of callers or the BBS.

### What the violation runs show

* `PortsStaleHangup`: `at_check_ring` ends a call that nobody answered without clearing
  `pending_close`; the next caller is hung up on.  `int14.c:531` describes this very race.
* `PortsWrongLine`: mTCP's `accept()` is global, so with two standalone lines the caller of
  one number reaches the other COM port, against `README.md:78`.
* `TxShared`: the flush of one port overwrites the leftovers of another.
* `IcmpStale`: an ICMP error is compared by identifier only, so a late "time exceeded" of one
  hop is reported as the answer to the next request, against `poll.c:37`.

Seen while modelling, without a run: before the first AH=04h, and without `/E`, all
members of a group are `PORT_DISC`, so callers hear "engaged" on an idle board
(`README.md:310`); AH=09h between the halves of a doubled FFh leaves a lone IAC for the
wire; `g_purge_seen` is one byte and wraps at 256 status polls; the end of a
call discards what the caller sent and the BBS has not read (`poll.c:560`); ATO waits for
CONNECT once more and drops what comes in those two seconds; a window size with a byte of
255 is ignored (`telnet.c:328`); a deadline of
`vsocket.c` (lines 290 and 605) that is set just before midnight is never reached, since it is
larger than any tick number of the next day, and a ping under way at midnight times out at once
(`int8.c:689`); a result text that does not fit in the ring is cut off (`atcmd.c:69`); a `+` after
half a second of silence is lost if two more do not follow (`atcmd.c:567`); reading the debug log by
`MUX_DBGLOG` moves the ring's head, and the next flush writes old bytes again (`poll.c:628`).

In `vtls.c`: `loops > 50000` (line 1073) cannot hold in a 16-bit `int`, so a silent server is waited for
for ever; after the server ends the connection without `close_notify`, `vtls_recv` returns 0 for ever
(line 1685) where `vtls.h:39` says "-1 on error/close"; an alert of a session is neither decrypted nor
counted (line 1125), which does no harm because the session ends there; a certificate without a
version is refused, although the comment at its check calls the version optional; a handshake
message cut over two records ends the handshake; a handshake that fails leaks the copies of
certificate and key (line 1646); `closesocket` without `vtls_close` leaves a slot that `find_conn` finds first for the
next connection with that number; `vtls_send` of more than 16384 bytes makes a record that is too long.


## Proofs

| Theorem | States |
|---|---|
| `TypeCorrect` | `Spec => []TypeOK`: also that the poll loop's index stays in its table |
| `SocketHeld` | `Spec => []SocketHeldInService`: between `at_check_ring` and the end of the iteration the port still has the socket that the code dereferences |
| `SocketsOwned` | `Spec => []SocketOwnership` |
| `ModeIsSocket` | `Spec => []ModeMatchesSocket` |
| `CallersHearRinging` | `Spec => []UnansweredCallRings`: a caller nobody answered hears ringing, whatever the BBS initialises meanwhile |
| `LinesAlive` | `Spec => []NoDeadLine`: a line in service listens or is in a call, however the last call ended |
| `HangupEndsWithCall` | an answered call that ends takes its hang-up request with it |
| `CallsEndSafely` | an answered call is ended only by a poll that may transmit or by the application |
| `TxBounds`, `TxStream`, `TxEmpty`, `TxOwnOutput` | `TxPath`: `TypeOK`, `StreamIntact`, `EmptyMeansSent` and `OwnOutputOnly` always hold |
| `RingTyped` | `RxPath`: `TypeOK`, so head, tail and count of the ring agree and stay in range |
| `CallerHeard` | `Spec => []Transparent`: what the application reads is what the caller sent, wherever polls cut the stream |
| `SizeTold` | `Spec => []NawsReal`: a window size that is reported was sent by this terminal |
| `RingIsQueue` | `Spec => ImplementsFifo`: the ring implements the bounded queue of `RxFifo` |
| `ExtTypeCorrect`, `ExtSocketsOwned`, `SlotsClean` | `ExtSockets`: `TypeOK`, `SocketOwnership` and `EmptySlotClean` always hold |
| `LibraryKeepsTable` | the same three hold of programs that use the library, of those that do not, and when programs end between two calls |
| `DescriptorsHaveSlots`, `RefusalsAreReal`, `EofAfterLastByte` | `VSocket`: `FdHasSlot`, `RefusalIsReal` and `EofOnlyAtEnd` |
| `SlotsBelong` | `Tls`: `Spec => []SessionPerSlot`, whatever servers send and wherever a handshake fails |
| `KeysAgree` | `Tls`: `Spec => []PeersAgree`: after a handshake both sides hold the same keys and count records alike, and an undamaged client is never rejected |
| `StreamsIntact` | `Tls`: `Spec => []StreamIntact`: data arrives once and in order in both directions |
| `FailuresReal` | `Tls`: `Spec => FailureIsReal`: nothing that was sent correctly is taken for an error |
| `Sha256Final`, `Sha1Final` | both hashes of the code, fed in any pieces, give the padded message cut into blocks, for every block length |
| `HmacIsSha1` | `hmac_sha1` is the MAC that the server computes over the padded message |
| `ShaInjective` | two messages with the same padded blocks are the same message |
| `EchoOwn`, `TimeoutReal`, `OutcomeKept` | `MuxIcmp`: `EchoIsOurs`, `TimeoutIsReal` and `OutcomeStands` |
| `PingsUndisturbed`, `PingsTrue` | `RSpec => Spec`: a program that also looks names up still behaves as `MuxIcmp`, so what holds of the ping holds of it |
| `AddressOwn` | `RSpec => []AddressIsForName`: a lookup never returns the address of another name |

Each holds for every value of the constants that the named assumption of its module
allows.  `PortsAssumption`: any number of ports, groups and sockets, any queue length (0
included), any command line, any set of optional calls.  `TxAssumption` and `RxAssumption`: any
number of ports, any size of the rings, of `send()` and of the batch, any options and window
sizes, any amount of data.  `ExtAssumption`: any number of handles and
sockets and any queue.  `IcmpAssumption`, `ResolverAssumption`: any number of requests, any
names, any time-out.  `TlsAssumption`: any number of sockets and slots, any certificates, any
cuts, losses and damage; `KeysAssumption` says that the walk through a certificate and the key exchange do what
the other side expects, and is used by `KeysAgree`, `StreamsIntact` and `FailuresReal` only.

### The arguments

*Ports.*  `TypeOK` is not inductive alone, because the poll's later phases look up
`net[sock[poll.i]]`, which has a type only while that port has a socket; so `TInv`
conjoins `SocketHeldInService`, and both are proved in one induction with one lemma
per action.  `SocketOwnership` needs more: a step that takes a caller must know that
the port had no socket to overwrite, which is `ModeMatchesSocket`.  The invariant is
`SInv == TInv /\ ModeMatchesSocket /\ SocketOwnership`.  The proof first states
ownership over arbitrary pointers (`Owned`) and proves once what taking a caller,
turning one away, ending a call, opening a listener and abandoning one do to it; every
action is then one of these five.

*Calls.*  `UnansweredCallRings` relates two calls: the next caller of a port hears ringing only
if the last one left the modem quiet, because `accept` sets `ringing` and leaves a CONNECT that is still to come
as it is.  So `CInv` adds that a listening port has neither (`QuietLine`), that a port that rings was not
answered, `NoDeadLine`, and that a poll that moves bytes has seen to the hang-up
request (`RequestSeen`).  The two action properties then need only look at the
actions that can end an answered call.

*TX path.*  `TInv` adds to `TypeOK` and `StreamIntact` that a port that has written nothing in
this call has nothing on its way (`QuietPort`), that the shared buffer is empty when nobody owns it
(`Ownerless`), and that what a port has on its way is made of what it wrote (`OnlyOwed`).
One lemma, `FlushSound`, says what a run of `fossil_flush_tx` does to the stream whatever `send()` takes.

*RX path.*  What the parser has seen says nothing by itself: an FFh may be half of a doubled one, or begin a command
whose rest mTCP still holds.  `RInv` speaks of both at once.  What a terminal sends is a path through the places
(`Places`, `Moves`) at which a stream of whole messages can be cut; `Stream` says that from the place
where the parser is (`Follows`) a path leads along the bytes that mTCP holds to the end of a message.
A terminal lengthens the path by a message (`StreamGrows`), and a poll cuts it at any byte (`PathCut`) and takes the
parser along its first part (`FilterPath`).  `NawsReal` comes out of the same path, which carries the size
that is being sent.  The ring is separate: `PutsRing` and `GetsRing` say what is added at the end of its contents and
taken from the front, and from them follow the steps of `RxFifo`.

*Folds.*  A batch of any length is filtered, doubled or put into the ring by `FoldLeft` over an operator of the model.  The
prover has no induction over data that takes an operator, so `FoldTheorems` proves induction for a *set* of numbers
(from the minimum of a well-founded order), with it that the function inside `FoldLeft` exists, and from that the two equations of a fold
(`FoldEmpty`, `FoldAppend`), for a constant operator `op`.  `RxPathProofs` instantiates it for each operator that `RxPath`
folds, and every lemma about a batch is an induction over its length with these equations.  `TxPathProofs` does the same for
the escaping of FFh.

*External sockets.*  For `ExtSockets` the conjunction `EInv` of the three
properties is inductive as it stands: the walk may look up `net[sock[h]]` because of the
types, what `MUX_SOCK_ALLOC` hands out belongs to nobody because of ownership, and an
entry it finds is clean because closing is the only way to lose a socket.  In `VSocket` a
step of a program is a step of `ExtSockets` or leaves the table alone.  `VInv` adds to `EInv` what each point of a library call knows of its slot;
the fact that is not obvious is that a slot marked for closing carries no connect still to be tried, because a connect
that fails would overwrite the mark (`poll.c:590`) and the slot would never come back.

*Ping and names.*  For `MuxIcmp` the missing fact is that the tick counter is the request's
true age (`age = sentAge`) as long as no midnight has come between.  Every step of `Resolver` is a step
of `MuxIcmp` or a stutter (`RSpec => Spec`), so the theorems about the ping carry over.  For `AddressIsForName` the
lookup's state must say whose query may be under way.

*TLS slots.*  `SessionPerSlot` says of a slot in use only who has it.  `TInv` adds what a call that runs may rely
on: the slot of a handshake is in use and carries its socket, which has no session yet, so the fail label gives up the
one slot that the socket has; and the socket of a `vtls_recv` still has its session.  Nothing is
assumed of the data, so `SlotsBelong` holds whatever `KeyLen`, `Encrypted` and the other parameters are.

*TLS hashes.*  Two sides that agree must first compute the same thing in different ways.  `Fed` describes a hash by what it
was fed: whole blocks, and a rest that is shorter than a block.  `sha256_update` and `sha1_update` keep it although they
fill a started block differently (`Feed256`, `Feed1`), and the padding that either `final` appends ends on a block, for every
`BlockLen`; so both equal the definition over the padded message.  `ShaInjective` goes the other way: the padded
message can be put together from its blocks, and the message found in it.

*TLS conversations.*  What an open session has agreed on is not inductive: it depends on what each side did, message by
message, while the other was elsewhere.  `Conversations` says of every socket in which stage its client and server are:
the ClientHello is under way (`Asking`); the client has `n` messages of the flight and the rest is under way, in whatever
records (`Flying`); the client has sent `j` answers of which the server has taken `i` (`Answering`); the server's ChangeCipherSpec
and Finished are under way, perhaps with data behind them (`Opened`); the server has given up (`Dead`); or the session is
open (`Served1`).  Every stage carries the transcript: the client's hash is `Fed` the messages up to there, the server's log is the
same, and the two differ at most in one number when a record of the flight was damaged (`Untouched`).  Each action takes a stage to a stage
(`NextSound`).  Two steps are not obvious.  The server checks the client's Finished against a transcript and keys that damage may have made
different from the client's; if it accepts, `ShaInjective` recovers the transcript from its hash and shows that
nothing was changed, so that from then on the keys agree.  And a flight that is cut into records anyhow reaches the client as a fold over
the messages of each record (`NoteFold`), which the cutting, also a fold (`CutFold`), does not change.
In an open session the records under way carry consecutive numbers from the reader's counter on (`InSeq`), so each is accepted in its turn and,
with what is read and what `app_buf` keeps, makes up what was sent.  The invariant was checked by TLC on the instance of the run `Tls` before it was proved.

### Left to TLC

* Liveness (`HangupHonoured`, `SocketsComeBack`, `CallersServed`, `Drains`,
  `ClosedSlotsComeBack`, `RequestEnds`, `LookupEnds`, `CallEnds`, `NegotiationEnds`, `Flows`): the
  prover has neither `ENABLED` nor the rules for fairness.
* The arithmetic of `Bignum` and the walk of `X509`: recursive functions over data, checked by TLC for the certificates
  of `MCTls`.  What the handshake needs of them is `KeysAssumption`.
* That the specification has the behaviours it should: every action fires in some run, and each property is violated by
  a plausible bug.

## Not modelled

* The compression of a hash block, P_SHA256, the outer hash of HMAC and the rounds of AES, and
  wording of texts: nothing there that a state space shows.
* In TLS: malformed handshake messages, exhausted memory, and a program that does not keep to `vtls.h`
  (a socket closed without `vtls_close`, a second handshake on a session).
* `vmodctl.c`, `comdiag.c`, `fosschk.c`: clients that print; their INT 2Fh calls are `RawCall` of `VSocket`
  and the commands of `VmodemPorts`.
* `vmodtest.c` and the test suite: read as statements of what the code should do.
* DOS memory, vectors, the stack switch and the signature stub: assembly and I/O.
* Deadlines of `connect`, `send` and the modem: choices at each look; only `Resolver` and `MuxIcmp` have a clock.
* In `RxPath`: the terminal's name and telnet keepalives, the texts sent to the caller, and a
  result text that is cut off because the ring is full.
* AT line editing, the FOSSIL information calls, and the debug log: text and its storage; what is
  notable there is listed above.

## Plan

1. Done: `VmodemPorts`, `TxPath`, `RxPath` over `RxFifo`, `ExtSockets`, `VSocket`, `MuxIcmp`, `Resolver`, `Tls`
   with its parts; proofs of ownership in both socket tables and of the echo request.
2. Done: theorems for every invariant and every safety action property that the passing runs check, the refinement of
   `RxFifo`, that of `MuxIcmp` by `Resolver`, and the hashes of `Digest` against their definition.
3. Left: `KeysAssumption` from `Bignum` and `X509` (it needs induction over words and bytes), and the parts listed
   under "Not modelled".
