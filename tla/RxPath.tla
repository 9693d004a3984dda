------------------------------- MODULE RxPath -------------------------------
(***************************************************************************)
(* The way of a byte from the caller to the application, for one port: the *)
(* drain loop of do_mtcp_poll (poll.c), the telnet filter and its option   *)
(* negotiation (telnet.c), the RX ring (ringbuf.c), and the FOSSIL calls   *)
(* that read it (int14.c).  The AT modem (atcmd.c) writes its texts into   *)
(* the same ring; here a text is one entry.                                *)
(*                                                                         *)
(* One iteration of the drain loop is one action; that fewer bytes are     *)
(* read than could be stands for those that have not arrived yet.  Of the  *)
(* life of a call only what the receiver looks at is kept, as in TxPath.   *)
(* Reconfiguration, keepalives and the terminal's name are left out.       *)
(***************************************************************************)
EXTENDS Naturals, Sequences, SequencesExt

CONSTANTS
    RingSize,    \* RING_SIZE
    Chunk,       \* sizeof(tmp)
    PeerOpts,    \* options that the caller's terminal talks about
    Sizes,       \* window sizes, as the four bytes of NAWS
    Window,      \* bound: more is sent only when less than this waits in mTCP
    MaxUnits     \* bound: what a caller sends unasked, in all calls

ASSUME RxAssumption ==
    /\ RingSize \in Nat \ {0} /\ Chunk \in 1 .. RingSize
    /\ Window \in Nat /\ MaxUnits \in Nat
    /\ \A size \in Sizes : Len(size) = 4 /\ size \in Seq(ToSet(size))

VARIABLES
    line,        \* idle; ringing; connect pending; open
    rx,          \* the ring: head, tail, count, data
    tel,         \* the telnet fields of PortState
    tcp,         \* bytes that mTCP has for this call, oldest first
    toPeer,      \* option replies that the terminal has not answered yet
    units,       \* how much callers have sent
    got,         \* history: the caller's bytes that were read
    owed,        \* history: got, and those that still have to be
    told         \* history: window sizes that the terminal sent in this call

peerVars == <<tcp, toPeer, units, told>>
vars == <<line, rx, tel, tcp, toPeer, units, got, owed, told>>

----------------------------------------------------------------------------
(***************************************************************************)
(* Bytes.  n numbers the data that the caller means; 0 is telnet's own.    *)
(***************************************************************************)
B(c)       == [code |-> c, n |-> 0]
Data(c, n) == [code |-> c, n |-> n]
Text       == B("text")
NoByte     == B("none")

\* What a terminal sends: FFh is doubled, in data and in subnegotiations.
Doubled(s, c) == s \o (IF c = "IAC" THEN <<B("IAC"), B("IAC")>> ELSE <<B(c)>>)
DoubleFF(s) == FoldLeft(Doubled, <<>>, s)
Option(cmd, opt) == <<B("IAC"), B(cmd), B(opt)>>
Naws(size) == <<B("IAC"), B("SB"), B("NAWS")>> \o DoubleFF(size)
                \o <<B("IAC"), B("SE")>>

----------------------------------------------------------------------------
(***************************************************************************)
(* The ring (ringbuf.c).                                                   *)
(***************************************************************************)
EmptyRing == [head |-> 0, tail |-> 0, count |-> 0,
              data |-> [i \in 0 .. RingSize - 1 |-> NoByte]]
RingInitKeepsCount(r) ==         \* mutant: a missing reset
    [r EXCEPT !.head = 0, !.tail = 0]
RingInit(r) == [r EXCEPT !.head = 0, !.tail = 0, !.count = 0]

Succ(i) == (i + 1) % RingSize

RingPutOverFull(r, b) ==         \* mutant: the count is not looked at
    [r EXCEPT !.data[r.tail] = b, !.tail = Succ(@), !.count = @ + 1]
RingPut(r, b) ==
    IF r.count >= RingSize THEN r
    ELSE [r EXCEPT !.data[r.tail] = b, !.tail = Succ(@), !.count = @ + 1]
RingGetKeepsCount(r) ==          \* mutant
    IF r.count = 0 THEN r ELSE [r EXCEPT !.head = Succ(@)]
RingGet(r) ==
    IF r.count = 0 THEN r ELSE [r EXCEPT !.head = Succ(@), !.count = @ - 1]

Contents(r) == [i \in 1 .. r.count |-> r.data[(r.head + i - 1) % RingSize]]

Puts(r, s) == FoldLeft(RingPut, r, s)

GetOne(r, i) == RingGet(r)
Gets(r, k) == FoldLeft(GetOne, r, [i \in 1 .. k |-> i])

\* A text of the modem, unless ATQ1 keeps it quiet.
Saying(r) == {r, RingPut(r, Text)}

----------------------------------------------------------------------------
(***************************************************************************)
(* Telnet (telnet.c).  neg holds the options whose neg_ flag is set; in    *)
(* IAC_SAW_CMD the state is the command that was seen.                     *)
(***************************************************************************)
Commands == {"WILL", "WONT", "DO", "DONT"}
NewTel == [st |-> "NORMAL", opt |-> "none", len |-> 0,
           buf |-> [i \in 0 .. 3 |-> "none"], neg |-> {}, naws |-> <<>>]

Say(cmd, opt) == <<[cmd |-> cmd, opt |-> opt]>>

\* telnet_on_connect
Offers == << [cmd |-> "WILL", opt |-> "BINARY"], [cmd |-> "DO", opt |-> "BINARY"],
             [cmd |-> "WILL", opt |-> "ECHO"],   [cmd |-> "WILL", opt |-> "SGA"],
             [cmd |-> "DO", opt |-> "SGA"],      [cmd |-> "DO", opt |-> "NAWS"],
             [cmd |-> "DO", opt |-> "TTYPE"] >>
OnConnect(t) == NewTel

\* telnet_handle_option: the flags and the reply.
Agreeing(cmd) == CASE cmd = "DO"   -> {"BINARY", "ECHO", "SGA"}
                   [] cmd = "WILL" -> {"BINARY", "SGA", "NAWS", "TTYPE"}
                   [] OTHER        -> {}
Agrees(cmd, opt) == CASE cmd = "DO" -> Say("WILL", opt)
                      [] opt = "TTYPE" -> Say("SEND", opt)
                      [] OTHER -> Say("DO", opt)
Refuses(cmd, opt) == CASE cmd = "DO"   -> Say("WONT", opt)
                       [] cmd = "WILL" -> Say("DONT", opt)
                       [] OTHER        -> <<>>
ReplyAlways(t, cmd, opt) ==      \* mutant: the flags are not looked at
    IF opt \in Agreeing(cmd) THEN Agrees(cmd, opt) ELSE Refuses(cmd, opt)
Reply(t, cmd, opt) ==
    IF opt \notin Agreeing(cmd) THEN Refuses(cmd, opt)
    ELSE IF opt \in t.neg THEN <<>> ELSE Agrees(cmd, opt)
HandleOption(t, opt) ==
    IF opt \in Agreeing(t.st) THEN [t EXCEPT !.neg = @ \cup {opt}] ELSE t

\* A byte of a subnegotiation; the first is the option.
Accumulate(t, c) ==
    [t EXCEPT !.opt = IF t.len = 0 THEN c ELSE @,
              !.buf = IF t.len \in 1 .. 4 /\ ~(t.opt = "TTYPE" /\ t.len >= 2)
                        THEN [@ EXCEPT ![t.len - 1] = c] ELSE @,
              !.len = (@ + 1) % 256]

EndSubnegAnyLength(t) ==         \* mutant: sb_len is not looked at
    IF t.opt = "NAWS"
      THEN [t EXCEPT !.naws = <<t.buf[0], t.buf[1], t.buf[2], t.buf[3]>>] ELSE t
EndSubneg(t) ==
    IF t.opt = "NAWS" /\ t.len >= 5
      THEN [t EXCEPT !.naws = <<t.buf[0], t.buf[1], t.buf[2], t.buf[3]>>] ELSE t

StartSubneg(t) == [t EXCEPT !.len = 0, !.opt = "none"]

\* telnet_filter: the state after byte b, what it delivers and what it replies.
To(t, st)  == [t EXCEPT !.st = st]
Eaten(t)   == [tel |-> t, out |-> <<>>, say |-> <<>>]
TelnetFilter(t, b) ==
    LET c == b.code IN
    CASE t.st = "NORMAL" ->
           IF c = "IAC" THEN Eaten(To(t, "SAW_FF"))
           ELSE [tel |-> t, out |-> <<b>>, say |-> <<>>]
      [] t.st = "SAW_FF" ->
           CASE c = "IAC" -> [tel |-> To(t, "NORMAL"), out |-> <<b>>, say |-> <<>>]
             [] c \in Commands -> Eaten(To(t, c))
             [] c = "SB" -> Eaten(To(StartSubneg(t), "IN_SB"))
             [] OTHER -> Eaten(To(t, "NORMAL"))
      [] t.st \in Commands ->
           [tel |-> To(HandleOption(t, c), "NORMAL"), out |-> <<>>,
            say |-> Reply(t, t.st, c)]
      [] t.st = "IN_SB" ->
           IF c = "IAC" THEN Eaten(To(t, "SB_IAC")) ELSE Eaten(Accumulate(t, c))
      [] t.st = "SB_IAC" ->
           IF c = "SE" THEN Eaten(To(EndSubneg(t), "NORMAL"))
           ELSE Eaten(To(t, "IN_SB"))

FilterNext(a, b) == LET f == TelnetFilter(a.tel, b)
                    IN  [tel |-> f.tel, out |-> a.out \o f.out, say |-> a.say \o f.say]
FilterAll(t, s) == FoldLeft(FilterNext, Eaten(t), s)

----------------------------------------------------------------------------
Init ==
    /\ line = "idle"
    /\ rx = EmptyRing /\ tel = NewTel
    /\ tcp = <<>> /\ toPeer = <<>> /\ units = 0
    /\ got = <<>> /\ owed = <<>> /\ told = {}

(***************************************************************************)
(* The caller's terminal.                                                  *)
(***************************************************************************)
KeepHeard(s, r) == IF r.opt \in PeerOpts THEN Append(s, r) ELSE s
Heard(s) == FoldLeft(KeepHeard, <<>>, s)

PeerSends ==
    /\ line # "idle" /\ units < MaxUnits /\ Len(tcp) < Window
    /\ units' = units + 1
    /\ \/ /\ \/ tcp' = Append(tcp, Data("x", units'))
             \/ tcp' = tcp \o <<B("IAC"), Data("IAC", units')>>
             \/ \E cmd \in {"DO", "WILL"}, opt \in PeerOpts : tcp' = tcp \o Option(cmd, opt)
          /\ UNCHANGED told
       \/ \E size \in Sizes : tcp' = tcp \o Naws(size) /\ told' = told \cup {size}
    /\ UNCHANGED <<line, rx, tel, toPeer, got, owed>>

\* It may agree, refuse or say nothing to what it is told, however often.
PeerAnswers ==
    /\ toPeer # <<>> /\ Len(tcp) < Window
    /\ toPeer' = Tail(toPeer)
    /\ LET r == Head(toPeer)
           yes == [WILL |-> "DO", DO |-> "WILL", WONT |-> "DONT", DONT |-> "WONT"]
           no  == [WILL |-> "DONT", DO |-> "WONT", WONT |-> "DONT", DONT |-> "WONT"]
       IN  \/ UNCHANGED tcp
           \/ r.cmd # "SEND" /\ \E c \in {yes[r.cmd], no[r.cmd]} : tcp' = tcp \o Option(c, r.opt)
    /\ UNCHANGED <<line, rx, tel, units, got, owed, told>>

(***************************************************************************)
(* The call.                                                               *)
(***************************************************************************)
\* Accepted for the port or through its group; the modem says RING.
TakeCall ==
    /\ line = "idle"
    /\ line' = "ringing"
    /\ rx' \in Saying(RingInit(rx))
    /\ tel' = OnConnect(tel)
    /\ toPeer' = Heard(Offers)
    /\ tcp' = <<>>
    /\ got' = <<>> /\ owed' = <<>> /\ told' = {}
    /\ UNCHANGED units

\* at_send_connect
Answer ==
    /\ line # "idle"
    /\ line' = "connecting"
    /\ UNCHANGED <<rx, tel, peerVars, got, owed>>

\* at_check_ring after the handshake: CONNECT.
DeliverConnect ==
    /\ line = "connecting"
    /\ line' = "open"
    /\ rx' \in Saying(rx)
    /\ UNCHANGED <<tel, peerVars, got, owed>>

\* What was not read is forgiven when the ring is cleared.
Forgive == owed' = got /\ UNCHANGED got

\* Every end of a call outside AH=04h; NO CARRIER unless it is silent.
EndCall ==
    /\ line # "idle"
    /\ line' = "idle"
    /\ rx' \in Saying(RingInit(rx))
    /\ tcp' = <<>> /\ toPeer' = <<>>
    /\ Forgive
    /\ UNCHANGED <<tel, units, told>>

\* AH=04h clears the ring, may end the call, and at_init forgets a CONNECT that is
\* pending.
FossilInit ==
    /\ rx' = RingInit(rx)
    /\ Forgive
    /\ \/ /\ line' = IF line = "connecting" THEN "open" ELSE line
          /\ UNCHANGED <<tcp, toPeer>>
       \/ line' = "idle" /\ tcp' = <<>> /\ toPeer' = <<>>
    /\ UNCHANGED <<tel, units, told>>

(***************************************************************************)
(* Input.                                                                  *)
(***************************************************************************)
\* The ring must have room for everything that may be read.
NoBackPressure == TRUE           \* mutant
MayDrain == rx.count <= RingSize - Chunk

Delivers == line \notin {"ringing", "connecting"}

\* The caller's data in a packet.
KeepData(s, b) == IF b.n > 0 THEN Append(s, b) ELSE s
DataOf(s) == FoldLeft(KeepData, <<>>, s)

Drain(k) ==
    /\ line # "idle" /\ k <= Len(tcp) /\ MayDrain
    /\ tcp' = SubSeq(tcp, k + 1, Len(tcp))
    /\ LET f == FilterAll(tel, SubSeq(tcp, 1, k)) IN
         /\ tel' = f.tel
         /\ toPeer' = toPeer \o Heard(f.say)
         /\ rx' = IF Delivers THEN Puts(rx, f.out) ELSE rx
    /\ owed' = IF line = "open" THEN owed \o DataOf(SubSeq(tcp, 1, k)) ELSE owed
    /\ UNCHANGED <<line, units, got, told>>

\* RING, and the echo and the answer to a command.
ModemText ==
    /\ rx' = RingPut(rx, Text)
    /\ UNCHANGED <<line, tel, peerVars, got, owed>>

KeepCaller(s, b) == IF b # Text THEN Append(s, b) ELSE s
CallerBytes(s) == FoldLeft(KeepCaller, <<>>, s)
Takes(k) ==
    /\ rx' = Gets(rx, k)
    /\ got' = got \o CallerBytes(SubSeq(Contents(rx), 1, k))
    /\ UNCHANGED <<line, tel, peerVars, owed>>

\* AH=02h
ReadChar == rx.count > 0 /\ Takes(1)

\* AH=18h: as many as there are and as are asked for.
ReadBlock == \E max \in 1 .. RingSize :
    rx.count > 0 /\ Takes(IF max < rx.count THEN max ELSE rx.count)

\* AH=0Ah
PurgeInput ==
    /\ rx' = RingInit(rx)
    /\ Forgive
    /\ UNCHANGED <<line, tel, peerVars>>

DrainSome == \E k \in 1 .. Chunk : Drain(k)

Next == \/ PeerSends \/ PeerAnswers
        \/ TakeCall \/ Answer \/ DeliverConnect \/ EndCall \/ FossilInit
        \/ DrainSome \/ ModemText
        \/ ReadChar \/ ReadBlock \/ PurgeInput

Spec == Init /\ [][Next]_vars

\* The poll cycle comes round, the terminal answers or decides not to, and now and
\* then the application reads all there is.
ReadAll == ReadBlock /\ rx'.count = 0
Fairness == SF_vars(DrainSome) /\ SF_vars(PeerAnswers) /\ SF_vars(ReadAll)

FairSpec == Spec /\ Fairness

----------------------------------------------------------------------------
(***************************************************************************)
(* Properties.                                                             *)
(***************************************************************************)
\* The indices of the ring stay in range and agree with its count, and the parser
\* is in one of its states (ringbuf.c:11).
TypeOK ==
    /\ line \in {"idle", "ringing", "connecting", "open"}
    /\ rx.head \in 0 .. RingSize - 1 /\ rx.tail \in 0 .. RingSize - 1
    /\ rx.count \in 0 .. RingSize
    /\ (rx.head + rx.count) % RingSize = rx.tail
    /\ tel.st \in {"NORMAL", "SAW_FF", "IN_SB", "SB_IAC"} \cup Commands

\* What the caller sends after CONNECT, and nothing else but the modem's texts, is
\* what the application reads, in order and once, FFh included: no telnet byte gets
\* through, none of the caller's is taken for one or dropped, wherever packets and
\* polls cut the stream, and none survives its call (poll.c:408).
Transparent == got \o CallerBytes(Contents(rx)) = owed

\* The window size that MUX_PORT_NAWS reports is one that the terminal of this call
\* has sent, never one put together from two (telnet.c:313).
NawsReal == line # "idle" => tel.naws \in told \cup {<<>>}

\* Negotiation comes to rest even with a terminal that answers everything it is
\* told (telnet.c:166).
NegotiationEnds == []<>(line = "idle") \/ <>[](toPeer = <<>>)

\* Back-pressure lets go: what the caller sent reaches the application.
Flows == (line = "open" /\ tcp # <<>>) ~> (tcp = <<>> \/ line # "open")

\* The ring with its indices implements a bounded queue (ringbuf.c).
Fifo == INSTANCE RxFifo WITH Capacity <- RingSize, q <- Contents(rx)
ImplementsFifo == Fifo!Spec

============================================================================
