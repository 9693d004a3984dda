------------------------------- MODULE TxPath -------------------------------
(***************************************************************************)
(* The way of a byte from the application to the caller: the TX ring of    *)
(* each port, the one buffer g_tx_pending that all ports share for what    *)
(* mTCP did not take, and fossil_flush_tx (int14.c).                       *)
(*                                                                         *)
(* A FOSSIL call is one action, except the block write of AH=19h, whose    *)
(* loop is stepped; nothing else runs while it does.  How many bytes       *)
(* send() takes is mTCP's choice.  Of the life of a call only what the     *)
(* transmitter looks at is kept; see VmodemPorts for the rest.  Telnet     *)
(* options and external sockets are sent past the ring and left out.       *)
(***************************************************************************)
EXTENDS Naturals, Sequences, SequencesExt

CONSTANTS
    NPorts,      \* MAX_PORTS
    RingSize,    \* TX_RING_SIZE
    MaxBytes,    \* bound: bytes that the application writes, by port
    MaxBlock     \* bound: length of a block write

ASSUME TxAssumption ==
    /\ NPorts \in Nat \ {0} /\ RingSize \in Nat \ {0}
    /\ MaxBytes \in [0 .. NPorts - 1 -> Nat] /\ MaxBlock \in Nat

Ports    == 0 .. NPorts - 1
NoPort   == NPorts
NoBlock  == [port |-> NoPort, left |-> 0, put |-> 0]

VARIABLES
    line,     \* idle; ringing; connect pending; open
    dead,     \* isClosed() of the call's socket
    ring,     \* g_tx[].data, oldest first
    pend,     \* g_tx_pending, from g_tx_pend_off to g_tx_pend_len
    owner,    \* g_tx_pend_port
    block,    \* the block write in progress
    next,     \* history: bytes written so far, which number them
    wire,     \* history: what mTCP took for the present call
    owed      \* history: what the application wrote and did not purge, escaped

callVars == <<line, dead>>
vars == <<line, dead, ring, pend, owner, block, next, wire, owed>>

----------------------------------------------------------------------------
Byte(p, iac) == [port |-> p, n |-> next[p], iac |-> iac]     \* iac: it is FFh

\* On the wire FFh is doubled.
Escape(b) == IF b.iac THEN <<b, b>> ELSE <<b>>
EscapeAll(s) == FlattenSeq([i \in DOMAIN s |-> Escape(s[i])])

HasPendingNever(p) == FALSE      \* mutant
HasPending(p) == owner = p /\ pend # <<>>

\* fossil_clear_tx
ClearRingOnly(p) ==              \* mutant: leftover bytes survive
    /\ ring' = [ring EXCEPT ![p] = <<>>]
    /\ UNCHANGED <<pend, owner>>
ClearTx(p) == /\ ring' = [ring EXCEPT ![p] = <<>>]
              /\ IF owner = p THEN pend' = <<>> /\ owner' = NoPort
                              ELSE UNCHANGED <<pend, owner>>

\* The bytes of port p that are on their way, first to go first.
Queue(p) == (IF owner = p THEN pend ELSE <<>>) \o EscapeAll(ring[p])

----------------------------------------------------------------------------
(***************************************************************************)
(* fossil_flush_tx: its possible outcomes, by how much mTCP takes.         *)
(***************************************************************************)
Muted(p) == line[p] # "open" \/ dead[p]

Unchanged(p) == [ring |-> ring[p], pend |-> pend, owner |-> owner, wire |-> wire[p]]

\* send() takes k bytes of out; the rest is left in the buffer.
Sent(p, out, k, w) ==
    [ring  |-> <<>>,
     pend  |-> SubSeq(out, k + 1, Len(out)),
     owner |-> IF k = Len(out) THEN NoPort ELSE p,
     wire  |-> w \o SubSeq(out, 1, k)]

\* The batch from the ring.  Whoever owns the buffer, it is overwritten.
Batches(p, pendNow, ownerNow, w) ==
    IF ring[p] = <<>>
      THEN {[ring |-> <<>>, pend |-> pendNow, owner |-> ownerNow, wire |-> w]}
      ELSE LET out == EscapeAll(ring[p])
           IN  {Sent(p, out, k, w) : k \in 0 .. Len(out)}

\* Leftover bytes of this port go first.
Leftovers(p) ==
    {[ring |-> ring[p], pend |-> SubSeq(pend, k + 1, Len(pend)), owner |-> p,
      wire |-> wire[p] \o SubSeq(pend, 1, k)] : k \in 0 .. Len(pend) - 1}

FlushesNoRetry(p) ==             \* mutant: leftover bytes are not sent again
    IF Muted(p) \/ HasPending(p) THEN {Unchanged(p)}
    ELSE Batches(p, pend, owner, wire[p])
FlushesBatchFirst(p) ==          \* mutant: the ring overtakes leftover bytes
    IF Muted(p) THEN {Unchanged(p)} ELSE Batches(p, pend, owner, wire[p])
Flushes(p) ==
    IF Muted(p) THEN {Unchanged(p)}
    ELSE IF HasPending(p)
      THEN Leftovers(p) \cup Batches(p, <<>>, NoPort, wire[p] \o pend)
      ELSE Batches(p, pend, owner, wire[p])

\* The state after flush outcome f, with bytes more put into the ring.
After(p, f, more) ==
    /\ ring' = [ring EXCEPT ![p] = f.ring \o more]
    /\ pend' = f.pend
    /\ owner' = f.owner
    /\ wire' = [wire EXCEPT ![p] = f.wire]

Owe(p, b) == owed' = [owed EXCEPT ![p] = @ \o Escape(b)]

----------------------------------------------------------------------------
Init ==
    /\ line = [p \in Ports |-> "idle"]
    /\ dead = [p \in Ports |-> FALSE]
    /\ ring = [p \in Ports |-> <<>>]
    /\ pend = <<>>
    /\ owner = 0                        \* static storage: not -1
    /\ block = NoBlock
    /\ next = [p \in Ports |-> 0]
    /\ wire = [p \in Ports |-> <<>>]
    /\ owed = [p \in Ports |-> <<>>]

Free == block = NoBlock

(***************************************************************************)
(* The call.                                                               *)
(***************************************************************************)
\* poll.c takes a caller, for the port or through its hunt group.
TakeCall(p) ==
    /\ Free /\ line[p] = "idle"
    /\ line' = [line EXCEPT ![p] = "ringing"]
    /\ dead' = [dead EXCEPT ![p] = FALSE]
    /\ ClearTx(p)
    /\ wire' = [wire EXCEPT ![p] = <<>>]
    /\ owed' = [owed EXCEPT ![p] = <<>>]
    /\ UNCHANGED <<block, next>>

\* at_send_connect: ATA, DTR or S0 answer; ATA or ATO in a call do it again.
Answer(p) ==
    /\ Free /\ line[p] # "idle"
    /\ line' = [line EXCEPT ![p] = "connecting"]
    /\ UNCHANGED <<dead, ring, pend, owner, block, next, wire, owed>>

DeliverConnect(p) ==
    /\ Free /\ line[p] = "connecting"
    /\ line' = [line EXCEPT ![p] = "open"]
    /\ UNCHANGED <<dead, ring, pend, owner, block, next, wire, owed>>

ConnectionLost(p) ==
    /\ Free /\ line[p] # "idle" /\ ~dead[p]
    /\ dead' = [dead EXCEPT ![p] = TRUE]
    /\ UNCHANGED <<line, ring, pend, owner, block, next, wire, owed>>

\* Every end of a call outside AH=04h leaves the output where it is.
EndCall(p) ==
    /\ Free /\ line[p] # "idle"
    /\ line' = [line EXCEPT ![p] = "idle"]
    /\ UNCHANGED <<dead, ring, pend, owner, block, next, wire, owed>>

\* AH=04h clears the output; a pending hang-up ends the call, and of what
\* at_init forgets only unanswered ringing is put back.
FossilInit(p) ==
    /\ Free
    /\ ClearTx(p)
    /\ owed' = [owed EXCEPT ![p] = wire[p]]
    /\ \/ line' = [line EXCEPT ![p] = "idle"]
       \/ line' = [line EXCEPT ![p] = IF @ = "connecting" THEN "open" ELSE @]
    /\ UNCHANGED <<dead, block, next, wire>>

(***************************************************************************)
(* Output.                                                                 *)
(***************************************************************************)
\* The poll cycle, AH=05h, AH=08h and ATH.
FlushTx(p) ==
    /\ Free
    /\ \E f \in Flushes(p) : After(p, f, <<>>)
    /\ UNCHANGED <<callVars, block, next, owed>>

PollFlush(p) == line[p] # "idle" /\ FlushTx(p)

\* AH=09h
PurgeOutput(p) ==
    /\ Free
    /\ ClearTx(p)
    /\ owed' = [owed EXCEPT ![p] = wire[p]]
    /\ UNCHANGED <<callVars, block, next, wire>>

HasRoomLoose(r) == Len(r) <= RingSize      \* mutant
HasRoom(r) == Len(r) < RingSize

\* AH=01h in data mode; what finds no room after a flush is dropped.
TransmitChar(p) ==
    /\ Free /\ line[p] \in {"connecting", "open"} /\ next[p] < MaxBytes[p]
    /\ next' = [next EXCEPT ![p] = @ + 1]
    /\ \E iac \in BOOLEAN :
         LET b == Byte(p, iac) IN
         \/ /\ HasRoom(ring[p])
            /\ After(p, Unchanged(p), <<b>>) /\ Owe(p, b)
         \/ /\ ~HasRoom(ring[p])
            /\ \E f \in Flushes(p) :
                 \/ HasRoom(f.ring) /\ After(p, f, <<b>>) /\ Owe(p, b)
                 \/ ~HasRoom(f.ring) /\ After(p, f, <<>>) /\ UNCHANGED owed
    /\ UNCHANGED <<callVars, block>>

\* AH=0Bh in data mode; without room the caller is told so.
TransmitNoWait(p) ==
    /\ Free /\ line[p] \in {"connecting", "open"} /\ next[p] < MaxBytes[p]
    /\ HasRoom(ring[p])
    /\ next' = [next EXCEPT ![p] = @ + 1]
    /\ \E iac \in BOOLEAN : LET b == Byte(p, iac)
                            IN  After(p, Unchanged(p), <<b>>) /\ Owe(p, b)
    /\ UNCHANGED <<callVars, block>>

\* AH=19h bypasses the AT modem, so it may write to a call that still rings.
StartBlock(p) ==
    /\ Free /\ line[p] # "idle"
    /\ \E n \in 1 .. MaxBlock : block' = [port |-> p, left |-> n, put |-> 0]
    /\ UNCHANGED <<callVars, ring, pend, owner, next, wire, owed>>

BlockPut(p, f) ==
    /\ \E iac \in BOOLEAN : LET b == Byte(p, iac)
                            IN  After(p, f, <<b>>) /\ Owe(p, b)
    /\ next' = [next EXCEPT ![p] = @ + 1]
    /\ block' = [block EXCEPT !.left = @ - 1, !.put = @ + 1]

BlockByte(p) ==
    /\ block.port = p /\ block.left > 0 /\ next[p] < MaxBytes[p]
    /\ \/ HasRoom(ring[p]) /\ BlockPut(p, Unchanged(p))
       \/ /\ ~HasRoom(ring[p])
          /\ \E f \in Flushes(p) :
               \/ HasRoom(f.ring) /\ BlockPut(p, f)
               \/ /\ ~HasRoom(f.ring)
                  /\ After(p, f, <<>>)
                  /\ block' = [block EXCEPT !.left = 0]
                  /\ UNCHANGED <<next, owed>>
    /\ UNCHANGED callVars

\* What was written is sent at once.
FinishBlock(p) ==
    /\ block.port = p
    /\ block.left = 0 \/ next[p] = MaxBytes[p]
    /\ IF block.put > 0 THEN \E f \in Flushes(p) : After(p, f, <<>>)
                        ELSE UNCHANGED <<ring, pend, owner, wire>>
    /\ block' = NoBlock
    /\ UNCHANGED <<callVars, next, owed>>

Next == \E p \in Ports :
    \/ TakeCall(p) \/ Answer(p) \/ DeliverConnect(p) \/ ConnectionLost(p)
    \/ EndCall(p) \/ FossilInit(p)
    \/ FlushTx(p) \/ PurgeOutput(p)
    \/ TransmitChar(p) \/ TransmitNoWait(p)
    \/ StartBlock(p) \/ BlockByte(p) \/ FinishBlock(p)

Spec == Init /\ [][Next]_vars

\* The poll cycle comes round for a port in a call, a block write runs to its
\* end, and as long as the caller reads, mTCP takes bytes again and again.
Fairness == \A p \in Ports :
    /\ SF_vars(PollFlush(p) /\ wire'[p] # wire[p])
    /\ WF_vars(BlockByte(p) \/ FinishBlock(p))

FairSpec == Spec /\ Fairness

----------------------------------------------------------------------------
(***************************************************************************)
(* Properties.                                                             *)
(***************************************************************************)
Bytes == [port : Ports, n : Nat, iac : BOOLEAN]

\* Rings stay within TX_RING_SIZE and what is pending within the buffer of twice
\* that size, although each byte may double (int14.c:284).
TypeOK ==
    /\ line \in [Ports -> {"idle", "ringing", "connecting", "open"}]
    /\ dead \in [Ports -> BOOLEAN]
    /\ ring \in [Ports -> Seq(Bytes)] /\ \A p \in Ports : Len(ring[p]) <= RingSize
    /\ pend \in Seq(Bytes) /\ Len(pend) <= 2 * RingSize
    /\ owner \in Ports \cup {NoPort}
    /\ block \in [port : Ports \cup {NoPort}, left : Nat, put : Nat]
    /\ next \in [Ports -> Nat]
    /\ wire \in [Ports -> Seq(Bytes)] /\ owed \in [Ports -> Seq(Bytes)]

InCall(p) == line[p] # "idle"
Alone(p) == \A q \in Ports : next[q] > 0 => q = p
Complete(p) == wire[p] \o Queue(p) = owed[p]

\* What the application wrote in a call and did not purge is what the caller
\* gets, in order and once, however mTCP cuts it up, as long as no other port
\* writes (int14.c:246).
StreamIntact == \A p \in Ports : InCall(p) /\ Alone(p) => Complete(p)

\* Nobody reads the output of another port or of an earlier call, although all
\* ports share one buffer that calls do not clear when they end (poll.c:269).
OwnOutputOnly ==
    \A p \in Ports : InCall(p) => \A i \in DOMAIN wire[p] : wire[p][i] \in ToSet(owed[p])

\* TSRE in AH=03h tells that the output is empty: then everything owed to the
\* caller is with mTCP (int14.c:152).
Tsre(p) == ring[p] = <<>> /\ ~HasPending(p)
EmptyMeansSent ==
    \A p \in Ports : InCall(p) /\ Alone(p) /\ Tsre(p) => wire[p] = owed[p]

\* While a call is open and its connection lives, what is queued is sent.
Drains ==
    \A p \in Ports :
        (line[p] = "open" /\ ~dead[p] /\ Queue(p) # <<>>)
            ~> (Queue(p) = <<>> \/ line[p] # "open" \/ dead[p])

(***************************************************************************)
(* A claim of a comment that the code does not keep.                       *)
(***************************************************************************)
\* "Single shared buffer (not per-port) ... pend_port tracks which port owns the
\* pending data" (int14.c:66): with several ports too, the caller of each gets
\* all of its output.
SharedBufferSafe == \A p \in Ports : InCall(p) => Complete(p)

============================================================================
