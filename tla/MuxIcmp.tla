------------------------------ MODULE MuxIcmp ------------------------------
(***************************************************************************)
(* Ping and traceroute through the TSR: the one echo request that          *)
(* MUX_ICMP_SEND, MUX_ICMP_POLL and MUX_ICMP_RESULT share (int8.c), its    *)
(* transmission in do_mtcp_poll, and vmodem_icmp_handler (poll.c).         *)
(*                                                                         *)
(* The network may answer a request with an echo reply, an error such as   *)
(* "time exceeded", or both, late, twice or never.  The client numbers its *)
(* requests, as ping does, and need not wait for an answer.  Ages are       *)
(* differences of BIOS tick counts, and at midnight the count starts again. *)
(***************************************************************************)
EXTENDS Naturals

CONSTANTS
    MaxSeq,     \* bound: number of requests
    Timeout,    \* 91 BIOS ticks
    MaxTicks    \* bound on the ticks that are counted

ASSUME IcmpAssumption ==
    MaxSeq \in Nat /\ Timeout \in Nat /\ MaxTicks \in Nat /\ MaxTicks > Timeout

Seqs == 1 .. MaxSeq

VARIABLES
    icmpState,     \* g_state.icmp_state: "idle", "waiting", "reply", "timeout"
    sendPending,   \* icmp_send_pending
    seq,           \* icmp_seq
    age,           \* ticks since icmp_send_tick
    res,           \* icmp_result: type, resp_seq, rtt; for: whose answer it was
    onTheWay,      \* answers that the network may deliver
    sentAge,       \* history: ticks since the request was transmitted
    midnight       \* history: midnight has passed since icmp_send_tick

vars == <<icmpState, sendPending, seq, age, res, onTheWay, sentAge, midnight>>

Answers == [type : {"echo", "error"}, for : Seqs]
NoResult == [type |-> "none", seq |-> 0, for |-> 0, rtt |-> 0]

Init ==
    /\ icmpState = "idle" /\ sendPending = FALSE /\ midnight = FALSE
    /\ seq = 0 /\ age = 0 /\ sentAge = 0
    /\ res = NoResult
    /\ onTheWay = {}

Capped(n) == IF n < MaxTicks THEN n + 1 ELSE n
Tick ==
    /\ age' = Capped(age) /\ sentAge' = Capped(sentAge)
    /\ UNCHANGED <<icmpState, sendPending, seq, res, onTheWay, midnight>>

\* The unsigned difference to a tick of the day before is larger than any time-out.
Midnight ==
    /\ age' = MaxTicks /\ sentAge' = Capped(sentAge)
    /\ midnight' = TRUE
    /\ UNCHANGED <<icmpState, sendPending, seq, res, onTheWay>>

\* MUX_ICMP_SEND
IcmpSend ==
    /\ seq < MaxSeq
    /\ seq' = seq + 1
    /\ age' = 0 /\ sentAge' = 0 /\ midnight' = FALSE
    /\ sendPending' = TRUE
    /\ icmpState' = "waiting"
    /\ UNCHANGED <<res, onTheWay>>

\* do_mtcp_poll, when ARP knows the next hop; else the request stays pending.
TransmitKeepsTick ==        \* mutant: icmp_send_tick is not set again
    /\ sendPending
    /\ sendPending' = FALSE
    /\ sentAge' = 0
    /\ \E a \in SUBSET {x \in Answers : x.for = seq} : onTheWay' = onTheWay \cup a
    /\ UNCHANGED <<icmpState, seq, age, res, midnight>>
Transmit ==
    /\ sendPending
    /\ sendPending' = FALSE
    /\ age' = 0 /\ sentAge' = 0 /\ midnight' = FALSE
    /\ \E a \in SUBSET {x \in Answers : x.for = seq} : onTheWay' = onTheWay \cup a
    /\ UNCHANGED <<icmpState, seq, res>>

\* Echo replies are compared with icmp_seq; errors only with the identifier.
AcceptsAny(a) == TRUE       \* mutant: the sequence number is not compared
Accepts(a) == a.type = "echo" => a.for = seq

AwaitsAny == icmpState # "idle"      \* mutant: late answers are taken
Awaits == icmpState = "waiting"

RttReversed == (65536 - age) % 65536     \* mutant: the difference the wrong way
Rtt == age

IcmpHandler(a) ==
    /\ a \in onTheWay
    /\ onTheWay' \in {onTheWay, onTheWay \ {a}}     \* it may come again
    /\ IF Awaits /\ Accepts(a)
         THEN /\ res' = [type |-> a.type, seq |-> seq, for |-> a.for, rtt |-> Rtt]
              /\ icmpState' = "reply"
         ELSE UNCHANGED <<res, icmpState>>
    /\ UNCHANGED <<sendPending, seq, age, sentAge, midnight>>

\* MUX_ICMP_POLL
TimeIsUpNever == FALSE               \* mutant
TimeIsUp == age > Timeout /\ ~sendPending
IcmpPoll ==
    /\ icmpState' = IF icmpState = "waiting" /\ TimeIsUp THEN "timeout" ELSE icmpState
    /\ UNCHANGED <<sendPending, seq, age, res, onTheWay, sentAge, midnight>>

\* MUX_ICMP_RESULT
IcmpResult ==
    /\ icmpState' = "idle"
    /\ UNCHANGED <<sendPending, seq, age, res, onTheWay, sentAge, midnight>>

Next == \/ Tick \/ Midnight \/ IcmpSend \/ Transmit \/ IcmpPoll \/ IcmpResult
        \/ \E a \in Answers : IcmpHandler(a)

Spec == Init /\ [][Next]_vars

\* Time passes, the client asks again and again, and ARP resolves in the end.
FairSpec == Spec /\ WF_vars(Tick) /\ WF_vars(IcmpPoll) /\ WF_vars(Transmit)

----------------------------------------------------------------------------
(***************************************************************************)
(* Properties.                                                             *)
(***************************************************************************)
\* Every variable keeps its type.
TypeOK ==
    /\ icmpState \in {"idle", "waiting", "reply", "timeout"}
    /\ sendPending \in BOOLEAN /\ midnight \in BOOLEAN
    /\ seq \in 0 .. MaxSeq
    /\ age \in 0 .. MaxTicks /\ sentAge \in 0 .. MaxTicks
    /\ res \in [type : {"none", "echo", "error"}, seq : 0 .. MaxSeq,
                for : 0 .. MaxSeq, rtt : 0 .. MaxTicks]
    /\ onTheWay \subseteq Answers

\* An echo reply that is reported answers the present request, not an earlier one
\* that it overtook (poll.c:59).
EchoIsOurs ==
    icmpState = "reply" /\ res.type = "echo" => res.for = seq

\* A time-out is reported only for a request that has been on its way that long,
\* or over midnight; waiting for ARP does not count (int8.c:689, poll.c:185).
TimeoutIsReal ==
    icmpState = "timeout" => ~sendPending /\ (sentAge > Timeout \/ midnight)

\* What was reported stands: a late answer changes neither the outcome nor the
\* result that the client is about to fetch (poll.c:45).
OutcomeStands ==
    [][(icmpState \in {"reply", "timeout"}) =>
          /\ icmpState' \in {icmpState, "idle", "waiting"}
          /\ UNCHANGED res]_vars

\* A request ends, by an answer or a time-out, once ARP knows the next hop.
RequestEnds ==
    \A n \in Seqs : (seq = n /\ icmpState = "waiting")
                        ~> (seq # n \/ icmpState # "waiting")

(***************************************************************************)
(* A claim of a comment that the code does not keep.                       *)
(***************************************************************************)
\* "Checks if this is a response to our outstanding echo request" (poll.c:37):
\* whatever answer is reported, it is the answer to the present request.
AnswerIsOurs == icmpState = "reply" => res.for = seq

============================================================================
