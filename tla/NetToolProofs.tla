--------------------------- MODULE NetToolProofs ---------------------------
(***************************************************************************)
(* Proofs about MuxIcmp and Resolver, for every number of requests, every  *)
(* time-out and every set of names.                                        *)
(*                                                                         *)
(* A time-out is judged by the TSR's own tick counter, so the invariant    *)
(* says that this counter is the request's true age, but for midnight.     *)
(* The tool that also looks names up does to its echo requests only what   *)
(* MuxIcmp allows, so all that is proved of MuxIcmp holds for it.          *)
(***************************************************************************)
EXTENDS Resolver, TLAPS

IInv == TypeOK /\ EchoIsOurs /\ TimeoutIsReal /\ (midnight \/ age = sentAge)

LEMMA CappedType ==
  ASSUME NEW n \in 0 .. MaxTicks PROVE Capped(n) \in 0 .. MaxTicks /\ Capped(n) >= n
BY IcmpAssumption DEF Capped

LEMMA InitIInv == Init => IInv
<1> SUFFICES ASSUME Init PROVE IInv  OBVIOUS
<1>1. 0 \in 0 .. MaxTicks /\ 0 \in 0 .. MaxSeq
  BY IcmpAssumption
<1>2. res \in [type : {"none", "echo", "error"}, seq : 0 .. MaxSeq,
               for : 0 .. MaxSeq, rtt : 0 .. MaxTicks]
  BY <1>1 DEF Init, NoResult
<1>3. TypeOK
  BY <1>1, <1>2 DEF Init, TypeOK
<1> QED
  BY <1>3 DEF Init, IInv, EchoIsOurs, TimeoutIsReal

\* Time only lets a request grow older.
LEMMA TickIInv == IInv /\ Tick => IInv'
<1> SUFFICES ASSUME IInv, Tick PROVE IInv'  OBVIOUS
<1>1. /\ age' = Capped(age) /\ sentAge' = Capped(sentAge)
      /\ UNCHANGED <<icmpState, sendPending, seq, res, onTheWay, midnight>>
  BY DEF Tick
<1>2. /\ age' \in 0 .. MaxTicks /\ sentAge' \in 0 .. MaxTicks
      /\ sentAge' >= sentAge /\ (midnight' \/ age' = sentAge')
  BY <1>1, CappedType DEF IInv, TypeOK
<1>3. TypeOK'  BY <1>1, <1>2 DEF IInv, TypeOK
<1>4. EchoIsOurs'  BY <1>1 DEF IInv, EchoIsOurs
<1>5. TimeoutIsReal'
  BY <1>1, <1>2, IcmpAssumption DEF IInv, TypeOK, TimeoutIsReal
<1> QED  BY <1>2, <1>3, <1>4, <1>5 DEF IInv

\* Midnight spoils the counter and nothing else.
LEMMA MidnightIInv == IInv /\ Midnight => IInv'
<1> SUFFICES ASSUME IInv, Midnight PROVE IInv'  OBVIOUS
<1>1. /\ age' = MaxTicks /\ sentAge' = Capped(sentAge) /\ midnight' = TRUE
      /\ UNCHANGED <<icmpState, sendPending, seq, res, onTheWay>>
  BY DEF Midnight
<1>2. age' \in 0 .. MaxTicks /\ sentAge' \in 0 .. MaxTicks
  BY <1>1, CappedType, IcmpAssumption DEF IInv, TypeOK
<1>3. TypeOK'  BY <1>1, <1>2 DEF IInv, TypeOK
<1> QED  BY <1>1, <1>3 DEF IInv, EchoIsOurs, TimeoutIsReal

\* An answer: an echo reply is taken for the present request only.
LEMMA HandlerIInv == ASSUME IInv, NEW a \in Answers, IcmpHandler(a) PROVE IInv'
<1> USE DEF IInv
<1>1. CASE Awaits /\ Accepts(a)
  <2>1. /\ res' = [type |-> a.type, seq |-> seq, for |-> a.for, rtt |-> age]
        /\ icmpState' = "reply"
        /\ UNCHANGED <<sendPending, seq, age, sentAge, midnight>>
    BY <1>1 DEF IcmpHandler, Rtt
  <2>2. TypeOK'
    BY <2>1, IcmpAssumption DEF IcmpHandler, TypeOK, Answers, Seqs
  <2>3. EchoIsOurs'
    BY <1>1, <2>1 DEF EchoIsOurs, Accepts
  <2> QED  BY <2>1, <2>2, <2>3 DEF TimeoutIsReal
<1>2. CASE ~(Awaits /\ Accepts(a))
  BY <1>2 DEF IcmpHandler, TypeOK, EchoIsOurs, TimeoutIsReal
<1> QED  BY <1>1, <1>2

LEMMA StepIInv == IInv /\ [Next]_vars => IInv'
<1> SUFFICES ASSUME IInv, [Next]_vars PROVE IInv'  OBVIOUS
<1> USE IcmpAssumption DEF IInv, TypeOK, EchoIsOurs, TimeoutIsReal
<1>1. CASE Tick  BY <1>1, TickIInv
<1>0. CASE Midnight  BY <1>0, MidnightIInv
<1>2. CASE IcmpSend
  <2>1. /\ seq' = seq + 1 /\ age' = 0 /\ sentAge' = 0 /\ midnight' = FALSE
        /\ sendPending' = TRUE /\ icmpState' = "waiting" /\ seq < MaxSeq
        /\ UNCHANGED <<res, onTheWay>>
    BY <1>2 DEF IcmpSend
  <2>2. 0 \in 0 .. MaxTicks /\ seq' \in 0 .. MaxSeq
    BY <2>1
  <2> QED  BY <2>1, <2>2
<1>3. CASE Transmit
  <2>1. PICK a \in SUBSET {x \in Answers : x.for = seq} : onTheWay' = onTheWay \cup a
    BY <1>3 DEF Transmit
  <2>2. onTheWay' \subseteq Answers
    BY <2>1
  <2>3. /\ icmpState' = icmpState /\ seq' = seq /\ res' = res
        /\ sendPending' = FALSE /\ age' = 0 /\ sentAge' = 0 /\ sendPending
        /\ midnight' = FALSE
    BY <1>3 DEF Transmit
  <2>4. 0 \in 0 .. MaxTicks
    OBVIOUS
  <2>5. TypeOK'
    BY <2>2, <2>3, <2>4
  <2>6. icmpState # "timeout"
    BY <2>3
  <2>7. EchoIsOurs' /\ TimeoutIsReal' /\ (midnight' \/ age' = sentAge')
    BY <2>3, <2>6
  <2> QED  BY <2>5, <2>7
<1>4. CASE IcmpPoll  BY <1>4 DEF IcmpPoll, TimeIsUp
<1>5. CASE IcmpResult  BY <1>5 DEF IcmpResult
<1>6. CASE \E a \in Answers : IcmpHandler(a)  BY <1>6, HandlerIInv
<1>7. CASE UNCHANGED vars  BY <1>7 DEF vars
<1> QED  BY <1>0, <1>1, <1>2, <1>3, <1>4, <1>5, <1>6, <1>7 DEF Next

LEMMA IInvHolds == Spec => []IInv
BY InitIInv, StepIInv, PTL DEF Spec

\* An echo reply that is reported is the answer to the present request, however
\* many requests there were and in whatever order answers come (poll.c:59).
THEOREM EchoOwn == Spec => []EchoIsOurs
<1>1. IInv => EchoIsOurs  BY DEF IInv
<1> QED  BY <1>1, IInvHolds, PTL

\* A time-out is reported only for a request that left and went unanswered for
\* longer than the time-out or over midnight, for every length of it (int8.c:689).
THEOREM TimeoutReal == Spec => []TimeoutIsReal
<1>1. IInv => TimeoutIsReal  BY DEF IInv
<1> QED  BY <1>1, IInvHolds, PTL

\* A late answer changes neither a reported outcome nor its result (poll.c:45).
THEOREM OutcomeKept == Spec => OutcomeStands
<1>1. [Next]_vars =>
        [(icmpState \in {"reply", "timeout"}) =>
            /\ icmpState' \in {icmpState, "idle", "waiting"}
            /\ UNCHANGED res]_vars
  BY DEF Next, Tick, Midnight, IcmpSend, Transmit, IcmpPoll, IcmpResult, IcmpHandler, Awaits, vars
<1> QED  BY <1>1, PTL DEF Spec, OutcomeStands

----------------------------------------------------------------------------
(***************************************************************************)
(* The tool of Resolver.                                                   *)
(***************************************************************************)
\* A step of the tool or of the TSR for it is a step of MuxIcmp, or leaves the
\* echo request alone.
LEMMA ToolStep == [RNext]_rvars => [Next]_vars
<1> SUFFICES ASSUME [RNext]_rvars PROVE [Next]_vars  OBVIOUS
<1>1. CASE RTick  BY <1>1 DEF RTick, Next
<1>2. CASE RMidnight  BY <1>2 DEF RMidnight, Next
<1>3. CASE DnsEnds  BY <1>3 DEF DnsEnds
<1>4. CASE PingCall  BY <1>4 DEF PingCall, Next
<1>5. CASE PingNetwork  BY <1>5 DEF PingNetwork, Next
<1>6. CASE LoopHead  BY <1>6 DEF LoopHead
<1>7. CASE Look  BY <1>7 DEF Look
<1>8. CASE \E n \in Names : GetHostByName(n) \/ DnsFlush(n)
  BY <1>8 DEF GetHostByName, DnsFlush
<1>9. CASE UNCHANGED rvars  BY <1>9 DEF rvars
<1> QED
  BY <1>1, <1>2, <1>3, <1>4, <1>5, <1>6, <1>7, <1>8, <1>9 DEF RNext

\* Name lookups and pings share the clock and the program, and nothing else: the
\* MUX_SOCK_RESOLVE calls never touch the state of an echo request (int8.c:532).
THEOREM PingsUndisturbed == RSpec => Spec
BY ToolStep, PTL DEF RSpec, RInit, Spec

\* So what a tool is told of its ping is true while it looks names up, too
\* (int8.c:689, poll.c:59).
THEOREM PingsTrue == RSpec => [](EchoIsOurs /\ TimeoutIsReal)
BY PingsUndisturbed, EchoOwn, TimeoutReal, PTL

----------------------------------------------------------------------------
\* The name that was asked for last is the one whose address is kept.
LEMMA StepAddress == AddressIsForName /\ [RNext]_rvars => AddressIsForName'
<1> SUFFICES ASSUME AddressIsForName, [RNext]_rvars PROVE AddressIsForName'
  OBVIOUS
<1> USE DEF AddressIsForName
<1>1. CASE \/ RTick \/ RMidnight \/ DnsEnds \/ PingCall \/ PingNetwork
           \/ LoopHead \/ (\E n \in Names : DnsFlush(n)) \/ UNCHANGED rvars
  <2>1. UNCHANGED tsrVars
    BY <1>1 DEF RTick, RMidnight, DnsEnds, PingCall, PingNetwork, LoopHead,
                DnsFlush, rvars
  <2> QED  BY <2>1 DEF tsrVars
<1>2. ASSUME NEW n \in Names, GetHostByName(n) PROVE AddressIsForName'
  BY <1>2 DEF GetHostByName, Cached, QuerySent, NotResolved
<1>3. CASE Look
  <2>1. hostname' = hostname /\ dnsState' = Status
    BY <1>3 DEF Look, ResolveResult
  <2>2. CASE dnsState = "pending" /\ Status = "ok"
    BY <1>3, <2>1, <2>2 DEF Look, ResolveResult, Status, Found
  <2>3. CASE ~(dnsState = "pending" /\ Status = "ok")
    BY <1>3, <2>1, <2>3 DEF Look, ResolveResult, Status
  <2> QED  BY <2>2, <2>3
<1> QED  BY <1>1, <1>2, <1>3 DEF RNext

\* gethostbyname() returns the address of the name it was asked for, however many
\* lookups were given up before and whatever answers come late (int8.c:546).
THEOREM AddressOwn == RSpec => []AddressIsForName
<1>1. RInit => AddressIsForName  BY DEF RInit, AddressIsForName
<1> QED  BY <1>1, StepAddress, PTL DEF RSpec

=============================================================================
