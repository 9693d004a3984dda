------------------------------ MODULE Resolver ------------------------------
(***************************************************************************)
(* A network tool that looks names up and pings: gethostbyname() of        *)
(* lib/vsocket.c over MUX_SOCK_RESOLVE and MUX_SOCK_RESOLVE_RESULT         *)
(* (int8.c), next to the echo request of MuxIcmp.                          *)
(*                                                                         *)
(* DOS runs one program, so it makes no other call while gethostbyname()   *)
(* waits; the TSR goes on with both requests and shares the BIOS clock     *)
(* between them.  mTCP has one query under way and one cache entry.        *)
(***************************************************************************)
EXTENDS MuxIcmp

CONSTANTS
    Names,
    NoName,
    Wait        \* 273 ticks, 15 seconds

ASSUME ResolverAssumption == NoName \notin Names /\ Wait \in Nat \ {0}

Never == Wait + 1      \* a deadline that today's clock does not reach

VARIABLES
    hostname, dnsState,        \* g_state.dns_*
    ip,                        \* whose address dns_resolved_ip is, while that is "ok"
    query, cache,              \* mTCP's query and its cache entry
    pc,                        \* where gethostbyname() is
    left                       \* ticks to its deadline

tsrVars  == <<hostname, dnsState, ip>>
dnsVars  == <<query, cache>>
toolVars == <<pc, left>>
rvars    == <<vars, tsrVars, dnsVars, toolVars>>

RInit ==
    /\ Init
    /\ hostname = NoName /\ dnsState = "idle" /\ ip = NoName
    /\ query = NoName /\ cache = NoName
    /\ pc = "app" /\ left = 0

----------------------------------------------------------------------------
(***************************************************************************)
(* The clock and mTCP.                                                     *)
(***************************************************************************)
RTick ==
    /\ Tick
    /\ left' = IF left \in 1 .. Wait THEN left - 1 ELSE left
    /\ UNCHANGED <<tsrVars, dnsVars, pc>>

\* The deadline is a tick number of the day on which it was set.
RMidnight ==
    /\ Midnight
    /\ left' = IF pc = "app" THEN left ELSE Never
    /\ UNCHANGED <<tsrVars, dnsVars, pc>>

DnsEnds ==
    /\ query # NoName
    /\ query' = NoName
    /\ cache' \in {query, cache}           \* an answer, or mTCP gives up
    /\ UNCHANGED <<vars, tsrVars, toolVars>>

----------------------------------------------------------------------------
(***************************************************************************)
(* gethostbyname() and the calls it makes.                                 *)
(***************************************************************************)
Return == pc' = "app" /\ left' = 0

\* Dns::resolve() of MUX_SOCK_RESOLVE answers 0, 1 or an error.  A query may be
\* under way for a name that was given up.
Cached(n) ==
    /\ cache = n
    /\ dnsState' = "ok" /\ ip' = n
    /\ Return /\ UNCHANGED dnsVars
QuerySent(n) ==
    /\ cache # n
    /\ dnsState' = "pending" /\ ip' = NoName
    /\ query' \in {n, query} \ {NoName} /\ UNCHANGED cache
    /\ pc' = "head" /\ left' = Wait
NotResolved(n) ==
    /\ cache # n
    /\ dnsState' = "error" /\ ip' = NoName
    /\ Return /\ UNCHANGED dnsVars

GetHostByName(n) ==
    /\ pc = "app"
    /\ hostname' = n
    /\ Cached(n) \/ QuerySent(n) \/ NotResolved(n)
    /\ UNCHANGED vars

\* while (get_tick() < deadline)
LoopHead ==
    /\ pc = "head"
    /\ IF left = 0 THEN Return ELSE pc' = "look" /\ UNCHANGED left
    /\ UNCHANGED <<vars, tsrVars, dnsVars>>

\* MUX_SOCK_RESOLVE_RESULT: once the query is over, only the cache is asked.
FoundAny == cache # NoName                 \* mutant: the name is not compared
Found == cache = hostname
StatusWaits == IF dnsState = "pending" /\ query = NoName /\ Found    \* mutant: no error
                 THEN "ok" ELSE dnsState
Status == IF dnsState = "pending" /\ query = NoName
            THEN IF Found THEN "ok" ELSE "error"
            ELSE dnsState
ResolveResult ==
    /\ dnsState' = Status
    /\ ip' = IF dnsState = "pending" /\ Status = "ok" THEN cache ELSE ip
    /\ UNCHANGED <<hostname, dnsVars>>

Look ==
    /\ pc = "look" /\ ResolveResult
    /\ IF dnsState' # "pending" THEN Return ELSE pc' = "head" /\ UNCHANGED left
    /\ UNCHANGED vars

\* vsock_dns_flush()
DnsFlush(n) ==
    /\ pc = "app" /\ cache = n
    /\ cache' = NoName
    /\ UNCHANGED <<vars, tsrVars, query, toolVars>>

----------------------------------------------------------------------------
\* The tool pings what it has looked up.
PingCall == /\ pc = "app"
            /\ (dnsState = "ok" /\ IcmpSend) \/ IcmpPoll \/ IcmpResult
            /\ UNCHANGED <<tsrVars, dnsVars, toolVars>>
PingNetwork == /\ Transmit \/ \E a \in Answers : IcmpHandler(a)
               /\ UNCHANGED <<tsrVars, dnsVars, toolVars>>

RNext == \/ RTick \/ RMidnight \/ DnsEnds
         \/ PingCall \/ PingNetwork
         \/ LoopHead \/ Look
         \/ \E n \in Names : GetHostByName(n) \/ DnsFlush(n)

RSpec == RInit /\ [][RNext]_rvars

\* Time passes, the tool polls its ping now and then, ARP resolves, mTCP ends its
\* queries, and gethostbyname() goes on.
RFairSpec ==
    /\ RSpec
    /\ WF_rvars(RTick)
    /\ SF_rvars(IcmpPoll /\ PingCall)
    /\ WF_rvars(Transmit /\ PingNetwork)
    /\ WF_rvars(DnsEnds) /\ WF_rvars(LoopHead \/ Look)

----------------------------------------------------------------------------
(***************************************************************************)
(* Properties.                                                             *)
(***************************************************************************)
\* gethostbyname() returns the address of the name it was asked for, though an
\* answer may come after its lookup was given up and the cache is shared
\* (int8.c:546, vsocket.c:613).
AddressIsForName == dnsState = "ok" => ip = hostname

\* gethostbyname() returns, even when midnight takes its deadline away: the end of
\* the query is an answer too (int8.c:545, vsocket.c:606).
LookupEnds == pc # "app" ~> pc = "app"

============================================================================
