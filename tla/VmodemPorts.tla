----------------------------- MODULE VmodemPorts -----------------------------
(***************************************************************************)
(* The life of a call in the VMODEM TSR: COM ports and hunt groups, their  *)
(* mTCP sockets, the poll cycle of poll.c, the FOSSIL calls of int14.c     *)
(* that move a call, the AT modem of atcmd.c and the INT 2Fh commands of   *)
(* vmodem.c.                                                               *)
(*                                                                         *)
(* A FOSSIL or INT 2Fh call is one action: it runs to completion on the    *)
(* caller's stack.  do_mtcp_poll is broken into the phases of the variable *)
(* poll, because packets are processed in the middle of it and connections *)
(* come and go between two of its steps.  poll.phase = "idle" is           *)
(* g_state.busy = 0, and no other call starts unless it is.                *)
(*                                                                         *)
(* BIOS tick comparisons are a choice: a timer that a step tests may or    *)
(* may not have run out.  Bytes are left to other modules.                 *)
(***************************************************************************)
EXTENDS Naturals, FiniteSets

CONSTANTS
    NPorts,      \* MAX_PORTS
    NGroups,     \* MAX_HUNT_GROUPS
    Socks,       \* the mTCP socket pool (TCP_MAX_SOCKETS)
    NoSock,      \* NULL
    MaxClosing,  \* MAX_CLOSING_SOCKETS
    MaxRings,    \* RINGs before the modem gives up (10)
    MaxS0,       \* bound on the value of the S0 register
    PurgeMod,    \* 256: g_purge_seen is an unsigned char
    Eager,       \* whether /E is given: listen before the first AH=04h
    Configs,     \* start-up hunt group of each port, per command line
    Uses         \* the optional calls that the environment makes

ASSUME PortsAssumption ==
    /\ NPorts \in Nat \ {0} /\ NGroups \in Nat \ {0}
    /\ MaxClosing \in Nat /\ MaxRings \in Nat /\ MaxS0 \in Nat
    /\ PurgeMod \in Nat /\ PurgeMod > 3
    /\ NoSock \notin Socks
    /\ Eager \subseteq BOOLEAN
    /\ Configs \subseteq [0 .. NPorts - 1 -> 0 .. NGroups]

Ports   == 0 .. NPorts - 1
Groups  == 0 .. NGroups - 1
NoPort  == NPorts              \* no COM port
NoGroup == NGroups             \* huntGroupIdx = -1

VARIABLES
    poll,          \* where do_mtcp_poll is, and on whose behalf it runs
    mode,          \* PortState.mode
    sock,          \* PortState.sock
    listenSock,    \* PortState.listenSock
    hunt,          \* PortState.huntGroupIdx
    groupMask,     \* huntGroups[].portMask ({} when the group is not active)
    groupSock,     \* huntGroups[].listenSock
    net,           \* what mTCP does with each socket
    via,           \* the listening socket whose number a waiting caller dialled
    closing,       \* g_closing_sockets
    orphans,       \* history: sockets in use that no pointer reaches any more
    ringing, rings, connPending, cmdMode, s0,      \* AtState
    fossilInit, dtr, purgeSeen,    \* g_fossil_init, g_dtr, g_purge_seen
    pendingClose, dtrIgnore, idleOn,  \* PortState (idleOn: idle_timeout > 0)
    answered,      \* history: somebody answered the present call
    hangup         \* history: a hang-up was asked for during the present call

lineVars   == <<mode, sock>>
listenVars == <<listenSock, hunt, groupMask, groupSock>>
netVars    == <<net, via, closing, orphans>>
atVars     == <<ringing, rings, connPending, cmdMode, s0>>
fossilVars == <<fossilInit, dtr, purgeSeen>>
flagVars   == <<pendingClose, dtrIgnore, idleOn>>
histVars   == <<answered, hangup>>
vars == <<poll, lineVars, listenVars, netVars, atVars, fossilVars, flagVars,
          histVars>>

Live == {"up", "fin", "down"}   \* ESTABLISHED, CLOSE_WAIT, closed by the peer
NetStates == Live \cup {"free", "listen", "pending", "closing", "done"}

Idle == [phase |-> "idle", i |-> 0, safe |-> FALSE, caller |-> NoPort]

(***************************************************************************)
(* Helpers.                                                                *)
(***************************************************************************)
Connected(p) == mode[p] = "conn" /\ sock[p] # NoSock

\* The mode a port falls back to when its call is over.
LineModeNoResume(p) == IF hunt[p] \in Groups THEN "listen" ELSE "disc"   \* mutant
LineMode(p) == IF listenSock[p] # NoSock \/ hunt[p] \in Groups
                 THEN "listen" ELSE "disc"

\* sock_close_fast: a FIN, then the deferred queue, or straight back to the
\* pool when the queue is full.
QueueHasRoom == Cardinality(closing) < MaxClosing
NetClosingFrees(s) == [net EXCEPT ![s] = "free"]   \* mutant: no deferred destroy
NetClosing(s) == [net EXCEPT ![s] = IF QueueHasRoom THEN "closing" ELSE "free"]
CloseFast(s) == /\ net' = NetClosing(s)
                /\ closing' = IF QueueHasRoom THEN closing \cup {s} ELSE closing

FreeSocks   == {s \in Socks : net[s] = "free"}
PendingAccept == {s \in Socks : net[s] = "pending"}

----------------------------------------------------------------------------
(***************************************************************************)
(* Start-up: the command line configures ports, and main() pre-allocates   *)
(* their listening sockets while malloc still works.                       *)
(***************************************************************************)
Init ==
    /\ poll = Idle
    /\ hunt \in Configs
    /\ groupMask = [g \in Groups |-> {p \in Ports : hunt[p] = g}]
    /\ listenSock \in [Ports -> Socks \cup {NoSock}]
    /\ groupSock \in [Groups -> Socks \cup {NoSock}]
    /\ \A p \in Ports : (listenSock[p] # NoSock) <=> (hunt[p] = NoGroup)
    /\ \A g \in Groups : (groupSock[g] # NoSock) <=> (groupMask[g] # {})
    /\ \A p, q \in Ports : listenSock[p] = listenSock[q] =>
          (p = q \/ listenSock[p] = NoSock)
    /\ \A g, h \in Groups : groupSock[g] = groupSock[h] =>
          (g = h \/ groupSock[g] = NoSock)
    /\ \A p \in Ports, g \in Groups : listenSock[p] = groupSock[g] =>
          listenSock[p] = NoSock
    /\ \E e \in Eager :
          mode = [p \in Ports |-> IF e THEN "listen" ELSE "disc"]
    /\ sock = [p \in Ports |-> NoSock]
    /\ net = [s \in Socks |->
                IF (\E p \in Ports : listenSock[p] = s)
                      \/ (\E g \in Groups : groupSock[g] = s)
                  THEN "listen" ELSE "free"]
    /\ via = [s \in Socks |-> NoSock]
    /\ closing = {} /\ orphans = {}
    /\ ringing = [p \in Ports |-> FALSE]
    /\ rings = [p \in Ports |-> 0]
    /\ connPending = [p \in Ports |-> FALSE]
    /\ cmdMode = [p \in Ports |-> FALSE]
    /\ s0 = [p \in Ports |-> 0]
    /\ fossilInit = [p \in Ports |-> FALSE]
    /\ dtr = [p \in Ports |-> FALSE]
    /\ purgeSeen = [p \in Ports |-> 0]
    /\ pendingClose = [p \in Ports |-> FALSE]
    /\ dtrIgnore = [p \in Ports |-> FALSE]
    /\ idleOn = [p \in Ports |-> FALSE]
    /\ answered = [p \in Ports |-> FALSE]
    /\ hangup = [p \in Ports |-> FALSE]

----------------------------------------------------------------------------
(***************************************************************************)
(* The network and mTCP.                                                   *)
(***************************************************************************)
\* A SYN for a listening socket: mTCP takes a socket of the pool and leaves it
\* waiting for accept().
ClientConnects(l, s) ==
    /\ net[l] = "listen" /\ s \in FreeSocks
    /\ net' = [net EXCEPT ![s] = "pending"]
    /\ via' = [via EXCEPT ![s] = l]
    /\ UNCHANGED <<poll, lineVars, listenVars, closing, orphans, atVars,
                   fossilVars, flagVars, histVars>>

\* The caller closes its side (CLOSE_WAIT), or the connection is reset or
\* times out.
RemoteCloses(s) ==
    /\ net[s] = "up"
    /\ net' = [net EXCEPT ![s] = "fin"]
    /\ UNCHANGED <<poll, lineVars, listenVars, via, closing, orphans, atVars,
                   fossilVars, flagVars, histVars>>

ConnectionLost(s) ==
    /\ net[s] \in {"up", "fin"}
    /\ net' = [net EXCEPT ![s] = "down"]
    /\ UNCHANGED <<poll, lineVars, listenVars, via, closing, orphans, atVars,
                   fossilVars, flagVars, histVars>>

\* isCloseDone() becomes true: the FIN was acknowledged or the close timed out.
CloseDone(s) ==
    /\ net[s] = "closing"
    /\ net' = [net EXCEPT ![s] = "done"]
    /\ UNCHANGED <<poll, lineVars, listenVars, via, closing, orphans, atVars,
                   fossilVars, flagVars, histVars>>

Network == \/ \E l, s \in Socks : ClientConnects(l, s)
           \/ \E s \in Socks : RemoteCloses(s) \/ ConnectionLost(s)
                                 \/ CloseDone(s)

----------------------------------------------------------------------------
(***************************************************************************)
(* The AT modem's part in a call (atcmd.c).                                *)
(***************************************************************************)
\* at_send_connect: the call is answered; CONNECT follows two seconds later.
AtSendConnect(p) ==
    /\ ringing' = [ringing EXCEPT ![p] = FALSE]
    /\ rings' = [rings EXCEPT ![p] = 0]
    /\ cmdMode' = [cmdMode EXCEPT ![p] = FALSE]
    /\ connPending' = [connPending EXCEPT ![p] = TRUE]
    /\ answered' = [answered EXCEPT ![p] = TRUE]
    /\ UNCHANGED <<s0, hangup>>

\* at_send_no_carrier
AtSendNoCarrier(p) ==
    /\ cmdMode' = [cmdMode EXCEPT ![p] = TRUE]
    /\ ringing' = [ringing EXCEPT ![p] = FALSE]
    /\ rings' = [rings EXCEPT ![p] = 0]
    /\ connPending' = [connPending EXCEPT ![p] = FALSE]
    /\ UNCHANGED s0

\* at_check_ring, one disjunct per outcome; each leaves poll to its caller.
RingQuiet(p) ==         \* no timer of this port has run out
    UNCHANGED <<lineVars, listenVars, netVars, atVars, flagVars, histVars>>

DeliverConnect(p) ==    \* the two seconds are over: CONNECT
    /\ connPending[p]
    /\ connPending' = [connPending EXCEPT ![p] = FALSE]
    /\ UNCHANGED <<lineVars, listenVars, netVars, ringing, rings, cmdMode, s0,
                   flagVars, histVars>>

RingDue(p) == ~connPending[p] /\ ringing[p]
AutoAnswerDue(p) == s0[p] > 0 /\ rings[p] >= s0[p] /\ fossilInit[p]

AutoAnswer(p) ==
    /\ RingDue(p) /\ AutoAnswerDue(p)
    /\ AtSendConnect(p)
    /\ UNCHANGED <<lineVars, listenVars, netVars, flagVars>>

NoAnswer(p) ==          \* the host did not answer
    /\ RingDue(p) /\ ~AutoAnswerDue(p) /\ rings[p] >= MaxRings
    /\ ringing' = [ringing EXCEPT ![p] = FALSE]
    /\ rings' = [rings EXCEPT ![p] = 0]
    /\ IF sock[p] # NoSock THEN CloseFast(sock[p]) ELSE UNCHANGED <<net, closing>>
    /\ sock' = [sock EXCEPT ![p] = NoSock]
    /\ mode' = [mode EXCEPT ![p] = LineMode(p)]
    /\ UNCHANGED <<listenVars, via, orphans, connPending, cmdMode, s0, flagVars,
                   histVars>>

RingAgain(p) ==
    /\ RingDue(p) /\ ~AutoAnswerDue(p) /\ rings[p] < MaxRings
    /\ rings' = [rings EXCEPT ![p] = @ + 1]
    /\ UNCHANGED <<lineVars, listenVars, netVars, ringing, connPending, cmdMode,
                   s0, flagVars, histVars>>

CheckRing(p) == RingQuiet(p) \/ DeliverConnect(p) \/ AutoAnswer(p)
                  \/ NoAnswer(p) \/ RingAgain(p)

----------------------------------------------------------------------------
(***************************************************************************)
(* The poll cycle (poll.c, do_mtcp_poll).                                  *)
(***************************************************************************)
\* g_dos_safe or g_int14_safe is set by the INT 28h handler and by the FOSSIL
\* calls that poll, not by MUX_POLL.  caller is the port of an AH=03h call.
StartPoll(safe, caller) ==
    /\ poll = Idle
    /\ poll' = [phase |-> "drain", i |-> 0, safe |-> safe, caller |-> caller]
    /\ UNCHANGED <<lineVars, listenVars, netVars, atVars, fossilVars, flagVars,
                   histVars>>

Int28Poll == StartPoll(TRUE, NoPort)        \* also AH=02h and AH=18h
MuxPoll == StartPoll(FALSE, NoPort)
StatusPoll(p) == StartPoll(TRUE, p)         \* AH=03h

ToPhase(ph) == [poll EXCEPT !.phase = ph]
NextGroup == IF poll.i + 1 < NGroups THEN [poll EXCEPT !.i = @ + 1]
                                     ELSE [poll EXCEPT !.phase = "port", !.i = 0]
NextPortPastEnd ==       \* mutant: <= for <
    IF poll.i < NPorts THEN [poll EXCEPT !.phase = "port", !.i = @ + 1] ELSE Idle
NextPort ==
    IF poll.i + 1 < NPorts THEN [poll EXCEPT !.phase = "port", !.i = @ + 1]
    ELSE IF poll.caller # NoPort THEN [poll EXCEPT !.phase = "status", !.i = 0]
    ELSE Idle

\* Finish deferred closes.
FinishedNotLast ==       \* mutant: the loop stops before entry 0
    {s \in closing : net[s] = "done" /\ Cardinality(closing) > 1}
Finished == {s \in closing : net[s] = "done"}
PollDrain ==
    /\ poll.phase = "drain"
    /\ net' = [s \in Socks |-> IF s \in Finished THEN "free" ELSE net[s]]
    /\ closing' = closing \ Finished
    /\ poll' = ToPhase("hunt")
    /\ UNCHANGED <<lineVars, listenVars, via, orphans, atVars, fossilVars,
                   flagVars, histVars>>

\* accept() hands out any waiting caller, whichever number was dialled; port p
\* takes the call and starts to ring.
TakeCall(p, s, netBefore) ==
    /\ sock' = [sock EXCEPT ![p] = s]
    /\ mode' = [mode EXCEPT ![p] = "conn"]
    /\ net' = [netBefore EXCEPT ![s] = "up"]
    /\ via' = [via EXCEPT ![s] = NoSock]
    /\ ringing' = [ringing EXCEPT ![p] = TRUE]
    /\ rings' = [rings EXCEPT ![p] = 1]
    /\ answered' = [answered EXCEPT ![p] = FALSE]
    /\ hangup' = [hangup EXCEPT ![p] = FALSE]
    /\ UNCHANGED <<listenVars, orphans, connPending, cmdMode, s0, fossilVars,
                   flagVars>>

\* The caller hears that the line is engaged and is closed.
TurnAway(s) ==
    /\ CloseFast(s)
    /\ via' = [via EXCEPT ![s] = NoSock]
    /\ UNCHANGED <<lineVars, listenVars, orphans, atVars, fossilVars, flagVars,
                   histVars>>

FreeMembers(g) == {p \in groupMask[g] : mode[p] = "listen" /\ sock[p] = NoSock}
GroupListensIfFree(g) ==       \* mutant: no busy message
    groupMask[g] # {} /\ groupSock[g] # NoSock /\ FreeMembers(g) # {}
GroupListens(g) == groupMask[g] # {} /\ groupSock[g] # NoSock
IsFirst(p, S) == p \in S /\ \A q \in S : p <= q

HuntSkip ==
    /\ poll.phase = "hunt"
    /\ ~GroupListens(poll.i) \/ PendingAccept = {}
    /\ poll' = NextGroup
    /\ UNCHANGED <<lineVars, listenVars, netVars, atVars, fossilVars, flagVars,
                   histVars>>

HuntAccept(s) ==
    /\ poll.phase = "hunt" /\ GroupListens(poll.i) /\ s \in PendingAccept
    /\ \E p \in Ports : IsFirst(p, FreeMembers(poll.i)) /\ TakeCall(p, s, net)
    /\ poll' = NextGroup
    /\ UNCHANGED closing

HuntReject(s) ==
    /\ poll.phase = "hunt" /\ GroupListens(poll.i) /\ s \in PendingAccept
    /\ FreeMembers(poll.i) = {}
    /\ TurnAway(s)
    /\ poll' = NextGroup

\* Servicing port poll.i.  Members of a hunt group do not accept by themselves.
Accepts(p) == mode[p] = "listen" /\ hunt[p] = NoGroup

PortIdle ==             \* not in a call, nobody to accept
    LET p == poll.i IN
    /\ poll.phase = "port"
    /\ ~Connected(p) /\ ~(Accepts(p) /\ PendingAccept # {})
    /\ mode' = IF mode[p] = "conn" THEN [mode EXCEPT ![p] = LineMode(p)] ELSE mode
    /\ poll' = NextPort
    /\ UNCHANGED <<sock, listenVars, netVars, atVars, fossilVars, flagVars, histVars>>

PortAccept(s) ==
    LET p == poll.i
        old == sock[p] # NoSock     \* closed first, should there be one
    IN
    /\ poll.phase = "port" /\ Accepts(p) /\ s \in PendingAccept
    /\ TakeCall(p, s, IF old THEN NetClosing(sock[p]) ELSE net)
    /\ closing' = IF old /\ QueueHasRoom THEN closing \cup {sock[p]} ELSE closing
    /\ poll' = NextPort

Engaged(p) == hunt[p] = NoGroup /\ listenSock[p] # NoSock

PortBusyReject(s) ==
    /\ poll.phase = "port" /\ Connected(poll.i) /\ Engaged(poll.i)
    /\ s \in PendingAccept
    /\ TurnAway(s)
    /\ poll' = ToPhase("ring")

PortNoCaller ==
    /\ poll.phase = "port" /\ Connected(poll.i)
    /\ ~Engaged(poll.i) \/ PendingAccept = {}
    /\ poll' = ToPhase("ring")
    /\ UNCHANGED <<lineVars, listenVars, netVars, atVars, fossilVars, flagVars,
                   histVars>>

PortRingNoCheck ==       \* mutant: p->sock is not looked at again
    /\ poll.phase = "ring"
    /\ CheckRing(poll.i)
    /\ poll' = ToPhase("close")
    /\ UNCHANGED fossilVars
\* at_check_ring may end the call; it leaves the mode that poll.c would set.
PortRing ==
    LET p == poll.i IN
    /\ poll.phase = "ring"
    /\ CheckRing(p)
    /\ poll' = IF sock'[p] = NoSock THEN NextPort ELSE ToPhase("close")
    /\ UNCHANGED fossilVars

EndCallKeepsPointer(p) ==       \* mutant: p->sock is not set to NULL
    /\ CloseFast(sock[p])
    /\ mode' = [mode EXCEPT ![p] = LineMode(p)]
    /\ AtSendNoCarrier(p)
    /\ UNCHANGED <<sock, listenVars, via, orphans, fossilVars, dtrIgnore, idleOn,
                   histVars>>

\* The close that ends a call of port p in the poll cycle.
EndCall(p) ==
    /\ CloseFast(sock[p])
    /\ sock' = [sock EXCEPT ![p] = NoSock]
    /\ mode' = [mode EXCEPT ![p] = LineMode(p)]
    /\ AtSendNoCarrier(p)
    /\ UNCHANGED <<listenVars, via, orphans, fossilVars, dtrIgnore, idleOn, histVars>>

CloseDueAnywhere(p) == pendingClose[p]                       \* mutant
CloseDueIfInit(p) == pendingClose[p] /\ poll.safe /\ fossilInit[p]   \* mutant
CloseDue(p) == pendingClose[p] /\ poll.safe

KeepRequest(p) == UNCHANGED pendingClose     \* mutant: missing reset
ClearRequest(p) == pendingClose' = [pendingClose EXCEPT ![p] = FALSE]

PollClose ==
    LET p == poll.i IN
    /\ poll.phase = "close" /\ CloseDue(p)
    /\ ClearRequest(p)
    /\ EndCall(p)
    /\ poll' = NextPort

NothingToClose ==
    /\ poll.phase = "close" /\ ~CloseDue(poll.i)
    /\ poll' = ToPhase("traffic")
    /\ UNCHANGED <<lineVars, listenVars, netVars, atVars, fossilVars, flagVars,
                   histVars>>

\* After the transfer of bytes: idle timeout, then disconnect detection, where
\* closing is allowed.
PortIdleTimeout ==
    LET p == poll.i IN
    /\ poll.phase = "traffic" /\ idleOn[p] /\ poll.safe
    /\ EndCall(p)
    /\ poll' = NextPort
    /\ UNCHANGED pendingClose

PortDisconnect ==
    LET p == poll.i IN
    /\ poll.phase = "traffic" /\ poll.safe
    /\ net[sock[p]] \in {"down", "fin"}
    /\ EndCall(p)
    /\ poll' = NextPort
    /\ UNCHANGED pendingClose

PortTraffic ==
    /\ poll.phase = "traffic"
    /\ ~(poll.safe /\ net[sock[poll.i]] = "down")
    /\ poll' = NextPort
    /\ UNCHANGED <<lineVars, listenVars, netVars, atVars, fossilVars, flagVars,
                   histVars>>

\* The rest of an AH=03h call once its poll is over: at_check_ring, and the
\* count of status calls since the application purged its output.
StatusTail ==
    LET p == poll.caller IN
    /\ poll.phase = "status"
    /\ CheckRing(p)
    /\ purgeSeen' =
         IF purgeSeen[p] # 0 /\ mode'[p] = "conn" /\ sock'[p] # NoSock
               /\ ~dtrIgnore[p]
           THEN [purgeSeen EXCEPT ![p] = (@ + 1) % PurgeMod]
           ELSE purgeSeen
    /\ poll' = Idle
    /\ UNCHANGED <<fossilInit, dtr>>

PollStep ==
    \/ PollDrain
    \/ HuntSkip \/ \E s \in Socks : HuntAccept(s) \/ HuntReject(s)
    \/ PortIdle \/ PortNoCaller
    \/ \E s \in Socks : PortAccept(s) \/ PortBusyReject(s)
    \/ PortRing \/ PollClose \/ NothingToClose
    \/ PortIdleTimeout \/ PortDisconnect \/ PortTraffic
    \/ StatusTail

----------------------------------------------------------------------------
(***************************************************************************)
(* FOSSIL calls (int14.c) and AT commands (atcmd.c) of the application on  *)
(* port p.                                                                 *)
(***************************************************************************)
CanCall == poll = Idle

\* A hang-up is asked for; the poll cycle will close the call.
AskHangup(p) == /\ pendingClose' = [pendingClose EXCEPT ![p] = TRUE]
                /\ hangup' = [hangup EXCEPT ![p] = TRUE]
                /\ UNCHANGED answered

\* getSocket() and listen() for a port or group that has no listener; either
\* may fail.
OpenListener(p, modeBefore, netBefore) ==
    LET own    == hunt[p] = NoGroup /\ modeBefore # "conn" /\ listenSock[p] = NoSock
        shared == hunt[p] # NoGroup /\ groupMask[hunt[p]] # {}
                    /\ groupSock[hunt[p]] = NoSock
        SetMode(m) == mode' = [mode EXCEPT ![p] = IF modeBefore = "conn" THEN "conn"
                                                                        ELSE m]
    IN \/ /\ own \/ shared
          /\ \E s \in Socks :
               /\ netBefore[s] = "free"
               /\ net' = [netBefore EXCEPT ![s] = "listen"]
               /\ IF own
                    THEN /\ listenSock' = [listenSock EXCEPT ![p] = s]
                         /\ UNCHANGED groupSock
                    ELSE /\ groupSock' = [groupSock EXCEPT ![hunt[p]] = s]
                         /\ UNCHANGED listenSock
          /\ SetMode("listen")
       \/ /\ net' = netBefore
          /\ UNCHANGED <<listenSock, groupSock>>
          /\ SetMode(IF own THEN modeBefore ELSE "listen")

\* at_init forgets the call; only unanswered ringing is put back.
ForgetsRinging(p, disc) == FALSE     \* mutant
StillRings(p, disc) == ringing[p] /\ ~disc /\ Connected(p)

\* AH=04h
FossilInit(p) ==
    LET disc == pendingClose[p] \/ (Connected(p) /\ purgeSeen[p] >= 3)
        closes == disc /\ sock[p] # NoSock
        modeBefore == IF disc THEN LineMode(p) ELSE mode[p]
    IN
    /\ CanCall
    /\ pendingClose' = [pendingClose EXCEPT ![p] = FALSE]
    /\ dtrIgnore' = [dtrIgnore EXCEPT ![p] = @ /\ ~disc]
    /\ sock' = [sock EXCEPT ![p] = IF disc THEN NoSock ELSE @]
    /\ closing' = IF closes /\ QueueHasRoom THEN closing \cup {sock[p]} ELSE closing
    /\ fossilInit' = [fossilInit EXCEPT ![p] = TRUE]
    /\ dtr' = [dtr EXCEPT ![p] = TRUE]
    /\ purgeSeen' = [purgeSeen EXCEPT ![p] = 0]
    /\ idleOn' = [idleOn EXCEPT ![p] = FALSE]
    /\ ringing' = [ringing EXCEPT ![p] = StillRings(p, disc)]
    /\ rings' = [rings EXCEPT ![p] = 0]
    /\ connPending' = [connPending EXCEPT ![p] = FALSE]
    /\ cmdMode' = [cmdMode EXCEPT ![p] = FALSE]
    /\ s0' = [s0 EXCEPT ![p] = 0]
    /\ OpenListener(p, modeBefore, IF closes THEN NetClosing(sock[p]) ELSE net)
    /\ UNCHANGED <<poll, hunt, groupMask, via, orphans, histVars>>

\* AH=05h
FossilDeinit(p) ==
    /\ CanCall
    /\ fossilInit' = [fossilInit EXCEPT ![p] = FALSE]
    /\ IF ~dtrIgnore[p] /\ dtr[p] /\ Connected(p)
         THEN AskHangup(p) ELSE UNCHANGED <<pendingClose, histVars>>
    /\ UNCHANGED <<poll, lineVars, listenVars, netVars, atVars, dtr, purgeSeen,
                   dtrIgnore, idleOn>>

\* AH=06h, AL=0
DropDtr(p) ==
    /\ CanCall
    /\ dtr' = [dtr EXCEPT ![p] = FALSE]
    /\ IF ~dtrIgnore[p] /\ Connected(p)
         THEN AskHangup(p) ELSE UNCHANGED <<pendingClose, histVars>>
    /\ UNCHANGED <<poll, lineVars, listenVars, netVars, atVars, fossilInit,
                   purgeSeen, dtrIgnore, idleOn>>

\* AH=06h, AL=1: answers a ringing call
RaiseDtr(p) ==
    /\ CanCall
    /\ dtr' = [dtr EXCEPT ![p] = TRUE]
    /\ IF ringing[p] /\ mode[p] = "conn"
         THEN AtSendConnect(p) ELSE UNCHANGED <<atVars, histVars>>
    /\ UNCHANGED <<poll, lineVars, listenVars, netVars, fossilInit, purgeSeen,
                   flagVars>>

\* AH=09h, ten seconds or more into the call; earlier it changes no call state
PurgeOutput(p) ==
    /\ CanCall
    /\ Connected(p) /\ purgeSeen[p] < 3 /\ ~dtrIgnore[p]
    /\ purgeSeen' = [purgeSeen EXCEPT ![p] = 1]
    /\ UNCHANGED <<poll, lineVars, listenVars, netVars, atVars, fossilInit, dtr,
                   flagVars, histVars>>

\* AH=01h reaches the command parser unless the port is in data mode.
InDataMode(p) == Connected(p) /\ ~ringing[p] /\ ~cmdMode[p]
CanCommand(p) == CanCall /\ ~InDataMode(p)

AtEscape(p) ==          \* +++
    /\ CanCall /\ InDataMode(p)
    /\ cmdMode' = [cmdMode EXCEPT ![p] = TRUE]
    /\ UNCHANGED <<poll, lineVars, listenVars, netVars, ringing, rings,
                   connPending, s0, fossilVars, flagVars, histVars>>

AtAnswer(p) ==          \* ATA
    /\ CanCommand(p) /\ mode[p] = "conn"
    /\ AtSendConnect(p)
    /\ UNCHANGED <<poll, lineVars, listenVars, netVars, fossilVars, flagVars>>

AtOnline(p) ==          \* ATO
    /\ CanCommand(p)
    /\ IF mode[p] = "conn"
         THEN AtSendConnect(p)
         ELSE /\ cmdMode' = [cmdMode EXCEPT ![p] = FALSE]
              /\ UNCHANGED <<ringing, rings, connPending, s0, histVars>>
    /\ UNCHANGED <<poll, lineVars, listenVars, netVars, fossilVars, flagVars>>

AtHangup(p) ==          \* ATH: nothing to hang up while it rings
    /\ CanCommand(p)
    /\ cmdMode' = [cmdMode EXCEPT ![p] = FALSE]
    /\ IF ~ringing[p] /\ Connected(p)
         THEN AskHangup(p)
         ELSE UNCHANGED <<pendingClose, histVars>>
    /\ UNCHANGED <<poll, lineVars, listenVars, netVars, ringing, rings,
                   connPending, s0, fossilVars, dtrIgnore, idleOn>>

AtReset(p) ==           \* ATZ
    /\ CanCommand(p)
    /\ s0' = [s0 EXCEPT ![p] = 0]
    /\ cmdMode' = [cmdMode EXCEPT ![p] = TRUE]
    /\ dtrIgnore' = [dtrIgnore EXCEPT ![p] = FALSE]
    /\ IF Connected(p) THEN AskHangup(p) ELSE UNCHANGED <<pendingClose, histVars>>
    /\ UNCHANGED <<poll, lineVars, listenVars, netVars, ringing, rings,
                   connPending, fossilVars, idleOn>>

AtIgnoreDtr(p, b) ==    \* AT&D0 and AT&D2: the flag of every port
    /\ CanCommand(p)
    /\ dtrIgnore' = [q \in Ports |-> b]
    /\ UNCHANGED <<poll, lineVars, listenVars, netVars, atVars, fossilVars,
                   pendingClose, idleOn, histVars>>

AtSetS0(p, n) ==        \* ATS0=n
    /\ CanCommand(p)
    /\ s0' = [s0 EXCEPT ![p] = n]
    /\ UNCHANGED <<poll, lineVars, listenVars, netVars, ringing, rings,
                   connPending, cmdMode, fossilVars, flagVars, histVars>>

AtSetIdle(p, b) ==      \* ATS30=0, ATS30=n
    /\ CanCommand(p)
    /\ idleOn' = [idleOn EXCEPT ![p] = b]
    /\ UNCHANGED <<poll, lineVars, listenVars, netVars, atVars, fossilVars,
                   pendingClose, dtrIgnore, histVars>>

----------------------------------------------------------------------------
(***************************************************************************)
(* INT 2Fh commands (vmodem.c), sent by VMODCTL or a second VMODEM.        *)
(***************************************************************************)
\* cmd_disconnect
CmdDisconnect(p) ==
    /\ CanCall /\ sock[p] # NoSock
    /\ AskHangup(p)
    /\ UNCHANGED <<poll, lineVars, listenVars, netVars, atVars, fossilVars,
                   dtrIgnore, idleOn>>

\* cmd_listen: cmd_disconnect, then forget both sockets; the hunt group stays.
CmdListen(p) ==
    /\ CanCall
    /\ IF sock[p] # NoSock THEN AskHangup(p)
                           ELSE UNCHANGED <<pendingClose, histVars>>
    /\ sock' = [sock EXCEPT ![p] = NoSock]
    /\ listenSock' = [listenSock EXCEPT ![p] = NoSock]
    /\ mode' = [mode EXCEPT ![p] = "disc"]
    /\ orphans' = orphans \cup ({sock[p], listenSock[p]} \ {NoSock})
    /\ UNCHANGED <<poll, hunt, groupMask, groupSock, net, via, closing, atVars,
                   fossilVars, dtrIgnore, idleOn>>

\* cmd_hunt_listen: the first inactive slot; members forget their sockets.
CmdHuntListen(mask) ==
    /\ CanCall
    /\ \E g \in Groups :
         /\ IsFirst(g, {h \in Groups : groupMask[h] = {}})
         /\ groupMask' = [groupMask EXCEPT ![g] = mask]
         /\ hunt' = [p \in Ports |-> IF p \in mask THEN g ELSE hunt[p]]
    /\ sock' = [p \in Ports |-> IF p \in mask THEN NoSock ELSE sock[p]]
    /\ listenSock' = [p \in Ports |-> IF p \in mask THEN NoSock ELSE listenSock[p]]
    /\ mode' = [p \in Ports |-> IF p \in mask THEN "disc" ELSE mode[p]]
    /\ orphans' = (orphans \cup {sock[p] : p \in mask}
                         \cup {listenSock[p] : p \in mask}) \ {NoSock}
    /\ UNCHANGED <<poll, groupSock, net, via, closing, atVars, fossilVars,
                   flagVars, histVars>>

----------------------------------------------------------------------------
Fossil(p) == \/ StatusPoll(p) \/ FossilInit(p)
             \/ "DEINIT" \in Uses /\ FossilDeinit(p)
             \/ "DTR" \in Uses /\ (DropDtr(p) \/ RaiseDtr(p))
             \/ "PURGE" \in Uses /\ PurgeOutput(p)

AtCommand(p) ==
    \/ AtAnswer(p)
    \/ "ATH" \in Uses /\ (AtEscape(p) \/ AtHangup(p) \/ AtOnline(p))
    \/ "ATZ" \in Uses /\ AtReset(p)
    \/ "AT&D" \in Uses /\ \E b \in BOOLEAN : AtIgnoreDtr(p, b)
    \/ "ATS0" \in Uses /\ \E n \in 0 .. MaxS0 : AtSetS0(p, n)
    \/ "ATS30" \in Uses /\ \E b \in BOOLEAN : AtSetIdle(p, b)

Mux == \/ "MUX_POLL" \in Uses /\ MuxPoll
       \/ "MUX_DISCONNECT" \in Uses /\ \E p \in Ports : CmdDisconnect(p)
       \/ "MUX_LISTEN" \in Uses /\ \E p \in Ports : CmdListen(p)
       \/ "MUX_HUNT_LISTEN" \in Uses
            /\ \E mask \in SUBSET Ports \ {{}} : CmdHuntListen(mask)

Next == \/ Network
        \/ Int28Poll \/ PollStep
        \/ \E p \in Ports : Fossil(p) \/ AtCommand(p)
        \/ Mux

Spec == Init /\ [][Next]_vars

\* DOS issues INT 28h again and again while it waits for input, a poll once
\* begun runs to its end, and mTCP's close succeeds or times out.
Fairness == /\ SF_vars(Int28Poll)
            /\ WF_vars(PollStep)
            /\ \A s \in Socks : WF_vars(CloseDone(s))

FairSpec == Spec /\ Fairness

----------------------------------------------------------------------------
(***************************************************************************)
(* Type invariant.                                                         *)
(***************************************************************************)
Phases == {"idle", "drain", "hunt", "port", "ring", "close", "traffic", "status"}

PollType ==
    /\ poll \in [phase : Phases, i : Nat, safe : BOOLEAN, caller : 0 .. NPorts]
    /\ poll.phase = "hunt" => poll.i \in Groups
    /\ poll.phase \in {"port", "ring", "close", "traffic"} => poll.i \in Ports
    /\ poll.phase = "status" => poll.caller \in Ports
    /\ poll.phase = "drain" => poll.i = 0
LineType ==
    /\ mode \in [Ports -> {"disc", "listen", "conn"}]
    /\ sock \in [Ports -> Socks \cup {NoSock}]
ListenType ==
    /\ listenSock \in [Ports -> Socks \cup {NoSock}]
    /\ hunt \in [Ports -> 0 .. NGroups]
    /\ groupMask \in [Groups -> SUBSET Ports]
    /\ groupSock \in [Groups -> Socks \cup {NoSock}]
NetType ==
    /\ net \in [Socks -> NetStates]
    /\ via \in [Socks -> Socks \cup {NoSock}]
    /\ closing \subseteq Socks
    /\ orphans \subseteq Socks
AtType ==
    /\ ringing \in [Ports -> BOOLEAN]
    /\ rings \in [Ports -> Nat]
    /\ connPending \in [Ports -> BOOLEAN]
    /\ cmdMode \in [Ports -> BOOLEAN]
    /\ s0 \in [Ports -> Nat]
FossilType ==
    /\ fossilInit \in [Ports -> BOOLEAN]
    /\ dtr \in [Ports -> BOOLEAN]
    /\ purgeSeen \in [Ports -> Nat]
FlagType ==
    /\ pendingClose \in [Ports -> BOOLEAN]
    /\ dtrIgnore \in [Ports -> BOOLEAN]
    /\ idleOn \in [Ports -> BOOLEAN]
HistType ==
    /\ answered \in [Ports -> BOOLEAN]
    /\ hangup \in [Ports -> BOOLEAN]

\* Every variable keeps its type; the index of the poll loop stays within the
\* table that the phase walks (poll.c:194 and 242).
TypeOK == /\ PollType /\ LineType /\ ListenType /\ NetType
          /\ AtType /\ FossilType /\ FlagType /\ HistType

(***************************************************************************)
(* Who owns which socket.                                                  *)
(***************************************************************************)
\* A port is in PORT_CONN exactly while it has a socket, although the two are
\* set apart in a dozen places (int14.c:536, poll.c:354, atcmd.c:242).
ModeMatchesSocket == \A p \in Ports : mode[p] = "conn" <=> sock[p] # NoSock

\* do_mtcp_poll goes on with p->sock after at_check_ring, which may have closed
\* the call: in every later step of the iteration the socket is still there
\* (poll.c:354).
SocketHeldInService ==
    poll.phase \in {"ring", "close", "traffic"} => sock[poll.i] # NoSock

CallsAreLive == \A p \in Ports : sock[p] # NoSock =>
                    net[sock[p]] \in Live /\ sock[p] \notin orphans
ListenersListen ==
    /\ \A p \in Ports : listenSock[p] # NoSock =>
          net[listenSock[p]] = "listen" /\ listenSock[p] \notin orphans
    /\ \A g \in Groups : groupSock[g] # NoSock =>
          net[groupSock[g]] = "listen" /\ groupSock[g] \notin orphans
NobodyShares ==
    /\ \A p, q \in Ports : p # q /\ sock[p] = sock[q] => sock[p] = NoSock
    /\ \A p, q \in Ports : p # q /\ listenSock[p] = listenSock[q] =>
          listenSock[p] = NoSock
    /\ \A g, h \in Groups : g # h /\ groupSock[g] = groupSock[h] =>
          groupSock[g] = NoSock
    /\ \A p \in Ports, g \in Groups : listenSock[p] = groupSock[g] =>
          listenSock[p] = NoSock
ClosingQueueExact == \A s \in Socks : s \in closing <=> net[s] \in {"closing", "done"}
NothingLost ==
    /\ \A s \in Socks : net[s] \in Live =>
          s \in orphans \/ \E p \in Ports : sock[p] = s
    /\ \A s \in Socks : net[s] = "listen" =>
          \/ s \in orphans
          \/ \E p \in Ports : listenSock[p] = s
          \/ \E g \in Groups : groupSock[g] = s
    /\ \A s \in orphans : net[s] \in Live \cup {"listen"}

\* Every socket that mTCP has taken from its pool is in exactly one place: a
\* port's call, a listener, the accept queue, the deferred-close queue, or
\* abandoned by an INT 2Fh listen command; none is in two, so no close or free
\* is done twice (vmodem.h:306, poll.c:109, int14.c:536).
SocketOwnership ==
    /\ CallsAreLive /\ ListenersListen /\ NobodyShares
    /\ ClosingQueueExact /\ NothingLost

(***************************************************************************)
(* What a call goes through.                                               *)
(***************************************************************************)
\* A caller nobody has answered hears ringing, whatever the application did in
\* between, a FOSSIL re-initialisation included (int14.c:572), and the modem
\* reports CONNECT only for a call that somebody answered.
UnansweredCallRings ==
    \A p \in Ports :
        Connected(p) /\ ~answered[p] => ringing[p] /\ ~connPending[p]

\* A standalone port that a BBS has initialised and that has its listening
\* socket is either listening or in a call: no way a call can end leaves the
\* line dead (README.md:306).
NoDeadLine ==
    \A p \in Ports :
        fossilInit[p] /\ hunt[p] = NoGroup /\ listenSock[p] # NoSock
            => mode[p] # "disc"

\* However an answered call ends, the hang-up request dies with it and cannot
\* reach the next caller (int14.c:529).  A port that MUX_LISTEN takes out of
\* service may keep the request: it takes no caller before AH=04h clears it.
AnsweredCallTakesHangupWithIt ==
    [][\A p \in Ports :
          sock[p] # NoSock /\ sock'[p] # sock[p] /\ answered[p]
              => ~pendingClose'[p] \/ mode'[p] = "disc"]_vars

\* An answered call is ended only where the packet driver can transmit: by a
\* poll made for INT 28h or INT 14h, or by a call of the application itself,
\* never by MUX_POLL (poll.c:366 and 551).
AnsweredCallEndsInSafeContext ==
    [][\A p \in Ports :
          sock[p] # NoSock /\ sock'[p] # sock[p] /\ answered[p]
              => poll.safe \/ poll.phase = "idle"]_vars

(***************************************************************************)
(* Liveness, under Fairness.                                               *)
(***************************************************************************)
\* Once a hang-up is asked for, the call it was asked for ends (poll.c:372).
HangupHonoured ==
    \A p \in Ports, s \in Socks :
        (pendingClose[p] /\ sock[p] = s) ~> sock[p] # s

\* A socket that is being closed returns to the pool (poll.c:109).
SocketsComeBack == \A s \in Socks : net[s] = "closing" ~> net[s] = "free"

\* A caller of a line or a hunt group in service is taken or turned away, unless
\* new callers keep arriving for ever: accept() promises no order (poll.c:194).
CallerArrives == \E l, s \in Socks : ClientConnects(l, s)
CallersServed ==
    <>[][~CallerArrives]_vars
        => \A s \in Socks : net[s] = "pending" ~> net[s] # "pending"

(***************************************************************************)
(* Claims of the documentation and comments that the code does not keep.   *)
(***************************************************************************)
\* "POLL-CLOSE then kills the NEW connection" (int14.c:533) does not happen: a
\* hang-up request is never pending for a call during which none was made.
NoStaleHangup ==
    \A p \in Ports : pendingClose[p] /\ sock[p] # NoSock => hangup[p]

\* "/L:n:port  Set COM n to listen on TCP port" (README.md:78): a caller is
\* connected to a COM port whose number, or whose group's number, was dialled.
CallerReachesDialledPort ==
    [][\A p \in Ports :
          sock'[p] # sock[p] /\ sock'[p] # NoSock =>
              \/ via[sock'[p]] = listenSock[p]
              \/ hunt[p] \in Groups /\ via[sock'[p]] = groupSock[hunt[p]]]_vars

============================================================================
