----------------------------- MODULE ExtSockets -----------------------------
(***************************************************************************)
(* Outgoing connections through the TSR: the table ext_sockets, the INT    *)
(* 2Fh calls MUX_SOCK_* of int8.c that read and write it, and step 3 of    *)
(* do_mtcp_poll, which opens and closes the sockets and tracks them.       *)
(*                                                                         *)
(* An INT 2Fh call is one action.  Packets are processed in polls only, so *)
(* that is when the network moves; step 3 handles one entry per action.    *)
(* Here clients call in any order; VSocket puts the library on top.        *)
(***************************************************************************)
EXTENDS Naturals, FiniteSets

CONSTANTS
    NHandles,    \* MAX_EXT_SOCKETS
    Socks,       \* mTCP sockets that the ports leave over
    NoSock,      \* NULL
    MaxClosing   \* MAX_CLOSING_SOCKETS

ASSUME ExtAssumption ==
    /\ NHandles \in Nat \ {0}
    /\ MaxClosing \in Nat
    /\ NoSock \notin Socks

Handles == 0 .. NHandles - 1

EXT_SOCK_FREE          == 0
EXT_SOCK_CONNECTING    == 1
EXT_SOCK_ESTABLISHED   == 2
EXT_SOCK_REMOTE_CLOSED == 3
EXT_SOCK_ERROR         == 4
EXT_SOCK_CLOSING       == 5
Failed                 == 255

VARIABLES
    poll,             \* where do_mtcp_poll is
    sock, state, pendingConnect,    \* ext_sockets[]
    result,           \* mux_sock_result
    net,              \* what mTCP does with each socket
    data,             \* recvDataWaiting()
    closing           \* the entries of g_closing_sockets that come from here

tableVars == <<sock, state, pendingConnect>>
netVars   == <<net, data, closing>>
extVars   == <<poll, tableVars, result, netVars>>

Idle == [phase |-> "idle", i |-> 0]

\* What mTCP says of a socket.
IsConnectComplete(n) == n \in {"up", "fin"}
IsClosed(n)          == n \in {"fresh", "down"}
IsRemoteClosed(n)    == n = "fin"
InUse                == {"fresh", "syn", "up", "fin", "down"}

Init ==
    /\ poll = Idle
    /\ sock = [h \in Handles |-> NoSock]
    /\ state = [h \in Handles |-> EXT_SOCK_FREE]
    /\ pendingConnect = [h \in Handles |-> FALSE]
    /\ result = 0
    /\ net = [s \in Socks |-> "free"]
    /\ data = [s \in Socks |-> FALSE]
    /\ closing = {}

----------------------------------------------------------------------------
(***************************************************************************)
(* The network.                                                            *)
(***************************************************************************)
Moves(n) == CASE n = "syn" -> {"up", "down"}
              [] n = "up"  -> {"fin", "down"}
              [] n = "fin" -> {"down"}
              [] n = "closing" -> {"done"}
              [] OTHER -> {}

NetMove(s) ==
    /\ poll.phase # "idle"
    /\ \E n \in Moves(net[s]) : net' = [net EXCEPT ![s] = n]
    /\ UNCHANGED <<poll, tableVars, result, data, closing>>

DataArrives(s) ==
    /\ poll.phase # "idle" /\ net[s] = "up" /\ ~data[s]
    /\ data' = [data EXCEPT ![s] = TRUE]
    /\ UNCHANGED <<poll, tableVars, result, net, closing>>

----------------------------------------------------------------------------
(***************************************************************************)
(* do_mtcp_poll.                                                           *)
(***************************************************************************)
Finished == {s \in closing : net[s] = "done"}

\* Whatever interrupt it is for; deferred closes are finished first.
StartPoll ==
    /\ poll = Idle
    /\ poll' = [phase |-> "ext", i |-> 0]
    /\ net' = [s \in Socks |-> IF s \in Finished THEN "free" ELSE net[s]]
    /\ closing' = closing \ Finished
    /\ UNCHANGED <<tableVars, result, data>>

NextHandlePastEnd ==     \* mutant: <= for <
    IF poll.i < NHandles THEN [poll EXCEPT !.i = @ + 1] ELSE Idle
NextHandle == IF poll.i + 1 < NHandles THEN [poll EXCEPT !.i = @ + 1] ELSE Idle

\* The deferred connect: what it leaves in the entry and in mTCP.
Attempts(h) ==
    LET n == net[sock[h]] IN
    IF pendingConnect[h]
      THEN {[state |-> EXT_SOCK_ERROR, net |-> n]}
             \cup {a \in {[state |-> state[h], net |-> "syn"]} : IsClosed(n)}
      ELSE {[state |-> state[h], net |-> n]}

ExtEmpty ==
    /\ poll.phase = "ext" /\ sock[poll.i] = NoSock
    /\ poll' = NextHandle
    /\ UNCHANGED <<tableVars, result, netVars>>

\* sock_close_fast.  Ports use the same queue, so it may be full at any time.
CloseFast(s) ==
    \/ /\ Cardinality(closing) < MaxClosing
       /\ net' = [net EXCEPT ![s] = "closing"]
       /\ closing' = closing \cup {s}
    \/ net' = [net EXCEPT ![s] = "free"] /\ UNCHANGED closing

FreeEntry(h) == /\ sock' = [sock EXCEPT ![h] = NoSock]
                /\ state' = [state EXCEPT ![h] = EXT_SOCK_FREE]

ExtCloseFirst(h, a) ==           \* mutant: the close comes before the connect
    /\ state[h] = EXT_SOCK_CLOSING
    /\ CloseFast(sock[h]) /\ FreeEntry(h)
    /\ UNCHANGED pendingConnect
ExtCloseKeepsPointer(h, a) ==    \* mutant: sock is not set to NULL
    /\ a.state = EXT_SOCK_CLOSING
    /\ CloseFast(sock[h])
    /\ state' = [state EXCEPT ![h] = EXT_SOCK_FREE]
    /\ pendingConnect' = [pendingConnect EXCEPT ![h] = FALSE]
    /\ UNCHANGED sock
ExtClose(h, a) ==
    /\ a.state = EXT_SOCK_CLOSING
    /\ CloseFast(sock[h]) /\ FreeEntry(h)
    /\ pendingConnect' = [pendingConnect EXCEPT ![h] = FALSE]

Tracked(st, n, d) ==
    CASE st = EXT_SOCK_CONNECTING /\ IsConnectComplete(n) -> EXT_SOCK_ESTABLISHED
      [] st = EXT_SOCK_CONNECTING /\ IsClosed(n) -> EXT_SOCK_ERROR
      [] st = EXT_SOCK_ESTABLISHED /\ IsClosed(n) -> EXT_SOCK_ERROR
      [] st = EXT_SOCK_ESTABLISHED /\ IsRemoteClosed(n) /\ ~d -> EXT_SOCK_REMOTE_CLOSED
      [] OTHER -> st

ExtTrack(h, a) ==
    /\ a.state # EXT_SOCK_CLOSING
    /\ pendingConnect' = [pendingConnect EXCEPT ![h] = FALSE]
    /\ net' = [net EXCEPT ![sock[h]] = a.net]
    /\ state' = [state EXCEPT ![h] = Tracked(a.state, a.net, data[sock[h]])]
    /\ UNCHANGED <<sock, closing>>

ExtService ==
    /\ poll.phase = "ext" /\ sock[poll.i] # NoSock
    /\ \E a \in Attempts(poll.i) : ExtClose(poll.i, a) \/ ExtTrack(poll.i, a)
    /\ poll' = NextHandle
    /\ UNCHANGED <<result, data>>

PollStep == ExtEmpty \/ ExtService
Network == \E s \in Socks : NetMove(s) \/ DataArrives(s)

----------------------------------------------------------------------------
(***************************************************************************)
(* INT 2Fh.                                                                *)
(***************************************************************************)
CanCall == poll = Idle
HasSock(h) == sock[h] # NoSock
FreeSlots == {h \in Handles : state[h] = EXT_SOCK_FREE /\ ~HasSock(h)}
IsFirst(h, S) == h \in S /\ \A g \in S : h <= g

\* No slot, no mTCP socket, or no memory for its receive buffer.
AllocFails ==
    /\ CanCall
    /\ result' = Failed
    /\ UNCHANGED <<poll, tableVars, netVars>>

AllocGives(h) ==
    /\ CanCall /\ IsFirst(h, FreeSlots)
    /\ \E s \in Socks : /\ net[s] = "free"
                        /\ sock' = [sock EXCEPT ![h] = s]
                        /\ net' = [net EXCEPT ![s] = "fresh"]
                        /\ data' = [data EXCEPT ![s] = FALSE]
    /\ state' = [state EXCEPT ![h] = EXT_SOCK_FREE]
    /\ result' = h
    /\ UNCHANGED <<poll, pendingConnect, closing>>

MuxConnect(h) ==
    /\ CanCall
    /\ IF HasSock(h)
         THEN /\ pendingConnect' = [pendingConnect EXCEPT ![h] = TRUE]
              /\ state' = [state EXCEPT ![h] = EXT_SOCK_CONNECTING]
              /\ result' = 0
         ELSE result' = Failed /\ UNCHANGED <<pendingConnect, state>>
    /\ UNCHANGED <<poll, sock, netVars>>

\* What MUX_SOCK_STATUS answers, and writes back.
Status(h) ==
    LET n == net[sock[h]] IN
    CASE IsConnectComplete(n) /\ IsRemoteClosed(n) /\ ~data[sock[h]] ->
           EXT_SOCK_REMOTE_CLOSED
      [] IsConnectComplete(n) -> EXT_SOCK_ESTABLISHED
      [] IsClosed(n) -> EXT_SOCK_ERROR
      [] OTHER -> state[h]

MuxStatus(h) ==
    /\ CanCall
    /\ IF HasSock(h)
         THEN state' = [state EXCEPT ![h] = Status(h)] /\ result' = Status(h)
         ELSE result' = EXT_SOCK_ERROR /\ UNCHANGED state
    /\ UNCHANGED <<poll, sock, pendingConnect, netVars>>

\* mTCP takes all, part or nothing.
MuxSend(h) ==
    /\ CanCall
    /\ result' \in IF HasSock(h) /\ state[h] = EXT_SOCK_ESTABLISHED THEN {0, 1} ELSE {0}
    /\ UNCHANGED <<poll, tableVars, netVars>>

MuxRecv(h) ==
    /\ CanCall
    /\ IF HasSock(h) /\ data[sock[h]]
         THEN /\ result' = 1
              /\ \E more \in BOOLEAN : data' = [data EXCEPT ![sock[h]] = more]
         ELSE result' = 0 /\ UNCHANGED data
    /\ UNCHANGED <<poll, tableVars, net, closing>>

MuxRecvReady(h) ==
    /\ CanCall
    /\ result' = IF HasSock(h) /\ data[sock[h]] THEN 1 ELSE 0
    /\ UNCHANGED <<poll, tableVars, netVars>>

MuxClose(h) ==
    /\ CanCall
    /\ state' = IF HasSock(h) THEN [state EXCEPT ![h] = EXT_SOCK_CLOSING] ELSE state
    /\ result' = 0
    /\ UNCHANGED <<poll, sock, pendingConnect, netVars>>

Next ==
    \/ Network \/ StartPoll \/ PollStep
    \/ AllocFails
    \/ \E h \in Handles :
          \/ AllocGives(h) \/ MuxConnect(h) \/ MuxStatus(h) \/ MuxSend(h)
          \/ MuxRecv(h) \/ MuxRecvReady(h) \/ MuxClose(h)

Spec == Init /\ [][Next]_extVars

----------------------------------------------------------------------------
(***************************************************************************)
(* Properties, whatever the clients call.                                  *)
(***************************************************************************)
NetStates == InUse \cup {"free", "closing", "done"}

\* Every variable keeps its type, and step 3 stays within ext_sockets
\* (poll.c:585).
TypeOK ==
    /\ poll \in [phase : {"idle", "ext"}, i : Handles]
    /\ sock \in [Handles -> Socks \cup {NoSock}]
    /\ state \in [Handles -> 0 .. 5]
    /\ pendingConnect \in [Handles -> BOOLEAN]
    /\ result \in Nat
    /\ net \in [Socks -> NetStates]
    /\ data \in [Socks -> BOOLEAN]
    /\ closing \subseteq Socks

\* Each mTCP socket taken from the pool is in one entry of the table or in the
\* deferred-close queue, never in two places and never lost, so that nothing is
\* closed twice (poll.c:608, int8.c:347).
SocketOwnership ==
    /\ \A h \in Handles : HasSock(h) => net[sock[h]] \in InUse
    /\ \A g, h \in Handles : sock[g] = sock[h] => g = h \/ ~HasSock(g)
    /\ \A s \in Socks : net[s] \in InUse => \E h \in Handles : sock[h] = s
    /\ \A s \in Socks : s \in closing <=> net[s] \in {"closing", "done"}

\* MUX_SOCK_ALLOC does not clear pending_connect; the next owner of a slot must
\* not be connected to the address of the last one (int8.c:351, poll.c:591).
EmptySlotClean ==
    \A h \in Handles : ~HasSock(h) => state[h] = EXT_SOCK_FREE /\ ~pendingConnect[h]

============================================================================
