------------------------------ MODULE VSocket ------------------------------
(***************************************************************************)
(* Programs that use vsocket.lib (lib/vsocket.c), on top of ExtSockets.    *)
(*                                                                         *)
(* DOS runs one program at a time.  The first may be a utility that makes  *)
(* the INT 2Fh calls itself, in any order; those after it use the library. *)
(* A program may end at any time and leave its sockets open.  The          *)
(* library's calls block, so pc says where in which call the program is;   *)
(* between two calls polls happen for other reasons.  A deadline or a      *)
(* retry count may have been reached at each look.                         *)
(***************************************************************************)
EXTENDS ExtSockets

VARIABLES
    allocated,     \* vsock_allocated
    pc,            \* where in which call the program is
    fd,            \* the handle it is about
    ret,           \* what the last call returned: "ok", "none", "fail"
    raw,           \* the program does without the library
    left           \* history: slots that ended programs left behind

clientVars == <<allocated, pc, fd, ret, raw, left>>
vars == <<extVars, clientVars>>

VInit == /\ Init
         /\ allocated = [g \in Handles |-> FALSE]
         /\ pc = "app" /\ fd = 0 /\ ret = "none"
         /\ raw = TRUE /\ left = {}

Goto(l)   == pc' = l /\ UNCHANGED <<fd, ret, raw, left>>
Return(r) == pc' = "app" /\ ret' = r /\ UNCHANGED <<fd, raw, left>>
Call(g, l) == /\ pc = "app" /\ allocated[g]
              /\ pc' = l /\ fd' = g /\ UNCHANGED <<raw, left>>

\* A utility without the library, such as vmodctl.
RawCall ==
    /\ raw
    /\ \/ AllocFails
       \/ \E g \in Handles : \/ AllocGives(g) \/ MuxConnect(g) \/ MuxStatus(g)
                              \/ MuxSend(g) \/ MuxRecv(g) \/ MuxRecvReady(g)
                              \/ MuxClose(g)
    /\ UNCHANGED clientVars

\* The flags of the library are the program's memory; the table is the TSR's.
ProgramEnds ==
    /\ CanCall /\ pc = "app"
    /\ allocated' = [g \in Handles |-> FALSE]
    /\ raw' = FALSE
    /\ left' = {g \in Handles : HasSock(g)}
    /\ fd' = 0 /\ ret' = "none" /\ UNCHANGED <<extVars, pc>>

\* dos_idle() and mux_poll_internal(): a poll from start to end.
PollThen(here, there) ==
    /\ pc = here
    /\ StartPoll
    /\ Goto(there) /\ UNCHANGED allocated

\* socket()
Socket ==
    /\ pc = "app" /\ ~raw
    /\ \/ AllocFails /\ Return("fail") /\ UNCHANGED allocated
       \/ \E g \in Handles :
            /\ AllocGives(g)
            /\ allocated' = [allocated EXCEPT ![g] = TRUE]
            /\ left' = left \ {g}
            /\ pc' = "app" /\ ret' = "ok" /\ UNCHANGED <<fd, raw>>

\* connect()
ConnectNoIdle(g) ==       \* mutant: the state is looked at before a poll
    /\ Call(g, "connectStatus")
    /\ MuxConnect(g)
    /\ UNCHANGED <<allocated, ret>>
Connect(g) ==
    /\ Call(g, "connectIdle")
    /\ MuxConnect(g)
    /\ UNCHANGED <<allocated, ret>>

ConnectPolls == \/ PollThen("connectIdle", "connectPoll")
                \/ PollThen("connectPoll", "connectStatus")

ConnectStatus ==
    /\ pc = "connectStatus" /\ MuxStatus(fd)
    /\ \/ result' = EXT_SOCK_ESTABLISHED /\ Return("ok")
       \/ result' = EXT_SOCK_ERROR /\ Return("fail")
       \/ /\ result' \notin {EXT_SOCK_ESTABLISHED, EXT_SOCK_ERROR}
          /\ Goto("connectIdle") \/ Goto("connectTimeout")
    /\ UNCHANGED allocated

ConnectForgets ==         \* mutant: the socket is not closed
    /\ pc = "connectTimeout"
    /\ allocated' = [allocated EXCEPT ![fd] = FALSE]
    /\ Return("fail") /\ UNCHANGED extVars
ConnectTimeout ==
    /\ pc = "connectTimeout" /\ MuxClose(fd)
    /\ allocated' = [allocated EXCEPT ![fd] = FALSE]
    /\ Return("fail")

\* send(), for as many chunks as it takes
Send(g) ==
    /\ CanCall /\ Call(g, "send")
    /\ UNCHANGED <<extVars, allocated, ret>>

SendChunk ==
    /\ pc = "send" /\ MuxSend(fd)
    /\ \/ result' # 0 /\ (Goto("send") \/ Goto("sendPoll"))
       \/ result' = 0 /\ Goto("sendStatus")
    /\ UNCHANGED allocated

SendStatus ==
    /\ pc = "sendStatus" /\ MuxStatus(fd)
    /\ IF result' \in {EXT_SOCK_ERROR, EXT_SOCK_REMOTE_CLOSED}
         THEN Return("fail") ELSE Goto("sendRetry")
    /\ UNCHANGED allocated

\* After many retries dos_idle() polls once more, and in the end send() gives up.
SendPolls == \/ PollThen("sendRetry", "send")
             \/ PollThen("sendRetry", "sendIdle")
             \/ PollThen("sendIdle", "send")
             \/ PollThen("sendIdle", "app")
             \/ PollThen("sendPoll", "app")

\* recv()
Recv(g) == /\ Call(g, "recv") /\ StartPoll
           /\ UNCHANGED <<allocated, ret>>

RecvStatusFirst ==        \* mutant: what is waiting is not read first
    /\ pc = "recv" /\ MuxStatus(fd)
    /\ IF result' \in {EXT_SOCK_ERROR, EXT_SOCK_REMOTE_CLOSED}
         THEN Return("fail") ELSE Goto("recvStatus")
    /\ UNCHANGED allocated
RecvRead ==
    /\ pc = "recv" /\ MuxRecv(fd)
    /\ IF result' # 0 THEN Return("ok") ELSE Goto("recvStatus")
    /\ UNCHANGED allocated

RecvStatus ==
    /\ pc = "recvStatus" /\ MuxStatus(fd)
    /\ IF result' \in {EXT_SOCK_ERROR, EXT_SOCK_REMOTE_CLOSED}
         THEN Return("fail") ELSE Return("none")
    /\ UNCHANGED allocated

\* vsock_data_ready()
DataReady(g) == /\ Call(g, "ready") /\ StartPoll
                /\ UNCHANGED <<allocated, ret>>
ReadyResult == /\ pc = "ready" /\ MuxRecvReady(fd)
               /\ Return(IF result' = 0 THEN "none" ELSE "ok")
               /\ UNCHANGED allocated

\* closesocket()
CloseKeepsFd(g) ==        \* mutant: vsock_allocated is not cleared
    /\ Call(g, "app") /\ MuxClose(g)
    /\ ret' = "ok" /\ UNCHANGED allocated
CloseSocket(g) ==
    /\ Call(g, "app") /\ MuxClose(g)
    /\ allocated' = [allocated EXCEPT ![g] = FALSE]
    /\ ret' = "ok"

\* A poll that the library did not ask for, while the program is busy elsewhere.
OtherPoll == pc = "app" /\ StartPoll /\ UNCHANGED clientVars

InCall == \/ ConnectPolls \/ ConnectStatus \/ ConnectTimeout
          \/ SendChunk \/ SendStatus \/ SendPolls
          \/ RecvRead \/ RecvStatus \/ ReadyResult

Program == \/ RawCall \/ ProgramEnds \/ Socket \/ InCall
           \/ \E g \in Handles : \/ Connect(g) \/ Send(g) \/ Recv(g)
                                 \/ DataReady(g) \/ CloseSocket(g)

VNext == \/ (Network \/ PollStep) /\ UNCHANGED clientVars
         \/ Program \/ OtherPoll

\* INT 28h comes again and again while the program does nothing else, calls and
\* polls that have begun run on, and send() gives up in the end.
Fairness == /\ SF_vars(OtherPoll)
            /\ WF_vars(PollStep /\ UNCHANGED clientVars)
            /\ WF_vars(InCall)
VSpec == VInit /\ [][VNext]_vars
VFairSpec == VSpec /\ Fairness

----------------------------------------------------------------------------
(***************************************************************************)
(* Properties.                                                             *)
(***************************************************************************)
\* A descriptor that the program holds has its own socket in the TSR, whatever
\* earlier programs left in the table (vsocket.c:25), and a slot that no descriptor
\* holds is empty, marked for closing, or left by one of those: no way out of a
\* call, connect()'s time-out included, loses a slot (vsocket.c:301).
FdHasSlot ==
    \A g \in Handles :
        IF allocated[g] THEN HasSock(g) /\ state[g] # EXT_SOCK_CLOSING
        ELSE HasSock(g) => raw \/ g \in left \/ state[g] = EXT_SOCK_CLOSING

\* connect() reports a refusal only once the TSR has tried: the entry is closed
\* for mTCP until the poll that connects, and would look refused (vsocket.c:292).
RefusalIsReal ==
    [][(pc = "connectStatus" /\ pc' = "app" /\ ret' = "fail")
          => ~pendingConnect[fd]]_vars

\* recv() reports the end only after the program has got all that arrived
\* (vsocket.c:374).
EofOnlyAtEnd ==
    [][(pc \in {"recv", "recvStatus"} /\ pc' = "app" /\ ret' = "fail")
          => ~data[sock[fd]]]_vars

\* A descriptor that the library closed gives its slot back (int8.c:471, poll.c:607).
ClosedSlotsComeBack ==
    \A g \in Handles :
        (~raw /\ g \notin left /\ state[g] = EXT_SOCK_CLOSING) ~> ~HasSock(g)

============================================================================
