---------------------------- MODULE VSocketProofs ----------------------------
(***************************************************************************)
(* Proofs about the external sockets of the TSR and about the programs     *)
(* that use them through the socket library, for every number of handles   *)
(* and sockets and every length of the deferred-close queue, with clients  *)
(* that call in any order.                                                 *)
(*                                                                         *)
(* First the TSR (ExtSockets).  Its three properties need each other: a    *)
(* poll may look up net[sock[h]] because of TypeOK, a socket that is       *)
(* handed out belongs to nobody because of SocketOwnership, and            *)
(* EmptySlotClean tells which entries MUX_SOCK_ALLOC finds.  Their         *)
(* conjunction is inductive.                                               *)
(*                                                                         *)
(* Then the programs (VSocket).  A step of a program is a step of          *)
(* ExtSockets, so what was proved of the TSR holds here too.  That no slot *)
(* is lost needs more: a slot marked for closing must not carry a connect  *)
(* that is still to be tried, because a connect that fails would overwrite *)
(* the mark (poll.c:590).                                                  *)
(***************************************************************************)
EXTENDS VSocket, TLAPS

EInv == TypeOK /\ SocketOwnership /\ EmptySlotClean

USE DEF EXT_SOCK_FREE, EXT_SOCK_CONNECTING, EXT_SOCK_ESTABLISHED,
        EXT_SOCK_REMOTE_CLOSED, EXT_SOCK_ERROR, EXT_SOCK_CLOSING

\* main() clears the table (vmodem.c:504).
LEMMA InitEInv == Init => EInv
<1> SUFFICES ASSUME Init PROVE EInv  OBVIOUS
<1> USE ExtAssumption DEF Init
<1>1. TypeOK
  BY DEF TypeOK, Idle, Handles, NetStates, InUse
<1>2. SocketOwnership
  BY DEF SocketOwnership, HasSock, InUse, Handles
<1>3. EmptySlotClean
  BY DEF EmptySlotClean, HasSock
<1> QED  BY <1>1, <1>2, <1>3 DEF EInv

\* The network keeps a socket that is in use in use, and one being closed so.
LEMMA NetworkEInv == EInv /\ Network => EInv'
<1> SUFFICES ASSUME EInv, NEW s \in Socks, NetMove(s) \/ DataArrives(s)
             PROVE  EInv'
  BY DEF Network
<1> USE ExtAssumption DEF EInv
<1>1. CASE NetMove(s)
  <2>1. PICK n \in Moves(net[s]) : net' = [net EXCEPT ![s] = n]
    BY <1>1 DEF NetMove
  <2>2. /\ n \in NetStates
        /\ net[s] \in InUse <=> n \in InUse
        /\ net[s] \in {"closing", "done"} <=> n \in {"closing", "done"}
    BY <2>1 DEF Moves, NetStates, InUse
  <2>3. UNCHANGED <<poll, tableVars, result, data, closing>>
    BY <1>1 DEF NetMove
  <2> QED
    BY <2>1, <2>2, <2>3
    DEF TypeOK, SocketOwnership, EmptySlotClean, HasSock, tableVars
<1>2. CASE DataArrives(s)
  BY <1>2 DEF DataArrives, TypeOK, SocketOwnership, EmptySlotClean, HasSock, tableVars
<1> QED  BY <1>1, <1>2

\* A poll frees exactly the sockets whose close is done (poll.c:106).
LEMMA StartPollEInv == EInv /\ StartPoll => EInv'
<1> SUFFICES ASSUME EInv, StartPoll PROVE EInv'  OBVIOUS
<1> USE ExtAssumption DEF EInv, StartPoll, tableVars
<1>1. TypeOK'
  BY DEF TypeOK, Finished, Handles, NetStates
<1>2. SocketOwnership'
  BY DEF TypeOK, SocketOwnership, HasSock, Finished, InUse, NetStates
<1>3. EmptySlotClean'
  BY DEF EmptySlotClean, HasSock
<1> QED  BY <1>1, <1>2, <1>3

\* Step 3 leaves the loop at the end of the table (poll.c:585).
LEMMA NextHandleType ==
  ASSUME TypeOK, poll.phase = "ext" PROVE NextHandle \in [phase : {"idle", "ext"}, i : Handles]
<1> USE ExtAssumption
<1>1. poll.i \in Handles /\ poll \in [phase : {"idle", "ext"}, i : Handles]
  BY DEF TypeOK
<1>2. CASE poll.i + 1 < NHandles
  <2>1. poll.i + 1 \in Handles  BY <1>1, <1>2 DEF Handles
  <2> QED  BY <1>1, <1>2, <2>1 DEF NextHandle
<1>3. CASE ~(poll.i + 1 < NHandles)
  BY <1>3 DEF NextHandle, Idle, Handles
<1> QED  BY <1>2, <1>3

\* What a deferred connect may leave (poll.c:590).
LEMMA AttemptsType ==
  ASSUME EInv, NEW h \in Handles, HasSock(h), NEW a \in Attempts(h)
  PROVE  a.state \in 0 .. 5 /\ a.net \in InUse
BY DEF EInv, TypeOK, SocketOwnership, Attempts, HasSock, InUse, IsClosed

\* An entry of the table whose socket is closed in step 3.
LEMMA ExtCloseEInv ==
  ASSUME EInv, NEW h \in Handles, HasSock(h), NEW a \in Attempts(h), ExtClose(h, a),
         poll' \in [phase : {"idle", "ext"}, i : Handles], UNCHANGED <<result, data>>
  PROVE  EInv'
<1> DEFINE s == sock[h]
<1> USE ExtAssumption DEF EInv
<1>1. s \in Socks /\ net[s] \in InUse
  BY DEF TypeOK, SocketOwnership, HasSock
<1>2. /\ sock' = [sock EXCEPT ![h] = NoSock]
      /\ state' = [state EXCEPT ![h] = EXT_SOCK_FREE]
      /\ pendingConnect' = [pendingConnect EXCEPT ![h] = FALSE]
  BY DEF ExtClose, FreeEntry
<1>3. \/ /\ net' = [net EXCEPT ![s] = "closing"]
         /\ closing' = closing \cup {s}
      \/ net' = [net EXCEPT ![s] = "free"] /\ closing' = closing
  BY DEF ExtClose, CloseFast
<1>4. TypeOK'
  BY <1>1, <1>2, <1>3 DEF TypeOK, NetStates
<1>5. EmptySlotClean'
  BY <1>2 DEF EmptySlotClean, HasSock, TypeOK
<1>6. SocketOwnership'
  <2>1. /\ \A g \in Handles : HasSock(g)' => net'[sock'[g]] \in InUse
        /\ \A f, g \in Handles : sock'[f] = sock'[g] => f = g \/ ~HasSock(f)'
    BY <1>1, <1>2, <1>3 DEF TypeOK, SocketOwnership, HasSock
  <2>2. \A t \in Socks : net'[t] \in InUse => \E g \in Handles : sock'[g] = t
    BY <1>1, <1>2, <1>3 DEF TypeOK, SocketOwnership, HasSock, InUse
  <2>3. \A t \in Socks : t \in closing' <=> net'[t] \in {"closing", "done"}
    BY <1>1, <1>3 DEF TypeOK, SocketOwnership, InUse
  <2> QED  BY <2>1, <2>2, <2>3 DEF SocketOwnership, HasSock
<1> QED  BY <1>4, <1>5, <1>6

\* An entry whose socket stays.
LEMMA ExtTrackEInv ==
  ASSUME EInv, NEW h \in Handles, HasSock(h), NEW a \in Attempts(h), ExtTrack(h, a),
         poll' \in [phase : {"idle", "ext"}, i : Handles], UNCHANGED <<result, data>>
  PROVE  EInv'
<1> DEFINE s == sock[h]
<1> USE ExtAssumption DEF EInv
<1>1. s \in Socks /\ net[s] \in InUse
  BY DEF TypeOK, SocketOwnership, HasSock
<1>2. a.state \in 0 .. 5 /\ a.net \in InUse
  BY AttemptsType
<1>3. Tracked(a.state, a.net, data[s]) \in 0 .. 5
  BY <1>2 DEF Tracked
<1>4. /\ net' = [net EXCEPT ![s] = a.net]
      /\ state' = [state EXCEPT ![h] = Tracked(a.state, a.net, data[s])]
      /\ pendingConnect' = [pendingConnect EXCEPT ![h] = FALSE]
      /\ UNCHANGED <<sock, closing>>
  BY DEF ExtTrack
<1>5. TypeOK'
  BY <1>1, <1>2, <1>3, <1>4 DEF TypeOK, NetStates
<1>6. SocketOwnership'
  BY <1>1, <1>2, <1>4 DEF TypeOK, SocketOwnership, HasSock, InUse
<1>7. EmptySlotClean'
  BY <1>4 DEF TypeOK, EmptySlotClean, HasSock
<1> QED  BY <1>5, <1>6, <1>7

\* One entry of step 3.
LEMMA PollStepEInv == EInv /\ PollStep => EInv'
<1> SUFFICES ASSUME EInv, PollStep PROVE EInv'  OBVIOUS
<1>1. CASE ExtEmpty
  <2>1. poll' \in [phase : {"idle", "ext"}, i : Handles]
    BY <1>1, NextHandleType DEF ExtEmpty, EInv
  <2>2. UNCHANGED <<tableVars, result, netVars>>
    BY <1>1 DEF ExtEmpty
  <2> QED
    BY <2>1, <2>2
    DEF EInv, TypeOK, SocketOwnership, EmptySlotClean, HasSock, tableVars, netVars
<1>2. CASE ExtService
  <2>1. poll' \in [phase : {"idle", "ext"}, i : Handles] /\ UNCHANGED <<result, data>>
    BY <1>2, NextHandleType DEF ExtService, EInv
  <2>2. poll.i \in Handles /\ HasSock(poll.i)
    BY <1>2 DEF ExtService, EInv, TypeOK, HasSock
  <2>3. PICK a \in Attempts(poll.i) : ExtClose(poll.i, a) \/ ExtTrack(poll.i, a)
    BY <1>2 DEF ExtService
  <2> QED  BY <2>1, <2>2, <2>3, ExtCloseEInv, ExtTrackEInv
<1> QED  BY <1>1, <1>2 DEF PollStep

\* MUX_SOCK_ALLOC gives a free socket to an empty entry (int8.c:328).
LEMMA AllocEInv == ASSUME EInv, NEW h \in Handles, AllocGives(h) PROVE EInv'
<1> USE ExtAssumption DEF EInv
<1>1. ~HasSock(h)
  BY DEF AllocGives, IsFirst, FreeSlots
<1>2. PICK s \in Socks : /\ net[s] = "free"
                         /\ sock' = [sock EXCEPT ![h] = s]
                         /\ net' = [net EXCEPT ![s] = "fresh"]
                         /\ data' = [data EXCEPT ![s] = FALSE]
  BY DEF AllocGives
<1>3. /\ state' = [state EXCEPT ![h] = EXT_SOCK_FREE]
      /\ result' = h
      /\ UNCHANGED <<poll, pendingConnect, closing>>
  BY DEF AllocGives
<1>4. s # NoSock /\ \A g \in Handles : sock[g] # s
  BY <1>2 DEF TypeOK, SocketOwnership, HasSock, InUse
<1>5. TypeOK'
  BY <1>2, <1>3 DEF TypeOK, NetStates, InUse, Handles
<1>6. SocketOwnership'
  BY <1>1, <1>2, <1>3, <1>4 DEF TypeOK, SocketOwnership, HasSock, InUse
<1>7. EmptySlotClean'
  BY <1>2, <1>3, <1>4 DEF TypeOK, EmptySlotClean, HasSock
<1> QED  BY <1>5, <1>6, <1>7

\* The calls that change no socket and at most the state of an entry that has one.
LEMMA CallEInv ==
  ASSUME EInv, NEW h \in Handles,
         MuxConnect(h) \/ MuxStatus(h) \/ MuxSend(h)
           \/ MuxRecv(h) \/ MuxRecvReady(h) \/ MuxClose(h)
  PROVE  EInv'
<1> USE ExtAssumption DEF EInv, tableVars, netVars
<1>1. CASE MuxConnect(h)
  <2>1. \/ /\ HasSock(h)
           /\ pendingConnect' = [pendingConnect EXCEPT ![h] = TRUE]
           /\ state' = [state EXCEPT ![h] = EXT_SOCK_CONNECTING]
        \/ pendingConnect' = pendingConnect /\ state' = state
    BY <1>1 DEF MuxConnect
  <2>2. result' \in Nat /\ UNCHANGED <<poll, sock, net, data, closing>>
    BY <1>1 DEF MuxConnect, Failed
  <2>3. TypeOK'
    <3>1. state' \in [Handles -> 0 .. 5]
      BY <2>1 DEF TypeOK
    <3>2. pendingConnect' \in [Handles -> BOOLEAN]
      BY <2>1 DEF TypeOK
    <3> QED  BY <2>2, <3>1, <3>2 DEF TypeOK
  <2>4. SocketOwnership'
    BY <2>2 DEF SocketOwnership, HasSock
  <2>5. EmptySlotClean'
    <3> SUFFICES ASSUME NEW g \in Handles, ~HasSock(g)'
                 PROVE  state'[g] = EXT_SOCK_FREE /\ ~pendingConnect'[g]
      BY DEF EmptySlotClean
    <3>1. ~HasSock(g)
      BY <2>2 DEF HasSock
    <3>2. state[g] = EXT_SOCK_FREE /\ ~pendingConnect[g]
      BY <3>1 DEF EmptySlotClean
    <3>3. CASE pendingConnect' = pendingConnect /\ state' = state
      BY <3>2, <3>3
    <3>4. CASE /\ HasSock(h)
               /\ pendingConnect' = [pendingConnect EXCEPT ![h] = TRUE]
               /\ state' = [state EXCEPT ![h] = EXT_SOCK_CONNECTING]
      BY <3>1, <3>2, <3>4 DEF TypeOK
    <3> QED  BY <2>1, <3>3, <3>4
  <2> QED  BY <2>3, <2>4, <2>5
<1>2. CASE MuxStatus(h)
  <2>1. Status(h) \in 0 .. 5
    BY DEF Status, TypeOK
  <2> QED
    BY <1>2, <2>1 DEF MuxStatus, TypeOK, SocketOwnership, EmptySlotClean, HasSock
<1>3. CASE MuxSend(h)
  BY <1>3 DEF MuxSend, TypeOK, SocketOwnership, EmptySlotClean, HasSock
<1>4. CASE MuxRecv(h)
  BY <1>4 DEF MuxRecv, TypeOK, SocketOwnership, EmptySlotClean, HasSock
<1>5. CASE MuxRecvReady(h)
  BY <1>5 DEF MuxRecvReady, TypeOK, SocketOwnership, EmptySlotClean, HasSock
<1>6. CASE MuxClose(h)
  BY <1>6 DEF MuxClose, TypeOK, SocketOwnership, EmptySlotClean, HasSock
<1> QED  BY <1>1, <1>2, <1>3, <1>4, <1>5, <1>6

LEMMA StepEInv == EInv /\ [Next]_extVars => EInv'
<1> SUFFICES ASSUME EInv, [Next]_extVars PROVE EInv'  OBVIOUS
<1>1. CASE Network    BY <1>1, NetworkEInv
<1>2. CASE StartPoll  BY <1>2, StartPollEInv
<1>3. CASE PollStep   BY <1>3, PollStepEInv
<1>4. CASE AllocFails
  BY <1>4 DEF AllocFails, EInv, TypeOK, SocketOwnership, EmptySlotClean, HasSock,
              Failed, tableVars, netVars
<1>5. CASE \E h \in Handles : AllocGives(h)
  BY <1>5, AllocEInv
<1>6. CASE \E h \in Handles : \/ MuxConnect(h) \/ MuxStatus(h) \/ MuxSend(h)
                              \/ MuxRecv(h) \/ MuxRecvReady(h) \/ MuxClose(h)
  BY <1>6, CallEInv
<1>7. CASE UNCHANGED extVars
  BY <1>7 DEF EInv, TypeOK, SocketOwnership, EmptySlotClean, HasSock,
              extVars, tableVars, netVars
<1> QED  BY <1>1, <1>2, <1>3, <1>4, <1>5, <1>6, <1>7 DEF Next

LEMMA EInvHolds == Spec => []EInv
BY InitEInv, StepEInv, PTL DEF Spec

\* Every variable keeps its type and step 3 of the poll stays within the table
\* (poll.c:585), for every number of handles.
THEOREM ExtTypeCorrect == Spec => []TypeOK
<1>1. EInv => TypeOK  BY DEF EInv
<1> QED  BY <1>1, EInvHolds, PTL

\* A socket taken from mTCP is in exactly one place, whatever clients call and
\* whenever a poll comes between: nothing is closed twice or lost (poll.c:608).
THEOREM ExtSocketsOwned == Spec => []SocketOwnership
<1>1. EInv => SocketOwnership  BY DEF EInv
<1> QED  BY <1>1, EInvHolds, PTL

\* An entry without a socket carries no connect that is still to be done, so that
\* MUX_SOCK_ALLOC need not clear it (int8.c:351).
THEOREM SlotsClean == Spec => []EmptySlotClean
<1>1. EInv => EmptySlotClean  BY DEF EInv
<1> QED  BY <1>1, EInvHolds, PTL

----------------------------------------------------------------------------
(***************************************************************************)
(* Programs that use the library.                                          *)
(***************************************************************************)
ClientType ==
    /\ allocated \in [Handles -> BOOLEAN] /\ fd \in Handles
    /\ raw \in BOOLEAN /\ left \subseteq Handles

\* The descriptor of the call that is under way is the program's own.
InCallOwnsFd == pc # "app" => allocated[fd]

\* Descriptors are the library's, and their slots were given to this program.
OwnSlots == \A g \in Handles : allocated[g] => ~raw /\ g \notin left

\* A connect that is still to be tried belongs to the connect() under way, which
\* waits for the poll that will try it, or to a slot left by another program.
PollWillTry(g) == \/ pc = "connectIdle"
                  \/ (pc = "connectPoll" /\ poll.phase = "ext" /\ poll.i <= g)
ConnectsToCome == \A g \in Handles : pendingConnect[g] =>
                      raw \/ g \in left \/ (g = fd /\ PollWillTry(g))

\* recv() asks for the state right after it found nothing to read.
ReadToEnd == pc = "recvStatus" => poll.phase = "idle" /\ ~data[sock[fd]]

Clients == /\ ClientType /\ InCallOwnsFd /\ OwnSlots /\ ConnectsToCome
           /\ ReadToEnd /\ FdHasSlot
VInv == EInv /\ Clients

LEMMA SlotTypes ==
    ASSUME EInv
    PROVE  /\ sock \in [Handles -> Socks \cup {NoSock}]
           /\ state \in [Handles -> 0 .. 5]
           /\ pendingConnect \in [Handles -> BOOLEAN]
           /\ poll \in [phase : {"idle", "ext"}, i : Handles]
           /\ NoSock \notin Socks
BY ExtAssumption DEF EInv, TypeOK

\* Whatever a program does, the TSR makes a step of its own or none.
LEMMA ProgramIsClient == fd \in Handles /\ VNext => [Next]_extVars
<1> SUFFICES ASSUME fd \in Handles, VNext PROVE [Next]_extVars
  OBVIOUS
<1>1. CASE Network \/ PollStep
  BY <1>1 DEF Next
<1>2. CASE RawCall
  BY <1>2 DEF RawCall, Next
<1>3. CASE ProgramEnds \/ (\E g \in Handles : Send(g))
  BY <1>3 DEF ProgramEnds, Send
<1>4. CASE Socket
  BY <1>4 DEF Socket, Next
<1>5. CASE StartPoll
  BY <1>5 DEF Next
<1>6. ASSUME NEW g \in Handles,
             \/ MuxConnect(g) \/ MuxStatus(g) \/ MuxSend(g)
             \/ MuxRecv(g) \/ MuxRecvReady(g) \/ MuxClose(g)
      PROVE  [Next]_extVars
  BY <1>6 DEF Next
<1> QED
  BY <1>1, <1>2, <1>3, <1>4, <1>5, <1>6
  DEF VNext, Program, InCall, OtherPoll, ConnectPolls, PollThen, SendPolls, Recv,
      DataReady, Connect, CloseSocket, ConnectStatus, ConnectTimeout, SendChunk,
      SendStatus, RecvRead, RecvStatus, ReadyResult

----------------------------------------------------------------------------
(***************************************************************************)
(* Polls and the network.                                                  *)
(***************************************************************************)
LEMMA NetworkClients == VInv /\ Network /\ UNCHANGED clientVars => Clients'
<1> SUFFICES ASSUME VInv, Network, UNCHANGED clientVars PROVE Clients'
  OBVIOUS
<1>1. /\ UNCHANGED <<poll, sock, state, pendingConnect>>
      /\ UNCHANGED <<allocated, pc, fd, raw, left>> /\ poll.phase # "idle"
  BY DEF Network, NetMove, DataArrives, tableVars, clientVars
<1> QED
  BY <1>1 DEF VInv, Clients, ClientType, InCallOwnsFd, OwnSlots, ConnectsToCome,
              PollWillTry, ReadToEnd, FdHasSlot, HasSock

\* Step 3 comes to every entry behind the present one (poll.c:585).
LEMMA NextReaches ==
    ASSUME EInv, poll.phase = "ext", NEW g \in Handles, poll.i < g
    PROVE  NextHandle.phase = "ext" /\ NextHandle.i <= g
<1>1. poll.i \in Nat /\ g \in Nat /\ g < NHandles /\ NHandles \in Nat
  BY SlotTypes, ExtAssumption DEF Handles
<1>2. poll.i + 1 < NHandles /\ poll.i + 1 <= g
  BY <1>1
<1>3. NextHandle = [phase |-> poll.phase, i |-> poll.i + 1]
  BY <1>2, SlotTypes DEF NextHandle
<1> QED
  BY <1>2, <1>3

\* An entry whose descriptor was closed is not one that a failing connect marks.
LEMMA ClosingHasNoConnect ==
    ASSUME VInv, NEW h \in Handles, ~allocated[h], ~raw, h \notin left
    PROVE  ~pendingConnect[h]
BY DEF VInv, Clients, ConnectsToCome, PollWillTry, InCallOwnsFd

LEMMA ServiceClients ==
    ASSUME VInv, NEW h \in Handles, h = poll.i, HasSock(h), NEW a \in Attempts(h),
           ExtClose(h, a) \/ ExtTrack(h, a), poll.phase = "ext", poll' = NextHandle,
           UNCHANGED <<data, clientVars>>
    PROVE  Clients'
<1> USE DEF VInv, Clients
<1>1. UNCHANGED <<allocated, pc, fd, raw, left>>
  BY DEF clientVars
<1>2. /\ pendingConnect' = [pendingConnect EXCEPT ![h] = FALSE]
      /\ \A g \in Handles : g # h => sock'[g] = sock[g] /\ state'[g] = state[g]
  BY SlotTypes DEF ExtClose, ExtTrack, FreeEntry
<1>3. ClientType' /\ InCallOwnsFd' /\ OwnSlots'
  BY <1>1 DEF ClientType, InCallOwnsFd, OwnSlots
<1>4. ReadToEnd'
  BY <1>1 DEF ReadToEnd
<1>5. ConnectsToCome'
  <2> SUFFICES ASSUME NEW g \in Handles, pendingConnect'[g], ~raw, g \notin left
               PROVE  g = fd /\ PollWillTry(g)'
    BY <1>1 DEF ConnectsToCome
  <2>1. g # h /\ pendingConnect[g]
    BY <1>2, SlotTypes
  <2>2. g = fd /\ PollWillTry(g)
    BY <2>1 DEF ConnectsToCome
  <2>3. CASE pc = "connectIdle"
    BY <1>1, <2>2, <2>3 DEF PollWillTry
  <2>4. CASE pc = "connectPoll" /\ poll.i <= g
    <3>1. poll.i < g
      BY <2>1, <2>4, SlotTypes DEF Handles
    <3> QED
      BY <1>1, <2>2, <2>4, <3>1, NextReaches DEF PollWillTry
  <2> QED
    BY <2>2, <2>3, <2>4 DEF PollWillTry
<1>6. FdHasSlot'
  <2>1. ASSUME NEW g \in Handles, g # h
        PROVE  IF allocated'[g] THEN HasSock(g)' /\ state'[g] # EXT_SOCK_CLOSING
               ELSE HasSock(g)' => raw' \/ g \in left' \/ state'[g] = EXT_SOCK_CLOSING
    BY <1>1, <1>2, <2>1 DEF FdHasSlot, HasSock
  <2>2. CASE ExtClose(h, a)
    <3>1. state[h] = EXT_SOCK_CLOSING
      BY <2>2 DEF ExtClose, Attempts
    <3>2. ~allocated[h] /\ ~HasSock(h)'
      BY <2>2, <3>1, SlotTypes DEF FdHasSlot, ExtClose, FreeEntry, HasSock
    <3> QED
      BY <1>1, <2>1, <3>2 DEF FdHasSlot
  <2>3. CASE ExtTrack(h, a)
    <3>1. /\ sock' = sock /\ a.state # EXT_SOCK_CLOSING
          /\ state'[h] = Tracked(a.state, a.net, data[sock[h]])
      BY <2>3, SlotTypes DEF ExtTrack
    <3>2. state'[h] # EXT_SOCK_CLOSING
      BY <3>1 DEF Tracked
    <3>3. ~allocated[h] => raw \/ h \in left
      <4> SUFFICES ASSUME ~allocated[h], ~raw, h \notin left PROVE FALSE
        OBVIOUS
      <4>1. ~pendingConnect[h]
        BY ClosingHasNoConnect
      <4>2. a.state = state[h]
        BY <4>1 DEF Attempts
      <4> QED
        BY <3>1, <4>2 DEF FdHasSlot
    <3>4. HasSock(h)'
      BY <3>1 DEF HasSock
    <3> QED
      BY <1>1, <2>1, <3>2, <3>3, <3>4 DEF FdHasSlot
  <2> QED
    BY <2>2, <2>3
<1> QED
  BY <1>3, <1>4, <1>5, <1>6

LEMMA PollStepClients == VInv /\ PollStep /\ UNCHANGED clientVars => Clients'
<1> SUFFICES ASSUME VInv, PollStep, UNCHANGED clientVars PROVE Clients'
  OBVIOUS
<1> USE DEF VInv
<1>0. poll.i \in Handles
  BY SlotTypes
<1>1. CASE ExtService
  <2>1. PICK a \in Attempts(poll.i) : ExtClose(poll.i, a) \/ ExtTrack(poll.i, a)
    BY <1>1 DEF ExtService
  <2> QED
    BY <1>0, <1>1, <2>1, ServiceClients DEF ExtService, HasSock
<1>2. CASE ExtEmpty
  <2> USE DEF Clients
  <2>1. /\ UNCHANGED <<sock, state, pendingConnect, data>>
        /\ UNCHANGED <<allocated, pc, fd, raw, left>>
        /\ poll.phase = "ext" /\ sock[poll.i] = NoSock /\ poll' = NextHandle
    BY <1>2 DEF ExtEmpty, tableVars, netVars, clientVars
  <2>2. ClientType' /\ InCallOwnsFd' /\ OwnSlots' /\ FdHasSlot'
    BY <2>1 DEF ClientType, InCallOwnsFd, OwnSlots, FdHasSlot, HasSock
  <2>3. ReadToEnd'
    BY <2>1 DEF ReadToEnd
  <2>4. ConnectsToCome'
    <3> SUFFICES ASSUME NEW g \in Handles, pendingConnect[g], ~raw, g \notin left
                 PROVE  g = fd /\ PollWillTry(g)'
      BY <2>1 DEF ConnectsToCome
    <3>1. g = fd /\ PollWillTry(g)
      BY DEF ConnectsToCome
    <3>2. g # poll.i
      BY <2>1 DEF EInv, EmptySlotClean, HasSock
    <3>3. CASE pc = "connectIdle"
      BY <2>1, <3>1, <3>3 DEF PollWillTry
    <3>4. CASE pc = "connectPoll" /\ poll.i <= g
      <4>1. poll.i < g
        BY <3>2, <3>4, SlotTypes DEF Handles
      <4> QED
        BY <2>1, <3>1, <3>4, <4>1, NextReaches DEF PollWillTry
    <3> QED
      BY <3>1, <3>3, <3>4 DEF PollWillTry
  <2> QED
    BY <2>2, <2>3, <2>4
<1> QED
  BY <1>1, <1>2 DEF PollStep

\* A poll begins, in a call of the library or between two.
LEMMA StartPollClients ==
    ASSUME VInv, StartPoll, UNCHANGED <<allocated, raw, left>>, fd' \in Handles,
           pc' # "app" => allocated[fd'], pc' # "recvStatus",
           pc = "connectIdle" => pc' = "connectPoll" /\ fd' = fd
    PROVE  Clients'
<1> USE DEF VInv, Clients
<1>1. /\ UNCHANGED <<sock, state, pendingConnect>> /\ poll.phase = "idle"
      /\ poll'.phase = "ext" /\ poll'.i = 0
  BY DEF StartPoll, tableVars, Idle
<1>2. ClientType' /\ InCallOwnsFd' /\ OwnSlots' /\ FdHasSlot' /\ ReadToEnd'
  BY <1>1 DEF ClientType, InCallOwnsFd, OwnSlots, FdHasSlot, ReadToEnd, HasSock
<1>3. ConnectsToCome'
  <2> SUFFICES ASSUME NEW g \in Handles, pendingConnect[g], ~raw, g \notin left
               PROVE  g = fd' /\ PollWillTry(g)'
    BY <1>1 DEF ConnectsToCome
  <2>1. g = fd /\ pc = "connectIdle"
    BY <1>1 DEF ConnectsToCome, PollWillTry
  <2> QED
    BY <1>1, <2>1 DEF PollWillTry, Handles
<1> QED
  BY <1>2, <1>3

----------------------------------------------------------------------------
(***************************************************************************)
(* The calls of a program.                                                 *)
(***************************************************************************)
\* A call that leaves the table alone.
LEMMA QuietClients ==
    ASSUME VInv, UNCHANGED <<poll, tableVars, allocated, raw, left>>,
           fd' \in Handles, pc' # "app" => allocated[fd'],
           pc \notin {"connectIdle", "connectPoll"},
           pc' = "recvStatus" => poll.phase = "idle" /\ ~data'[sock[fd']]
    PROVE  Clients'
BY DEF VInv, Clients, ClientType, InCallOwnsFd, OwnSlots, ConnectsToCome,
       PollWillTry, ReadToEnd, FdHasSlot, HasSock, tableVars

\* The state of the descriptor is asked for, and written back.
LEMMA StatusClients ==
    ASSUME VInv, MuxStatus(fd), allocated[fd],
           UNCHANGED <<allocated, fd, raw, left>>,
           pc \notin {"connectIdle", "connectPoll"}, pc' # "recvStatus"
    PROVE  Clients'
<1> USE DEF VInv, Clients
<1>1. fd \in Handles /\ HasSock(fd) /\ state[fd] # EXT_SOCK_CLOSING
  BY DEF ClientType, FdHasSlot
<1>2. /\ state' = [state EXCEPT ![fd] = Status(fd)]
      /\ UNCHANGED <<poll, sock, pendingConnect>>
  BY <1>1 DEF MuxStatus
<1>3. Status(fd) # EXT_SOCK_CLOSING
  BY <1>1 DEF Status
<1>4. /\ state'[fd] # EXT_SOCK_CLOSING
      /\ \A g \in Handles : g # fd => state'[g] = state[g]
  BY <1>1, <1>2, <1>3, SlotTypes
<1>5. FdHasSlot'
  BY <1>1, <1>2, <1>4 DEF FdHasSlot, HasSock
<1>6. ClientType' /\ InCallOwnsFd' /\ OwnSlots' /\ ReadToEnd'
  BY DEF ClientType, InCallOwnsFd, OwnSlots, ReadToEnd
<1>7. ConnectsToCome'
  BY <1>2 DEF ConnectsToCome, PollWillTry
<1> QED
  BY <1>5, <1>6, <1>7

\* closesocket(), and connect() after its time-out.
LEMMA CloseClients ==
    ASSUME VInv, NEW g \in Handles, allocated[g], MuxClose(g),
           allocated' = [allocated EXCEPT ![g] = FALSE], pc' = "app",
           fd' \in Handles, pc \notin {"connectIdle", "connectPoll"},
           UNCHANGED <<raw, left>>
    PROVE  Clients'
<1> USE DEF VInv, Clients
<1>1. HasSock(g)
  BY DEF FdHasSlot
<1>2. /\ state' = [state EXCEPT ![g] = EXT_SOCK_CLOSING]
      /\ UNCHANGED <<poll, sock, pendingConnect>>
  BY <1>1 DEF MuxClose
<1>3. /\ state'[g] = EXT_SOCK_CLOSING /\ ~allocated'[g]
      /\ \A h \in Handles : h # g => /\ state'[h] = state[h]
                                     /\ allocated'[h] = allocated[h]
  BY <1>2, SlotTypes DEF ClientType
<1>4. FdHasSlot'
  BY <1>2, <1>3 DEF FdHasSlot, HasSock
<1>5. ClientType' /\ InCallOwnsFd' /\ ReadToEnd'
  BY DEF ClientType, InCallOwnsFd, ReadToEnd
<1>6. OwnSlots'
  BY DEF OwnSlots
<1>7. ConnectsToCome'
  BY <1>2 DEF ConnectsToCome, PollWillTry
<1> QED
  BY <1>4, <1>5, <1>6, <1>7

LEMMA ConnectClients == ASSUME VInv, NEW g \in Handles, Connect(g) PROVE Clients'
<1> USE DEF VInv, Clients
<1>1. /\ pc = "app" /\ allocated[g] /\ pc' = "connectIdle" /\ fd' = g
      /\ UNCHANGED <<allocated, raw, left>>
  BY DEF Connect, Call
<1>2. HasSock(g)
  BY <1>1 DEF FdHasSlot
<1>3. /\ state' = [state EXCEPT ![g] = EXT_SOCK_CONNECTING]
      /\ pendingConnect' = [pendingConnect EXCEPT ![g] = TRUE]
      /\ UNCHANGED <<poll, sock>>
  BY <1>2 DEF Connect, MuxConnect
<1>4. /\ state'[g] # EXT_SOCK_CLOSING
      /\ \A h \in Handles : h # g => /\ state'[h] = state[h]
                                     /\ pendingConnect'[h] = pendingConnect[h]
  BY <1>3, SlotTypes
<1>5. FdHasSlot'
  BY <1>1, <1>2, <1>3, <1>4 DEF FdHasSlot, HasSock
<1>6. ClientType' /\ InCallOwnsFd' /\ OwnSlots' /\ ReadToEnd'
  BY <1>1 DEF ClientType, InCallOwnsFd, OwnSlots, ReadToEnd
<1>7. ConnectsToCome'
  BY <1>1, <1>4 DEF ConnectsToCome, PollWillTry
<1> QED
  BY <1>5, <1>6, <1>7

\* socket(): the slot that MUX_SOCK_ALLOC gives is empty and carries no connect.
LEMMA SocketClients == VInv /\ Socket => Clients'
<1> SUFFICES ASSUME VInv, Socket PROVE Clients'
  OBVIOUS
<1> USE DEF VInv, Clients
<1>1. CASE AllocFails /\ Return("fail") /\ UNCHANGED allocated
  BY <1>1, QuietClients DEF AllocFails, Return, Socket, ClientType
<1>2. CASE \E g \in Handles :
            /\ AllocGives(g)
            /\ allocated' = [allocated EXCEPT ![g] = TRUE]
            /\ left' = left \ {g}
            /\ pc' = "app" /\ ret' = "ok" /\ UNCHANGED <<fd, raw>>
  <2>1. PICK g \in Handles :
            /\ AllocGives(g)
            /\ allocated' = [allocated EXCEPT ![g] = TRUE]
            /\ left' = left \ {g}
            /\ pc' = "app" /\ UNCHANGED <<fd, raw>>
    BY <1>2
  <2>2. PICK s \in Socks : sock' = [sock EXCEPT ![g] = s]
    BY <2>1 DEF AllocGives
  <2>3. /\ state' = [state EXCEPT ![g] = EXT_SOCK_FREE] /\ pc = "app" /\ ~raw
        /\ UNCHANGED <<poll, pendingConnect>> /\ ~HasSock(g)
    BY <2>1 DEF AllocGives, Socket, IsFirst, FreeSlots
  <2>4. /\ HasSock(g)' /\ state'[g] # EXT_SOCK_CLOSING /\ allocated'[g]
        /\ \A h \in Handles : h # g =>
              /\ sock'[h] = sock[h] /\ state'[h] = state[h]
              /\ allocated'[h] = allocated[h]
    BY <2>1, <2>2, <2>3, SlotTypes DEF HasSock, ClientType
  <2>5. FdHasSlot'
    BY <2>1, <2>4 DEF FdHasSlot, HasSock
  <2>6. ClientType' /\ InCallOwnsFd' /\ OwnSlots' /\ ReadToEnd'
    BY <2>1, <2>3 DEF ClientType, InCallOwnsFd, OwnSlots, ReadToEnd
  <2>7. ConnectsToCome'
    BY <2>1, <2>3 DEF ConnectsToCome, PollWillTry, EInv, EmptySlotClean
  <2> QED
    BY <2>5, <2>6, <2>7
<1> QED
  BY <1>1, <1>2 DEF Socket

\* A utility without the library, and the end of a program.
LEMMA RawClients == VInv /\ RawCall => Clients'
BY DEF VInv, Clients, RawCall, clientVars, ClientType, InCallOwnsFd, OwnSlots,
       ConnectsToCome, ReadToEnd, FdHasSlot

LEMMA EndsClients == VInv /\ ProgramEnds => Clients'
<1> SUFFICES ASSUME VInv, ProgramEnds PROVE Clients'
  OBVIOUS
<1>1. /\ UNCHANGED <<sock, state, pendingConnect>> /\ pc' = "app" /\ fd' = 0
      /\ allocated' = [g \in Handles |-> FALSE]
      /\ raw' = FALSE /\ left' = {g \in Handles : HasSock(g)}
  BY DEF ProgramEnds, extVars, tableVars
<1>2. fd' \in Handles
  BY <1>1, ExtAssumption DEF Handles
<1>3. ConnectsToCome'
  BY <1>1 DEF VInv, EInv, EmptySlotClean, ConnectsToCome
<1> QED
  BY <1>1, <1>2, <1>3 DEF Clients, ClientType, InCallOwnsFd, OwnSlots, ReadToEnd,
                          FdHasSlot, HasSock

LEMMA ProgramClients == VInv /\ Program => Clients'
<1> SUFFICES ASSUME VInv, Program PROVE Clients'
  OBVIOUS
<1>0. fd \in Handles /\ (pc # "app" => allocated[fd])
  BY DEF VInv, Clients, ClientType, InCallOwnsFd
<1>1. CASE RawCall \/ ProgramEnds \/ Socket
  BY <1>1, RawClients, EndsClients, SocketClients
<1>2. CASE ConnectPolls \/ SendPolls
  BY <1>0, <1>2, StartPollClients DEF ConnectPolls, SendPolls, PollThen, Goto
<1>3. CASE ConnectStatus \/ SendStatus \/ RecvStatus
  BY <1>0, <1>3, StatusClients
  DEF ConnectStatus, SendStatus, RecvStatus, Return, Goto
<1>4. CASE ConnectTimeout
  BY <1>0, <1>4, CloseClients DEF ConnectTimeout, Return
<1>5. CASE SendChunk \/ ReadyResult
  <2>1. UNCHANGED <<poll, tableVars>>
    BY <1>5 DEF SendChunk, MuxSend, ReadyResult, MuxRecvReady
  <2>2. UNCHANGED <<allocated, fd, raw, left>> /\ pc \in {"send", "ready"}
        /\ pc' # "recvStatus"
    BY <1>5 DEF SendChunk, ReadyResult, Return, Goto
  <2> QED
    BY <1>0, <2>1, <2>2, QuietClients
<1>6. CASE RecvRead
  <2>1. /\ pc = "recv" /\ MuxRecv(fd) /\ UNCHANGED <<allocated, fd, raw, left>>
        /\ poll.phase = "idle"
    BY <1>6 DEF RecvRead, Return, Goto, MuxRecv, CanCall, Idle
  <2>2. HasSock(fd)
    BY <1>0, <2>1 DEF VInv, Clients, FdHasSlot
  <2>3. pc' = "recvStatus" => ~data'[sock[fd']]
    BY <1>6, <2>1, <2>2 DEF RecvRead, Return, MuxRecv
  <2>4. UNCHANGED <<poll, tableVars>>
    BY <2>1 DEF MuxRecv
  <2> QED
    BY <1>0, <2>1, <2>3, <2>4, QuietClients
<1>7. ASSUME NEW g \in Handles,
             Connect(g) \/ Send(g) \/ Recv(g) \/ DataReady(g) \/ CloseSocket(g)
      PROVE  Clients'
  <2>1. CASE Connect(g)
    BY <2>1, ConnectClients
  <2>2. CASE Send(g)
    BY <2>2, QuietClients DEF Send, Call, extVars
  <2>3. CASE Recv(g) \/ DataReady(g)
    BY <2>3, StartPollClients DEF Recv, DataReady, Call
  <2>4. CASE CloseSocket(g)
    BY <2>4, CloseClients DEF CloseSocket, Call
  <2> QED
    BY <1>7, <2>1, <2>2, <2>3, <2>4
<1> QED
  BY <1>1, <1>2, <1>3, <1>4, <1>5, <1>6, <1>7 DEF Program, InCall

----------------------------------------------------------------------------
LEMMA InitVInv == VInit => VInv
<1> SUFFICES ASSUME VInit PROVE VInv
  OBVIOUS
<1>1. EInv
  BY InitEInv DEF VInit
<1>2. Clients
  BY ExtAssumption
  DEF VInit, Init, Clients, ClientType, InCallOwnsFd, OwnSlots, ConnectsToCome,
      ReadToEnd, FdHasSlot, HasSock, Handles
<1> QED
  BY <1>1, <1>2 DEF VInv

LEMMA NextVInv == VInv /\ [VNext]_vars => VInv'
<1> SUFFICES ASSUME VInv, [VNext]_vars PROVE VInv'
  OBVIOUS
<1>0. fd \in Handles /\ (pc # "app" => allocated[fd])
  BY DEF VInv, Clients, ClientType, InCallOwnsFd
<1>1. EInv'
  BY <1>0, ProgramIsClient, StepEInv DEF VInv, vars
<1>2. Clients'
  <2>1. CASE UNCHANGED vars
    BY <2>1 DEF vars, extVars, tableVars, netVars, clientVars, VInv, Clients,
                ClientType, InCallOwnsFd, OwnSlots, ConnectsToCome, PollWillTry,
                ReadToEnd, FdHasSlot, HasSock
  <2>2. CASE (Network \/ PollStep) /\ UNCHANGED clientVars
    BY <2>2, NetworkClients, PollStepClients
  <2>3. CASE Program
    BY <2>3, ProgramClients
  <2>4. CASE OtherPoll
    BY <1>0, <2>4, StartPollClients DEF OtherPoll, clientVars
  <2> QED
    BY <2>1, <2>2, <2>3, <2>4 DEF VNext
<1> QED
  BY <1>1, <1>2 DEF VInv

LEMMA AlwaysVInv == VSpec => []VInv
BY InitVInv, NextVInv, PTL DEF VSpec

\* The TSR's table stays sound under programs that use the library as under any
\* others: no socket is shared or lost, and no empty slot carries a connect
\* (poll.c:608, int8.c:351).
THEOREM LibraryKeepsTable == VSpec => [](TypeOK /\ SocketOwnership /\ EmptySlotClean)
<1>1. VInv => TypeOK /\ SocketOwnership /\ EmptySlotClean
  BY DEF VInv, EInv
<1> QED
  BY <1>1, AlwaysVInv, PTL

\* A descriptor has a slot of its own and a slot that no descriptor holds is on
\* its way back, whatever earlier programs left behind and however a call ended
\* (vsocket.c:25 and 301).
THEOREM DescriptorsHaveSlots == VSpec => []FdHasSlot
<1>1. VInv => FdHasSlot
  BY DEF VInv, Clients
<1> QED
  BY <1>1, AlwaysVInv, PTL

\* connect() reports a refusal only once the TSR has tried to connect
\* (vsocket.c:292): two polls lie between the request and the first look.
THEOREM RefusalsAreReal == VSpec => RefusalIsReal
<1>1. VInv /\ [VNext]_vars =>
        [(pc = "connectStatus" /\ pc' = "app" /\ ret' = "fail")
            => ~pendingConnect[fd]]_vars
  BY DEF VInv, Clients, ClientType, InCallOwnsFd, OwnSlots, ConnectsToCome, PollWillTry
<1> QED
  BY <1>1, AlwaysVInv, PTL DEF VSpec, RefusalIsReal

\* recv() reports the end of a connection only when nothing that arrived is left
\* to read: no poll comes between its two calls of the TSR (vsocket.c:374).
THEOREM EofAfterLastByte == VSpec => EofOnlyAtEnd
<1>1. VInv /\ [VNext]_vars =>
        [(pc \in {"recv", "recvStatus"} /\ pc' = "app" /\ ret' = "fail")
            => ~data[sock[fd]]]_vars
  <2> SUFFICES ASSUME VInv, VNext, pc = "recv", pc' = "app" PROVE ret' # "fail"
    BY DEF VInv, Clients, ReadToEnd
  <2>1. RecvRead
    BY DEF VNext, clientVars, Program, RawCall, ProgramEnds, Socket, InCall,
           ConnectPolls, PollThen, ConnectStatus, ConnectTimeout, SendChunk, SendStatus,
           SendPolls, RecvStatus, ReadyResult, Connect, Send, Recv, DataReady,
           CloseSocket, Call, OtherPoll, VInv, Clients, OwnSlots, InCallOwnsFd, ClientType
  <2> QED
    BY <2>1 DEF RecvRead, Return, Goto
<1> QED
  BY <1>1, AlwaysVInv, PTL DEF VSpec, EofOnlyAtEnd

=============================================================================
