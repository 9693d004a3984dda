------------------------- MODULE VmodemPortsProofs -------------------------
(***************************************************************************)
(* Proofs about VmodemPorts, for any number of ports, groups and sockets:  *)
(* that VMODEM neither loses nor shares an mTCP socket, that a poll never  *)
(* goes on with a socket that was closed under it, and what a call goes    *)
(* through from the first RING to its end.                                 *)
(*                                                                         *)
(* First type correctness, then ownership, then the call.  Ownership is    *)
(* restated over explicit arguments, because one action of the model,      *)
(* AH=04h, closes a call and then opens a listener: its proof goes through *)
(* the state in between, which no variable holds.                          *)
(*                                                                         *)
(* That an unanswered caller hears ringing is not inductive: the next      *)
(* caller of a port must find the modem quiet, since accepting a call sets *)
(* ringing and leaves a CONNECT that is still to come as it is; and what   *)
(* at_check_ring gives up on must be a call that nobody answered.          *)
(***************************************************************************)
EXTENDS VmodemPorts, TLAPS

USE PortsAssumption DEF PortsAssumption

(***************************************************************************)
(* A group of variables that a step leaves alone keeps its type.           *)
(***************************************************************************)
LEMMA Kept ==
    /\ LineType /\ UNCHANGED lineVars => LineType'
    /\ ListenType /\ UNCHANGED listenVars => ListenType'
    /\ NetType /\ UNCHANGED netVars => NetType'
    /\ AtType /\ UNCHANGED atVars => AtType'
    /\ FossilType /\ UNCHANGED fossilVars => FossilType'
    /\ FlagType /\ UNCHANGED flagVars => FlagType'
    /\ HistType /\ UNCHANGED histVars => HistType'
    /\ PollType /\ UNCHANGED poll => PollType'
BY DEF LineType, ListenType, NetType, AtType, FossilType, FlagType, HistType,
       PollType, lineVars, listenVars, netVars, atVars, fossilVars, flagVars,
       histVars

LEMMA PollAdvances ==
    ASSUME PollType
    PROVE  /\ poll.phase = "port" \/ poll.phase = "ring" \/ poll.phase = "close"
                \/ poll.phase = "traffic"
                => poll.i \in Ports /\ (poll' = NextPort => PollType')
           /\ poll.phase = "hunt"
                => poll.i \in Groups /\ (poll' = NextGroup => PollType')
           /\ poll.phase = "port" /\ poll' = ToPhase("ring") => PollType'
           /\ poll.phase = "ring" /\ poll' = ToPhase("close") => PollType'
           /\ poll.phase = "close" /\ poll' = ToPhase("traffic") => PollType'
           /\ poll.phase = "drain" /\ poll' = ToPhase("hunt") => PollType'
           /\ poll' = Idle => PollType'
<1> USE DEF PollType, Phases, Ports, Groups, NoPort
<1>1. poll.phase = "port" \/ poll.phase = "ring" \/ poll.phase = "close"
          \/ poll.phase = "traffic" => poll.i \in Ports
  OBVIOUS
<1>2. ASSUME poll.i \in Ports, poll' = NextPort PROVE PollType'
  <2>1. CASE poll.i + 1 < NPorts
    <3>1. poll' = [poll EXCEPT !.phase = "port", !.i = @ + 1]
      BY <1>2, <2>1 DEF NextPort
    <3>2. /\ poll'.phase = "port" /\ poll'.i = poll.i + 1
          /\ poll'.safe = poll.safe /\ poll'.caller = poll.caller
          /\ poll' = [phase |-> "port", i |-> poll.i + 1, safe |-> poll.safe,
                       caller |-> poll.caller]
      BY <3>1
    <3> QED
      BY <1>2, <2>1, <3>2
  <2>2. CASE poll.i + 1 >= NPorts /\ poll.caller # NoPort
    <3>1. poll' = [poll EXCEPT !.phase = "status", !.i = 0]
      BY <1>2, <2>2 DEF NextPort
    <3>2. poll' = [phase |-> "status", i |-> 0, safe |-> poll.safe,
                   caller |-> poll.caller]
      BY <3>1
    <3> QED
      BY <2>2, <3>2
  <2>3. CASE poll.i + 1 >= NPorts /\ poll.caller = NoPort
    BY <1>2, <2>3 DEF NextPort, Idle
  <2> QED
    BY <1>2, <2>1, <2>2, <2>3
<1>3. ASSUME poll.phase = "hunt" PROVE poll.i \in Groups
  BY <1>3
<1>4. ASSUME poll.phase = "hunt", poll' = NextGroup PROVE PollType'
  <2>1. CASE poll.i + 1 < NGroups
    <3>1. poll' = [phase |-> "hunt", i |-> poll.i + 1, safe |-> poll.safe,
                   caller |-> poll.caller]
      BY <1>4, <2>1 DEF NextGroup
    <3> QED
      BY <1>4, <2>1, <3>1
  <2>2. CASE poll.i + 1 >= NGroups
    <3>1. poll.i \in Nat /\ ~(poll.i + 1 < NGroups)
      BY <2>2
    <3>2. poll' = [poll EXCEPT !.phase = "port", !.i = 0]
      BY <1>4, <3>1 DEF NextGroup
    <3>3. poll' = [phase |-> "port", i |-> 0, safe |-> poll.safe,
                   caller |-> poll.caller]
      BY <3>2
    <3> QED
      BY <3>3
  <2> QED
    BY <1>4, <2>1, <2>2
<1>5. ASSUME poll.phase = "port", poll' = ToPhase("ring") PROVE PollType'
  BY <1>5 DEF ToPhase
<1>6. ASSUME poll.phase = "ring", poll' = ToPhase("close") PROVE PollType'
  BY <1>6 DEF ToPhase
<1>7. ASSUME poll.phase = "close", poll' = ToPhase("traffic") PROVE PollType'
  BY <1>7 DEF ToPhase
<1>8. ASSUME poll.phase = "drain", poll' = ToPhase("hunt") PROVE PollType'
  BY <1>8 DEF ToPhase
<1>9. ASSUME poll' = Idle PROVE PollType'
  BY <1>9 DEF Idle
<1> QED
  BY <1>1, <1>2, <1>3, <1>4, <1>5, <1>6, <1>7, <1>8, <1>9

\* The phases that the iterators of the two loops lead to.
LEMMA NextPhase ==
    ASSUME PollType
    PROVE  /\ poll.phase = "hunt" => NextGroup.phase \in {"hunt", "port"}
           /\ NextPort.phase \in {"port", "status", "idle"}
<1>1. NextPort.phase \in {"port", "status", "idle"}
  <2>1. [poll EXCEPT !.phase = "port", !.i = poll.i + 1].phase = "port"
    BY DEF PollType
  <2>2. [poll EXCEPT !.phase = "status", !.i = 0].phase = "status"
    BY DEF PollType
  <2> QED
    BY <2>1, <2>2 DEF NextPort, Idle
<1>2. ASSUME poll.phase = "hunt" PROVE NextGroup.phase \in {"hunt", "port"}
  <2>1. [poll EXCEPT !.i = poll.i + 1].phase = "hunt"
    BY <1>2 DEF PollType
  <2>2. [poll EXCEPT !.phase = "port", !.i = 0].phase = "port"
    BY DEF PollType
  <2> QED
    BY <2>1, <2>2 DEF NextGroup
<1> QED
  BY <1>1, <1>2

(***************************************************************************)
(* The operators that several actions share.                               *)
(***************************************************************************)
LEMMA NetClosingType ==
    ASSUME NetType, NEW s
    PROVE  NetClosing(s) \in [Socks -> NetStates]
BY DEF NetType, NetClosing, NetStates

LEMMA LineModeType == ASSUME NEW p PROVE LineMode(p) \in {"disc", "listen"}
BY DEF LineMode

LEMMA TakeCallType ==
    ASSUME TypeOK, NEW p \in Ports, NEW s \in Socks,
           NEW n \in [Socks -> NetStates], TakeCall(p, s, n)
    PROVE  /\ LineType' /\ ListenType' /\ AtType' /\ FossilType' /\ FlagType'
           /\ HistType'
           /\ net' \in [Socks -> NetStates] /\ via' \in [Socks -> Socks \cup {NoSock}]
           /\ orphans' \subseteq Socks
<1> USE DEF TypeOK, TakeCall
<1>1. LineType'
  BY DEF LineType
<1>2. AtType'
  BY DEF AtType
<1>3. HistType'
  BY DEF HistType
<1>4. /\ net' \in [Socks -> NetStates] /\ via' \in [Socks -> Socks \cup {NoSock}]
      /\ orphans' \subseteq Socks
  BY DEF NetType, NetStates, Live
<1> QED
  BY <1>1, <1>2, <1>3, <1>4, Kept

LEMMA TurnAwayType ==
    ASSUME TypeOK, NEW s \in Socks, TurnAway(s)
    PROVE  /\ LineType' /\ ListenType' /\ NetType' /\ AtType' /\ FossilType'
           /\ FlagType' /\ HistType'
<1> USE DEF TypeOK, TurnAway
<1>1. NetType'
  BY NetClosingType DEF NetType, CloseFast
<1> QED
  BY <1>1, Kept

LEMMA AtSendConnectType ==
    ASSUME AtType, HistType, NEW p \in Ports, AtSendConnect(p)
    PROVE  AtType' /\ HistType'
BY DEF AtType, HistType, AtSendConnect

LEMMA CheckRingType ==
    ASSUME TypeOK, NEW p \in Ports, CheckRing(p)
    PROVE  LineType' /\ ListenType' /\ NetType' /\ AtType' /\ FlagType' /\ HistType'
<1> USE DEF TypeOK
<1>1. CASE RingQuiet(p)
  BY <1>1, Kept DEF RingQuiet
<1>2. CASE DeliverConnect(p)
  <2>1. AtType'
    BY <1>2 DEF DeliverConnect, AtType
  <2> QED
    BY <1>2, <2>1, Kept DEF DeliverConnect
<1>3. CASE AutoAnswer(p)
  BY <1>3, Kept, AtSendConnectType DEF AutoAnswer
<1>4. CASE NoAnswer(p)
  <2>1. AtType'
    BY <1>4 DEF NoAnswer, AtType
  <2>2. LineType'
    BY <1>4, LineModeType DEF NoAnswer, LineType
  <2>3. NetType'
    BY <1>4, NetClosingType DEF NoAnswer, CloseFast, LineType, NetType
  <2> QED
    BY <1>4, <2>1, <2>2, <2>3, Kept DEF NoAnswer
<1>5. CASE RingAgain(p)
  <2>1. AtType'
    BY <1>5 DEF RingAgain, AtType
  <2> QED
    BY <1>5, <2>1, Kept DEF RingAgain
<1> QED
  BY <1>1, <1>2, <1>3, <1>4, <1>5 DEF CheckRing

\* A poll-cycle close is made for a port that has a socket.
LEMMA EndCallType ==
    ASSUME TypeOK, NEW p \in Ports, sock[p] # NoSock, EndCall(p)
    PROVE  /\ LineType' /\ ListenType' /\ NetType' /\ AtType' /\ FossilType'
           /\ HistType'
           /\ dtrIgnore' = dtrIgnore /\ idleOn' = idleOn
<1> USE DEF TypeOK, EndCall
<1>1. LineType'
  BY LineModeType DEF LineType
<1>2. NetType'
  BY NetClosingType DEF NetType, CloseFast, LineType
<1>3. AtType'
  BY DEF AtType, AtSendNoCarrier
<1> QED
  BY <1>1, <1>2, <1>3, Kept

----------------------------------------------------------------------------
(***************************************************************************)
(* Type correctness.  It is not inductive alone: a step that closes a      *)
(* port's socket must know that there is one.                              *)
(***************************************************************************)
TInv == TypeOK /\ SocketHeldInService

LEMMA InitTInv == Init => TInv
<1> SUFFICES ASSUME Init PROVE TInv
  OBVIOUS
<1> USE DEF Init
<1>1. PollType
  BY DEF PollType, Idle, Phases, NoPort
<1>2. LineType
  BY DEF LineType
<1>3. ListenType
  BY DEF ListenType, Ports
<1>4. NetType
  BY DEF NetType, NetStates, Live
<1>5. AtType /\ FossilType /\ FlagType /\ HistType
  BY DEF AtType, FossilType, FlagType, HistType
<1>6. SocketHeldInService
  BY DEF SocketHeldInService, Idle
<1> QED
  BY <1>1, <1>2, <1>3, <1>4, <1>5, <1>6 DEF TInv, TypeOK

LEMMA NetworkTInv == TInv /\ Network => TInv'
<1> SUFFICES ASSUME TInv, Network PROVE TInv'
  OBVIOUS
<1> USE DEF TInv, TypeOK
<1>1. CASE \E l, s \in Socks : ClientConnects(l, s)
  <2>1. NetType'
    BY <1>1 DEF ClientConnects, NetType, NetStates
  <2> QED
    BY <1>1, <2>1, Kept DEF ClientConnects, SocketHeldInService, lineVars
<1>2. CASE \E s \in Socks : RemoteCloses(s) \/ ConnectionLost(s) \/ CloseDone(s)
  <2>1. NetType'
    BY <1>2 DEF RemoteCloses, ConnectionLost, CloseDone, NetType, NetStates, Live
  <2> QED
    BY <1>2, <2>1, Kept DEF RemoteCloses, ConnectionLost, CloseDone,
                            SocketHeldInService, lineVars
<1> QED
  BY <1>1, <1>2 DEF Network

LEMMA StartPollTInv ==
    ASSUME TInv, NEW safe \in BOOLEAN, NEW c \in 0 .. NPorts, StartPoll(safe, c)
    PROVE  TInv'
<1>1. PollType'
  BY DEF StartPoll, PollType, Phases
<1>2. SocketHeldInService'
  BY DEF StartPoll, SocketHeldInService
<1> QED
  BY <1>1, <1>2, Kept DEF StartPoll, TInv, TypeOK

LEMMA HuntStepTInv ==
    ASSUME TInv, PollDrain \/ HuntSkip \/ \E s \in Socks : HuntAccept(s) \/ HuntReject(s)
    PROVE  TInv'
<1> USE DEF TInv, TypeOK
<1>0. ASSUME poll.phase = "hunt", poll' = NextGroup
      PROVE  PollType' /\ SocketHeldInService'
  BY <1>0, NextPhase, PollAdvances DEF SocketHeldInService
<1>1. CASE PollDrain
  <2>1. NetType'
    BY <1>1 DEF PollDrain, NetType, NetStates, Finished
  <2>2. poll'.phase = "hunt"
    BY <1>1 DEF PollDrain, ToPhase, PollType
  <2>3. PollType' /\ SocketHeldInService'
    BY <1>1, <2>2, PollAdvances DEF PollDrain, SocketHeldInService
  <2> QED
    BY <1>1, <2>1, <2>3, Kept DEF PollDrain
<1>2. CASE HuntSkip
  BY <1>0, <1>2, Kept DEF HuntSkip
<1>3. CASE \E s \in Socks : HuntAccept(s)
  <2>1. PICK s \in Socks : HuntAccept(s)
    BY <1>3
  <2>2. PICK p \in Ports : TakeCall(p, s, net)
    BY <2>1 DEF HuntAccept
  <2>3. net \in [Socks -> NetStates] /\ closing' \subseteq Socks
    BY <2>1 DEF HuntAccept, NetType
  <2>4. NetType'
    BY <2>2, <2>3, TakeCallType DEF NetType
  <2> QED
    BY <1>0, <2>1, <2>2, <2>3, <2>4, TakeCallType DEF HuntAccept
<1>4. CASE \E s \in Socks : HuntReject(s)
  <2>1. PICK s \in Socks : HuntReject(s)
    BY <1>4
  <2> QED
    BY <1>0, <2>1, TurnAwayType DEF HuntReject
<1> QED
  BY <1>1, <1>2, <1>3, <1>4

PortStep ==
    \/ PortIdle \/ PortNoCaller
    \/ \E s \in Socks : PortAccept(s) \/ PortBusyReject(s)
    \/ PortRing \/ PollClose \/ NothingToClose
    \/ PortIdleTimeout \/ PortDisconnect \/ PortTraffic

LEMMA PortStepTInv == TInv /\ PortStep => TInv'
<1> SUFFICES ASSUME TInv, PortStep PROVE TInv'
  OBVIOUS
<1> USE DEF TInv, TypeOK
<1>0. ASSUME poll.phase \in {"port", "ring", "close", "traffic"}, poll' = NextPort
      PROVE  PollType' /\ SocketHeldInService'
  BY <1>0, NextPhase, PollAdvances DEF SocketHeldInService
<1>1. CASE PortIdle
  <2>1. poll.i \in Ports
    BY <1>1, PollAdvances DEF PortIdle
  <2>2. LineType'
    BY <1>1, <2>1, LineModeType DEF PortIdle, LineType
  <2> QED
    BY <1>0, <1>1, <2>2, Kept DEF PortIdle
<1>2. CASE PortNoCaller
  <2>1. poll'.phase = "ring" /\ poll'.i = poll.i /\ sock' = sock
    BY <1>2 DEF PortNoCaller, ToPhase, PollType, lineVars
  <2>2. PollType' /\ SocketHeldInService'
    BY <1>2, <2>1, PollAdvances DEF PortNoCaller, SocketHeldInService, Connected
  <2> QED
    BY <1>2, <2>2, Kept DEF PortNoCaller
<1>3. CASE \E s \in Socks : PortAccept(s)
  <2>1. PICK s \in Socks : PortAccept(s)
    BY <1>3
  <2> DEFINE n == IF sock[poll.i] # NoSock THEN NetClosing(sock[poll.i]) ELSE net
  <2>2. poll.i \in Ports /\ TakeCall(poll.i, s, n)
    BY <2>1, PollAdvances DEF PortAccept
  <2>3. n \in [Socks -> NetStates]
    BY NetClosingType DEF NetType
  <2>4. closing' \subseteq Socks
    BY <2>1, <2>2 DEF PortAccept, NetType, LineType
  <2> HIDE DEF n
  <2>5. /\ LineType' /\ ListenType' /\ NetType' /\ AtType' /\ FossilType'
        /\ FlagType' /\ HistType'
    BY <2>2, <2>3, <2>4, TakeCallType DEF NetType
  <2> QED
    BY <1>0, <2>1, <2>5 DEF PortAccept
<1>4. CASE \E s \in Socks : PortBusyReject(s)
  <2>1. PICK s \in Socks : PortBusyReject(s)
    BY <1>4
  <2>2. poll'.phase = "ring" /\ poll'.i = poll.i /\ sock' = sock
    BY <2>1 DEF PortBusyReject, ToPhase, PollType, TurnAway, lineVars
  <2>3. PollType' /\ SocketHeldInService'
    BY <2>1, <2>2, PollAdvances DEF PortBusyReject, SocketHeldInService, Connected
  <2> QED
    BY <2>1, <2>3, TurnAwayType DEF PortBusyReject
<1>5. CASE PortRing
  <2>1. poll.i \in Ports /\ CheckRing(poll.i)
    BY <1>5, PollAdvances DEF PortRing
  <2>2. CASE sock'[poll.i] = NoSock
    BY <1>0, <1>5, <2>1, <2>2, CheckRingType, Kept DEF PortRing
  <2>3. CASE sock'[poll.i] # NoSock
    <3>1. poll' = ToPhase("close") /\ poll'.phase = "close" /\ poll'.i = poll.i
      BY <1>5, <2>3 DEF PortRing, ToPhase, PollType
    <3>2. PollType' /\ SocketHeldInService'
      BY <1>5, <2>3, <3>1, PollAdvances DEF PortRing, SocketHeldInService
    <3> QED
      BY <1>5, <2>1, <3>2, CheckRingType, Kept DEF PortRing
  <2> QED
    BY <2>2, <2>3
<1>6. CASE PollClose
  <2>1. poll.i \in Ports /\ sock[poll.i] # NoSock /\ EndCall(poll.i)
    BY <1>6, PollAdvances DEF PollClose, SocketHeldInService
  <2>2. pendingClose' \in [Ports -> BOOLEAN]
    BY <1>6, <2>1 DEF PollClose, ClearRequest, FlagType
  <2>3. FlagType'
    BY <2>1, <2>2, EndCallType DEF FlagType
  <2> QED
    BY <1>0, <1>6, <2>1, <2>3, EndCallType DEF PollClose
<1>7. CASE NothingToClose
  <2>1. poll'.phase = "traffic" /\ poll'.i = poll.i /\ sock' = sock
    BY <1>7 DEF NothingToClose, ToPhase, PollType, lineVars
  <2>2. PollType' /\ SocketHeldInService'
    BY <1>7, <2>1, PollAdvances DEF NothingToClose, SocketHeldInService
  <2> QED
    BY <1>7, <2>2, Kept DEF NothingToClose
<1>8. CASE PortIdleTimeout \/ PortDisconnect
  <2>1. /\ poll.i \in Ports /\ sock[poll.i] # NoSock /\ EndCall(poll.i)
        /\ poll.phase = "traffic" /\ poll' = NextPort /\ pendingClose' = pendingClose
    BY <1>8, PollAdvances DEF PortIdleTimeout, PortDisconnect, SocketHeldInService
  <2>2. FlagType'
    BY <2>1, EndCallType DEF FlagType
  <2> QED
    BY <1>0, <2>1, <2>2, EndCallType
<1>9. CASE PortTraffic
  BY <1>0, <1>9, Kept DEF PortTraffic
<1> QED
  BY <1>1, <1>2, <1>3, <1>4, <1>5, <1>6, <1>7, <1>8, <1>9 DEF PortStep

LEMMA StatusTailTInv == TInv /\ StatusTail => TInv'
<1> SUFFICES ASSUME TInv, StatusTail PROVE TInv'
  OBVIOUS
<1> USE DEF TInv, TypeOK
<1>1. poll.caller \in Ports /\ CheckRing(poll.caller) /\ poll' = Idle
  BY DEF StatusTail, PollType
<1>2. FossilType'
  BY <1>1 DEF StatusTail, FossilType
<1>3. PollType' /\ SocketHeldInService'
  BY <1>1, PollAdvances DEF SocketHeldInService, Idle
<1> QED
  BY <1>1, <1>2, <1>3, CheckRingType

(***************************************************************************)
(* The calls of the application: none of them starts inside a poll, so     *)
(* what they do to sockets is never seen by a port in service.             *)
(***************************************************************************)
LEMMA CallTInv ==
    ASSUME TInv, CanCall, UNCHANGED poll,
           LineType', ListenType', NetType', AtType', FossilType', FlagType', HistType'
    PROVE  TInv'
<1>1. SocketHeldInService'
  BY DEF CanCall, Idle, SocketHeldInService
<1> QED
  BY <1>1, Kept DEF TInv, TypeOK

LEMMA AskHangupType ==
    ASSUME TypeOK, NEW p \in Ports, AskHangup(p)
    PROVE  pendingClose' \in [Ports -> BOOLEAN] /\ HistType'
BY DEF TypeOK, AskHangup, HistType, FlagType

LEMMA OpenListenerType ==
    ASSUME TypeOK, NEW p \in Ports, NEW m \in {"disc", "listen", "conn"},
           NEW n \in [Socks -> NetStates], OpenListener(p, m, n),
           UNCHANGED <<hunt, groupMask>>
    PROVE  /\ mode' \in [Ports -> {"disc", "listen", "conn"}]
           /\ ListenType' /\ net' \in [Socks -> NetStates]
<1> USE DEF TypeOK
<1>1. mode' \in [Ports -> {"disc", "listen", "conn"}]
  <2>1. \E x \in {"disc", "listen", "conn"} : mode' = [mode EXCEPT ![p] = x]
    BY DEF OpenListener
  <2> QED
    BY <2>1 DEF LineType
<1>2. ListenType'
  <2>1. hunt[p] # NoGroup => hunt[p] \in Groups
    BY DEF ListenType, NoGroup, Groups
  <2>2. /\ listenSock' = listenSock
           \/ \E s \in Socks : listenSock' = [listenSock EXCEPT ![p] = s]
        /\ groupSock' = groupSock
           \/ \E s \in Socks : groupSock' = [groupSock EXCEPT ![hunt[p]] = s]
    BY DEF OpenListener
  <2> QED
    BY <2>1, <2>2 DEF ListenType
<1>3. net' \in [Socks -> NetStates]
  BY DEF OpenListener, NetStates
<1> QED
  BY <1>1, <1>2, <1>3

LEMMA FossilInitTInv == ASSUME TInv, NEW p \in Ports, FossilInit(p) PROVE TInv'
<1> USE DEF TInv, TypeOK
<1> DEFINE disc == pendingClose[p] \/ (Connected(p) /\ purgeSeen[p] >= 3)
           closes == disc /\ sock[p] # NoSock
           m == IF disc THEN LineMode(p) ELSE mode[p]
           n == IF closes THEN NetClosing(sock[p]) ELSE net
<1>1. m \in {"disc", "listen", "conn"} /\ n \in [Socks -> NetStates]
  BY LineModeType, NetClosingType DEF LineType, NetType
<1>2. OpenListener(p, m, n)
  BY DEF FossilInit
<1>3. closing' \subseteq Socks /\ sock' \in [Ports -> Socks \cup {NoSock}]
  BY DEF FossilInit, NetType, LineType
<1>4. AtType'
  <2>1. StillRings(p, disc) \in BOOLEAN
    BY DEF StillRings, AtType, Connected
  <2> HIDE DEF disc
  <2>2. ringing' = [ringing EXCEPT ![p] = StillRings(p, disc)]
    BY DEF FossilInit, disc
  <2>3. ringing' \in [Ports -> BOOLEAN]
    BY <2>1, <2>2 DEF AtType
  <2> QED
    BY <2>3 DEF FossilInit, AtType
<1>5. FossilType'
  BY DEF FossilInit, FossilType
<1>6. FlagType'
  <2>1. disc \in BOOLEAN /\ dtrIgnore' = [dtrIgnore EXCEPT ![p] = @ /\ ~disc]
    BY DEF FossilInit, FlagType, Connected
  <2>2. dtrIgnore' \in [Ports -> BOOLEAN]
    BY <2>1 DEF FlagType
  <2> QED
    BY <2>2 DEF FossilInit, FlagType
<1> HIDE DEF m, n
<1>7. UNCHANGED <<poll, hunt, groupMask, via, orphans, histVars>>
  BY DEF FossilInit
<1>8. LineType' /\ ListenType' /\ NetType' /\ HistType'
  BY <1>1, <1>2, <1>3, <1>7, OpenListenerType, Kept DEF LineType, NetType
<1> QED
  BY <1>4, <1>5, <1>6, <1>7, <1>8, CallTInv DEF FossilInit

LEMMA FossilTInv == ASSUME TInv, NEW p \in Ports, Fossil(p) PROVE TInv'
<1> USE DEF TInv, TypeOK
<1>1. CASE StatusPoll(p)
  <2>1. StartPoll(TRUE, p)
    BY <1>1 DEF StatusPoll
  <2>2. p \in 0 .. NPorts
    BY DEF Ports
  <2> QED
    BY <2>1, <2>2, StartPollTInv
<1>2. CASE FossilInit(p)
  BY <1>2, FossilInitTInv
<1>3. CASE FossilDeinit(p)
  <2>1. FossilType'
    BY <1>3 DEF FossilDeinit, FossilType
  <2>2. FlagType' /\ HistType'
    BY <1>3, AskHangupType, Kept DEF FossilDeinit, FlagType
  <2> QED
    BY <1>3, <2>1, <2>2, Kept, CallTInv DEF FossilDeinit
<1>4. CASE DropDtr(p)
  <2>1. FossilType'
    BY <1>4 DEF DropDtr, FossilType
  <2>2. FlagType' /\ HistType'
    BY <1>4, AskHangupType, Kept DEF DropDtr, FlagType
  <2> QED
    BY <1>4, <2>1, <2>2, Kept, CallTInv DEF DropDtr
<1>5. CASE RaiseDtr(p)
  <2>1. FossilType'
    BY <1>5 DEF RaiseDtr, FossilType
  <2>2. AtType' /\ HistType'
    BY <1>5, AtSendConnectType, Kept DEF RaiseDtr
  <2> QED
    BY <1>5, <2>1, <2>2, Kept, CallTInv DEF RaiseDtr
<1>6. CASE PurgeOutput(p)
  <2>1. FossilType'
    BY <1>6 DEF PurgeOutput, FossilType
  <2> QED
    BY <1>6, <2>1, Kept, CallTInv DEF PurgeOutput
<1> QED
  BY <1>1, <1>2, <1>3, <1>4, <1>5, <1>6 DEF Fossil

LEMMA AtCommandTInv == ASSUME TInv, NEW p \in Ports, AtCommand(p) PROVE TInv'
<1> USE DEF TInv, TypeOK
<1>1. CASE AtAnswer(p)
  BY <1>1, AtSendConnectType, Kept, CallTInv DEF AtAnswer, CanCommand
<1>2. CASE AtEscape(p)
  <2>1. AtType'
    BY <1>2 DEF AtEscape, AtType
  <2> QED
    BY <1>2, <2>1, Kept, CallTInv DEF AtEscape
<1>3. CASE AtHangup(p)
  <2>1. AtType'
    BY <1>3 DEF AtHangup, AtType
  <2>2. FlagType' /\ HistType'
    BY <1>3, AskHangupType, Kept DEF AtHangup, FlagType
  <2> QED
    BY <1>3, <2>1, <2>2, Kept, CallTInv DEF AtHangup, CanCommand
<1>4. CASE AtOnline(p)
  <2>1. AtType' /\ HistType'
    <3>1. CASE mode[p] = "conn"
      BY <1>4, <3>1, AtSendConnectType DEF AtOnline
    <3>2. CASE mode[p] # "conn"
      BY <1>4, <3>2, Kept DEF AtOnline, AtType
    <3> QED
      BY <3>1, <3>2
  <2> QED
    BY <1>4, <2>1, Kept, CallTInv DEF AtOnline, CanCommand
<1>5. CASE AtReset(p)
  <2>1. AtType'
    BY <1>5 DEF AtReset, AtType
  <2>2. FlagType' /\ HistType'
    BY <1>5, AskHangupType, Kept DEF AtReset, FlagType
  <2> QED
    BY <1>5, <2>1, <2>2, Kept, CallTInv DEF AtReset, CanCommand
<1>6. ASSUME NEW b \in BOOLEAN, AtIgnoreDtr(p, b) PROVE TInv'
  <2>1. FlagType'
    BY <1>6 DEF AtIgnoreDtr, FlagType
  <2> QED
    BY <1>6, <2>1, Kept, CallTInv DEF AtIgnoreDtr, CanCommand
<1>7. ASSUME NEW k \in 0 .. MaxS0, AtSetS0(p, k) PROVE TInv'
  <2>1. AtType'
    BY <1>7 DEF AtSetS0, AtType
  <2> QED
    BY <1>7, <2>1, Kept, CallTInv DEF AtSetS0, CanCommand
<1>8. ASSUME NEW b \in BOOLEAN, AtSetIdle(p, b) PROVE TInv'
  <2>1. FlagType'
    BY <1>8 DEF AtSetIdle, FlagType
  <2> QED
    BY <1>8, <2>1, Kept, CallTInv DEF AtSetIdle, CanCommand
<1> QED
  BY <1>1, <1>2, <1>3, <1>4, <1>5, <1>6, <1>7, <1>8 DEF AtCommand

LEMMA MuxTInv == TInv /\ Mux => TInv'
<1> SUFFICES ASSUME TInv, Mux PROVE TInv'
  OBVIOUS
<1> USE DEF TInv, TypeOK
<1>1. CASE MuxPoll
  <2>1. StartPoll(FALSE, NoPort)
    BY <1>1 DEF MuxPoll
  <2>2. NoPort \in 0 .. NPorts
    BY DEF NoPort
  <2> QED
    BY <2>1, <2>2, StartPollTInv
<1>2. ASSUME NEW p \in Ports, CmdDisconnect(p) PROVE TInv'
  <2>1. FlagType' /\ HistType'
    BY <1>2, AskHangupType DEF CmdDisconnect, FlagType
  <2> QED
    BY <1>2, <2>1, Kept, CallTInv DEF CmdDisconnect
<1>3. ASSUME NEW p \in Ports, CmdListen(p) PROVE TInv'
  <2>1. LineType' /\ ListenType' /\ NetType'
    BY <1>3 DEF CmdListen, LineType, ListenType, NetType
  <2>2. FlagType' /\ HistType'
    BY <1>3, AskHangupType, Kept DEF CmdListen, FlagType
  <2> QED
    BY <1>3, <2>1, <2>2, Kept, CallTInv DEF CmdListen
<1>4. ASSUME NEW mask \in SUBSET Ports \ {{}}, CmdHuntListen(mask) PROVE TInv'
  <2>1. PICK g \in Groups :
          /\ groupMask' = [groupMask EXCEPT ![g] = mask]
          /\ hunt' = [p \in Ports |-> IF p \in mask THEN g ELSE hunt[p]]
    BY <1>4 DEF CmdHuntListen
  <2>2. g \in 0 .. NGroups
    BY DEF Groups
  <2>3. ListenType'
    BY <1>4, <2>1, <2>2 DEF CmdHuntListen, ListenType
  <2>4. LineType' /\ NetType'
    BY <1>4 DEF CmdHuntListen, LineType, ListenType, NetType
  <2> QED
    BY <1>4, <2>3, <2>4, Kept, CallTInv DEF CmdHuntListen
<1> QED
  BY <1>1, <1>2, <1>3, <1>4 DEF Mux

----------------------------------------------------------------------------
LEMMA NextTInv == TInv /\ [Next]_vars => TInv'
<1> SUFFICES ASSUME TInv, [Next]_vars PROVE TInv'
  OBVIOUS
<1>1. CASE Network
  BY <1>1, NetworkTInv
<1>2. CASE Int28Poll
  <2>1. StartPoll(TRUE, NoPort)
    BY <1>2 DEF Int28Poll
  <2>2. NoPort \in 0 .. NPorts
    BY DEF NoPort
  <2> QED
    BY <2>1, <2>2, StartPollTInv
<1>3. CASE PollStep
  <2>1. \/ PollDrain \/ HuntSkip \/ \E s \in Socks : HuntAccept(s) \/ HuntReject(s)
        \/ PortStep \/ StatusTail
    BY <1>3 DEF PollStep, PortStep
  <2> QED
    BY <2>1, HuntStepTInv, PortStepTInv, StatusTailTInv
<1>4. CASE \E p \in Ports : Fossil(p) \/ AtCommand(p)
  BY <1>4, FossilTInv, AtCommandTInv
<1>5. CASE Mux
  BY <1>5, MuxTInv
<1>6. CASE UNCHANGED vars
  BY <1>6, Kept DEF vars, TInv, TypeOK, SocketHeldInService, lineVars
<1> QED
  BY <1>1, <1>2, <1>3, <1>4, <1>5, <1>6 DEF Next

\* Whatever the network, the application and VMODCTL do, every variable keeps
\* its type and the poll loop of poll.c stays within the port and group tables.
THEOREM TypeCorrect == Spec => []TypeOK
<1>1. Spec => []TInv
  BY InitTInv, NextTInv, PTL DEF Spec
<1>2. TInv => TypeOK
  BY DEF TInv
<1> QED
  BY <1>1, <1>2, PTL

\* In every step of an iteration of poll.c's port loop that follows the test of
\* p->sock, the socket it goes on using is still there (poll.c:354).
THEOREM SocketHeld == Spec => []SocketHeldInService
<1>1. Spec => []TInv
  BY InitTInv, NextTInv, PTL DEF Spec
<1>2. TInv => SocketHeldInService
  BY DEF TInv
<1> QED
  BY <1>1, <1>2, PTL

----------------------------------------------------------------------------
(***************************************************************************)
(* Ownership of sockets.                                                   *)
(***************************************************************************)
PortSocks  == [Ports -> Socks \cup {NoSock}]
GroupSocks == [Groups -> Socks \cup {NoSock}]
SockStates == [Socks -> NetStates]

\* SocketOwnership of calls sk, listeners ls and gs, socks states nt, queue cl
\* and abandoned sockets or.
OwnCalls(sk, nt, or) == \A p \in Ports : sk[p] # NoSock =>
                            nt[sk[p]] \in Live /\ sk[p] \notin or
OwnListen(ls, gs, nt, or) ==
    /\ \A p \in Ports : ls[p] # NoSock => nt[ls[p]] = "listen" /\ ls[p] \notin or
    /\ \A g \in Groups : gs[g] # NoSock => nt[gs[g]] = "listen" /\ gs[g] \notin or
OwnAlone(sk, ls, gs) ==
    /\ \A p, q \in Ports : p # q /\ sk[p] = sk[q] => sk[p] = NoSock
    /\ \A p, q \in Ports : p # q /\ ls[p] = ls[q] => ls[p] = NoSock
    /\ \A g, h \in Groups : g # h /\ gs[g] = gs[h] => gs[g] = NoSock
    /\ \A p \in Ports, g \in Groups : ls[p] = gs[g] => ls[p] = NoSock
OwnQueue(nt, cl) == \A s \in Socks : s \in cl <=> nt[s] \in {"closing", "done"}
OwnAll(sk, ls, gs, nt, or) ==
    /\ \A s \in Socks : nt[s] \in Live => s \in or \/ \E p \in Ports : sk[p] = s
    /\ \A s \in Socks : nt[s] = "listen" =>
          s \in or \/ (\E p \in Ports : ls[p] = s) \/ (\E g \in Groups : gs[g] = s)
    /\ \A s \in or : nt[s] \in Live \cup {"listen"}
Owned(sk, ls, gs, nt, cl, or) ==
    /\ OwnCalls(sk, nt, or) /\ OwnListen(ls, gs, nt, or) /\ OwnAlone(sk, ls, gs)
    /\ OwnQueue(nt, cl) /\ OwnAll(sk, ls, gs, nt, or)

LEMMA OwnedIsOwnership ==
    /\ SocketOwnership <=> Owned(sock, listenSock, groupSock, net, closing, orphans)
    /\ SocketOwnership'
         <=> Owned(sock', listenSock', groupSock', net', closing', orphans')
BY DEF SocketOwnership, CallsAreLive, ListenersListen, NobodyShares,
       ClosingQueueExact, NothingLost, Owned, OwnCalls, OwnListen, OwnAlone,
       OwnQueue, OwnAll

----------------------------------------------------------------------------
(***************************************************************************)
(* What the code does to sockets, one lemma per way.                       *)
(***************************************************************************)
\* A call ends: a FIN and the queue, or back to the pool.
LEMMA OwnedEnd ==
    ASSUME NEW sk \in PortSocks, NEW ls \in PortSocks, NEW gs \in GroupSocks,
           NEW nt \in SockStates, NEW cl \in SUBSET Socks, NEW or \in SUBSET Socks,
           Owned(sk, ls, gs, nt, cl, or),
           NEW p \in Ports, sk[p] # NoSock, NEW room \in BOOLEAN
    PROVE  Owned([sk EXCEPT ![p] = NoSock], ls, gs,
                 [nt EXCEPT ![sk[p]] = IF room THEN "closing" ELSE "free"],
                 IF room THEN cl \cup {sk[p]} ELSE cl, or)
<1> DEFINE s   == sk[p]
           sk1 == [sk EXCEPT ![p] = NoSock]
           nt1 == [nt EXCEPT ![s] = IF room THEN "closing" ELSE "free"]
           cl1 == IF room THEN cl \cup {s} ELSE cl
<1> USE DEF PortSocks, GroupSocks, SockStates, Owned, Live
<1>1. s \in Socks /\ nt[s] \in Live /\ s \notin or /\ s \notin cl
  BY DEF OwnCalls, OwnQueue
<1>2. OwnCalls(sk1, nt1, or)
  BY <1>1 DEF OwnCalls, OwnAlone
<1>3. OwnListen(ls, gs, nt1, or)
  BY <1>1 DEF OwnListen
<1>4. OwnAlone(sk1, ls, gs)
  BY DEF OwnAlone
<1>5. OwnQueue(nt1, cl1)
  BY <1>1 DEF OwnQueue
<1>6. OwnAll(sk1, ls, gs, nt1, or)
  BY <1>1 DEF OwnAll
<1> QED
  BY <1>2, <1>3, <1>4, <1>5, <1>6

\* A free port takes a waiting caller.
LEMMA OwnedTake ==
    ASSUME NEW sk \in PortSocks, NEW ls \in PortSocks, NEW gs \in GroupSocks,
           NEW nt \in SockStates, NEW cl \in SUBSET Socks, NEW or \in SUBSET Socks,
           Owned(sk, ls, gs, nt, cl, or),
           NEW p \in Ports, sk[p] = NoSock, NEW s \in Socks, nt[s] = "pending"
    PROVE  Owned([sk EXCEPT ![p] = s], ls, gs, [nt EXCEPT ![s] = "up"], cl, or)
<1> DEFINE sk1 == [sk EXCEPT ![p] = s]
           nt1 == [nt EXCEPT ![s] = "up"]
<1> USE DEF PortSocks, GroupSocks, SockStates, Owned, Live
<1>1. s \notin or
  BY DEF OwnAll
<1>2. OwnCalls(sk1, nt1, or)
  BY <1>1 DEF OwnCalls
<1>3. OwnListen(ls, gs, nt1, or)
  BY DEF OwnListen
<1>4. OwnAlone(sk1, ls, gs)
  BY DEF OwnAlone, OwnCalls
<1>5. OwnQueue(nt1, cl)
  BY DEF OwnQueue
<1>6. OwnAll(sk1, ls, gs, nt1, or)
  <2>1. sk1[p] = s /\ \A q \in Ports : sk[q] # NoSock => sk1[q] = sk[q]
    OBVIOUS
  <2>2. \A x \in Socks : x # s => nt1[x] = nt[x]
    OBVIOUS
  <2>3. \A x \in Socks : nt1[x] \in Live => x \in or \/ \E q \in Ports : sk1[q] = x
    BY <2>1, <2>2 DEF OwnAll
  <2> QED
    BY <1>1, <2>3 DEF OwnAll
<1> QED
  BY <1>2, <1>3, <1>4, <1>5, <1>6

\* A waiting caller is turned away.
LEMMA OwnedTurnAway ==
    ASSUME NEW sk \in PortSocks, NEW ls \in PortSocks, NEW gs \in GroupSocks,
           NEW nt \in SockStates, NEW cl \in SUBSET Socks, NEW or \in SUBSET Socks,
           Owned(sk, ls, gs, nt, cl, or),
           NEW s \in Socks, nt[s] = "pending", NEW room \in BOOLEAN
    PROVE  Owned(sk, ls, gs, [nt EXCEPT ![s] = IF room THEN "closing" ELSE "free"],
                 IF room THEN cl \cup {s} ELSE cl, or)
BY DEF PortSocks, GroupSocks, SockStates, Owned, Live, OwnCalls, OwnListen, OwnQueue,
       OwnAll

\* A port or a group that has no listener gets one.
LEMMA OwnedListen ==
    ASSUME NEW sk \in PortSocks, NEW ls \in PortSocks, NEW gs \in GroupSocks,
           NEW nt \in SockStates, NEW cl \in SUBSET Socks, NEW or \in SUBSET Socks,
           Owned(sk, ls, gs, nt, cl, or),
           NEW s \in Socks, nt[s] = "free"
    PROVE  /\ \A p \in Ports : ls[p] = NoSock =>
                Owned(sk, [ls EXCEPT ![p] = s], gs, [nt EXCEPT ![s] = "listen"], cl, or)
           /\ \A g \in Groups : gs[g] = NoSock =>
                Owned(sk, ls, [gs EXCEPT ![g] = s], [nt EXCEPT ![s] = "listen"], cl, or)
<1> DEFINE nt1 == [nt EXCEPT ![s] = "listen"]
<1> USE DEF PortSocks, GroupSocks, SockStates, Owned, Live
<1>1. s \notin or
  BY DEF OwnAll
<1>2. OwnCalls(sk, nt1, or) /\ OwnQueue(nt1, cl)
  BY DEF OwnCalls, OwnQueue
<1>3. ASSUME NEW p \in Ports, ls[p] = NoSock
      PROVE  Owned(sk, [ls EXCEPT ![p] = s], gs, nt1, cl, or)
  <2> DEFINE ls1 == [ls EXCEPT ![p] = s]
  <2>1. OwnListen(ls1, gs, nt1, or)
    BY <1>1, <1>3 DEF OwnListen
  <2>2. OwnAlone(sk, ls1, gs)
    BY <1>3 DEF OwnAlone, OwnListen
  <2>3. ls1[p] = s /\ \A q \in Ports : ls[q] # NoSock => ls1[q] = ls[q]
    BY <1>3
  <2>4. \A x \in Socks : x # s => nt1[x] = nt[x]
    OBVIOUS
  <2>5. \A x \in Socks : nt1[x] = "listen" =>
            x \in or \/ (\E q \in Ports : ls1[q] = x) \/ (\E g \in Groups : gs[g] = x)
    BY <2>3, <2>4 DEF OwnAll
  <2>6. OwnAll(sk, ls1, gs, nt1, or)
    BY <1>1, <2>5 DEF OwnAll
  <2> QED
    BY <1>2, <2>1, <2>2, <2>6
<1>4. ASSUME NEW g \in Groups, gs[g] = NoSock
      PROVE  Owned(sk, ls, [gs EXCEPT ![g] = s], nt1, cl, or)
  <2> DEFINE gs1 == [gs EXCEPT ![g] = s]
  <2>1. OwnListen(ls, gs1, nt1, or)
    BY <1>1, <1>4 DEF OwnListen
  <2>2. OwnAlone(sk, ls, gs1)
    BY <1>4 DEF OwnAlone, OwnListen
  <2>3. gs1[g] = s /\ \A h \in Groups : gs[h] # NoSock => gs1[h] = gs[h]
    BY <1>4
  <2>4. \A x \in Socks : x # s => nt1[x] = nt[x]
    OBVIOUS
  <2>5. \A x \in Socks : nt1[x] = "listen" =>
            x \in or \/ (\E q \in Ports : ls[q] = x) \/ (\E h \in Groups : gs1[h] = x)
    BY <2>3, <2>4 DEF OwnAll
  <2>6. OwnAll(sk, ls, gs1, nt1, or)
    BY <1>1, <2>5 DEF OwnAll
  <2> QED
    BY <1>2, <2>1, <2>2, <2>6
<1> QED
  BY <1>3, <1>4

\* The ports of mask forget both sockets.
LEMMA OwnedForget ==
    ASSUME NEW sk \in PortSocks, NEW ls \in PortSocks, NEW gs \in GroupSocks,
           NEW nt \in SockStates, NEW cl \in SUBSET Socks, NEW or \in SUBSET Socks,
           Owned(sk, ls, gs, nt, cl, or), NEW mask \in SUBSET Ports
    PROVE  Owned([p \in Ports |-> IF p \in mask THEN NoSock ELSE sk[p]],
                 [p \in Ports |-> IF p \in mask THEN NoSock ELSE ls[p]], gs, nt, cl,
                 (or \cup {sk[p] : p \in mask} \cup {ls[p] : p \in mask}) \ {NoSock})
<1> DEFINE sk1 == [p \in Ports |-> IF p \in mask THEN NoSock ELSE sk[p]]
           ls1 == [p \in Ports |-> IF p \in mask THEN NoSock ELSE ls[p]]
           or1 == (or \cup {sk[p] : p \in mask} \cup {ls[p] : p \in mask}) \ {NoSock}
<1> USE DEF PortSocks, GroupSocks, SockStates, Owned, Live
<1>1. \A s : s \in or1 <=>
          s # NoSock /\ (s \in or \/ \E p \in mask : sk[p] = s \/ ls[p] = s)
  OBVIOUS
<1>2. \A s \in or : s # NoSock
  OBVIOUS
<1> HIDE DEF or1
<1>3. OwnCalls(sk1, nt, or1)
  BY <1>1 DEF OwnCalls, OwnAlone, OwnListen
<1>4. OwnListen(ls1, gs, nt, or1)
  <2>1. \A q \in Ports : sk[q] # NoSock => nt[sk[q]] # "listen"
    BY DEF OwnCalls
  <2>2. ASSUME NEW p \in Ports, ls1[p] # NoSock
        PROVE  nt[ls1[p]] = "listen" /\ ls1[p] \notin or1
    <3>1. ls1[p] = ls[p] /\ p \notin mask /\ nt[ls[p]] = "listen" /\ ls[p] \notin or
      BY <2>2 DEF OwnListen
    <3>2. \A q \in mask : sk[q] # ls[p] /\ ls[q] # ls[p]
      BY <2>1, <2>2, <3>1 DEF OwnAlone
    <3> QED
      BY <1>1, <3>1, <3>2
  <2>3. ASSUME NEW g \in Groups, gs[g] # NoSock
        PROVE  nt[gs[g]] = "listen" /\ gs[g] \notin or1
    <3>1. nt[gs[g]] = "listen" /\ gs[g] \notin or
      BY <2>3 DEF OwnListen
    <3>2. \A q \in mask : sk[q] # gs[g] /\ ls[q] # gs[g]
      BY <2>1, <2>3, <3>1 DEF OwnAlone
    <3> QED
      BY <1>1, <3>1, <3>2
  <2> QED
    BY <2>2, <2>3 DEF OwnListen
<1>5. OwnAlone(sk1, ls1, gs)
  BY DEF OwnAlone
<1>6. OwnAll(sk1, ls1, gs, nt, or1)
  BY <1>1, <1>2 DEF OwnAll, OwnCalls, OwnListen
<1> QED
  BY <1>3, <1>4, <1>5, <1>6 DEF or1

----------------------------------------------------------------------------
(***************************************************************************)
(* The invariant, and the steps that keep it.                              *)
(***************************************************************************)
SOwn == ModeMatchesSocket /\ SocketOwnership
SInv == TInv /\ SOwn

LEMMA SocketTypes ==
    ASSUME TypeOK
    PROVE  /\ sock \in PortSocks /\ listenSock \in PortSocks /\ groupSock \in GroupSocks
           /\ net \in SockStates /\ closing \in SUBSET Socks /\ orphans \in SUBSET Socks
           /\ mode \in [Ports -> {"disc", "listen", "conn"}]
BY DEF TypeOK, LineType, ListenType, NetType, PortSocks, GroupSocks, SockStates

\* Start-up: listeners only, each of them allocated on its own.
LEMMA InitSOwn == Init => SOwn
<1> SUFFICES ASSUME Init PROVE SOwn
  OBVIOUS
<1>1. TypeOK
  BY InitTInv DEF TInv
<1>2. ModeMatchesSocket
  BY DEF Init, ModeMatchesSocket
<1>3. CallsAreLive /\ NobodyShares /\ ClosingQueueExact
  BY DEF Init, CallsAreLive, NobodyShares, ClosingQueueExact
<1>4. ListenersListen
  BY DEF Init, ListenersListen
<1>5. NothingLost
  BY DEF Init, NothingLost, Live
<1> QED
  BY <1>2, <1>3, <1>4, <1>5 DEF SOwn, SocketOwnership

LEMMA KeptSOwn ==
    ASSUME SOwn, UNCHANGED <<lineVars, listenSock, groupSock, net, closing, orphans>>
    PROVE  SOwn'
BY DEF SOwn, lineVars, ModeMatchesSocket, SocketOwnership, CallsAreLive,
       ListenersListen, NobodyShares, ClosingQueueExact, NothingLost

LEMMA EndSOwn ==
    ASSUME TypeOK, SOwn, NEW p \in Ports, sock[p] # NoSock, CloseFast(sock[p]),
           sock' = [sock EXCEPT ![p] = NoSock],
           mode' = [mode EXCEPT ![p] = LineMode(p)],
           UNCHANGED <<listenVars, orphans>>
    PROVE  SOwn'
<1>1. ModeMatchesSocket'
  BY LineModeType, SocketTypes DEF SOwn, ModeMatchesSocket, PortSocks
<1> DEFINE room == IF QueueHasRoom THEN TRUE ELSE FALSE
<1>2. /\ net' = [net EXCEPT ![sock[p]] = IF room THEN "closing" ELSE "free"]
      /\ closing' = IF room THEN closing \cup {sock[p]} ELSE closing
      /\ room \in BOOLEAN
  BY DEF CloseFast, NetClosing
<1>3. listenSock' = listenSock /\ groupSock' = groupSock /\ orphans' = orphans
  BY DEF listenVars
<1> HIDE DEF room
<1>4. SocketOwnership'
  BY <1>2, <1>3, OwnedEnd, SocketTypes, OwnedIsOwnership DEF SOwn
<1> QED
  BY <1>1, <1>4 DEF SOwn

LEMMA TakeSOwn ==
    ASSUME TypeOK, SOwn, NEW p \in Ports, sock[p] = NoSock, NEW s \in Socks,
           net[s] = "pending", TakeCall(p, s, net), UNCHANGED closing
    PROVE  SOwn'
<1> USE DEF TakeCall
<1>1. ModeMatchesSocket'
  BY SocketTypes DEF SOwn, ModeMatchesSocket, PortSocks
<1>2. listenSock' = listenSock /\ groupSock' = groupSock
  BY DEF listenVars
<1>3. SocketOwnership'
  BY <1>2, OwnedTake, SocketTypes, OwnedIsOwnership DEF SOwn
<1> QED
  BY <1>1, <1>3 DEF SOwn

LEMMA TurnAwaySOwn ==
    ASSUME TypeOK, SOwn, NEW s \in Socks, net[s] = "pending", TurnAway(s)
    PROVE  SOwn'
<1>1. ModeMatchesSocket'
  BY DEF SOwn, ModeMatchesSocket, TurnAway, lineVars
<1> DEFINE room == IF QueueHasRoom THEN TRUE ELSE FALSE
<1>2. /\ net' = [net EXCEPT ![s] = IF room THEN "closing" ELSE "free"]
      /\ closing' = IF room THEN closing \cup {s} ELSE closing
      /\ room \in BOOLEAN
  BY DEF TurnAway, CloseFast, NetClosing
<1>3. listenSock' = listenSock /\ groupSock' = groupSock /\ orphans' = orphans
      /\ sock' = sock
  BY DEF TurnAway, listenVars, lineVars
<1> HIDE DEF room
<1>4. SocketOwnership'
  BY <1>2, <1>3, OwnedTurnAway, SocketTypes, OwnedIsOwnership DEF SOwn
<1> QED
  BY <1>1, <1>4 DEF SOwn

LEMMA CheckRingSOwn ==
    ASSUME TypeOK, SOwn, NEW p \in Ports, CheckRing(p)
    PROVE  SOwn'
<1>1. CASE RingQuiet(p) \/ DeliverConnect(p) \/ AutoAnswer(p) \/ RingAgain(p)
  <2>1. UNCHANGED <<lineVars, listenVars, netVars>>
    BY <1>1 DEF RingQuiet, DeliverConnect, AutoAnswer, RingAgain
  <2> QED
    BY <2>1, KeptSOwn DEF listenVars, netVars
<1>2. CASE NoAnswer(p)
  <2>1. CASE sock[p] # NoSock
    BY <1>2, <2>1, EndSOwn DEF NoAnswer
  <2>2. CASE sock[p] = NoSock
    <3>1. sock' = sock /\ UNCHANGED <<listenSock, groupSock, net, closing, orphans>>
      BY <1>2, <2>2, SocketTypes DEF NoAnswer, listenVars, PortSocks
    <3>2. SocketOwnership'
      BY <3>1 DEF SOwn, SocketOwnership, CallsAreLive, ListenersListen, NobodyShares,
                  ClosingQueueExact, NothingLost
    <3>3. ModeMatchesSocket'
      BY <1>2, <2>2, <3>1, LineModeType, SocketTypes DEF NoAnswer, SOwn, ModeMatchesSocket
    <3> QED
      BY <3>2, <3>3 DEF SOwn
  <2> QED
    BY <2>1, <2>2
<1> QED
  BY <1>1, <1>2 DEF CheckRing

LEMMA NetworkSOwn == SInv /\ Network => SOwn'
<1> SUFFICES ASSUME SInv, Network PROVE SOwn'
  OBVIOUS
<1> USE DEF SInv, TInv
<1>1. UNCHANGED <<lineVars, listenVars, closing, orphans>>
  BY DEF Network, ClientConnects, RemoteCloses, ConnectionLost, CloseDone
<1>2. ModeMatchesSocket'
  BY <1>1 DEF SOwn, ModeMatchesSocket, lineVars
<1>3. PICK s \in Socks, x \in NetStates :
        /\ net' = [net EXCEPT ![s] = x]
        /\ \/ net[s] = "free" /\ x = "pending"
           \/ net[s] \in Live /\ x \in Live
           \/ net[s] = "closing" /\ x = "done"
  <2>1. CASE \E l, s \in Socks : ClientConnects(l, s)
    BY <2>1 DEF ClientConnects, FreeSocks, NetStates
  <2>2. CASE \E s \in Socks : RemoteCloses(s)
    BY <2>2 DEF RemoteCloses, NetStates, Live
  <2>3. CASE \E s \in Socks : ConnectionLost(s)
    BY <2>3 DEF ConnectionLost, NetStates, Live
  <2>4. CASE \E s \in Socks : CloseDone(s)
    BY <2>4 DEF CloseDone, NetStates
  <2> QED
    BY <2>1, <2>2, <2>3, <2>4 DEF Network
<1>4. net \in [Socks -> NetStates]
  BY SocketTypes DEF SockStates
<1>5. \A y \in Socks : /\ net'[y] \in Live <=> net[y] \in Live
                       /\ net'[y] = "listen" <=> net[y] = "listen"
                       /\ net'[y] \in {"closing", "done"} <=> net[y] \in {"closing", "done"}
  BY <1>3, <1>4 DEF Live
<1>6. CallsAreLive' /\ ListenersListen' /\ NobodyShares'
  BY <1>1, <1>5, SocketTypes DEF SOwn, SocketOwnership, CallsAreLive, ListenersListen,
        NobodyShares, lineVars, listenVars, PortSocks, GroupSocks
<1>7. ClosingQueueExact' /\ NothingLost'
  <2>1. ClosingQueueExact'
    BY <1>1, <1>5 DEF SOwn, SocketOwnership, ClosingQueueExact
  <2>2. \A y \in orphans : y \in Socks
    BY SocketTypes
  <2>3. \A y \in Socks : net'[y] \in Live \cup {"listen"} <=> net[y] \in Live \cup {"listen"}
    BY <1>5
  <2>4. sock' = sock /\ listenSock' = listenSock /\ groupSock' = groupSock
        /\ orphans' = orphans
    BY <1>1 DEF lineVars, listenVars
  <2>5. NothingLost'
    BY <1>5, <2>2, <2>3, <2>4 DEF SOwn, SocketOwnership, NothingLost
  <2> QED
    BY <2>1, <2>5
<1> QED
  BY <1>2, <1>6, <1>7 DEF SOwn, SocketOwnership

LEMMA DrainSOwn == SInv /\ PollDrain => SOwn'
<1> SUFFICES ASSUME SInv, PollDrain PROVE SOwn'
  OBVIOUS
<1> USE DEF SInv, TInv
<1>1. sock' = sock /\ mode' = mode /\ listenSock' = listenSock /\ groupSock' = groupSock
      /\ orphans' = orphans
  BY DEF PollDrain, lineVars, listenVars
<1>2. ModeMatchesSocket'
  BY <1>1 DEF SOwn, ModeMatchesSocket
<1>3. \A s \in Socks : net[s] # "done" => net'[s] = net[s]
  BY DEF PollDrain, Finished
<1>4. \A s \in Socks : net[s] = "done" => net'[s] = "free" /\ s \notin closing'
  BY DEF PollDrain, Finished, SOwn, SocketOwnership, ClosingQueueExact
<1>5. \A s \in Socks : net[s] # "done" => (s \in closing' <=> s \in closing)
  BY DEF PollDrain, Finished
<1>6. CallsAreLive' /\ ListenersListen' /\ NobodyShares'
  <2>1. CallsAreLive'
    BY <1>1, <1>3, SocketTypes DEF SOwn, SocketOwnership, CallsAreLive, Live, PortSocks
  <2>2. ListenersListen'
    BY <1>1, <1>3, SocketTypes
       DEF SOwn, SocketOwnership, ListenersListen, PortSocks, GroupSocks
  <2>3. NobodyShares'
    BY <1>1 DEF SOwn, SocketOwnership, NobodyShares
  <2> QED
    BY <2>1, <2>2, <2>3
<1>7. ClosingQueueExact'
  BY <1>3, <1>4, <1>5 DEF SOwn, SocketOwnership, ClosingQueueExact
<1>8. NothingLost'
  <2>1. \A s \in Socks : net'[s] \in Live \cup {"listen"} => net'[s] = net[s]
    BY <1>3, <1>4 DEF Live
  <2>2. \A s \in orphans : s \in Socks /\ net[s] # "done"
    BY SocketTypes DEF SOwn, SocketOwnership, NothingLost, Live
  <2> QED
    BY <1>1, <1>3, <2>1, <2>2 DEF SOwn, SocketOwnership, NothingLost
<1> QED
  BY <1>2, <1>6, <1>7, <1>8 DEF SOwn, SocketOwnership

LEMMA PollStepSOwn == SInv /\ PollStep => SOwn'
<1> SUFFICES ASSUME SInv, PollStep PROVE SOwn'
  OBVIOUS
<1> USE DEF SInv, TInv
<1>0. TypeOK /\ PollType /\ ModeMatchesSocket
  BY DEF TypeOK, SOwn
<1>1. CASE PollDrain
  BY <1>1, DrainSOwn
<1>2. CASE HuntSkip \/ PortNoCaller \/ NothingToClose \/ PortTraffic
  <2>1. UNCHANGED <<lineVars, listenVars, netVars>>
    BY <1>2 DEF HuntSkip, PortNoCaller, NothingToClose, PortTraffic
  <2> QED
    BY <2>1, KeptSOwn DEF listenVars, netVars
<1>3. CASE \E s \in Socks : HuntAccept(s)
  <2>1. PICK s \in Socks : HuntAccept(s)
    BY <1>3
  <2>2. PICK p \in Ports : IsFirst(p, FreeMembers(poll.i)) /\ TakeCall(p, s, net)
    BY <2>1 DEF HuntAccept
  <2>3. sock[p] = NoSock /\ net[s] = "pending"
    BY <2>1, <2>2 DEF HuntAccept, IsFirst, FreeMembers, PendingAccept
  <2> QED
    BY <1>0, <2>1, <2>2, <2>3, TakeSOwn DEF HuntAccept
<1>4. CASE \E s \in Socks : HuntReject(s) \/ PortBusyReject(s)
  <2>1. PICK s \in Socks : TurnAway(s) /\ net[s] = "pending"
    BY <1>4 DEF HuntReject, PortBusyReject, PendingAccept
  <2> QED
    BY <1>0, <2>1, TurnAwaySOwn
<1>5. CASE PortIdle
  <2>1. poll.i \in Ports
    BY <1>0, <1>5, PollAdvances DEF PortIdle
  <2>2. mode[poll.i] # "conn"
    BY <1>0, <1>5, <2>1 DEF PortIdle, Connected, ModeMatchesSocket
  <2>3. UNCHANGED <<lineVars, listenVars, netVars>>
    BY <1>5, <2>2 DEF PortIdle, lineVars
  <2> QED
    BY <2>3, KeptSOwn DEF listenVars, netVars
<1>6. CASE \E s \in Socks : PortAccept(s)
  <2>1. PICK s \in Socks : PortAccept(s)
    BY <1>6
  <2>2. poll.i \in Ports
    BY <1>0, <2>1, PollAdvances DEF PortAccept
  <2>3. sock[poll.i] = NoSock /\ net[s] = "pending"
    BY <1>0, <2>1, <2>2 DEF PortAccept, Accepts, ModeMatchesSocket, PendingAccept
  <2>4. TakeCall(poll.i, s, net) /\ UNCHANGED closing
    BY <2>1, <2>3 DEF PortAccept
  <2> QED
    BY <1>0, <2>2, <2>3, <2>4, TakeSOwn
<1>7. CASE PortRing
  <2>1. poll.i \in Ports /\ CheckRing(poll.i)
    BY <1>0, <1>7, PollAdvances DEF PortRing
  <2> QED
    BY <1>0, <2>1, CheckRingSOwn
<1>8. CASE PollClose \/ PortIdleTimeout \/ PortDisconnect
  <2>1. poll.i \in Ports /\ sock[poll.i] # NoSock /\ EndCall(poll.i)
    BY <1>0, <1>8, PollAdvances
       DEF PollClose, PortIdleTimeout, PortDisconnect, SocketHeldInService
  <2> QED
    BY <1>0, <2>1, EndSOwn DEF EndCall
<1>9. CASE StatusTail
  <2>1. poll.caller \in Ports /\ CheckRing(poll.caller)
    BY <1>0, <1>9 DEF StatusTail, PollType
  <2> QED
    BY <1>0, <2>1, CheckRingSOwn
<1> QED
  BY <1>1, <1>2, <1>3, <1>4, <1>5, <1>6, <1>7, <1>8, <1>9 DEF PollStep

\* AH=04h may close a call and then open a listener, for the port or its group.
LEMMA FossilInitSOwn == ASSUME SInv, NEW p \in Ports, FossilInit(p) PROVE SOwn'
<1> USE DEF SInv, TInv
<1> DEFINE disc == pendingClose[p] \/ (Connected(p) /\ purgeSeen[p] >= 3)
           closes == disc /\ sock[p] # NoSock
           m == IF disc THEN LineMode(p) ELSE mode[p]
           n == IF closes THEN NetClosing(sock[p]) ELSE net
<1>1. OpenListener(p, m, n)
  BY DEF FossilInit
<1>2. Owned(sock', listenSock, groupSock, n, closing', orphans)
  <2>1. CASE closes
    <3> DEFINE room == IF QueueHasRoom THEN TRUE ELSE FALSE
    <3>1. /\ n = [net EXCEPT ![sock[p]] = IF room THEN "closing" ELSE "free"]
          /\ closing' = IF room THEN closing \cup {sock[p]} ELSE closing
          /\ sock' = [sock EXCEPT ![p] = NoSock]
          /\ room \in BOOLEAN
      BY <2>1 DEF FossilInit, NetClosing
    <3> HIDE DEF room, n
    <3> QED
      BY <2>1, <3>1, OwnedEnd, SocketTypes, OwnedIsOwnership DEF SOwn
  <2>2. CASE ~closes
    <3>1. n = net /\ closing' = closing
      BY <2>2 DEF FossilInit
    <3>2. sock' = sock
      BY <2>2, SocketTypes DEF FossilInit, PortSocks
    <3> QED
      BY <3>1, <3>2, OwnedIsOwnership DEF SOwn
  <2> QED
    BY <2>1, <2>2
<1>3. /\ sock' \in PortSocks /\ n \in SockStates /\ closing' \in SUBSET Socks
      /\ m \in {"disc", "listen", "conn"} /\ orphans' = orphans
  <2>1. sock' \in PortSocks /\ closing' \in SUBSET Socks
    BY SocketTypes DEF FossilInit, PortSocks
  <2>2. n \in SockStates
    BY SocketTypes, NetClosingType DEF TypeOK, SockStates
  <2>3. m \in {"disc", "listen", "conn"}
    BY SocketTypes, LineModeType
  <2> QED
    BY <2>1, <2>2, <2>3 DEF FossilInit
<1>4. mode'[p] = "conn" <=> m = "conn"
  BY <1>1, <1>3, SocketTypes DEF OpenListener
<1>5. \A q \in Ports : q # p => mode'[q] = mode[q]
  BY <1>1, SocketTypes DEF OpenListener
<1>6. ModeMatchesSocket'
  <2>1. m = "conn" <=> sock'[p] # NoSock
    BY LineModeType, SocketTypes DEF FossilInit, SOwn, ModeMatchesSocket, PortSocks
  <2>2. \A q \in Ports : q # p => sock'[q] = sock[q]
    BY SocketTypes DEF FossilInit, PortSocks
  <2> QED
    BY <1>4, <1>5, <2>1, <2>2 DEF SOwn, ModeMatchesSocket
<1> HIDE DEF m, n
<1>7. Owned(sock', listenSock', groupSock', net', closing', orphans)
  <2>1. CASE \E s \in Socks :
               /\ n[s] = "free" /\ net' = [n EXCEPT ![s] = "listen"]
               /\ \/ /\ listenSock[p] = NoSock /\ groupSock' = groupSock
                     /\ listenSock' = [listenSock EXCEPT ![p] = s]
                  \/ /\ groupSock[hunt[p]] = NoSock /\ hunt[p] \in Groups
                     /\ listenSock' = listenSock
                     /\ groupSock' = [groupSock EXCEPT ![hunt[p]] = s]
    <3>1. PICK s \in Socks :
               /\ n[s] = "free" /\ net' = [n EXCEPT ![s] = "listen"]
               /\ \/ /\ listenSock[p] = NoSock /\ groupSock' = groupSock
                     /\ listenSock' = [listenSock EXCEPT ![p] = s]
                  \/ /\ groupSock[hunt[p]] = NoSock /\ hunt[p] \in Groups
                     /\ listenSock' = listenSock
                     /\ groupSock' = [groupSock EXCEPT ![hunt[p]] = s]
      BY <2>1
    <3>2. CASE listenSock[p] = NoSock /\ groupSock' = groupSock
                 /\ listenSock' = [listenSock EXCEPT ![p] = s]
      BY <1>2, <1>3, <3>1, <3>2, OwnedListen, SocketTypes
    <3>3. CASE groupSock[hunt[p]] = NoSock /\ hunt[p] \in Groups
                 /\ listenSock' = listenSock
                 /\ groupSock' = [groupSock EXCEPT ![hunt[p]] = s]
      BY <1>2, <1>3, <3>1, <3>3, OwnedListen, SocketTypes
    <3> QED
      BY <3>1, <3>2, <3>3
  <2>2. CASE net' = n /\ UNCHANGED <<listenSock, groupSock>>
    BY <1>2, <2>2
  <2>3. hunt[p] # NoGroup => hunt[p] \in Groups
    BY DEF TypeOK, ListenType, NoGroup, Groups
  <2> QED
    BY <1>1, <2>1, <2>2, <2>3 DEF OpenListener
<1> QED
  BY <1>3, <1>6, <1>7, OwnedIsOwnership DEF SOwn

LEMMA CallSOwn ==
    ASSUME SInv, NEW p \in Ports, Fossil(p) \/ AtCommand(p)
    PROVE  SOwn'
<1> USE DEF SInv, TInv
<1>1. CASE FossilInit(p)
  BY <1>1, FossilInitSOwn
<1>2. CASE ~FossilInit(p)
  <2>1. UNCHANGED <<lineVars, listenVars, netVars>>
    BY <1>2 DEF Fossil, StatusPoll, StartPoll, FossilDeinit, DropDtr, RaiseDtr,
         PurgeOutput, AtCommand, AtAnswer, AtEscape, AtHangup, AtOnline, AtReset,
         AtIgnoreDtr, AtSetS0, AtSetIdle
  <2> QED
    BY <2>1, KeptSOwn DEF listenVars, netVars
<1> QED
  BY <1>1, <1>2

LEMMA MuxSOwn == SInv /\ Mux => SOwn'
<1> SUFFICES ASSUME SInv, Mux PROVE SOwn'
  OBVIOUS
<1> USE DEF SInv, TInv
<1>0. TypeOK /\ ModeMatchesSocket
  BY DEF SOwn
<1>1. CASE MuxPoll \/ \E p \in Ports : CmdDisconnect(p)
  <2>1. UNCHANGED <<lineVars, listenVars, netVars>>
    BY <1>1 DEF MuxPoll, StartPoll, CmdDisconnect
  <2> QED
    BY <2>1, KeptSOwn DEF listenVars, netVars
<1>2. ASSUME NEW mask \in SUBSET Ports,
             sock' = [p \in Ports |-> IF p \in mask THEN NoSock ELSE sock[p]],
             listenSock' = [p \in Ports |-> IF p \in mask THEN NoSock ELSE listenSock[p]],
             mode' = [p \in Ports |-> IF p \in mask THEN "disc" ELSE mode[p]],
             orphans' = (orphans \cup {sock[p] : p \in mask}
                            \cup {listenSock[p] : p \in mask}) \ {NoSock},
             UNCHANGED <<groupSock, net, closing>>
      PROVE  SOwn'
  <2>1. ModeMatchesSocket'
    BY <1>0, <1>2 DEF ModeMatchesSocket
  <2>2. SocketOwnership'
    BY <1>0, <1>2, OwnedForget, SocketTypes, OwnedIsOwnership DEF SOwn
  <2> QED
    BY <2>1, <2>2 DEF SOwn
<1>3. ASSUME NEW p \in Ports, CmdListen(p) PROVE SOwn'
  <2> DEFINE mask == {p}
  <2>1. sock' = [q \in Ports |-> IF q \in mask THEN NoSock ELSE sock[q]]
    BY <1>0, <1>3, SocketTypes DEF CmdListen, PortSocks
  <2>2. listenSock' = [q \in Ports |-> IF q \in mask THEN NoSock ELSE listenSock[q]]
    BY <1>0, <1>3, SocketTypes DEF CmdListen, PortSocks
  <2>3. mode' = [q \in Ports |-> IF q \in mask THEN "disc" ELSE mode[q]]
    BY <1>0, <1>3, SocketTypes DEF CmdListen
  <2>4. orphans' = (orphans \cup {sock[q] : q \in mask}
                        \cup {listenSock[q] : q \in mask}) \ {NoSock}
    <3>1. NoSock \notin orphans
      BY <1>0, SocketTypes
    <3> QED
      BY <1>3, <3>1 DEF CmdListen
  <2>5. UNCHANGED <<groupSock, net, closing>> /\ mask \in SUBSET Ports
    BY <1>3 DEF CmdListen
  <2> QED
    BY <1>2, <2>1, <2>2, <2>3, <2>4, <2>5
<1>4. ASSUME NEW mask \in SUBSET Ports \ {{}}, CmdHuntListen(mask) PROVE SOwn'
  BY <1>2, <1>4 DEF CmdHuntListen
<1> QED
  BY <1>1, <1>3, <1>4 DEF Mux

----------------------------------------------------------------------------
LEMMA NextSInv == SInv /\ [Next]_vars => SInv'
<1> SUFFICES ASSUME SInv, [Next]_vars PROVE SInv'
  OBVIOUS
<1>1. TInv'
  BY NextTInv DEF SInv
<1>2. SOwn'
  <2>1. CASE Network
    BY <2>1, NetworkSOwn
  <2>2. CASE Int28Poll \/ UNCHANGED vars
    <3>1. UNCHANGED <<lineVars, listenVars, netVars>>
      BY <2>2 DEF Int28Poll, StartPoll, vars
    <3> QED
      BY <3>1, KeptSOwn DEF SInv, listenVars, netVars
  <2>3. CASE PollStep
    BY <2>3, PollStepSOwn
  <2>4. CASE \E p \in Ports : Fossil(p) \/ AtCommand(p)
    BY <2>4, CallSOwn
  <2>5. CASE Mux
    BY <2>5, MuxSOwn
  <2> QED
    BY <2>1, <2>2, <2>3, <2>4, <2>5 DEF Next
<1> QED
  BY <1>1, <1>2 DEF SInv

LEMMA AlwaysSInv == Spec => []SInv
<1>1. Init => SInv
  BY InitTInv, InitSOwn DEF SInv
<1> QED
  BY <1>1, NextSInv, PTL DEF Spec

\* Every socket that mTCP took from its pool is held in exactly one place, for
\* any number of ports, groups and sockets: no close or free is done twice and
\* none is forgotten but by the INT 2Fh listen commands.
THEOREM SocketsOwned == Spec => []SocketOwnership
<1>1. SInv => SocketOwnership
  BY DEF SInv, SOwn
<1> QED
  BY <1>1, AlwaysSInv, PTL

\* A port is in PORT_CONN exactly while it has a socket (int14.c:536,
\* poll.c:354, atcmd.c:242 set the two apart).
THEOREM ModeIsSocket == Spec => []ModeMatchesSocket
<1>1. SInv => ModeMatchesSocket
  BY DEF SInv, SOwn
<1> QED
  BY <1>1, AlwaysSInv, PTL

----------------------------------------------------------------------------
(***************************************************************************)
(* The course of a call.                                                   *)
(***************************************************************************)
\* UnansweredCallRings of one port; a call that rings was not answered; and a
\* port that waits for a caller has nothing left of its last call.
CallerRings(p)     == Connected(p) /\ ~answered[p] => ringing[p] /\ ~connPending[p]
RingsUnanswered(p) == ringing[p] => ~answered[p]
QuietLine(p)       == mode[p] = "listen" => ~ringing[p] /\ ~connPending[p]
PortCall(p)        == CallerRings(p) /\ RingsUnanswered(p) /\ QuietLine(p)
Calls              == \A p \in Ports : PortCall(p)

\* A hang-up request that could be served was served before bytes are moved.
RequestSeen == poll.phase = "traffic" /\ poll.safe => ~pendingClose[poll.i]

CInv == SInv /\ Calls /\ NoDeadLine /\ RequestSeen

LEMMA CallTypes ==
    ASSUME TypeOK
    PROVE  /\ ringing \in [Ports -> BOOLEAN] /\ connPending \in [Ports -> BOOLEAN]
           /\ answered \in [Ports -> BOOLEAN] /\ pendingClose \in [Ports -> BOOLEAN]
           /\ fossilInit \in [Ports -> BOOLEAN]
           /\ sock \in PortSocks /\ listenSock \in PortSocks
           /\ mode \in [Ports -> {"disc", "listen", "conn"}]
BY SocketTypes DEF TypeOK, AtType, HistType, FlagType, FossilType

\* A step that moves no call of port p.
LEMMA PortCallKept ==
    ASSUME NEW p \in Ports, PortCall(p), mode'[p] = mode[p], sock'[p] = sock[p],
           ringing'[p] = ringing[p], connPending'[p] = connPending[p],
           answered'[p] = answered[p]
    PROVE  PortCall(p)'
BY DEF PortCall, CallerRings, RingsUnanswered, QuietLine, Connected

LEMMA CallsKept ==
    ASSUME Calls, UNCHANGED <<lineVars, ringing, connPending, answered>>
    PROVE  Calls'
BY PortCallKept DEF Calls, lineVars

\* at_send_connect, on a port that is not waiting for a caller.
LEMMA AnswerCalls ==
    ASSUME TypeOK, Calls, NEW p \in Ports, AtSendConnect(p), mode[p] # "listen",
           UNCHANGED lineVars
    PROVE  Calls'
<1> SUFFICES ASSUME NEW q \in Ports PROVE PortCall(q)'
  BY DEF Calls
<1>1. CASE q = p
  <2>1. answered'[p] /\ ~ringing'[p] /\ mode'[p] # "listen"
    BY CallTypes DEF AtSendConnect, lineVars
  <2> QED
    BY <1>1, <2>1 DEF PortCall, CallerRings, RingsUnanswered, QuietLine
<1>2. CASE q # p
  <2>1. /\ ringing'[q] = ringing[q] /\ connPending'[q] = connPending[q]
        /\ answered'[q] = answered[q]
    BY <1>2, CallTypes DEF AtSendConnect
  <2> QED
    BY <2>1, PortCallKept DEF Calls, lineVars
<1> QED
  BY <1>1, <1>2

\* A call of port p ends and leaves the modem quiet.
LEMMA EndCalls ==
    ASSUME TypeOK, Calls, NEW p \in Ports,
           sock' = [sock EXCEPT ![p] = NoSock],
           mode' = [mode EXCEPT ![p] = LineMode(p)],
           ringing' = [ringing EXCEPT ![p] = FALSE], ~connPending'[p],
           \A q \in Ports : q # p => connPending'[q] = connPending[q],
           answered' = answered
    PROVE  Calls'
<1> SUFFICES ASSUME NEW q \in Ports PROVE PortCall(q)'
  BY DEF Calls
<1>1. CASE q = p
  <2>1. sock'[p] = NoSock /\ ~ringing'[p]
    BY CallTypes DEF PortSocks
  <2> QED
    BY <1>1, <2>1 DEF PortCall, CallerRings, RingsUnanswered, QuietLine, Connected
<1>2. CASE q # p
  BY <1>2, PortCallKept, CallTypes DEF Calls, PortSocks
<1> QED
  BY <1>1, <1>2

\* A port that waits for callers takes one.
LEMMA TakeCalls ==
    ASSUME TypeOK, Calls, NEW p \in Ports, mode[p] = "listen", NEW s \in Socks,
           TakeCall(p, s, net)
    PROVE  Calls'
<1> SUFFICES ASSUME NEW q \in Ports PROVE PortCall(q)'
  BY DEF Calls
<1>1. connPending' = connPending
  BY DEF TakeCall
<1>2. CASE q = p
  <2>1. mode'[p] = "conn" /\ ringing'[p] /\ ~answered'[p] /\ ~connPending'[p]
    BY <1>1, CallTypes DEF TakeCall, Calls, PortCall, QuietLine
  <2> QED
    BY <1>2, <2>1 DEF PortCall, CallerRings, RingsUnanswered, QuietLine
<1>3. CASE q # p
  BY <1>1, <1>3, PortCallKept, CallTypes DEF TakeCall, Calls, PortSocks
<1> QED
  BY <1>2, <1>3

\* at_check_ring: the line that is given up on becomes quiet.
LEMMA CheckRingCalls ==
    ASSUME TypeOK, Calls, NEW p \in Ports, CheckRing(p)
    PROVE  Calls'
<1>1. CASE RingQuiet(p) \/ RingAgain(p)
  BY <1>1, CallsKept DEF RingQuiet, RingAgain, atVars, histVars
<1>2. CASE DeliverConnect(p)
  <2> SUFFICES ASSUME NEW q \in Ports PROVE PortCall(q)'
    BY DEF Calls
  <2>1. /\ connPending' = [connPending EXCEPT ![p] = FALSE]
        /\ UNCHANGED <<mode, sock, ringing, answered>>
    BY <1>2 DEF DeliverConnect, lineVars, histVars
  <2> QED
    BY <2>1, CallTypes
       DEF Calls, PortCall, CallerRings, RingsUnanswered, QuietLine, Connected
<1>3. CASE AutoAnswer(p)
  <2>1. mode[p] # "listen"
    BY <1>3 DEF AutoAnswer, RingDue, Calls, PortCall, QuietLine
  <2> QED
    BY <1>3, <2>1, AnswerCalls DEF AutoAnswer
<1>4. CASE NoAnswer(p)
  BY <1>4, EndCalls DEF NoAnswer, RingDue, histVars
<1> QED
  BY <1>1, <1>2, <1>3, <1>4 DEF CheckRing

\* AH=04h resets the modem of its port and puts unanswered ringing back.
LEMMA FossilInitCalls ==
    ASSUME SInv, Calls, NEW p \in Ports, FossilInit(p)
    PROVE  Calls'
<1> USE DEF SInv, TInv
<1> DEFINE disc == pendingClose[p] \/ (Connected(p) /\ purgeSeen[p] >= 3)
<1> SUFFICES ASSUME NEW q \in Ports PROVE PortCall(q)'
  BY DEF Calls
<1>1. /\ ringing' = [ringing EXCEPT ![p] = StillRings(p, disc)]
      /\ connPending' = [connPending EXCEPT ![p] = FALSE]
      /\ sock' = [sock EXCEPT ![p] = IF disc THEN NoSock ELSE @]
      /\ answered' = answered
  BY DEF FossilInit, histVars
<1>2. \A r \in Ports : r # p => mode'[r] = mode[r]
  BY CallTypes DEF FossilInit, OpenListener
<1>3. CASE q = p
  <2>1. ~connPending'[p] /\ (ringing'[p] <=> StillRings(p, disc))
    BY <1>1, CallTypes
  <2>2. mode'[p] = "listen" => ~StillRings(p, disc)
    <3> SUFFICES ASSUME StillRings(p, disc) PROVE mode'[p] = "conn"
      OBVIOUS
    <3>1. ~disc /\ mode[p] = "conn"
      BY DEF StillRings, Connected
    <3> QED
      BY <3>1, CallTypes DEF FossilInit, OpenListener
  <2>3. CallerRings(p)'
    <3> SUFFICES ASSUME Connected(p)', ~answered'[p] PROVE StillRings(p, disc)
      BY <2>1 DEF CallerRings
    <3>1. ~disc /\ sock[p] # NoSock
      BY <1>1, CallTypes DEF Connected, PortSocks
    <3>2. Connected(p) /\ ringing[p]
      BY <1>1, <3>1 DEF Connected, SOwn, ModeMatchesSocket, Calls, PortCall,
                        CallerRings
    <3> QED
      BY <3>1, <3>2 DEF StillRings
  <2>4. RingsUnanswered(p)'
    BY <1>1, <2>1 DEF StillRings, Calls, PortCall, RingsUnanswered
  <2> QED
    BY <1>3, <2>1, <2>2, <2>3, <2>4 DEF PortCall, QuietLine
<1>4. CASE q # p
  BY <1>1, <1>2, <1>4, PortCallKept, CallTypes DEF Calls, PortSocks
<1> QED
  BY <1>3, <1>4

\* The ports of mask forget their calls and are out of service.
LEMMA ForgetCalls ==
    ASSUME TypeOK, Calls, NEW mask \in SUBSET Ports,
           \A q \in Ports : IF q \in mask THEN sock'[q] = NoSock /\ mode'[q] = "disc"
                            ELSE sock'[q] = sock[q] /\ mode'[q] = mode[q],
           UNCHANGED <<ringing, connPending, answered>>
    PROVE  Calls'
BY DEF Calls, PortCall, CallerRings, RingsUnanswered, QuietLine, Connected

----------------------------------------------------------------------------
(***************************************************************************)
(* Calls is kept by every step.                                            *)
(***************************************************************************)
LEMMA PollStepCalls == SInv /\ Calls /\ PollStep => Calls'
<1> SUFFICES ASSUME SInv, Calls, PollStep PROVE Calls'
  OBVIOUS
<1> USE DEF SInv, TInv
<1>0. TypeOK /\ PollType /\ ModeMatchesSocket
  BY DEF TypeOK, SOwn
<1>1. CASE PollDrain \/ HuntSkip \/ PortNoCaller \/ NothingToClose \/ PortTraffic
  <2>1. UNCHANGED <<lineVars, ringing, connPending, answered>>
    BY <1>1 DEF PollDrain, HuntSkip, PortNoCaller, NothingToClose, PortTraffic,
                atVars, histVars
  <2> QED
    BY <2>1, CallsKept
<1>2. CASE \E s \in Socks : HuntAccept(s)
  <2>1. PICK s \in Socks, p \in Ports :
           IsFirst(p, FreeMembers(poll.i)) /\ TakeCall(p, s, net)
    BY <1>2 DEF HuntAccept
  <2>2. mode[p] = "listen"
    BY <2>1 DEF IsFirst, FreeMembers
  <2> QED
    BY <1>0, <2>1, <2>2, TakeCalls
<1>3. CASE \E s \in Socks : HuntReject(s) \/ PortBusyReject(s)
  <2>1. UNCHANGED <<lineVars, ringing, connPending, answered>>
    BY <1>3 DEF HuntReject, PortBusyReject, TurnAway, atVars, histVars
  <2> QED
    BY <2>1, CallsKept
<1>4. CASE PortIdle
  <2>1. poll.i \in Ports
    BY <1>0, <1>4, PollAdvances DEF PortIdle
  <2>2. mode[poll.i] # "conn"
    BY <1>0, <1>4, <2>1 DEF PortIdle, Connected, ModeMatchesSocket
  <2>3. UNCHANGED <<lineVars, ringing, connPending, answered>>
    BY <1>4, <2>2 DEF PortIdle, lineVars, atVars, histVars
  <2> QED
    BY <2>3, CallsKept
<1>5. CASE \E s \in Socks : PortAccept(s)
  <2>1. PICK s \in Socks : PortAccept(s)
    BY <1>5
  <2>2. poll.i \in Ports /\ mode[poll.i] = "listen"
    BY <1>0, <2>1, PollAdvances DEF PortAccept, Accepts
  <2>3. TakeCall(poll.i, s, net)
    BY <1>0, <2>1, <2>2 DEF PortAccept, ModeMatchesSocket
  <2> QED
    BY <1>0, <2>2, <2>3, TakeCalls
<1>6. CASE PortRing
  <2>1. poll.i \in Ports /\ CheckRing(poll.i)
    BY <1>0, <1>6, PollAdvances DEF PortRing
  <2> QED
    BY <1>0, <2>1, CheckRingCalls
<1>7. CASE PollClose \/ PortIdleTimeout \/ PortDisconnect
  <2>1. poll.i \in Ports /\ EndCall(poll.i)
    BY <1>0, <1>7, PollAdvances DEF PollClose, PortIdleTimeout, PortDisconnect
  <2>2. /\ sock' = [sock EXCEPT ![poll.i] = NoSock]
        /\ mode' = [mode EXCEPT ![poll.i] = LineMode(poll.i)]
        /\ ringing' = [ringing EXCEPT ![poll.i] = FALSE]
        /\ connPending' = [connPending EXCEPT ![poll.i] = FALSE]
        /\ answered' = answered
    BY <2>1 DEF EndCall, AtSendNoCarrier, histVars
  <2>3. /\ ~connPending'[poll.i]
        /\ \A q \in Ports : q # poll.i => connPending'[q] = connPending[q]
    BY <1>0, <2>1, <2>2, CallTypes
  <2> QED
    BY <1>0, <2>1, <2>2, <2>3, EndCalls
<1>8. CASE StatusTail
  <2>1. poll.caller \in Ports /\ CheckRing(poll.caller)
    BY <1>0, <1>8 DEF StatusTail, PollType
  <2> QED
    BY <1>0, <2>1, CheckRingCalls
<1> QED
  BY <1>1, <1>2, <1>3, <1>4, <1>5, <1>6, <1>7, <1>8 DEF PollStep

\* FOSSIL calls and AT commands: only a port that is in a call is answered.
LEMMA CallCalls ==
    ASSUME SInv, Calls, NEW p \in Ports, Fossil(p) \/ AtCommand(p)
    PROVE  Calls'
<1> USE DEF SInv, TInv
<1>1. CASE FossilInit(p)
  BY <1>1, FossilInitCalls
<1>2. CASE RaiseDtr(p) \/ AtAnswer(p) \/ AtOnline(p)
  <2>1. UNCHANGED lineVars
    BY <1>2 DEF RaiseDtr, AtAnswer, AtOnline
  <2>2. \/ AtSendConnect(p) /\ mode[p] # "listen"
        \/ UNCHANGED <<ringing, connPending, answered>>
    BY <1>2 DEF RaiseDtr, AtAnswer, AtOnline, atVars, histVars
  <2> QED
    BY <2>1, <2>2, AnswerCalls, CallsKept
<1>3. CASE \/ StatusPoll(p) \/ FossilDeinit(p) \/ DropDtr(p) \/ PurgeOutput(p)
           \/ AtEscape(p) \/ AtHangup(p) \/ AtReset(p)
           \/ \E b \in BOOLEAN : AtIgnoreDtr(p, b) \/ AtSetIdle(p, b)
           \/ \E n \in 0 .. MaxS0 : AtSetS0(p, n)
  <2>1. UNCHANGED <<lineVars, ringing, connPending, answered>>
    BY <1>3 DEF StatusPoll, StartPoll, FossilDeinit, DropDtr, PurgeOutput,
                AtEscape, AtHangup, AtReset, AtIgnoreDtr, AtSetIdle, AtSetS0,
                AskHangup, atVars, histVars
  <2> QED
    BY <2>1, CallsKept
<1> QED
  BY <1>1, <1>2, <1>3 DEF Fossil, AtCommand

\* INT 2Fh: the listen commands take ports out of service.
LEMMA MuxCalls == SInv /\ Calls /\ Mux => Calls'
<1> SUFFICES ASSUME SInv, Calls, Mux PROVE Calls'
  OBVIOUS
<1> USE DEF SInv, TInv
<1>1. CASE MuxPoll \/ \E p \in Ports : CmdDisconnect(p)
  <2>1. UNCHANGED <<lineVars, ringing, connPending, answered>>
    BY <1>1 DEF MuxPoll, StartPoll, CmdDisconnect, AskHangup, atVars, histVars
  <2> QED
    BY <2>1, CallsKept
<1>2. ASSUME NEW p \in Ports, CmdListen(p) PROVE Calls'
  <2> DEFINE mask == {p}
  <2>1. \A q \in Ports :
           IF q \in mask THEN sock'[q] = NoSock /\ mode'[q] = "disc"
           ELSE sock'[q] = sock[q] /\ mode'[q] = mode[q]
    BY <1>2, CallTypes DEF CmdListen, PortSocks
  <2>2. UNCHANGED <<ringing, connPending, answered>> /\ mask \in SUBSET Ports
    BY <1>2 DEF CmdListen, AskHangup, atVars, histVars
  <2> QED
    BY <2>1, <2>2, ForgetCalls
<1>3. ASSUME NEW mask \in SUBSET Ports, CmdHuntListen(mask) PROVE Calls'
  <2>1. \A q \in Ports :
           IF q \in mask THEN sock'[q] = NoSock /\ mode'[q] = "disc"
           ELSE sock'[q] = sock[q] /\ mode'[q] = mode[q]
    BY <1>3 DEF CmdHuntListen
  <2>2. UNCHANGED <<ringing, connPending, answered>>
    BY <1>3 DEF CmdHuntListen, atVars, histVars
  <2> QED
    BY <2>1, <2>2, ForgetCalls
<1> QED
  BY <1>1, <1>2, <1>3 DEF Mux

LEMMA NextCalls == SInv /\ Calls /\ [Next]_vars => Calls'
<1> SUFFICES ASSUME SInv, Calls, [Next]_vars PROVE Calls'
  OBVIOUS
<1>1. CASE Network \/ Int28Poll \/ UNCHANGED vars
  <2>1. UNCHANGED <<lineVars, atVars, histVars>>
    BY <1>1 DEF Network, ClientConnects, RemoteCloses, ConnectionLost, CloseDone,
                Int28Poll, StartPoll, vars
  <2> QED
    BY <2>1, CallsKept DEF atVars, histVars
<1>2. CASE PollStep
  BY <1>2, PollStepCalls
<1>3. CASE \E p \in Ports : Fossil(p) \/ AtCommand(p)
  BY <1>3, CallCalls
<1>4. CASE Mux
  BY <1>4, MuxCalls
<1> QED
  BY <1>1, <1>2, <1>3, <1>4 DEF Next

----------------------------------------------------------------------------
(***************************************************************************)
(* No way that a call ends leaves its line dead.                           *)
(***************************************************************************)
\* A step of the poll cycle leaves a port as it is, in a call, or as LineMode
\* says; the rest of what NoDeadLine speaks of does not change.
Relined == /\ UNCHANGED <<fossilInit, hunt, listenSock>>
           /\ \A p \in Ports : mode'[p] \in {mode[p], "conn", LineMode(p)}

LEMMA RelinedAlive == ASSUME NoDeadLine, Relined PROVE NoDeadLine'
BY DEF NoDeadLine, Relined, LineMode

LEMMA OneRelined ==
    ASSUME TypeOK, NEW p \in Ports, NEW m \in {"conn", LineMode(p)},
           mode' = [mode EXCEPT ![p] = m], UNCHANGED <<fossilInit, hunt, listenSock>>
    PROVE  Relined
BY CallTypes DEF Relined

LEMMA CheckRingRelined ==
    ASSUME TypeOK, NEW p \in Ports, CheckRing(p), UNCHANGED fossilInit
    PROVE  Relined
<1>1. UNCHANGED <<hunt, listenSock>>
  BY DEF CheckRing, RingQuiet, DeliverConnect, AutoAnswer, NoAnswer, RingAgain,
         listenVars
<1>2. CASE mode' = mode
  BY <1>1, <1>2 DEF Relined
<1>3. CASE mode' = [mode EXCEPT ![p] = LineMode(p)]
  BY <1>1, <1>3, OneRelined
<1> QED
  BY <1>2, <1>3 DEF CheckRing, RingQuiet, DeliverConnect, AutoAnswer, NoAnswer,
                    RingAgain, lineVars

LEMMA PollStepRelined == SInv /\ PollStep => Relined
<1> SUFFICES ASSUME SInv, PollStep PROVE Relined
  OBVIOUS
<1> USE DEF SInv, TInv
<1>0. TypeOK /\ PollType /\ ModeMatchesSocket
  BY DEF TypeOK, SOwn
<1>1. CASE UNCHANGED <<lineVars, listenVars, fossilVars>>
  BY <1>1 DEF Relined, lineVars, listenVars, fossilVars
<1>2. CASE PollDrain \/ HuntSkip \/ PortNoCaller \/ NothingToClose \/ PortTraffic
             \/ \E s \in Socks : HuntReject(s) \/ PortBusyReject(s)
  BY <1>1, <1>2 DEF PollDrain, HuntSkip, PortNoCaller, NothingToClose, PortTraffic,
                    HuntReject, PortBusyReject, TurnAway
<1>3. CASE \E s \in Socks : HuntAccept(s)
  <2>1. PICK s \in Socks, p \in Ports : TakeCall(p, s, net)
    BY <1>3 DEF HuntAccept
  <2> QED
    BY <1>0, <2>1, OneRelined DEF TakeCall, listenVars, fossilVars
<1>4. CASE PortIdle
  <2>1. poll.i \in Ports
    BY <1>0, <1>4, PollAdvances DEF PortIdle
  <2>2. mode[poll.i] # "conn"
    BY <1>0, <1>4, <2>1 DEF PortIdle, Connected, ModeMatchesSocket
  <2> QED
    BY <1>1, <1>4, <2>2 DEF PortIdle, lineVars
<1>5. CASE \E s \in Socks : PortAccept(s)
  <2>1. PICK s \in Socks : PortAccept(s)
    BY <1>5
  <2>2. poll.i \in Ports
    BY <1>0, <2>1, PollAdvances DEF PortAccept
  <2> QED
    BY <1>0, <2>1, <2>2, OneRelined DEF PortAccept, TakeCall, listenVars, fossilVars
<1>6. CASE PortRing \/ StatusTail
  <2>1. PICK p \in Ports : CheckRing(p)
    BY <1>0, <1>6, PollAdvances DEF PortRing, StatusTail, PollType
  <2> QED
    BY <1>0, <1>6, <2>1, CheckRingRelined DEF PortRing, StatusTail, fossilVars
<1>7. CASE PollClose \/ PortIdleTimeout \/ PortDisconnect
  <2>1. poll.i \in Ports /\ EndCall(poll.i)
    BY <1>0, <1>7, PollAdvances DEF PollClose, PortIdleTimeout, PortDisconnect
  <2> QED
    BY <1>0, <2>1, OneRelined DEF EndCall, listenVars, fossilVars
<1> QED
  BY <1>2, <1>3, <1>4, <1>5, <1>6, <1>7 DEF PollStep

\* AH=04h listens for its port, unless it found no socket to listen with.
LEMMA FossilInitAlive ==
    ASSUME SInv, NoDeadLine, NEW p \in Ports, FossilInit(p)
    PROVE  NoDeadLine'
<1> USE DEF SInv, TInv
<1> DEFINE disc == pendingClose[p] \/ (Connected(p) /\ purgeSeen[p] >= 3)
           m == IF disc THEN LineMode(p) ELSE mode[p]
           n == IF disc /\ sock[p] # NoSock THEN NetClosing(sock[p]) ELSE net
<1>1. OpenListener(p, m, n) /\ hunt' = hunt
      /\ fossilInit' = [fossilInit EXCEPT ![p] = TRUE]
  BY DEF FossilInit
<1> HIDE DEF m, n
<1> SUFFICES ASSUME NEW q \in Ports, fossilInit'[q], hunt[q] = NoGroup,
                    listenSock'[q] # NoSock
             PROVE  mode'[q] # "disc"
  BY <1>1 DEF NoDeadLine
<1>2. CASE q # p
  <2>1. /\ fossilInit[q] /\ mode'[q] = mode[q]
        /\ listenSock'[q] = listenSock[q]
    BY <1>1, <1>2, CallTypes DEF OpenListener, PortSocks
  <2> QED
    BY <2>1 DEF NoDeadLine
<1>3. CASE q = p
  <2>1. mode'[p] \in {"conn", "listen"}
          \/ (m # "conn" /\ listenSock[p] = NoSock /\ listenSock' = listenSock)
    BY <1>1, CallTypes DEF OpenListener
  <2> QED
    BY <1>3, <2>1
<1> QED
  BY <1>2, <1>3

LEMMA CallAlive ==
    ASSUME SInv, NoDeadLine, NEW p \in Ports, Fossil(p) \/ AtCommand(p)
    PROVE  NoDeadLine'
<1> USE DEF SInv, TInv
<1>1. CASE FossilInit(p)
  BY <1>1, FossilInitAlive
<1>2. CASE ~FossilInit(p)
  <2>1. UNCHANGED <<lineVars, listenVars>>
    BY <1>2 DEF Fossil, StatusPoll, StartPoll, FossilDeinit, DropDtr, RaiseDtr,
         PurgeOutput, AtCommand, AtAnswer, AtEscape, AtHangup, AtOnline, AtReset,
         AtIgnoreDtr, AtSetS0, AtSetIdle
  <2>2. fossilInit' = fossilInit \/ fossilInit' = [fossilInit EXCEPT ![p] = FALSE]
    BY <1>2 DEF Fossil, StatusPoll, StartPoll, FossilDeinit, DropDtr, RaiseDtr,
         PurgeOutput, AtCommand, AtAnswer, AtEscape, AtHangup, AtOnline, AtReset,
         AtIgnoreDtr, AtSetS0, AtSetIdle, fossilVars
  <2>3. \A q \in Ports : fossilInit'[q] => fossilInit[q]
    BY <2>2, CallTypes
  <2> QED
    BY <2>1, <2>3 DEF NoDeadLine, lineVars, listenVars
<1> QED
  BY <1>1, <1>2

LEMMA MuxAlive == SInv /\ NoDeadLine /\ Mux => NoDeadLine'
<1> SUFFICES ASSUME SInv, NoDeadLine, Mux PROVE NoDeadLine'
  OBVIOUS
<1> USE DEF SInv, TInv
<1>1. CASE MuxPoll \/ \E p \in Ports : CmdDisconnect(p)
  BY <1>1 DEF MuxPoll, StartPoll, CmdDisconnect, NoDeadLine, lineVars, listenVars,
              fossilVars
<1>2. ASSUME NEW p \in Ports, CmdListen(p) PROVE NoDeadLine'
  <2>1. /\ listenSock' = [listenSock EXCEPT ![p] = NoSock]
        /\ mode' = [mode EXCEPT ![p] = "disc"]
        /\ UNCHANGED <<hunt, fossilInit>>
    BY <1>2 DEF CmdListen, fossilVars
  <2> QED
    BY <2>1, CallTypes DEF NoDeadLine, PortSocks
<1>3. ASSUME NEW mask \in SUBSET Ports, CmdHuntListen(mask) PROVE NoDeadLine'
  <2>1. PICK g \in Groups : hunt' = [p \in Ports |-> IF p \in mask THEN g ELSE hunt[p]]
    BY <1>3 DEF CmdHuntListen
  <2>2. g # NoGroup
    BY DEF Groups, NoGroup
  <2> QED
    BY <1>3, <2>1, <2>2 DEF CmdHuntListen, NoDeadLine, fossilVars
<1> QED
  BY <1>1, <1>2, <1>3 DEF Mux

LEMMA NextAlive == SInv /\ NoDeadLine /\ [Next]_vars => NoDeadLine'
<1> SUFFICES ASSUME SInv, NoDeadLine, [Next]_vars PROVE NoDeadLine'
  OBVIOUS
<1>1. CASE Network \/ Int28Poll \/ UNCHANGED vars
  <2>1. UNCHANGED <<lineVars, listenVars, fossilVars>>
    BY <1>1 DEF Network, ClientConnects, RemoteCloses, ConnectionLost, CloseDone,
                Int28Poll, StartPoll, vars
  <2> QED
    BY <2>1 DEF NoDeadLine, lineVars, listenVars, fossilVars
<1>2. CASE PollStep
  BY <1>2, PollStepRelined, RelinedAlive
<1>3. CASE \E p \in Ports : Fossil(p) \/ AtCommand(p)
  BY <1>3, CallAlive
<1>4. CASE Mux
  BY <1>4, MuxAlive
<1> QED
  BY <1>1, <1>2, <1>3, <1>4 DEF Next

----------------------------------------------------------------------------
(***************************************************************************)
(* A hang-up request seen before the bytes are moved is served there, and  *)
(* no call of the application comes between.                               *)
(***************************************************************************)
LEMMA NextRequestSeen == SInv /\ RequestSeen /\ [Next]_vars => RequestSeen'
<1> SUFFICES ASSUME SInv, RequestSeen, [Next]_vars PROVE RequestSeen'
  OBVIOUS
<1> USE DEF SInv, TInv
<1>0. PollType
  BY DEF TypeOK
<1>1. CASE Network \/ UNCHANGED vars
  <2>1. UNCHANGED <<poll, pendingClose>>
    BY <1>1 DEF Network, ClientConnects, RemoteCloses, ConnectionLost, CloseDone,
                vars, flagVars
  <2> QED
    BY <2>1 DEF RequestSeen
<1>2. CASE NothingToClose
  <2>1. poll'.i = poll.i /\ poll'.safe = poll.safe /\ pendingClose' = pendingClose
    BY <1>0, <1>2 DEF NothingToClose, ToPhase, PollType, flagVars
  <2> QED
    BY <1>2, <2>1 DEF NothingToClose, CloseDue, RequestSeen
<1>3. CASE PollStep /\ ~NothingToClose
  <2>1. \/ poll' = Idle \/ poll' = NextPort
        \/ poll.phase = "hunt" /\ poll' = NextGroup
        \/ poll' = ToPhase("hunt") \/ poll' = ToPhase("ring") \/ poll' = ToPhase("close")
    BY <1>3 DEF PollStep, PollDrain, HuntSkip, HuntAccept, HuntReject, PortIdle,
         PortNoCaller, PortAccept, PortBusyReject, PortRing, PollClose,
         PortIdleTimeout, PortDisconnect, PortTraffic, StatusTail
  <2>2. \A ph \in Phases : ToPhase(ph).phase = ph
    BY <1>0 DEF ToPhase, PollType
  <2>3. poll'.phase # "traffic"
    BY <1>0, <2>1, <2>2, NextPhase DEF Idle, Phases
  <2> QED
    BY <2>3 DEF RequestSeen
<1>4. CASE Int28Poll \/ Mux \/ \E p \in Ports : Fossil(p) \/ AtCommand(p)
  <2>1. \/ poll' = poll /\ poll = Idle
        \/ poll'.phase = "drain"
    BY <1>4 DEF Int28Poll, StartPoll, Mux, MuxPoll, CmdDisconnect, CmdListen,
         CmdHuntListen, Fossil, StatusPoll, FossilInit, FossilDeinit, DropDtr,
         RaiseDtr, PurgeOutput, AtCommand, AtAnswer, AtEscape, AtHangup, AtOnline,
         AtReset, AtIgnoreDtr, AtSetS0, AtSetIdle, CanCall, CanCommand
  <2> QED
    BY <2>1 DEF RequestSeen, Idle
<1> QED
  BY <1>1, <1>2, <1>3, <1>4 DEF Next

LEMMA InitCInv == Init => CInv
<1> SUFFICES ASSUME Init PROVE CInv
  OBVIOUS
<1>1. SInv
  BY InitTInv, InitSOwn DEF SInv
<1>2. Calls
  BY DEF Init, Calls, PortCall, CallerRings, RingsUnanswered, QuietLine, Connected
<1>3. NoDeadLine /\ RequestSeen
  BY DEF Init, NoDeadLine, RequestSeen, Idle
<1> QED
  BY <1>1, <1>2, <1>3 DEF CInv

LEMMA AlwaysCInv == Spec => []CInv
<1>1. CInv /\ [Next]_vars => CInv'
  BY NextSInv, NextCalls, NextAlive, NextRequestSeen DEF CInv
<1> QED
  BY <1>1, InitCInv, PTL DEF Spec

\* A caller nobody has answered hears ringing, whatever the application calls and
\* whenever it re-initialises its port (int14.c:572); CONNECT is reported only for
\* a call that somebody answered.
THEOREM CallersHearRinging == Spec => []UnansweredCallRings
<1>1. CInv => UnansweredCallRings
  BY DEF CInv, Calls, PortCall, CallerRings, UnansweredCallRings
<1> QED
  BY <1>1, AlwaysCInv, PTL

\* A standalone port in service with a listening socket listens or is in a call,
\* whichever of the ways to end a call was taken (poll.c:372, atcmd.c:242,
\* int14.c:536).
THEOREM LinesAlive == Spec => []NoDeadLine
<1>1. CInv => NoDeadLine
  BY DEF CInv
<1> QED
  BY <1>1, AlwaysCInv, PTL

----------------------------------------------------------------------------
(***************************************************************************)
(* How an answered call ends.                                              *)
(***************************************************************************)
\* at_check_ring gives up on calls that ring, so never on an answered one.
LEMMA CheckRingSparesAnswered ==
    ASSUME TypeOK, Calls, NEW p \in Ports, NEW q \in Ports, CheckRing(q), answered[p]
    PROVE  sock'[p] = sock[p]
<1>1. CASE NoAnswer(q)
  <2>1. p # q
    BY <1>1 DEF NoAnswer, RingDue, Calls, PortCall, RingsUnanswered
  <2> QED
    BY <1>1, <2>1, CallTypes DEF NoAnswer, PortSocks
<1> QED
  BY <1>1 DEF CheckRing, RingQuiet, DeliverConnect, AutoAnswer, RingAgain, lineVars

LEMMA AnsweredCallEnds ==
    ASSUME CInv, [Next]_vars, NEW p \in Ports,
           sock[p] # NoSock, sock'[p] # sock[p], answered[p]
    PROVE  /\ ~pendingClose'[p] \/ mode'[p] = "disc"
           /\ poll.safe \/ poll.phase = "idle"
<1> USE DEF CInv, SInv, TInv
<1>0. TypeOK /\ PollType /\ ModeMatchesSocket
  BY DEF TypeOK, SOwn
<1>1. CASE PollClose \/ PortIdleTimeout \/ PortDisconnect
  <2>1. poll.i \in Ports /\ EndCall(poll.i) /\ poll.safe
    BY <1>0, <1>1, PollAdvances
       DEF PollClose, PortIdleTimeout, PortDisconnect, CloseDue
  <2>2. p = poll.i
    BY <2>1, <1>0, CallTypes DEF EndCall, PortSocks
  <2>3. ~pendingClose'[poll.i]
    BY <1>0, <1>1, <2>1, CallTypes
       DEF PollClose, ClearRequest, PortIdleTimeout, PortDisconnect, RequestSeen
  <2> QED
    BY <2>1, <2>2, <2>3
<1>2. CASE PortRing \/ StatusTail
  <2>1. PICK q \in Ports : CheckRing(q)
    BY <1>0, <1>2, PollAdvances DEF PortRing, StatusTail, PollType
  <2> QED
    BY <1>0, <2>1, CheckRingSparesAnswered
<1>3. CASE \E s \in Socks : HuntAccept(s)
  <2>1. PICK s \in Socks, q \in Ports :
           IsFirst(q, FreeMembers(poll.i)) /\ TakeCall(q, s, net)
    BY <1>3 DEF HuntAccept
  <2>2. sock[q] = NoSock
    BY <2>1 DEF IsFirst, FreeMembers
  <2> QED
    BY <1>0, <2>1, <2>2, CallTypes DEF TakeCall, PortSocks
<1>4. CASE \E s \in Socks : PortAccept(s)
  <2>1. PICK s \in Socks : PortAccept(s)
    BY <1>4
  <2>2. poll.i \in Ports /\ sock[poll.i] = NoSock
    BY <1>0, <2>1, PollAdvances DEF PortAccept, Accepts, ModeMatchesSocket
  <2> QED
    BY <1>0, <2>1, <2>2, CallTypes DEF PortAccept, TakeCall, PortSocks
<1>5. CASE \/ PollDrain \/ HuntSkip \/ PortNoCaller \/ NothingToClose \/ PortTraffic
           \/ PortIdle \/ \E s \in Socks : HuntReject(s) \/ PortBusyReject(s)
  BY <1>5 DEF PollDrain, HuntSkip, PortNoCaller, NothingToClose, PortTraffic,
              PortIdle, HuntReject, PortBusyReject, TurnAway, lineVars
<1>6. CASE Network \/ Int28Poll \/ UNCHANGED vars
  BY <1>6 DEF Network, ClientConnects, RemoteCloses, ConnectionLost, CloseDone,
              Int28Poll, StartPoll, vars, lineVars
<1>7. CASE \E q \in Ports : Fossil(q) \/ AtCommand(q)
  <2>1. PICK q \in Ports : Fossil(q) \/ AtCommand(q)
    BY <1>7
  <2>2. FossilInit(q)
    BY <2>1 DEF Fossil, StatusPoll, StartPoll, FossilDeinit, DropDtr, RaiseDtr,
         PurgeOutput, AtCommand, AtAnswer, AtEscape, AtHangup, AtOnline, AtReset,
         AtIgnoreDtr, AtSetS0, AtSetIdle, lineVars
  <2>3. poll.phase = "idle" /\ pendingClose' = [pendingClose EXCEPT ![q] = FALSE]
    BY <2>2 DEF FossilInit, CanCall, Idle
  <2>4. p = q
    BY <1>0, <2>2, CallTypes DEF FossilInit, PortSocks
  <2> QED
    BY <1>0, <2>3, <2>4, CallTypes
<1>8. CASE Mux
  <2>1. MuxPoll \/ (\E q \in Ports : CmdDisconnect(q)) => sock' = sock
    BY DEF MuxPoll, StartPoll, CmdDisconnect, lineVars
  <2>2. ASSUME NEW q \in Ports, CmdListen(q)
        PROVE  mode'[p] = "disc" /\ poll.phase = "idle"
    BY <1>0, <2>2, CallTypes DEF CmdListen, CanCall, Idle, PortSocks
  <2>3. ASSUME NEW mask \in SUBSET Ports, CmdHuntListen(mask)
        PROVE  mode'[p] = "disc" /\ poll.phase = "idle"
    BY <2>3 DEF CmdHuntListen, CanCall, Idle
  <2> QED
    BY <1>8, <2>1, <2>2, <2>3 DEF Mux
<1> QED
  BY <1>1, <1>2, <1>3, <1>4, <1>5, <1>6, <1>7, <1>8 DEF Next, PollStep

\* However an answered call ends, the request to hang it up ends with it and does
\* not wait for the next caller, unless MUX_LISTEN took the port out of service
\* (int14.c:529).
THEOREM HangupEndsWithCall == Spec => AnsweredCallTakesHangupWithIt
<1>1. CInv /\ [Next]_vars =>
        [\A p \in Ports :
            sock[p] # NoSock /\ sock'[p] # sock[p] /\ answered[p]
                => ~pendingClose'[p] \/ mode'[p] = "disc"]_vars
  BY AnsweredCallEnds
<1> QED
  BY <1>1, AlwaysCInv, PTL DEF Spec, AnsweredCallTakesHangupWithIt

\* An answered call is ended by a poll that may transmit or by a call of the
\* application, never inside a poll made by MUX_POLL (poll.c:366 and 551).
THEOREM CallsEndSafely == Spec => AnsweredCallEndsInSafeContext
<1>1. CInv /\ [Next]_vars =>
        [\A p \in Ports :
            sock[p] # NoSock /\ sock'[p] # sock[p] /\ answered[p]
                => poll.safe \/ poll.phase = "idle"]_vars
  BY AnsweredCallEnds
<1> QED
  BY <1>1, AlwaysCInv, PTL DEF Spec, AnsweredCallEndsInSafeContext
=============================================================================
